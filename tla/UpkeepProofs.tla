---------------------------- MODULE UpkeepProofs ----------------------------
(***************************************************************************)
(* The upkeep of a vehicle is correct for any interventions, incidents and *)
(* instants, any number of causes, and any order of requests.  The causes  *)
(* and the rows of immobilizations change together, in two operations:     *)
(* opening a cause and closing some of them.  Each keeps the outage        *)
(* consistent, and each is a step of the abstract downtime or none.        *)
(***************************************************************************)
EXTENDS Upkeep, SequenceTheorems, TLAPS

Period == [from : Instants, to : Instants \cup {Open}]
CauseOf(n) == [of : 1..n, source : Sources, from : Instants, to : Instants \cup {Open}]

\* The outage alone: rows and causes, which agree.
OutageOK ==
  /\ immobilization \in Seq(Period) /\ cause \in Seq(CauseOf(Len(immobilization)))
  /\ Permitted(immobilization) /\ PeriodsSummariseCauses

Row == [status : OpenStatuses \cup Concluded \cup {"ABSENTE"}, cost : Costs,
        incident : Incidents \cup {NoIncident}]

\* The rest of the state.
RecordsOK ==
  /\ now \in Instants
  /\ intervention \in [Interventions -> Row] /\ expense \in [Interventions -> {0, 1}]
  /\ incident \in [Incidents -> {"OUVERT", "EN_TRAITEMENT", "RESOLU", "CLOTURE"}]
  /\ admitted \subseteq Requests

\* The cost of an intervention is entered on completion only.
CostsOnCompletion ==
  \A n \in Interventions : intervention[n].status # "TERMINEE" => intervention[n].cost = "A_SAISIR"

BooksOK == RecordsOK /\ CostsInTheBooks /\ CostsOnCompletion

IInv == OutageOK /\ BooksOK

----------------------------------------------------------------------------
(* Rows and causes *)

\* A function on 1..n is a sequence of length n.
LEMMA FunctionIsSeq ==
  ASSUME NEW S, NEW n \in Nat, NEW f \in [1..n -> S]
  PROVE  f \in Seq(S) /\ Len(f) = n /\ DOMAIN f = 1..n
OBVIOUS

\* The rows of immobilizations and causes, and their fields, have their types.
LEMMA Rows ==
  ASSUME OutageOK
  PROVE  /\ Len(immobilization) \in Nat /\ Len(cause) \in Nat
         /\ DOMAIN immobilization = 1..Len(immobilization) /\ DOMAIN cause = 1..Len(cause)
         /\ \A k \in DOMAIN immobilization :
              /\ immobilization[k] \in Period
              /\ immobilization[k].from \in Instants
              /\ immobilization[k].to \in Instants \cup {Open}
         /\ \A j \in DOMAIN cause :
              /\ cause[j] \in CauseOf(Len(immobilization))
              /\ cause[j].of \in DOMAIN immobilization
              /\ cause[j].from \in Instants /\ cause[j].to \in Instants \cup {Open}
<1>1. /\ Len(immobilization) \in Nat /\ Len(cause) \in Nat
      /\ DOMAIN immobilization = 1..Len(immobilization) /\ DOMAIN cause = 1..Len(cause)
  BY LenProperties DEF OutageOK
<1>2. \A k \in DOMAIN immobilization : immobilization[k] \in Period
  BY <1>1, ElementOfSeq DEF OutageOK
<1>3. \A j \in DOMAIN cause : cause[j] \in CauseOf(Len(immobilization))
  BY <1>1, ElementOfSeq DEF OutageOK
<1> QED
  BY <1>1, <1>2, <1>3 DEF Period, CauseOf

\* A period summarises some of the causes.
Summarises(row, S, causes) ==
  /\ row.to = Open <=> \E j \in S : causes[j].to = Open
  /\ \E j \in S : causes[j].from = row.from
  /\ \A j \in S : row.from <= causes[j].from
  /\ row.to # Open => /\ \E j \in S : causes[j].to = row.to
                      /\ \A j \in S : causes[j].to <= row.to

\* Each immobilization summarises its causes.
LEMMA Summary ==
  ASSUME OutageOK, NEW k \in DOMAIN immobilization
  PROVE  Summarises(immobilization[k], CausesOf(k), cause)
BY DEF OutageOK, PeriodsSummariseCauses, Summarises

\* A row that summarises causes still does when these causes are unchanged.
LEMMA SameCauses ==
  ASSUME NEW row, NEW S, NEW causes, NEW others, \A j \in S : others[j] = causes[j],
         Summarises(row, S, causes)
  PROVE  Summarises(row, S, others)
BY DEF Summarises

\* Instants are natural numbers, and differ from the mark of an open end.
LEMMA InstantFacts == 0 \in Instants /\ Open \notin Instants /\ Instants \subseteq Nat
BY UpkeepAssumption DEF Instants, Open

\* Two active immobilizations would overlap.
LEMMA OneActive ==
  ASSUME OutageOK, NEW k \in Active, NEW l \in Active
  PROVE  k = l
BY DEF OutageOK, Permitted, Overlap, Active

\* The cause joins the rows, and so does its start.
LEMMA Appended ==
  ASSUME OutageOK, NEW n \in Nat, Len(immobilization) <= n, NEW c \in CauseOf(n),
         cause' = Append(cause, c)
  PROVE  /\ cause' \in Seq(CauseOf(n))
         /\ DOMAIN cause' = DOMAIN cause \cup {Len(cause) + 1}
         /\ Len(cause) + 1 \notin DOMAIN cause
         /\ cause'[Len(cause) + 1] = c
         /\ \A j \in DOMAIN cause : cause'[j] = cause[j]
<1>1. CauseOf(Len(immobilization)) \subseteq CauseOf(n)
  BY Rows DEF CauseOf
<1>2. cause \in Seq(CauseOf(n))
  BY <1>1, SeqMonotonic DEF OutageOK
<1>3. /\ Append(cause, c) \in Seq(CauseOf(n)) /\ Len(Append(cause, c)) = Len(cause) + 1
      /\ \A j \in 1..Len(cause) : Append(cause, c)[j] = cause[j]
      /\ Append(cause, c)[Len(cause) + 1] = c
  BY <1>2, AppendProperties
<1>4. DOMAIN cause' = 1..(Len(cause) + 1) /\ DOMAIN cause = 1..Len(cause) /\ Len(cause) \in Nat
  BY <1>3, Rows, LenProperties
<1> QED
  BY <1>3, <1>4

----------------------------------------------------------------------------
(* The abstract downtime *)

Step == [Promise!Next]_<<downSince, downPast>>

\* The vehicle is down exactly since the start of its active immobilization.
LEMMA Down ==
  ASSUME OutageOK
  PROVE  /\ Active = {} => downSince = Open
         /\ \A k \in Active : downSince = immobilization[k].from
<1>1. ASSUME NEW k \in Active PROVE downSince = immobilization[k].from
  <2>1. (CHOOSE l \in Active : TRUE) = k
    BY OneActive
  <2> QED
    BY <2>1 DEF downSince
<1> QED
  BY <1>1 DEF downSince

\* A step that leaves the rows alone leaves the downtime alone.
LEMMA RowsAlone == immobilization' = immobilization => Step
BY DEF Step, downSince, downPast, Active

\* The first cause begins an immobilization.
LEMMA BeginKeeps ==
  ASSUME OutageOK, NEW s \in Sources, NEW t \in Instants, Active = {},
         immobilization' = Append(immobilization, [from |-> t, to |-> Open]),
         cause' = Append(cause, [of |-> Len(immobilization) + 1, source |-> s, from |-> t,
                                 to |-> Open]),
         Permitted(immobilization')
  PROVE  OutageOK' /\ Step
<1> DEFINE n == Len(immobilization)  m == Len(cause)
           i == immobilization'  c == cause'
<1>1. /\ n \in Nat /\ DOMAIN immobilization = 1..n /\ DOMAIN cause = 1..m /\ m \in Nat
      /\ immobilization \in Seq(Period)
  BY Rows DEF OutageOK
<1>2. /\ i \in Seq(Period) /\ Len(i) = n + 1 /\ i[n + 1] = [from |-> t, to |-> Open]
      /\ \A k \in 1..n : i[k] = immobilization[k]
      /\ DOMAIN i = 1..(n + 1)
  <2>1. [from |-> t, to |-> Open] \in Period
    BY DEF Period
  <2> QED
    BY <1>1, <2>1, AppendProperties, LenProperties
<1>3. /\ c \in Seq(CauseOf(n + 1)) /\ DOMAIN c = DOMAIN cause \cup {m + 1}
      /\ m + 1 \notin DOMAIN cause
      /\ c[m + 1] = [of |-> n + 1, source |-> s, from |-> t, to |-> Open]
      /\ \A j \in DOMAIN cause : c[j] = cause[j]
  <2>1. [of |-> n + 1, source |-> s, from |-> t, to |-> Open] \in CauseOf(n + 1)
    BY <1>1 DEF CauseOf
  <2> QED
    BY <1>1, <2>1, Appended
<1> HIDE DEF n, m, i, c
<1>4. \A j \in DOMAIN cause : cause[j].of \in 1..n
  BY <1>1, Rows DEF n
<1>5. PeriodsSummariseCauses'
  <2> SUFFICES ASSUME NEW k \in 1..(n + 1)
               PROVE  Summarises(i[k], {j \in DOMAIN c : c[j].of = k}, c)
    BY <1>2 DEF PeriodsSummariseCauses, CausesOf, Summarises, i, c
  <2>1. CASE k = n + 1
    <3>1. {j \in DOMAIN c : c[j].of = k} = {m + 1}
      BY <1>1, <1>3, <1>4, <2>1
    <3>2. t <= t
      BY InstantFacts
    <3> QED
      BY <1>2, <1>3, <2>1, <3>1, <3>2 DEF Summarises
  <2>2. CASE k \in 1..n
    <3>1. {j \in DOMAIN c : c[j].of = k} = CausesOf(k)
      BY <1>1, <1>3, <2>2 DEF CausesOf
    <3>2. \A j \in CausesOf(k) : c[j] = cause[j]
      BY <1>3 DEF CausesOf
    <3>3. i[k] = immobilization[k] /\ k \in DOMAIN immobilization
      BY <1>1, <1>2, <2>2
    <3>4. Summarises(immobilization[k], CausesOf(k), cause)
      BY <3>3, Summary
    <3>5. Summarises(immobilization[k], CausesOf(k), c)
      BY <3>2, <3>4, SameCauses
    <3> QED
      BY <3>1, <3>3, <3>5
  <2> QED
    BY <1>1, <2>1, <2>2
<1>6. OutageOK'
  BY <1>2, <1>3, <1>5 DEF OutageOK, i, c
<1>7. Step
  <2>1. Active' = {n + 1}
    BY <1>1, <1>2 DEF Active, i
  <2>2. downSince = Open /\ downSince' = t
    BY <1>2, <1>6, <2>1, Down DEF downSince, i
  <2>3. downPast' = downPast
    <3>1. DOMAIN i \ Active' = DOMAIN immobilization /\ DOMAIN immobilization \ Active = 1..n
      BY <1>1, <1>2, <2>1
    <3> QED
      BY <1>1, <1>2, <3>1 DEF downPast, i
  <2>4. ASSUME NEW p \in downPast, p[1] < p[2] PROVE p[2] <= t
    <3>1. PICK k \in 1..n : p = <<immobilization[k].from, immobilization[k].to>>
      BY <1>1 DEF downPast
    <3>2. immobilization[k].to # Open /\ immobilization[k].to \in Instants
      BY <1>1, <3>1, Rows DEF Active
    <3>3. ~Overlap(i[n + 1], i[k])
      <4>1. n + 1 \in DOMAIN i /\ k \in DOMAIN i /\ n + 1 # k
        BY <1>1, <1>2
      <4> QED
        BY <4>1 DEF Permitted, i
    <3>4. i[n + 1].from = t /\ i[n + 1].to = Open /\ i[k] = immobilization[k]
      BY <1>2
    <3>5. immobilization[k].from < immobilization[k].to
      BY <2>4, <3>1
    <3>6. ~(t < immobilization[k].to)
      BY <3>2, <3>3, <3>4, <3>5 DEF Overlap
    <3>7. p[2] = immobilization[k].to /\ t \in Nat /\ immobilization[k].to \in Nat
      BY <3>1, <3>2, InstantFacts
    <3> QED
      BY <3>6, <3>7
  <2>5. Promise!Begin(t)
    BY <2>2, <2>3, <2>4 DEF Promise!Begin, Promise!Clear, Promise!Up, Open
  <2> QED
    BY <2>5 DEF Step, Promise!Next, Promise!Instants, Instants
<1> QED
  BY <1>6, <1>7

\* A later cause joins the active immobilization, which may start earlier.
LEMMA JoinKeeps ==
  ASSUME OutageOK, NEW s \in Sources, NEW t \in Instants, NEW l \in Active,
         immobilization' = [immobilization EXCEPT ![l].from = Joined(@, t)],
         cause' = Append(cause, [of |-> l, source |-> s, from |-> t, to |-> Open]),
         Permitted(immobilization')
  PROVE  OutageOK' /\ Step
<1> DEFINE n == Len(immobilization)  m == Len(cause)
           i == immobilization'  c == cause'
<1>1. /\ n \in Nat /\ DOMAIN immobilization = 1..n /\ DOMAIN cause = 1..m /\ m \in Nat
      /\ immobilization \in Seq(Period) /\ l \in 1..n
      /\ immobilization[l].to = Open /\ immobilization[l].from \in Instants
      /\ immobilization[l] \in Period
  BY Rows DEF OutageOK, Active
<1>2. PICK from \in Instants :
        /\ i = [immobilization EXCEPT ![l] = [from |-> from, to |-> Open]]
        /\ from = Joined(immobilization[l].from, t)
  <2>1. Joined(immobilization[l].from, t) \in Instants
    BY <1>1 DEF Joined
  <2>2. [immobilization[l] EXCEPT !.from = Joined(immobilization[l].from, t)]
          = [from |-> Joined(immobilization[l].from, t), to |-> Open]
    BY <1>1 DEF Period
  <2>3. immobilization' = [immobilization EXCEPT ![l] =
          [immobilization[l] EXCEPT !.from = Joined(immobilization[l].from, t)]]
    OBVIOUS
  <2> QED
    BY <2>1, <2>2, <2>3
<1>3. /\ from <= t /\ from <= immobilization[l].from
      /\ from = t \/ from = immobilization[l].from
  BY <1>1, <1>2, InstantFacts DEF Joined
<1>4. /\ i \in Seq(Period) /\ Len(i) = n /\ DOMAIN i = 1..n
      /\ i[l] = [from |-> from, to |-> Open]
      /\ \A k \in 1..n \ {l} : i[k] = immobilization[k]
  <2>1. [from |-> from, to |-> Open] \in Period
    BY DEF Period
  <2>2. i \in Seq(Period) /\ Len(i) = n
    <3>1. l \in 1..Len(immobilization) /\ immobilization \in Seq(Period)
      BY <1>1
    <3>2. /\ [immobilization EXCEPT ![l] = [from |-> from, to |-> Open]] \in Seq(Period)
          /\ Len([immobilization EXCEPT ![l] = [from |-> from, to |-> Open]]) = Len(immobilization)
      BY <2>1, <3>1, ExceptSeq
    <3> QED
      BY <1>2, <3>2
  <2> QED
    BY <1>1, <1>2, <2>2, LenProperties
<1>5. /\ c \in Seq(CauseOf(n)) /\ DOMAIN c = DOMAIN cause \cup {m + 1}
      /\ m + 1 \notin DOMAIN cause
      /\ c[m + 1] = [of |-> l, source |-> s, from |-> t, to |-> Open]
      /\ \A j \in DOMAIN cause : c[j] = cause[j]
  <2>1. [of |-> l, source |-> s, from |-> t, to |-> Open] \in CauseOf(n)
    BY <1>1 DEF CauseOf
  <2> QED
    BY <1>1, <2>1, Appended
<1> HIDE DEF n, m, i, c
<1>6. PeriodsSummariseCauses'
  <2> SUFFICES ASSUME NEW k \in 1..n
               PROVE  Summarises(i[k], {j \in DOMAIN c : c[j].of = k}, c)
    BY <1>4 DEF PeriodsSummariseCauses, CausesOf, Summarises, i, c
  <2>1. CASE k = l
    <3>1. {j \in DOMAIN c : c[j].of = k} = CausesOf(l) \cup {m + 1}
      BY <1>5, <2>1 DEF CausesOf
    <3>2. \A j \in CausesOf(l) : c[j] = cause[j] /\ cause[j].from \in Instants
      BY <1>5, Rows DEF CausesOf
    <3>3. /\ \E j \in CausesOf(l) : cause[j].from = immobilization[l].from
          /\ \A j \in CausesOf(l) : immobilization[l].from <= cause[j].from
      BY <1>1 DEF OutageOK, PeriodsSummariseCauses
    <3>4. \A j \in CausesOf(l) : from <= cause[j].from
      BY <1>1, <1>3, <3>2, <3>3, InstantFacts
    <3> QED
      BY <1>3, <1>4, <1>5, <2>1, <3>1, <3>2, <3>3, <3>4 DEF Summarises
  <2>2. CASE k # l
    <3>1. {j \in DOMAIN c : c[j].of = k} = CausesOf(k)
      BY <1>5, <2>2 DEF CausesOf
    <3>2. \A j \in CausesOf(k) : c[j] = cause[j]
      BY <1>5 DEF CausesOf
    <3>3. i[k] = immobilization[k] /\ k \in DOMAIN immobilization
      BY <1>1, <1>4, <2>2
    <3>4. Summarises(immobilization[k], CausesOf(k), cause)
      BY <3>3, Summary
    <3>5. Summarises(immobilization[k], CausesOf(k), c)
      BY <3>2, <3>4, SameCauses
    <3> QED
      BY <3>1, <3>3, <3>5
  <2> QED
    BY <2>1, <2>2
<1>7. OutageOK'
  BY <1>4, <1>5, <1>6 DEF OutageOK, i, c
<1>8. Step
  <2>1. Active' = Active
    <3>1. \A k \in 1..n : i[k].to = Open <=> immobilization[k].to = Open
      BY <1>1, <1>4
    <3>2. DOMAIN i = 1..n /\ DOMAIN immobilization = 1..n
      BY <1>1, <1>4
    <3> QED
      BY <3>1, <3>2 DEF Active, i
  <2>2. downSince = immobilization[l].from /\ downSince' = from
    <3>1. Active = {l}
      BY OneActive
    <3>2. (CHOOSE k \in {l} : TRUE) = l
      OBVIOUS
    <3> QED
      BY <1>4, <2>1, <3>1, <3>2 DEF downSince, i
  <2>3. downPast' = downPast
    BY <1>1, <1>4, <2>1 DEF downPast, Active, i
  <2>4. ASSUME NEW p \in downPast, p[1] < p[2] PROVE p[2] <= from
    <3>1. PICK k \in 1..n : k \notin Active /\ p = <<immobilization[k].from, immobilization[k].to>>
      BY <1>1 DEF downPast
    <3>2. immobilization[k].to # Open /\ immobilization[k].to \in Instants /\ k # l
      BY <1>1, <3>1, Rows DEF Active
    <3>3. ~Overlap(i[l], i[k])
      <4>1. l \in DOMAIN i /\ k \in DOMAIN i
        BY <1>1, <1>4
      <4> QED
        BY <3>2, <4>1 DEF Permitted, i
    <3>4. i[l].from = from /\ i[l].to = Open /\ i[k] = immobilization[k]
      BY <1>4, <3>2
    <3>5. immobilization[k].from < immobilization[k].to
      BY <2>4, <3>1
    <3>6. ~(from < immobilization[k].to)
      BY <3>2, <3>3, <3>4, <3>5 DEF Overlap
    <3>7. p[2] = immobilization[k].to /\ from \in Nat /\ immobilization[k].to \in Nat
      BY <3>1, <3>2, InstantFacts
    <3> QED
      BY <3>6, <3>7
  <2>5. CASE from = immobilization[l].from
    BY <2>2, <2>3, <2>5 DEF Step
  <2>6. CASE from # immobilization[l].from
    <3>1. from < immobilization[l].from /\ downSince # Open
      BY <1>1, <1>3, <2>2, <2>6, InstantFacts
    <3>2. Promise!Advance(from)
      BY <2>2, <2>3, <2>4, <3>1 DEF Promise!Advance, Promise!Clear, Promise!Up, Open
    <3> QED
      BY <3>2 DEF Step, Promise!Next, Promise!Instants, Instants
  <2> QED
    BY <2>5, <2>6
<1> QED
  BY <1>7, <1>8

\* Opening a cause, in a new immobilization or the active one.
LEMMA OpenKeeps ==
  ASSUME OutageOK, NEW s \in Sources, NEW t \in Instants, OpenCause(s, t)
  PROVE  OutageOK' /\ Step
BY BeginKeeps, JoinKeeps DEF OpenCause

\* Closing causes ends the immobilization with the last of them.
LEMMA CloseKeeps ==
  ASSUME OutageOK, NEW k \in Active, NEW S \in SUBSET CausesOf(k), NEW t \in Instants,
         CloseCauses(k, S, t)
  PROVE  OutageOK' /\ Step
<1> DEFINE n == Len(immobilization)  i == immobilization'  c == cause'
<1>1. /\ n \in Nat /\ DOMAIN immobilization = 1..n
      /\ immobilization \in Seq(Period) /\ k \in 1..n /\ k \in 1..Len(immobilization)
      /\ immobilization[k].to = Open /\ immobilization[k].from \in Instants
      /\ immobilization[k] \in Period
  BY Rows DEF OutageOK, Active
<1>2. /\ c \in Seq(CauseOf(n)) /\ DOMAIN c = DOMAIN cause
      /\ \A j \in DOMAIN cause : /\ c[j].of = cause[j].of /\ c[j].from = cause[j].from
                                 /\ c[j].to = (IF j \in S THEN t ELSE cause[j].to)
  <2>1. c = [j \in DOMAIN cause |-> IF j \in S THEN [cause[j] EXCEPT !.to = t] ELSE cause[j]]
    BY DEF CloseCauses
  <2>2. ASSUME NEW j \in DOMAIN cause
        PROVE  /\ c[j] \in CauseOf(n)
               /\ c[j].of = cause[j].of /\ c[j].from = cause[j].from
               /\ c[j].to = (IF j \in S THEN t ELSE cause[j].to)
    <3>1. cause[j] \in CauseOf(n)
      BY Rows
    <3>2. c[j] = IF j \in S THEN [cause[j] EXCEPT !.to = t] ELSE cause[j]
      BY <2>1
    <3> QED
      BY <3>1, <3>2 DEF CauseOf
  <2>3. DOMAIN cause = 1..Len(cause) /\ Len(cause) \in Nat /\ DOMAIN c = DOMAIN cause
    BY <2>1, Rows
  <2>4. c \in [1..Len(cause) -> CauseOf(n)]
    <3>1. c = [j \in 1..Len(cause) |-> c[j]]
      BY <2>1, <2>3
    <3> QED
      BY <2>2, <2>3, <3>1
  <2>5. c \in Seq(CauseOf(n))
    BY <2>3, <2>4, FunctionIsSeq
  <2> QED
    BY <2>2, <2>3, <2>5
<1> HIDE DEF n, i, c
<1>3. \A q : {j \in DOMAIN c : c[j].of = q} = CausesOf(q)
  BY <1>2 DEF CausesOf
<1>4. ASSUME NEW q \in 1..n, q # k, i[q] = immobilization[q]
      PROVE  LET causes == CausesOf(q) IN
             /\ i[q].to = Open <=> \E j \in causes : c[j].to = Open
             /\ \E j \in causes : c[j].from = i[q].from
             /\ \A j \in causes : i[q].from <= c[j].from
             /\ i[q].to # Open => /\ \E j \in causes : c[j].to = i[q].to
                                  /\ \A j \in causes : c[j].to <= i[q].to
  <2>1. \A j \in CausesOf(q) : c[j].from = cause[j].from /\ c[j].to = cause[j].to
    BY <1>2, <1>4 DEF CausesOf
  <2>2. q \in DOMAIN immobilization
    BY <1>1
  <2> QED
    BY <1>4, <2>1, <2>2 DEF OutageOK, PeriodsSummariseCauses
<1>5. /\ \E j \in CausesOf(k) : c[j].from = immobilization[k].from
      /\ \A j \in CausesOf(k) : immobilization[k].from <= c[j].from
  <2>1. \A j \in CausesOf(k) : c[j].from = cause[j].from
    BY <1>2 DEF CausesOf
  <2>2. k \in DOMAIN immobilization
    BY <1>1
  <2> QED
    BY <2>1, <2>2 DEF OutageOK, PeriodsSummariseCauses
<1>6. CASE i = immobilization /\ \E j \in CausesOf(k) : c[j].to = Open
  <2>1. PeriodsSummariseCauses'
    <3> SUFFICES ASSUME NEW q \in 1..n
                 PROVE  LET causes == {j \in DOMAIN c : c[j].of = q} IN
                        /\ i[q].to = Open <=> \E j \in causes : c[j].to = Open
                        /\ \E j \in causes : c[j].from = i[q].from
                        /\ \A j \in causes : i[q].from <= c[j].from
                        /\ i[q].to # Open => /\ \E j \in causes : c[j].to = i[q].to
                                             /\ \A j \in causes : c[j].to <= i[q].to
      BY <1>1, <1>6 DEF PeriodsSummariseCauses, CausesOf, i, c
    <3> QED
      BY <1>1, <1>3, <1>4, <1>5, <1>6
  <2>2. OutageOK'
    BY <1>2, <1>6, <2>1 DEF OutageOK, i, c, n
  <2> QED
    BY <1>6, <2>2, RowsAlone DEF i
<1>7. CASE \E end \in Instants :
             /\ IsFinalEnd({c[j].to : j \in CausesOf(k)}, t, end)
             /\ i = [immobilization EXCEPT ![k].to = end]
             /\ \A j \in CausesOf(k) : c[j].to # Open
             /\ Permitted(i)
  <2>1. PICK end \in Instants :
             /\ IsFinalEnd({c[j].to : j \in CausesOf(k)}, t, end)
             /\ i = [immobilization EXCEPT ![k].to = end]
             /\ \A j \in CausesOf(k) : c[j].to # Open
             /\ Permitted(i)
    BY <1>7
  <2> DEFINE row == [from |-> immobilization[k].from, to |-> end]
  <2>2. /\ i \in Seq(Period) /\ Len(i) = n /\ DOMAIN i = 1..n
        /\ i[k] = row /\ \A q \in 1..n \ {k} : i[q] = immobilization[q]
    <3>1. row \in Period
      BY <1>1 DEF Period
    <3>2. [immobilization[k] EXCEPT !.to = end] = row
      BY <1>1 DEF Period
    <3>3. i = [immobilization EXCEPT ![k] = [immobilization[k] EXCEPT !.to = end]]
      BY <2>1
    <3>4. i = [immobilization EXCEPT ![k] = row]
      BY <3>2, <3>3
    <3> HIDE DEF row
    <3>5. /\ [immobilization EXCEPT ![k] = row] \in Seq(Period)
          /\ Len([immobilization EXCEPT ![k] = row]) = Len(immobilization)
          /\ \A q \in 1..Len(immobilization) :
               [immobilization EXCEPT ![k] = row][q] = IF q = k THEN row ELSE immobilization[q]
      BY <1>1, <3>1, ExceptSeq
    <3> QED
      BY <1>1, <3>4, <3>5, LenProperties DEF n
  <2>3. /\ i[k].from = immobilization[k].from /\ i[k].to = end /\ end # Open
    BY <2>2, InstantFacts
  <2> HIDE DEF row
  <2>4. /\ \E j \in CausesOf(k) : c[j].to = end
        /\ \A j \in CausesOf(k) : c[j].to <= end
    BY <2>1 DEF IsFinalEnd
  <2>5. PeriodsSummariseCauses'
    <3> SUFFICES ASSUME NEW q \in 1..n
                 PROVE  LET causes == {j \in DOMAIN c : c[j].of = q} IN
                        /\ i[q].to = Open <=> \E j \in causes : c[j].to = Open
                        /\ \E j \in causes : c[j].from = i[q].from
                        /\ \A j \in causes : i[q].from <= c[j].from
                        /\ i[q].to # Open => /\ \E j \in causes : c[j].to = i[q].to
                                             /\ \A j \in causes : c[j].to <= i[q].to
      BY <2>2 DEF PeriodsSummariseCauses, CausesOf, i, c
    <3>1. CASE q = k
      BY <1>3, <1>5, <2>1, <2>3, <2>4, <3>1
    <3>2. CASE q # k
      BY <1>3, <1>4, <2>2, <3>2
    <3> QED
      BY <3>1, <3>2
  <2>6. OutageOK'
    BY <1>2, <2>1, <2>2, <2>5 DEF OutageOK, i, c
  <2>7. Step
    <3>1. Active = {k} /\ (CHOOSE q \in {k} : TRUE) = k
      BY OneActive
    <3>2. Active' = {}
      <4>1. \A q \in 1..n : q # k => immobilization[q].to # Open
        BY <1>1, <3>1 DEF Active
      <4>2. \A q \in 1..n : i[q].to # Open
        BY <2>2, <2>3, <4>1
      <4> QED
        BY <2>2, <4>2 DEF Active, i
    <3>3. downSince = immobilization[k].from /\ downSince' = Open
      BY <3>1, <3>2 DEF downSince
    <3>4. downPast' = downPast \cup {<<immobilization[k].from, end>>}
      <4>1. downPast' = {<<i[q].from, i[q].to>> : q \in 1..n}
        BY <2>2, <3>2 DEF downPast, i
      <4>2. downPast = {<<immobilization[q].from, immobilization[q].to>> : q \in 1..n \ {k}}
        BY <1>1, <3>1 DEF downPast
      <4> QED
        BY <1>1, <2>2, <2>3, <4>1, <4>2
    <3>5. immobilization[k].from <= end /\ immobilization[k].from # Open
      <4>1. k \in DOMAIN i
        BY <1>1, <2>2
      <4>2. i[k].to = Open \/ i[k].from <= i[k].to
        BY <2>1, <4>1 DEF Permitted
      <4> QED
        BY <1>1, <2>3, <4>2, InstantFacts
    <3>6. Promise!Finish(end)
      BY <3>3, <3>4, <3>5 DEF Promise!Finish, Promise!Up, Open
    <3> QED
      BY <3>6 DEF Step, Promise!Next, Promise!Instants, Instants
  <2> QED
    BY <2>6, <2>7
<1> QED
  BY <1>6, <1>7 DEF CloseCauses, i, c

----------------------------------------------------------------------------
(* The outage under the actions *)

\* A step that leaves immobilizations and causes alone keeps them right, and maps to a stutter.
LEMMA OutageAlone ==
  ASSUME OutageOK, immobilization' = immobilization, cause' = cause
  PROVE  OutageOK' /\ Step
<1>1. OutageOK'
  BY DEF OutageOK, PeriodsSummariseCauses, CausesOf
<1> QED
  BY <1>1, RowsAlone

\* An open cause belongs to the active immobilization.
LEMMA RowOfOpenCause ==
  ASSUME OutageOK, NEW j \in OpenCauses
  PROVE  cause[j].of \in Active /\ {j} \in SUBSET CausesOf(cause[j].of)
<1>1. j \in DOMAIN cause /\ cause[j].to = Open /\ cause[j].of \in DOMAIN immobilization
  BY Rows DEF OpenCauses
<1>2. immobilization[cause[j].of].to = Open
  BY <1>1 DEF OutageOK, PeriodsSummariseCauses, CausesOf
<1> QED
  BY <1>1, <1>2 DEF Active, CausesOf

\* Ending the causes of a source.
LEMMA EndKeeps ==
  ASSUME OutageOK, now \in Instants, NEW s \in Sources, EndCausesForSource(s)
  PROVE  OutageOK' /\ Step
<1>1. CASE UNCHANGED outage
  BY <1>1, OutageAlone DEF outage
<1>2. CASE \E j \in OpenCauses : CloseCauses(cause[j].of, {j}, now)
  BY <1>2, RowOfOpenCause, CloseKeeps
<1> QED
  BY <1>1, <1>2 DEF EndCausesForSource

\* Every step keeps the immobilizations right and maps to a step of Downtime.
LEMMA OutageKeeps ==
  ASSUME IInv, [Next]_vars
  PROVE  OutageOK' /\ Step
<1> USE DEF IInv
<1>1. ASSUME UNCHANGED outage PROVE OutageOK' /\ Step
  BY <1>1, OutageAlone DEF outage
<1>2. now \in Instants /\ Interventions \subseteq Sources /\ Incidents \subseteq Sources
  BY DEF BooksOK, RecordsOK, Sources
<1>3. CASE StaffNext
  <2>1. ASSUME NEW s \in Sources, AdmitSource(s) PROVE UNCHANGED outage
    BY <2>1 DEF AdmitSource, Admit, outage
  <2>2. ASSUME NEW s \in Sources, NEW t \in Instants,
               CreateImmobilization(s, t) \/ AddCause(s, t)
        PROVE  OutageOK' /\ Step
    BY <2>2, OpenKeeps DEF CreateImmobilization, AddCause
  <2>3. ASSUME NEW j \in DOMAIN cause, NEW t \in Instants, EndCause(j, t)
        PROVE  OutageOK' /\ Step
    BY <2>3, RowOfOpenCause, CloseKeeps DEF EndCause
  <2>4. ASSUME NEW k \in DOMAIN immobilization, NEW t \in Instants, End(k, t)
        PROVE  OutageOK' /\ Step
    <3>1. k \in Active /\ CausesOf(k) \cap OpenCauses \in SUBSET CausesOf(k)
      BY <2>4 DEF End
    <3> QED
      BY <2>4, <3>1, CloseKeeps DEF End
  <2> QED
    BY <1>1, <1>3, <2>1, <2>2, <2>3, <2>4 DEF StaffNext
<1>4. CASE InterventionNext
  <2> SUFFICES ASSUME NEW n \in Interventions,
                      \/ \E status \in {"BROUILLON", "PLANIFIEE"} :
                           \/ CreateIntervention(n, status)
                           \/ \E i \in Incidents : CreateForIncident(n, i, status)
                      \/ \E i \in Incidents : AdmitForIncident(n, i)
                      \/ \E t \in Instants, immobilize \in BOOLEAN : Start(n, t, immobilize)
                      \/ \E cost \in Costs, end \in BOOLEAN : Complete(n, cost, end)
                      \/ \E cost \in Costs : RecordCost(n, cost)
                      \/ \E end \in BOOLEAN : Cancel(n, end)
                      \/ Plan(n) \/ Reopen(n)
               PROVE  OutageOK' /\ Step
    BY <1>4 DEF InterventionNext
  <2>1. ASSUME NEW status, CreateIntervention(n, status)
               \/ \E i \in Incidents : CreateForIncident(n, i, status)
        PROVE  UNCHANGED outage
    BY <2>1 DEF CreateIntervention, CreateForIncident, Created, outage
  <2>2. ASSUME NEW i, AdmitForIncident(n, i) PROVE UNCHANGED outage
    BY <2>2 DEF AdmitForIncident, Admit, outage
  <2>3. ASSUME NEW t \in Instants, NEW immobilize \in BOOLEAN, Start(n, t, immobilize)
        PROVE  OutageOK' /\ Step
    BY <1>1, <1>2, <2>3, OpenKeeps DEF Start
  <2>4. ASSUME NEW cost, NEW end \in BOOLEAN, Complete(n, cost, end)
        PROVE  OutageOK' /\ Step
    BY <1>1, <1>2, <2>4, EndKeeps DEF Complete
  <2>5. ASSUME NEW end \in BOOLEAN, Cancel(n, end) PROVE OutageOK' /\ Step
    BY <1>1, <1>2, <2>5, EndKeeps DEF Cancel
  <2>6. ASSUME NEW cost, RecordCost(n, cost) PROVE UNCHANGED outage
    BY <2>6 DEF RecordCost, outage
  <2>7. ASSUME Plan(n) \/ Reopen(n) PROVE UNCHANGED outage
    BY <2>7 DEF Plan, Reopen, outage
  <2> QED
    BY <1>1, <2>1, <2>2, <2>3, <2>4, <2>5, <2>6, <2>7
<1>5. CASE IncidentNext
  <2>1. ASSUME NEW i \in Incidents, NEW to, Transition(i, to) PROVE UNCHANGED outage
    BY <2>1 DEF Transition, outage
  <2>2. ASSUME NEW i \in Incidents, AdmitImmobilize(i) PROVE UNCHANGED outage
    BY <2>2 DEF AdmitImmobilize, Admit, outage
  <2>3. ASSUME NEW i \in Incidents, NEW t \in Instants, Immobilize(i, t)
        PROVE  OutageOK' /\ Step
    BY <1>2, <2>3, OpenKeeps DEF Immobilize
  <2> QED
    BY <1>1, <1>5, <2>1, <2>2, <2>3 DEF IncidentNext
<1>6. CASE Tick \/ \E r \in admitted : Refused(r)
  BY <1>1, <1>6 DEF Tick, Refused, outage
<1>7. CASE UNCHANGED vars
  BY <1>1, <1>7 DEF vars, outage
<1> QED
  BY <1>3, <1>4, <1>5, <1>6, <1>7 DEF Next

----------------------------------------------------------------------------
(* The books under the actions *)

\* No intervention joins a closed incident in this step.
Attached ==
  \A m \in Interventions, i \in Incidents :
    intervention[m].incident # i /\ intervention'[m].incident = i => incident[i] # "CLOTURE"

\* What an action that touches one intervention must establish.
LEMMA OneIntervention ==
  ASSUME BooksOK, NEW n \in Interventions, NEW row \in Row, NEW e \in {0, 1},
         intervention' = [intervention EXCEPT ![n] = row],
         expense' = [expense EXCEPT ![n] = e],
         e = (IF row.cost = "SAISI" THEN 1 ELSE 0),
         row.status # "TERMINEE" => row.cost = "A_SAISIR",
         \/ row.incident = intervention[n].incident
         \/ row.incident = NoIncident
         \/ incident[row.incident] # "CLOTURE",
         now' = now, incident' = incident, admitted' \subseteq Requests
  PROVE  BooksOK' /\ Attached
<1>1. intervention \in [Interventions -> Row] /\ expense \in [Interventions -> {0, 1}]
  BY DEF BooksOK, RecordsOK
<1>2. /\ intervention'[n] = row /\ expense'[n] = e
      /\ \A m \in Interventions \ {n} :
           intervention'[m] = intervention[m] /\ expense'[m] = expense[m]
  BY <1>1
<1>3. intervention' \in [Interventions -> Row] /\ expense' \in [Interventions -> {0, 1}]
  BY <1>1
<1>4. RecordsOK'
  BY <1>3 DEF BooksOK, RecordsOK
<1>5. CostsInTheBooks'
  <2> SUFFICES ASSUME NEW m \in Interventions
               PROVE  expense'[m] = (IF intervention'[m].cost = "SAISI" THEN 1 ELSE 0)
    BY DEF CostsInTheBooks
  <2>1. CASE m = n
    BY <1>2, <2>1
  <2>2. CASE m # n
    BY <1>2, <2>2 DEF BooksOK, CostsInTheBooks
  <2> QED
    BY <2>1, <2>2
<1>6. CostsOnCompletion'
  <2> SUFFICES ASSUME NEW m \in Interventions
               PROVE  intervention'[m].status # "TERMINEE" => intervention'[m].cost = "A_SAISIR"
    BY DEF CostsOnCompletion
  <2>1. CASE m = n
    BY <1>2, <2>1
  <2>2. CASE m # n
    BY <1>2, <2>2 DEF BooksOK, CostsOnCompletion
  <2> QED
    BY <2>1, <2>2
<1>7. Attached
  <2> SUFFICES ASSUME NEW m \in Interventions, NEW i \in Incidents,
                      intervention[m].incident # i, intervention'[m].incident = i
               PROVE  incident[i] # "CLOTURE"
    BY DEF Attached
  <2>1. m = n
    BY <1>2
  <2> QED
    BY <1>2, <2>1, UpkeepAssumption
<1> QED
  BY <1>4, <1>5, <1>6, <1>7 DEF BooksOK

\* And one that touches none.
LEMMA NoIntervention ==
  ASSUME BooksOK, UNCHANGED works, now' \in Instants,
         incident' \in [Incidents -> {"OUVERT", "EN_TRAITEMENT", "RESOLU", "CLOTURE"}],
         admitted' \subseteq Requests
  PROVE  BooksOK' /\ Attached
<1>1. intervention' = intervention /\ expense' = expense
  BY DEF works
<1>2. RecordsOK' /\ CostsInTheBooks' /\ CostsOnCompletion'
  BY <1>1 DEF BooksOK, RecordsOK, CostsInTheBooks, CostsOnCompletion
<1> QED
  BY <1>1, <1>2 DEF BooksOK, Attached

\* A change of status of an intervention, as a change of its row.
LEMMA OneStatus ==
  ASSUME BooksOK, NEW n \in Interventions,
         NEW status \in OpenStatuses \cup Concluded \cup {"ABSENTE"}
  PROVE  /\ intervention[n] \in Row /\ expense[n] \in {0, 1}
         /\ expense = [expense EXCEPT ![n] = expense[n]]
         /\ expense[n] = (IF intervention[n].cost = "SAISI" THEN 1 ELSE 0)
         /\ intervention[n].status # "TERMINEE" => intervention[n].cost = "A_SAISIR"
         /\ LET row == [status |-> status, cost |-> intervention[n].cost,
                        incident |-> intervention[n].incident]
            IN  row \in Row
                /\ [intervention EXCEPT ![n].status = status] = [intervention EXCEPT ![n] = row]
<1>1. intervention[n] \in Row /\ expense \in [Interventions -> {0, 1}]
  BY DEF BooksOK, RecordsOK
<1>2. [intervention[n] EXCEPT !.status = status] =
        [status |-> status, cost |-> intervention[n].cost, incident |-> intervention[n].incident]
  BY <1>1 DEF Row
<1>3. [intervention EXCEPT ![n].status = status] =
        [intervention EXCEPT ![n] = [intervention[n] EXCEPT !.status = status]]
  OBVIOUS
<1>4. [status |-> status, cost |-> intervention[n].cost, incident |-> intervention[n].incident]
        \in Row
  BY <1>1 DEF Row
<1>5. expense[n] = (IF intervention[n].cost = "SAISI" THEN 1 ELSE 0)
  BY DEF BooksOK, CostsInTheBooks
<1>6. intervention[n].status # "TERMINEE" => intervention[n].cost = "A_SAISIR"
  BY DEF BooksOK, CostsOnCompletion
<1> QED
  BY <1>1, <1>2, <1>3, <1>4, <1>5, <1>6

\* A change of status before completion keeps costs and expenses in agreement.
LEMMA StatusKeeps ==
  ASSUME BooksOK, NEW n \in Interventions,
         NEW status \in OpenStatuses \cup Concluded,
         intervention[n].status \in OpenStatuses \cup {"ABSENTE"},
         intervention' = [intervention EXCEPT ![n].status = status],
         expense' = expense, now' = now, incident' = incident, admitted' \subseteq Requests
  PROVE  BooksOK' /\ Attached
<1> DEFINE row == [status |-> status, cost |-> intervention[n].cost,
                   incident |-> intervention[n].incident]
<1>1. /\ row \in Row /\ intervention' = [intervention EXCEPT ![n] = row]
      /\ expense[n] \in {0, 1} /\ expense' = [expense EXCEPT ![n] = expense[n]]
      /\ expense[n] = (IF intervention[n].cost = "SAISI" THEN 1 ELSE 0)
      /\ intervention[n].cost = "A_SAISIR"
  <2>1. status \in OpenStatuses \cup Concluded \cup {"ABSENTE"}
    OBVIOUS
  <2>2. row \in Row /\ [intervention EXCEPT ![n].status = status] = [intervention EXCEPT ![n] = row]
    BY <2>1, OneStatus
  <2>3. /\ expense[n] \in {0, 1} /\ expense = [expense EXCEPT ![n] = expense[n]]
        /\ expense[n] = (IF intervention[n].cost = "SAISI" THEN 1 ELSE 0)
        /\ intervention[n].status # "TERMINEE" => intervention[n].cost = "A_SAISIR"
    BY <2>1, OneStatus
  <2>4. intervention[n].status # "TERMINEE"
    BY DEF OpenStatuses
  <2> QED
    BY <2>2, <2>3, <2>4
<1>2. row.cost = "A_SAISIR" /\ row.incident = intervention[n].incident
  BY <1>1
<1> HIDE DEF row
<1> QED
  BY <1>1, <1>2, OneIntervention, ZenonT(60)

\* So does a creation, whose incident must accept it.
LEMMA CreatedKeeps ==
  ASSUME BooksOK, NEW n \in Interventions, NEW i \in Incidents \cup {NoIncident},
         NEW status \in {"BROUILLON", "PLANIFIEE"},
         i = NoIncident \/ AcceptsIntervention(i),
         Created(n, i, status), admitted' \subseteq Requests
  PROVE  BooksOK' /\ Attached
<1> DEFINE row == [status |-> status, cost |-> intervention[n].cost, incident |-> i]
<1>1. /\ intervention[n] \in Row /\ intervention[n].status = "ABSENTE"
      /\ expense[n] \in {0, 1} /\ expense' = [expense EXCEPT ![n] = expense[n]]
      /\ expense[n] = (IF intervention[n].cost = "SAISI" THEN 1 ELSE 0)
      /\ intervention[n].cost = "A_SAISIR"
      /\ status \in OpenStatuses
  BY OneStatus DEF Created, OpenStatuses
<1>2. row \in Row
  BY <1>1 DEF Row
<1>3. intervention' = [intervention EXCEPT ![n] = row]
  <2>1. [[intervention[n] EXCEPT !.status = status] EXCEPT !.incident = i] = row
    <3>1. [intervention[n] EXCEPT !.status = status] = [status |-> status, cost |-> intervention[n].cost,
            incident |-> intervention[n].incident]
      BY <1>1 DEF Row
    <3>2. [[status |-> status, cost |-> intervention[n].cost,
            incident |-> intervention[n].incident]
            EXCEPT !.incident = i] = row
      OBVIOUS
    <3> QED
      BY <3>1, <3>2
  <2>2. intervention' = [intervention EXCEPT ![n] =
          [[intervention[n] EXCEPT !.status = status] EXCEPT !.incident = i]]
    BY DEF Created, BooksOK, RecordsOK
  <2> QED
    BY <2>1, <2>2
<1>4. row.cost = "A_SAISIR" /\ row.incident = i /\ now' = now /\ incident' = incident
  BY <1>1 DEF Created
<1> HIDE DEF row
<1> QED
  BY <1>1, <1>2, <1>3, <1>4, OneIntervention DEF AcceptsIntervention

\* A cost that becomes known, on completion or later.
LEMMA CostKeeps ==
  ASSUME BooksOK, NEW n \in Interventions, NEW cost \in Costs,
         intervention[n].cost = "A_SAISIR",
         intervention' = [intervention EXCEPT ![n].status = "TERMINEE", ![n].cost = cost],
         Accounted(n, cost), now' = now, incident' = incident, admitted' \subseteq Requests
  PROVE  BooksOK' /\ Attached
<1> DEFINE row == [status |-> "TERMINEE", cost |-> cost, incident |-> intervention[n].incident]
           e == IF cost = "SAISI" THEN 1 ELSE 0
<1>1. /\ intervention[n] \in Row /\ expense = [expense EXCEPT ![n] = expense[n]]
      /\ expense[n] = 0
  BY OneStatus DEF OpenStatuses
<1>2. row \in Row
  BY <1>1 DEF Row, Concluded
<1>3. intervention' = [intervention EXCEPT ![n] = row]
  <2>1. [[intervention[n] EXCEPT !.status = "TERMINEE"] EXCEPT !.cost = cost] = row
    <3>1. [intervention[n] EXCEPT !.status = "TERMINEE"] = [status |-> "TERMINEE", cost |-> intervention[n].cost,
            incident |-> intervention[n].incident]
      BY <1>1 DEF Row
    <3>2. [[status |-> "TERMINEE", cost |-> intervention[n].cost,
            incident |-> intervention[n].incident]
            EXCEPT !.cost = cost] = row
      OBVIOUS
    <3> QED
      BY <3>1, <3>2
  <2>2. intervention' = [intervention EXCEPT ![n] =
          [[intervention[n] EXCEPT !.status = "TERMINEE"] EXCEPT !.cost = cost]]
    BY DEF BooksOK, RecordsOK
  <2> QED
    BY <2>1, <2>2
<1>4. expense' = [expense EXCEPT ![n] = e] /\ e \in {0, 1}
  BY <1>1 DEF Accounted
<1>5. /\ row.cost = cost /\ row.status = "TERMINEE"
      /\ row.incident = intervention[n].incident /\ e = (IF row.cost = "SAISI" THEN 1 ELSE 0)
  OBVIOUS
<1> HIDE DEF row, e
<1> QED
  BY <1>2, <1>3, <1>4, <1>5, OneIntervention

\* Reopen keeps the invariant.
LEMMA ReopenKeeps ==
  ASSUME BooksOK, NEW n \in Interventions, Reopen(n)
  PROVE  BooksOK' /\ Attached
<1> DEFINE row == [status |-> "EN_COURS", cost |-> "A_SAISIR",
                   incident |-> intervention[n].incident]
<1>1. intervention[n] \in Row
  BY OneStatus DEF OpenStatuses
<1>2. row \in Row
  BY <1>1 DEF Row, OpenStatuses, Costs
<1>3. intervention' = [intervention EXCEPT ![n] = row]
  <2>1. [[intervention[n] EXCEPT !.status = "EN_COURS"] EXCEPT !.cost = "A_SAISIR"] = row
    <3>1. [intervention[n] EXCEPT !.status = "EN_COURS"] = [status |-> "EN_COURS", cost |-> intervention[n].cost,
            incident |-> intervention[n].incident]
      BY <1>1 DEF Row
    <3>2. [[status |-> "EN_COURS", cost |-> intervention[n].cost,
            incident |-> intervention[n].incident]
            EXCEPT !.cost = "A_SAISIR"] = row
      OBVIOUS
    <3> QED
      BY <3>1, <3>2
  <2>2. intervention' = [intervention EXCEPT ![n] =
          [[intervention[n] EXCEPT !.status = "EN_COURS"] EXCEPT !.cost = "A_SAISIR"]]
    BY DEF Reopen, BooksOK, RecordsOK
  <2> QED
    BY <2>1, <2>2
<1>4. /\ row.cost = "A_SAISIR" /\ row.incident = intervention[n].incident
      /\ expense' = [expense EXCEPT ![n] = 0] /\ now' = now /\ incident' = incident
      /\ admitted' \subseteq Requests
  BY DEF Reopen, BooksOK, RecordsOK
<1> HIDE DEF row
<1> QED
  BY <1>2, <1>3, <1>4, OneIntervention

\* Every step keeps costs, expenses and incidents in agreement.
LEMMA BooksKeep ==
  ASSUME BooksOK, [Next]_vars
  PROVE  BooksOK' /\ Attached
<1>1. /\ now \in Instants /\ admitted \subseteq Requests
      /\ incident \in [Incidents -> {"OUVERT", "EN_TRAITEMENT", "RESOLU", "CLOTURE"}]
  BY DEF BooksOK, RecordsOK
<1>2. ASSUME UNCHANGED <<now, intervention, expense, incident>>, admitted' \subseteq Requests
      PROVE  BooksOK' /\ Attached
  BY <1>1, <1>2, NoIntervention DEF works
<1>3. ASSUME NEW r \in Requests, Admit(r) PROVE BooksOK' /\ Attached
  BY <1>1, <1>2, <1>3 DEF Admit
<1>4. CASE StaffNext
  <2>1. ASSUME NEW s \in Sources, AdmitSource(s) PROVE BooksOK' /\ Attached
    <3>1. ForSource(s) \in Requests
      BY DEF ForSource, Requests
    <3> QED
      BY <1>3, <2>1, <3>1 DEF AdmitSource
  <2>2. ASSUME NEW s \in Sources, NEW t \in Instants,
               CreateImmobilization(s, t) \/ AddCause(s, t)
        PROVE  BooksOK' /\ Attached
    BY <1>1, <1>2, <2>2 DEF CreateImmobilization, AddCause, Done
  <2>3. ASSUME NEW j, NEW t, EndCause(j, t) \/ End(j, t) PROVE BooksOK' /\ Attached
    BY <1>1, <1>2, <2>3 DEF EndCause, End
  <2> QED
    BY <1>4, <2>1, <2>2, <2>3 DEF StaffNext
<1>5. CASE InterventionNext
  <2> SUFFICES ASSUME NEW n \in Interventions,
                      \/ \E status \in {"BROUILLON", "PLANIFIEE"} :
                           \/ CreateIntervention(n, status)
                           \/ \E i \in Incidents : CreateForIncident(n, i, status)
                      \/ \E i \in Incidents : AdmitForIncident(n, i)
                      \/ \E t \in Instants, immobilize \in BOOLEAN : Start(n, t, immobilize)
                      \/ \E cost \in Costs, end \in BOOLEAN : Complete(n, cost, end)
                      \/ \E cost \in Costs : RecordCost(n, cost)
                      \/ \E end \in BOOLEAN : Cancel(n, end)
                      \/ Plan(n) \/ Reopen(n)
               PROVE  BooksOK' /\ Attached
    BY <1>5 DEF InterventionNext
  <2>1. ASSUME NEW status \in {"BROUILLON", "PLANIFIEE"}, CreateIntervention(n, status)
        PROVE  BooksOK' /\ Attached
    BY <1>1, <2>1, CreatedKeeps DEF CreateIntervention
  <2>2. ASSUME NEW status \in {"BROUILLON", "PLANIFIEE"}, NEW i \in Incidents,
               CreateForIncident(n, i, status)
        PROVE  BooksOK' /\ Attached
    BY <1>1, <2>2, CreatedKeeps DEF CreateForIncident, Done
  <2>3. ASSUME NEW i \in Incidents, AdmitForIncident(n, i) PROVE BooksOK' /\ Attached
    <3>1. ForIncident(n, i) \in Requests
      BY DEF ForIncident, Requests
    <3> QED
      BY <1>3, <2>3, <3>1 DEF AdmitForIncident
  <2>4. ASSUME NEW t, NEW immobilize, Start(n, t, immobilize) PROVE BooksOK' /\ Attached
    BY <1>1, <2>4, StatusKeeps DEF Start, OpenStatuses
  <2>5. ASSUME NEW cost \in Costs, NEW end, Complete(n, cost, end)
        PROVE  BooksOK' /\ Attached
    <3>1. intervention[n].cost = "A_SAISIR"
      BY <2>5 DEF Complete, OpenStatuses, BooksOK, CostsOnCompletion
    <3> QED
      BY <1>1, <2>5, <3>1, CostKeeps DEF Complete
  <2>6. ASSUME NEW cost \in Costs, RecordCost(n, cost) PROVE BooksOK' /\ Attached
    <3>1. [intervention EXCEPT ![n].cost = cost] =
            [intervention EXCEPT ![n].status = "TERMINEE", ![n].cost = cost]
      <4>1. intervention[n] \in Row /\ intervention[n].status = "TERMINEE"
        BY <2>6, OneStatus DEF RecordCost, OpenStatuses
      <4>2. [intervention[n] EXCEPT !.cost = cost] =
              [[intervention[n] EXCEPT !.status = "TERMINEE"] EXCEPT !.cost = cost]
        BY <4>1 DEF Row
      <4>3. [intervention EXCEPT ![n].cost = cost] =
              [intervention EXCEPT ![n] = [intervention[n] EXCEPT !.cost = cost]]
        OBVIOUS
      <4>4. [intervention EXCEPT ![n].status = "TERMINEE", ![n].cost = cost] =
              [intervention EXCEPT ![n] =
                [[intervention[n] EXCEPT !.status = "TERMINEE"] EXCEPT !.cost = cost]]
        BY DEF BooksOK, RecordsOK
      <4> QED
        BY <4>2, <4>3, <4>4
    <3> QED
      BY <1>1, <2>6, <3>1, CostKeeps DEF RecordCost
  <2>7. ASSUME NEW end, Cancel(n, end) PROVE BooksOK' /\ Attached
    BY <1>1, <2>7, StatusKeeps DEF Cancel, OpenStatuses, Concluded
  <2>8. ASSUME Plan(n) PROVE BooksOK' /\ Attached
    BY <1>1, <2>8, StatusKeeps DEF Plan, OpenStatuses
  <2>9. ASSUME Reopen(n) PROVE BooksOK' /\ Attached
    BY <2>9, ReopenKeeps
  <2> QED
    BY <2>1, <2>2, <2>3, <2>4, <2>5, <2>6, <2>7, <2>8, <2>9
<1>6. CASE IncidentNext
  <2>1. ASSUME NEW i \in Incidents, NEW to \in {"EN_TRAITEMENT", "RESOLU", "CLOTURE"},
               Transition(i, to)
        PROVE  BooksOK' /\ Attached
    <3>1. incident' \in [Incidents -> {"OUVERT", "EN_TRAITEMENT", "RESOLU", "CLOTURE"}]
      BY <1>1, <2>1 DEF Transition
    <3> QED
      BY <1>1, <2>1, <3>1, NoIntervention DEF Transition, works
  <2>2. ASSUME NEW i \in Incidents, AdmitImmobilize(i) PROVE BooksOK' /\ Attached
    <3>1. ImmobilizeRequest(i) \in Requests
      BY DEF ImmobilizeRequest, Requests
    <3> QED
      BY <1>3, <2>2, <3>1 DEF AdmitImmobilize
  <2>3. ASSUME NEW i \in Incidents, NEW t, Immobilize(i, t) PROVE BooksOK' /\ Attached
    BY <1>1, <1>2, <2>3 DEF Immobilize, Done
  <2> QED
    BY <1>6, <2>1, <2>2, <2>3 DEF IncidentNext
<1>7. CASE Tick
  <2>1. now' \in Instants
    BY <1>1, <1>7, UpkeepAssumption DEF Tick, Instants
  <2> QED
    BY <1>1, <1>7, <2>1, NoIntervention DEF Tick, works
<1>8. CASE \E r \in admitted : Refused(r)
  BY <1>1, <1>2, <1>8 DEF Refused, Done
<1>9. CASE UNCHANGED vars
  BY <1>1, <1>2, <1>9 DEF vars
<1> QED
  BY <1>4, <1>5, <1>6, <1>7, <1>8, <1>9 DEF Next

----------------------------------------------------------------------------
(* Theorems *)

\* The initial state satisfies the invariant and is initial for Downtime.
LEMMA InitIInv == Init => IInv /\ Promise!Init
<1> SUFFICES ASSUME Init PROVE IInv /\ Promise!Init
  OBVIOUS
<1>1. DOMAIN immobilization = {} /\ Len(immobilization) = 0 /\ Active = {}
  BY DEF Init, Active
<1>2. OutageOK
  BY <1>1 DEF Init, OutageOK, Permitted, PeriodsSummariseCauses
<1>3. RecordsOK
  BY InstantFacts DEF Init, RecordsOK, Row, Costs
<1>4. CostsInTheBooks /\ CostsOnCompletion
  BY DEF Init, CostsInTheBooks, CostsOnCompletion
<1>5. downSince = Open /\ downPast = {}
  BY <1>1 DEF downSince, downPast
<1> QED
  BY <1>2, <1>3, <1>4, <1>5 DEF IInv, BooksOK, Promise!Init, Promise!Up, Open

\* Every step keeps the invariant and maps to a step of Downtime or a stutter.
LEMMA NextIInv == IInv /\ [Next]_vars => IInv' /\ Step /\ Attached
BY OutageKeeps, BooksKeep DEF IInv

\* The invariant holds in every reachable state.
LEMMA Invariant == Spec => []IInv
BY InitIInv, NextIInv, PTL DEF Spec

\* The type invariant is part of the inductive one.
LEMMA IInvTypes == IInv => TypeOK
BY DEF IInv, OutageOK, BooksOK, RecordsOK, TypeOK, Period, CauseOf, Row

\* Every row and every cause keeps its type: a cause names a row that exists.
THEOREM TypesHold == Spec => []TypeOK
BY Invariant, IInvTypes, PTL

\* The periods of immobilizations summarise their causes, however many there
\* are and in whatever order they are opened, dated and closed.
THEOREM PeriodsHold == Spec => []PeriodsSummariseCauses
<1>1. IInv => PeriodsSummariseCauses
  BY DEF IInv, OutageOK
<1> QED
  BY <1>1, Invariant, PTL

\* Reopening and completing again never leaves a cost twice in the books.
THEOREM CostsHold == Spec => []CostsInTheBooks
<1>1. IInv => CostsInTheBooks
  BY DEF IInv, BooksOK
<1> QED
  BY <1>1, Invariant, PTL

\* An incident closed between the check of a request and its transaction
\* takes no intervention.
THEOREM ClosedStaysAlone == Spec => ClosedTakesNoIntervention
<1>1. IInv /\ [Next]_vars =>
        [\A n \in Interventions, i \in Incidents :
           intervention[n].incident # i /\ intervention'[n].incident = i
             => incident[i] # "CLOTURE"]_vars
  BY NextIInv DEF Attached
<1> QED
  BY <1>1, Invariant, PTL DEF Spec, ClosedTakesNoIntervention

\* The immobilizations implement the abstract downtime: every step of the
\* upkeep begins, extends backwards or finishes one period, or changes none.
THEOREM ImplementsDowntime == Spec => DowntimeSpec
<1>1. IInv /\ [Next]_vars => [Promise!Next]_<<downSince, downPast>>
  BY NextIInv DEF Step
<1> QED
  BY <1>1, InitIInv, Invariant, PTL DEF Spec, DowntimeSpec, Promise!Spec
=============================================================================
