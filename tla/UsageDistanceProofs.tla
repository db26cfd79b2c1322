------------------------ MODULE UsageDistanceProofs ------------------------
(***************************************************************************)
(* The odometer of a vehicle and the distances of its usages are right for *)
(* any bounds: any instants, values, plausibility, readings, counters and  *)
(* usages.  What keeps the cumulative scale is local to each counter: its  *)
(* accepted values follow their instants, and lie between the base of the  *)
(* counter and that of the next; nothing says that they were observed      *)
(* before its end.  The rule asks this of a reading before it is accepted  *)
(* (Evaluated); the rest shows that every operation asks the rule, or      *)
(* changes nothing it depends on.  The properties over several counters    *)
(* follow (Monotone).                                                      *)
(***************************************************************************)
EXTENDS UsageDistance, SequenceTheorems, WellFoundedInduction, TLAPS

Typed(r, g) ==
  /\ r \in Seq(Reading) /\ g \in Seq(Segment) /\ Len(g) <= MaxSegments
  /\ \A i \in DOMAIN r : r[i].segment \in DOMAIN g

\* Every cumulative value, accepted or not, is that of its counter today.
OnScale(r, g) ==
  \A i \in DOMAIN r : r[i].cumulative = Cumulative(g, r[i].segment, r[i].km)

\* On one counter, accepted values follow the instants, which are all different.
InOrder(r) ==
  \A i, j \in DOMAIN r :
    (/\ i # j /\ r[i].segment = r[j].segment
     /\ r[i].status = "ACCEPTE" /\ r[j].status = "ACCEPTE")
      => r[i].at # r[j].at /\ (r[i].at < r[j].at => r[i].km <= r[j].km)

\* A counter ends when the next one starts; the last one is in service.
Contiguous(g) ==
  \A s \in DOMAIN g :
    IF s = Len(g) THEN g[s].endedAt = Open
    ELSE g[s].endedAt = g[s + 1].startedAt /\ g[s].startedAt <= g[s].endedAt

\* The counter s was replaced, and the next one goes on with its scale.
TakenOver(g, s) == s # Len(g) /\ (g[s].known => g[s + 1].known)

\* No accepted value exceeds the base of the counter that follows ...
BelowNextBase(r, g) ==
  \A i \in DOMAIN r :
    r[i].status = "ACCEPTE" /\ TakenOver(g, r[i].segment)
      => r[i].cumulative <= g[r[i].segment + 1].startCumulative

\* ... nor is below the start of its own, which only the first may revise.
AboveStart(r, g) ==
  \A i \in DOMAIN r :
    r[i].status = "ACCEPTE" /\ r[i].segment # 1
      => g[r[i].segment].startPhysical <= r[i].km

Sound(r, g) ==
  /\ Typed(r, g) /\ OnScale(r, g) /\ InOrder(r) /\ Contiguous(g)
  /\ BelowNextBase(r, g) /\ AboveStart(r, g)

\* A counter that replaces another has an accepted reading, its first one.
Based(r, g) == \A s \in DOMAIN g : s # 1 => Accepted(r, s) # {}

\* The distance of a finished usage is that of its readings.
Measures(r, row) == row.status = "TERMINEE" => row.distance = Distance(r, row)

Consistent(r, g) == Sound(r, g) /\ Based(r, g) /\ Len(r) <= MaxReadings

UsageRow ==
  [status : {"AUCUNE", "EN_COURS", "TERMINEE"}, outAt : Instants, backAt : Instants,
   out : Nat, back : Nat, distance : Nat \cup {NotValidated, Undetermined}]

UsageOK(r, row) ==
  /\ row \in UsageRow /\ {row.out, row.back} \subseteq DOMAIN r \cup {NoReading}
  /\ Measures(r, row)

UsageInv == usage \in [Usages -> UsageRow] /\ \A u \in Usages : UsageOK(reading, usage[u])

IInv == Consistent(reading, segment) /\ UsageInv

----------------------------------------------------------------------------
(* Rows and their order *)

\* The types of rows, field by field.
LEMMA RowTypes ==
  ASSUME NEW r, NEW g, Typed(r, g)
  PROVE  /\ Len(r) \in Nat /\ DOMAIN r = 1..Len(r)
         /\ Len(g) \in Nat /\ DOMAIN g = 1..Len(g)
         /\ \A i \in DOMAIN r :
              /\ r[i] \in Reading /\ r[i].segment \in DOMAIN g
              /\ r[i].at \in Nat /\ r[i].at <= MaxInstant /\ r[i].at \in Instants
              /\ r[i].km \in Nat /\ r[i].km \in Km /\ r[i].cumulative \in Nat
         /\ \A s \in DOMAIN g :
              /\ g[s] \in Segment /\ g[s].startedAt \in Nat /\ g[s].startedAt \in Instants
              /\ g[s].endedAt \in Int /\ g[s].startPhysical \in Nat /\ g[s].startPhysical \in Km
              /\ g[s].startCumulative \in Nat /\ g[s].known \in BOOLEAN
<1>1. /\ Len(r) \in Nat /\ DOMAIN r = 1..Len(r) /\ \A i \in DOMAIN r : r[i] \in Reading
      /\ Len(g) \in Nat /\ DOMAIN g = 1..Len(g) /\ \A s \in DOMAIN g : g[s] \in Segment
  BY LenProperties, ElementOfSeq DEF Typed
<1>2. MaxInstant \in Nat /\ MaxKm \in Nat
  BY OdometerAssumption
<1>3. ASSUME NEW i \in DOMAIN r
      PROVE  /\ r[i].at \in Nat /\ r[i].at <= MaxInstant /\ r[i].at \in Instants
             /\ r[i].km \in Nat /\ r[i].km \in Km /\ r[i].cumulative \in Nat
  BY <1>1, <1>2, <1>3 DEF Reading, Instants, Km
<1>4. ASSUME NEW s \in DOMAIN g
      PROVE  /\ g[s].startedAt \in Nat /\ g[s].startedAt \in Instants
             /\ g[s].endedAt \in Int /\ g[s].startPhysical \in Nat /\ g[s].startPhysical \in Km
             /\ g[s].startCumulative \in Nat /\ g[s].known \in BOOLEAN
  BY <1>1, <1>2, <1>4 DEF Segment, Instants, Km, Open
<1>5. /\ \A i \in DOMAIN r :
            /\ r[i].at \in Nat /\ r[i].at <= MaxInstant /\ r[i].at \in Instants
            /\ r[i].km \in Nat /\ r[i].km \in Km /\ r[i].cumulative \in Nat
      /\ \A s \in DOMAIN g :
            /\ g[s].startedAt \in Nat /\ g[s].startedAt \in Instants
            /\ g[s].endedAt \in Int /\ g[s].startPhysical \in Nat /\ g[s].startPhysical \in Km
            /\ g[s].startCumulative \in Nat /\ g[s].known \in BOOLEAN
  BY <1>3, <1>4
<1>6. \A i \in DOMAIN r : r[i].segment \in DOMAIN g
  BY DEF Typed
<1> QED
  BY <1>1, <1>5, <1>6

Less == {p \in Nat \X Nat : p[1] < p[2]}

\* A set of natural numbers has a least element.
LEMMA LeastNatural ==
  ASSUME NEW T \in SUBSET Nat, T # {}
  PROVE  \E m \in T : \A n \in T : m <= n
<1>1. IsWellFoundedOn(Less, Nat)
  BY NatLessThanWellFounded DEF OpToRel, Less
<1>2. PICK m \in T : \A n \in T : ~ (<<n, m>> \in Less)
  BY <1>1, WFMin
<1>3. ASSUME NEW n \in T PROVE m <= n
  <2>1. <<n, m>> \notin Less /\ <<n, m>> \in Nat \X Nat
    BY <1>2
  <2> QED
    BY <2>1 DEF Less
<1> QED
  BY <1>3

\* A set of natural numbers with an upper bound has a greatest element.
LEMMA GreatestNatural ==
  ASSUME NEW T \in SUBSET Nat, T # {}, NEW b \in Nat, \A n \in T : n <= b
  PROVE  \E m \in T : \A n \in T : n <= m
<1> DEFINE back == {b - n : n \in T}
<1>1. back \in SUBSET Nat /\ back # {}
  <2>1. \A n \in T : b - n \in Nat
    OBVIOUS
  <2> QED
    BY <2>1
<1>2. PICK k \in back : \A n \in back : k <= n
  BY <1>1, LeastNatural
<1>3. PICK m \in T : k = b - m
  BY <1>2
<1>4. ASSUME NEW n \in T PROVE n <= m
  <2>1. b - n \in back
    OBVIOUS
  <2>2. b - m <= b - n /\ m \in Nat /\ n \in Nat
    BY <1>2, <1>3, <2>1
  <2> QED
    BY <2>2
<1> QED
  BY <1>4

\* The first and the last of some readings are among them.
LEMMA Extremes ==
  ASSUME NEW r, NEW g, Typed(r, g), NEW S \in SUBSET DOMAIN r, S # {}
  PROVE  /\ Earliest(r, S) \in S /\ \A i \in S : r[Earliest(r, S)].at <= r[i].at
         /\ Latest(r, S) \in S /\ \A i \in S : r[i].at <= r[Latest(r, S)].at
<1>1. /\ Len(r) \in Nat /\ MaxInstant \in Nat
      /\ \A i \in S : i \in Nat /\ i <= Len(r) /\ r[i].at \in Nat /\ r[i].at <= MaxInstant
  BY RowTypes, OdometerAssumption
<1> DEFINE instants == {r[i].at : i \in S}
<1>2. instants \in SUBSET Nat /\ instants # {} /\ \A t \in instants : t <= MaxInstant
  BY <1>1
<1>3. \E i \in S : \A j \in S : i = j \/ Before(r, i, j)
  <2>1. PICK m \in instants : \A t \in instants : m <= t
    BY <1>2, LeastNatural
  <2> DEFINE same == {i \in S : r[i].at = m}
  <2>2. same \in SUBSET Nat /\ same # {}
    BY <1>1, <2>1
  <2>3. PICK i \in same : \A j \in same : i <= j
    BY <2>2, LeastNatural
  <2>4. ASSUME NEW j \in S PROVE i = j \/ Before(r, i, j)
    <3>1. r[i].at = m /\ m <= r[j].at /\ (r[j].at = m => i <= j)
      BY <2>1, <2>3
    <3> QED
      BY <1>1, <3>1 DEF Before
  <2> QED
    BY <2>3, <2>4
<1>4. \E i \in S : \A j \in S : i = j \/ Before(r, j, i)
  <2>1. PICK m \in instants : \A t \in instants : t <= m
    BY <1>1, <1>2, GreatestNatural
  <2> DEFINE same == {i \in S : r[i].at = m}
  <2>2. same \in SUBSET Nat /\ same # {} /\ \A i \in same : i <= Len(r)
    BY <1>1, <2>1
  <2>3. PICK i \in same : \A j \in same : j <= i
    BY <1>1, <2>2, GreatestNatural
  <2>4. ASSUME NEW j \in S PROVE i = j \/ Before(r, j, i)
    <3>1. r[i].at = m /\ r[j].at <= m /\ (r[j].at = m => j <= i)
      BY <2>1, <2>3
    <3> QED
      BY <1>1, <3>1 DEF Before
  <2> QED
    BY <2>3, <2>4
<1>5. Earliest(r, S) \in S /\ \A j \in S : Earliest(r, S) = j \/ Before(r, Earliest(r, S), j)
  BY <1>3 DEF Earliest
<1>6. Latest(r, S) \in S /\ \A j \in S : Latest(r, S) = j \/ Before(r, j, Latest(r, S))
  BY <1>4 DEF Latest
<1> QED
  BY <1>1, <1>5, <1>6 DEF Before

\* The same of the smallest and the largest of some ranks.
LEMMA RankExtremes ==
  ASSUME NEW n \in Nat, NEW S \in SUBSET (1..n), S # {}
  PROVE  Min(S) \in S /\ Max(S) \in S
<1>1. S \in SUBSET Nat /\ \A k \in S : k <= n
  OBVIOUS
<1>2. PICK m \in S : \A k \in S : m <= k
  BY <1>1, LeastNatural
<1>3. PICK l \in S : \A k \in S : k <= l
  BY <1>1, GreatestNatural
<1>4. \A k \in S : l >= k
  BY <1>1, <1>3
<1>5. Min(S) \in S
  BY <1>2 DEF Min
<1>6. Max(S) \in S
  BY <1>3, <1>4 DEF Max
<1> QED
  BY <1>5, <1>6

----------------------------------------------------------------------------
(* The rule *)

\* What the rule asks of an accepted value on counter s: x is left out.
Fits(r, g, s, km, at, x) ==
  /\ \A i \in Accepted(r, s) \ {x} :
       /\ r[i].at # at
       /\ r[i].at < at => r[i].km <= km
       /\ at < r[i].at => km <= r[i].km
  /\ TakenOver(g, s) => Cumulative(g, s, km) <= g[s + 1].startCumulative
  /\ s # 1 => g[s].startPhysical <= km

\* A value that the rule lets be accepted fits between all the accepted ones of
\* its counter, and between this counter's bases.
LEMMA Evaluated ==
  ASSUME NEW r, NEW g, Sound(r, g), NEW source, NEW km \in Km, NEW at \in Instants,
         NEW s \in DOMAIN g, NEW x, MayBeAccepted(Evaluate(r, g, source, km, at, s, x))
  PROVE  Fits(r, g, s, km, at, x)
<1> DEFINE neighbors == Accepted(r, s) \ {x}
           same == {i \in neighbors : SameInstant(source, r[i].at, at)}
           previous == {i \in neighbors \ same : r[i].at < at}
           following == {i \in neighbors \ same : r[i].at > at}
           ordinary == IsOrdinary(r, g, s)
           low == IF previous # {} THEN km < r[Latest(r, previous)].km
                  ELSE ~ordinary /\ km < g[s].startPhysical
           high == IF following # {} THEN km > r[Earliest(r, following)].km
                   ELSE Bounded(g, s) /\ km > ClosedSegmentBound(g, s)
<1>1. same = {} /\ ~low /\ ~high
  BY DEF Evaluate, MayBeAccepted
<1>2. Typed(r, g) /\ OnScale(r, g) /\ InOrder(r) /\ Contiguous(g)
      /\ BelowNextBase(r, g) /\ AboveStart(r, g)
  BY DEF Sound
<1>3. /\ \A i \in neighbors : i \in DOMAIN r /\ r[i].segment = s /\ r[i].status = "ACCEPTE"
      /\ previous \subseteq neighbors /\ following \subseteq neighbors
      /\ previous \in SUBSET DOMAIN r /\ following \in SUBSET DOMAIN r
  BY DEF Accepted
<1>4. /\ \A i \in DOMAIN r : r[i].at \in Nat /\ r[i].km \in Nat
      /\ at \in Nat /\ km \in Nat /\ s \in Nat /\ Len(g) \in Nat /\ s <= Len(g)
      /\ g[s].startPhysical \in Nat /\ g[s].startCumulative \in Nat
      /\ s # Len(g) => s + 1 \in DOMAIN g /\ g[s + 1].startCumulative \in Nat
                       /\ g[s + 1].startedAt \in Nat
  BY <1>2, RowTypes, OdometerAssumption DEF Instants, Km
<1>5. \A i \in neighbors : r[i].at # at
  BY <1>1 DEF SameInstant
<1>6. /\ previous = {i \in neighbors : r[i].at < at}
      /\ following = {i \in neighbors : r[i].at > at}
  BY <1>1
<1>7. previous # {} =>
        /\ Latest(r, previous) \in previous /\ r[Latest(r, previous)].km <= km
        /\ \A i \in previous : r[i].at <= r[Latest(r, previous)].at
  <2>1. SUFFICES ASSUME previous # {}
                 PROVE  /\ Latest(r, previous) \in previous /\ r[Latest(r, previous)].km <= km
                        /\ \A i \in previous : r[i].at <= r[Latest(r, previous)].at
    OBVIOUS
  <2>2. ~ (km < r[Latest(r, previous)].km)
    BY <1>1, <2>1
  <2> HIDE DEF previous
  <2>3. /\ Latest(r, previous) \in previous
        /\ \A i \in previous : r[i].at <= r[Latest(r, previous)].at
    BY <1>2, <1>3, <2>1, Extremes
  <2>4. r[Latest(r, previous)].km \in Nat
    BY <1>3, <1>4, <2>3
  <2> QED
    BY <1>4, <2>2, <2>3, <2>4
<1>8. following # {} =>
        /\ Earliest(r, following) \in following /\ km <= r[Earliest(r, following)].km
        /\ \A i \in following : r[Earliest(r, following)].at <= r[i].at
  <2>1. SUFFICES ASSUME following # {}
                 PROVE  /\ Earliest(r, following) \in following
                        /\ km <= r[Earliest(r, following)].km
                        /\ \A i \in following : r[Earliest(r, following)].at <= r[i].at
    OBVIOUS
  <2>2. ~ (km > r[Earliest(r, following)].km)
    BY <1>1, <2>1
  <2> HIDE DEF following
  <2>3. /\ Earliest(r, following) \in following
        /\ \A i \in following : r[Earliest(r, following)].at <= r[i].at
    BY <1>2, <1>3, <2>1, Extremes
  <2>4. r[Earliest(r, following)].km \in Nat
    BY <1>3, <1>4, <2>3
  <2> QED
    BY <1>4, <2>2, <2>3, <2>4
<1>9. ~ordinary /\ previous = {} => g[s].startPhysical <= km
  BY <1>1, <1>4
<1>10. following = {} /\ Bounded(g, s) => km <= ClosedSegmentBound(g, s)
  <2>1. following = {} /\ Bounded(g, s) => s # Len(g) /\ ~(km > ClosedSegmentBound(g, s))
    BY <1>1, <1>4 DEF Bounded
  <2> QED
    BY <1>4, <2>1 DEF ClosedSegmentBound
<1> HIDE DEF neighbors, same, previous, following, ordinary
<1>11. ASSUME NEW i \in neighbors, NEW j \in neighbors, r[i].at <= r[j].at
       PROVE  r[i].km <= r[j].km
  BY <1>2, <1>3, <1>4, <1>11 DEF InOrder
<1>12. ASSUME NEW i \in neighbors
       PROVE  r[i].at # at /\ (r[i].at < at => r[i].km <= km) /\ (at < r[i].at => km <= r[i].km)
  <2>1. CASE r[i].at < at
    <3>1. i \in previous
      BY <1>6, <2>1
    <3>2. r[i].km <= r[Latest(r, previous)].km
      BY <1>3, <1>7, <1>11, <3>1
    <3> QED
      BY <1>3, <1>4, <1>7, <2>1, <3>1, <3>2
  <2>2. CASE at < r[i].at
    <3>1. i \in following
      BY <1>3, <1>4, <1>6, <2>2
    <3>2. r[Earliest(r, following)].km <= r[i].km
      BY <1>3, <1>8, <1>11, <3>1
    <3> QED
      BY <1>3, <1>4, <1>8, <2>2, <3>1, <3>2
  <2> QED
    BY <1>3, <1>4, <1>5, <2>1, <2>2
<1>13. ASSUME TakenOver(g, s) PROVE Cumulative(g, s, km) <= g[s + 1].startCumulative
  <2>1. CASE following = {}
    <3>1. Bounded(g, s)
      BY <1>2, <1>4, <1>13 DEF TakenOver, Bounded, Contiguous, Open
    <3> QED
      BY <1>4, <1>10, <1>13, <2>1, <3>1 DEF ClosedSegmentBound, Cumulative, TakenOver
  <2>2. CASE following # {}
    <3> DEFINE f == Earliest(r, following)
    <3>1. f \in DOMAIN r /\ r[f].segment = s /\ r[f].status = "ACCEPTE" /\ km <= r[f].km
      BY <1>3, <1>8, <2>2
    <3> HIDE DEF f
    <3>2. /\ r[f].cumulative <= g[s + 1].startCumulative
          /\ r[f].cumulative = Cumulative(g, s, r[f].km)
      BY <1>2, <1>13, <3>1 DEF BelowNextBase, OnScale
    <3> QED
      BY <1>4, <1>13, <3>1, <3>2 DEF Cumulative, TakenOver
  <2> QED
    BY <2>1, <2>2
<1>14. ASSUME s # 1 PROVE g[s].startPhysical <= km
  <2>1. ~ordinary
    BY <1>14 DEF ordinary, IsOrdinary
  <2>2. CASE previous = {}
    BY <1>9, <2>1, <2>2
  <2>3. CASE previous # {}
    <3> DEFINE p == Latest(r, previous)
    <3>1. p \in DOMAIN r /\ r[p].segment = s /\ r[p].status = "ACCEPTE" /\ r[p].km <= km
      BY <1>3, <1>7, <2>3
    <3> HIDE DEF p
    <3>2. g[s].startPhysical <= r[p].km
      BY <1>2, <1>14, <3>1 DEF AboveStart
    <3> QED
      BY <1>4, <3>1, <3>2
  <2> QED
    BY <2>2, <2>3
<1> QED
  BY <1>12, <1>13, <1>14 DEF Fits, neighbors

----------------------------------------------------------------------------
(* The scale across counters *)

\* From one counter to a later one of the same scale, and in the order of their
\* instants on one counter, accepted cumulative values do not decrease.
LEMMA Monotone ==
  ASSUME NEW r, NEW g, Sound(r, g), Based(r, g),
         NEW i \in DOMAIN r, NEW j \in DOMAIN r,
         r[i].status = "ACCEPTE", r[j].status = "ACCEPTE", r[i].segment <= r[j].segment,
         \A k \in r[i].segment..(r[j].segment - 1) : g[k].known => g[k + 1].known,
         r[i].segment = r[j].segment => r[i].at <= r[j].at
  PROVE  r[i].cumulative <= r[j].cumulative
<1> DEFINE a == r[i].segment
           b == r[j].segment
<1>1. /\ Typed(r, g) /\ OnScale(r, g) /\ InOrder(r) /\ Contiguous(g)
      /\ BelowNextBase(r, g) /\ AboveStart(r, g)
  BY DEF Sound
<1>2. /\ Len(g) \in Nat /\ DOMAIN g = 1..Len(g)
      /\ \A k \in DOMAIN r : /\ r[k].segment \in DOMAIN g /\ r[k].at \in Nat
                             /\ r[k].km \in Nat /\ r[k].cumulative \in Nat
      /\ \A s \in DOMAIN g : g[s].startPhysical \in Nat /\ g[s].startCumulative \in Nat
  BY <1>1, RowTypes
<1>3. a \in 1..Len(g) /\ b \in 1..Len(g)
  BY <1>2
<1>4. CASE a = b
  <2>1. i # j => r[i].km <= r[j].km
    BY <1>1, <1>2, <1>4 DEF InOrder
  <2>2. r[i].km <= r[j].km
    BY <1>2, <2>1
  <2>3. r[i].cumulative = Cumulative(g, a, r[i].km) /\ r[j].cumulative = Cumulative(g, a, r[j].km)
    BY <1>1, <1>4 DEF OnScale
  <2>4. g[a].startPhysical \in Nat /\ g[a].startCumulative \in Nat
    BY <1>2, <1>3
  <2> HIDE DEF a, b
  <2> QED
    BY <1>2, <2>2, <2>3, <2>4 DEF Cumulative
<1>5. CASE a < b
  \* An accepted value of a counter that replaces another is above its base.
  <2>1. ASSUME NEW k \in DOMAIN r, r[k].status = "ACCEPTE", r[k].segment # 1
        PROVE  g[r[k].segment].startCumulative <= r[k].cumulative
    <3>1. /\ g[r[k].segment].startPhysical <= r[k].km
          /\ r[k].cumulative = Cumulative(g, r[k].segment, r[k].km)
      BY <1>1, <2>1 DEF AboveStart, OnScale
    <3>2. /\ g[r[k].segment].startPhysical \in Nat /\ g[r[k].segment].startCumulative \in Nat
          /\ r[k].km \in Nat
      BY <1>2
    <3> QED
      BY <3>1, <3>2 DEF Cumulative
  <2> DEFINE lower == {t \in (a + 1)..b : g[t].startCumulative < r[i].cumulative}
  <2>2. lower = {}
    <3> SUFFICES ASSUME lower # {} PROVE FALSE
      OBVIOUS
    <3>1. lower \in SUBSET Nat
      BY <1>3
    <3>2. PICK m \in lower : \A t \in lower : m <= t
      BY <3>1, LeastNatural
    <3>3. m \in (a + 1)..b /\ g[m].startCumulative < r[i].cumulative /\ m - 1 \in a..(b - 1)
      BY <1>3, <3>2
    <3>4. TakenOver(g, m - 1)
      <4>1. m - 1 # Len(g) /\ m = m - 1 + 1
        BY <1>2, <1>3, <3>3
      <4>2. g[m - 1].known => g[m - 1 + 1].known
        BY <3>3
      <4> QED
        BY <4>1, <4>2 DEF TakenOver
    <3>5. ASSUME NEW k \in DOMAIN r, r[k].status = "ACCEPTE", r[k].segment = m - 1
          PROVE  r[k].cumulative <= g[m].startCumulative
      <4>1. r[k].cumulative <= g[r[k].segment + 1].startCumulative
        BY <1>1, <3>4, <3>5 DEF BelowNextBase
      <4>2. r[k].segment + 1 = m
        BY <1>2, <1>3, <3>3, <3>5
      <4> QED
        BY <4>1, <4>2
    <3>6. m \in DOMAIN g /\ m - 1 \in DOMAIN g /\ g[m].startCumulative \in Nat
          /\ g[m - 1].startCumulative \in Nat /\ r[i].cumulative \in Nat
      <4> HIDE DEF a, b
      <4>1. m \in 1..Len(g) /\ m - 1 \in 1..Len(g)
        BY <1>2, <1>3, <3>3
      <4> QED
        BY <1>2, <4>1
    <3>7. CASE m = a + 1
      <4>1. r[i].segment = m - 1
        BY <1>3, <3>7
      <4> QED
        BY <3>3, <3>5, <3>6, <4>1
    <3>8. CASE m # a + 1
      <4>1. m - 1 \in (a + 1)..b /\ m - 1 # 1 /\ ~ (m <= m - 1)
        BY <1>3, <3>3, <3>8
      <4>2. m - 1 \notin lower
        BY <3>2, <4>1
      <4>3. r[i].cumulative <= g[m - 1].startCumulative
        BY <3>6, <4>1, <4>2
      <4>4. PICK k \in Accepted(r, m - 1) : TRUE
        BY <3>6, <4>1 DEF Based
      <4>5. k \in DOMAIN r /\ r[k].status = "ACCEPTE" /\ r[k].segment = m - 1
            /\ r[k].cumulative \in Nat
        BY <1>2, <4>4 DEF Accepted
      <4>6. g[m - 1].startCumulative <= r[k].cumulative
        BY <2>1, <4>1, <4>5
      <4>7. r[k].cumulative <= g[m].startCumulative
        BY <3>5, <4>5
      <4> QED
        BY <3>3, <3>6, <4>3, <4>5, <4>6, <4>7
    <3> QED
      BY <3>7, <3>8
  <2>3. b \in (a + 1)..b /\ b # 1
    BY <1>3, <1>5
  <2>4. r[i].cumulative <= g[b].startCumulative
    BY <1>2, <1>3, <2>2, <2>3
  <2>5. g[b].startCumulative <= r[j].cumulative
    BY <2>1, <2>3
  <2>6. r[i].cumulative \in Nat /\ r[j].cumulative \in Nat /\ g[b].startCumulative \in Nat
    BY <1>2, <1>3
  <2> HIDE DEF a, b
  <2> QED
    BY <2>4, <2>5, <2>6
<1>6. a <= b
  OBVIOUS
<1> HIDE DEF a, b
<1> QED
  BY <1>3, <1>4, <1>5, <1>6

----------------------------------------------------------------------------
(* What a step does to readings and counters *)

\* The readings r become r2: apart from row n, they only lose their status, and
\* the one left out by the rule, x, loses it.
Beside(r, r2, n, x) ==
  \A i \in DOMAIN r2 \ {n} :
    /\ i \in DOMAIN r /\ r2[i].segment = r[i].segment
    /\ r2[i].km = r[i].km /\ r2[i].at = r[i].at /\ r2[i].cumulative = r[i].cumulative
    /\ r2[i].status \in {"ACCEPTE", "EN_ATTENTE"} => r2[i].status = r[i].status /\ i # x

\* A row that is put on its counter as the rule asks.
Placed(r, g, row, x) ==
  /\ row.cumulative = Cumulative(g, row.segment, row.km)
  /\ row.status = "ACCEPTE" => Fits(r, g, row.segment, row.km, row.at, x)

\* Readings stay sound when a row is placed, and when some lose their status.
LEMMA Place ==
  ASSUME NEW r, NEW g, Sound(r, g), NEW r2, Typed(r2, g), NEW n, NEW x,
         Beside(r, r2, n, x), n \in DOMAIN r2 => Placed(r, g, r2[n], x)
  PROVE  Sound(r2, g)
<1>1. /\ Typed(r, g) /\ OnScale(r, g) /\ InOrder(r) /\ Contiguous(g)
      /\ BelowNextBase(r, g) /\ AboveStart(r, g)
  BY DEF Sound
<1>2. OnScale(r2, g)
  BY <1>1 DEF OnScale, Beside, Placed
<1>4. BelowNextBase(r2, g)
  <2> SUFFICES ASSUME NEW i \in DOMAIN r2, r2[i].status = "ACCEPTE", TakenOver(g, r2[i].segment)
               PROVE  r2[i].cumulative <= g[r2[i].segment + 1].startCumulative
    BY DEF BelowNextBase
  <2>1. CASE i = n
    BY <2>1 DEF Placed, Fits
  <2>2. CASE i # n
    BY <1>1, <2>2 DEF BelowNextBase, Beside
  <2> QED
    BY <2>1, <2>2
<1>5. AboveStart(r2, g)
  <2> SUFFICES ASSUME NEW i \in DOMAIN r2, r2[i].status = "ACCEPTE", r2[i].segment # 1
               PROVE  g[r2[i].segment].startPhysical <= r2[i].km
    BY DEF AboveStart
  <2>1. CASE i = n
    BY <2>1 DEF Placed, Fits
  <2>2. CASE i # n
    BY <1>1, <2>2 DEF AboveStart, Beside
  <2> QED
    BY <2>1, <2>2
<1>6. InOrder(r2)
  <2> SUFFICES ASSUME NEW i \in DOMAIN r2, NEW j \in DOMAIN r2, i # j,
                      r2[i].segment = r2[j].segment,
                      r2[i].status = "ACCEPTE", r2[j].status = "ACCEPTE"
               PROVE  r2[i].at # r2[j].at /\ (r2[i].at < r2[j].at => r2[i].km <= r2[j].km)
    BY DEF InOrder
  <2>1. ASSUME NEW k \in DOMAIN r2, k # n, r2[k].status = "ACCEPTE"
        PROVE  /\ k \in Accepted(r, r2[k].segment) \ {x}
               /\ k \in DOMAIN r /\ r[k].status = "ACCEPTE"
               /\ r2[k].at = r[k].at /\ r2[k].km = r[k].km /\ r2[k].segment = r[k].segment
    BY <2>1 DEF Beside, Accepted
  <2>2. CASE i # n /\ j # n
    BY <1>1, <2>1, <2>2 DEF InOrder
  <2>3. CASE i = n
    BY <2>1, <2>3 DEF Placed, Fits
  <2>4. CASE j = n
    BY <2>1, <2>4 DEF Placed, Fits
  <2> QED
    BY <2>2, <2>3, <2>4
<1> QED
  BY <1>1, <1>2, <1>4, <1>5, <1>6 DEF Sound

\* The counters g become g2 by the refreshed start of the first one.
SameScale(g, g2) ==
  /\ g2 \in Seq(Segment) /\ Len(g2) = Len(g)
  /\ \A s \in DOMAIN g : /\ g2[s].known = g[s].known /\ g2[s].endedAt = g[s].endedAt
                         /\ g2[s].startedAt <= g[s].startedAt
                         /\ s # 1 => g2[s] = g[s]

\* Refreshing the start of an ordinary counter keeps the scale of its readings.
LEMMA RefreshedKeeps ==
  ASSUME NEW r, NEW g, Sound(r, g), NEW s \in DOMAIN g
  PROVE  Sound(r, Refreshed(r, g, s)) /\ SameScale(g, Refreshed(r, g, s))
<1>1. /\ Typed(r, g) /\ OnScale(r, g) /\ InOrder(r) /\ Contiguous(g)
      /\ BelowNextBase(r, g) /\ AboveStart(r, g)
  BY DEF Sound
<1>2. /\ Len(g) \in Nat /\ DOMAIN g = 1..Len(g)
      /\ \A i \in DOMAIN r :
           r[i].segment \in DOMAIN g /\ r[i].at \in Instants /\ r[i].at \in Nat
           /\ r[i].km \in Km /\ r[i].km \in Nat
      /\ \A t \in DOMAIN g : /\ g[t] \in Segment /\ g[t].startedAt \in Nat
                             /\ g[t].endedAt \in Int /\ g[t].startPhysical \in Nat
                             /\ g[t].startCumulative \in Nat
  BY <1>1, RowTypes
<1>3. CASE ~IsOrdinary(r, g, s) \/ Accepted(r, s) = {}
  <2>1. Refreshed(r, g, s) = g
    BY <1>3 DEF Refreshed
  <2>2. SameScale(g, g)
    BY <1>1, <1>2 DEF SameScale, Typed
  <2> QED
    BY <2>1, <2>2
<1>4. CASE IsOrdinary(r, g, s) /\ Accepted(r, s) # {}
  <2> DEFINE first == r[Earliest(r, Accepted(r, s))]
             start == IF first.at < g[s].startedAt THEN first.at ELSE g[s].startedAt
             g2 == Refreshed(r, g, s)
  <2>1. s = 1 /\ g[1].startCumulative = g[1].startPhysical
    BY <1>4 DEF IsOrdinary
  <2>2. g2 = [g EXCEPT ![s].startedAt = start, ![s].startPhysical = first.km,
                       ![s].startCumulative = first.km]
    BY <1>4 DEF Refreshed
  <2>3. Accepted(r, s) \in SUBSET DOMAIN r
    BY DEF Accepted
  <2>4. first.at \in Instants /\ first.at \in Nat /\ first.km \in Km /\ first.km \in Nat
    BY <1>1, <1>2, <1>4, <2>3, Extremes
  <2>5. start \in Instants /\ start <= g[s].startedAt
    BY <1>2, <2>4 DEF Segment
  <2> HIDE DEF first, start, g2
  <2>6. /\ DOMAIN g2 = DOMAIN g
        /\ \A t \in DOMAIN g : t # 1 => g2[t] = g[t]
        /\ g2[1] = [g[1] EXCEPT !.startedAt = start, !.startPhysical = first.km,
                                !.startCumulative = first.km]
    BY <1>2, <2>1, <2>2
  <2>7. /\ g2[1] \in Segment /\ g2[1].known = g[1].known /\ g2[1].endedAt = g[1].endedAt
        /\ g2[1].startedAt = start /\ g2[1].startPhysical = first.km
        /\ g2[1].startCumulative = first.km
    BY <1>2, <2>1, <2>4, <2>5, <2>6 DEF Segment
  <2>8. g2 \in [1..Len(g) -> Segment]
    BY <1>2, <2>2, <2>6, <2>7
  <2>9. g2 \in Seq(Segment) /\ Len(g2) = Len(g)
    BY <1>2, <2>8, IsASeq, LenProperties
  <2>10. SameScale(g, g2)
    <3>1. ASSUME NEW t \in DOMAIN g
          PROVE  /\ g2[t].known = g[t].known /\ g2[t].endedAt = g[t].endedAt
                 /\ g2[t].startedAt <= g[t].startedAt
      <4>1. CASE t = 1
        BY <2>1, <2>5, <2>7, <4>1
      <4>2. CASE t # 1
        <5>1. g2[t] = g[t] /\ g[t].startedAt \in Nat
          BY <1>2, <2>6, <4>2
        <5> QED
          BY <5>1
      <4> QED
        BY <4>1, <4>2
    <3> QED
      BY <2>6, <2>9, <3>1 DEF SameScale
  <2>11. Typed(r, g2)
    BY <1>1, <2>6, <2>9 DEF Typed
  <2>12. OnScale(r, g2)
    <3>1. ASSUME NEW i \in DOMAIN r
          PROVE  r[i].cumulative = Cumulative(g2, r[i].segment, r[i].km)
      <4>1. r[i].cumulative = Cumulative(g, r[i].segment, r[i].km)
        BY <1>1 DEF OnScale
      <4>2. r[i].km \in Nat /\ g[1].startCumulative \in Nat
        BY <1>2, <2>1
      <4>3. CASE r[i].segment = 1
        BY <2>1, <2>4, <2>7, <4>1, <4>2, <4>3 DEF Cumulative
      <4>4. CASE r[i].segment # 1
        BY <1>2, <2>6, <4>1, <4>4 DEF Cumulative
      <4> QED
        BY <4>3, <4>4
    <3> QED
      BY <3>1 DEF OnScale
  <2>13. Contiguous(g2)
    <3>1. ASSUME NEW t \in DOMAIN g2
          PROVE  IF t = Len(g2) THEN g2[t].endedAt = Open
                 ELSE g2[t].endedAt = g2[t + 1].startedAt /\ g2[t].startedAt <= g2[t].endedAt
      <4>1. t \in DOMAIN g /\ g2[t].endedAt = g[t].endedAt /\ g2[t].startedAt <= g[t].startedAt
            /\ g2[t].startedAt \in Nat /\ g[t].startedAt \in Nat /\ g[t].endedAt \in Int
        <5>1. g2[t] \in Segment /\ t \in DOMAIN g
          BY <2>6, <2>8
        <5>2. g2[t].startedAt \in Nat
          BY <5>1, OdometerAssumption DEF Segment, Instants
        <5> QED
          BY <1>2, <2>10, <5>1, <5>2 DEF SameScale
      <4>2. t # Len(g) => /\ t + 1 \in DOMAIN g /\ t + 1 # 1
                          /\ g[t].endedAt = g[t + 1].startedAt /\ g[t].startedAt <= g[t].endedAt
        BY <1>1, <1>2, <4>1 DEF Contiguous
      <4>3. t = Len(g) => g[t].endedAt = Open
        BY <1>1, <4>1 DEF Contiguous
      <4> QED
        BY <1>2, <2>6, <2>9, <4>1, <4>2, <4>3
    <3> QED
      BY <3>1 DEF Contiguous
  <2>15. BelowNextBase(r, g2)
    <3>1. ASSUME NEW i \in DOMAIN r, r[i].status = "ACCEPTE", TakenOver(g2, r[i].segment)
          PROVE  r[i].cumulative <= g2[r[i].segment + 1].startCumulative
      <4>1. r[i].segment \in DOMAIN g /\ r[i].segment # Len(g)
        BY <1>2, <2>9, <3>1 DEF TakenOver
      <4>2. r[i].segment + 1 \in DOMAIN g /\ r[i].segment + 1 # 1
        BY <1>2, <4>1
      <4>3. TakenOver(g, r[i].segment)
        BY <2>10, <3>1, <4>1, <4>2 DEF TakenOver, SameScale
      <4> QED
        BY <1>1, <2>6, <3>1, <4>2, <4>3 DEF BelowNextBase
    <3> QED
      BY <3>1 DEF BelowNextBase
  <2>16. AboveStart(r, g2)
    BY <1>1, <1>2, <2>6 DEF AboveStart
  <2> QED
    BY <1>1, <2>10, <2>11, <2>12, <2>13, <2>15, <2>16 DEF Sound, g2
<1> QED
  BY <1>3, <1>4

----------------------------------------------------------------------------
(* Ingestion *)

\* The readings after the entry of one more.
LEMMA OneMore ==
  ASSUME NEW r \in Seq(Reading), NEW row \in Reading
  PROVE  /\ Append(r, row) \in Seq(Reading) /\ Len(Append(r, row)) = Len(r) + 1
         /\ DOMAIN Append(r, row) = DOMAIN r \cup {Len(r) + 1}
         /\ Append(r, row)[Len(r) + 1] = row /\ Len(r) + 1 \notin DOMAIN r
         /\ \A i \in DOMAIN r : Append(r, row)[i] = r[i]
         /\ \A s : Accepted(r, s) \subseteq Accepted(Append(r, row), s)
<1>1. /\ Append(r, row) \in Seq(Reading) /\ Len(Append(r, row)) = Len(r) + 1
      /\ \A i \in 1..Len(r) : Append(r, row)[i] = r[i]
      /\ Append(r, row)[Len(r) + 1] = row
      /\ Len(r) \in Nat /\ DOMAIN r = 1..Len(r)
      /\ DOMAIN Append(r, row) = 1..Len(Append(r, row))
  BY AppendProperties, LenProperties
<1>2. DOMAIN Append(r, row) = DOMAIN r \cup {Len(r) + 1} /\ Len(r) + 1 \notin DOMAIN r
  BY <1>1
<1> QED
  BY <1>1, <1>2 DEF Accepted

\* A request within the bounds of the model.
Asked(q) ==
  q.km \in Km /\ q.at \in Instants /\ q.source \in {"MANUAL", "TELEMATICS"} /\ q.context \in Contexts

\* The request is answered by a reading already there ...
Replayed(r, g, result) ==
  /\ result.outcome = "IDEMPOTENT" /\ result.id \in DOMAIN r
  /\ result.reading = r /\ result.segment = g

\* ... or by a new one on counter s, which is accepted or waits.
Grown(r, g, s, at, result) ==
  \E row \in Reading :
    /\ row.segment = s /\ row.at = at
    /\ row.status \in {"ACCEPTE", "EN_ATTENTE"} /\ result.outcome = row.status
    /\ result.reading = Append(r, row) /\ result.id = Len(r) + 1
    /\ Sound(result.reading, result.segment) /\ SameScale(g, result.segment)

\* A reading inserted where the rule lets it be.
LEMMA InsertKeeps ==
  ASSUME NEW r, NEW g, Sound(r, g), NEW s \in DOMAIN g, NEW q, Asked(q),
         NEW status \in {"ACCEPTE", "EN_ATTENTE"},
         status = "ACCEPTE" => Fits(r, g, s, q.km, q.at, 0),
         NEW result \in Insert(r, g, q, s, status)
  PROVE  Grown(r, g, s, q.at, result)
<1> DEFINE row == NewReading(g, q, s, status)
           r2 == Append(r, row)
<1>1. ~ (Cumulative(g, s, q.km) < 0) /\ result \in Inserted(r, g, row)
  BY DEF Insert
<1>2. Typed(r, g)
  BY DEF Sound
<1>3. /\ r \in Seq(Reading) /\ g \in Seq(Segment) /\ Len(g) \in Nat /\ DOMAIN g = 1..Len(g)
      /\ g[s].startCumulative \in Nat /\ g[s].startPhysical \in Nat
      /\ \A i \in DOMAIN r : r[i].segment \in DOMAIN g
  BY <1>2, RowTypes DEF Typed
<1>4. q.km \in Km /\ q.km \in Nat /\ q.at \in Instants
  BY OdometerAssumption DEF Asked, Km
<1>5. row = [segment |-> s, km |-> q.km, cumulative |-> Cumulative(g, s, q.km), at |-> q.at,
             status |-> status, source |-> q.source, context |-> q.context]
  BY DEF NewReading
<1>6. Cumulative(g, s, q.km) \in Nat
  BY <1>1, <1>3, <1>4 DEF Cumulative
<1>7. s \in 1..MaxSegments
  BY <1>2, <1>3, OdometerAssumption DEF Typed
<1> QED
  <2>1. row \in Reading /\ row.segment = s /\ row.at = q.at /\ row.status = status
        /\ row.km = q.km /\ row.cumulative = Cumulative(g, s, q.km)
    BY <1>4, <1>5, <1>6, <1>7 DEF Reading, Asked
  <2> HIDE DEF row
  <2>2. /\ r2 \in Seq(Reading) /\ DOMAIN r2 = DOMAIN r \cup {Len(r) + 1}
        /\ r2[Len(r) + 1] = row /\ Len(r2) = Len(r) + 1
        /\ \A i \in DOMAIN r : r2[i] = r[i]
    BY <1>3, <2>1, OneMore
  <2>3. 0 \notin DOMAIN r
    BY <1>3, LenProperties
  <2> HIDE DEF r2
  <2>4. Typed(r2, g)
    <3>1. Len(g) <= MaxSegments
      BY <1>2 DEF Typed
    <3>2. \A i \in DOMAIN r2 : r2[i].segment \in DOMAIN g
      BY <1>3, <2>1, <2>2
    <3> QED
      BY <1>3, <2>2, <3>1, <3>2 DEF Typed
  <2>5. Beside(r, r2, Len(r) + 1, 0)
    BY <2>2, <2>3 DEF Beside
  <2>6. Placed(r, g, r2[Len(r) + 1], 0)
    BY <2>1, <2>2 DEF Placed
  <2>7. Sound(r2, g)
    BY <2>4, <2>5, <2>6, Place
  <2>8. /\ result.outcome = status /\ result.reading = r2 /\ result.id = Len(r) + 1
        /\ result.segment = IF status = "ACCEPTE" THEN Refreshed(r2, g, s) ELSE g
    BY <1>1, <2>1, <2>2 DEF Inserted, r2
  <2>9. Sound(result.reading, result.segment) /\ SameScale(g, result.segment)
    <3>1. CASE status = "ACCEPTE"
      BY <2>7, <2>8, <3>1, RefreshedKeeps
    <3>2. CASE status # "ACCEPTE"
      <4>1. SameScale(g, g)
        <5>1. \A t \in DOMAIN g : g[t].startedAt \in Nat
          BY <1>2, RowTypes
        <5> QED
          BY <1>3, <5>1 DEF SameScale
      <4> QED
        BY <2>7, <2>8, <3>2, <4>1
    <3> QED
      BY <3>1, <3>2
  <2> QED
    BY <2>1, <2>8, <2>9 DEF Grown, r2

\* A reading put on a known counter.
LEMMA IngestIntoKeeps ==
  ASSUME NEW r, NEW g, Sound(r, g), NEW s \in DOMAIN g, NEW q, Asked(q),
         NEW result \in IngestInto(r, g, q, s)
  PROVE  Replayed(r, g, result) \/ Grown(r, g, s, q.at, result)
<1> DEFINE waiting == PendingSame(r, q, s)
           evaluation == Evaluate(r, g, q.source, q.km, q.at, s, 0)
           same == {i \in Accepted(r, s) : SameInstant(q.source, r[i].at, q.at)}
<1>1. Typed(r, g)
  BY DEF Sound
<1>2. Len(r) \in Nat /\ DOMAIN r = 1..Len(r)
  BY <1>1, RowTypes
<1>3. CASE q.source # "TELEMATICS" /\ waiting # {}
  <2>1. waiting \in SUBSET (1..Len(r))
    BY <1>2 DEF PendingSame
  <2>2. result \in Replay(r, g, Min(waiting))
    BY <1>3 DEF IngestInto
  <2> HIDE DEF waiting
  <2>3. Min(waiting) \in DOMAIN r
    BY <1>2, <1>3, <2>1, RankExtremes
  <2> QED
    BY <2>2, <2>3 DEF Replay, Replayed
<1>4. CASE ~ (q.source # "TELEMATICS" /\ waiting # {})
  <2>1. result \in Recorded(r, g, q, s, evaluation)
    BY <1>4 DEF IngestInto
  <2>2. evaluation \in {"REFUSE", "PENDING", "IDEMPOTENT", "HAUSSE", "ACCEPT"}
    BY DEF Evaluate
  <2>3. CASE evaluation = "REFUSE"
    BY <2>1, <2>3 DEF Recorded
  <2>4. CASE evaluation = "IDEMPOTENT"
    <3>1. same # {}
      <4>1. {i \in Accepted(r, s) \ {0} : SameInstant(q.source, r[i].at, q.at)} # {}
        BY <2>4 DEF Evaluate
      <4> QED
        BY <4>1
    <3>2. same \in SUBSET DOMAIN r
      BY DEF Accepted
    <3>3. result \in Replay(r, g, Earliest(r, same))
      BY <2>1, <2>4 DEF Recorded
    <3> HIDE DEF same
    <3>4. Earliest(r, same) \in DOMAIN r
      BY <1>1, <3>1, <3>2, Extremes
    <3> QED
      BY <3>3, <3>4 DEF Replay, Replayed
  <2>5. CASE evaluation \in {"PENDING", "HAUSSE", "ACCEPT"}
    <3> DEFINE status == IF evaluation = "ACCEPT" /\ ~q.driver THEN "ACCEPTE" ELSE "EN_ATTENTE"
    <3>1. result \in Insert(r, g, q, s, status)
      BY <2>1, <2>5 DEF Recorded
    <3>2. status \in {"ACCEPTE", "EN_ATTENTE"}
      OBVIOUS
    <3>3. status = "ACCEPTE" => MayBeAccepted(evaluation)
      BY DEF MayBeAccepted
    <3>4. q.km \in Km /\ q.at \in Instants
      BY DEF Asked
    <3> HIDE DEF status
    <3>5. status = "ACCEPTE" => Fits(r, g, s, q.km, q.at, 0)
      BY <3>3, <3>4, Evaluated
    <3> QED
      BY <3>1, <3>2, <3>5, InsertKeeps
  <2> QED
    BY <2>2, <2>3, <2>4, <2>5
<1> QED
  BY <1>3, <1>4

\* The provisional counter of a first reading.
LEMMA FirstSegmentSound ==
  ASSUME NEW r, NEW g, Sound(r, g), Len(g) = 0, NEW q, Asked(q)
  PROVE  /\ r = <<>> /\ g = <<>> /\ Sound(r, FirstSegment(q))
         /\ Len(FirstSegment(q)) = 1 /\ FirstSegment(q) \in Seq(Segment)
         /\ 1 \in DOMAIN FirstSegment(q)
<1> DEFINE g1 == FirstSegment(q)
<1>1. Typed(r, g)
  BY DEF Sound
<1>2. Len(r) \in Nat /\ DOMAIN r = 1..Len(r) /\ DOMAIN g = 1..Len(g) /\ r \in Seq(Reading)
      /\ g \in Seq(Segment) /\ \A i \in DOMAIN r : r[i].segment \in DOMAIN g
  BY <1>1, RowTypes DEF Typed
<1>3. DOMAIN r = {}
  BY <1>2
<1>4. r = <<>> /\ g = <<>>
  BY <1>2, <1>3, EmptySeq
<1>5. q.at \in Instants /\ q.km \in Km /\ q.km \in Nat
  BY OdometerAssumption DEF Asked, Km
<1>6. [startedAt |-> q.at, endedAt |-> Open, startPhysical |-> q.km,
       startCumulative |-> q.km, known |-> TRUE] \in Segment
  BY <1>5 DEF Segment
<1>7. /\ g1 \in Seq(Segment) /\ Len(g1) = 1 /\ DOMAIN g1 = {1} /\ g1[1].endedAt = Open
  BY <1>6 DEF FirstSegment
<1> HIDE DEF g1
<1>8. Typed(r, g1)
  BY <1>2, <1>3, <1>7, OdometerAssumption DEF Typed
<1>9. Sound(r, g1)
  BY <1>3, <1>7, <1>8 DEF Sound, OnScale, InOrder, Contiguous, BelowNextBase, AboveStart
<1> QED
  BY <1>4, <1>7, <1>9 DEF g1

\* What the single entry of readings answers, on the counters g1: those there
\* are, or the provisional one.
LEMMA Ingested ==
  ASSUME NEW r, NEW g, Sound(r, g), NEW q, Asked(q),
         q.segment = 0 \/ q.segment \in DOMAIN g,
         NEW result \in Ingest(r, g, q)
  PROVE  \/ Replayed(r, g, result)
         \/ \E g1 \in Seq(Segment) : \E s \in DOMAIN g1 :
              /\ g1 = g \/ (g = <<>> /\ Len(g1) = 1)
              /\ q.segment # 0 => s = q.segment
              /\ Grown(r, g1, s, q.at, result)
<1>1. Typed(r, g)
  BY DEF Sound
<1>2. Len(g) \in Nat /\ DOMAIN g = 1..Len(g) /\ g \in Seq(Segment) /\ q.at \in Instants
  BY <1>1, RowTypes DEF Typed, Asked
<1>3. CASE q.segment # 0
  <2>1. q.segment \in DOMAIN g
    BY <1>3
  <2>2. result \in IngestInto(r, g, q, q.segment)
    BY <1>3 DEF Ingest
  <2>3. Replayed(r, g, result) \/ Grown(r, g, q.segment, q.at, result)
    BY <2>1, <2>2, IngestIntoKeeps
  <2> QED
    BY <1>2, <1>3, <2>1, <2>3
<1>4. CASE q.segment = 0 /\ Covering(g, q.at) # {}
  <2> DEFINE s == Max(Covering(g, q.at))
  <2>1. Covering(g, q.at) \in SUBSET (1..Len(g))
    BY <1>2 DEF Covering
  <2>2. s \in Covering(g, q.at)
    BY <1>2, <1>4, <2>1, RankExtremes
  <2>3. result \in IngestInto(r, g, q, s)
    BY <1>4 DEF Ingest
  <2> HIDE DEF s
  <2>4. s \in DOMAIN g
    BY <2>2 DEF Covering
  <2>6. Replayed(r, g, result) \/ Grown(r, g, s, q.at, result)
    BY <2>3, <2>4, IngestIntoKeeps
  <2> QED
    BY <1>2, <1>4, <2>4, <2>6
<1>5. CASE q.segment = 0 /\ Covering(g, q.at) = {} /\ Len(g) > 0
  <2>1. 1 \in DOMAIN g
    BY <1>2, <1>5
  <2>2. \/ result \in Insert(r, g, q, 1, "EN_ATTENTE")
        \/ result \in IngestInto(r, g, q, 1)
    BY <1>5 DEF Ingest
  <2>3. Replayed(r, g, result) \/ Grown(r, g, 1, q.at, result)
    BY <2>1, <2>2, InsertKeeps, IngestIntoKeeps
  <2> QED
    BY <1>2, <1>5, <2>1, <2>3
<1>6. CASE q.segment = 0 /\ Covering(g, q.at) = {} /\ Len(g) = 0
  <2> DEFINE g1 == FirstSegment(q)
  <2>1. /\ r = <<>> /\ g = <<>> /\ Sound(r, g1) /\ Len(g1) = 1 /\ g1 \in Seq(Segment)
        /\ 1 \in DOMAIN g1
    BY <1>6, FirstSegmentSound
  <2>2. \/ result \in Insert(r, g1, q, 1, "EN_ATTENTE")
        \/ result \in IngestInto(r, g1, q, 1)
    BY <1>6 DEF Ingest
  <2> HIDE DEF g1
  <2>4. Replayed(r, g1, result) \/ Grown(r, g1, 1, q.at, result)
    BY <2>1, <2>2, InsertKeeps, IngestIntoKeeps
  <2>5. ~ Replayed(r, g1, result)
    BY <2>1 DEF Replayed
  <2> QED
    BY <1>6, <2>1, <2>4, <2>5
<1> QED
  BY <1>2, <1>3, <1>4, <1>5, <1>6

----------------------------------------------------------------------------
(* The operations on readings and counters *)

\* No reading already there is changed.
Extends(r, r2) == \A i \in DOMAIN r : i \in DOMAIN r2 /\ r2[i] = r[i]

\* The counters already there keep what the following ones rest on.
SameCounters(g, g2) ==
  \A s \in DOMAIN g : /\ s \in DOMAIN g2 /\ g2[s].known = g[s].known
                      /\ s # 1 => g2[s].startCumulative = g[s].startCumulative

\* A refreshed start changes nothing of that.
LEMMA SameScaleCounters ==
  ASSUME NEW r, NEW g, Typed(r, g), NEW g2, SameScale(g, g2)
  PROVE  SameCounters(g, g2) /\ DOMAIN g2 = DOMAIN g
<1>1. Len(g) \in Nat /\ DOMAIN g = 1..Len(g) /\ DOMAIN g2 = 1..Len(g2) /\ Len(g2) = Len(g)
  BY RowTypes, LenProperties DEF SameScale
<1> QED
  BY <1>1 DEF SameCounters, SameScale

\* A reading more leaves the readings and the counters consistent.
LEMMA GrownKeeps ==
  ASSUME NEW r, NEW g, Consistent(r, g), Len(r) + 1 <= MaxReadings,
         NEW g1 \in Seq(Segment), g1 = g \/ (g = <<>> /\ Len(g1) = 1),
         NEW s \in DOMAIN g1, NEW at, NEW result, Grown(r, g1, s, at, result)
  PROVE  /\ Consistent(result.reading, result.segment)
         /\ Len(result.reading) = Len(r) + 1 /\ Extends(r, result.reading)
         /\ result.id \in DOMAIN result.reading
         /\ SameCounters(g, result.segment) /\ Len(result.segment) = Len(g1)
<1>1. Typed(r, g) /\ Sound(r, g) /\ Based(r, g) /\ r \in Seq(Reading)
  BY DEF Consistent, Sound, Typed
<1>2. PICK row \in Reading :
        /\ row.segment = s /\ row.at = at
        /\ result.reading = Append(r, row) /\ result.id = Len(r) + 1
        /\ Sound(result.reading, result.segment) /\ SameScale(g1, result.segment)
  BY DEF Grown
<1>3. /\ Len(Append(r, row)) = Len(r) + 1 /\ DOMAIN Append(r, row) = DOMAIN r \cup {Len(r) + 1}
      /\ \A i \in DOMAIN r : Append(r, row)[i] = r[i]
      /\ \A t : Accepted(r, t) \subseteq Accepted(Append(r, row), t)
  BY <1>1, OneMore
<1>4. /\ Len(g1) \in Nat /\ DOMAIN g1 = 1..Len(g1) /\ Len(result.segment) = Len(g1)
      /\ DOMAIN result.segment = 1..Len(result.segment)
  BY <1>2, LenProperties DEF SameScale
<1>5. SameCounters(g, result.segment)
  BY <1>2, <1>4 DEF SameCounters, SameScale
<1>6. Based(result.reading, result.segment)
  <2>1. CASE g1 = g
    BY <1>1, <1>2, <1>3, <1>4, <2>1 DEF Based
  <2>2. CASE Len(g1) = 1
    BY <1>4, <2>2 DEF Based
  <2> QED
    BY <2>1, <2>2
<1>7. Extends(r, result.reading)
  BY <1>2, <1>3 DEF Extends
<1> QED
  BY <1>2, <1>3, <1>4, <1>5, <1>6, <1>7 DEF Consistent

\* What the entry of a reading leaves.
LEMMA IngestKeeps ==
  ASSUME NEW r, NEW g, Consistent(r, g), Len(r) + 1 <= MaxReadings, NEW q, Asked(q),
         q.segment = 0 \/ q.segment \in DOMAIN g,
         NEW result \in Ingest(r, g, q)
  PROVE  /\ Consistent(result.reading, result.segment)
         /\ Len(result.reading) <= Len(r) + 1 /\ Extends(r, result.reading)
         /\ result.id \in DOMAIN result.reading
         /\ SameCounters(g, result.segment)
<1>1. Sound(r, g) /\ Typed(r, g)
  BY DEF Consistent, Sound
<1>2. /\ Len(r) \in Nat /\ Len(r) <= Len(r) + 1
  BY <1>1, RowTypes
<1>3. CASE Replayed(r, g, result)
  <2>1. Extends(r, r) /\ SameCounters(g, g)
    BY DEF Extends, SameCounters
  <2> QED
    BY <1>2, <1>3, <2>1 DEF Replayed
<1>4. CASE \E g1 \in Seq(Segment) : \E s \in DOMAIN g1 :
             (g1 = g \/ (g = <<>> /\ Len(g1) = 1)) /\ Grown(r, g1, s, q.at, result)
  <2>0. PICK g1 \in Seq(Segment) : \E s \in DOMAIN g1 :
             (g1 = g \/ (g = <<>> /\ Len(g1) = 1)) /\ Grown(r, g1, s, q.at, result)
    BY <1>4
  <2>1. PICK s \in DOMAIN g1 :
             (g1 = g \/ (g = <<>> /\ Len(g1) = 1)) /\ Grown(r, g1, s, q.at, result)
    BY <2>0
  <2>2. /\ Consistent(result.reading, result.segment)
        /\ Len(result.reading) = Len(r) + 1 /\ Extends(r, result.reading)
        /\ result.id \in DOMAIN result.reading
        /\ SameCounters(g, result.segment)
    BY <2>1, GrownKeeps
  <2> QED
    BY <1>2, <2>2
<1> QED
  BY <1>1, <1>3, <1>4, Ingested

\* The reading of a departure or a return, if any.
LEMMA EventKeeps ==
  ASSUME Consistent(reading, segment), Room(1), NEW context \in Contexts, NEW km \in Km \cup {None},
         NEW at \in Instants, NEW autoInit, NEW result \in EventReading(context, km, at, autoInit)
  PROVE  /\ Consistent(result.reading, result.segment) /\ Extends(reading, result.reading)
         /\ result.id \in DOMAIN result.reading \cup {NoReading}
         /\ SameCounters(segment, result.segment)
<1>1. CASE km = None
  <2>1. result.reading = reading /\ result.segment = segment /\ result.id = NoReading
    BY <1>1 DEF EventReading, Replay
  <2> QED
    BY <2>1 DEF Extends, SameCounters
<1>2. CASE km # None
  <2> DEFINE q == Request("MANUAL", FALSE, context, km, at, 0, autoInit)
  <2>1. result \in Ingest(reading, segment, q)
    BY <1>2 DEF EventReading
  <2>2. Asked(q) /\ q.segment = 0
    BY <1>2 DEF Asked, Request
  <2> HIDE DEF q
  <2>3. Len(reading) + 1 <= MaxReadings
    BY DEF Room
  <2> QED
    BY <2>1, <2>2, <2>3, IngestKeeps
<1> QED
  BY <1>1, <1>2

\* A reading, a submission or a sample.
LEMMA EnterKeeps ==
  ASSUME Consistent(reading, segment), NEW q, Asked(q),
         q.segment = 0 \/ q.segment \in DOMAIN segment, Enter(q)
  PROVE  /\ Consistent(reading', segment') /\ Extends(reading, reading')
         /\ SameCounters(segment, segment')
<1>1. PICK result \in Ingest(reading, segment, q) : Becomes(result)
  BY DEF Enter
<1>2. Len(reading) + 1 <= MaxReadings
  BY DEF Enter, Room
<1>3. /\ Consistent(result.reading, result.segment) /\ Extends(reading, result.reading)
      /\ SameCounters(segment, result.segment)
  BY <1>2, IngestKeeps
<1> QED
  BY <1>1, <1>3 DEF Becomes

WithStatus(r, i, status) == [r EXCEPT ![i].status = status]

OnlyStatus(r, i, status, r2) ==
  /\ r2 \in Seq(Reading) /\ DOMAIN r2 = DOMAIN r /\ Len(r2) = Len(r)
  /\ \A j \in DOMAIN r \ {i} : r2[j] = r[j]
  /\ r2[i].segment = r[i].segment /\ r2[i].km = r[i].km /\ r2[i].at = r[i].at
  /\ r2[i].cumulative = r[i].cumulative /\ r2[i].status = status

\* The status of one reading changes.
LEMMA StatusChange ==
  ASSUME NEW r \in Seq(Reading), NEW i \in DOMAIN r,
         NEW status \in {"EN_ATTENTE", "ACCEPTE", "REJETE", "REMPLACE"}
  PROVE  OnlyStatus(r, i, status, WithStatus(r, i, status))
<1> DEFINE r2 == WithStatus(r, i, status)
<1>1. Len(r) \in Nat /\ DOMAIN r = 1..Len(r) /\ \A j \in DOMAIN r : r[j] \in Reading
  BY LenProperties, ElementOfSeq
<1>2. /\ DOMAIN r2 = DOMAIN r /\ \A j \in DOMAIN r \ {i} : r2[j] = r[j]
      /\ r2[i] = [r[i] EXCEPT !.status = status]
  BY <1>1 DEF WithStatus
<1>3. r2 = [j \in 1..Len(r) |-> r2[j]]
  BY <1>1 DEF WithStatus
<1> HIDE DEF r2
<1>4. /\ r2[i] \in Reading
      /\ r2[i].segment = r[i].segment /\ r2[i].km = r[i].km /\ r2[i].at = r[i].at
      /\ r2[i].cumulative = r[i].cumulative /\ r2[i].status = status
  BY <1>1, <1>2 DEF Reading
<1>5. r2 \in [1..Len(r) -> Reading]
  <2>1. \A j \in 1..Len(r) : r2[j] \in Reading
    BY <1>1, <1>2, <1>4
  <2> QED
    BY <1>3, <2>1
<1>6. r2 \in Seq(Reading) /\ Len(r2) = Len(r)
  BY <1>1, <1>5, IsASeq, LenProperties
<1> QED
  BY <1>2, <1>4, <1>6 DEF OnlyStatus, r2

\* approve: the reading approved is where the rule lets it be.
LEMMA ApproveKeeps ==
  ASSUME Consistent(reading, segment), NEW i \in DOMAIN reading, Approve(i)
  PROVE  /\ Consistent(reading', segment') /\ SameCounters(segment, segment')
         /\ DOMAIN reading' = DOMAIN reading
         /\ \A j \in DOMAIN reading \ {i} : reading'[j] = reading[j]
         /\ reading[i].status = "EN_ATTENTE"
<1> DEFINE r == [reading EXCEPT ![i].status = "ACCEPTE"]
           s == reading[i].segment
<1>1. /\ reading[i].status = "EN_ATTENTE" /\ reading' = r /\ segment' = Refreshed(r, segment, s)
      /\ MayBeAccepted(Evaluate(reading, segment, "MANUAL", reading[i].km, reading[i].at, s, i))
  BY DEF Approve
<1>2. /\ Sound(reading, segment) /\ Typed(reading, segment) /\ Based(reading, segment)
      /\ Len(reading) <= MaxReadings /\ OnScale(reading, segment)
      /\ reading \in Seq(Reading) /\ segment \in Seq(Segment)
  BY DEF Consistent, Sound, Typed
<1>3. s \in DOMAIN segment /\ reading[i].km \in Km /\ reading[i].at \in Instants
  BY <1>2, RowTypes
<1>4. /\ r \in Seq(Reading) /\ DOMAIN r = DOMAIN reading /\ Len(r) = Len(reading)
      /\ \A j \in DOMAIN reading \ {i} : r[j] = reading[j]
      /\ r[i].segment = s /\ r[i].km = reading[i].km /\ r[i].at = reading[i].at
      /\ r[i].cumulative = reading[i].cumulative /\ r[i].status = "ACCEPTE"
  <2>1. OnlyStatus(reading, i, "ACCEPTE", WithStatus(reading, i, "ACCEPTE"))
    BY <1>2, StatusChange
  <2> QED
    BY <2>1 DEF WithStatus, OnlyStatus
<1> HIDE DEF r
<1>5. Typed(r, segment)
  <2>1. \A j \in DOMAIN r : j \in DOMAIN reading /\ r[j].segment = reading[j].segment
    BY <1>4
  <2>2. Len(segment) <= MaxSegments /\ \A j \in DOMAIN reading : reading[j].segment \in DOMAIN segment
    BY <1>2 DEF Typed
  <2> QED
    BY <1>2, <1>4, <2>1, <2>2 DEF Typed
<1>6. Beside(reading, r, i, i)
  BY <1>4 DEF Beside
<1>7. Placed(reading, segment, r[i], i)
  <2>1. Fits(reading, segment, s, reading[i].km, reading[i].at, i)
    BY <1>1, <1>2, <1>3, Evaluated
  <2> QED
    BY <1>1, <1>2, <1>4, <2>1 DEF Placed, OnScale
<1>8. Sound(r, segment)
  BY <1>2, <1>4, <1>5, <1>6, <1>7, Place
<1>9. Sound(reading', segment') /\ SameScale(segment, segment')
  BY <1>1, <1>3, <1>8, RefreshedKeeps
<1>10. SameCounters(segment, segment') /\ DOMAIN segment' = DOMAIN segment
  BY <1>2, <1>9, SameScaleCounters
<1>11. Based(reading', segment')
  <2>1. \A t : Accepted(reading, t) \subseteq Accepted(r, t)
    BY <1>1, <1>4 DEF Accepted
  <2> QED
    BY <1>1, <1>2, <1>10, <2>1 DEF Based
<1> QED
  BY <1>1, <1>2, <1>4, <1>9, <1>10, <1>11 DEF Consistent

\* reject: nothing that counts is lost.
LEMMA RejectKeeps ==
  ASSUME Consistent(reading, segment), NEW i \in DOMAIN reading, Reject(i)
  PROVE  /\ Consistent(reading', segment') /\ SameCounters(segment, segment')
         /\ DOMAIN reading' = DOMAIN reading
         /\ \A j \in DOMAIN reading \ {i} : reading'[j] = reading[j]
         /\ reading[i].status = "EN_ATTENTE"
<1> DEFINE r == [reading EXCEPT ![i].status = "REJETE"]
<1>1. reading[i].status = "EN_ATTENTE" /\ reading' = r /\ segment' = segment
  BY DEF Reject
<1>2. /\ Sound(reading, segment) /\ Typed(reading, segment) /\ Based(reading, segment)
      /\ Len(reading) <= MaxReadings
      /\ reading \in Seq(Reading) /\ segment \in Seq(Segment)
  BY DEF Consistent, Sound, Typed
<1>3. /\ r \in Seq(Reading) /\ DOMAIN r = DOMAIN reading /\ Len(r) = Len(reading)
      /\ \A j \in DOMAIN reading \ {i} : r[j] = reading[j]
      /\ r[i].segment = reading[i].segment /\ r[i].km = reading[i].km /\ r[i].at = reading[i].at
      /\ r[i].cumulative = reading[i].cumulative /\ r[i].status = "REJETE"
  <2>1. OnlyStatus(reading, i, "REJETE", WithStatus(reading, i, "REJETE"))
    BY <1>2, StatusChange
  <2> QED
    BY <2>1 DEF WithStatus, OnlyStatus
<1>4. 0 \notin DOMAIN reading
  BY <1>2, RowTypes
<1> HIDE DEF r
<1>5. Typed(r, segment)
  <2>1. \A j \in DOMAIN r : j \in DOMAIN reading /\ r[j].segment = reading[j].segment
    BY <1>3
  <2>2. Len(segment) <= MaxSegments /\ \A j \in DOMAIN reading : reading[j].segment \in DOMAIN segment
    BY <1>2 DEF Typed
  <2> QED
    BY <1>2, <1>3, <2>1, <2>2 DEF Typed
<1>6. Beside(reading, r, 0, 0)
  BY <1>3, <1>4 DEF Beside
<1>7. Sound(r, segment)
  BY <1>2, <1>3, <1>4, <1>5, <1>6, Place
<1>8. Based(r, segment)
  <2>1. \A t : Accepted(reading, t) \subseteq Accepted(r, t)
    BY <1>1, <1>3 DEF Accepted
  <2> QED
    BY <1>2, <2>1 DEF Based
<1> QED
  BY <1>1, <1>2, <1>3, <1>7, <1>8 DEF Consistent, SameCounters

\* correct: the replacement takes the place of the original.
LEMMA CorrectKeeps ==
  ASSUME Consistent(reading, segment), NEW i \in DOMAIN reading, NEW km \in Km, NEW at \in Instants,
         NEW linked, Correct(i, km, at, linked)
  PROVE  /\ Consistent(reading', segment') /\ SameCounters(segment, segment')
         /\ DOMAIN reading' = DOMAIN reading \cup {Len(reading')}
         /\ Len(reading') \notin DOMAIN reading
         /\ \A j \in DOMAIN reading \ {i} : reading'[j] = reading[j]
         /\ LET row == reading'[Len(reading')]
            IN  /\ row.status = "ACCEPTE" /\ row.segment = reading[i].segment
                /\ row.at = at /\ row.cumulative = Cumulative(segment, row.segment, km)
<1> DEFINE r1 == [reading EXCEPT ![i].status = "REMPLACE"]
           s == reading[i].segment
           row == [reading[i] EXCEPT !.km = km, !.cumulative = Cumulative(segment, s, km),
                                     !.at = at, !.source = "MANUAL"]
           r == Append(r1, row)
           n == Len(reading) + 1
<1>1. /\ reading[i].status = "ACCEPTE" /\ reading' = r /\ segment' = Refreshed(r, segment, s)
      /\ Room(1) /\ Cumulative(segment, s, km) >= 0
      /\ segment[s].endedAt # Open => at < segment[s].endedAt
      /\ MayBeAccepted(Evaluate(reading, segment, "MANUAL", km, at, s, i))
  BY DEF Correct
<1>2. /\ Sound(reading, segment) /\ Typed(reading, segment) /\ Based(reading, segment)
      /\ Contiguous(segment) /\ Len(segment) <= MaxSegments
      /\ reading \in Seq(Reading) /\ segment \in Seq(Segment)
      /\ \A j \in DOMAIN reading : reading[j].segment \in DOMAIN segment
  BY DEF Consistent, Sound, Typed
<1>3. /\ s \in DOMAIN segment /\ reading[i] \in Reading /\ km \in Nat /\ at \in Nat
      /\ Len(segment) \in Nat /\ DOMAIN segment = 1..Len(segment)
      /\ segment[s].startCumulative \in Nat /\ segment[s].startPhysical \in Nat
      /\ Len(reading) \in Nat /\ DOMAIN reading = 1..Len(reading)
  BY <1>2, RowTypes, OdometerAssumption DEF Km, Instants
<1>4. /\ r1 \in Seq(Reading) /\ DOMAIN r1 = DOMAIN reading /\ Len(r1) = Len(reading)
      /\ \A j \in DOMAIN reading \ {i} : r1[j] = reading[j]
      /\ r1[i].segment = s /\ r1[i].status = "REMPLACE"
      /\ r1[i].km = reading[i].km /\ r1[i].at = reading[i].at
      /\ r1[i].cumulative = reading[i].cumulative
  <2>1. OnlyStatus(reading, i, "REMPLACE", WithStatus(reading, i, "REMPLACE"))
    BY <1>2, StatusChange
  <2> QED
    BY <2>1 DEF WithStatus, OnlyStatus
<1> HIDE DEF r1
<1>5. Cumulative(segment, s, km) \in Nat
  BY <1>1, <1>3 DEF Cumulative
<1>6. /\ row \in Reading /\ row.segment = s /\ row.km = km /\ row.at = at
      /\ row.cumulative = Cumulative(segment, s, km) /\ row.status = "ACCEPTE"
  BY <1>1, <1>3, <1>5 DEF Reading
<1> HIDE DEF row
<1>7. /\ r \in Seq(Reading) /\ Len(r) = n /\ DOMAIN r = DOMAIN reading \cup {n}
      /\ r[n] = row /\ n \notin DOMAIN reading
      /\ \A j \in DOMAIN reading : r[j] = r1[j]
  BY <1>4, <1>6, OneMore
<1> HIDE DEF r
<1>8. Typed(r, segment)
  <2>1. \A j \in DOMAIN r : r[j].segment \in DOMAIN segment
    BY <1>2, <1>3, <1>4, <1>6, <1>7
  <2> QED
    BY <1>2, <1>7, <2>1 DEF Typed
<1>9. Beside(reading, r, n, i)
  BY <1>4, <1>7 DEF Beside
<1>10. Placed(reading, segment, r[n], i)
  <2>1. Fits(reading, segment, s, km, at, i)
    BY <1>1, <1>2, <1>3, Evaluated
  <2> QED
    BY <1>6, <1>7, <2>1 DEF Placed
<1>11. Sound(r, segment)
  BY <1>2, <1>8, <1>9, <1>10, Place
<1>12. Sound(reading', segment') /\ SameScale(segment, segment')
  BY <1>1, <1>3, <1>11, RefreshedKeeps
<1>13. SameCounters(segment, segment') /\ DOMAIN segment' = DOMAIN segment
  BY <1>2, <1>12, SameScaleCounters
<1>14. Based(reading', segment')
  <2>1. ASSUME NEW t, Accepted(reading, t) # {} PROVE Accepted(r, t) # {}
    <3>1. CASE t = s
      <4>1. n \in Accepted(r, t)
        BY <1>6, <1>7, <3>1 DEF Accepted
      <4> QED
        BY <4>1
    <3>2. CASE t # s
      <4>1. Accepted(reading, t) \subseteq Accepted(r, t)
        BY <1>4, <1>7, <3>2 DEF Accepted
      <4> QED
        BY <2>1, <4>1
    <3> QED
      BY <3>1, <3>2
  <2> QED
    BY <1>1, <1>2, <1>13, <2>1 DEF Based
<1>15. Consistent(reading', segment')
  BY <1>1, <1>7, <1>12, <1>14 DEF Consistent, Room
<1> QED
  BY <1>1, <1>4, <1>6, <1>7, <1>13, <1>15

\* initialSegmentInTx: the waiting submissions are put on the scale declared.
LEMMA InitialiseKeeps ==
  ASSUME Consistent(reading, segment), NEW km \in Km, NEW at \in Instants,
         NEW cumulative \in Km \cup {None}, NEW known \in BOOLEAN,
         Initialise(km, at, cumulative, known)
  PROVE  /\ Consistent(reading', segment') /\ Len(segment) <= 1
         /\ \A i \in DOMAIN reading : /\ i \in DOMAIN reading' /\ reading[i].status # "ACCEPTE"
                                      /\ reading'[i].status = reading[i].status
<1> DEFINE g == <<[startedAt |-> at, endedAt |-> Open, startPhysical |-> km,
                   startCumulative |-> IF cumulative = None THEN km ELSE cumulative,
                   known |-> known]>>
           r == [i \in DOMAIN reading |->
                   [reading[i] EXCEPT !.cumulative = Cumulative(g, 1, reading[i].km)]]
           q == Request("MANUAL", FALSE, "INITIALISATION", km, at, 1, TRUE)
<1>1. /\ Room(1) /\ Len(segment) <= 1
      /\ \A i \in DOMAIN reading : reading[i].status # "ACCEPTE"
      /\ \A i \in DOMAIN r : r[i].cumulative >= 0
  BY DEF Initialise
<1>2. PICK result \in Ingest(r, g, q) : Becomes(result)
  BY DEF Initialise
<1>3. /\ Typed(reading, segment) /\ reading \in Seq(Reading)
      /\ \A i \in DOMAIN reading : reading[i].segment \in DOMAIN segment
  BY DEF Consistent, Sound, Typed
<1>4. /\ Len(segment) \in Nat /\ DOMAIN segment = 1..Len(segment)
      /\ Len(reading) \in Nat /\ DOMAIN reading = 1..Len(reading)
      /\ \A i \in DOMAIN reading : reading[i] \in Reading /\ reading[i].km \in Nat
  BY <1>3, RowTypes
<1>5. \A i \in DOMAIN reading : reading[i].segment = 1
  BY <1>1, <1>3, <1>4
<1>6. /\ g[1] \in Segment /\ g \in Seq(Segment) /\ Len(g) = 1 /\ DOMAIN g = {1}
      /\ g[1].endedAt = Open /\ g[1].startCumulative \in Nat /\ g[1].startPhysical \in Nat
  <2>1. [startedAt |-> at, endedAt |-> Open, startPhysical |-> km,
         startCumulative |-> IF cumulative = None THEN km ELSE cumulative,
         known |-> known] \in Segment
    BY OdometerAssumption DEF Segment, Km
  <2> QED
    BY <2>1, OdometerAssumption DEF Segment, Km
<1>7. Asked(q) /\ q.segment = 1
  BY DEF Asked, Request, Contexts
<1> HIDE DEF g, q
<1>8. ASSUME NEW i \in DOMAIN reading
      PROVE  /\ r[i] \in Reading /\ r[i].segment = 1 /\ r[i].km = reading[i].km
             /\ r[i].status = reading[i].status
             /\ r[i].cumulative = Cumulative(g, 1, r[i].km)
  <2>1. r[i] = [reading[i] EXCEPT !.cumulative = Cumulative(g, 1, reading[i].km)]
    OBVIOUS
  <2>2. r[i].cumulative = Cumulative(g, 1, reading[i].km) /\ r[i].cumulative >= 0
    BY <1>1, <1>4, <2>1 DEF Reading
  <2>3. Cumulative(g, 1, reading[i].km) \in Nat
    BY <1>4, <1>6, <2>2 DEF Cumulative
  <2> HIDE DEF r
  <2> QED
    BY <1>4, <1>5, <2>1, <2>3 DEF Reading
<1>9. DOMAIN r = 1..Len(reading) /\ r \in [1..Len(reading) -> Reading]
  <2>1. r = [i \in 1..Len(reading) |-> r[i]]
    BY <1>4
  <2>2. DOMAIN r = 1..Len(reading) /\ \A i \in 1..Len(reading) : r[i] \in Reading
    BY <1>4, <1>8
  <2> HIDE DEF r
  <2> QED
    BY <2>1, <2>2
<1> HIDE DEF r
<1>10. r \in Seq(Reading) /\ Len(r) = Len(reading)
  BY <1>4, <1>9, IsASeq, LenProperties
<1>11. Typed(r, g)
  BY <1>4, <1>6, <1>8, <1>9, <1>10, OdometerAssumption DEF Typed
<1>12. Sound(r, g)
  BY <1>1, <1>4, <1>6, <1>8, <1>9, <1>11
  DEF Sound, OnScale, InOrder, Contiguous, BelowNextBase, AboveStart
<1>13. Consistent(r, g) /\ Len(r) + 1 <= MaxReadings
  <2>1. Based(r, g)
    BY <1>6 DEF Based
  <2>2. Len(r) + 1 <= MaxReadings /\ Len(r) <= MaxReadings
    BY <1>1, <1>4, <1>10, OdometerAssumption DEF Room
  <2> QED
    BY <1>12, <2>1, <2>2 DEF Consistent
<1>14. Consistent(result.reading, result.segment) /\ Extends(r, result.reading)
  BY <1>2, <1>6, <1>7, <1>13, IngestKeeps
<1> QED
  BY <1>1, <1>2, <1>4, <1>8, <1>9, <1>14 DEF Becomes, Extends

\* The counter installed after the last one, s, which ends at this instant.
Followed(g, s, at, next) == Append([g EXCEPT ![s].endedAt = at], next)

\* What the readings of the old counter and its base are when it is replaced.
LEMMA FollowedSound ==
  ASSUME NEW r, NEW g, Consistent(r, g), NEW s, s = Len(g), s \in 1..(MaxSegments - 1),
         NEW at \in Instants, g[s].startedAt <= at,
         NEW next \in Segment, next.startedAt = at, next.endedAt = Open,
         \A i \in Accepted(r, s) : r[i].cumulative <= next.startCumulative
  PROVE  LET g2 == Followed(g, s, at, next)
         IN  /\ Sound(r, g2) /\ Len(g2) = s + 1 /\ s + 1 \in DOMAIN g2 /\ g2 \in Seq(Segment)
             /\ SameCounters(g, g2)
             /\ \A t \in DOMAIN g2 : t \in 1..s \/ t = s + 1
<1> DEFINE g1 == [g EXCEPT ![s].endedAt = at]
           g2 == Followed(g, s, at, next)
<1>1. /\ Typed(r, g) /\ OnScale(r, g) /\ InOrder(r) /\ Contiguous(g)
      /\ BelowNextBase(r, g) /\ AboveStart(r, g)
  BY DEF Consistent, Sound
<1>2. /\ r \in Seq(Reading) /\ g \in Seq(Segment)
      /\ DOMAIN g = 1..s /\ s \in Nat /\ s \in 1..s
      /\ \A t \in DOMAIN g : g[t] \in Segment
      /\ \A i \in DOMAIN r : r[i].segment \in 1..s
  BY <1>1, RowTypes, OdometerAssumption DEF Typed
<1>3. /\ DOMAIN g1 = 1..s /\ g1[s] = [g[s] EXCEPT !.endedAt = at]
      /\ \A t \in 1..(s - 1) : g1[t] = g[t]
  BY <1>2
<1>4. /\ g1[s] \in Segment /\ g1[s].endedAt = at /\ g1[s].startedAt = g[s].startedAt
      /\ g1[s].startPhysical = g[s].startPhysical
      /\ g1[s].startCumulative = g[s].startCumulative /\ g1[s].known = g[s].known
  BY <1>2, <1>3 DEF Segment
<1>5. \A t \in 1..s : t = s \/ t \in 1..(s - 1)
  BY <1>2
<1>6. g1 \in Seq(Segment) /\ Len(g1) = s
  <2>1. g1 = [t \in 1..s |-> g1[t]]
    BY <1>2
  <2>2. \A t \in 1..s : g1[t] \in Segment
    BY <1>2, <1>3, <1>4, <1>5
  <2> HIDE DEF g1
  <2>3. g1 \in [1..s -> Segment]
    BY <2>1, <2>2
  <2> QED
    BY <1>2, <1>3, <2>3, IsASeq, LenProperties
<1>7. g2 = Append(g1, next)
  BY DEF Followed
<1> HIDE DEF g1
<1>8. /\ g2 \in Seq(Segment) /\ Len(g2) = s + 1 /\ DOMAIN g2 = 1..(s + 1)
      /\ g2[s + 1] = next /\ \A t \in 1..s : g2[t] = g1[t]
  BY <1>6, <1>7, AppendProperties, LenProperties
<1> HIDE DEF g2
<1>9. \A t \in DOMAIN g2 : t \in 1..s \/ t = s + 1
  BY <1>2, <1>8
<1>10. \A t \in 1..s : /\ g2[t].known = g[t].known /\ g2[t].startedAt = g[t].startedAt
                       /\ g2[t].startPhysical = g[t].startPhysical
                       /\ g2[t].startCumulative = g[t].startCumulative
                       /\ t # s => g2[t].endedAt = g[t].endedAt
  BY <1>3, <1>4, <1>5, <1>8
<1>11. g2[s].endedAt = at /\ s # s + 1
  BY <1>2, <1>4, <1>8
<1>12. Typed(r, g2)
  <2>1. Len(g2) <= MaxSegments
    BY <1>2, <1>8, OdometerAssumption
  <2>2. \A i \in DOMAIN r : r[i].segment \in DOMAIN g2
    BY <1>2, <1>8
  <2> QED
    BY <1>2, <1>8, <2>1, <2>2 DEF Typed
<1>13. OnScale(r, g2)
  BY <1>1, <1>2, <1>10 DEF OnScale, Cumulative
<1>14. Contiguous(g2)
  <2> SUFFICES ASSUME NEW t \in DOMAIN g2
               PROVE  IF t = Len(g2) THEN g2[t].endedAt = Open
                      ELSE g2[t].endedAt = g2[t + 1].startedAt /\ g2[t].startedAt <= g2[t].endedAt
    BY DEF Contiguous
  <2>1. CASE t = s + 1
    BY <1>8, <2>1
  <2>2. CASE t = s
    BY <1>2, <1>8, <1>10, <1>11, <2>2
  <2>3. CASE t \in 1..(s - 1)
    <3>1. t \in DOMAIN g /\ t + 1 \in 1..s /\ t # s /\ t # s + 1 /\ t \in 1..s
      BY <1>2, <2>3
    <3>2. g[t].endedAt = g[t + 1].startedAt /\ g[t].startedAt <= g[t].endedAt
      BY <1>1, <3>1 DEF Contiguous
    <3> QED
      BY <1>8, <1>10, <3>1, <3>2
  <2> QED
    BY <1>5, <1>9, <2>1, <2>2, <2>3
<1>16. BelowNextBase(r, g2)
  <2> SUFFICES ASSUME NEW i \in DOMAIN r, r[i].status = "ACCEPTE", TakenOver(g2, r[i].segment)
               PROVE  r[i].cumulative <= g2[r[i].segment + 1].startCumulative
    BY DEF BelowNextBase
  <2>1. CASE r[i].segment = s
    BY <1>8, <2>1 DEF Accepted
  <2>2. CASE r[i].segment # s
    <3>1. r[i].segment \in 1..s /\ r[i].segment + 1 \in 1..s
      BY <1>2, <1>5, <2>2
    <3>2. TakenOver(g, r[i].segment)
      BY <1>2, <1>10, <2>2, <3>1 DEF TakenOver
    <3> QED
      BY <1>1, <1>10, <3>1, <3>2 DEF BelowNextBase
  <2> QED
    BY <2>1, <2>2
<1>17. AboveStart(r, g2)
  BY <1>1, <1>2, <1>10 DEF AboveStart
<1>18. SameCounters(g, g2)
  BY <1>2, <1>8, <1>9, <1>10 DEF SameCounters
<1>19. s + 1 \in DOMAIN g2
  BY <1>2, <1>8
<1> QED
  BY <1>1, <1>8, <1>9, <1>12, <1>13, <1>14, <1>16, <1>17, <1>18, <1>19 DEF Sound, g2

\* initSegment: the old counter is closed and the new one has its first reading.
LEMMA ReplaceKeeps ==
  ASSUME Consistent(reading, segment), NEW km \in Km, NEW at \in Instants,
         NEW closingKm \in Km \cup {None}, NEW cumulative \in Km \cup {None},
         Replace(km, at, closingKm, cumulative)
  PROVE  /\ Consistent(reading', segment') /\ Extends(reading, reading')
         /\ SameCounters(segment, segment')
<1> DEFINE s == Len(segment)
           qc == Request("MANUAL", FALSE, "RELEVE_LIBRE", closingKm, at, s, TRUE)
           q == Request("MANUAL", FALSE, "INITIALISATION", km, at, s + 1, TRUE)
<1>1. /\ Room(2) /\ s \in 1..(MaxSegments - 1) /\ at > segment[s].startedAt
      /\ \A i \in DOMAIN reading :
           reading[i].segment = s /\ reading[i].at > at
             => reading[i].status \notin {"ACCEPTE", "EN_ATTENTE"}
  BY DEF Replace
<1>2. PICK closing \in IF closingKm = None THEN Replay(reading, segment, 0)
                       ELSE Ingest(reading, segment, qc) :
           \E result \in
                 Ingest(closing.reading,
                        Followed(closing.segment, s, at,
                                 NextSegment(closing.reading, s, km, at, cumulative)), q) :
                result.outcome = "ACCEPTE" /\ Becomes(result)
  BY DEF Replace, Followed
<1> DEFINE r == closing.reading
           next == NextSegment(r, s, km, at, cumulative)
           g2 == Followed(closing.segment, s, at, next)
<1>3. PICK result \in Ingest(r, g2, q) : result.outcome = "ACCEPTE" /\ Becomes(result)
  BY <1>2
<1>4. /\ Sound(reading, segment) /\ Typed(reading, segment) /\ segment \in Seq(Segment)
      /\ Len(reading) \in Nat /\ Len(reading) + 2 <= MaxReadings
      /\ s \in Nat /\ s \in DOMAIN segment /\ at \in Nat
      /\ \A i \in DOMAIN reading : reading[i].at \in Nat
      /\ segment[s].startedAt \in Nat
  <2>1. Sound(reading, segment) /\ Typed(reading, segment)
    BY DEF Consistent, Sound
  <2>2. s \in DOMAIN segment /\ s \in Nat
    BY <1>1, <2>1, RowTypes
  <2> QED
    BY <1>1, <2>1, <2>2, RowTypes, OdometerAssumption DEF Instants, Room, Typed
\* The closing reading, on the old counter or none.
<1>5. /\ Consistent(r, closing.segment) /\ Extends(reading, r) /\ Len(r) <= Len(reading) + 1
      /\ \/ r = reading /\ closing.segment = segment
         \/ /\ SameScale(segment, closing.segment)
            /\ \E row \in Reading : row.at = at /\ r = Append(reading, row)
  <2>1. CASE closingKm = None
    <3>1. r = reading /\ closing.segment = segment
      BY <1>2, <2>1 DEF Replay
    <3> QED
      BY <1>4, <3>1 DEF Extends
  <2>2. CASE closingKm # None
    <3>1. closing \in Ingest(reading, segment, qc)
      BY <1>2, <2>2
    <3>2. Asked(qc) /\ qc.segment = s /\ qc.at = at
      BY <2>2 DEF Asked, Request, Contexts
    <3>3. s # 0 /\ Len(reading) + 1 <= MaxReadings
      BY <1>1, <1>4, OdometerAssumption
    <3> HIDE DEF qc
    <3>4. /\ Consistent(r, closing.segment) /\ Extends(reading, r)
          /\ Len(r) <= Len(reading) + 1
      BY <1>4, <3>1, <3>2, <3>3, IngestKeeps
    <3>5. \/ Replayed(reading, segment, closing)
          \/ \E g1 \in Seq(Segment) : \E t \in DOMAIN g1 :
               /\ g1 = segment \/ (segment = <<>> /\ Len(g1) = 1)
               /\ qc.segment # 0 => t = qc.segment
               /\ Grown(reading, g1, t, qc.at, closing)
      BY <1>4, <3>1, <3>2, Ingested
    <3>6. CASE Replayed(reading, segment, closing)
      BY <3>4, <3>6 DEF Replayed
    <3>7. CASE \E g1 \in Seq(Segment) : \E t \in DOMAIN g1 :
               /\ g1 = segment \/ (segment = <<>> /\ Len(g1) = 1)
               /\ qc.segment # 0 => t = qc.segment
               /\ Grown(reading, g1, t, qc.at, closing)
      <4>1. segment # <<>>
        BY <1>4
      <4>2. Grown(reading, segment, s, at, closing)
        BY <3>2, <3>3, <3>7, <4>1
      <4> QED
        BY <3>4, <4>2 DEF Grown
    <3> QED
      BY <3>5, <3>6, <3>7
  <2> QED
    BY <2>1, <2>2
<1>6. /\ Len(closing.segment) = s /\ closing.segment[s].startedAt <= at
      /\ SameCounters(segment, closing.segment)
  <2>1. CASE closing.segment = segment
    BY <1>1, <1>4, <2>1 DEF SameCounters
  <2>2. CASE SameScale(segment, closing.segment)
    <3>1. /\ Len(closing.segment) = s
          /\ closing.segment[s].startedAt <= segment[s].startedAt
      BY <1>4, <2>2 DEF SameScale
    <3>2. closing.segment[s].startedAt \in Nat
      <4>1. Typed(r, closing.segment)
        BY <1>5 DEF Consistent, Sound
      <4>2. s \in DOMAIN closing.segment
        BY <1>1, <3>1, <4>1, RowTypes
      <4> QED
        BY <4>1, <4>2, RowTypes
    <3>3. SameCounters(segment, closing.segment)
      BY <1>4, <2>2, SameScaleCounters
    <3> QED
      BY <1>1, <1>4, <3>1, <3>2, <3>3
  <2> QED
    BY <1>5, <2>1, <2>2
\* No accepted reading of the old counter is later than its end.
<1>7. \A i \in DOMAIN r : r[i].segment = s /\ r[i].status \in {"ACCEPTE", "EN_ATTENTE"}
                            => r[i].at <= at
  <2>1. \A i \in DOMAIN reading :
          reading[i].segment = s /\ reading[i].status \in {"ACCEPTE", "EN_ATTENTE"}
            => reading[i].at <= at
    BY <1>1, <1>4
  <2>2. CASE r = reading
    BY <2>1, <2>2
  <2>3. CASE \E row \in Reading : row.at = at /\ r = Append(reading, row)
    <3>1. PICK row \in Reading : row.at = at /\ r = Append(reading, row)
      BY <2>3
    <3>2. reading \in Seq(Reading)
      BY <1>4 DEF Typed
    <3>3. /\ DOMAIN r = DOMAIN reading \cup {Len(reading) + 1}
          /\ r[Len(reading) + 1] = row /\ \A i \in DOMAIN reading : r[i] = reading[i]
      BY <3>1, <3>2, OneMore
    <3> QED
      BY <1>4, <2>1, <3>1, <3>3
  <2> QED
    BY <1>5, <2>2, <2>3
<1>8. Typed(r, closing.segment) /\ InOrder(r) /\ OnScale(r, closing.segment)
  BY <1>5 DEF Consistent, Sound
<1> HIDE DEF r, q
<1>9. /\ next \in Segment /\ next.startedAt = at /\ next.endedAt = Open
      /\ \A i \in Accepted(r, s) : r[i].cumulative <= next.startCumulative
  <2> DEFINE validated == {i \in Accepted(r, s) : r[i].at <= at}
             last == Latest(r, validated)
             base == IF validated # {} THEN r[last].cumulative ELSE cumulative
  <2>1. next = [startedAt |-> at, endedAt |-> Open, startPhysical |-> km,
                startCumulative |-> IF base = None THEN km ELSE base,
                known |-> segment[s].known /\ base # None]
    BY DEF NextSegment
  <2>2. validated = Accepted(r, s)
    BY <1>7 DEF Accepted
  <2>3. \A i \in validated : /\ i \in DOMAIN r /\ r[i].cumulative \in Nat /\ r[i].km \in Nat
                             /\ r[i].at \in Nat /\ r[i].segment = s /\ r[i].status = "ACCEPTE"
    BY <1>8, RowTypes DEF Accepted
  <2>4. validated # {} => last \in validated /\ \A i \in validated : r[i].at <= r[last].at
    <3> HIDE DEF validated
    <3>1. validated \in SUBSET DOMAIN r
      BY <2>3
    <3> QED
      BY <1>8, <3>1, Extremes
  <2> HIDE DEF validated, last
  <2>5. base \in Nat \cup {None}
    BY <2>3, <2>4, OdometerAssumption DEF Km
  <2>6. ASSUME NEW i \in validated PROVE r[i].cumulative <= base /\ base # None
    <3>1. last \in validated /\ r[i].at <= r[last].at /\ base = r[last].cumulative
      BY <2>4
    <3>2. r[i].km <= r[last].km
      BY <1>8, <2>3, <3>1 DEF InOrder
    <3>3. /\ r[i].cumulative = Cumulative(closing.segment, s, r[i].km)
          /\ r[last].cumulative = Cumulative(closing.segment, s, r[last].km)
      BY <1>8, <2>3, <3>1 DEF OnScale
    <3>4. s \in DOMAIN closing.segment
      BY <1>8, <2>3 DEF Typed
    <3>5. /\ closing.segment[s].startCumulative \in Nat
          /\ closing.segment[s].startPhysical \in Nat
      BY <1>8, <3>4, RowTypes
    <3>6. r[i].km \in Nat /\ r[last].km \in Nat /\ r[last].cumulative \in Nat
      BY <2>3, <3>1
    <3> HIDE DEF base
    <3> QED
      BY <3>1, <3>2, <3>3, <3>5, <3>6 DEF Cumulative, None
  <2>7. segment[s].known \in BOOLEAN
    BY <1>4, RowTypes
  <2>8. km \in Nat
    BY OdometerAssumption DEF Km
  <2> HIDE DEF base, next
  <2>9. next \in Segment /\ next.startedAt = at /\ next.endedAt = Open
    BY <2>1, <2>5, <2>7, <2>8 DEF Segment
  <2>10. \A i \in Accepted(r, s) : r[i].cumulative <= next.startCumulative
    BY <2>1, <2>2, <2>6
  <2> QED
    BY <2>9, <2>10
<1> HIDE DEF next
<1>10. /\ Sound(r, g2) /\ Len(g2) = s + 1 /\ s + 1 \in DOMAIN g2 /\ g2 \in Seq(Segment)
       /\ SameCounters(closing.segment, g2)
       /\ \A t \in DOMAIN g2 : t \in 1..s \/ t = s + 1
  BY <1>1, <1>5, <1>6, <1>9, FollowedSound
<1> HIDE DEF g2
<1>11. Asked(q) /\ q.segment = s + 1 /\ q.at = at /\ q.segment # 0
  BY <1>1, <1>4 DEF Asked, Request, Contexts, q
\* The first reading of the new counter.
<1>12. Grown(r, g2, s + 1, at, result)
  <2>1. ~ Replayed(r, g2, result)
    BY <1>3 DEF Replayed
  <2>2. \E g1 \in Seq(Segment) : \E t \in DOMAIN g1 :
          /\ g1 = g2 \/ (g2 = <<>> /\ Len(g1) = 1)
          /\ q.segment # 0 => t = q.segment
          /\ Grown(r, g1, t, q.at, result)
    BY <1>3, <1>10, <1>11, <2>1, Ingested
  <2>3. g2 # <<>>
    BY <1>4, <1>10
  <2> QED
    BY <1>11, <2>2, <2>3
<1>13. PICK row \in Reading :
         /\ row.segment = s + 1 /\ result.outcome = row.status /\ result.reading = Append(r, row)
         /\ Sound(result.reading, result.segment) /\ SameScale(g2, result.segment)
  BY <1>12 DEF Grown
<1>14. /\ r \in Seq(Reading) /\ Len(r) \in Nat
       /\ Len(result.reading) = Len(r) + 1
       /\ DOMAIN result.reading = DOMAIN r \cup {Len(r) + 1}
       /\ result.reading[Len(r) + 1] = row
       /\ \A i \in DOMAIN r : result.reading[i] = r[i]
       /\ \A t : Accepted(r, t) \subseteq Accepted(result.reading, t)
  <2>1. r \in Seq(Reading) /\ Len(r) \in Nat
    BY <1>8, RowTypes DEF Typed
  <2> QED
    BY <1>13, <2>1, OneMore
<1>15. SameCounters(g2, result.segment) /\ DOMAIN result.segment = DOMAIN g2
  BY <1>10, <1>13, SameScaleCounters DEF Sound
<1>16. Based(result.reading, result.segment)
  <2> SUFFICES ASSUME NEW t \in DOMAIN g2, t # 1 PROVE Accepted(result.reading, t) # {}
    BY <1>15 DEF Based
  <2>1. CASE t = s + 1
    <3>1. Len(r) + 1 \in Accepted(result.reading, t)
      BY <1>3, <1>13, <1>14, <2>1 DEF Accepted
    <3> QED
      BY <3>1
  <2>2. CASE t \in 1..s
    <3>1. t \in DOMAIN closing.segment
      BY <1>6, <1>8, <2>2, RowTypes
    <3>2. Accepted(r, t) # {}
      BY <1>5, <3>1 DEF Consistent, Based
    <3> QED
      BY <1>14, <3>2
  <2> QED
    BY <1>10, <2>1, <2>2
<1>17. Consistent(result.reading, result.segment)
  BY <1>4, <1>5, <1>13, <1>14, <1>16, OdometerAssumption DEF Consistent
<1>18. Extends(reading, result.reading)
  BY <1>5, <1>14 DEF Extends
<1>19. SameCounters(segment, result.segment)
  BY <1>6, <1>10, <1>15 DEF SameCounters
<1> QED
  BY <1>3, <1>17, <1>18, <1>19 DEF Becomes

----------------------------------------------------------------------------
(* Usages *)

Distances == Nat \cup {NotValidated, Undetermined}

\* A distance is one of two accepted readings, or says that there is none.
LEMMA DistanceValue ==
  ASSUME NEW r, NEW g, Typed(r, g), NEW row \in UsageRow,
         {row.out, row.back} \subseteq DOMAIN r \cup {NoReading}
  PROVE  /\ Distance(r, row) \in Distances
         /\ row.status = "TERMINEE" /\ Distance(r, row) >= 0 =>
              /\ IsAccepted(r, row.out) /\ IsAccepted(r, row.back)
              /\ Distance(r, row) = r[row.back].cumulative - r[row.out].cumulative
         /\ (/\ row.status = "TERMINEE" /\ IsAccepted(r, row.out) /\ IsAccepted(r, row.back)
             /\ r[row.out].cumulative <= r[row.back].cumulative) => Distance(r, row) >= 0
<1>1. \A i \in {row.out, row.back} : IsAccepted(r, i) => i \in DOMAIN r /\ r[i].cumulative \in Nat
  BY RowTypes DEF IsAccepted
<1>2. row.out = NoReading => ~ IsAccepted(r, row.out)
  BY DEF IsAccepted
<1>3. CASE /\ row.status = "TERMINEE" /\ IsAccepted(r, row.out) /\ IsAccepted(r, row.back)
           /\ r[row.back].cumulative >= r[row.out].cumulative
  <2>1. Distance(r, row) = r[row.back].cumulative - r[row.out].cumulative
    BY <1>2, <1>3 DEF Distance
  <2> QED
    BY <1>1, <1>3, <2>1 DEF Distances
<1>4. CASE ~ (/\ row.status = "TERMINEE" /\ IsAccepted(r, row.out) /\ IsAccepted(r, row.back)
              /\ r[row.back].cumulative >= r[row.out].cumulative)
  <2>1. Distance(r, row) \in {NotValidated, Undetermined}
    BY <1>4 DEF Distance
  <2>2. ~ (Distance(r, row) >= 0)
    BY <2>1 DEF NotValidated, Undetermined
  <2> QED
    BY <1>1, <1>4, <2>1, <2>2 DEF Distances
<1> QED
  BY <1>3, <1>4

\* A distance computed again is that of the readings of the moment.
LEMMA MeasuredRow ==
  ASSUME NEW r, NEW g, Typed(r, g), NEW row \in UsageRow,
         {row.out, row.back} \subseteq DOMAIN r \cup {NoReading}
  PROVE  /\ UsageOK(r, Measured(r, row)) /\ Measured(r, row).distance = Distance(r, row)
         /\ Measured(r, row).status = row.status
<1> DEFINE row2 == Measured(r, row)
<1>1. Distance(r, row) \in Distances
  BY DistanceValue
<1>2. /\ row2 \in UsageRow /\ row2.status = row.status /\ row2.out = row.out
      /\ row2.back = row.back /\ row2.distance = Distance(r, row)
  BY <1>1 DEF Measured, UsageRow, Distances
<1> HIDE DEF row2
<1>3. Distance(r, row2) = Distance(r, row)
  BY <1>2 DEF Distance
<1> QED
  BY <1>2, <1>3 DEF UsageOK, Measures, row2

\* The distance of a usage whose readings count as they did is still right.
LEMMA RowKept ==
  ASSUME NEW r, NEW row, UsageOK(r, row), NEW r2,
         \A i \in {row.out, row.back} \cap DOMAIN r :
           /\ i \in DOMAIN r2 /\ (r2[i].status = "ACCEPTE") = (r[i].status = "ACCEPTE")
           /\ r[i].status = "ACCEPTE" => r2[i].cumulative = r[i].cumulative
  PROVE  UsageOK(r2, row)
<1>1. /\ row \in UsageRow /\ {row.out, row.back} \subseteq DOMAIN r \cup {NoReading}
      /\ Measures(r, row)
  BY DEF UsageOK
<1>2. \A i \in {row.out, row.back} : /\ IsAccepted(r2, i) = IsAccepted(r, i)
                                     /\ IsAccepted(r, i) => r2[i].cumulative = r[i].cumulative
  BY <1>1 DEF IsAccepted
<1>3. Distance(r2, row) = Distance(r, row)
  BY <1>2 DEF Distance
<1>4. {row.out, row.back} \subseteq DOMAIN r2 \cup {NoReading}
  BY <1>1
<1> QED
  BY <1>1, <1>3, <1>4 DEF UsageOK, Measures

\* Readings more change no distance.
LEMMA UsagesExtended ==
  ASSUME UsageInv, NEW r2, Extends(reading, r2)
  PROVE  \A u \in Usages : UsageOK(r2, usage[u])
<1> SUFFICES ASSUME NEW u \in Usages PROVE UsageOK(r2, usage[u])
  OBVIOUS
<1>1. UsageOK(reading, usage[u])
  BY DEF UsageInv
<1> QED
  BY <1>1, RowKept DEF Extends

\* The usage u has a validated distance, of readings that follow each other.
WellMeasured(u) ==
  usage[u].status = "TERMINEE" /\ usage[u].distance >= 0 /\ Follows(usage[u].back, usage[u].out)

StillValidated == \A u \in Usages : WellMeasured(u) => usage'[u].distance >= 0

\* The usage u takes the row given, in good order, and the others keep theirs.
LEMMA OneUsage ==
  ASSUME NEW u \in Usages, NEW row, UsageInv, usage' = [usage EXCEPT ![u] = row],
         UsageOK(reading', row), \A v \in Usages : UsageOK(reading', usage[v]),
         usage[u].status # "TERMINEE" \/ row.distance >= 0
  PROVE  UsageInv' /\ StillValidated
<1>1. /\ usage' \in [Usages -> UsageRow] /\ usage'[u] = row
      /\ \A v \in Usages \ {u} : usage'[v] = usage[v]
  BY DEF UsageInv, UsageOK
<1>2. UsageInv'
  BY <1>1 DEF UsageInv
<1>3. StillValidated
  BY <1>1 DEF StillValidated, WellMeasured
<1> QED
  BY <1>2, <1>3

\* What a step keeps: the consistency, the bases, the validated distances.  A
\* reading that fixes a base stays, or is replaced by one of the same value that
\* was observed before the end of the counter too.
FixesBase(k) == reading[k].status = "ACCEPTE" /\ FixesFollowingBase(k)

BasesKept ==
  Len(segment) > 1 =>
    /\ SameCounters(segment, segment')
    /\ \A k \in DOMAIN reading : FixesBase(k) =>
         \E k2 \in DOMAIN reading' :
           /\ reading'[k2].status = "ACCEPTE" /\ reading'[k2].segment = reading[k].segment
           /\ reading'[k2].cumulative = reading[k].cumulative
           /\ reading'[k2].at = reading[k].at \/ reading'[k2].at < segment[reading[k].segment].endedAt

Kept == IInv' /\ BasesKept /\ StillValidated

\* Readings more take no base away.
LEMMA ExtendedBases ==
  ASSUME SameCounters(segment, segment'), Extends(reading, reading')
  PROVE  BasesKept
BY DEF BasesKept, Extends, FixesBase

\* The same usages with readings more.
LEMMA SameUsages ==
  ASSUME IInv, UNCHANGED usage, Consistent(reading', segment'), Extends(reading, reading'),
         SameCounters(segment, segment')
  PROVE  Kept
<1>1. \A u \in Usages : UsageOK(reading', usage[u])
  BY UsagesExtended DEF IInv
<1>2. UsageInv'
  BY <1>1 DEF UsageInv, IInv
<1>3. StillValidated
  BY DEF StillValidated, WellMeasured
<1> QED
  BY <1>2, <1>3, ExtendedBases DEF Kept, IInv

\* Readings, submissions, samples.
LEMMA EnteredKeeps ==
  ASSUME IInv, Entered \/ Sampled, UNCHANGED usage
  PROVE  Kept
<1>1. PICK q : /\ Asked(q) /\ Enter(q)
               /\ q.segment = 0 \/ q.segment \in DOMAIN segment
  <2>1. CASE Entered
    BY <2>1 DEF Entered, Request, Asked, Contexts
  <2>2. CASE Sampled
    BY <2>2 DEF Sampled, Request, Asked, Contexts
  <2> QED
    BY <2>1, <2>2
<1> QED
  BY <1>1, EnterKeeps, SameUsages DEF IInv

\* The first counter declared: no distance rests on a reading then.
LEMMA InitialisedKeeps ==
  ASSUME IInv, Initialised, UNCHANGED usage
  PROVE  Kept
<1>1. /\ Consistent(reading', segment') /\ Len(segment) <= 1
      /\ \A i \in DOMAIN reading : /\ i \in DOMAIN reading' /\ reading[i].status # "ACCEPTE"
                                   /\ reading'[i].status = reading[i].status
  BY InitialiseKeeps DEF Initialised, IInv
<1>2. \A u \in Usages : UsageOK(reading', usage[u])
  <2> SUFFICES ASSUME NEW u \in Usages PROVE UsageOK(reading', usage[u])
    OBVIOUS
  <2>1. UsageOK(reading, usage[u])
    BY DEF IInv, UsageInv
  <2> QED
    BY <1>1, <2>1, RowKept
<1>3. UsageInv'
  BY <1>2 DEF UsageInv, IInv
<1>4. StillValidated
  BY DEF StillValidated, WellMeasured
<1>5. Len(segment) \in Nat
  BY RowTypes DEF IInv, Consistent, Sound
<1>6. BasesKept
  BY <1>1, <1>5 DEF BasesKept
<1> QED
  BY <1>1, <1>3, <1>4, <1>6 DEF Kept, IInv

\* The counter replaced.
LEMMA ReplacedKeeps ==
  ASSUME IInv, Replaced, UNCHANGED usage
  PROVE  Kept
<1>1. /\ Consistent(reading', segment') /\ Extends(reading, reading')
      /\ SameCounters(segment, segment')
  BY ReplaceKeeps DEF Replaced, IInv
<1> QED
  BY <1>1, SameUsages

\* A decision on a waiting reading: only usages that refer to it are measured again.
LEMMA DecidedKeeps ==
  ASSUME IInv, NEW i \in DOMAIN reading, ApproveReading(i) \/ RejectReading(i)
  PROVE  Kept
<1>1. /\ Consistent(reading', segment') /\ SameCounters(segment, segment')
      /\ DOMAIN reading' = DOMAIN reading
      /\ \A j \in DOMAIN reading \ {i} : reading'[j] = reading[j]
      /\ reading[i].status = "EN_ATTENTE"
  BY ApproveKeeps, RejectKeeps DEF ApproveReading, RejectReading, IInv
<1>2. usage' = [u \in Usages |-> IF Uses(u, i) THEN Measured(reading', usage[u]) ELSE usage[u]]
  BY DEF ApproveReading, RejectReading, Remeasured
<1>3. Typed(reading', segment')
  BY <1>1 DEF Consistent, Sound
<1>4. ASSUME NEW u \in Usages
      PROVE  UsageOK(reading', usage'[u]) /\ (WellMeasured(u) => usage'[u].distance >= 0)
  <2>1. /\ UsageOK(reading, usage[u]) /\ usage[u] \in UsageRow
        /\ {usage[u].out, usage[u].back} \subseteq DOMAIN reading \cup {NoReading}
    BY DEF IInv, UsageInv, UsageOK
  <2>2. CASE Uses(u, i)
    <3>1. UsageOK(reading', Measured(reading', usage[u]))
      BY <1>1, <1>3, <2>1, MeasuredRow
    <3>2. ~ WellMeasured(u)
      <4> SUFFICES ASSUME WellMeasured(u) PROVE FALSE
        OBVIOUS
      <4>1. Distance(reading, usage[u]) >= 0 /\ usage[u].status = "TERMINEE"
        BY <2>1 DEF WellMeasured, UsageOK, Measures
      <4>2. IsAccepted(reading, usage[u].out) /\ IsAccepted(reading, usage[u].back)
        BY <2>1, <4>1, DistanceValue DEF IInv, Consistent, Sound
      <4> QED
        BY <1>1, <2>2, <4>2 DEF Uses, IsAccepted
    <3> QED
      BY <1>2, <2>2, <3>1, <3>2
  <2>3. CASE ~ Uses(u, i)
    <3>1. UsageOK(reading', usage[u])
      BY <1>1, <2>1, <2>3, RowKept DEF Uses
    <3> QED
      BY <1>2, <2>3, <3>1 DEF WellMeasured
  <2> QED
    BY <2>2, <2>3
<1>5. UsageInv' /\ StillValidated
  BY <1>2, <1>4 DEF UsageInv, UsageOK, StillValidated
<1>6. BasesKept
  <2> SUFFICES ASSUME NEW k \in DOMAIN reading, FixesBase(k)
               PROVE  /\ k \in DOMAIN reading' /\ reading'[k] = reading[k]
                      /\ reading[k].status = "ACCEPTE"
    BY <1>1 DEF BasesKept
  <2> QED
    BY <1>1 DEF FixesBase
<1> QED
  BY <1>1, <1>5, <1>6 DEF Kept, IInv

\* A correction: the events follow the replacement, at its instant.
LEMMA CorrectedKeeps ==
  ASSUME IInv, NEW i \in DOMAIN reading, NEW km \in Km, NEW at \in Instants,
         CorrectReading(i, km, at)
  PROVE  Kept
<1> DEFINE n == Len(reading')
<1>1. /\ Consistent(reading', segment') /\ SameCounters(segment, segment')
      /\ DOMAIN reading' = DOMAIN reading \cup {n} /\ n \notin DOMAIN reading
      /\ \A j \in DOMAIN reading \ {i} : reading'[j] = reading[j]
      /\ reading'[n].status = "ACCEPTE" /\ reading'[n].segment = reading[i].segment
      /\ reading'[n].at = at
      /\ reading'[n].cumulative = Cumulative(segment, reading[i].segment, km)
  BY CorrectKeeps DEF CorrectReading, IInv
<1>2. /\ at # reading[i].at => ~ Linked(i)
      /\ FixesFollowingBase(i) => /\ km = reading[i].km
                                  /\ at < segment[reading[i].segment].endedAt
      /\ usage' = [u \in Usages |-> IF Uses(u, i) THEN Measured(reading', Repointed(u, i, n))
                                    ELSE usage[u]]
  BY DEF CorrectReading, Correct, FixesFollowingBase
<1>3. /\ Typed(reading', segment') /\ Typed(reading, segment) /\ OnScale(reading, segment)
      /\ Sound(reading', segment') /\ Based(reading', segment')
  BY <1>1 DEF Consistent, Sound, IInv
<1>4. n \in Nat /\ DOMAIN reading = 1..Len(reading) /\ Len(reading) \in Nat
  BY <1>3, RowTypes
<1> HIDE DEF n
<1>5. ASSUME NEW u \in Usages
      PROVE  UsageOK(reading', usage'[u]) /\ (WellMeasured(u) => usage'[u].distance >= 0)
  <2> DEFINE row == Repointed(u, i, n)
  <2>1. /\ UsageOK(reading, usage[u]) /\ usage[u] \in UsageRow
        /\ {usage[u].out, usage[u].back} \subseteq DOMAIN reading \cup {NoReading}
    BY DEF IInv, UsageInv, UsageOK
  <2>2. CASE Uses(u, i)
    <3>1. /\ row \in UsageRow /\ row.status = usage[u].status
          /\ row.out = IF usage[u].out = i THEN n ELSE usage[u].out
          /\ row.back = IF usage[u].back = i THEN n ELSE usage[u].back
      BY <1>4, <2>1 DEF Repointed, UsageRow
    <3> HIDE DEF row
    <3>2. {row.out, row.back} \subseteq DOMAIN reading' \cup {NoReading}
      BY <1>1, <2>1, <3>1
    <3>3. UsageOK(reading', Measured(reading', row))
          /\ Measured(reading', row).distance = Distance(reading', row)
      BY <1>3, <3>1, <3>2, MeasuredRow
    <3>4. ASSUME WellMeasured(u) PROVE Distance(reading', row) >= 0
      <4>1. Distance(reading, usage[u]) >= 0 /\ usage[u].status = "TERMINEE"
        BY <2>1, <3>4 DEF WellMeasured, UsageOK, Measures
      <4>2. IsAccepted(reading, usage[u].out) /\ IsAccepted(reading, usage[u].back)
        BY <1>3, <2>1, <4>1, DistanceValue
      <4>3. at = reading[i].at
        BY <1>2, <2>2 DEF Linked
      <4>4. ASSUME NEW a \in DOMAIN reading, NEW b, b = (IF a = i THEN n ELSE a),
                   reading[a].status = "ACCEPTE"
            PROVE  /\ b \in DOMAIN reading' /\ reading'[b].status = "ACCEPTE"
                   /\ reading'[b].segment = reading[a].segment
                   /\ reading'[b].at = reading[a].at
        BY <1>1, <4>3, <4>4
      <4>5. /\ usage[u].out \in DOMAIN reading /\ reading[usage[u].out].status = "ACCEPTE"
            /\ usage[u].back \in DOMAIN reading /\ reading[usage[u].back].status = "ACCEPTE"
        BY <2>1, <4>2 DEF IsAccepted
      <4>6. /\ row.out \in DOMAIN reading' /\ reading'[row.out].status = "ACCEPTE"
            /\ reading'[row.out].segment = reading[usage[u].out].segment
            /\ reading'[row.out].at = reading[usage[u].out].at
        BY <3>1, <4>4, <4>5
      <4>7. /\ row.back \in DOMAIN reading' /\ reading'[row.back].status = "ACCEPTE"
            /\ reading'[row.back].segment = reading[usage[u].back].segment
            /\ reading'[row.back].at = reading[usage[u].back].at
        BY <3>1, <4>4, <4>5
      <4> DEFINE s == reading[usage[u].out].segment
                 t == reading[usage[u].back].segment
      <4>8. /\ s <= t /\ (s = t => reading[usage[u].out].at <= reading[usage[u].back].at)
            /\ \A k \in s..(t - 1) : segment[k].known => segment[k + 1].known
        BY <3>4 DEF WellMeasured, Follows, Chained
      <4>9. \A k \in s..(t - 1) : segment'[k].known => segment'[k + 1].known
        <5>1. s \in DOMAIN segment /\ t \in DOMAIN segment /\ DOMAIN segment = 1..Len(segment)
              /\ Len(segment) \in Nat
          BY <1>3, <4>5, RowTypes
        <5> HIDE DEF s, t
        <5>2. \A k \in s..(t - 1) : k \in DOMAIN segment /\ k + 1 \in DOMAIN segment
          BY <5>1
        <5> QED
          BY <1>1, <4>8, <5>2 DEF SameCounters
      <4>10. reading'[row.out].cumulative <= reading'[row.back].cumulative
        BY <1>3, <4>6, <4>7, <4>8, <4>9, Monotone
      <4>11. IsAccepted(reading', row.out) /\ IsAccepted(reading', row.back)
        <5>1. NoReading \notin DOMAIN reading'
          BY <1>3, RowTypes DEF NoReading
        <5> QED
          BY <4>6, <4>7, <5>1 DEF IsAccepted
      <4> QED
        BY <1>3, <3>1, <3>2, <4>1, <4>10, <4>11, DistanceValue
    <3> QED
      BY <1>2, <2>2, <3>3, <3>4 DEF row
  <2>3. CASE ~ Uses(u, i)
    <3>1. UsageOK(reading', usage[u])
      BY <1>1, <2>1, <2>3, RowKept DEF Uses
    <3> QED
      BY <1>2, <2>3, <3>1 DEF WellMeasured
  <2> QED
    BY <2>2, <2>3
<1>6. UsageInv' /\ StillValidated
  BY <1>2, <1>5 DEF UsageInv, UsageOK, StillValidated
<1>7. BasesKept
  <2> SUFFICES ASSUME NEW k \in DOMAIN reading, FixesBase(k)
               PROVE  \E k2 \in DOMAIN reading' :
                        /\ reading'[k2].status = "ACCEPTE"
                        /\ reading'[k2].segment = reading[k].segment
                        /\ reading'[k2].cumulative = reading[k].cumulative
                        /\ \/ reading'[k2].at = reading[k].at
                           \/ reading'[k2].at < segment[reading[k].segment].endedAt
    BY <1>1 DEF BasesKept
  <2>1. CASE k = i
    BY <1>1, <1>2, <1>3, <2>1 DEF FixesBase, OnScale
  <2>2. CASE k # i
    BY <1>1, <2>2 DEF FixesBase
  <2> QED
    BY <2>1, <2>2
<1> QED
  BY <1>1, <1>6, <1>7 DEF Kept, IInv

\* A departure and its reading.
LEMMA CheckedOutKeeps ==
  ASSUME IInv, NEW u \in Usages, NEW km \in Km \cup {None}, NEW at \in Instants,
         CheckOut(u, km, at)
  PROVE  Kept
<1>1. PICK result \in EventReading("REMISE", km, at, TRUE) :
        /\ Becomes(result)
        /\ usage' = [usage EXCEPT ![u].status = "EN_COURS", ![u].outAt = at, ![u].out = result.id,
                                  ![u].distance = IF km = None THEN Undetermined ELSE NotValidated]
  BY DEF CheckOut
<1>2. Room(1) /\ usage[u].status = "AUCUNE"
  BY DEF CheckOut
<1>3. "REMISE" \in Contexts
  BY DEF Contexts
<1>4. /\ Consistent(reading', segment') /\ Extends(reading, reading')
      /\ result.id \in DOMAIN reading' \cup {NoReading} /\ SameCounters(segment, segment')
  BY <1>1, <1>2, <1>3, EventKeeps DEF IInv, Becomes
<1>5. /\ UsageInv /\ \A v \in Usages : UsageOK(reading', usage[v])
  BY <1>4, UsagesExtended DEF IInv
<1> DEFINE row == [usage[u] EXCEPT !.status = "EN_COURS", !.outAt = at, !.out = result.id,
                                   !.distance = IF km = None THEN Undetermined ELSE NotValidated]
<1>6. usage' = [usage EXCEPT ![u] = row]
  BY <1>1, <1>5 DEF UsageInv
<1>7. UsageOK(reading', row)
  <2>1. usage[u] \in UsageRow /\ usage[u].back \in DOMAIN reading' \cup {NoReading}
    BY <1>5 DEF UsageOK
  <2>2. result.id \in Nat
    <3>1. DOMAIN reading' = 1..Len(reading')
      BY <1>4, RowTypes DEF Consistent, Sound
    <3> QED
      BY <1>4, <3>1 DEF NoReading
  <2>3. row \in UsageRow /\ row.status = "EN_COURS" /\ row.out = result.id
        /\ row.back = usage[u].back
    BY <2>1, <2>2 DEF UsageRow
  <2> HIDE DEF row
  <2> QED
    BY <1>4, <2>1, <2>3 DEF UsageOK, Measures
<1> HIDE DEF row
<1>8. UsageInv' /\ StillValidated
  BY <1>2, <1>5, <1>6, <1>7, OneUsage
<1> QED
  BY <1>4, <1>8, ExtendedBases DEF Kept, IInv

\* A return and its reading.
LEMMA ReturnedKeeps ==
  ASSUME IInv, NEW u \in Usages, NEW km \in Km \cup {None}, NEW at \in Instants,
         Return(u, km, at)
  PROVE  Kept
<1>1. PICK result \in EventReading("RESTITUTION", km, at, TRUE) :
        /\ Becomes(result)
        /\ usage' = [usage EXCEPT ![u] =
                       Measured(result.reading, [@ EXCEPT !.status = "TERMINEE", !.backAt = at,
                                                          !.back = result.id])]
  BY DEF Return
<1>2. Room(1) /\ usage[u].status = "EN_COURS"
  BY DEF Return
<1>3. "RESTITUTION" \in Contexts
  BY DEF Contexts
<1>4. /\ Consistent(reading', segment') /\ Extends(reading, reading') /\ result.reading = reading'
      /\ result.id \in DOMAIN reading' \cup {NoReading} /\ SameCounters(segment, segment')
  BY <1>1, <1>2, <1>3, EventKeeps DEF IInv, Becomes
<1>5. UsageInv /\ \A v \in Usages : UsageOK(reading', usage[v])
  BY <1>4, UsagesExtended DEF IInv
<1> DEFINE row == [usage[u] EXCEPT !.status = "TERMINEE", !.backAt = at, !.back = result.id]
<1>6. usage' = [usage EXCEPT ![u] = Measured(reading', row)]
  BY <1>1, <1>4, <1>5 DEF UsageInv
<1>7. UsageOK(reading', Measured(reading', row))
  <2>1. usage[u] \in UsageRow /\ usage[u].out \in DOMAIN reading' \cup {NoReading}
    BY <1>5 DEF UsageOK
  <2>2. Typed(reading', segment') /\ result.id \in Nat
    <3>1. Typed(reading', segment') /\ DOMAIN reading' = 1..Len(reading')
      BY <1>4, RowTypes DEF Consistent, Sound
    <3> QED
      BY <1>4, <3>1 DEF NoReading
  <2>3. row \in UsageRow /\ row.out = usage[u].out /\ row.back = result.id
    BY <2>1, <2>2 DEF UsageRow
  <2> HIDE DEF row
  <2> QED
    BY <1>4, <2>1, <2>2, <2>3, MeasuredRow
<1> HIDE DEF row
<1>8. UsageInv' /\ StillValidated
  BY <1>2, <1>5, <1>6, <1>7, OneUsage
<1> QED
  BY <1>4, <1>8, ExtendedBases DEF Kept, IInv

\* The reading of a return is regularised only if it validates the distance.
LEMMA RegularizedKeeps ==
  ASSUME IInv, NEW u \in Usages, NEW i, Consistent(reading', segment'),
         Extends(reading, reading'), SameCounters(segment, segment'),
         i \in DOMAIN reading', RegularizedBy(u, reading', i)
  PROVE  Kept
<1> DEFINE row == [usage[u] EXCEPT !.back = i]
<1>1. /\ usage' = [usage EXCEPT ![u] = Measured(reading', row)]
      /\ Measured(reading', row).distance >= 0
  BY DEF RegularizedBy
<1>2. UsageInv /\ \A v \in Usages : UsageOK(reading', usage[v])
  BY UsagesExtended DEF IInv
<1>3. UsageOK(reading', Measured(reading', row))
  <2>1. usage[u] \in UsageRow /\ usage[u].out \in DOMAIN reading' \cup {NoReading}
    BY <1>2 DEF UsageOK
  <2>2. Typed(reading', segment') /\ i \in Nat
    <3>1. Typed(reading', segment') /\ DOMAIN reading' = 1..Len(reading')
      BY RowTypes DEF Consistent, Sound
    <3> QED
      BY <3>1
  <2>3. row \in UsageRow /\ row.out = usage[u].out /\ row.back = i
    BY <2>1, <2>2 DEF UsageRow
  <2> HIDE DEF row
  <2> QED
    BY <2>1, <2>2, <2>3, MeasuredRow
<1> HIDE DEF row
<1>4. UsageInv' /\ StillValidated
  BY <1>1, <1>2, <1>3, OneUsage
<1> QED
  BY <1>4, ExtendedBases DEF Kept, IInv

\* A regularisation with a new reading ...
LEMMA RegularizedNewKeeps ==
  ASSUME IInv, NEW u \in Usages, NEW km \in Km, NEW at \in Instants,
         RegularizeWithNew(u, km, at)
  PROVE  Kept
<1> DEFINE q == Request("MANUAL", FALSE, "RESTITUTION", km, at, 0, FALSE)
<1>1. PICK result \in EventReading("RESTITUTION", km, at, FALSE) :
        RegularizedBy(u, result.reading, result.id) /\ Becomes(result)
  BY DEF RegularizeWithNew
<1>2. km # None /\ Len(reading) + 1 <= MaxReadings
  BY OdometerAssumption DEF RegularizeWithNew, Room, Km, None
<1>3. result \in Ingest(reading, segment, q)
  BY <1>1, <1>2 DEF EventReading
<1>4. Asked(q) /\ q.segment = 0
  BY DEF Asked, Request, Contexts
<1> HIDE DEF q
<1>5. /\ Consistent(reading', segment') /\ Extends(reading, reading') /\ result.reading = reading'
      /\ result.id \in DOMAIN reading' /\ SameCounters(segment, segment')
  BY <1>1, <1>2, <1>3, <1>4, IngestKeeps DEF IInv, Becomes
<1> QED
  BY <1>1, <1>5, RegularizedKeeps

\* ... or with one already accepted.
LEMMA RegularizedExistingKeeps ==
  ASSUME IInv, NEW u \in Usages, NEW i \in DOMAIN reading, RegularizeWithExisting(u, i)
  PROVE  Kept
<1>1. reading' = reading /\ segment' = segment /\ RegularizedBy(u, reading', i)
  BY DEF RegularizeWithExisting, counters
<1>2. /\ Consistent(reading', segment') /\ Extends(reading, reading')
      /\ SameCounters(segment, segment') /\ i \in DOMAIN reading'
  BY <1>1 DEF IInv, Extends, SameCounters
<1> QED
  BY <1>1, <1>2, RegularizedKeeps

----------------------------------------------------------------------------
(* The invariant *)

\* A vehicle without readings or counters, and usages to come.
LEMMA InitIInv == Init => IInv
<1> SUFFICES ASSUME Init PROVE IInv
  OBVIOUS
<1>1. reading = <<>> /\ segment = <<>> /\ usage = [u \in Usages |-> Planned]
  BY DEF Init, CountersInit
<1>2. /\ reading \in Seq(Reading) /\ segment \in Seq(Segment) /\ Len(reading) = 0
      /\ Len(segment) = 0 /\ DOMAIN reading = {} /\ DOMAIN segment = {}
  BY <1>1
<1>3. Sound(reading, segment) /\ Based(reading, segment) /\ Len(reading) <= MaxReadings
  BY <1>2, OdometerAssumption
  DEF Sound, Typed, OnScale, InOrder, Contiguous, BelowNextBase, AboveStart, Based
<1>4. Planned \in UsageRow
  BY OdometerAssumption DEF Planned, UsageRow, Instants, NoReading
<1>5. UsageOK(reading, Planned)
  BY <1>4 DEF UsageOK, Planned, Measures
<1>6. UsageInv
  BY <1>1, <1>4, <1>5 DEF UsageInv
<1> QED
  BY <1>3, <1>6 DEF IInv, Consistent

\* Every step keeps the invariant, the bases and the validated distances.
LEMMA NextKeeps ==
  ASSUME IInv, Next
  PROVE  Kept
<1>1. CASE (Entered \/ Sampled \/ Initialised \/ Replaced) /\ UNCHANGED usage
  BY <1>1, EnteredKeeps, InitialisedKeeps, ReplacedKeeps
<1>2. CASE \E i \in DOMAIN reading : ApproveReading(i) \/ RejectReading(i)
  BY <1>2, DecidedKeeps
<1>3. CASE \E i \in DOMAIN reading, km \in Km, at \in Instants : CorrectReading(i, km, at)
  BY <1>3, CorrectedKeeps
<1>4. CASE \E u \in Usages, km \in Km \cup {None}, at \in Instants :
             CheckOut(u, km, at) \/ Return(u, km, at)
  BY <1>4, CheckedOutKeeps, ReturnedKeeps
<1>5. CASE \E u \in Usages, km \in Km, at \in Instants : RegularizeWithNew(u, km, at)
  BY <1>5, RegularizedNewKeeps
<1>6. CASE \E u \in Usages, i \in DOMAIN reading : RegularizeWithExisting(u, i)
  BY <1>6, RegularizedExistingKeeps
<1> QED
  BY <1>1, <1>2, <1>3, <1>4, <1>5, <1>6 DEF Next

\* The invariant is inductive.
LEMMA StepIInv == IInv /\ [Next]_vars => IInv'
<1>1. ASSUME IInv, UNCHANGED vars PROVE IInv'
  BY <1>1 DEF vars, IInv, UsageInv
<1> QED
  BY <1>1, NextKeeps DEF Kept

\* The invariant of the specification.
THEOREM InvariantHolds == Spec => []IInv
<1> QED
  BY InitIInv, StepIInv, PTL DEF Spec

----------------------------------------------------------------------------
(* Properties *)

\* Types: readings, counters and usages are well formed, every reading is on a
\* counter of the vehicle, and every reading a usage refers to exists.
THEOREM TypesHold == Spec => []TypeOK
<1>1. IInv => TypeOK
  <2> SUFFICES ASSUME IInv PROVE TypeOK
    OBVIOUS
  <2>1. CountersOK
    BY DEF IInv, Consistent, Sound, Typed, CountersOK
  <2>2. \A u \in Usages : usage[u] \in UsageRow
                          /\ {usage[u].out, usage[u].back} \subseteq DOMAIN reading \cup {NoReading}
    BY DEF IInv, UsageInv, UsageOK
  <2> QED
    BY <2>1, <2>2 DEF TypeOK, UsageRow
<1> QED
  BY <1>1, InvariantHolds, PTL

\* In whatever order readings are entered, approved, rejected and corrected and
\* counters replaced, the accepted cumulative kilometrage never decreases with the
\* instant of observation on one counter, nor from one counter to a later one of
\* its scale, whatever the instants (create may impose a counter at any of them).
THEOREM CumulativeSafe == Spec => []CumulativeNeverDecreases
<1>1. IInv => CumulativeNeverDecreases
  <2> SUFFICES ASSUME IInv, NEW i \in Validated, NEW j \in Validated,
                      \/ reading[i].segment = reading[j].segment /\ reading[i].at < reading[j].at
                      \/ /\ reading[i].segment < reading[j].segment
                         /\ Chained(reading[i].segment, reading[j].segment)
               PROVE  reading[i].cumulative <= reading[j].cumulative
    BY DEF CumulativeNeverDecreases
  <2>1. /\ Sound(reading, segment) /\ Based(reading, segment) /\ Typed(reading, segment)
        /\ i \in DOMAIN reading /\ reading[i].status = "ACCEPTE"
        /\ j \in DOMAIN reading /\ reading[j].status = "ACCEPTE"
    BY DEF IInv, Consistent, Sound, Validated
  <2>2. /\ reading[i].segment \in Nat /\ reading[j].segment \in Nat
        /\ reading[i].at \in Nat /\ reading[j].at \in Nat
    <3>1. /\ reading[i].segment \in 1..Len(segment) /\ reading[j].segment \in 1..Len(segment)
          /\ reading[i].at \in Nat /\ reading[j].at \in Nat
      BY <2>1, RowTypes
    <3> QED
      BY <3>1
  <2>3. /\ reading[i].segment <= reading[j].segment
        /\ reading[i].segment = reading[j].segment => reading[i].at <= reading[j].at
    BY <2>2
  <2>4. \A k \in reading[i].segment..(reading[j].segment - 1) :
          segment[k].known => segment[k + 1].known
    BY <2>2 DEF Chained
  <2> QED
    BY <2>1, <2>3, <2>4, Monotone
<1> QED
  BY <1>1, InvariantHolds, PTL

\* The distance of a finished usage is never stale: once validated it is the
\* difference of its two accepted readings, and it is validated as soon as both
\* are accepted and the return's follows the departure's.
THEOREM DistanceSafe == Spec => []DistanceFollowsReadings
<1>1. IInv => DistanceFollowsReadings
  <2> SUFFICES ASSUME IInv, NEW u \in Usages, usage[u].status = "TERMINEE"
               PROVE  LET i == usage[u].out  j == usage[u].back
                          both == IsAccepted(reading, i) /\ IsAccepted(reading, j)
                      IN  /\ usage[u].distance >= 0
                               => both /\ usage[u].distance = reading[j].cumulative - reading[i].cumulative
                          /\ (both /\ Follows(j, i)) => usage[u].distance >= 0
    BY DEF DistanceFollowsReadings
  <2> DEFINE i == usage[u].out
             j == usage[u].back
  <2>1. /\ Sound(reading, segment) /\ Based(reading, segment) /\ Typed(reading, segment)
        /\ usage[u] \in UsageRow /\ {i, j} \subseteq DOMAIN reading \cup {NoReading}
        /\ usage[u].distance = Distance(reading, usage[u])
    BY DEF IInv, Consistent, Sound, UsageInv, UsageOK, Measures
  <2>2. usage[u].distance >= 0 =>
          /\ IsAccepted(reading, i) /\ IsAccepted(reading, j)
          /\ usage[u].distance = reading[j].cumulative - reading[i].cumulative
    BY <2>1, DistanceValue
  <2>3. ASSUME IsAccepted(reading, i), IsAccepted(reading, j), Follows(j, i)
        PROVE  usage[u].distance >= 0
    <3>1. /\ i \in DOMAIN reading /\ reading[i].status = "ACCEPTE"
          /\ j \in DOMAIN reading /\ reading[j].status = "ACCEPTE"
      BY <2>1, <2>3 DEF IsAccepted
    <3>2. /\ reading[i].segment <= reading[j].segment
          /\ reading[i].segment = reading[j].segment => reading[i].at <= reading[j].at
          /\ \A k \in reading[i].segment..(reading[j].segment - 1) :
               segment[k].known => segment[k + 1].known
      BY <2>3 DEF Follows, Chained
    <3>3. reading[i].cumulative <= reading[j].cumulative
      BY <2>1, <3>1, <3>2, Monotone
    <3> QED
      BY <2>1, <2>3, <3>3, DistanceValue
  <2> QED
    BY <2>2, <2>3
<1> QED
  BY <1>1, InvariantHolds, PTL

\* No approval, correction, replacement of the counter or event takes back a
\* distance validated between readings that follow each other.
THEOREM ValidationStays == Spec => ValidationStands
<1>1. ASSUME IInv, [Next]_vars
      PROVE  [\A u \in Usages :
                (/\ usage[u].status = "TERMINEE" /\ usage[u].distance >= 0
                 /\ Follows(usage[u].back, usage[u].out))
                  => usage'[u].distance >= 0]_vars
  <2>1. CASE UNCHANGED vars
    BY <2>1
  <2>2. CASE Next
    BY <1>1, <2>2, NextKeeps DEF Kept, StillValidated, WellMeasured
  <2> QED
    BY <1>1, <2>1, <2>2
<1> QED
  BY <1>1, InvariantHolds, PTL DEF Spec, ValidationStands

\* The last value validated on a replaced counter up to its end is and stays the
\* base of the next.
LEMMA LastValidatedStays ==
  ASSUME IInv, IInv', BasesKept, NEW s \in 1..(Len(segment) - 1), Chained(s, s + 1),
         ValidatedInService(reading, s) # {},
         LastValidated(reading, s) = segment[s + 1].startCumulative
  PROVE  /\ ValidatedInService(reading', s) # {}
         /\ LastValidated(reading', s) = segment'[s + 1].startCumulative
<1> DEFINE k == Latest(reading, ValidatedInService(reading, s))
           k3 == Latest(reading', ValidatedInService(reading', s))
           base == segment[s + 1].startCumulative
<1>1. /\ Sound(reading, segment) /\ Typed(reading, segment) /\ Contiguous(segment)
      /\ Typed(reading', segment') /\ InOrder(reading') /\ OnScale(reading', segment')
      /\ BelowNextBase(reading', segment')
  BY DEF IInv, Consistent, Sound
<1>2. /\ Len(segment) \in Nat /\ DOMAIN segment = 1..Len(segment) /\ Len(segment) > 1
      /\ s \in DOMAIN segment /\ s + 1 \in DOMAIN segment /\ s # Len(segment) /\ s + 1 # 1
      /\ s \in Nat
      /\ segment[s + 1].startedAt \in Nat /\ segment[s].endedAt \in Int /\ base \in Nat
  <2>1. Len(segment) \in Nat /\ DOMAIN segment = 1..Len(segment)
    BY <1>1, RowTypes
  <2>2. s \in DOMAIN segment /\ s + 1 \in DOMAIN segment /\ Len(segment) > 1
    BY <2>1
  <2> QED
    BY <1>1, <2>1, <2>2, RowTypes
<1>3. ValidatedInService(reading, s) \in SUBSET DOMAIN reading
  BY DEF ValidatedInService, Accepted
<1>4. k \in ValidatedInService(reading, s) /\ reading[k].cumulative = base
  BY <1>1, <1>3, Extremes DEF LastValidated
<1>5. /\ k \in DOMAIN reading /\ reading[k].status = "ACCEPTE" /\ reading[k].segment = s
      /\ reading[k].at <= segment[s].endedAt
  BY <1>4 DEF ValidatedInService, Accepted
<1>6. FixesBase(k)
  <2>1. {j \in Accepted(reading, s) : reading[j].at <= segment[s].endedAt}
          = ValidatedInService(reading, s)
    BY DEF ValidatedInService
  <2>2. segment[s].endedAt # Open
    BY <1>1, <1>2 DEF Contiguous, Open
  <2>3. s < Len(segment)
    BY <1>2
  <2> QED
    BY <1>4, <1>5, <2>1, <2>2, <2>3 DEF FixesBase, FixesFollowingBase
<1> HIDE DEF k
<1>7. PICK k2 \in DOMAIN reading' :
        /\ reading'[k2].status = "ACCEPTE" /\ reading'[k2].segment = s
        /\ reading'[k2].cumulative = base /\ reading'[k2].at <= segment[s].endedAt
  <2>1. PICK k4 \in DOMAIN reading' :
          /\ reading'[k4].status = "ACCEPTE" /\ reading'[k4].segment = s
          /\ reading'[k4].cumulative = base
          /\ reading'[k4].at = reading[k].at \/ reading'[k4].at < segment[s].endedAt
    BY <1>2, <1>4, <1>5, <1>6 DEF BasesKept
  <2>2. reading'[k4].at \in Nat
    BY <1>1, <2>1, RowTypes
  <2> QED
    BY <1>2, <1>5, <2>1, <2>2
<1>8. k2 \in ValidatedInService(reading', s)
  BY <1>7 DEF ValidatedInService, Accepted
<1>9. ValidatedInService(reading', s) \in SUBSET DOMAIN reading'
  BY DEF ValidatedInService, Accepted
<1>10. k3 \in ValidatedInService(reading', s) /\ reading'[k2].at <= reading'[k3].at
  BY <1>1, <1>8, <1>9, Extremes
<1> HIDE DEF k3
<1>11. /\ k3 \in DOMAIN reading' /\ reading'[k3].status = "ACCEPTE" /\ reading'[k3].segment = s
       /\ k2 \in DOMAIN reading' /\ reading'[k2].status = "ACCEPTE" /\ reading'[k2].segment = s
  BY <1>7, <1>10 DEF ValidatedInService, Accepted
<1>12. /\ s \in DOMAIN segment' /\ s + 1 \in DOMAIN segment' /\ segment'[s + 1].startCumulative = base
       /\ segment'[s].known = segment[s].known /\ segment'[s + 1].known = segment[s + 1].known
  BY <1>2 DEF BasesKept, SameCounters
<1>13. TakenOver(segment', s)
  <2>1. segment[s].known => segment[s + 1].known
    BY <1>2 DEF Chained
  <2>2. s # Len(segment')
    BY <1>1, <1>2, <1>12, RowTypes
  <2> QED
    BY <1>12, <2>1, <2>2 DEF TakenOver
<1>14. reading'[k3].cumulative <= base
  BY <1>1, <1>11, <1>12, <1>13 DEF BelowNextBase
<1>15. base <= reading'[k3].cumulative
  <2>1. /\ reading'[k2].km \in Nat /\ reading'[k3].km \in Nat
        /\ reading'[k2].at \in Nat /\ reading'[k3].at \in Nat
        /\ reading'[k3].cumulative \in Nat
        /\ segment'[s].startCumulative \in Nat /\ segment'[s].startPhysical \in Nat
    BY <1>1, <1>11, <1>12, RowTypes
  <2>2. reading'[k2].km <= reading'[k3].km
    BY <1>1, <1>10, <1>11, <2>1 DEF InOrder
  <2>3. /\ reading'[k2].cumulative = Cumulative(segment', s, reading'[k2].km)
        /\ reading'[k3].cumulative = Cumulative(segment', s, reading'[k3].km)
    BY <1>1, <1>11 DEF OnScale
  <2> QED
    BY <1>7, <2>1, <2>2, <2>3 DEF Cumulative
<1>16. reading'[k3].cumulative \in Nat
  BY <1>1, <1>11, RowTypes
<1> QED
  BY <1>2, <1>8, <1>12, <1>14, <1>15, <1>16 DEF LastValidated, k3

\* A replaced counter whose base was taken over keeps that base as the last
\* cumulative value validated up to its end: no correction, late reading or late
\* approval moves it.
THEOREM BaseStays == Spec => BaseStands
<1>1. ASSUME IInv, [Next]_vars
      PROVE  [\A s \in 1..(Len(segment) - 1) :
                (/\ Chained(s, s + 1) /\ ValidatedInService(reading, s) # {}
                 /\ LastValidated(reading, s) = segment[s + 1].startCumulative)
                  => /\ ValidatedInService(reading', s) # {}
                     /\ LastValidated(reading', s) = segment'[s + 1].startCumulative]_counters
  <2>1. CASE UNCHANGED vars
    BY <2>1 DEF vars, counters
  <2>2. CASE Next
    <3>1. IInv' /\ BasesKept
      BY <1>1, <2>2, NextKeeps DEF Kept
    <3> QED
      BY <1>1, <3>1, LastValidatedStays
  <2> QED
    BY <1>1, <2>1, <2>2
<1> QED
  BY <1>1, InvariantHolds, PTL DEF Spec, BaseStands
=============================================================================
