------------------------------ MODULE Odometer ------------------------------
(***************************************************************************)
(* The odometer of a vehicle (OdometerIngestionService, OdometerService,   *)
(* odometer-rules): readings entered, observed and decided in any order,   *)
(* on a succession of counters (segments) whose physical values are put on *)
(* one cumulative scale.                                                   *)
(*                                                                         *)
(* Every operation is one transaction under the lock of the vehicle, hence *)
(* one action.  A reading's rank in the sequence is its order of entry.    *)
(* Instants are whole and past; PerMinute of them make the minute to which *)
(* the instants of manual readings are truncated.                          *)
(* Abstracted: GPS estimates (never a neighbour of a physical reading),    *)
(* imports, the source reference of a sample, attachments, the display     *)
(* copy lastPhysicalKm, and versions (each operation checks the status     *)
(* again under its lock).                                                  *)
(***************************************************************************)
EXTENDS Integers, Sequences, FiniteSetsExt

CONSTANTS
  MaxInstant,      \* instants are 0..MaxInstant
  PerMinute,       \* instants in the window of a manual reading
  MaxKm,           \* values of a counter are 0..MaxKm
  MinAllowanceKm,  \* plausibility: odometer.plausibilityMinKm
  KmPerInstant,    \* plausibility: odometer.plausibilityMaxKmPerDay
  MaxReadings,     \* bound of the model: readings ever entered
  MaxSegments      \* bound of the model: counters ever installed

ASSUME OdometerAssumption ==
  /\ MaxInstant \in Nat /\ PerMinute \in Nat \ {0} /\ MaxKm \in Nat
  /\ MinAllowanceKm \in Nat /\ KmPerInstant \in Nat
  /\ MaxReadings \in Nat /\ MaxSegments \in Nat \ {0}

VARIABLES
  reading,  \* OdometerReading rows of the vehicle, in order of entry
  segment   \* OdometerSegment rows, by sequence number

counters == <<reading, segment>>

Instants == 0..MaxInstant
Km == 0..MaxKm
Contexts == {"RELEVE_LIBRE", "REMISE", "RESTITUTION", "INITIALISATION", "SYNCHRONISATION"}
Open == -1    \* endedAt of the counter in service
None == -1    \* a kilometrage that is not given

Reading == [segment : 1..MaxSegments, km : Km, cumulative : Nat, at : Instants,
            status : {"EN_ATTENTE", "ACCEPTE", "REJETE", "REMPLACE"},
            source : {"MANUAL", "TELEMATICS"}, context : Contexts]

Segment == [startedAt : Instants, endedAt : Instants \cup {Open},
            startPhysical : Km, startCumulative : Nat, known : BOOLEAN]

CountersOK ==
  /\ reading \in Seq(Reading) /\ Len(reading) <= MaxReadings
  /\ segment \in Seq(Segment) /\ Len(segment) <= MaxSegments
  /\ \A i \in DOMAIN reading : reading[i].segment \in DOMAIN segment

----------------------------------------------------------------------------
(* Rules.  r and g stand for the readings and the segments as they are in  *)
(* the course of a transaction, s for a segment, x for a reading left out. *)

Cumulative(g, s, km) == g[s].startCumulative + km - g[s].startPhysical

Accepted(r, s) == {i \in DOMAIN r : r[i].segment = s /\ r[i].status = "ACCEPTE"}

\* Order of the queries: by instant of observation, then of entry.
Before(r, i, j) == r[i].at < r[j].at \/ (r[i].at = r[j].at /\ i < j)
Earliest(r, S) == CHOOSE i \in S : \A j \in S : i = j \/ Before(r, i, j)
Latest(r, S) == CHOOSE i \in S : \A j \in S : i = j \/ Before(r, j, i)

\* instantWindow: t is taken for the same instant as at.
SameInstant(source, t, at) ==
  IF source = "TELEMATICS" THEN t = at ELSE t \div PerMinute = at \div PerMinute

IsOrdinary(r, g, s) ==
  /\ s = 1 /\ g[s].known /\ g[s].startCumulative = g[s].startPhysical
  /\ \A i \in DOMAIN r : r[i].segment = s => r[i].context # "INITIALISATION"

Bounded(g, s) == g[s].endedAt # Open /\ s < Len(g) /\ (g[s].known => g[s + 1].known)

\* The base of the following counter on the scale of this one: the value no
\* reading of a closed counter may exceed.
ClosedSegmentBound(g, s) ==
  g[s].startPhysical + g[s + 1].startCumulative - g[s].startCumulative

AllowedIncrease(from, to) ==
  IF KmPerInstant * (to - from) > MinAllowanceKm THEN KmPerInstant * (to - from)
  ELSE MinAllowanceKm

\* What the accepted neighbours of the segment say of a value at an instant.
\* REFUSE stands for REJECT and CONFLICT, PENDING for every anomaly but HAUSSE.
Evaluate(r, g, source, km, at, s, x) ==
  LET neighbors == Accepted(r, s) \ {x}
      same      == {i \in neighbors : SameInstant(source, r[i].at, at)}
      previous  == {i \in neighbors \ same : r[i].at < at}
      following == {i \in neighbors \ same : r[i].at > at}
      ordinary  == IsOrdinary(r, g, s)
      Anomaly   == IF source = "TELEMATICS" THEN "PENDING" ELSE "REFUSE"
      early == ~ordinary /\ at < g[s].startedAt
      low   == IF previous # {} THEN km < r[Latest(r, previous)].km
               ELSE ~ordinary /\ km < g[s].startPhysical
      high  == IF following # {} THEN km > r[Earliest(r, following)].km
               ELSE Bounded(g, s) /\ km > ClosedSegmentBound(g, s)
      steep == /\ previous # {}
               /\ LET p == r[Latest(r, previous)]
                  IN  km - p.km > AllowedIncrease(p.at, at)
  IN  IF early THEN Anomaly
      ELSE IF same # {}
        THEN IF r[Earliest(r, same)].km = km THEN "IDEMPOTENT" ELSE Anomaly
      ELSE IF low \/ high THEN Anomaly
      ELSE IF steep THEN "HAUSSE"
      ELSE "ACCEPT"

\* A decision of a person passes over an implausible rise, never over a
\* break of the chronology.
MayBeAccepted(evaluation) == evaluation \in {"ACCEPT", "HAUSSE"}

\* The start of an ordinary first segment follows its first accepted reading.
Refreshed(r, g, s) ==
  IF ~IsOrdinary(r, g, s) \/ Accepted(r, s) = {} THEN g
  ELSE LET first == r[Earliest(r, Accepted(r, s))]
       IN  [g EXCEPT ![s].startedAt = IF first.at < @ THEN first.at ELSE @,
                     ![s].startPhysical = first.km, ![s].startCumulative = first.km]

Covering(g, at) ==
  {s \in DOMAIN g : g[s].startedAt <= at /\ (g[s].endedAt = Open \/ at < g[s].endedAt)}

----------------------------------------------------------------------------
(* Ingestion: the single entry of a reading, inside a transaction.  Its     *)
(* results are a set: empty when the reading is refused.                   *)
(* q: the request (source, whether a driver submits it, context, km, at,   *)
(* segment imposed or 0, whether it may initialise the counter).           *)

Request(source, driver, context, km, at, s, autoInit) ==
  [source |-> source, driver |-> driver, context |-> context, km |-> km, at |-> at,
   segment |-> s, autoInit |-> autoInit]

Replay(r, g, i) == {[outcome |-> "IDEMPOTENT", reading |-> r, segment |-> g, id |-> i]}

Inserted(r, g, row) ==
  LET r2 == Append(r, row)
  IN  {[outcome |-> row.status, reading |-> r2, id |-> Len(r2),
        segment |-> IF row.status = "ACCEPTE" THEN Refreshed(r2, g, row.segment) ELSE g]}

\* The row of a request, with its value on the cumulative scale.
NewReading(g, q, s, status) ==
  [segment |-> s, km |-> q.km, cumulative |-> Cumulative(g, s, q.km), at |-> q.at,
   status |-> status, source |-> q.source, context |-> q.context]

\* Mutant of Insert: nothing refuses a negative cumulative value.
InsertUnchecked(r, g, q, s, status) == Inserted(r, g, NewReading(g, q, s, status))

\* The row inserted and, when it is accepted, the segment refreshed.  A
\* negative cumulative value violates reading_cumulative_non_negative.
Insert(r, g, q, s, status) ==
  IF Cumulative(g, s, q.km) < 0 THEN {} ELSE Inserted(r, g, NewReading(g, q, s, status))

\* What follows from the evaluation of a reading.
Recorded(r, g, q, s, evaluation) ==
  CASE evaluation = "REFUSE" -> {}
    [] evaluation = "IDEMPOTENT" ->
         Replay(r, g, Earliest(r, {i \in Accepted(r, s) : SameInstant(q.source, r[i].at, q.at)}))
    [] OTHER ->
         Insert(r, g, q, s,
                IF evaluation = "ACCEPT" /\ ~q.driver THEN "ACCEPTE" ELSE "EN_ATTENTE")

\* The submission that waits already for the same value at the same instant.
PendingSame(r, q, s) ==
  {i \in DOMAIN r : /\ r[i].segment = s /\ r[i].status = "EN_ATTENTE"
                    /\ r[i].source = q.source /\ r[i].context = q.context
                    /\ r[i].km = q.km /\ SameInstant(q.source, r[i].at, q.at)}

\* A reading whose segment is known: replayed, refused, or recorded.
IngestInto(r, g, q, s) ==
  IF q.source # "TELEMATICS" /\ PendingSame(r, q, s) # {}
    THEN Replay(r, g, Min(PendingSame(r, q, s)))
  ELSE UNION {Recorded(r, g, q, s, evaluation) :
                evaluation \in {Evaluate(r, g, q.source, q.km, q.at, s, 0)}}

FirstSegment(q) ==
  <<[startedAt |-> q.at, endedAt |-> Open, startPhysical |-> q.km,
     startCumulative |-> q.km, known |-> TRUE]>>

Ingest(r, g, q) ==
  IF q.segment # 0 THEN IngestInto(r, g, q, q.segment)
  ELSE IF Covering(g, q.at) # {} THEN IngestInto(r, g, q, Max(Covering(g, q.at)))
  ELSE IF Len(g) > 0
    THEN IF q.source = "TELEMATICS" THEN Insert(r, g, q, 1, "EN_ATTENTE")
         ELSE IF q.autoInit /\ IsOrdinary(r, g, 1) THEN IngestInto(r, g, q, 1)
         ELSE {}
  ELSE IF q.driver THEN Insert(r, FirstSegment(q), q, 1, "EN_ATTENTE")
  ELSE IF q.autoInit THEN IngestInto(r, FirstSegment(q), q, 1)
  ELSE {}

Becomes(result) == reading' = result.reading /\ segment' = result.segment

Room(n) == Len(reading) + n <= MaxReadings

----------------------------------------------------------------------------
(* Operations *)

\* A reading by the staff, a submission by a driver, a sample of a connector.
Enter(q) ==
  /\ Room(1)
  /\ \E result \in Ingest(reading, segment, q) :
       result.outcome # "IDEMPOTENT" /\ Becomes(result)

\* Mutant of Approve: the value is not evaluated again.
ApproveBlindly(i) ==
  LET r == [reading EXCEPT ![i].status = "ACCEPTE"]
  IN  /\ reading[i].status = "EN_ATTENTE"
      /\ reading' = r /\ segment' = Refreshed(r, segment, r[i].segment)

\* approve: evaluated as a manual reading among the neighbours of the moment.
Approve(i) ==
  LET r == [reading EXCEPT ![i].status = "ACCEPTE"]
      s == reading[i].segment
  IN  /\ reading[i].status = "EN_ATTENTE"
      /\ MayBeAccepted(Evaluate(reading, segment, "MANUAL", reading[i].km, reading[i].at, s, i))
      /\ reading' = r
      /\ segment' = Refreshed(r, segment, s)

Reject(i) ==
  /\ reading[i].status = "EN_ATTENTE"
  /\ reading' = [reading EXCEPT ![i].status = "REJETE"]
  /\ UNCHANGED segment

\* Mutant of FixesFollowingBase: the base of the following counter is forgotten.
FixesNothing(i) == FALSE

\* The reading that gave the counter after its own its cumulative base.
FixesFollowingBase(i) ==
  LET s == reading[i].segment
      validated == {j \in Accepted(reading, s) : reading[j].at <= segment[s].endedAt}
  IN  /\ segment[s].endedAt # Open /\ s < Len(segment)
      /\ segment[s + 1].startCumulative = reading[i].cumulative
      /\ validated # {} /\ Latest(reading, validated) = i

\* correct: the original is kept, REMPLACE, and a replacement accepted.
\* linked: events whose date is that of the reading.
Correct(i, km, at, linked) ==
  LET s == reading[i].segment
      r == Append([reading EXCEPT ![i].status = "REMPLACE"],
                  [reading[i] EXCEPT !.km = km, !.cumulative = Cumulative(segment, s, km),
                                     !.at = at, !.source = "MANUAL"])
  IN  /\ Room(1)
      /\ reading[i].status = "ACCEPTE"
      /\ at >= segment[s].startedAt \/ IsOrdinary(reading, segment, s)
      /\ segment[s].endedAt # Open => at < segment[s].endedAt
      /\ at # reading[i].at => ~linked
      /\ FixesFollowingBase(i) => km = reading[i].km
      /\ MayBeAccepted(Evaluate(reading, segment, "MANUAL", km, at, s, i))
      /\ Cumulative(segment, s, km) >= 0
      /\ reading' = r
      /\ segment' = Refreshed(r, segment, s)

\* initialSegmentInTx: the first counter declared with its cumulative base.
\* The provisional segment of a driver's submissions becomes this counter and
\* their cumulative values are computed again.
Initialise(km, at, cumulative, known) ==
  /\ Room(1)
  /\ \A i \in DOMAIN reading : reading[i].status # "ACCEPTE"
  /\ Len(segment) <= 1
  /\ \E g \in {<<[startedAt |-> at, endedAt |-> Open, startPhysical |-> km,
                  startCumulative |-> IF cumulative = None THEN km ELSE cumulative,
                  known |-> known]>>} :
       LET r == [i \in DOMAIN reading |->
                   [reading[i] EXCEPT !.cumulative = Cumulative(g, 1, reading[i].km)]]
       IN  /\ \A i \in DOMAIN r : r[i].cumulative >= 0
           /\ \E result \in Ingest(r, g, Request("MANUAL", FALSE, "INITIALISATION",
                                               km, at, 1, TRUE)) :
                result.outcome = "ACCEPTE" /\ Becomes(result)

\* The counter that follows counter s, based on the last validated cumulative
\* value, or on the one declared.
NextSegment(r, s, km, at, cumulative) ==
  LET validated == {i \in Accepted(r, s) : r[i].at <= at}
      base == IF validated # {} THEN r[Latest(r, validated)].cumulative ELSE cumulative
  IN  [startedAt |-> at, endedAt |-> Open, startPhysical |-> km,
       startCumulative |-> IF base = None THEN km ELSE base,
       known |-> segment[s].known /\ base # None]

\* initSegment in mode REMPLACEMENT: an optional closing reading of the old
\* counter, its end, the new counter, and its first reading.
Replace(km, at, closingKm, cumulative) ==
  LET s == Len(segment)
  IN  /\ Room(2) /\ s \in 1..(MaxSegments - 1)
      /\ at > segment[s].startedAt
      /\ \A i \in DOMAIN reading :
           reading[i].segment = s /\ reading[i].at > at
             => reading[i].status \notin {"ACCEPTE", "EN_ATTENTE"}
      /\ \E closing \in
             IF closingKm = None THEN Replay(reading, segment, 0)
             ELSE Ingest(reading, segment,
                         Request("MANUAL", FALSE, "RELEVE_LIBRE", closingKm, at, s, TRUE)) :
           /\ closing.outcome \in {"ACCEPTE", "IDEMPOTENT"}
           /\ \E result \in
                 Ingest(closing.reading,
                        Append([closing.segment EXCEPT ![s].endedAt = at],
                               NextSegment(closing.reading, s, km, at, cumulative)),
                        Request("MANUAL", FALSE, "INITIALISATION", km, at, s + 1, TRUE)) :
                result.outcome = "ACCEPTE" /\ Becomes(result)

\* The operations on readings and counters, those that decide on a reading left
\* open to the events that use it.  A reading of the staff or of a driver may
\* name its counter, one that was replaced included; otherwise it is the one in
\* service at its instant.
Entered ==
  \E q \in {Request("MANUAL", driver, "RELEVE_LIBRE", km, at, s, ~driver) :
             driver \in BOOLEAN, km \in Km, at \in Instants, s \in {0} \cup DOMAIN segment} :
    Enter(q)
Sampled ==
  \E q \in {Request("TELEMATICS", FALSE, "SYNCHRONISATION", km, at, 0, FALSE) :
             km \in Km, at \in Instants} : Enter(q)
Initialised == \E km \in Km, at \in Instants, cumulative \in Km \cup {None}, known \in BOOLEAN :
                 Initialise(km, at, cumulative, known)
Replaced == \E km \in Km, at \in Instants, closing \in Km \cup {None}, cumulative \in Km \cup {None} :
              Replace(km, at, closing, cumulative)

CountersInit == reading = <<>> /\ segment = <<>>

----------------------------------------------------------------------------
(* Properties *)

\* Two counters in a row on one cumulative scale: the second is not one whose
\* history was lost at the replacement of a known one.
Chained(s, t) == \A k \in s..(t - 1) : segment[k].known => segment[k + 1].known

Validated == {i \in DOMAIN reading : reading[i].status = "ACCEPTE"}

\* Whatever the order in which readings are entered, decided, corrected, and
\* counters replaced, the accepted cumulative kilometrage of a vehicle never
\* decreases with the instant of observation on one counter, nor from a counter
\* to a later one of its scale.  Across counters the order is theirs, not that of
\* the instants: a reading imposed on a replaced counter (create with
\* odometerSegmentId) may be dated after its end, with which nothing compares it,
\* and then be below what was read before it on the counter in service.
CumulativeNeverDecreases ==
  \A i, j \in Validated :
    (\/ reading[i].segment = reading[j].segment /\ reading[i].at < reading[j].at
     \/ /\ reading[i].segment < reading[j].segment
        /\ Chained(reading[i].segment, reading[j].segment))
      => reading[i].cumulative <= reading[j].cumulative

\* The readings validated on counter s up to its end, and their last value.
ValidatedInService(r, s) == {i \in Accepted(r, s) : r[i].at <= segment[s].endedAt}
LastValidated(r, s) == r[Latest(r, ValidatedInService(r, s))].cumulative

\* A replaced counter whose base was taken over keeps, as the last cumulative
\* value validated up to its end, the base the following counter started from: no
\* correction, late entry or late approval moves it away.  A reading imposed on it
\* and dated after its end is not among those that fixed the base, for correct
\* (FixesFollowingBase) as for this property.
BaseStands ==
  [][\A s \in 1..(Len(segment) - 1) :
       (/\ Chained(s, s + 1) /\ ValidatedInService(reading, s) # {}
        /\ LastValidated(reading, s) = segment[s + 1].startCumulative)
         => /\ ValidatedInService(reading', s) # {}
            /\ LastValidated(reading', s) = segment'[s + 1].startCumulative]_counters
=============================================================================
