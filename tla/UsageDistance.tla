---------------------------- MODULE UsageDistance ----------------------------
(***************************************************************************)
(* The odometer of a vehicle composed with its usages: the readings taken  *)
(* at departure and at return, and the distance they validate              *)
(* (usage-distance.ts; checkout, return and regularizeReturnReading of     *)
(* UsagesService).  Occupation models what else departures and returns     *)
(* decide; here only their readings are.                                   *)
(***************************************************************************)
EXTENDS Odometer

CONSTANT Usages

VARIABLE usage   \* VehicleUsage rows: departure, return, readings, distance

vars == <<reading, segment, usage>>

NotValidated == -1   \* distanceStatus NON_VALIDEE
Undetermined == -2   \* distanceStatus INDETERMINEE
NoReading == 0

Planned == [status |-> "AUCUNE", outAt |-> 0, backAt |-> 0, out |-> NoReading,
            back |-> NoReading, distance |-> Undetermined]

TypeOK ==
  /\ CountersOK
  /\ \A u \in Usages :
       /\ usage[u].status \in {"AUCUNE", "EN_COURS", "TERMINEE"}
       /\ usage[u].outAt \in Instants /\ usage[u].backAt \in Instants
       /\ {usage[u].out, usage[u].back} \subseteq DOMAIN reading \cup {NoReading}
       /\ usage[u].distance \in Nat \cup {NotValidated, Undetermined}

Init == CountersInit /\ usage = [u \in Usages |-> Planned]

----------------------------------------------------------------------------

IsAccepted(r, i) == i # NoReading /\ r[i].status = "ACCEPTE"

\* recomputeUsageDistance: the difference of two accepted cumulative values.
Distance(r, row) ==
  IF row.status # "TERMINEE"
    THEN IF IsAccepted(r, row.out) THEN NotValidated ELSE Undetermined
  ELSE IF row.out = NoReading THEN Undetermined
  ELSE IF /\ IsAccepted(r, row.out) /\ IsAccepted(r, row.back)
          /\ r[row.back].cumulative >= r[row.out].cumulative
    THEN r[row.back].cumulative - r[row.out].cumulative
  ELSE NotValidated

Measured(r, row) == [row EXCEPT !.distance = Distance(r, row)]

Uses(u, i) == i \in {usage[u].out, usage[u].back}

Linked(i) == \E u \in Usages : Uses(u, i)
LinkedElsewhere(u, i) == \E v \in Usages \ {u} : Uses(v, i)

\* Mutant of Remeasured: the usages of the reading are not looked up.
RemeasuredNever(r, i) == usage

\* recomputeUsagesForReading
Remeasured(r, i) == [u \in Usages |-> IF Uses(u, i) THEN Measured(r, usage[u]) ELSE usage[u]]

----------------------------------------------------------------------------
(* Departures and returns.  km is None when the exception without reading  *)
(* is used.                                                                *)

EventReading(context, km, at, autoInit) ==
  IF km = None THEN Replay(reading, segment, NoReading)
  ELSE UNION {Ingest(reading, segment, q) :
                q \in {Request("MANUAL", FALSE, context, km, at, 0, autoInit)}}

\* The departure: its reading must be accepted, and used by no other event.
CheckOut(u, km, at) ==
  /\ Room(1) /\ usage[u].status = "AUCUNE"
  /\ \A v \in Usages : usage[v].status # "EN_COURS"
  /\ \E result \in EventReading("REMISE", km, at, TRUE) :
       /\ result.outcome # "EN_ATTENTE"
       /\ result.outcome = "IDEMPOTENT" /\ km # None => ~Linked(result.id)
       /\ Becomes(result)
       /\ usage' = [usage EXCEPT ![u].status = "EN_COURS", ![u].outAt = at, ![u].out = result.id,
                                 ![u].distance = IF km = None THEN Undetermined ELSE NotValidated]

\* The return: its reading may be left to validate.
Return(u, km, at) ==
  /\ Room(1) /\ usage[u].status = "EN_COURS" /\ at >= usage[u].outAt
  /\ \E result \in EventReading("RESTITUTION", km, at, TRUE) :
       /\ result.outcome = "IDEMPOTENT" /\ km # None => ~LinkedElsewhere(u, result.id)
       /\ Becomes(result)
       /\ usage' = [usage EXCEPT ![u] =
                      Measured(result.reading, [@ EXCEPT !.status = "TERMINEE", !.backAt = at,
                                                         !.back = result.id])]

NextDepartures(u) ==
  {usage[v].outAt : v \in {w \in Usages \ {u} : /\ usage[w].status # "AUCUNE"
                                                 /\ usage[w].outAt >= usage[u].backAt}}

\* returnRegularizationBlock and isInReturnRegularizationWindow.
MayRegularize(u, at) ==
  /\ usage[u].status = "TERMINEE"
  /\ IsAccepted(reading, usage[u].out)
  /\ usage[u].back # NoReading => reading[usage[u].back].status \notin {"ACCEPTE", "EN_ATTENTE"}
  /\ at >= usage[u].backAt
  /\ \A t \in NextDepartures(u) : at <= t

\* The accepted reading i becomes that of the return, if it validates the distance.
RegularizedBy(u, r, i) ==
  LET row == Measured(r, [usage[u] EXCEPT !.back = i])
  IN  /\ r[i].status = "ACCEPTE" /\ ~LinkedElsewhere(u, i)
      /\ row.distance >= 0
      /\ usage' = [usage EXCEPT ![u] = row]

RegularizeWithNew(u, km, at) ==
  /\ Room(1) /\ MayRegularize(u, at)
  /\ \E result \in EventReading("RESTITUTION", km, at, FALSE) :
       RegularizedBy(u, result.reading, result.id) /\ Becomes(result)

RegularizeWithExisting(u, i) ==
  /\ MayRegularize(u, reading[i].at)
  /\ RegularizedBy(u, reading, i)
  /\ UNCHANGED counters

----------------------------------------------------------------------------
(* Decisions on readings, with the usages that refer to them *)

ApproveReading(i) == Approve(i) /\ usage' = Remeasured(reading', i)

RejectReading(i) == Reject(i) /\ usage' = Remeasured(reading', i)

\* Mutant of Repointed: the events keep the reading that was replaced.
KeptOnOriginal(u, i, j) == usage[u]

Repointed(u, i, j) ==
  [usage[u] EXCEPT !.out = IF @ = i THEN j ELSE @, !.back = IF @ = i THEN j ELSE @]

\* The events follow the replacement, and their distances are computed again.
CorrectReading(i, km, at) ==
  /\ Correct(i, km, at, Linked(i))
  /\ usage' = [u \in Usages |->
                 IF Uses(u, i) THEN Measured(reading', Repointed(u, i, Len(reading')))
                 ELSE usage[u]]

Next ==
  \/ (Entered \/ Sampled \/ Initialised \/ Replaced) /\ UNCHANGED usage
  \/ \E i \in DOMAIN reading : ApproveReading(i) \/ RejectReading(i)
  \/ \E i \in DOMAIN reading, km \in Km, at \in Instants : CorrectReading(i, km, at)
  \/ \E u \in Usages, km \in Km \cup {None}, at \in Instants : CheckOut(u, km, at) \/ Return(u, km, at)
  \/ \E u \in Usages, km \in Km, at \in Instants : RegularizeWithNew(u, km, at)
  \/ \E u \in Usages, i \in DOMAIN reading : RegularizeWithExisting(u, i)

Spec == Init /\ [][Next]_vars

----------------------------------------------------------------------------

\* Reading j was observed after reading i on its counter, or on a later one of
\* the same scale.  Readings of one minute can be in any order: a return within
\* the minute of its departure may be answered by an earlier sample of it.
Follows(j, i) ==
  /\ reading[i].segment <= reading[j].segment /\ Chained(reading[i].segment, reading[j].segment)
  /\ reading[i].segment = reading[j].segment => reading[i].at <= reading[j].at

\* The distance of a finished usage is never stale: once validated it is the
\* difference of its two readings, both still accepted, and as soon as both
\* are accepted and the return's follows the departure's it is validated;
\* whatever approvals, rejections, corrections and regularisations came in between.
DistanceFollowsReadings ==
  \A u \in {v \in Usages : usage[v].status = "TERMINEE"} :
    LET i == usage[u].out  j == usage[u].back
        both == IsAccepted(reading, i) /\ IsAccepted(reading, j)
    IN  /\ usage[u].distance >= 0
             => both /\ usage[u].distance = reading[j].cumulative - reading[i].cumulative
        /\ (both /\ Follows(j, i)) => usage[u].distance >= 0

\* A distance validated between two readings of which one follows the other
\* stays validated: no later approval, correction, replacement of the counter or
\* event takes it back, and a correction carries the usage along.
ValidationStands ==
  [][\A u \in Usages :
       (/\ usage[u].status = "TERMINEE" /\ usage[u].distance >= 0
        /\ Follows(usage[u].back, usage[u].out))
         => usage'[u].distance >= 0]_vars
=============================================================================
