------------------------------- MODULE Upkeep -------------------------------
(***************************************************************************)
(* The upkeep of a vehicle: its immobilizations and their causes           *)
(* (ImmobilizationsService), the interventions and their costs             *)
(* (InterventionsService), and the incidents they deal with                *)
(* (IncidentsService).                                                     *)
(*                                                                         *)
(* A transaction that opens or closes a cause is serializable and locks    *)
(* the vehicle, and an operation given the version it expects sees what it *)
(* read: each is one action.  The checks made before their transaction by  *)
(* the requests that carry no version are steps of their own (admitted).   *)
(* Abstracted: tasks, lines, places, expected ends, plans and readings,    *)
(* rights; alerts raised after the commits.                                *)
(***************************************************************************)
EXTENDS Integers, Sequences, FiniteSets

CONSTANTS
  Interventions, Incidents,
  Other,            \* the source of a cause that is neither
  NoIncident,       \* the incident of an intervention that has none
  MaxInstant,       \* instants are 0..MaxInstant
  FutureTolerance,  \* FUTURE_TOLERANCE_MS: how far ahead a date may be
  MaxCauses,        \* bound of the model: causes ever opened
  MaxAdmitted       \* bound of the model: requests between check and transaction

ASSUME UpkeepAssumption ==
  /\ MaxInstant \in Nat /\ FutureTolerance \in Nat /\ MaxCauses \in Nat /\ MaxAdmitted \in Nat
  /\ Interventions \cap Incidents = {} /\ Other \notin Interventions \cup Incidents
  /\ NoIncident \notin Incidents

VARIABLES
  now,             \* the clock
  immobilization,  \* Immobilization rows, in order of creation; ACTIVE: to is Open
  cause,           \* ImmobilizationCause rows
  intervention,    \* Intervention rows
  expense,         \* VALIDEE expenses whose source is the intervention
  incident,        \* status of the incidents
  admitted         \* requests whose first check passed

vars == <<now, immobilization, cause, intervention, expense, incident, admitted>>
works == <<intervention, expense>>
outage == <<immobilization, cause>>

Instants == 0..MaxInstant
Open == -1
Sources == Interventions \cup Incidents \cup {Other}

OpenStatuses == {"BROUILLON", "PLANIFIEE", "EN_COURS"}
Concluded == {"TERMINEE", "ANNULEE"}
Costs == {"A_SAISIR", "SAISI", "SANS_COUT"}

Requests ==
  [op : {"intervention"}, about : Interventions, incident : Incidents]
    \cup [op : {"incident.immobilize"}, about : Incidents]
    \cup [op : {"immobilization"}, about : Sources]

TypeOK ==
  /\ now \in Instants
  /\ immobilization \in Seq([from : Instants, to : Instants \cup {Open}])
  /\ cause \in Seq([of : 1..Len(immobilization), source : Sources,
                    from : Instants, to : Instants \cup {Open}])
  /\ intervention \in [Interventions ->
       [status : OpenStatuses \cup Concluded \cup {"ABSENTE"}, cost : Costs,
        incident : Incidents \cup {NoIncident}]]
  /\ expense \in [Interventions -> {0, 1}]
  /\ incident \in [Incidents -> {"OUVERT", "EN_TRAITEMENT", "RESOLU", "CLOTURE"}]
  /\ admitted \subseteq Requests

Init ==
  /\ now = 0
  /\ immobilization = <<>> /\ cause = <<>>
  /\ intervention = [n \in Interventions |->
                       [status |-> "ABSENTE", cost |-> "A_SAISIR", incident |-> NoIncident]]
  /\ expense = [n \in Interventions |-> 0]
  /\ incident = [i \in Incidents |-> "OUVERT"]
  /\ admitted = {}

Tick == now < MaxInstant /\ now' = now + 1
        /\ UNCHANGED <<immobilization, cause, intervention, expense, incident, admitted>>

----------------------------------------------------------------------------
(* Immobilizations and causes: the transactional operations.               *)

Active == {k \in DOMAIN immobilization : immobilization[k].to = Open}
OpenCauses == {j \in DOMAIN cause : cause[j].to = Open}

\* Dates given are not in the future.
Past(t) == t <= now + FutureTolerance

\* immobilization_no_overlap, on [from, to[ or [from, infinity[.
Overlap(p, q) ==
  /\ p.from < p.to \/ p.to = Open
  /\ q.from < q.to \/ q.to = Open
  /\ p.from < q.to \/ q.to = Open
  /\ q.from < p.to \/ p.to = Open

\* Mutant of Permitted: the exclusion constraint is missing.
Ordered(rows) == \A k \in DOMAIN rows : rows[k].to = Open \/ rows[k].from <= rows[k].to

Permitted(rows) ==
  /\ \A k \in DOMAIN rows : rows[k].to = Open \/ rows[k].from <= rows[k].to
  /\ \A k, l \in DOMAIN rows : k # l => ~Overlap(rows[k], rows[l])

\* Mutant of OpenCause: the cause survives an immobilization that was not created.
OpenCauseAlone(s, t) ==
  /\ Len(cause) < MaxCauses /\ Past(t)
  /\ cause' = Append(cause, [of |-> Len(immobilization) + 1, source |-> s, from |-> t, to |-> Open])
  /\ UNCHANGED immobilization

\* The start of an immobilization that a cause joins.
Joined(from, t) == IF t < from THEN t ELSE from

\* openCause: the cause joins the active immobilization or starts one.  A
\* source has one open cause.
OpenCause(s, t) ==
  /\ Len(cause) < MaxCauses /\ Past(t)
  /\ s # Other => \A j \in OpenCauses : cause[j].source # s
  /\ \/ /\ Active = {}
        /\ immobilization' = Append(immobilization, [from |-> t, to |-> Open])
        /\ cause' = Append(cause, [of |-> Len(immobilization) + 1, source |-> s,
                                   from |-> t, to |-> Open])
     \/ \E k \in Active :
          /\ immobilization' = [immobilization EXCEPT ![k].from = Joined(@, t)]
          /\ cause' = Append(cause, [of |-> k, source |-> s, from |-> t, to |-> Open])
  /\ Permitted(immobilization')

CausesOf(k) == {j \in DOMAIN cause : cause[j].of = k}

\* Mutant of IsFinalEnd: the end of the cause closed last, whatever the others'.
IsLastClosed(ends, t, end) == end = t

\* The end of an immobilization: the latest end of its causes.
IsFinalEnd(ends, t, end) == end \in ends /\ \A e \in ends : e <= end

\* closeCauses: the causes S of immobilization k end at t, and with the last
\* of them the immobilization.
CloseCauses(k, S, t) ==
  /\ cause' = [j \in DOMAIN cause |-> IF j \in S THEN [cause[j] EXCEPT !.to = t] ELSE cause[j]]
  /\ \/ /\ \E j \in CausesOf(k) : cause'[j].to = Open
        /\ UNCHANGED immobilization
     \/ /\ \A j \in CausesOf(k) : cause'[j].to # Open
        /\ \E end \in Instants :
             /\ IsFinalEnd({cause'[j].to : j \in CausesOf(k)}, t, end)
             /\ immobilization' = [immobilization EXCEPT ![k].to = end]
        /\ Permitted(immobilization')

\* endCausesForSource, at the instant of the transaction: refused when a
\* cause starts later.
EndCausesForSource(s) ==
  \/ /\ \A j \in OpenCauses : cause[j].source # s
     /\ UNCHANGED outage
  \/ \E j \in OpenCauses :
       /\ cause[j].source = s /\ cause[j].from <= now
       /\ CloseCauses(cause[j].of, {j}, now)

----------------------------------------------------------------------------
(* Immobilizations: requests of the staff.                                 *)

Admit(r) ==
  /\ Cardinality(admitted \cup {r}) <= MaxAdmitted
  /\ admitted' = admitted \cup {r}
  /\ UNCHANGED <<now, immobilization, cause, intervention, expense, incident>>

Done(r) == r \in admitted /\ admitted' = admitted \ {r}

ForSource(s) == [op |-> "immobilization", about |-> s]

\* resolveKind, before the transaction: an intervention must not be concluded.
\* The status of an incident is not looked at.
AdmitSource(s) ==
  /\ s \in Interventions => intervention[s].status \in OpenStatuses
  /\ Admit(ForSource(s))

\* create; addCause, whose target is the active immobilization.
CreateImmobilization(s, t) ==
  /\ Done(ForSource(s)) /\ OpenCause(s, t)
  /\ UNCHANGED <<now, intervention, expense, incident>>

AddCause(s, t) ==
  /\ Active # {}
  /\ CreateImmobilization(s, t)

EndCause(j, t) ==
  /\ j \in OpenCauses /\ cause[j].from <= t /\ Past(t)
  /\ CloseCauses(cause[j].of, {j}, t)
  /\ UNCHANGED <<now, intervention, expense, incident, admitted>>

\* Every open cause ends.
End(k, t) ==
  /\ k \in Active /\ immobilization[k].from <= t /\ Past(t)
  /\ \A j \in CausesOf(k) \cap OpenCauses : cause[j].from <= t
  /\ CloseCauses(k, CausesOf(k) \cap OpenCauses, t)
  /\ UNCHANGED <<now, intervention, expense, incident, admitted>>

----------------------------------------------------------------------------
(* Interventions *)

ForIncident(n, i) == [op |-> "intervention", about |-> n, incident |-> i]

AcceptsIntervention(i) == incident[i] # "CLOTURE"

Created(n, i, status) ==
  /\ intervention[n].status = "ABSENTE"
  /\ intervention' = [intervention EXCEPT ![n].status = status, ![n].incident = i]
  /\ UNCHANGED <<now, immobilization, cause, expense, incident>>

\* create, with or without a planned start.
CreateIntervention(n, status) == Created(n, NoIncident, status) /\ UNCHANGED admitted

AdmitForIncident(n, i) ==
  /\ intervention[n].status = "ABSENTE" /\ AcceptsIntervention(i)
  /\ Admit(ForIncident(n, i))

\* The incident accepts it as it is under the lock; otherwise it is refused.
\* Mutant: the status read before the transaction is believed.
CreateForIncidentUnlocked(n, i, status) ==
  Done(ForIncident(n, i)) /\ Created(n, i, status)

CreateForIncident(n, i, status) ==
  /\ Done(ForIncident(n, i))
  /\ AcceptsIntervention(i)
  /\ Created(n, i, status)

Plan(n) ==
  /\ intervention[n].status \in {"BROUILLON", "PLANIFIEE"}
  /\ intervention' = [intervention EXCEPT ![n].status = "PLANIFIEE"]
  /\ UNCHANGED <<now, immobilization, cause, expense, incident, admitted>>

\* start, and the immobilization asked for with it.
Start(n, t, immobilize) ==
  /\ intervention[n].status \in {"BROUILLON", "PLANIFIEE"} /\ Past(t)
  /\ intervention' = [intervention EXCEPT ![n].status = "EN_COURS"]
  /\ IF immobilize THEN OpenCause(n, t) ELSE UNCHANGED outage
  /\ UNCHANGED <<now, expense, incident, admitted>>

\* createExpense: expense_one_active_per_source refuses a second one.
Accounted(n, cost) ==
  IF cost = "SAISI" THEN expense[n] = 0 /\ expense' = [expense EXCEPT ![n] = 1]
  ELSE UNCHANGED expense

\* complete: the cost is what is known of it, possibly nothing yet.
Complete(n, cost, endImmobilization) ==
  /\ intervention[n].status \in OpenStatuses
  /\ intervention' = [intervention EXCEPT ![n].status = "TERMINEE", ![n].cost = cost]
  /\ Accounted(n, cost)
  /\ IF endImmobilization THEN EndCausesForSource(n) ELSE UNCHANGED outage
  /\ UNCHANGED <<now, incident, admitted>>

RecordCost(n, cost) ==
  /\ intervention[n].status = "TERMINEE" /\ intervention[n].cost = "A_SAISIR"
  /\ cost # "A_SAISIR"
  /\ intervention' = [intervention EXCEPT ![n].cost = cost]
  /\ Accounted(n, cost)
  /\ UNCHANGED <<now, immobilization, cause, incident, admitted>>

Cancel(n, endImmobilization) ==
  /\ intervention[n].status \in OpenStatuses
  /\ intervention' = [intervention EXCEPT ![n].status = "ANNULEE"]
  /\ IF endImmobilization THEN EndCausesForSource(n) ELSE UNCHANGED outage
  /\ UNCHANGED <<now, expense, incident, admitted>>

\* Mutant of Reopen: the expense of the cost taken back stays.
ReopenKeepingExpense(n) ==
  /\ intervention[n].status = "TERMINEE"
  /\ intervention' = [intervention EXCEPT ![n].status = "EN_COURS", ![n].cost = "A_SAISIR"]
  /\ UNCHANGED <<now, immobilization, cause, expense, incident, admitted>>

\* The cost is to be entered again and its expense is cancelled.
Reopen(n) ==
  /\ intervention[n].status = "TERMINEE"
  /\ intervention' = [intervention EXCEPT ![n].status = "EN_COURS", ![n].cost = "A_SAISIR"]
  /\ expense' = [expense EXCEPT ![n] = 0]
  /\ UNCHANGED <<now, immobilization, cause, incident, admitted>>

----------------------------------------------------------------------------
(* Incidents *)

Pending(i) ==
  \/ \E n \in Interventions : intervention[n].incident = i /\ intervention[n].status \in OpenStatuses
  \/ \E j \in OpenCauses : cause[j].source = i

Allowed ==
  {<<"OUVERT", "EN_TRAITEMENT">>, <<"OUVERT", "RESOLU">>, <<"OUVERT", "CLOTURE">>,
   <<"EN_TRAITEMENT", "RESOLU">>, <<"RESOLU", "CLOTURE">>, <<"RESOLU", "EN_TRAITEMENT">>,
   <<"CLOTURE", "EN_TRAITEMENT">>}

\* The versioned update waits for the shared locks of the transactions that
\* attach something to the incident, and what they attached is counted.
Transition(i, to) ==
  /\ <<incident[i], to>> \in Allowed
  /\ incident[i] = "RESOLU" /\ to = "CLOTURE" => ~Pending(i)
  /\ incident' = [incident EXCEPT ![i] = to]
  /\ UNCHANGED <<now, immobilization, cause, intervention, expense, admitted>>

ImmobilizeRequest(i) == [op |-> "incident.immobilize", about |-> i]

AdmitImmobilize(i) == incident[i] # "CLOTURE" /\ Admit(ImmobilizeRequest(i))

\* immobilize: the status is read again under a shared lock.
Immobilize(i, t) ==
  /\ Done(ImmobilizeRequest(i)) /\ incident[i] # "CLOTURE"
  /\ OpenCause(i, t)
  /\ UNCHANGED <<now, intervention, expense, incident>>

\* 409 for what the transaction finds closed since the check.
Refused(r) ==
  /\ Done(r)
  /\ \/ r.op = "intervention" /\ ~AcceptsIntervention(r.incident)
     \/ r.op = "incident.immobilize" /\ incident[r.about] = "CLOTURE"
  /\ UNCHANGED <<now, immobilization, cause, intervention, expense, incident>>

----------------------------------------------------------------------------

StaffNext ==
  \/ \E s \in Sources : AdmitSource(s)
  \/ \E s \in Sources, t \in Instants : CreateImmobilization(s, t) \/ AddCause(s, t)
  \/ \E j \in DOMAIN cause, t \in Instants : EndCause(j, t)
  \/ \E k \in DOMAIN immobilization, t \in Instants : End(k, t)

InterventionNext ==
  \E n \in Interventions :
    \/ \E status \in {"BROUILLON", "PLANIFIEE"} :
         \/ CreateIntervention(n, status)
         \/ \E i \in Incidents : CreateForIncident(n, i, status)
    \/ \E i \in Incidents : AdmitForIncident(n, i)
    \/ \E t \in Instants, immobilize \in BOOLEAN : Start(n, t, immobilize)
    \/ \E cost \in Costs, end \in BOOLEAN : Complete(n, cost, end)
    \/ \E cost \in Costs : RecordCost(n, cost)
    \/ \E end \in BOOLEAN : Cancel(n, end)
    \/ Plan(n) \/ Reopen(n)

IncidentNext ==
  \E i \in Incidents :
    \/ \E to \in {"EN_TRAITEMENT", "RESOLU", "CLOTURE"} : Transition(i, to)
    \/ AdmitImmobilize(i)
    \/ \E t \in Instants : Immobilize(i, t)

Next ==
  \/ Tick \/ StaffNext \/ InterventionNext \/ IncidentNext
  \/ \E r \in admitted : Refused(r)

Spec == Init /\ [][Next]_vars

----------------------------------------------------------------------------
(* Properties *)

\* The vehicle is down as long as one cause is open and no longer, since the
\* earliest start of the causes of the current immobilization, and the period
\* of a finished one goes from the earliest start to the latest end of its
\* causes, in whatever order incidents, interventions and people open, date
\* and close them.
PeriodsSummariseCauses ==
  \A k \in DOMAIN immobilization :
    LET row == immobilization[k]  causes == CausesOf(k)
    IN  /\ row.to = Open <=> \E j \in causes : cause[j].to = Open
        /\ \E j \in causes : cause[j].from = row.from
        /\ \A j \in causes : row.from <= cause[j].from
        /\ row.to # Open => /\ \E j \in causes : cause[j].to = row.to
                            /\ \A j \in causes : cause[j].to <= row.to

\* The cost of an intervention is in the books once if it was entered and
\* not at all otherwise, across completions, late costs, reopenings and
\* further completions.
CostsInTheBooks ==
  \A n \in Interventions :
    expense[n] = (IF intervention[n].cost = "SAISI" THEN 1 ELSE 0)

\* An intervention is never attached to an incident that is closed, even if
\* it was closed between the check of the request and its transaction.
ClosedTakesNoIntervention ==
  [][\A n \in Interventions, i \in Incidents :
       intervention[n].incident # i /\ intervention'[n].incident = i
         => incident[i] # "CLOTURE"]_vars

\* The rows of immobilizations as the downtime they promise.
downSince == IF Active = {} THEN Open ELSE immobilization[CHOOSE k \in Active : TRUE].from
downPast == {<<immobilization[k].from, immobilization[k].to>> : k \in DOMAIN immobilization \ Active}

Promise == INSTANCE Downtime WITH since <- downSince, past <- downPast

\* The immobilizations of the vehicle implement the abstract downtime: one
\* period at a time, disjoint from the former, extended backwards at most,
\* and final once finished.
DowntimeSpec == Promise!Spec
=============================================================================
