----------------------------- MODULE Occupation -----------------------------
(***************************************************************************)
(* Who may hold which vehicle when: usages (remise / restitution),         *)
(* reservations, the life cycle and the company of vehicles, the status of *)
(* drivers and the active immobilization of a vehicle.                     *)
(*                                                                         *)
(* One action is one committed transaction of the API (or of the worker's  *)
(* catch-up); module OccupationTx shows that the row locks and isolation   *)
(* levels of the code make them so.  The one operation whose check stands  *)
(* outside its transaction, ImmobilizationsService.create, is two actions. *)
(*                                                                         *)
(* Abstracted: what can only refuse a request (permissions, permits,       *)
(* documents, odometer readings, open interventions and incidents) and     *)
(* what the others never read (purposes, readings, locations, audit).      *)
(***************************************************************************)
EXTENDS Integers, FiniteSets

CONSTANTS
  Vehicles, Drivers, Companies, UsageIds, ReservationIds,
  HomeCompany,      \* the company of each driver (it never changes)
  Horizon,          \* bound of the model: the last instant of the clock
  Periods,          \* the [start, end[ slots that reservations ask for
  Targets,          \* the life cycle statuses that requests ask for
  Outages,          \* the <<start, expected end>> that immobilizations ask for
  FutureTolerance,  \* FUTURE_TOLERANCE_MS of usages and immobilizations
  StartTolerance,   \* RESERVATION_START_TOLERANCE_MINUTES
  Early,            \* reservations.conversionEarlyMinutes
  Grace             \* reservations.noShowGraceMinutes

Instants == 0..Horizon
NotSet == -1        \* a null date
Nobody == "personne"  \* a null reference

ASSUME OccupationAssumption ==
  /\ Horizon \in Nat
  /\ FutureTolerance \in Nat /\ StartTolerance \in Nat
  /\ Early \in Nat /\ Grace \in Nat
  /\ Periods \subseteq Instants \X Instants
  /\ Targets \subseteq {"ACTIF", "HORS_SERVICE", "CEDE", "ARCHIVE"}
  /\ Outages \subseteq Instants \X (Instants \cup {NotSet})
  /\ HomeCompany \in [Drivers -> Companies]
  /\ Nobody \notin UsageIds /\ Nobody \notin ReservationIds

VARIABLES
  now,             \* Clock.now()
  lifecycle,       \* Vehicle.lifecycleStatus
  company,         \* Vehicle.companyId
  driverStatus,    \* Driver.status
  usage,           \* VehicleUsage rows
  reservation,     \* Reservation rows
  immobilization,  \* the ACTIVE Immobilization of each vehicle
  immobilizing     \* vehicles an Immobilization request has read and not yet locked

parties == <<lifecycle, company, driverStatus>>
vars == <<now, parties, usage, reservation, immobilization, immobilizing>>

----------------------------------------------------------------------------
(* Rows *)

Lifecycles == {"ACTIF", "HORS_SERVICE", "CEDE", "ARCHIVE"}
Exited == {"CEDE", "ARCHIVE"}

NoUsage == [status |-> "AUCUNE"]
UsageRow ==
  [status : {"EN_COURS", "TERMINEE"}, vehicle : Vehicles, driver : Drivers,
   checkedOutAt : Instants, expectedReturnAt : Instants,
   returnedAt : Instants \cup {NotSet}]

NoReservation == [status |-> "AUCUNE"]
ReservationRow ==
  [status : {"CONFIRMEE", "CONVERTIE", "ANNULEE", "NON_HONOREE"},
   vehicle : Vehicles, driver : Drivers,
   startAt : Instants, endAt : Instants,
   convertedUsage : UsageIds \cup {Nobody}]

NoImmobilization == [active |-> FALSE, startedAt |-> NotSet, expectedEndAt |-> NotSet]
ImmobilizationRow ==
  [active : BOOLEAN, startedAt : Instants \cup {NotSet},
   expectedEndAt : Instants \cup {NotSet}]

\* Types of the variables.
TypeOK ==
  /\ now \in Instants
  /\ lifecycle \in [Vehicles -> Lifecycles]
  /\ company \in [Vehicles -> Companies]
  /\ driverStatus \in [Drivers -> {"ACTIF", "INACTIF"}]
  /\ usage \in [UsageIds -> UsageRow \cup {NoUsage}]
  /\ reservation \in [ReservationIds -> ReservationRow \cup {NoReservation}]
  /\ immobilization \in [Vehicles -> ImmobilizationRow]
  /\ immobilizing \subseteq Vehicles

Init ==
  /\ now = 0
  /\ lifecycle = [v \in Vehicles |-> "ACTIF"]
  /\ company \in [Vehicles -> Companies]
  /\ driverStatus = [d \in Drivers |-> "ACTIF"]
  /\ usage = [u \in UsageIds |-> NoUsage]
  /\ reservation = [r \in ReservationIds |-> NoReservation]
  /\ immobilization = [v \in Vehicles |-> NoImmobilization]
  /\ immobilizing = {}

----------------------------------------------------------------------------
(* Questions the services ask of the rows *)

\* Two half-open slots [s1, e1[ and [s2, e2[ meet.
SlotsOverlap(s1, e1, s2, e2) == s1 < e2 /\ s2 < e1

\* A late usage (or immobilization) goes on occupying the vehicle until now.
OccupancyEnd(expected) == IF expected > now THEN expected ELSE now

Open(u) == usage[u].status = "EN_COURS"
Confirmed(r) == reservation[r].status = "CONFIRMEE"
Involves(row, v, d) == row.vehicle = v \/ row.driver = d
SameCouple(row, v, d) == row.vehicle = v /\ row.driver = d

\* What both a departure and the confirmation of a reservation require.
PartiesFit(v, d) ==
  /\ lifecycle[v] = "ACTIF"
  /\ driverStatus[d] = "ACTIF"
  /\ HomeCompany[d] = company[v]

\* Mutant of FreeSince: only open usages are looked at.
FreeSinceOpenOnly(v, d, at) ==
  \A u \in UsageIds :
    usage[u] # NoUsage /\ Involves(usage[u], v, d) => usage[u].status = "TERMINEE"

\* Neither the vehicle nor the driver is in use at the instant `at`: nothing
\* open, and nothing returned after it.
FreeSince(v, d, at) ==
  \A u \in UsageIds :
    usage[u] # NoUsage /\ Involves(usage[u], v, d) =>
      usage[u].status = "TERMINEE" /\ usage[u].returnedAt <= at

DepartureAllowed(v, d, at) ==
  /\ PartiesFit(v, d)
  /\ FreeSince(v, d, at)
  /\ ~immobilization[v].active

\* Mutant of ConflictingReservations: the driver's own reservations of other
\* vehicles are forgotten.
ConflictingReservationsOfVehicle(v, d, from, to) ==
  {r \in ReservationIds :
     /\ Confirmed(r)
     /\ reservation[r].vehicle = v
     /\ ~SameCouple(reservation[r], v, d)
     /\ SlotsOverlap(reservation[r].startAt, reservation[r].endAt, from, to)}

\* Confirmed reservations of somebody else (another driver on this vehicle,
\* or this driver on another vehicle) that meet [from, to[.
ConflictingReservations(v, d, from, to) ==
  {r \in ReservationIds :
     /\ Confirmed(r)
     /\ Involves(reservation[r], v, d)
     /\ ~SameCouple(reservation[r], v, d)
     /\ SlotsOverlap(reservation[r].startAt, reservation[r].endAt, from, to)}

InConversionWindow(r, at) ==
  reservation[r].startAt - Early <= at /\ at < reservation[r].endAt

\* Mutant of Convertible: any driver's reservation of the vehicle will do.
ConvertibleByVehicle(v, d, at) ==
  {r \in ReservationIds :
     Confirmed(r) /\ reservation[r].vehicle = v /\ InConversionWindow(r, at)}

Convertible(v, d, at) ==
  {r \in ReservationIds :
     Confirmed(r) /\ SameCouple(reservation[r], v, d) /\ InConversionWindow(r, at)}

\* The reservation a departure converts: the one the request names, or the
\* one pickReservationToConvert takes among the same candidates.  A request
\* that names none converts one whenever there is a candidate.
ConversionChoices(v, d, at) ==
  IF Convertible(v, d, at) = {} THEN {Nobody} ELSE Convertible(v, d, at)

\* Another confirmed reservation of the vehicle or of the driver meets the
\* slot: what the two exclusion constraints of the table refuse.
ClashesWithConfirmed(r, v, d, s, e) ==
  \E q \in ReservationIds \ {r} :
    /\ Confirmed(q)
    /\ Involves(reservation[q], v, d)
    /\ SlotsOverlap(reservation[q].startAt, reservation[q].endAt, s, e)

\* An active immobilization without expected end lasts for ever, a late one
\* until now.
ImmobilizedDuring(v, s, e) ==
  LET i == immobilization[v] IN
  /\ i.active
  /\ i.startedAt < e
  /\ i.expectedEndAt = NotSet \/ s < OccupancyEnd(i.expectedEndAt)

\* An open usage of the vehicle or of the driver, the couple's own included,
\* occupies part of the slot.
BusyDuring(v, d, s, e) ==
  \E u \in UsageIds :
    /\ Open(u)
    /\ Involves(usage[u], v, d)
    /\ SlotsOverlap(usage[u].checkedOutAt, OccupancyEnd(usage[u].expectedReturnAt), s, e)

ReservationAllowed(v, d, s, e) ==
  /\ PartiesFit(v, d)
  /\ ~BusyDuring(v, d, s, e)
  /\ ~ImmobilizedDuring(v, s, e)

ValidSlot(s, e, checkStart) ==
  /\ e > s
  /\ checkStart => s >= now - StartTolerance
  /\ e > now

FutureReservations(v) ==
  {r \in ReservationIds :
     Confirmed(r) /\ reservation[r].vehicle = v /\ reservation[r].endAt > now}

InUse(v) == \E u \in UsageIds : Open(u) /\ usage[u].vehicle = v

----------------------------------------------------------------------------
(* Usages *)

\* UsagesService.checkout
Checkout(u, v, d, at, expected) ==
  /\ usage[u] = NoUsage
  /\ at <= now + FutureTolerance
  /\ expected > at
  /\ DepartureAllowed(v, d, at)
  /\ ConflictingReservations(v, d, at, OccupancyEnd(expected)) = {}
  /\ usage' = [usage EXCEPT ![u] =
       [status |-> "EN_COURS", vehicle |-> v, driver |-> d, checkedOutAt |-> at,
        expectedReturnAt |-> expected, returnedAt |-> NotSet]]
  /\ \E r \in ConversionChoices(v, d, at) :
       reservation' = IF r = Nobody THEN reservation
                      ELSE [reservation EXCEPT ![r].status = "CONVERTIE",
                                               ![r].convertedUsage = u]
  /\ UNCHANGED <<now, parties, immobilization, immobilizing>>

\* UsagesService.return: never blocked by the state of the parties.
Return(u, at) ==
  /\ Open(u)
  /\ at <= now + FutureTolerance
  /\ at >= usage[u].checkedOutAt
  /\ usage' = [usage EXCEPT ![u].status = "TERMINEE", ![u].returnedAt = at]
  /\ UNCHANGED <<now, parties, reservation, immobilization, immobilizing>>

\* UsagesService.extend: a new expected return, later or earlier.
Extend(u, expected) ==
  LET row == usage[u] IN
  /\ Open(u)
  /\ expected > row.checkedOutAt
  /\ ConflictingReservations(row.vehicle, row.driver, row.checkedOutAt,
                             OccupancyEnd(expected)) = {}
  /\ usage' = [usage EXCEPT ![u].expectedReturnAt = expected]
  /\ UNCHANGED <<now, parties, reservation, immobilization, immobilizing>>

----------------------------------------------------------------------------
(* Reservations *)

\* ReservationsService.create
Reserve(r, v, d, s, e) ==
  /\ reservation[r] = NoReservation
  /\ ValidSlot(s, e, TRUE)
  /\ ReservationAllowed(v, d, s, e)
  /\ ~ClashesWithConfirmed(r, v, d, s, e)
  /\ reservation' = [reservation EXCEPT ![r] =
       [status |-> "CONFIRMEE", vehicle |-> v, driver |-> d, startAt |-> s,
        endAt |-> e, convertedUsage |-> Nobody]]
  /\ UNCHANGED <<now, parties, usage, immobilization, immobilizing>>

\* A change of vehicle, driver or start.
Moves(r, v, d, s) ==
  ~SameCouple(reservation[r], v, d) \/ s # reservation[r].startAt

\* ReservationsService.update: once the start has come only the end moves; the
\* checks of a creation are made again unless the change only shortens.
Amend(r, v, d, s, e) ==
  /\ Confirmed(r)
  /\ Moves(r, v, d, s) \/ e # reservation[r].endAt
  /\ reservation[r].startAt <= now => ~Moves(r, v, d, s)
  /\ ValidSlot(s, e, s # reservation[r].startAt)
  /\ Moves(r, v, d, s) \/ e > reservation[r].endAt => ReservationAllowed(v, d, s, e)
  /\ ~ClashesWithConfirmed(r, v, d, s, e)
  /\ reservation' = [reservation EXCEPT ![r].vehicle = v, ![r].driver = d,
                                        ![r].startAt = s, ![r].endAt = e]
  /\ UNCHANGED <<now, parties, usage, immobilization, immobilizing>>

Close(r, status) ==
  /\ Confirmed(r)
  /\ reservation' = [reservation EXCEPT ![r].status = status]
  /\ UNCHANGED <<now, parties, usage, immobilization, immobilizing>>

\* ReservationsService.cancel
Cancel(r) == Close(r, "ANNULEE")

\* Mutant of NoShow: a status the table does not have.
NoShowUnknownStatus(r) ==
  /\ Confirmed(r) /\ now >= reservation[r].startAt + Grace
  /\ Close(r, "EXPIREE")

\* ReservationsService.markNoShow
NoShow(r) ==
  /\ Confirmed(r) /\ now >= reservation[r].startAt + Grace
  /\ Close(r, "NON_HONOREE")

\* ReservationsService.expireUnconverted, one row of the catch-up
Expire(r) ==
  /\ Confirmed(r) /\ reservation[r].endAt <= now
  /\ Close(r, "NON_HONOREE")

----------------------------------------------------------------------------
(* Vehicles and drivers *)

\* VehiclesService.changeLifecycle
ChangeLifecycle(v, target) ==
  /\ lifecycle[v] # target
  /\ lifecycle[v] # "ARCHIVE"
  /\ target \in Exited =>
       ~InUse(v) /\ ~immobilization[v].active /\ FutureReservations(v) = {}
  /\ lifecycle' = [lifecycle EXCEPT ![v] = target]
  /\ UNCHANGED <<now, company, driverStatus, usage, reservation, immobilization, immobilizing>>

\* VehicleTransferService.transferInTx
Transfer(v, target) ==
  /\ lifecycle[v] \notin Exited
  /\ company[v] # target
  /\ ~InUse(v) /\ ~immobilization[v].active /\ FutureReservations(v) = {}
  /\ company' = [company EXCEPT ![v] = target]
  /\ UNCHANGED <<now, lifecycle, driverStatus, usage, reservation, immobilization, immobilizing>>

\* Mutant of Deactivate: only reservations that have not started are cancelled.
DeactivateKeepsStarted(d) ==
  LET future == {r \in ReservationIds :
                   Confirmed(r) /\ reservation[r].driver = d /\ reservation[r].startAt > now}
  IN
  /\ driverStatus[d] = "ACTIF"
  /\ ~\E u \in UsageIds : Open(u) /\ usage[u].driver = d
  /\ driverStatus' = [driverStatus EXCEPT ![d] = "INACTIF"]
  /\ reservation' = [r \in ReservationIds |->
       IF r \in future THEN [reservation[r] EXCEPT !.status = "ANNULEE"] ELSE reservation[r]]
  /\ UNCHANGED <<now, lifecycle, company, usage, immobilization, immobilizing>>

\* DriversService.deactivate: the reservations to come of the driver are
\* cancelled with it (a request that does not accept that is refused).
Deactivate(d) ==
  LET future == {r \in ReservationIds :
                   Confirmed(r) /\ reservation[r].driver = d /\ reservation[r].endAt > now}
  IN
  /\ driverStatus[d] = "ACTIF"
  /\ ~\E u \in UsageIds : Open(u) /\ usage[u].driver = d
  /\ driverStatus' = [driverStatus EXCEPT ![d] = "INACTIF"]
  /\ reservation' = [r \in ReservationIds |->
       IF r \in future THEN [reservation[r] EXCEPT !.status = "ANNULEE"] ELSE reservation[r]]
  /\ UNCHANGED <<now, lifecycle, company, usage, immobilization, immobilizing>>

\* DriversService.reactivate
Reactivate(d) ==
  /\ driverStatus' = [driverStatus EXCEPT ![d] = "ACTIF"]
  /\ UNCHANGED <<now, lifecycle, company, usage, reservation, immobilization, immobilizing>>

----------------------------------------------------------------------------
(* Immobilizations *)

\* ImmobilizationsService.create, before its transaction: the vehicle is read
\* and refused when it has left the fleet.
RequestImmobilization(v) ==
  /\ lifecycle[v] \notin Exited
  /\ immobilizing = {}    \* bound: one such request in flight
  /\ immobilizing' = {v}
  /\ UNCHANGED <<now, parties, usage, reservation, immobilization>>

\* Its transaction, openCause: a new immobilization, or one more cause of the
\* active one, which an earlier start or a new expected end then extends.
OpenCause(v, at, expectedEnd) ==
  LET i == immobilization[v] IN
  /\ v \in immobilizing
  /\ at <= now + FutureTolerance
  /\ expectedEnd # NotSet =>
       expectedEnd > (IF i.active /\ i.startedAt < at THEN i.startedAt ELSE at)
  /\ immobilization' = [immobilization EXCEPT ![v] =
       [active |-> TRUE,
        startedAt |-> IF i.active /\ i.startedAt < at THEN i.startedAt ELSE at,
        expectedEndAt |-> IF i.active /\ expectedEnd = NotSet THEN i.expectedEndAt
                          ELSE expectedEnd]]
  /\ immobilizing' = immobilizing \ {v}
  /\ UNCHANGED <<now, parties, usage, reservation>>

\* ImmobilizationsService.update: no lock, the version of the row is enough.
UpdateImmobilization(v, expectedEnd) ==
  /\ immobilization[v].active
  /\ expectedEnd # NotSet => expectedEnd > immobilization[v].startedAt
  /\ immobilization' = [immobilization EXCEPT ![v].expectedEndAt = expectedEnd]
  /\ UNCHANGED <<now, parties, usage, reservation, immobilizing>>

\* ImmobilizationsService.end (or endCause on the last open cause)
EndImmobilization(v) ==
  /\ immobilization[v].active
  /\ immobilization' = [immobilization EXCEPT ![v] = NoImmobilization]
  /\ UNCHANGED <<now, parties, usage, reservation, immobilizing>>

----------------------------------------------------------------------------

Tick ==
  /\ now < Horizon
  /\ now' = now + 1
  /\ UNCHANGED <<parties, usage, reservation, immobilization, immobilizing>>

UsageStep ==
  \E u \in UsageIds :
    \/ \E v \in Vehicles, d \in Drivers, at, expected \in Instants :
         Checkout(u, v, d, at, expected)
    \/ \E at \in Instants : Return(u, at) \/ Extend(u, at)

ReservationStep ==
  \E r \in ReservationIds :
    \/ \E v \in Vehicles, d \in Drivers, p \in Periods :
         Reserve(r, v, d, p[1], p[2]) \/ Amend(r, v, d, p[1], p[2])
    \/ Cancel(r) \/ NoShow(r) \/ Expire(r)

PartyStep ==
  \/ \E v \in Vehicles :
       \/ \E target \in Targets : ChangeLifecycle(v, target)
       \/ \E target \in Companies : Transfer(v, target)
  \/ \E d \in Drivers : Deactivate(d) \/ Reactivate(d)

ImmobilizationStep ==
  \E v \in Vehicles :
    \/ RequestImmobilization(v)
    \/ \E o \in Outages : OpenCause(v, o[1], o[2]) \/ UpdateImmobilization(v, o[2])
    \/ EndImmobilization(v)

Next == UsageStep \/ ReservationStep \/ PartyStep \/ ImmobilizationStep \/ Tick

Spec == Init /\ [][Next]_vars

----------------------------------------------------------------------------
(* Properties *)

\* The end of a possession: its return, or never as long as it is open.
Possesses(u, at) ==
  /\ usage[u] # NoUsage
  /\ usage[u].checkedOutAt <= at
  /\ usage[u].status = "EN_COURS" \/ at < usage[u].returnedAt

\* A vehicle is never in the hands of two drivers, nor a driver at two wheels,
\* at the same instant, whatever the order in which departures and returns
\* were entered (T04, T05, CDC 4.3 and 4.5): checkout refuses to precede a
\* return already recorded.
PossessionDisjoint ==
  \A u, w \in UsageIds :
    /\ u # w /\ usage[u] # NoUsage /\ usage[w] # NoUsage
    /\ Involves(usage[w], usage[u].vehicle, usage[u].driver)
    => \A at \in Instants : ~(Possesses(u, at) /\ Possesses(w, at))

\* The period an open usage announces (departure to expected return) never
\* meets a confirmed reservation of somebody else, however the two came to be:
\* departure, extension, reservation or amendment (D-138, D-140).
AnnouncedPeriodClear ==
  \A u \in UsageIds, r \in ReservationIds :
    /\ Open(u) /\ Confirmed(r)
    /\ Involves(reservation[r], usage[u].vehicle, usage[u].driver)
    /\ ~SameCouple(reservation[r], usage[u].vehicle, usage[u].driver)
    => ~SlotsOverlap(usage[u].checkedOutAt, usage[u].expectedReturnAt,
                     reservation[r].startAt, reservation[r].endAt)

CanHonour(v, d) ==
  /\ lifecycle[v] \notin Exited
  /\ driverStatus[d] = "ACTIF"
  /\ company[v] = HomeCompany[d]

\* Whatever has been promised or started can be honoured: the vehicle of an
\* open usage or of a reservation to come has not left the fleet nor changed
\* company, and its driver is active (CDC 3.2, 3.3, D-120, D-131).
CommitmentsFit ==
  /\ \A u \in UsageIds : Open(u) => CanHonour(usage[u].vehicle, usage[u].driver)
  /\ \A r \in ReservationIds :
       Confirmed(r) /\ reservation[r].endAt > now =>
         CanHonour(reservation[r].vehicle, reservation[r].driver)

\* A converted reservation keeps the usage that converted it: of the same
\* couple, and departed inside the reservation's window (D-140, D-142).
ConversionsFaithful ==
  \A r \in ReservationIds :
    reservation[r].status = "CONVERTIE" =>
      LET u == reservation[r].convertedUsage IN
      /\ u \in UsageIds
      /\ usage[u] # NoUsage
      /\ SameCouple(usage[u], reservation[r].vehicle, reservation[r].driver)
      /\ InConversionWindow(r, usage[u].checkedOutAt)

\* "Un véhicule cédé ou archivé ne peut pas être immobilisé." (the refusal of
\* ImmobilizationsService.create), read as a fact about the rows.
ExitedVehicleNotImmobilized ==
  \A v \in Vehicles : lifecycle[v] \in Exited => ~immobilization[v].active

============================================================================
