-------------------------- MODULE OccupationProofs --------------------------
(***************************************************************************)
(* Proofs about Occupation, for any number of vehicles, drivers, usages    *)
(* and reservations, any horizon and any setting of the tolerances.        *)
(***************************************************************************)
EXTENDS Occupation, TLAPS

USE OccupationAssumption

\* The value of an absent row is not a row.
LEMMA RowsApart ==
  /\ NoUsage \notin UsageRow
  /\ NoReservation \notin ReservationRow
BY DEF NoUsage, NoReservation, UsageRow, ReservationRow

----------------------------------------------------------------------------
(* Type correctness *)

\* The rows keep their types: every action writes well-typed values.
THEOREM TypeCorrect == Spec => []TypeOK
<1>1. Init => TypeOK
  BY DEF Init, TypeOK, Instants, Lifecycles, NoImmobilization, ImmobilizationRow, NotSet
<1>2. TypeOK /\ [Next]_vars => TypeOK'
  <2> SUFFICES ASSUME TypeOK, [Next]_vars PROVE TypeOK'
    OBVIOUS
  <2> USE DEF TypeOK
  <2>1. ASSUME NEW u \in UsageIds, NEW v \in Vehicles, NEW d \in Drivers,
               NEW at \in Instants, NEW expected \in Instants,
               Checkout(u, v, d, at, expected)
        PROVE TypeOK'
    <3>1. usage' \in [UsageIds -> UsageRow \cup {NoUsage}]
      BY <2>1 DEF Checkout, UsageRow
    <3>2. reservation' \in [ReservationIds -> ReservationRow \cup {NoReservation}]
      <4>1. PICK r \in ConversionChoices(v, d, at) :
              reservation' = IF r = Nobody THEN reservation
                             ELSE [reservation EXCEPT ![r].status = "CONVERTIE",
                                                      ![r].convertedUsage = u]
        BY <2>1 DEF Checkout
      <4>2. CASE r = Nobody
        BY <4>1, <4>2
      <4>3. CASE r # Nobody
        <5>1. r \in ReservationIds /\ Confirmed(r)
          BY <4>3 DEF ConversionChoices, Convertible
        <5>2. reservation[r] \in ReservationRow
          BY <5>1 DEF Confirmed, NoReservation
        <5> QED
          BY <4>1, <4>3, <5>1, <5>2 DEF ReservationRow
      <4> QED BY <4>2, <4>3
    <3> QED BY <2>1, <3>1, <3>2 DEF Checkout, parties
  <2>2. ASSUME NEW u \in UsageIds, NEW at \in Instants, Return(u, at) \/ Extend(u, at)
        PROVE TypeOK'
    <3>1. usage[u] \in UsageRow
      BY <2>2 DEF Return, Extend, Open, NoUsage
    <3>2. usage' \in [UsageIds -> UsageRow \cup {NoUsage}]
      BY <2>2, <3>1 DEF Return, Extend, UsageRow
    <3> QED BY <2>2, <3>2 DEF Return, Extend, parties
  <2>3. ASSUME NEW r \in ReservationIds, NEW v \in Vehicles, NEW d \in Drivers,
               NEW p \in Periods, Reserve(r, v, d, p[1], p[2]) \/ Amend(r, v, d, p[1], p[2])
        PROVE TypeOK'
    <3>1. p[1] \in Instants /\ p[2] \in Instants
      OBVIOUS
    <3>2. CASE Reserve(r, v, d, p[1], p[2])
      BY <3>1, <3>2 DEF Reserve, ReservationRow, parties
    <3>3. CASE Amend(r, v, d, p[1], p[2])
      <4>1. reservation[r] \in ReservationRow
        BY <3>3 DEF Amend, Confirmed, NoReservation
      <4> QED BY <3>1, <3>3, <4>1 DEF Amend, ReservationRow, parties
    <3> QED BY <2>3, <3>2, <3>3
  <2>4. ASSUME NEW r \in ReservationIds, Cancel(r) \/ NoShow(r) \/ Expire(r)
        PROVE TypeOK'
    <3>1. PICK s \in {"ANNULEE", "NON_HONOREE"} : Close(r, s)
      BY <2>4 DEF Cancel, NoShow, Expire
    <3>2. reservation[r] \in ReservationRow
      BY <3>1 DEF Close, Confirmed, NoReservation
    <3> QED BY <3>1, <3>2 DEF Close, ReservationRow, parties
  <2>5. ASSUME NEW v \in Vehicles, NEW target \in Targets, ChangeLifecycle(v, target)
        PROVE TypeOK'
    BY <2>5 DEF ChangeLifecycle, Lifecycles
  <2>6. ASSUME NEW v \in Vehicles, NEW target \in Companies, Transfer(v, target)
        PROVE TypeOK'
    BY <2>6 DEF Transfer
  <2>7. ASSUME NEW d \in Drivers, Deactivate(d) \/ Reactivate(d)
        PROVE TypeOK'
    <3>1. CASE Deactivate(d)
      <4>1. ASSUME NEW r \in ReservationIds
            PROVE reservation'[r] \in ReservationRow \cup {NoReservation}
        <5>1. Confirmed(r) => reservation[r] \in ReservationRow
          BY DEF Confirmed, NoReservation
        <5> QED BY <3>1, <5>1 DEF Deactivate, ReservationRow
      <4>2. reservation' \in [ReservationIds -> ReservationRow \cup {NoReservation}]
        BY <3>1, <4>1 DEF Deactivate
      <4> QED BY <3>1, <4>2 DEF Deactivate
    <3>2. CASE Reactivate(d)
      BY <3>2 DEF Reactivate
    <3> QED BY <2>7, <3>1, <3>2
  <2>8. ASSUME NEW v \in Vehicles, NEW o \in Outages,
               OpenCause(v, o[1], o[2]) \/ UpdateImmobilization(v, o[2])
        PROVE TypeOK'
    <3>1. o[1] \in Instants /\ o[2] \in Instants \cup {NotSet}
      OBVIOUS
    <3>2. immobilization[v] \in ImmobilizationRow
      OBVIOUS
    <3>3. immobilization' \in [Vehicles -> ImmobilizationRow]
      <4>1. CASE OpenCause(v, o[1], o[2])
        BY <3>1, <3>2, <4>1 DEF OpenCause, ImmobilizationRow
      <4>2. CASE UpdateImmobilization(v, o[2])
        BY <3>1, <3>2, <4>2 DEF UpdateImmobilization, ImmobilizationRow
      <4> QED BY <2>8, <4>1, <4>2
    <3> QED BY <2>8, <3>3 DEF OpenCause, UpdateImmobilization, parties
  <2>9. ASSUME NEW v \in Vehicles, RequestImmobilization(v) \/ EndImmobilization(v)
        PROVE TypeOK'
    <3>1. NoImmobilization \in ImmobilizationRow
      BY DEF NoImmobilization, ImmobilizationRow
    <3> QED BY <2>9, <3>1 DEF RequestImmobilization, EndImmobilization, parties
  <2>10. ASSUME Tick PROVE TypeOK'
    BY <2>10 DEF Tick, Instants, parties
  <2>11. ASSUME UNCHANGED vars PROVE TypeOK'
    BY <2>11 DEF vars, parties
  <2> QED
    BY <2>1, <2>2, <2>3, <2>4, <2>5, <2>6, <2>7, <2>8, <2>9, <2>10, <2>11
       DEF Next, UsageStep, ReservationStep, PartyStep, ImmobilizationStep
<1> QED BY <1>1, <1>2, PTL DEF Spec

----------------------------------------------------------------------------
(* What a step can write *)

\* Only departures, returns and extensions write a usage.
LEMMA UsageWriters ==
  ASSUME [Next]_vars
  PROVE  \/ \E u \in UsageIds, v \in Vehicles, d \in Drivers, at, expected \in Instants :
              Checkout(u, v, d, at, expected)
         \/ \E u \in UsageIds, at \in Instants : Return(u, at) \/ Extend(u, at)
         \/ usage' = usage
<1>1. CASE UsageStep
  BY <1>1 DEF UsageStep
<1>2. ReservationStep => usage' = usage
  <2>1. \A r, v, d, s, e : Reserve(r, v, d, s, e) \/ Amend(r, v, d, s, e) => usage' = usage
    <3>1. \A r, v, d, s, e : Reserve(r, v, d, s, e) => usage' = usage
      BY Zenon DEF Reserve
    <3>2. ASSUME NEW r, NEW v, NEW d, NEW s, NEW e, Amend(r, v, d, s, e)
          PROVE  usage' = usage
      BY <3>2, Zenon DEF Amend
    <3> QED BY <3>1, <3>2, Zenon
  <2>2. \A r \in ReservationIds : Cancel(r) \/ NoShow(r) \/ Expire(r) => usage' = usage
    BY DEF Cancel, NoShow, Expire, Close
  <2> QED BY <2>1, <2>2, Zenon DEF ReservationStep
<1>3. PartyStep => usage' = usage
  BY DEF PartyStep, ChangeLifecycle, Transfer, Deactivate, Reactivate
<1>4. ImmobilizationStep => usage' = usage
  BY DEF ImmobilizationStep, RequestImmobilization, OpenCause,
         UpdateImmobilization, EndImmobilization
<1>5. CASE Tick \/ UNCHANGED vars
  BY <1>5 DEF Tick, vars
<1> QED BY <1>1, <1>2, <1>3, <1>4, <1>5 DEF Next

\* A row that is not the null row is a full row.
LEMMA UsageTyped ==
  ASSUME TypeOK, NEW u \in UsageIds, usage[u] # NoUsage
  PROVE  usage[u] \in UsageRow
BY DEF TypeOK

\* An open usage is a row.
LEMMA OpenTyped ==
  ASSUME TypeOK, NEW u \in UsageIds, Open(u)
  PROVE  usage[u] # NoUsage /\ usage[u] \in UsageRow
BY DEF TypeOK, Open, NoUsage

\* A confirmed reservation is a row.
LEMMA ConfirmedTyped ==
  ASSUME TypeOK, NEW r \in ReservationIds, Confirmed(r)
  PROVE  reservation[r] # NoReservation /\ reservation[r] \in ReservationRow
BY DEF TypeOK, Confirmed, NoReservation

\* Instants, and the mark of an instant not set, can be compared as integers.
LEMMA InstantsAreIntegers == Instants \subseteq Int /\ NotSet \in Int
BY DEF Instants, NotSet

----------------------------------------------------------------------------
(* Possession *)

\* A return only shortens a possession.
LEMMA ReturnShortens ==
  ASSUME TypeOK, NEW u \in UsageIds, NEW at \in Instants,
         Return(u, at) \/ Extend(u, at),
         NEW w \in UsageIds, NEW t \in Instants
  PROVE  /\ Possesses(w, t)' => Possesses(w, t)
         /\ usage'[w] # NoUsage => usage[w] # NoUsage
         /\ usage[w] # NoUsage =>
              usage'[w].vehicle = usage[w].vehicle /\ usage'[w].driver = usage[w].driver
<1>1. usage[u] # NoUsage /\ usage[u] \in UsageRow
  BY OpenTyped DEF Return, Extend
<1>2. CASE w = u
  BY <1>1, <1>2 DEF Return, Extend, Possesses, Open, UsageRow, TypeOK
<1>3. CASE w # u
  BY <1>3 DEF Return, Extend, Possesses, TypeOK
<1> QED BY <1>2, <1>3

\* Possessions of one vehicle, or of one driver, never share an instant.
THEOREM PossessionSafe == Spec => []PossessionDisjoint
<1>1. Init => PossessionDisjoint
  BY DEF Init, PossessionDisjoint
<1>2. TypeOK /\ PossessionDisjoint /\ [Next]_vars => PossessionDisjoint'
  <2> SUFFICES ASSUME TypeOK, PossessionDisjoint, [Next]_vars,
                      NEW u \in UsageIds, NEW w \in UsageIds, NEW t \in Instants,
                      u # w, usage'[u] # NoUsage, usage'[w] # NoUsage,
                      Involves(usage'[w], usage'[u].vehicle, usage'[u].driver),
                      Possesses(u, t)', Possesses(w, t)'
               PROVE FALSE
    BY DEF PossessionDisjoint
  <2>1. ASSUME NEW x \in UsageIds, NEW v \in Vehicles, NEW d \in Drivers,
               NEW at \in Instants, NEW expected \in Instants,
               Checkout(x, v, d, at, expected)
        PROVE FALSE
    <3>1. usage'[x].vehicle = v /\ usage'[x].driver = d /\ usage'[x].checkedOutAt = at
      BY <2>1 DEF Checkout, TypeOK
    <3>2. ASSUME NEW y \in UsageIds, y # x, usage'[y] # NoUsage,
                 Involves(usage'[y], v, d), Possesses(y, t)', Possesses(x, t)'
          PROVE FALSE
      <4>1. usage'[y] = usage[y]
        BY <2>1, <3>2 DEF Checkout, TypeOK
      <4>2. usage[y].status = "TERMINEE" /\ usage[y].returnedAt <= at
        BY <2>1, <3>2, <4>1 DEF Checkout, DepartureAllowed, FreeSince
      <4>3. usage[y] \in UsageRow
        BY <3>2, <4>1, UsageTyped
      <4>4. usage[y].returnedAt \in Int /\ at \in Int /\ t \in Int
        BY <4>3, InstantsAreIntegers DEF UsageRow
      <4>5. t < usage[y].returnedAt /\ at <= t
        BY <3>1, <3>2, <4>1, <4>2 DEF Possesses
      <4> QED BY <4>2, <4>4, <4>5
    <3>3. CASE u = x
      BY <3>1, <3>2, <3>3
    <3>4. CASE w = x
      BY <3>1, <3>2, <3>4 DEF Involves
    <3>5. CASE u # x /\ w # x
      <4>1. usage'[u] = usage[u] /\ usage'[w] = usage[w]
        BY <2>1, <3>5 DEF Checkout, TypeOK
      <4> QED BY <4>1 DEF PossessionDisjoint, Possesses
    <3> QED BY <3>3, <3>4, <3>5
  <2>2. ASSUME NEW x \in UsageIds, NEW at \in Instants, Return(x, at) \/ Extend(x, at)
        PROVE FALSE
    <3>1. /\ Possesses(u, t) /\ Possesses(w, t)
          /\ usage[u] # NoUsage /\ usage[w] # NoUsage
          /\ Involves(usage[w], usage[u].vehicle, usage[u].driver)
      BY <2>2, ReturnShortens DEF Involves
    <3> QED BY <3>1 DEF PossessionDisjoint
  <2>3. ASSUME usage' = usage PROVE FALSE
    BY <2>3 DEF PossessionDisjoint, Possesses
  <2> QED
    BY <2>1, <2>2, <2>3, UsageWriters
<1> QED BY <1>1, <1>2, TypeCorrect, PTL DEF Spec

----------------------------------------------------------------------------
(* Announced periods *)

\* The confirmed reservations after the step are rows that were confirmed.
Shrinks ==
  \A r \in ReservationIds : Confirmed(r)' => Confirmed(r) /\ reservation'[r] = reservation[r]

\* Only a reservation and an amendment confirm anything new.
LEMMA ReservationWriters ==
  ASSUME TypeOK, [Next]_vars
  PROVE  \/ \E r \in ReservationIds, v \in Vehicles, d \in Drivers, s, e \in Instants :
              Reserve(r, v, d, s, e) \/ Amend(r, v, d, s, e)
         \/ Shrinks
<1>1. UsageStep => Shrinks
  <2>1. ASSUME NEW u, NEW v, NEW d, NEW at, NEW expected, Checkout(u, v, d, at, expected)
        PROVE  Shrinks
    <3>1. PICK r \in ConversionChoices(v, d, at) :
            reservation' = IF r = Nobody THEN reservation
                           ELSE [reservation EXCEPT ![r].status = "CONVERTIE",
                                                    ![r].convertedUsage = u]
      BY <2>1 DEF Checkout
    <3> QED BY <3>1 DEF Shrinks, Confirmed, TypeOK
  <2>2. ASSUME NEW u, NEW at, Return(u, at) \/ Extend(u, at)
        PROVE  Shrinks
    BY <2>2 DEF Return, Extend, Shrinks, Confirmed
  <2> QED BY <2>1, <2>2 DEF UsageStep
<1>2. ASSUME NEW r \in ReservationIds, Cancel(r) \/ NoShow(r) \/ Expire(r)
      PROVE  Shrinks
  <2>1. PICK s \in {"ANNULEE", "NON_HONOREE"} : Close(r, s)
    BY <1>2 DEF Cancel, NoShow, Expire
  <2> QED BY <2>1 DEF Close, Shrinks, Confirmed, TypeOK
<1>3. ReservationStep =>
        \/ \E r \in ReservationIds, v \in Vehicles, d \in Drivers, s, e \in Instants :
             Reserve(r, v, d, s, e) \/ Amend(r, v, d, s, e)
        \/ Shrinks
  <2>1. \A p \in Periods : p[1] \in Instants /\ p[2] \in Instants
    OBVIOUS
  <2> QED BY <2>1, <1>2, Zenon DEF ReservationStep
<1>4. PartyStep => Shrinks
  <2>1. ASSUME NEW d \in Drivers, Deactivate(d) PROVE Shrinks
    <3>1. ASSUME NEW r \in ReservationIds, Confirmed(r)'
          PROVE  Confirmed(r) /\ reservation'[r] = reservation[r]
      <4>1. reservation[r] \in ReservationRow \cup {NoReservation}
        BY DEF TypeOK
      <4>2. [reservation[r] EXCEPT !.status = "ANNULEE"].status = "ANNULEE"
        BY <4>1 DEF ReservationRow, NoReservation
      <4> QED BY <2>1, <3>1, <4>2 DEF Deactivate, Confirmed
    <3> QED BY <3>1 DEF Shrinks
  <2>2. ASSUME reservation' = reservation PROVE Shrinks
    BY <2>2 DEF Shrinks, Confirmed
  <2> QED BY <2>1, <2>2 DEF PartyStep, ChangeLifecycle, Transfer, Reactivate
<1>5. ImmobilizationStep \/ Tick \/ UNCHANGED vars => Shrinks
  BY DEF ImmobilizationStep, RequestImmobilization, OpenCause,
         UpdateImmobilization, EndImmobilization, Tick,
         vars, Shrinks, Confirmed
<1> QED BY <1>1, <1>3, <1>4, <1>5 DEF Next

\* A late occupancy covers what was announced.
LEMMA OccupancyCovers ==
  ASSUME TypeOK, NEW from \in Instants, NEW expected \in Instants,
         NEW s \in Instants, NEW e \in Instants,
         SlotsOverlap(from, expected, s, e)
  PROVE  SlotsOverlap(from, OccupancyEnd(expected), s, e)
BY InstantsAreIntegers DEF SlotsOverlap, OccupancyEnd, TypeOK

\* A slot that meets a period still does when it ends later.
LEMMA LongerSlotOverlaps ==
  ASSUME NEW from \in Int, NEW to \in Int, NEW s \in Int, NEW e \in Int, NEW later \in Int,
         ~(e > later), SlotsOverlap(from, to, s, e)
  PROVE  SlotsOverlap(from, to, s, later)
BY DEF SlotsOverlap

\* The announced period of an open usage stays clear of the confirmed
\* reservations of others.
THEOREM AnnouncedPeriodSafe == Spec => []AnnouncedPeriodClear
<1>1. Init => AnnouncedPeriodClear
  BY DEF Init, AnnouncedPeriodClear, Open, NoUsage
<1>2. TypeOK /\ TypeOK' /\ AnnouncedPeriodClear /\ [Next]_vars => AnnouncedPeriodClear'
  <2> SUFFICES ASSUME TypeOK, TypeOK', AnnouncedPeriodClear, [Next]_vars,
                      NEW u \in UsageIds, NEW r \in ReservationIds,
                      Open(u)', Confirmed(r)',
                      Involves(reservation'[r], usage'[u].vehicle, usage'[u].driver),
                      ~SameCouple(reservation'[r], usage'[u].vehicle, usage'[u].driver),
                      SlotsOverlap(usage'[u].checkedOutAt, usage'[u].expectedReturnAt,
                                   reservation'[r].startAt, reservation'[r].endAt)
               PROVE FALSE
    BY DEF AnnouncedPeriodClear, SlotsOverlap
  <2> DEFINE V == usage'[u].vehicle  D == usage'[u].driver
  <2>1. /\ usage'[u] \in UsageRow /\ reservation'[r] \in ReservationRow
        /\ usage'[u].checkedOutAt \in Instants /\ usage'[u].expectedReturnAt \in Instants
        /\ reservation'[r].startAt \in Instants /\ reservation'[r].endAt \in Instants
    BY DEF TypeOK, Open, Confirmed, NoUsage, NoReservation, UsageRow, ReservationRow
  <2>2. SlotsOverlap(usage'[u].checkedOutAt, OccupancyEnd(usage'[u].expectedReturnAt),
                     reservation'[r].startAt, reservation'[r].endAt)
    BY <2>1, OccupancyCovers
  <2>3. usage'[u] = usage[u] /\ reservation'[r] = reservation[r] => FALSE
    BY DEF AnnouncedPeriodClear, Open, Confirmed
  <2>4. ASSUME NEW q \in ReservationIds, NEW v \in Vehicles, NEW d \in Drivers,
               NEW s \in Instants, NEW e \in Instants,
               Reserve(q, v, d, s, e) \/ Amend(q, v, d, s, e)
        PROVE  FALSE
    <3>1. usage' = usage
      BY <2>4 DEF Reserve, Amend
    <3>2. r = q
      BY <2>3, <2>4, <3>1 DEF Reserve, Amend, TypeOK
    <3>3. /\ reservation'[r].vehicle = v /\ reservation'[r].driver = d
          /\ reservation'[r].startAt = s /\ reservation'[r].endAt = e
      <4>1. CASE Reserve(q, v, d, s, e)
        BY <3>2, <4>1 DEF Reserve, TypeOK
      <4>2. CASE Amend(q, v, d, s, e)
        BY <3>2, <4>2, ConfirmedTyped DEF Amend, TypeOK, ReservationRow
      <4> QED BY <2>4, <4>1, <4>2
    <3>4. ~ReservationAllowed(v, d, s, e)
      BY <2>2, <3>1, <3>3 DEF ReservationAllowed, BusyDuring, Involves, Open
    <3>5. /\ Confirmed(r) /\ SameCouple(reservation[r], v, d)
          /\ s = reservation[r].startAt /\ ~(e > reservation[r].endAt)
      BY <2>4, <3>2, <3>4 DEF Reserve, Amend, Moves
    <3>6. reservation[r].endAt \in Instants
      BY <3>5, ConfirmedTyped DEF ReservationRow
    <3>7. SlotsOverlap(usage[u].checkedOutAt, usage[u].expectedReturnAt,
                       reservation[r].startAt, reservation[r].endAt)
      <4>1. SlotsOverlap(usage[u].checkedOutAt, usage[u].expectedReturnAt, s, e)
        BY <3>1, <3>3
      <4>2. usage[u].checkedOutAt \in Int /\ usage[u].expectedReturnAt \in Int
        BY <2>1, <3>1, InstantsAreIntegers
      <4>3. s \in Int /\ e \in Int /\ reservation[r].endAt \in Int
        BY <3>6, InstantsAreIntegers
      <4> QED BY <3>5, <4>1, <4>2, <4>3, LongerSlotOverlaps
    <3> QED BY <3>1, <3>3, <3>5, <3>7 DEF AnnouncedPeriodClear, Open, Involves, SameCouple
  <2>5. ASSUME Shrinks PROVE FALSE
    <3>1. Confirmed(r) /\ reservation'[r] = reservation[r]
      BY <2>5 DEF Shrinks
    <3>2. r \in ConflictingReservations(V, D, usage'[u].checkedOutAt,
                                        OccupancyEnd(usage'[u].expectedReturnAt))
      BY <2>1, <2>2, <3>1 DEF ConflictingReservations, SlotsOverlap
    <3>3. ASSUME NEW x \in UsageIds, NEW v \in Vehicles, NEW d \in Drivers,
                 NEW at \in Instants, NEW expected \in Instants,
                 Checkout(x, v, d, at, expected)
          PROVE  FALSE
      <4>1. x = u
        BY <2>3, <3>1, <3>3 DEF Checkout, TypeOK
      <4> QED BY <3>2, <3>3, <4>1 DEF Checkout, TypeOK
    <3>4. ASSUME NEW x \in UsageIds, NEW at \in Instants, Return(x, at) \/ Extend(x, at)
          PROVE  FALSE
      <4>1. x = u
        BY <2>3, <3>1, <3>4 DEF Return, Extend, TypeOK
      <4>2. usage[u] \in UsageRow
        BY <3>4, <4>1, OpenTyped DEF Return, Extend
      <4>3. CASE Return(x, at)
        BY <4>1, <4>2, <4>3 DEF Return, Open, UsageRow, TypeOK
      <4>4. CASE Extend(x, at)
        BY <3>2, <4>1, <4>2, <4>4 DEF Extend, UsageRow, TypeOK
      <4> QED BY <3>4, <4>3, <4>4
    <3>5. ASSUME usage' = usage PROVE FALSE
      BY <2>3, <3>1, <3>5
    <3> QED BY <3>3, <3>4, <3>5, UsageWriters
  <2> QED BY <2>4, <2>5, ReservationWriters
<1> QED BY <1>1, <1>2, TypeCorrect, PTL DEF Spec

----------------------------------------------------------------------------
(* Commitments *)

\* A return or an extension moves neither the couple nor the departure of any
\* usage, opens none and touches no party.
LEMMA UsageKeepsParties ==
  ASSUME TypeOK, NEW u \in UsageIds, NEW at \in Instants,
         Return(u, at) \/ Extend(u, at), NEW w \in UsageIds
  PROVE  /\ usage'[w] = NoUsage <=> usage[w] = NoUsage
         /\ usage[w] # NoUsage =>
              /\ usage'[w].vehicle = usage[w].vehicle /\ usage'[w].driver = usage[w].driver
              /\ usage'[w].checkedOutAt = usage[w].checkedOutAt
         /\ Open(w)' => Open(w)
         /\ UNCHANGED <<now, parties, reservation>>
<1>1. usage[u] # NoUsage /\ usage[u] \in UsageRow
  BY OpenTyped DEF Return, Extend
<1>2. CASE w = u
  BY <1>1, <1>2 DEF Return, Extend, Open, UsageRow, NoUsage, TypeOK
<1>3. CASE w # u
  BY <1>3 DEF Return, Extend, Open, TypeOK
<1> QED BY <1>2, <1>3

\* Settling reservations leaves every commitment it does not close in place.
LEMMA SettlingKeepsCommitments ==
  ASSUME CommitmentsFit, Shrinks, UNCHANGED <<now, parties, usage>>
  PROVE  CommitmentsFit'
BY DEF CommitmentsFit, CanHonour, Shrinks, Confirmed, Open, parties

\* The parties of open usages and of reservations to come stay fit for them.
THEOREM CommitmentsSafe == Spec => []CommitmentsFit
<1>1. Init => CommitmentsFit
  BY DEF Init, CommitmentsFit, Open, NoUsage, Confirmed, NoReservation
<1>2. TypeOK /\ TypeOK' /\ CommitmentsFit /\ [Next]_vars => CommitmentsFit'
  <2> SUFFICES ASSUME TypeOK, TypeOK', CommitmentsFit, [Next]_vars
               PROVE CommitmentsFit'
    OBVIOUS
  <2>1. ASSUME NEW u \in UsageIds, NEW v \in Vehicles, NEW d \in Drivers,
               NEW at \in Instants, NEW expected \in Instants,
               Checkout(u, v, d, at, expected)
        PROVE  CommitmentsFit'
    <3>1. Shrinks
      <4>1. PICK r \in ConversionChoices(v, d, at) :
              reservation' = IF r = Nobody THEN reservation
                             ELSE [reservation EXCEPT ![r].status = "CONVERTIE",
                                                      ![r].convertedUsage = u]
        BY <2>1 DEF Checkout
      <4> QED BY <4>1 DEF Shrinks, Confirmed, TypeOK
    <3>2. UNCHANGED <<now, parties>> /\ PartiesFit(v, d)
      BY <2>1 DEF Checkout, DepartureAllowed
    <3>3. ASSUME NEW w \in UsageIds, Open(w)'
          PROVE  CanHonour(usage[w].vehicle, usage[w].driver)'
      <4>1. CASE w = u
        BY <2>1, <3>2, <4>1 DEF Checkout, CanHonour, PartiesFit, Exited, parties, TypeOK
      <4>2. CASE w # u
        BY <2>1, <3>2, <3>3, <4>2 DEF Checkout, CommitmentsFit, CanHonour, Open, parties, TypeOK
      <4> QED BY <4>1, <4>2
    <3>4. ASSUME NEW r \in ReservationIds, Confirmed(r)', reservation'[r].endAt > now'
          PROVE  CanHonour(reservation[r].vehicle, reservation[r].driver)'
      BY <3>1, <3>2, <3>4 DEF Shrinks, CommitmentsFit, CanHonour, parties
    <3> QED BY <3>3, <3>4 DEF CommitmentsFit
  <2>2. ASSUME NEW u \in UsageIds, NEW at \in Instants, Return(u, at) \/ Extend(u, at)
        PROVE  CommitmentsFit'
    <3>1. UNCHANGED <<now, parties, reservation>>
      BY <2>2, UsageKeepsParties
    <3>2. ASSUME NEW w \in UsageIds, Open(w)'
          PROVE  CanHonour(usage[w].vehicle, usage[w].driver)'
      <4>1. /\ Open(w) /\ usage[w] # NoUsage
            /\ usage'[w].vehicle = usage[w].vehicle /\ usage'[w].driver = usage[w].driver
        BY <2>2, <3>2, UsageKeepsParties, OpenTyped
      <4> QED BY <3>1, <4>1 DEF CommitmentsFit, CanHonour, parties
    <3> QED BY <3>1, <3>2 DEF CommitmentsFit, CanHonour, Confirmed, parties
  <2>3. ASSUME NEW q \in ReservationIds, NEW v \in Vehicles, NEW d \in Drivers,
               NEW s \in Instants, NEW e \in Instants,
               Reserve(q, v, d, s, e) \/ Amend(q, v, d, s, e)
        PROVE  CommitmentsFit'
    <3>1. UNCHANGED <<now, parties, usage>>
      BY <2>3 DEF Reserve, Amend
    <3>2. e > now
      BY <2>3 DEF Reserve, Amend, ValidSlot
    <3>3. CanHonour(v, d)
      <4>1. CASE ReservationAllowed(v, d, s, e)
        BY <4>1 DEF ReservationAllowed, PartiesFit, CanHonour, Exited
      <4>2. CASE ~ReservationAllowed(v, d, s, e)
        <5>1. /\ Confirmed(q) /\ SameCouple(reservation[q], v, d)
              /\ ~(e > reservation[q].endAt)
          BY <2>3, <4>2 DEF Reserve, Amend, Moves
        <5>2. reservation[q].endAt \in Int /\ e \in Int /\ now \in Int
          BY <5>1, ConfirmedTyped, InstantsAreIntegers DEF ReservationRow, TypeOK
        <5>3. reservation[q].endAt > now
          BY <3>2, <5>1, <5>2
        <5> QED BY <5>1, <5>3 DEF CommitmentsFit, SameCouple
      <4> QED BY <4>1, <4>2
    <3>4. reservation'[q].vehicle = v /\ reservation'[q].driver = d
      <4>1. CASE Reserve(q, v, d, s, e)
        BY <4>1 DEF Reserve, TypeOK
      <4>2. CASE Amend(q, v, d, s, e)
        BY <4>2, ConfirmedTyped DEF Amend, TypeOK, ReservationRow
      <4> QED BY <2>3, <4>1, <4>2
    <3>5. ASSUME NEW r \in ReservationIds, Confirmed(r)', reservation'[r].endAt > now'
          PROVE  CanHonour(reservation[r].vehicle, reservation[r].driver)'
      <4>1. CASE r = q
        BY <3>1, <3>3, <3>4, <4>1 DEF CanHonour, parties
      <4>2. CASE r # q
        <5>1. reservation'[r] = reservation[r]
          BY <2>3, <4>2 DEF Reserve, Amend, TypeOK
        <5> QED BY <3>1, <3>5, <5>1 DEF CommitmentsFit, CanHonour, Confirmed, parties
      <4> QED BY <4>1, <4>2
    <3> QED BY <3>1, <3>5 DEF CommitmentsFit, CanHonour, Open, parties
  <2>4. ASSUME NEW r \in ReservationIds, Cancel(r) \/ NoShow(r) \/ Expire(r)
        PROVE  CommitmentsFit'
    <3>1. PICK s \in {"ANNULEE", "NON_HONOREE"} : Close(r, s)
      BY <2>4 DEF Cancel, NoShow, Expire
    <3>2. Shrinks
      BY <3>1 DEF Close, Shrinks, Confirmed, TypeOK
    <3> QED BY <3>1, <3>2, SettlingKeepsCommitments DEF Close
  <2>5. ASSUME NEW v \in Vehicles, NEW target \in Targets, ChangeLifecycle(v, target)
        PROVE  CommitmentsFit'
    BY <2>5 DEF ChangeLifecycle, CommitmentsFit, CanHonour, InUse, FutureReservations,
                Open, Confirmed, TypeOK
  <2>6. ASSUME NEW v \in Vehicles, NEW target \in Companies, Transfer(v, target)
        PROVE  CommitmentsFit'
    BY <2>6 DEF Transfer, CommitmentsFit, CanHonour, InUse, FutureReservations,
                Open, Confirmed, TypeOK
  <2>7. ASSUME NEW d \in Drivers, Deactivate(d) PROVE CommitmentsFit'
    <3>1. UNCHANGED <<now, lifecycle, company, usage>>
      BY <2>7 DEF Deactivate
    <3>2. \A x \in Drivers : x # d => driverStatus'[x] = driverStatus[x]
      BY <2>7 DEF Deactivate, TypeOK
    <3>3. ASSUME NEW w \in UsageIds, Open(w)'
          PROVE  CanHonour(usage[w].vehicle, usage[w].driver)'
      <4>1. Open(w) /\ usage[w].driver \in Drivers /\ usage[w].driver # d
        BY <2>7, <3>1, <3>3, OpenTyped DEF Deactivate, Open, UsageRow
      <4> QED BY <3>1, <3>2, <4>1 DEF CommitmentsFit, CanHonour
    <3>4. ASSUME NEW r \in ReservationIds, Confirmed(r)', reservation'[r].endAt > now'
          PROVE  CanHonour(reservation[r].vehicle, reservation[r].driver)'
      <4>1. reservation[r] \in ReservationRow \cup {NoReservation}
        BY DEF TypeOK
      <4>2. [reservation[r] EXCEPT !.status = "ANNULEE"].status = "ANNULEE"
        BY <4>1 DEF ReservationRow, NoReservation
      <4>3. Confirmed(r) /\ reservation'[r] = reservation[r]
        BY <2>7, <3>4, <4>2 DEF Deactivate, Confirmed
      <4>4. reservation[r].driver # d
        BY <2>7, <3>1, <3>4, <4>2, <4>3 DEF Deactivate, Confirmed
      <4>5. reservation[r].driver \in Drivers
        BY <4>3, ConfirmedTyped DEF ReservationRow
      <4> QED BY <3>1, <3>2, <3>4, <4>3, <4>4, <4>5 DEF CommitmentsFit, CanHonour
    <3> QED BY <3>3, <3>4 DEF CommitmentsFit
  <2>8. ASSUME NEW d \in Drivers, Reactivate(d) PROVE CommitmentsFit'
    BY <2>8 DEF Reactivate, CommitmentsFit, CanHonour, Open, Confirmed, TypeOK
  <2>9. CASE ImmobilizationStep \/ UNCHANGED vars
    <3>1. UNCHANGED <<now, parties, usage, reservation>>
      BY <2>9 DEF ImmobilizationStep, RequestImmobilization, OpenCause,
         UpdateImmobilization, EndImmobilization, vars
    <3> QED BY <3>1, SettlingKeepsCommitments DEF Shrinks, Confirmed
  <2>10. ASSUME Tick PROVE CommitmentsFit'
    <3>1. UNCHANGED <<parties, usage, reservation>> /\ now' = now + 1
      BY <2>10 DEF Tick
    <3>2. ASSUME NEW r \in ReservationIds, Confirmed(r), reservation[r].endAt > now'
          PROVE  reservation[r].endAt > now
      <4>1. reservation[r].endAt \in Int /\ now \in Int
        BY <3>2, ConfirmedTyped, InstantsAreIntegers DEF ReservationRow, TypeOK
      <4> QED BY <3>1, <3>2, <4>1
    <3> QED BY <3>1, <3>2 DEF CommitmentsFit, CanHonour, Open, Confirmed, parties
  <2> QED
    <3>1. \A p \in Periods : p[1] \in Instants /\ p[2] \in Instants
      OBVIOUS
    <3>2. ReservationStep => CommitmentsFit'
      BY <2>3, <2>4, <3>1, Zenon DEF ReservationStep
    <3> QED
      BY <2>1, <2>2, <3>2, <2>5, <2>6, <2>7, <2>8, <2>9, <2>10
         DEF Next, UsageStep, PartyStep
<1> QED BY <1>1, <1>2, TypeCorrect, PTL DEF Spec

----------------------------------------------------------------------------
(* Conversions *)

Faithful(r) ==
  reservation[r].status = "CONVERTIE" =>
    LET u == reservation[r].convertedUsage IN
    /\ u \in UsageIds
    /\ usage[u] # NoUsage
    /\ SameCouple(usage[u], reservation[r].vehicle, reservation[r].driver)
    /\ InConversionWindow(r, usage[u].checkedOutAt)

\* The reservations converted after a step are the rows that were.
ConvertsNothing ==
  \A r \in ReservationIds :
    reservation'[r].status = "CONVERTIE" => reservation'[r] = reservation[r]

\* A step that converts nothing, and keeps the parties of each usage, keeps conversions faithful.
LEMMA FaithfulKept ==
  ASSUME TypeOK, ConversionsFaithful, ConvertsNothing,
         \A w \in UsageIds : usage[w] # NoUsage =>
           /\ usage'[w] # NoUsage
           /\ usage'[w].vehicle = usage[w].vehicle /\ usage'[w].driver = usage[w].driver
           /\ usage'[w].checkedOutAt = usage[w].checkedOutAt
  PROVE  ConversionsFaithful'
BY DEF ConversionsFaithful, ConvertsNothing, SameCouple, InConversionWindow

\* A conversion stays tied to a departure of its couple, inside its window.
THEOREM ConversionsSafe == Spec => []ConversionsFaithful
<1>1. Init => ConversionsFaithful
  BY DEF Init, ConversionsFaithful, NoReservation
<1>2. TypeOK /\ ConversionsFaithful /\ [Next]_vars => ConversionsFaithful'
  <2> SUFFICES ASSUME TypeOK, ConversionsFaithful, [Next]_vars
               PROVE ConversionsFaithful'
    OBVIOUS
  <2>1. ASSUME NEW u \in UsageIds, NEW v \in Vehicles, NEW d \in Drivers,
               NEW at \in Instants, NEW expected \in Instants,
               Checkout(u, v, d, at, expected)
        PROVE  ConversionsFaithful'
    <3>1. PICK q \in ConversionChoices(v, d, at) :
            reservation' = IF q = Nobody THEN reservation
                           ELSE [reservation EXCEPT ![q].status = "CONVERTIE",
                                                    ![q].convertedUsage = u]
      BY <2>1 DEF Checkout
    <3>2. /\ usage[u] = NoUsage
          /\ usage'[u] = [status |-> "EN_COURS", vehicle |-> v, driver |-> d,
                           checkedOutAt |-> at, expectedReturnAt |-> expected,
                           returnedAt |-> NotSet]
          /\ \A w \in UsageIds : w # u => usage'[w] = usage[w]
      BY <2>1 DEF Checkout, TypeOK
    <3>3. usage'[u] # NoUsage
      BY <3>2 DEF NoUsage
    <3>4. ASSUME NEW r \in ReservationIds, reservation'[r].status = "CONVERTIE"
          PROVE  Faithful(r)'
      <4>1. CASE r = q /\ q # Nobody
        <5>1. /\ Confirmed(r) /\ SameCouple(reservation[r], v, d)
              /\ InConversionWindow(r, at) /\ reservation[r] \in ReservationRow
          BY <3>1, <4>1, ConfirmedTyped DEF ConversionChoices, Convertible
        <5>2. reservation'[r] = [reservation[r] EXCEPT !.status = "CONVERTIE",
                                                       !.convertedUsage = u]
          BY <3>1, <4>1 DEF TypeOK
        <5>3. /\ reservation'[r].convertedUsage = u
              /\ reservation'[r].vehicle = v /\ reservation'[r].driver = d
              /\ reservation'[r].startAt = reservation[r].startAt
              /\ reservation'[r].endAt = reservation[r].endAt
          BY <5>1, <5>2 DEF ReservationRow, SameCouple
        <5> QED BY <3>2, <3>3, <5>1, <5>3 DEF Faithful, SameCouple, InConversionWindow
      <4>2. CASE ~(r = q /\ q # Nobody)
        <5>1. reservation'[r] = reservation[r]
          BY <3>1, <4>2 DEF TypeOK
        <5>2. Faithful(r)
          BY DEF ConversionsFaithful, Faithful
        <5>3. reservation[r].convertedUsage # u
          BY <3>2, <3>4, <5>1, <5>2 DEF Faithful
        <5> QED BY <3>2, <3>4, <5>1, <5>2, <5>3 DEF Faithful, InConversionWindow
      <4> QED BY <4>1, <4>2
    <3> QED BY <3>4 DEF ConversionsFaithful, Faithful
  <2>2. ASSUME NEW u \in UsageIds, NEW at \in Instants, Return(u, at) \/ Extend(u, at)
        PROVE  ConversionsFaithful'
    BY <2>2, UsageKeepsParties, FaithfulKept DEF ConvertsNothing, Return, Extend
  <2>3. ConvertsNothing /\ usage' = usage => ConversionsFaithful'
    BY FaithfulKept
  <2>4. ASSUME NEW r \in ReservationIds, NEW v, NEW d, NEW s, NEW e,
               Reserve(r, v, d, s, e) \/ Amend(r, v, d, s, e)
        PROVE  ConvertsNothing /\ usage' = usage
    <3>1. reservation'[r].status = "CONFIRMEE"
      <4>1. CASE Reserve(r, v, d, s, e)
        BY <4>1 DEF Reserve, TypeOK
      <4>2. CASE Amend(r, v, d, s, e)
        BY <4>2, ConfirmedTyped DEF Amend, Confirmed, ReservationRow, TypeOK
      <4> QED BY <2>4, <4>1, <4>2
    <3>2. \A q \in ReservationIds : q # r => reservation'[q] = reservation[q]
      BY <2>4 DEF Reserve, Amend, TypeOK
    <3> QED BY <2>4, <3>1, <3>2 DEF ConvertsNothing, Reserve, Amend
  <2>5. ASSUME NEW r \in ReservationIds, Cancel(r) \/ NoShow(r) \/ Expire(r)
        PROVE  ConvertsNothing /\ usage' = usage
    <3>1. PICK s \in {"ANNULEE", "NON_HONOREE"} : Close(r, s)
      BY <2>5 DEF Cancel, NoShow, Expire
    <3>2. reservation[r] \in ReservationRow
      BY <3>1, ConfirmedTyped DEF Close
    <3> QED BY <3>1, <3>2 DEF Close, ConvertsNothing, ReservationRow, TypeOK
  <2>6. PartyStep => ConvertsNothing /\ usage' = usage
    <3>1. ASSUME NEW d \in Drivers, Deactivate(d) PROVE ConvertsNothing /\ usage' = usage
      <4>1. \A r \in ReservationIds : [reservation[r] EXCEPT !.status = "ANNULEE"].status = "ANNULEE"
        BY DEF TypeOK, ReservationRow, NoReservation
      <4> QED BY <3>1, <4>1 DEF Deactivate, ConvertsNothing
    <3>2. reservation' = reservation => ConvertsNothing
      BY DEF ConvertsNothing
    <3> QED BY <3>1, <3>2 DEF PartyStep, ChangeLifecycle, Transfer, Reactivate
  <2>7. ImmobilizationStep \/ Tick \/ UNCHANGED vars => ConvertsNothing /\ usage' = usage
    BY DEF ImmobilizationStep, RequestImmobilization, OpenCause,
         UpdateImmobilization, EndImmobilization, Tick,
           vars, ConvertsNothing
  <2> QED
    <3>1. ReservationStep => ConvertsNothing /\ usage' = usage
      BY <2>4, <2>5, Zenon DEF ReservationStep
    <3> QED BY <2>1, <2>2, <2>3, <2>6, <2>7, <3>1 DEF Next, UsageStep
<1> QED BY <1>1, <1>2, TypeCorrect, PTL DEF Spec

============================================================================
