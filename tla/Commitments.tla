---------------------------- MODULE Commitments ----------------------------
(***************************************************************************)
(* What the fleet promises, without time: an abstract, atomic             *)
(* specification of the operations that tie vehicles to drivers.  Each of  *)
(* them reads the whole database and writes it in one step.                *)
(*                                                                         *)
(* The slots of Occupation are reduced to one: two usages or reservations  *)
(* of the same vehicle, or of the same driver, always meet; a vehicle that *)
(* is ceded, archived or transferred to another company "exits", and       *)
(* "restore" brings it back.  OccupationTx shows that the transactions of  *)
(* the code implement these steps.                                         *)
(***************************************************************************)
EXTENDS FiniteSets

CONSTANTS Vehicles, Drivers

Couples == Vehicles \X Drivers

CoupleKinds == {"depart", "return", "reserve", "cancel"}
VehicleKinds == {"exit", "restore", "immobilize", "release"}
DriverKinds == {"deactivate", "reactivate"}
Kinds == CoupleKinds \cup VehicleKinds \cup DriverKinds

\* A request names a vehicle, a driver or both.
Ops == [kind : CoupleKinds, v : Vehicles, d : Drivers]
         \cup [kind : VehicleKinds, v : Vehicles] \cup [kind : DriverKinds, d : Drivers]

VARIABLE db

Database ==
  [inFleet : SUBSET Vehicles,       \* ACTIF, in the company of the drivers
   active : SUBSET Drivers,         \* Driver.status = ACTIF
   usages : SUBSET Couples,         \* VehicleUsage rows EN_COURS
   reservations : SUBSET Couples,   \* Reservation rows CONFIRMEE
   immobilized : SUBSET Vehicles]   \* ACTIVE Immobilization rows

Empty ==
  [inFleet |-> Vehicles, active |-> Drivers, usages |-> {}, reservations |-> {},
   immobilized |-> {}]

----------------------------------------------------------------------------

\* The vehicle and the driver that a request names, and the couples they are in.
Concerned(op) == {op[field] : field \in DOMAIN op \ {"kind"}}
Of(couples, op) == {c \in couples : c[1] \in Concerned(op) \/ c[2] \in Concerned(op)}
Couple(op) == <<op.v, op.d>>

\* Nothing under way or promised on the vehicle: assertNoOpenOperations, and
\* the blockers of a transfer.
Free(s, op) == Of(s.usages, op) = {} /\ Of(s.reservations, op) = {} /\ op.v \notin s.immobilized

PartiesFit(s, op) == op.v \in s.inFleet /\ op.d \in s.active

\* When the state s lets the operation through; immobilizations, which a
\* departure and a reservation look at too, are left to OccupationTx.
Allowed(op, s) ==
  CASE op.kind = "depart" ->
         /\ PartiesFit(s, op) /\ Of(s.usages, op) = {}
         /\ Of(s.reservations, op) \subseteq {Couple(op)}
    [] op.kind = "return" -> Couple(op) \in s.usages
    [] op.kind = "reserve" ->
         PartiesFit(s, op) /\ Of(s.usages, op) = {} /\ Of(s.reservations, op) = {}
    [] op.kind = "cancel" -> Couple(op) \in s.reservations
    [] op.kind = "exit" -> op.v \in s.inFleet /\ Free(s, op)
    [] op.kind = "restore" -> op.v \notin s.inFleet
    [] op.kind = "deactivate" -> op.d \in s.active /\ Of(s.usages, op) = {}
    [] op.kind = "reactivate" -> op.d \notin s.active
    [] op.kind = "immobilize" -> TRUE
    [] op.kind = "release" -> op.v \in s.immobilized

\* What the operation, having decided on `seen`, makes of the state s.
Effect(op, seen, s) ==
  CASE op.kind = "depart" -> [s EXCEPT !.usages = @ \cup {Couple(op)},
                                       !.reservations = @ \ {Couple(op)}]
    [] op.kind = "return" -> [s EXCEPT !.usages = @ \ {Couple(op)}]
    [] op.kind = "reserve" -> [s EXCEPT !.reservations = @ \cup {Couple(op)}]
    [] op.kind = "cancel" -> [s EXCEPT !.reservations = @ \ {Couple(op)}]
    [] op.kind = "exit" -> [s EXCEPT !.inFleet = @ \ {op.v}]
    [] op.kind = "restore" -> [s EXCEPT !.inFleet = @ \cup {op.v}]
    [] op.kind = "deactivate" ->
         [s EXCEPT !.active = @ \ {op.d},
                   !.reservations = @ \ Of(seen.reservations, op)]
    [] op.kind = "reactivate" -> [s EXCEPT !.active = @ \cup {op.d}]
    [] op.kind = "immobilize" -> [s EXCEPT !.immobilized = @ \cup {op.v}]
    [] op.kind = "release" -> [s EXCEPT !.immobilized = @ \ {op.v}]

----------------------------------------------------------------------------

AtomicInit == db = Empty

Perform(op) == Allowed(op, db) /\ db' = Effect(op, db, db)

AtomicNext == \E op \in Ops : Perform(op)

AtomicSpec == AtomicInit /\ [][AtomicNext]_db

----------------------------------------------------------------------------

\* Every promise can be honoured: its vehicle is in the fleet, its driver is
\* active, and nobody else holds a promise on either of them.
Honoured(couples, s) ==
  \A c \in couples :
    /\ c[1] \in s.inFleet /\ c[2] \in s.active
    /\ \A b \in s.usages \cup s.reservations : (b[1] = c[1] \/ b[2] = c[2]) => b = c

\* Whatever the interleaving, nobody else's promise shares the vehicle or the
\* driver of an open usage or of a confirmed reservation, and its parties are
\* fit (D-016: "le resultat est celui d'une execution en serie").
PromisesHonoured == Honoured(db.usages \cup db.reservations, db)

============================================================================
