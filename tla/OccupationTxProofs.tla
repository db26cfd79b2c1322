------------------------- MODULE OccupationTxProofs -------------------------
(***************************************************************************)
(* The transactions of OccupationTx implement the atomic operations of     *)
(* Commitments, for any fleet, any drivers and any number of requests at   *)
(* the same time.                                                          *)
(*                                                                         *)
(* First, one operation after the other, every promise stays honoured      *)
(* (IInv).  Then the locks: a request that still locks holds rows that     *)
(* come before the one it wants, one that has decided keeps what it        *)
(* decided on (TxInv).  Last, what a request has read is still true where  *)
(* its decision depends on it, by a lock, by the version of a locked row   *)
(* or by its rivals (ViewInv): a commit is the atomic operation.           *)
(***************************************************************************)
EXTENDS OccupationTx, TLAPS

----------------------------------------------------------------------------
(* One operation after the other *)

\* The database keeps its type: its usages and reservations are couples.
DatabaseOK == db \in Database

IInv == DatabaseOK /\ PromisesHonoured

\* The empty database satisfies the invariant.
LEMMA InitIInv == AtomicInit => IInv
  BY DEF AtomicInit, Empty, IInv, DatabaseOK, Database, PromisesHonoured, Honoured

\* What an operation names, when it names it.
LEMMA OpParties ==
  ASSUME NEW op \in Ops
  PROVE  /\ op.kind \in CoupleKinds => op.v \in Vehicles /\ op.d \in Drivers /\ Concerned(op) = {op.v, op.d}
         /\ op.kind \in VehicleKinds => op.v \in Vehicles /\ Concerned(op) = {op.v}
         /\ op.kind \in DriverKinds => op.d \in Drivers /\ Concerned(op) = {op.d}
         /\ op.kind \in Kinds
<1> USE DEF CoupleKinds, VehicleKinds, DriverKinds, Kinds, Ops, Concerned
<1>1. CASE op \in [kind : CoupleKinds, v : Vehicles, d : Drivers]
  BY <1>1
<1>2. CASE op \in [kind : VehicleKinds, v : Vehicles]
  BY <1>2
<1>3. CASE op \in [kind : DriverKinds, d : Drivers]
  BY <1>3
<1> QED
  BY <1>1, <1>2, <1>3

\* One operation keeps the promises: an operation that makes one has found both
\* parties fit and free, one that takes a party away has found it free (or
\* cancels what it held).
LEMMA PerformKeeps == ASSUME IInv, NEW op \in Ops, Perform(op) PROVE IInv'
<1> USE DEF IInv, DatabaseOK, PromisesHonoured, Honoured, Perform, Allowed, Effect
<1>1. CASE op.kind = "depart"
  <2>1. Couple(op) \in Couples /\ Couple(op)[1] = op.v /\ Couple(op)[2] = op.d
    BY <1>1, OpParties DEF CoupleKinds, Couple, Couples
  <2>2. /\ op.v \in db.inFleet /\ op.d \in db.active
        /\ \A c \in db.usages : c[1] # op.v /\ c[2] # op.d
        /\ \A c \in db.reservations : c[1] = op.v \/ c[2] = op.d => c = Couple(op)
    BY <1>1, OpParties DEF CoupleKinds, PartiesFit, Of
  <2>3. db' = [db EXCEPT !.usages = @ \cup {Couple(op)}, !.reservations = @ \ {Couple(op)}]
    BY <1>1
  <2>4. /\ db'.usages = db.usages \cup {Couple(op)}
        /\ db'.reservations = db.reservations \ {Couple(op)}
        /\ db'.inFleet = db.inFleet /\ db'.active = db.active
    BY <2>3 DEF Database
  <2> HIDE DEF Allowed, Effect, Perform
  <2>5. DatabaseOK'
    BY <2>1, <2>3 DEF Database
  <2>6. PromisesHonoured'
    BY <2>1, <2>2, <2>4
  <2> QED
    BY <2>5, <2>6
<1>2. CASE op.kind = "return"
  <2>1. DatabaseOK'
    BY <1>2, OpParties DEF CoupleKinds, VehicleKinds, DriverKinds, Database, Couple, Couples
  <2>2. PromisesHonoured'
    BY <1>2, OpParties DEF CoupleKinds, VehicleKinds, DriverKinds, Database, Couple, Couples
  <2> QED
    BY <2>1, <2>2
<1>3. CASE op.kind = "reserve"
  <2>1. DatabaseOK'
    BY <1>3, OpParties DEF CoupleKinds, VehicleKinds, DriverKinds, Database, PartiesFit, Couple, Couples, Of
  <2>2. PromisesHonoured'
    BY <1>3, OpParties DEF CoupleKinds, VehicleKinds, DriverKinds, Database, PartiesFit, Couple, Couples, Of
  <2> QED
    BY <2>1, <2>2
<1>4. CASE op.kind = "cancel"
  <2>1. DatabaseOK'
    BY <1>4, OpParties DEF CoupleKinds, VehicleKinds, DriverKinds, Database, Couple, Couples
  <2>2. PromisesHonoured'
    BY <1>4, OpParties DEF CoupleKinds, VehicleKinds, DriverKinds, Database, Couple, Couples
  <2> QED
    BY <2>1, <2>2
<1>5. CASE op.kind = "exit"
  <2>1. DatabaseOK'
    BY <1>5, OpParties DEF CoupleKinds, VehicleKinds, DriverKinds, Database, Free, Of
  <2>2. PromisesHonoured'
    BY <1>5, OpParties DEF CoupleKinds, VehicleKinds, DriverKinds, Database, Free, Of
  <2> QED
    BY <2>1, <2>2
<1>6. CASE op.kind = "restore"
  <2>1. DatabaseOK'
    BY <1>6, OpParties DEF CoupleKinds, VehicleKinds, DriverKinds, Database
  <2>2. PromisesHonoured'
    BY <1>6, OpParties DEF CoupleKinds, VehicleKinds, DriverKinds, Database
  <2> QED
    BY <2>1, <2>2
<1>7. CASE op.kind = "immobilize"
  <2>1. DatabaseOK'
    BY <1>7, OpParties DEF CoupleKinds, VehicleKinds, DriverKinds, Database
  <2>2. PromisesHonoured'
    BY <1>7, OpParties DEF CoupleKinds, VehicleKinds, DriverKinds, Database
  <2> QED
    BY <2>1, <2>2
<1>8. CASE op.kind = "release"
  <2>1. DatabaseOK'
    BY <1>8, OpParties DEF CoupleKinds, VehicleKinds, DriverKinds, Database
  <2>2. PromisesHonoured'
    BY <1>8, OpParties DEF CoupleKinds, VehicleKinds, DriverKinds, Database
  <2> QED
    BY <2>1, <2>2
<1>9. CASE op.kind = "deactivate"
  <2>1. /\ \A c \in db.usages : c[2] # op.d
        /\ \A c \in db.reservations : c[2] = op.d => c \in Of(db.reservations, op)
    BY <1>9, OpParties DEF DriverKinds, Of
  <2>2. db' = [db EXCEPT !.active = @ \ {op.d}, !.reservations = @ \ Of(db.reservations, op)]
    BY <1>9
  <2>3. /\ db'.usages = db.usages /\ db'.inFleet = db.inFleet
        /\ db'.reservations = db.reservations \ Of(db.reservations, op)
        /\ db'.active = db.active \ {op.d}
    BY <2>2 DEF Database
  <2>4. DatabaseOK'
    BY <2>2, ZenonT(60) DEF Database
  <2>5. PromisesHonoured'
    BY <2>1, <2>3
  <2> QED
    BY <2>4, <2>5
<1>10. CASE op.kind = "reactivate"
  <2>1. DatabaseOK'
    BY <1>10, OpParties DEF CoupleKinds, VehicleKinds, DriverKinds, Database
  <2>2. PromisesHonoured'
    BY <1>10, OpParties DEF CoupleKinds, VehicleKinds, DriverKinds, Database
  <2> QED
    BY <2>1, <2>2
<1> QED
  BY <1>1, <1>2, <1>3, <1>4, <1>5, <1>6, <1>7, <1>8, <1>9, <1>10, OpParties DEF Kinds, CoupleKinds, VehicleKinds, DriverKinds

\* One operation on the database keeps the invariant.
LEMMA StepIInv == IInv /\ [AtomicNext]_db => IInv'
<1> SUFFICES ASSUME IInv, [AtomicNext]_db PROVE IInv'
  OBVIOUS
<1>1. CASE UNCHANGED db
  BY <1>1 DEF IInv, DatabaseOK, PromisesHonoured, Honoured
<1>2. CASE AtomicNext
  BY <1>2, PerformKeeps DEF AtomicNext
<1> QED
  BY <1>1, <1>2

\* One request after the other, every open usage and every confirmed reservation
\* has a vehicle of the fleet and an active driver, and shares neither with
\* another (departure-checks, reservations and lifecycle services).
THEOREM PromisesSafe == AtomicSpec => []PromisesHonoured
<1>1. IInv => PromisesHonoured
  BY DEF IInv
<1> QED
  BY <1>1, InitIInv, StepIInv, PTL DEF AtomicSpec

----------------------------------------------------------------------------
(* The locks *)

Asking == \A r \in Requests : pc[r] # "idle" => asked[r] \in Ops

IdleHoldsNothing == \A r \in Requests : pc[r] = "idle" => \A x \in Rows : holder[x] # r

\* The rows that an operation locks before its checks.
Lockable(op) ==
  CASE op.kind = "depart" -> {op.v, op.d, Couple(op)}
    [] op.kind \in {"return", "reserve"} -> {op.v, op.d}
    [] op.kind \in VehicleKinds -> {op.v}
    [] op.kind \in DriverKinds -> {op.d}
    [] op.kind = "cancel" -> {Couple(op)}

\* They are locked in order: the driver after the vehicle, the reservation last.
LocksInOrder ==
  \A r \in Requests : pc[r] = "locking" =>
    /\ \A x \in Rows : holder[x] = r => x \in Lockable(asked[r])
    /\ asked[r].kind \in {"depart", "return", "reserve"} =>
         (holder[asked[r].d] = r => holder[asked[r].v] = r)
    /\ asked[r].kind = "depart" =>
         (holder[Couple(asked[r])] = r => holder[asked[r].d] = r)

\* A decided departure or immobilization still holds its vehicle.
DecidedUnderLock ==
  \A r \in Requests : pc[r] = "decided" =>
    /\ asked[r].kind \in {"depart", "immobilize"} => holder[asked[r].v] = r
    /\ asked[r].kind = "depart" => asked[r].v \notin db.immobilized

TxInv == TypeOK /\ Asking /\ IdleHoldsNothing /\ LocksInOrder /\ DecidedUnderLock

----------------------------------------------------------------------------
(* What operations name and change *)

\* What an operation names: a vehicle, a driver or both, and the rows it may lock.
LEMMA Party ==
  ASSUME NEW op \in Ops
  PROVE  /\ op.kind \in Kinds
         /\ op.kind \in CoupleKinds =>
              /\ op.v \in Vehicles /\ op.d \in Drivers /\ Couple(op) \in Couples
              /\ Couple(op)[1] = op.v
         /\ op.kind \in VehicleKinds => op.v \in Vehicles
         /\ op.kind \in DriverKinds => op.d \in Drivers
         /\ Lockable(op) \subseteq Rows
<1>1. op.kind \in CoupleKinds =>
        Couple(op) \in Couples /\ Couple(op)[1] = op.v
  BY OpParties DEF Couple, Couples
<1>2. Lockable(op) \subseteq Rows
  BY <1>1, OpParties DEF Lockable, Rows, Kinds, CoupleKinds, VehicleKinds, DriverKinds
<1> QED
  BY <1>1, <1>2, OpParties

\* The rows each kind of operation locks.
LEMMA LockableSets ==
  ASSUME NEW op
  PROVE  /\ op.kind = "depart" => Lockable(op) = {op.v, op.d, Couple(op)}
         /\ op.kind \in {"return", "reserve"} => Lockable(op) = {op.v, op.d}
         /\ op.kind \in VehicleKinds =>
              Lockable(op) = {op.v} /\ op.kind \notin {"depart", "return", "reserve"}
         /\ op.kind \in DriverKinds =>
              Lockable(op) = {op.d} /\ op.kind \notin {"depart", "return", "reserve"}
         /\ op.kind = "cancel" => Lockable(op) = {Couple(op)}
BY DEF Lockable, VehicleKinds, DriverKinds

\* The types of the fields of a database.
LEMMA Fields ==
  ASSUME NEW s \in Database
  PROVE  /\ s.inFleet \subseteq Vehicles /\ s.active \subseteq Drivers
         /\ s.usages \subseteq Couples /\ s.reservations \subseteq Couples
         /\ s.immobilized \subseteq Vehicles
BY DEF Database

\* What a request reads is a database.
LEMMA SnapshotType ==
  ASSUME NEW s \in Database, NEW op PROVE Snapshot(op, s) \in Database
BY Fields DEF Snapshot, Database, Of

\* The initial database is one.
LEMMA EmptyType == Empty \in Database
BY DEF Empty, Database

\* What a request decides on is a database.
LEMMA ViewType ==
  ASSUME TypeOK, NEW r \in Requests
  PROVE  View(r) \in Database
<1>1. db \in Database /\ seen[r] \in Database
  BY DEF TypeOK
<1>2. Snapshot(asked[r], db) \in Database
  BY <1>1, SnapshotType
<1>3. Of(db.reservations, asked[r]) \subseteq Couples
  BY <1>1, Fields DEF Of
<1>4. [seen[r] EXCEPT !.reservations = Of(db.reservations, asked[r])] \in Database
  BY <1>1, <1>3 DEF Database
<1> QED
  BY <1>1, <1>2, <1>4 DEF View

\* Only a departure adds a usage, only an immobilization immobilizes.
LEMMA EffectAdds ==
  ASSUME NEW op \in Ops, NEW old \in Database, NEW s \in Database
  PROVE  /\ Effect(op, old, s) \in Database
         /\ \A c \in Effect(op, old, s).usages \ s.usages :
              op.kind = "depart" /\ c = Couple(op)
         /\ \A v \in Effect(op, old, s).immobilized \ s.immobilized :
              op.kind = "immobilize" /\ v = op.v
<1> DEFINE e == Effect(op, old, s)
<1>1. CASE op.kind = "depart"
  <2>1. e = [s EXCEPT !.usages = @ \cup {Couple(op)}, !.reservations = @ \ {Couple(op)}]
    BY <1>1 DEF Effect
  <2>2. Couple(op) \in Couples
    BY <1>1, Party DEF CoupleKinds
  <2> HIDE DEF e
  <2>3. e \in Database /\ e.usages = s.usages \cup {Couple(op)} /\ e.immobilized = s.immobilized
    BY <2>1, <2>2 DEF Database
  <2> QED
    BY <1>1, <2>3 DEF e
<1>2. CASE op.kind = "return"
  <2>1. e = [s EXCEPT !.usages = @ \ {Couple(op)}]
    BY <1>2 DEF Effect
  <2> HIDE DEF e
  <2>2. /\ e \in Database /\ e.usages = s.usages \ {Couple(op)} /\ e.immobilized = s.immobilized
    BY <2>1 DEF Database
  <2> QED
    BY <2>2 DEF e
<1>3. CASE op.kind = "reserve"
  <2>1. e = [s EXCEPT !.reservations = @ \cup {Couple(op)}]
    BY <1>3 DEF Effect
  <2>2. Couple(op) \in Couples
    BY <1>3, Party DEF CoupleKinds
  <2> HIDE DEF e
  <2>3. e \in Database /\ e.usages = s.usages /\ e.immobilized = s.immobilized
    BY <2>1, <2>2 DEF Database
  <2> QED
    BY <2>3 DEF e
<1>4. CASE op.kind = "cancel"
  <2>1. e = [s EXCEPT !.reservations = @ \ {Couple(op)}]
    BY <1>4 DEF Effect
  <2> HIDE DEF e
  <2>2. e \in Database /\ e.usages = s.usages /\ e.immobilized = s.immobilized
    BY <2>1 DEF Database
  <2> QED
    BY <2>2 DEF e
<1>5. CASE op.kind \in {"exit", "restore"}
  <2>1. op.v \in Vehicles
    BY <1>5, Party DEF VehicleKinds
  <2>2. e = [s EXCEPT !.inFleet = @ \ {op.v}] \/ e = [s EXCEPT !.inFleet = @ \cup {op.v}]
    BY <1>5 DEF Effect
  <2> HIDE DEF e
  <2>3. e \in Database /\ e.usages = s.usages /\ e.immobilized = s.immobilized
    BY <2>1, <2>2 DEF Database
  <2> QED
    BY <2>3 DEF e
<1>6. CASE op.kind = "deactivate"
  <2>1. e = [s EXCEPT !.active = @ \ {op.d}, !.reservations = @ \ Of(old.reservations, op)]
    BY <1>6 DEF Effect
  <2> HIDE DEF e
  <2>2. e \in Database /\ e.usages = s.usages /\ e.immobilized = s.immobilized
    BY <2>1 DEF Database
  <2> QED
    BY <2>2 DEF e
<1>7. CASE op.kind = "reactivate"
  <2>1. op.d \in Drivers
    BY <1>7, Party DEF DriverKinds
  <2>2. e = [s EXCEPT !.active = @ \cup {op.d}]
    BY <1>7 DEF Effect
  <2> HIDE DEF e
  <2>3. e \in Database /\ e.usages = s.usages /\ e.immobilized = s.immobilized
    BY <2>1, <2>2 DEF Database
  <2> QED
    BY <2>3 DEF e
<1>8. CASE op.kind = "immobilize"
  <2>1. op.v \in Vehicles
    BY <1>8, Party DEF VehicleKinds
  <2>2. e = [s EXCEPT !.immobilized = @ \cup {op.v}]
    BY <1>8 DEF Effect
  <2> HIDE DEF e
  <2>3. e \in Database /\ e.usages = s.usages /\ e.immobilized = s.immobilized \cup {op.v}
    BY <2>1, <2>2 DEF Database
  <2> QED
    BY <1>8, <2>3 DEF e
<1>9. CASE op.kind = "release"
  <2>1. e = [s EXCEPT !.immobilized = @ \ {op.v}]
    BY <1>9 DEF Effect
  <2> HIDE DEF e
  <2>2. e \in Database /\ e.usages = s.usages /\ e.immobilized = s.immobilized \ {op.v}
    BY <2>1 DEF Database
  <2> QED
    BY <2>2 DEF e
<1> QED
  BY <1>1, <1>2, <1>3, <1>4, <1>5, <1>6, <1>7, <1>8, <1>9, Party
     DEF Kinds, CoupleKinds, VehicleKinds, DriverKinds

----------------------------------------------------------------------------
(* No circle of requests *)

\* What a request must hold already to want a row.
LEMMA Wanted ==
  ASSUME TypeOK, Asking, NEW r \in Requests, NEW x, Wants(r, x)
  PROVE  /\ pc[r] = "locking" /\ asked[r] \in Ops /\ holder[x] # r
         /\ x \in Lockable(asked[r]) /\ x \in Rows
         /\ asked[r].kind \in {"depart", "return", "reserve"} =>
              \/ x = asked[r].v
              \/ x = asked[r].d /\ holder[asked[r].v] = r
              \/ /\ asked[r].kind = "depart" /\ x = Couple(asked[r])
                 /\ holder[asked[r].d] = r
<1> DEFINE op == asked[r]
<1>1. pc[r] = "locking" /\ op \in Ops
  BY DEF Wants, Asking
<1>2. PICK i \in DOMAIN LockOrder(op, db) :
        /\ LockOrder(op, db)[i] = x /\ holder[x] # r
        /\ \A j \in 1..(i - 1) : holder[LockOrder(op, db)[j]] = r
  BY DEF Wants
<1> HIDE DEF op
<1> SUFFICES /\ x \in Lockable(op)
             /\ op.kind \in {"depart", "return", "reserve"} =>
                  \/ x = op.v
                  \/ x = op.d /\ holder[op.v] = r
                  \/ op.kind = "depart" /\ x = Couple(op) /\ holder[op.d] = r
  <2>1. Lockable(op) \subseteq Rows
    BY <1>1, Party
  <2> QED
    BY <1>1, <1>2, <2>1 DEF op
<1>3. CASE op.kind = "depart"
  <2>1. CASE LockOrder(op, db) = <<op.v, op.d, Couple(op)>>
    <3>1. /\ LockOrder(op, db)[1] = op.v /\ LockOrder(op, db)[2] = op.d
          /\ LockOrder(op, db)[3] = Couple(op)
          /\ i \in 1..3
      BY <1>2, <2>1
    <3>2. /\ i = 1 => x = op.v
          /\ i = 2 => x = op.d /\ holder[op.v] = r
          /\ i = 3 => x = Couple(op) /\ holder[op.d] = r
      BY <1>2, <3>1
    <3> QED
      BY <1>3, <3>1, <3>2, LockableSets
  <2>2. CASE LockOrder(op, db) = <<op.v, op.d>>
    <3>1. LockOrder(op, db)[1] = op.v /\ LockOrder(op, db)[2] = op.d /\ i \in 1..2
      BY <1>2, <2>2
    <3>2. /\ i = 1 => x = op.v
          /\ i = 2 => x = op.d /\ holder[op.v] = r
      BY <1>2, <3>1
    <3> QED
      BY <1>3, <3>1, <3>2, LockableSets
  <2> QED
    BY <1>3, <2>1, <2>2 DEF LockOrder
<1>4. CASE op.kind \in {"return", "reserve"}
  <2>1. LockOrder(op, db) = <<op.v, op.d>>
    BY <1>4 DEF LockOrder
  <2>2. LockOrder(op, db)[1] = op.v /\ LockOrder(op, db)[2] = op.d /\ i \in 1..2
    BY <1>2, <2>1
  <2>3. /\ i = 1 => x = op.v
        /\ i = 2 => x = op.d /\ holder[op.v] = r
    BY <1>2, <2>2
  <2> QED
    BY <1>4, <2>2, <2>3, LockableSets
<1>5. CASE op.kind \in VehicleKinds
  <2>1. LockOrder(op, db) = <<op.v>>
    BY <1>5 DEF LockOrder, VehicleKinds
  <2>2. x = op.v
    BY <1>2, <2>1
  <2> QED
    BY <1>5, <2>2, LockableSets
<1>6. CASE op.kind \in DriverKinds
  <2>1. LockOrder(op, db) = <<op.d>>
    BY <1>6 DEF LockOrder, DriverKinds
  <2>2. x = op.d
    BY <1>2, <2>1
  <2> QED
    BY <1>6, <2>2, LockableSets
<1>7. CASE op.kind = "cancel"
  <2>1. LockOrder(op, db) = <<Couple(op)>>
    BY <1>7 DEF LockOrder
  <2>2. x = Couple(op)
    BY <1>2, <2>1
  <2> QED
    BY <1>7, <2>2, LockableSets
<1> QED
  BY <1>1, <1>3, <1>4, <1>5, <1>6, <1>7, Party DEF Kinds, CoupleKinds

Level(x) == IF x \in Vehicles THEN 1 ELSE IF x \in Drivers THEN 2 ELSE 3

\* The order in which rows are locked: vehicles, drivers, usages and reservations.
LEMMA Levels ==
  /\ \A x \in Vehicles : Level(x) = 1
  /\ \A x \in Drivers : Level(x) = 2
  /\ \A x \in Couples : Level(x) = 3
  /\ \A x : Level(x) \in 1..3
BY OccupationTxAssumption DEF Level

\* Whoever waits holds only rows that come before the one it waits for.
LEMMA WaitsUpwards ==
  ASSUME TxInv, NEW r \in Requests, NEW q \in Requests, WaitsFor(r, q)
  PROVE  \E x \in Rows : holder[x] = q /\ \A y \in Rows : holder[y] = r => Level(y) < Level(x)
<1> DEFINE op == asked[r]
<1>1. pc[r] = "locking" /\ op \in Ops
  BY DEF WaitsFor, Wants, TxInv, Asking
<1>2. /\ \A y \in Rows : holder[y] = r => y \in Lockable(op)
      /\ op.kind \in {"depart", "return", "reserve"} =>
           (holder[op.d] = r => holder[op.v] = r)
      /\ op.kind = "depart" => (holder[Couple(op)] = r => holder[op.d] = r)
  BY <1>1 DEF TxInv, LocksInOrder
<1>3. CASE \E x \in Rows : Wants(r, x) /\ holder[x] = q
  <2>1. PICK x \in Rows : Wants(r, x) /\ holder[x] = q
    BY <1>3
  <2>2. /\ holder[x] # r /\ x \in Lockable(op)
        /\ op.kind \in {"depart", "return", "reserve"} =>
             \/ x = op.v
             \/ x = op.d /\ holder[op.v] = r
             \/ op.kind = "depart" /\ x = Couple(op) /\ holder[op.d] = r
    BY <2>1, Wanted DEF TxInv
  <2> HIDE DEF op
  <2>3. ASSUME NEW y \in Rows, holder[y] = r PROVE Level(y) < Level(x)
    <3>1. y \in Lockable(op) /\ y # x
      BY <1>2, <2>2, <2>3
    <3>2. CASE op.kind = "depart"
      <4>1. Level(op.v) = 1 /\ Level(op.d) = 2 /\ Level(Couple(op)) = 3
        BY <1>1, <3>2, Party, Levels DEF CoupleKinds
      <4>2. y \in {op.v, op.d, Couple(op)}
        BY <3>1, <3>2 DEF Lockable
      <4> QED
        BY <1>2, <2>2, <2>3, <3>1, <3>2, <4>1, <4>2
    <3>3. CASE op.kind \in {"return", "reserve"}
      <4>1. Level(op.v) = 1 /\ Level(op.d) = 2
        BY <1>1, <3>3, Party, Levels DEF CoupleKinds
      <4>2. y \in {op.v, op.d}
        BY <3>1, <3>3 DEF Lockable
      <4> QED
        BY <1>2, <2>2, <2>3, <3>1, <3>3, <4>1, <4>2
    <3>4. CASE op.kind \notin {"depart", "return", "reserve"}
      <4>1. x = y
        BY <1>1, <2>2, <3>1, <3>4, Party
           DEF Lockable, Kinds, CoupleKinds, VehicleKinds, DriverKinds
      <4> QED
        BY <3>1, <4>1
    <3> QED
      BY <3>2, <3>3, <3>4
  <2> QED
    BY <2>1, <2>3
<1>4. CASE /\ op.kind = "deactivate"
           /\ \E c \in Of(seen[r].reservations, op) : holder[c] = q
  <2>1. PICK c \in Of(seen[r].reservations, op) : holder[c] = q
    BY <1>4
  <2>2. c \in Couples
    BY Fields DEF TxInv, TypeOK, Of
  <2> HIDE DEF op
  <2>3. \A y \in Rows : holder[y] = r => Level(y) = 2
    BY <1>1, <1>2, <1>4, Party, Levels DEF Lockable, VehicleKinds, DriverKinds
  <2>4. Level(c) = 3 /\ c \in Rows
    BY <2>2, Levels DEF Rows
  <2> QED
    BY <2>1, <2>3, <2>4
<1> QED
  BY <1>3, <1>4 DEF WaitsFor

\* Requests that wait upwards do not wait for each other in a circle.
LEMMA NoCircle == ASSUME TxInv PROVE NoDeadlock
<1> SUFFICES ASSUME NEW W \in (SUBSET Requests) \ {{}},
                    ~ \E r \in W : \A q \in W : ~WaitsFor(r, q)
             PROVE  FALSE
  BY DEF NoDeadlock
<1> HIDE DEF WaitsFor
<1>1. ASSUME NEW n \in Int, \A r \in W, x \in Rows : holder[x] = r => Level(x) <= n
      PROVE  \A r \in W, y \in Rows : holder[y] = r => Level(y) <= n - 1
  <2> SUFFICES ASSUME NEW r \in W, NEW y \in Rows, holder[y] = r
               PROVE  Level(y) <= n - 1
    OBVIOUS
  <2>1. PICK q \in W : WaitsFor(r, q)
    OBVIOUS
  <2>2. PICK x \in Rows : holder[x] = q /\ Level(y) < Level(x)
    BY <2>1, WaitsUpwards
  <2>3. Level(x) <= n /\ Level(x) \in Int /\ Level(y) \in Int
    BY <1>1, <2>2, Levels
  <2> QED
    BY <2>2, <2>3
<1>2. \A r \in W, x \in Rows : holder[x] = r => Level(x) <= 3
  BY Levels
<1>3. \A r \in W, x \in Rows : holder[x] = r => Level(x) <= 2
  BY <1>1, <1>2
<1>4. \A r \in W, x \in Rows : holder[x] = r => Level(x) <= 1
  BY <1>1, <1>3
<1>5. \A r \in W, x \in Rows : holder[x] = r => Level(x) <= 0
  BY <1>1, <1>4
<1>6. PICK r \in W, q \in W, x \in Rows : holder[x] = q
  BY WaitsUpwards
<1> QED
  BY <1>5, <1>6, Levels

----------------------------------------------------------------------------
(* The actions *)

\* The rows whose version an operation changes are rows.
LEMMA VersionedRows ==
  ASSUME NEW op \in Ops, NEW s \in Database
  PROVE  Versioned(op, s) \subseteq Rows
<1>1. Of(s.reservations, op) \subseteq Couples
  BY Fields DEF Of
<1> QED
  BY <1>1, Party DEF Versioned, Rows, Kinds, CoupleKinds, VehicleKinds, DriverKinds

\* The conjuncts of the type invariant, for the leaves that need them alone.
LEMMA Types ==
  ASSUME TypeOK
  PROVE  /\ db \in Database
         /\ pc \in [Requests -> {"idle", "locking", "decided"}]
         /\ asked \in [Requests -> Ops \cup {NoOp}]
         /\ seen \in [Requests -> Database]
         /\ stale \in [Requests -> SUBSET Rows]
         /\ rivalry \in [Requests -> {"none", "out", "doomed"}]
         /\ holder \in [Rows -> Requests \cup {NoRequest}]
         /\ NoRequest \notin Requests
BY OccupationTxAssumption DEF TypeOK

\* The parties are rows, and not reservations.
LEMMA PartyRows ==
  ASSUME NEW op \in Ops
  PROVE  /\ op.kind \in {"depart", "return", "reserve"} =>
              /\ op.v \in Rows \ Couples /\ op.d \in Rows \ Couples
              /\ Couple(op) \in Rows /\ Couple(op) \in Couples
         /\ op.kind \in {"depart", "immobilize"} => op.v \in Rows \ Couples /\ op.v \in Vehicles
<1>1. \A x \in Vehicles \cup Drivers : x \in Rows \ Couples
  BY OccupationTxAssumption DEF Rows
<1>2. Couples \subseteq Rows
  BY DEF Rows
<1>3. op.kind \in {"depart", "return", "reserve"} => op.kind \in CoupleKinds
  BY DEF CoupleKinds
<1>4. op.kind = "immobilize" => op.kind \in VehicleKinds
  BY DEF VehicleKinds
<1> QED
  BY <1>1, <1>2, <1>3, <1>4, Party

\* Begin keeps the invariant.
LEMMA BeginKeeps ==
  ASSUME TxInv, NEW r \in Requests, NEW op \in Ops, Begin(r, op)
  PROVE  TxInv'
<1>1. /\ pc' = [pc EXCEPT ![r] = "locking"] /\ asked' = [asked EXCEPT ![r] = op]
      /\ UNCHANGED <<db, stale, rivalry, holder>> /\ pc[r] = "idle"
      /\ seen' = [seen EXCEPT ![r] = IF Serializable(op) THEN Snapshot(op, db) ELSE Empty]
  BY DEF Begin
<1>2. /\ pc'[r] = "locking" /\ asked'[r] = op
      /\ \A q \in Requests \ {r} : pc'[q] = pc[q] /\ asked'[q] = asked[q]
  BY <1>1, Types DEF TxInv
<1>3. TypeOK'
  <2>1. Snapshot(op, db) \in Database /\ Empty \in Database
    BY Types, SnapshotType, EmptyType DEF TxInv
  <2>2. (IF Serializable(op) THEN Snapshot(op, db) ELSE Empty) \in Database
    BY <2>1
  <2>3. seen' \in [Requests -> Database]
    BY <1>1, <2>2, Types DEF TxInv
  <2>4. pc' \in [Requests -> {"idle", "locking", "decided"}]
        /\ asked' \in [Requests -> Ops \cup {NoOp}]
    BY <1>1, Types DEF TxInv
  <2> QED
    BY <1>1, <2>3, <2>4, Types DEF TxInv, TypeOK
<1>4. Asking'
  BY <1>2 DEF TxInv, Asking
<1>5. IdleHoldsNothing'
  BY <1>1, <1>2 DEF TxInv, IdleHoldsNothing
<1>6. LocksInOrder'
  <2> SUFFICES ASSUME NEW q \in Requests, pc'[q] = "locking"
               PROVE  /\ \A x \in Rows : holder[x] = q => x \in Lockable(asked'[q])
                      /\ asked'[q].kind \in {"depart", "return", "reserve"} =>
                           (holder[asked'[q].d] = q => holder[asked'[q].v] = q)
                      /\ asked'[q].kind = "depart" =>
                           (holder[Couple(asked'[q])] = q => holder[asked'[q].d] = q)
    BY <1>1 DEF LocksInOrder, Lockable, Couple
  <2>1. CASE q = r
    <3>1. \A x \in Rows : holder[x] # r
      BY <1>1 DEF TxInv, IdleHoldsNothing
    <3> QED
      BY <1>2, <2>1, <3>1, PartyRows
  <2>2. CASE q # r
    BY <1>2, <2>2 DEF TxInv, LocksInOrder
  <2> QED
    BY <2>1, <2>2
<1>7. DecidedUnderLock'
  BY <1>1, <1>2 DEF TxInv, DecidedUnderLock
<1> QED
  BY <1>3, <1>4, <1>5, <1>6, <1>7 DEF TxInv

\* Lock keeps the invariant.
LEMMA LockKeeps ==
  ASSUME TxInv, NEW r \in Requests, NEW x \in Rows, Lock(r, x)
  PROVE  TxInv'
<1>1. /\ Wants(r, x) /\ holder[x] = NoRequest /\ holder' = [holder EXCEPT ![x] = r]
      /\ UNCHANGED <<db, pc, asked, seen, stale, rivalry>>
  BY DEF Lock
<1>2. /\ holder'[x] = r /\ \A y \in Rows \ {x} : holder'[y] = holder[y]
      /\ pc[r] = "locking" /\ asked[r] \in Ops
  BY <1>1, Types, Wanted DEF TxInv
<1>3. \A q \in Requests, y \in Rows : q # r => (holder'[y] = q <=> holder[y] = q)
  BY <1>1, <1>2, Types DEF TxInv
<1>4. TypeOK'
  BY <1>1, Types DEF TxInv, TypeOK
<1>5. Asking' /\ IdleHoldsNothing'
  BY <1>1, <1>2, <1>3 DEF TxInv, Asking, IdleHoldsNothing
<1>6. LocksInOrder'
  <2> SUFFICES ASSUME NEW q \in Requests, pc[q] = "locking"
               PROVE  /\ \A y \in Rows : holder'[y] = q => y \in Lockable(asked[q])
                      /\ asked[q].kind \in {"depart", "return", "reserve"} =>
                           (holder'[asked[q].d] = q => holder'[asked[q].v] = q)
                      /\ asked[q].kind = "depart" =>
                           (holder'[Couple(asked[q])] = q => holder'[asked[q].d] = q)
    BY <1>1 DEF LocksInOrder, Lockable, Couple
  <2>1. /\ \A y \in Rows : holder[y] = q => y \in Lockable(asked[q])
        /\ asked[q].kind \in {"depart", "return", "reserve"} =>
             (holder[asked[q].d] = q => holder[asked[q].v] = q)
        /\ asked[q].kind = "depart" =>
             (holder[Couple(asked[q])] = q => holder[asked[q].d] = q)
        /\ asked[q] \in Ops
    BY DEF TxInv, LocksInOrder, Asking
  <2>2. CASE q # r
    BY <1>3, <2>1, <2>2, PartyRows
  <2>3. CASE q = r
    <3>1. /\ x \in Lockable(asked[r])
          /\ asked[r].kind \in {"depart", "return", "reserve"} =>
               \/ x = asked[r].v
               \/ x = asked[r].d /\ holder[asked[r].v] = r
               \/ /\ asked[r].kind = "depart" /\ x = Couple(asked[r])
                  /\ holder[asked[r].d] = r
      BY <1>1, Wanted DEF TxInv
    <3>2. \A y \in Rows : holder'[y] = r <=> holder[y] = r \/ y = x
      BY <1>2
    <3>3. \A y \in Rows : holder'[y] = r => y \in Lockable(asked[r])
      BY <2>1, <2>3, <3>1, <3>2
    <3>4. asked[r].kind \in {"depart", "return", "reserve"} =>
            (holder'[asked[r].d] = r => holder'[asked[r].v] = r)
      BY <2>1, <2>3, <3>1, <3>2, PartyRows
    <3>5. asked[r].kind = "depart" =>
            (holder'[Couple(asked[r])] = r => holder'[asked[r].d] = r)
      BY <2>1, <2>3, <3>1, <3>2, PartyRows
    <3> QED
      BY <2>3, <3>3, <3>4, <3>5
  <2> QED
    BY <2>2, <2>3
<1>7. DecidedUnderLock'
  <2> SUFFICES ASSUME NEW q \in Requests, pc[q] = "decided"
               PROVE  /\ asked[q].kind \in {"depart", "immobilize"} => holder'[asked[q].v] = q
                      /\ asked[q].kind = "depart" => asked[q].v \notin db.immobilized
    BY <1>1 DEF DecidedUnderLock
  <2>1. q # r /\ asked[q] \in Ops
    BY <1>2 DEF TxInv, Asking
  <2> QED
    BY <1>3, <2>1, PartyRows DEF TxInv, DecidedUnderLock
<1> QED
  BY <1>4, <1>5, <1>6, <1>7 DEF TxInv

\* Decide keeps the invariant.
LEMMA DecideKeeps ==
  ASSUME TxInv, NEW r \in Requests, Decide(r)
  PROVE  TxInv'
<1> DEFINE op == asked[r]  s == View(r)
<1>1. /\ pc[r] = "locking" /\ pc' = [pc EXCEPT ![r] = "decided"]
      /\ \A i \in DOMAIN LockOrder(op, db) : holder[LockOrder(op, db)[i]] = r
      /\ Available(op, s)
      /\ seen' = [seen EXCEPT ![r] = s]
      /\ holder' = [x \in Rows |-> IF x \in Versioned(op, s) /\ x \in s.reservations
                                   THEN r ELSE holder[x]]
      /\ UNCHANGED <<db, asked, stale, rivalry>>
  BY DEF Decide
<1>2. s \in Database /\ op \in Ops
  BY <1>1, ViewType DEF TxInv, Asking
<1>3. /\ pc'[r] = "decided" /\ \A q \in Requests \ {r} : pc'[q] = pc[q]
  BY <1>1, Types DEF TxInv
<1>4. /\ \A y \in Rows \ Couples : holder'[y] = holder[y]
      /\ \A q \in Requests, y \in Rows : q # r /\ holder'[y] = q => holder[y] = q
  <2>1. s.reservations \subseteq Couples
    BY <1>2, Fields
  <2> HIDE DEF op, s
  <2> QED
    BY <1>1, <2>1
<1>5. TypeOK'
  <2> HIDE DEF op, s
  <2>1. holder' \in [Rows -> Requests \cup {NoRequest}]
    BY <1>1, Types DEF TxInv
  <2>2. seen' \in [Requests -> Database] /\ pc' \in [Requests -> {"idle", "locking", "decided"}]
    BY <1>1, <1>2, Types DEF TxInv
  <2> QED
    BY <1>1, <2>1, <2>2, Types DEF TxInv, TypeOK
<1>6. Asking' /\ IdleHoldsNothing'
  BY <1>1, <1>2, <1>3, <1>4 DEF TxInv, Asking, IdleHoldsNothing
<1>7. LocksInOrder'
  <2> SUFFICES ASSUME NEW q \in Requests, pc'[q] = "locking"
               PROVE  /\ \A y \in Rows : holder'[y] = q => y \in Lockable(asked[q])
                      /\ asked[q].kind \in {"depart", "return", "reserve"} =>
                           (holder'[asked[q].d] = q => holder'[asked[q].v] = q)
                      /\ asked[q].kind = "depart" =>
                           (holder'[Couple(asked[q])] = q => holder'[asked[q].d] = q)
    BY <1>1 DEF LocksInOrder, Lockable, Couple
  <2>1. q # r /\ pc[q] = "locking" /\ asked[q] \in Ops
    BY <1>3 DEF TxInv, Asking
  <2>2. /\ \A y \in Rows : holder[y] = q => y \in Lockable(asked[q])
        /\ asked[q].kind \in {"depart", "return", "reserve"} =>
             (holder[asked[q].d] = q => holder[asked[q].v] = q)
        /\ asked[q].kind = "depart" =>
             (holder[Couple(asked[q])] = q => holder[asked[q].d] = q)
    BY <2>1 DEF TxInv, LocksInOrder
  <2> HIDE DEF op, s
  <2> QED
    BY <1>4, <2>1, <2>2, PartyRows
<1>8. DecidedUnderLock'
  <2> SUFFICES ASSUME NEW q \in Requests, pc'[q] = "decided"
               PROVE  /\ asked[q].kind \in {"depart", "immobilize"} => holder'[asked[q].v] = q
                      /\ asked[q].kind = "depart" => asked[q].v \notin db.immobilized
    BY <1>1 DEF DecidedUnderLock
  <2>1. CASE q # r
    <3>1. pc[q] = "decided" /\ asked[q] \in Ops
      BY <1>3, <2>1 DEF TxInv, Asking
    <3> HIDE DEF op, s
    <3> QED
      BY <1>4, <3>1, PartyRows DEF TxInv, DecidedUnderLock
  <2>2. CASE q = r
    <3>1. op.kind \in {"depart", "immobilize"} => holder[op.v] = r
      <4> HIDE DEF op, s
      <4>1. CASE op.kind = "depart"
        <5>1. CASE LockOrder(op, db) = <<op.v, op.d, Couple(op)>>
          BY <1>1, <5>1
        <5>2. CASE LockOrder(op, db) = <<op.v, op.d>>
          BY <1>1, <5>2
        <5> QED
          BY <4>1, <5>1, <5>2 DEF LockOrder
      <4>2. CASE op.kind = "immobilize"
        <5>1. LockOrder(op, db) = <<op.v>>
          BY <4>2 DEF LockOrder
        <5> QED
          BY <1>1, <5>1
      <4> QED
        BY <4>1, <4>2
    <3>2. ASSUME op.kind = "depart" PROVE op.v \notin db.immobilized
      <4>1. s = Snapshot(op, db)
        BY <3>2 DEF View, Serializable
      <4>2. op.v \in Concerned(op)
        BY <1>2, <3>2, OpParties DEF CoupleKinds
      <4> HIDE DEF op, s
      <4> QED
        BY <1>1, <3>2, <4>1, <4>2 DEF Available, Snapshot
    <3> HIDE DEF s
    <3> QED
      BY <1>2, <1>4, <2>2, <3>1, <3>2, PartyRows
  <2> QED
    BY <2>1, <2>2
<1> QED
  BY <1>5, <1>6, <1>7, <1>8 DEF TxInv

\* The end of a request, which leaves the locks of the others alone.
LEMMA EndKeeps ==
  ASSUME TxInv, NEW r \in Requests, Finish(r), Forget(r),
         db' \in Database,
         \A q \in Requests \ {r} :
           pc[q] = "decided" /\ asked[q].kind = "depart" => asked[q].v \notin db'.immobilized,
         stale' \in [Requests -> SUBSET Rows],
         rivalry' \in [Requests -> {"none", "out", "doomed"}]
  PROVE  TxInv'
<1>1. /\ pc' = [pc EXCEPT ![r] = "idle"] /\ asked' = [asked EXCEPT ![r] = NoOp]
      /\ holder' = [x \in Rows |-> IF holder[x] = r THEN NoRequest ELSE holder[x]]
      /\ seen' = [seen EXCEPT ![r] = Empty]
  BY DEF Finish, Forget
<1>2. /\ pc'[r] = "idle"
      /\ \A q \in Requests \ {r} : pc'[q] = pc[q] /\ asked'[q] = asked[q]
      /\ \A y \in Rows : holder'[y] # r
      /\ \A q \in Requests, y \in Rows : q # r => (holder'[y] = q <=> holder[y] = q)
  BY <1>1, Types DEF TxInv
<1>3. TypeOK'
  <2>1. /\ pc' \in [Requests -> {"idle", "locking", "decided"}]
        /\ asked' \in [Requests -> Ops \cup {NoOp}]
        /\ seen' \in [Requests -> Database]
    BY <1>1, Types, EmptyType DEF TxInv
  <2>2. holder' \in [Rows -> Requests \cup {NoRequest}]
    BY <1>1, Types DEF TxInv
  <2> QED
    BY <2>1, <2>2 DEF TypeOK
<1>4. Asking' /\ IdleHoldsNothing'
  BY <1>2 DEF TxInv, Asking, IdleHoldsNothing
<1>5. LocksInOrder'
  <2> SUFFICES ASSUME NEW q \in Requests, pc'[q] = "locking"
               PROVE  /\ \A y \in Rows : holder'[y] = q => y \in Lockable(asked'[q])
                      /\ asked'[q].kind \in {"depart", "return", "reserve"} =>
                           (holder'[asked'[q].d] = q => holder'[asked'[q].v] = q)
                      /\ asked'[q].kind = "depart" =>
                           (holder'[Couple(asked'[q])] = q => holder'[asked'[q].d] = q)
    BY DEF LocksInOrder, Lockable, Couple
  <2>1. q # r /\ pc[q] = "locking" /\ asked'[q] = asked[q] /\ asked[q] \in Ops
    BY <1>2 DEF TxInv, Asking
  <2>2. /\ \A y \in Rows : holder[y] = q => y \in Lockable(asked[q])
        /\ asked[q].kind \in {"depart", "return", "reserve"} =>
             (holder[asked[q].d] = q => holder[asked[q].v] = q)
        /\ asked[q].kind = "depart" =>
             (holder[Couple(asked[q])] = q => holder[asked[q].d] = q)
    BY <2>1 DEF TxInv, LocksInOrder
  <2> QED
    BY <1>2, <2>1, <2>2, PartyRows
<1>6. DecidedUnderLock'
  <2> SUFFICES ASSUME NEW q \in Requests, pc'[q] = "decided"
               PROVE  /\ asked'[q].kind \in {"depart", "immobilize"} => holder'[asked'[q].v] = q
                      /\ asked'[q].kind = "depart" => asked'[q].v \notin db'.immobilized
    BY DEF DecidedUnderLock
  <2>1. q # r /\ pc[q] = "decided" /\ asked'[q] = asked[q] /\ asked[q] \in Ops
    BY <1>2 DEF TxInv, Asking
  <2>2. asked[q].kind \in {"depart", "immobilize"} => holder[asked[q].v] = q
    BY <2>1 DEF TxInv, DecidedUnderLock
  <2> QED
    BY <1>2, <2>1, <2>2, PartyRows
<1> QED
  BY <1>3, <1>4, <1>5, <1>6 DEF TxInv

\* Commit keeps the invariant.
LEMMA CommitKeeps ==
  ASSUME TxInv, NEW r \in Requests, Commit(r)
  PROVE  TxInv'
<1> DEFINE op == asked[r]
<1>1. /\ pc[r] = "decided" /\ db' = Effect(op, seen[r], db) /\ Finish(r) /\ Forget(r)
      /\ stale' = [q \in Requests |->
           IF q = r THEN {}
           ELSE IF Running(q) THEN stale[q] \cup Versioned(op, seen[r]) ELSE stale[q]]
      /\ rivalry' = [q \in Requests |->
           IF q = r THEN "none"
           ELSE IF Running(q) /\ Serializable(op) THEN Rivalry(r, q) ELSE rivalry[q]]
  BY DEF Commit
<1>2. op \in Ops /\ seen[r] \in Database /\ db \in Database
  BY <1>1, Types DEF TxInv, Asking
<1>3. stale' \in [Requests -> SUBSET Rows]
  <2>1. Versioned(op, seen[r]) \subseteq Rows
    BY <1>2, VersionedRows
  <2> HIDE DEF op
  <2> QED
    BY <1>1, <2>1, Types DEF TxInv
<1>4. rivalry' \in [Requests -> {"none", "out", "doomed"}]
  <2>1. \A q \in Requests : Rivalry(r, q) \in {"none", "out", "doomed"}
    BY Types DEF TxInv, Rivalry
  <2> HIDE DEF op
  <2> QED
    BY <1>1, <2>1, Types DEF TxInv
<1>5. /\ db' \in Database
      /\ \A v \in db'.immobilized \ db.immobilized : op.kind = "immobilize" /\ v = op.v
  BY <1>1, <1>2, EffectAdds
<1>6. ASSUME NEW q \in Requests \ {r}, pc[q] = "decided", asked[q].kind = "depart"
      PROVE  asked[q].v \notin db'.immobilized
  <2>1. holder[asked[q].v] = q /\ asked[q].v \notin db.immobilized
    BY <1>6 DEF TxInv, DecidedUnderLock
  <2>2. op.kind = "immobilize" => holder[op.v] = r
    BY <1>1 DEF TxInv, DecidedUnderLock
  <2> QED
    BY <1>5, <2>1, <2>2
<1> QED
  BY <1>1, <1>3, <1>4, <1>5, <1>6, EndKeeps

\* Abort keeps the invariant.
LEMMA AbortKeeps ==
  ASSUME TxInv, NEW r \in Requests, Abort(r)
  PROVE  TxInv'
<1>1. /\ Finish(r) /\ Forget(r) /\ db' = db
      /\ stale' = [stale EXCEPT ![r] = {}] /\ rivalry' = [rivalry EXCEPT ![r] = "none"]
  BY DEF Abort
<1>2. /\ stale' \in [Requests -> SUBSET Rows]
      /\ rivalry' \in [Requests -> {"none", "out", "doomed"}] /\ db' \in Database
  BY <1>1, Types DEF TxInv
<1>3. \A q \in Requests \ {r} :
        pc[q] = "decided" /\ asked[q].kind = "depart" => asked[q].v \notin db'.immobilized
  BY <1>1 DEF TxInv, DecidedUnderLock
<1> QED
  BY <1>1, <1>2, <1>3, EndKeeps

----------------------------------------------------------------------------
(* Theorems *)

\* The initial state satisfies the invariant.
LEMMA TxInit == Init => TxInv
<1> SUFFICES ASSUME Init PROVE TxInv
  OBVIOUS
<1>1. TypeOK
  BY EmptyType DEF Init, TypeOK
<1>2. Asking /\ LocksInOrder /\ DecidedUnderLock
  BY DEF Init, Asking, LocksInOrder, DecidedUnderLock
<1>3. IdleHoldsNothing
  BY OccupationTxAssumption DEF Init, IdleHoldsNothing
<1> QED
  BY <1>1, <1>2, <1>3 DEF TxInv

\* Every step keeps the invariant.
LEMMA TxNext == TxInv /\ [Next]_vars => TxInv'
<1> SUFFICES ASSUME TxInv, [Next]_vars PROVE TxInv'
  OBVIOUS
<1>1. CASE Next
  BY <1>1, BeginKeeps, LockKeeps, DecideKeeps, CommitKeeps, AbortKeeps DEF Next
<1>2. CASE UNCHANGED vars
  BY <1>2 DEF vars, txVars, TxInv, TypeOK, Asking, IdleHoldsNothing, LocksInOrder,
              DecidedUnderLock, Lockable, Couple
<1> QED
  BY <1>1, <1>2

\* The invariant holds in every reachable state.
LEMMA TxInvariant == Spec => []TxInv
BY TxInit, TxNext, PTL DEF Spec

\* Requests, locks and snapshots keep their types, whatever the interleaving.
THEOREM TypesHold == Spec => []TypeOK
<1>1. TxInv => TypeOK
  BY DEF TxInv
<1> QED
  BY <1>1, TxInvariant, PTL

\* The constant order of the locks leaves no circle of waiting requests, of
\* whatever length.
THEOREM DeadlockFree == Spec => []NoDeadlock
BY TxInvariant, NoCircle, PTL

\* A departure never commits on a vehicle that is immobilized at that instant.
THEOREM DeparturesSafe == Spec => DeparturesAvailable
<1>1. ASSUME TxInv, [Next]_vars
      PROVE  [\A c \in db'.usages \ db.usages : c[1] \notin db.immobilized]_vars
  <2> SUFFICES ASSUME NEW c \in db'.usages \ db.usages
               PROVE  c[1] \notin db.immobilized
    OBVIOUS
  <2>1. PICK r \in Requests : Commit(r)
    BY <1>1 DEF Next, Begin, Lock, Decide, Abort, vars
  <2>2. /\ pc[r] = "decided" /\ db' = Effect(asked[r], seen[r], db)
        /\ asked[r] \in Ops /\ seen[r] \in Database /\ db \in Database
    BY <1>1, <2>1, Types DEF TxInv, Asking, Commit
  <2>3. asked[r].kind = "depart" /\ c = Couple(asked[r])
    BY <2>2, EffectAdds
  <2>4. c[1] = asked[r].v
    BY <2>2, <2>3, Party DEF CoupleKinds
  <2> QED
    BY <1>1, <2>2, <2>3, <2>4 DEF TxInv, DecidedUnderLock
<1> QED
  BY <1>1, TxInvariant, PTL DEF Spec, DeparturesAvailable

----------------------------------------------------------------------------
(* What the requests have read *)

\* What r found on the row of its vehicle, and on the usages of this vehicle,
\* is current as long as the row has no newer version.
VehicleFresh(r) ==
  (/\ pc[r] # "idle" /\ asked[r].kind \in {"reserve", "exit", "restore"}
   /\ asked[r].v \notin stale[r])
    => /\ asked[r].v \in seen[r].inFleet <=> asked[r].v \in db.inFleet
       /\ \A c \in db.usages : c[1] = asked[r].v => c \in seen[r].usages

\* The same on its driver.
DriverFresh(r) ==
  (/\ pc[r] # "idle" /\ asked[r].kind \in {"reserve", "deactivate"}
   /\ asked[r].d \notin stale[r])
    => /\ asked[r].d \in seen[r].active => asked[r].d \in db.active
       /\ \A c \in db.usages : c[2] = asked[r].d => c \in seen[r].usages

\* A serializable request locks a row whose version is that of its snapshot,
\* and nobody writes it from then on.
HeldFresh(r) ==
  pc[r] # "idle" =>
    /\ asked[r].kind \in {"reserve", "exit", "restore"} /\ holder[asked[r].v] = r
         => asked[r].v \notin stale[r]
    /\ asked[r].kind \in {"reserve", "deactivate"} /\ holder[asked[r].d] = r
         => asked[r].d \notin stale[r]

\* What r found in the tables it has no lock on is current, unless its rivals
\* already prevent its commit.
TablesFresh(r) ==
  pc[r] # "idle" /\ rivalry[r] # "doomed" =>
    /\ asked[r].kind = "exit" =>
         /\ \A c \in db.reservations : c[1] = asked[r].v => c \in seen[r].reservations
         /\ asked[r].v \in db.immobilized => asked[r].v \in seen[r].immobilized
    /\ asked[r].kind = "release" =>
         (asked[r].v \in seen[r].immobilized => asked[r].v \in db.immobilized)
    /\ asked[r].kind = "deactivate" =>
         \A c \in db.reservations : c[2] = asked[r].d => c \in seen[r].reservations

\* What a decided request has locked.
DecidedHolds(r) ==
  pc[r] = "decided" =>
    /\ asked[r].kind \in {"depart", "return", "reserve"} \cup VehicleKinds
         => holder[asked[r].v] = r
    /\ asked[r].kind \in {"depart", "return", "reserve"} \cup DriverKinds
         => holder[asked[r].d] = r
    /\ asked[r].kind = "cancel" => holder[Couple(asked[r])] = r
    /\ asked[r].kind = "depart" /\ Couple(asked[r]) \in db.reservations
         => holder[Couple(asked[r])] = r
    /\ asked[r].kind = "deactivate" =>
         \A c \in Of(seen[r].reservations, asked[r]) : holder[c] = r

\* The operation of a decided request is allowed in the state it decided on,
\* and, as far as its locks protect, in the present one.
DecisionStands(r) ==
  pc[r] = "decided" =>
    /\ Serializable(asked[r]) => Allowed(asked[r], seen[r])
    /\ asked[r].kind = "reserve" => Of(db.reservations, asked[r]) = {}
    /\ ~Serializable(asked[r]) => Allowed(asked[r], db)

\* A departure has used up its reservation.
Consumed == \A c \in db.usages : c \notin db.reservations

ViewOK(r) ==
  /\ VehicleFresh(r) /\ DriverFresh(r) /\ HeldFresh(r) /\ TablesFresh(r)
  /\ DecidedHolds(r) /\ DecisionStands(r)

ViewInv == Consumed /\ \A r \in Requests : ViewOK(r)

----------------------------------------------------------------------------
(* What operations ask and change, field by field *)

\* The couples of what an operation names.
LEMMA OfParties ==
  ASSUME NEW op \in Ops, NEW S \in SUBSET Couples, NEW c
  PROVE  /\ op.kind \in CoupleKinds =>
              (c \in Of(S, op) <=> c \in S /\ (c[1] = op.v \/ c[2] = op.d))
         /\ op.kind \in VehicleKinds => (c \in Of(S, op) <=> c \in S /\ c[1] = op.v)
         /\ op.kind \in DriverKinds => (c \in Of(S, op) <=> c \in S /\ c[2] = op.d)
         /\ c \in S => c[1] \in Vehicles /\ c[2] \in Drivers
<1>1. \A x \in S : x[1] \in Vehicles /\ x[2] \in Drivers
  BY DEF Couples
<1>2. Vehicles \cap Drivers = {}
  BY OccupationTxAssumption
<1> QED
  BY <1>1, <1>2, OpParties DEF Of

\* What a decision on the state s, or on what the operation can see of it, asks.
LEMMA AllowedFields ==
  ASSUME NEW op \in Ops, NEW s \in Database
  PROVE  /\ op.kind = "depart" =>
              (Allowed(op, s) <=>
                 /\ op.v \in s.inFleet /\ op.d \in s.active
                 /\ \A c \in s.usages : c[1] # op.v /\ c[2] # op.d
                 /\ \A c \in s.reservations : c[1] = op.v \/ c[2] = op.d => c = Couple(op))
         /\ op.kind = "return" => (Allowed(op, s) <=> Couple(op) \in s.usages)
         /\ op.kind = "reserve" =>
              (Allowed(op, s) <=>
                 /\ op.v \in s.inFleet /\ op.d \in s.active
                 /\ \A c \in s.usages : c[1] # op.v /\ c[2] # op.d
                 /\ \A c \in s.reservations : c[1] # op.v /\ c[2] # op.d)
         /\ op.kind = "cancel" => (Allowed(op, s) <=> Couple(op) \in s.reservations)
         /\ op.kind = "exit" =>
              (Allowed(op, s) <=>
                 /\ op.v \in s.inFleet /\ op.v \notin s.immobilized
                 /\ \A c \in s.usages : c[1] # op.v
                 /\ \A c \in s.reservations : c[1] # op.v)
         /\ op.kind = "restore" => (Allowed(op, s) <=> op.v \notin s.inFleet)
         /\ op.kind = "deactivate" =>
              (Allowed(op, s) <=> op.d \in s.active /\ \A c \in s.usages : c[2] # op.d)
         /\ op.kind = "reactivate" => (Allowed(op, s) <=> op.d \notin s.active)
         /\ op.kind = "immobilize" => Allowed(op, s)
         /\ op.kind = "release" => (Allowed(op, s) <=> op.v \in s.immobilized)
<1>1. s.usages \in SUBSET Couples /\ s.reservations \in SUBSET Couples
  BY Fields
<1>2. /\ op.kind \in CoupleKinds =>
           /\ Of(s.usages, op) = {} <=> \A c \in s.usages : c[1] # op.v /\ c[2] # op.d
           /\ Of(s.reservations, op) = {} <=> \A c \in s.reservations : c[1] # op.v /\ c[2] # op.d
           /\ Of(s.reservations, op) \subseteq {Couple(op)}
                <=> \A c \in s.reservations : c[1] = op.v \/ c[2] = op.d => c = Couple(op)
      /\ op.kind \in VehicleKinds =>
           /\ Of(s.usages, op) = {} <=> \A c \in s.usages : c[1] # op.v
           /\ Of(s.reservations, op) = {} <=> \A c \in s.reservations : c[1] # op.v
      /\ op.kind \in DriverKinds =>
           (Of(s.usages, op) = {} <=> \A c \in s.usages : c[2] # op.d)
  <2>1. ASSUME op.kind \in CoupleKinds
        PROVE  /\ Of(s.usages, op) = {} <=> \A c \in s.usages : c[1] # op.v /\ c[2] # op.d
               /\ Of(s.reservations, op) = {} <=> \A c \in s.reservations : c[1] # op.v /\ c[2] # op.d
               /\ Of(s.reservations, op) \subseteq {Couple(op)}
                    <=> \A c \in s.reservations : c[1] = op.v \/ c[2] = op.d => c = Couple(op)
    <3>1. \A c : c \in Of(s.usages, op) <=> c \in s.usages /\ (c[1] = op.v \/ c[2] = op.d)
      BY <1>1, <2>1, OfParties
    <3>2. \A c : c \in Of(s.reservations, op) <=> c \in s.reservations /\ (c[1] = op.v \/ c[2] = op.d)
      BY <1>1, <2>1, OfParties
    <3> QED
      BY <3>1, <3>2
  <2>2. ASSUME op.kind \in VehicleKinds
        PROVE  /\ Of(s.usages, op) = {} <=> \A c \in s.usages : c[1] # op.v
               /\ Of(s.reservations, op) = {} <=> \A c \in s.reservations : c[1] # op.v
    <3>1. \A c : c \in Of(s.usages, op) <=> c \in s.usages /\ c[1] = op.v
      BY <1>1, <2>2, OfParties
    <3>2. \A c : c \in Of(s.reservations, op) <=> c \in s.reservations /\ c[1] = op.v
      BY <1>1, <2>2, OfParties
    <3> QED
      BY <3>1, <3>2
  <2>3. ASSUME op.kind \in DriverKinds
        PROVE  Of(s.usages, op) = {} <=> \A c \in s.usages : c[2] # op.d
    <3>1. \A c : c \in Of(s.usages, op) <=> c \in s.usages /\ c[2] = op.d
      BY <1>1, <2>3, OfParties
    <3> QED
      BY <3>1
  <2> QED
    BY <2>1, <2>2, <2>3
<1> QED
  BY <1>2 DEF Allowed, PartiesFit, Free, CoupleKinds, VehicleKinds, DriverKinds

\* Where x is found in the database e that an operation makes of s.
Changed(op, old, s, e, x) ==
  /\ x \in e.inFleet <=> \/ x \in s.inFleet /\ ~(op.kind = "exit" /\ x = op.v)
                         \/ op.kind = "restore" /\ x = op.v
  /\ x \in e.active <=> \/ x \in s.active /\ ~(op.kind = "deactivate" /\ x = op.d)
                        \/ op.kind = "reactivate" /\ x = op.d
  /\ x \in e.usages <=> \/ x \in s.usages /\ ~(op.kind = "return" /\ x = Couple(op))
                        \/ op.kind = "depart" /\ x = Couple(op)
  /\ x \in e.reservations <=>
       \/ /\ x \in s.reservations /\ ~(op.kind \in {"depart", "cancel"} /\ x = Couple(op))
          /\ ~(op.kind = "deactivate" /\ x \in Of(old.reservations, op))
       \/ op.kind = "reserve" /\ x = Couple(op)
  /\ x \in e.immobilized <=> \/ x \in s.immobilized /\ ~(op.kind = "release" /\ x = op.v)
                             \/ op.kind = "immobilize" /\ x = op.v

\* What an operation changes, field by field.
LEMMA EffectFields ==
  ASSUME NEW op \in Ops, NEW old \in Database, NEW s \in Database, NEW x
  PROVE  Changed(op, old, s, Effect(op, old, s), x)
<1> DEFINE e == Effect(op, old, s)
<1>2. /\ op.kind = "depart" => e = [s EXCEPT !.usages = @ \cup {Couple(op)},
                                             !.reservations = @ \ {Couple(op)}]
      /\ op.kind = "return" => e = [s EXCEPT !.usages = @ \ {Couple(op)}]
      /\ op.kind = "reserve" => e = [s EXCEPT !.reservations = @ \cup {Couple(op)}]
      /\ op.kind = "cancel" => e = [s EXCEPT !.reservations = @ \ {Couple(op)}]
      /\ op.kind = "exit" => e = [s EXCEPT !.inFleet = @ \ {op.v}]
      /\ op.kind = "restore" => e = [s EXCEPT !.inFleet = @ \cup {op.v}]
      /\ op.kind = "deactivate" => e = [s EXCEPT !.active = @ \ {op.d},
                                   !.reservations = @ \ Of(old.reservations, op)]
      /\ op.kind = "reactivate" => e = [s EXCEPT !.active = @ \cup {op.d}]
      /\ op.kind = "immobilize" => e = [s EXCEPT !.immobilized = @ \cup {op.v}]
      /\ op.kind = "release" => e = [s EXCEPT !.immobilized = @ \ {op.v}]
  BY DEF Effect
<1>3. op.kind \in Kinds
  BY Party
<1> HIDE DEF e
<1>4. CASE op.kind = "depart"
  <2>1. /\ e.inFleet = s.inFleet /\ e.active = s.active /\ e.usages = s.usages \cup {Couple(op)}
        /\ e.reservations = s.reservations \ {Couple(op)} /\ e.immobilized = s.immobilized
    BY <1>2, <1>4 DEF Database
  <2> QED
    BY <1>4, <2>1 DEF e, Changed
<1>5. CASE op.kind = "return"
  <2>1. /\ e.inFleet = s.inFleet /\ e.active = s.active /\ e.usages = s.usages \ {Couple(op)}
        /\ e.reservations = s.reservations /\ e.immobilized = s.immobilized
    BY <1>2, <1>5 DEF Database
  <2> QED
    BY <1>5, <2>1 DEF e, Changed
<1>6. CASE op.kind = "reserve"
  <2>1. /\ e.inFleet = s.inFleet /\ e.active = s.active /\ e.usages = s.usages
        /\ e.reservations = s.reservations \cup {Couple(op)} /\ e.immobilized = s.immobilized
    BY <1>2, <1>6 DEF Database
  <2> QED
    BY <1>6, <2>1 DEF e, Changed
<1>7. CASE op.kind = "cancel"
  <2>1. /\ e.inFleet = s.inFleet /\ e.active = s.active /\ e.usages = s.usages
        /\ e.reservations = s.reservations \ {Couple(op)} /\ e.immobilized = s.immobilized
    BY <1>2, <1>7 DEF Database
  <2> QED
    BY <1>7, <2>1 DEF e, Changed
<1>8. CASE op.kind = "exit"
  <2>1. /\ e.inFleet = s.inFleet \ {op.v} /\ e.active = s.active /\ e.usages = s.usages
        /\ e.reservations = s.reservations /\ e.immobilized = s.immobilized
    BY <1>2, <1>8 DEF Database
  <2> QED
    BY <1>8, <2>1 DEF e, Changed
<1>9. CASE op.kind = "restore"
  <2>1. /\ e.inFleet = s.inFleet \cup {op.v} /\ e.active = s.active /\ e.usages = s.usages
        /\ e.reservations = s.reservations /\ e.immobilized = s.immobilized
    BY <1>2, <1>9 DEF Database
  <2> QED
    BY <1>9, <2>1 DEF e, Changed
<1>10. CASE op.kind = "deactivate"
  <2>1. /\ e.inFleet = s.inFleet /\ e.active = s.active \ {op.d} /\ e.usages = s.usages
        /\ e.reservations = s.reservations \ Of(old.reservations, op) /\ e.immobilized = s.immobilized
    BY <1>2, <1>10 DEF Database
  <2> QED
    BY <1>10, <2>1 DEF e, Changed
<1>11. CASE op.kind = "reactivate"
  <2>1. /\ e.inFleet = s.inFleet /\ e.active = s.active \cup {op.d} /\ e.usages = s.usages
        /\ e.reservations = s.reservations /\ e.immobilized = s.immobilized
    BY <1>2, <1>11 DEF Database
  <2> QED
    BY <1>11, <2>1 DEF e, Changed
<1>12. CASE op.kind = "immobilize"
  <2>1. /\ e.inFleet = s.inFleet /\ e.active = s.active /\ e.usages = s.usages
        /\ e.reservations = s.reservations /\ e.immobilized = s.immobilized \cup {op.v}
    BY <1>2, <1>12 DEF Database
  <2> QED
    BY <1>12, <2>1 DEF e, Changed
<1>13. CASE op.kind = "release"
  <2>1. /\ e.inFleet = s.inFleet /\ e.active = s.active /\ e.usages = s.usages
        /\ e.reservations = s.reservations /\ e.immobilized = s.immobilized \ {op.v}
    BY <1>2, <1>13 DEF Database
  <2> QED
    BY <1>13, <2>1 DEF e, Changed
<1> QED
  BY <1>3, <1>4, <1>5, <1>6, <1>7, <1>8, <1>9, <1>10, <1>11, <1>12, <1>13
     DEF e, Kinds, CoupleKinds, VehicleKinds, DriverKinds

\* The operation is allowed in s if it is in what it can see of s.
LEMMA SeenAllowed ==
  ASSUME NEW op \in Ops, NEW s \in Database, Allowed(op, Snapshot(op, s))
  PROVE  Allowed(op, s)
<1> DEFINE t == Snapshot(op, s)
<1>1. t \in Database
  BY SnapshotType
<1>2. /\ op.kind \in CoupleKinds =>
           /\ op.v \in t.inFleet => op.v \in s.inFleet
           /\ op.d \in t.active <=> op.d \in s.active
           /\ op.v \in s.immobilized <=> op.v \in t.immobilized
           /\ \A c : c \in t.usages <=> c \in s.usages /\ (c[1] = op.v \/ c[2] = op.d)
           /\ \A c : c \in t.reservations <=> c \in s.reservations /\ (c[1] = op.v \/ c[2] = op.d)
      /\ op.kind \in VehicleKinds =>
           /\ op.v \in t.inFleet <=> op.v \in s.inFleet
           /\ op.v \in s.immobilized <=> op.v \in t.immobilized
           /\ \A c : c \in t.usages <=> c \in s.usages /\ c[1] = op.v
           /\ \A c : c \in t.reservations <=> c \in s.reservations /\ c[1] = op.v
      /\ op.kind \in DriverKinds =>
           /\ op.d \in t.active <=> op.d \in s.active
           /\ \A c : c \in t.usages <=> c \in s.usages /\ c[2] = op.d
           /\ \A c : c \in t.reservations <=> c \in s.reservations /\ c[2] = op.d
  <2>1. s.usages \in SUBSET Couples /\ s.reservations \in SUBSET Couples
    BY Fields
  <2>2. /\ t.inFleet = s.inFleet \cap Concerned(op) /\ t.active = s.active \cap Concerned(op)
        /\ t.immobilized = s.immobilized \cap Concerned(op)
        /\ t.usages = Of(s.usages, op) /\ t.reservations = Of(s.reservations, op)
    BY DEF Snapshot
  <2> HIDE DEF t
  <2> QED
    BY <2>1, <2>2, OfParties, OpParties
<1>3. op.kind \in Kinds
  BY Party
<1>4. Allowed(op, t)
  OBVIOUS
<1> HIDE DEF t
<1>5. CASE op.kind \in CoupleKinds
  BY <1>1, <1>2, <1>4, <1>5, AllowedFields DEF CoupleKinds
<1>6. CASE op.kind \in VehicleKinds
  BY <1>1, <1>2, <1>4, <1>6, AllowedFields DEF VehicleKinds, CoupleKinds
<1>7. CASE op.kind \in DriverKinds
  BY <1>1, <1>2, <1>4, <1>7, AllowedFields DEF DriverKinds
<1> QED
  BY <1>3, <1>5, <1>6, <1>7 DEF Kinds
----------------------------------------------------------------------------
(* The actions keep what the requests have read current *)

\* The parties of an operation are rows of their own kind.
LEMMA PartyKinds ==
  ASSUME NEW op \in Ops
  PROVE  /\ op.kind \in CoupleKinds \cup VehicleKinds => op.v \in Vehicles /\ op.v \in Rows /\ op.v \notin Couples
         /\ op.kind \in CoupleKinds \cup DriverKinds => op.d \in Drivers /\ op.d \in Rows /\ op.d \notin Couples
         /\ op.kind \in CoupleKinds =>
              /\ Couple(op) \in Couples /\ Couple(op) \in Rows
              /\ Couple(op)[1] = op.v /\ Couple(op)[2] = op.d
BY OpParties, OccupationTxAssumption DEF Rows, Couple, Couples

\* A request that nothing concerns keeps what it knows.
LEMMA Unconcerned ==
  ASSUME NEW r \in Requests, ViewOK(r), asked'[r] = asked[r], seen'[r] = seen[r],
         pc'[r] = pc[r], db' = db, stale'[r] = stale[r], rivalry'[r] = rivalry[r],
         asked[r] \in Ops \/ pc[r] = "idle", seen[r] \in Database,
         \A x \in Rows : holder'[x] = r <=> holder[x] = r
  PROVE  ViewOK(r)'
<1>1. VehicleFresh(r)' /\ DriverFresh(r)' /\ TablesFresh(r)'
  BY DEF ViewOK, VehicleFresh, DriverFresh, TablesFresh
<1>2. HeldFresh(r)'
  BY PartyKinds DEF ViewOK, HeldFresh, CoupleKinds, VehicleKinds, DriverKinds
<1>3. DecidedHolds(r)'
  <2> SUFFICES ASSUME pc[r] = "decided" PROVE DecidedHolds(r)'
    BY DEF DecidedHolds
  <2>1. \A c \in Of(seen[r].reservations, asked[r]) : c \in Rows
    BY Fields DEF Of, Rows
  <2>2. Of(seen'[r].reservations, asked'[r]) = Of(seen[r].reservations, asked[r])
        /\ Couple(asked'[r]) = Couple(asked[r])
    OBVIOUS
  <2> QED
    BY <2>1, <2>2, PartyKinds DEF ViewOK, DecidedHolds, CoupleKinds, VehicleKinds, DriverKinds
<1>4. DecisionStands(r)'
  <2>1. /\ Serializable(asked'[r]) = Serializable(asked[r])
        /\ Allowed(asked'[r], seen'[r]) = Allowed(asked[r], seen[r])
        /\ Allowed(asked'[r], db') = Allowed(asked[r], db)
        /\ Of(db'.reservations, asked'[r]) = Of(db.reservations, asked[r])
    OBVIOUS
  <2> QED
    BY <2>1 DEF ViewOK, DecisionStands
<1> QED
  BY <1>1, <1>2, <1>3, <1>4 DEF ViewOK

\* A request begins with a snapshot of the present state, and holds nothing.
LEMMA BeginReads ==
  ASSUME TxInv, ViewInv, NEW r \in Requests, NEW op \in Ops, Begin(r, op)
  PROVE  ViewInv'
<1>1. /\ pc[r] = "idle" /\ pc' = [pc EXCEPT ![r] = "locking"]
      /\ asked' = [asked EXCEPT ![r] = op]
      /\ seen' = [seen EXCEPT ![r] = IF Serializable(op) THEN Snapshot(op, db) ELSE Empty]
      /\ UNCHANGED <<db, stale, rivalry, holder>>
  BY DEF Begin
<1>2. /\ pc'[r] = "locking" /\ asked'[r] = op
      /\ seen'[r] = IF Serializable(op) THEN Snapshot(op, db) ELSE Empty
      /\ \A q \in Requests \ {r} :
           pc'[q] = pc[q] /\ asked'[q] = asked[q] /\ seen'[q] = seen[q]
  BY <1>1, Types DEF TxInv
<1>3. Consumed'
  BY <1>1 DEF ViewInv, Consumed
<1>4. ASSUME NEW q \in Requests \ {r} PROVE ViewOK(q)'
  BY <1>1, <1>2, <1>4, Unconcerned, Types DEF TxInv, ViewInv, Asking
<1>5. ViewOK(r)'
  <2>1. db \in Database /\ \A x \in Rows : holder[x] # r
    BY <1>1, Types DEF TxInv, IdleHoldsNothing
  <2>2. DecidedHolds(r)' /\ DecisionStands(r)'
    BY <1>2 DEF DecidedHolds, DecisionStands
  <2>3. HeldFresh(r)'
    BY <1>1, <1>2, <2>1, PartyKinds DEF HeldFresh, CoupleKinds, VehicleKinds, DriverKinds
  <2>4. ASSUME Serializable(op)
        PROVE  /\ op.kind \in CoupleKinds \cup VehicleKinds =>
                    /\ op.v \in seen'[r].inFleet <=> op.v \in db.inFleet
                    /\ op.v \in seen'[r].immobilized <=> op.v \in db.immobilized
                    /\ \A c \in db.usages : c[1] = op.v => c \in seen'[r].usages
                    /\ \A c \in db.reservations : c[1] = op.v => c \in seen'[r].reservations
               /\ op.kind \in CoupleKinds \cup DriverKinds =>
                    /\ op.d \in seen'[r].active <=> op.d \in db.active
                    /\ \A c \in db.usages : c[2] = op.d => c \in seen'[r].usages
                    /\ \A c \in db.reservations : c[2] = op.d => c \in seen'[r].reservations
    <3>1. /\ seen'[r].inFleet = db.inFleet \cap Concerned(op)
          /\ seen'[r].active = db.active \cap Concerned(op)
          /\ seen'[r].immobilized = db.immobilized \cap Concerned(op)
          /\ seen'[r].usages = Of(db.usages, op) /\ seen'[r].reservations = Of(db.reservations, op)
      BY <1>2, <2>4 DEF Snapshot
    <3> QED
      BY <3>1, OpParties DEF Of
  <2>5. VehicleFresh(r)'
    BY <1>1, <1>2, <2>4 DEF VehicleFresh, Serializable, CoupleKinds, VehicleKinds
  <2>6. DriverFresh(r)'
    BY <1>1, <1>2, <2>4 DEF DriverFresh, Serializable, CoupleKinds, DriverKinds
  <2>7. TablesFresh(r)'
    BY <1>1, <1>2, <2>4 DEF TablesFresh, Serializable, VehicleKinds, DriverKinds
  <2> QED
    BY <2>2, <2>3, <2>5, <2>6, <2>7 DEF ViewOK
<1> QED
  BY <1>3, <1>4, <1>5 DEF ViewInv

\* A lock is taken on a row whose version is that of the snapshot.
LEMMA LockReads ==
  ASSUME TxInv, ViewInv, NEW r \in Requests, NEW x \in Rows, Lock(r, x)
  PROVE  ViewInv'
<1>1. /\ Wants(r, x) /\ holder[x] = NoRequest /\ holder' = [holder EXCEPT ![x] = r]
      /\ x \notin stale[r]
      /\ UNCHANGED <<db, pc, asked, seen, stale, rivalry>>
  BY DEF Lock
<1>2. /\ holder'[x] = r /\ \A y \in Rows \ {x} : holder'[y] = holder[y]
      /\ pc[r] = "locking" /\ asked[r] \in Ops
  BY <1>1, Types, Wanted DEF TxInv
<1>3. \A q \in Requests, y \in Rows : q # r => (holder'[y] = q <=> holder[y] = q)
  BY <1>1, <1>2, Types DEF TxInv
<1>4. Consumed'
  BY <1>1 DEF ViewInv, Consumed
<1>5. ASSUME NEW q \in Requests \ {r} PROVE ViewOK(q)'
  BY <1>1, <1>3, <1>5, Unconcerned, Types DEF TxInv, ViewInv, Asking
<1>6. ViewOK(r)'
  <2>1. VehicleFresh(r)' /\ DriverFresh(r)' /\ TablesFresh(r)'
    BY <1>1 DEF ViewInv, ViewOK, VehicleFresh, DriverFresh, TablesFresh
  <2>2. DecidedHolds(r)' /\ DecisionStands(r)'
    BY <1>1, <1>2 DEF DecidedHolds, DecisionStands
  <2>3. \A y \in Rows : holder'[y] = r => holder[y] = r \/ y \notin stale[r]
    BY <1>1, <1>2
  <2>4. HeldFresh(r)'
    BY <1>1, <1>2, <2>3, PartyKinds
       DEF ViewInv, ViewOK, HeldFresh, CoupleKinds, VehicleKinds, DriverKinds
  <2> QED
    BY <2>1, <2>2, <2>4 DEF ViewOK
<1> QED
  BY <1>4, <1>5, <1>6 DEF ViewInv

\* A request that decides holds every row of its lock order.
LEMMA AllLocked ==
  ASSUME NEW r \in Requests, NEW op \in Ops,
         \A i \in DOMAIN LockOrder(op, db) : holder[LockOrder(op, db)[i]] = r
  PROVE  /\ op.kind \in {"depart", "return", "reserve"} \cup VehicleKinds => holder[op.v] = r
         /\ op.kind \in {"depart", "return", "reserve"} \cup DriverKinds => holder[op.d] = r
         /\ op.kind = "cancel" => holder[Couple(op)] = r
         /\ op.kind = "depart" /\ Couple(op) \in db.reservations => holder[Couple(op)] = r
<1>1. CASE op.kind = "depart" /\ Couple(op) \in db.reservations
  <2>1. LockOrder(op, db) = <<op.v, op.d, Couple(op)>>
    BY <1>1 DEF LockOrder
  <2> QED
    BY <1>1, <2>1
<1>2. CASE op.kind = "depart" /\ Couple(op) \notin db.reservations
  <2>1. LockOrder(op, db) = <<op.v, op.d>>
    BY <1>2 DEF LockOrder
  <2> QED
    BY <1>2, <2>1
<1>3. CASE op.kind \in {"return", "reserve"}
  <2>1. LockOrder(op, db) = <<op.v, op.d>>
    BY <1>3 DEF LockOrder
  <2> QED
    BY <1>3, <2>1
<1>4. CASE op.kind \in VehicleKinds
  <2>1. LockOrder(op, db) = <<op.v>>
    BY <1>4 DEF LockOrder, VehicleKinds
  <2> QED
    BY <1>4, <2>1 DEF VehicleKinds, DriverKinds
<1>5. CASE op.kind \in DriverKinds
  <2>1. LockOrder(op, db) = <<op.d>>
    BY <1>5 DEF LockOrder, DriverKinds
  <2> QED
    BY <1>5, <2>1 DEF VehicleKinds, DriverKinds
<1>6. CASE op.kind = "cancel"
  <2>1. LockOrder(op, db) = <<Couple(op)>>
    BY <1>6 DEF LockOrder
  <2> QED
    BY <1>6, <2>1 DEF VehicleKinds, DriverKinds
<1> QED
  BY <1>1, <1>2, <1>3, <1>4, <1>5, <1>6, Party DEF Kinds, CoupleKinds

\* A decision is taken under the locks, on what the request has read.
LEMMA DecideReads ==
  ASSUME TxInv, ViewInv, NEW r \in Requests, Decide(r)
  PROVE  ViewInv'
<1> DEFINE op == asked[r]  s == View(r)
<1>1. /\ pc[r] = "locking" /\ pc' = [pc EXCEPT ![r] = "decided"]
      /\ \A i \in DOMAIN LockOrder(op, db) : holder[LockOrder(op, db)[i]] = r
      /\ Allowed(op, s)
      /\ Serializable(op) =>
           \A x \in Versioned(op, s) \cap Couples : holder[x] \in {NoRequest, r}
      /\ seen' = [seen EXCEPT ![r] = s]
      /\ holder' = [x \in Rows |-> IF x \in Versioned(op, s) /\ x \in s.reservations
                                   THEN r ELSE holder[x]]
      /\ UNCHANGED <<db, asked, stale, rivalry>>
  BY DEF Decide
<1>2. s \in Database /\ op \in Ops /\ db \in Database /\ seen[r] \in Database
  BY <1>1, ViewType, Types DEF TxInv, Asking
<1>3. /\ pc'[r] = "decided" /\ seen'[r] = s
      /\ \A q \in Requests \ {r} : pc'[q] = pc[q] /\ seen'[q] = seen[q]
  BY <1>1, Types DEF TxInv
<1>4. /\ op.kind \in {"depart", "return", "reserve"} \cup VehicleKinds => holder[op.v] = r
      /\ op.kind \in {"depart", "return", "reserve"} \cup DriverKinds => holder[op.d] = r
      /\ op.kind = "cancel" => holder[Couple(op)] = r
      /\ op.kind = "depart" /\ Couple(op) \in db.reservations => holder[Couple(op)] = r
  BY <1>1, <1>2, AllLocked
<1>5. /\ ~Serializable(op) => s = Snapshot(op, db)
      /\ op.kind = "reserve" => s = [seen[r] EXCEPT !.reservations = Of(db.reservations, op)]
      /\ Serializable(op) /\ op.kind # "reserve" => s = seen[r]
  BY DEF View, Serializable
<1> HIDE DEF op, s
<1>6. ~Serializable(op) => Allowed(op, db)
  BY <1>1, <1>2, <1>5, SeenAllowed
<1>7. ASSUME NEW x \in Rows, x \in Versioned(op, s), x \in s.reservations
      PROVE  holder[x] \in {NoRequest, r}
  <2>1. x \in Couples
    BY <1>2, <1>7, Fields
  <2>2. CASE Serializable(op)
    BY <1>1, <1>7, <2>1, <2>2
  <2>3. CASE ~Serializable(op)
    <3>1. x \in db.reservations
      BY <1>5, <1>7, <2>3 DEF Snapshot, Of
    <3>2. op.kind \in {"depart", "return", "cancel", "reactivate"}
      BY <1>2, <2>3, Party DEF Serializable, Kinds, CoupleKinds, VehicleKinds, DriverKinds
    <3>3. op.kind # "reactivate" /\ x = Couple(op)
      BY <1>2, <1>7, <2>1, <3>2, PartyKinds DEF Versioned, CoupleKinds, DriverKinds
    <3>4. op.kind # "return"
      BY <1>2, <1>6, <2>3, <3>1, <3>3, AllowedFields DEF ViewInv, Consumed
    <3> QED
      BY <1>4, <3>1, <3>2, <3>3, <3>4
  <2> QED
    BY <2>2, <2>3
<1>8. /\ \A q \in Requests \ {r}, y \in Rows : holder'[y] = q <=> holder[y] = q
      /\ \A y \in Rows : holder[y] = r => holder'[y] = r
      /\ \A y \in Rows \ Couples : holder'[y] = holder[y]
  BY <1>1, <1>2, <1>7, Fields, Types DEF TxInv
<1>9. Consumed'
  BY <1>1 DEF ViewInv, Consumed
<1>10. ASSUME NEW q \in Requests \ {r} PROVE ViewOK(q)'
  <2>1. asked[q] \in Ops \/ pc[q] = "idle"
    BY <1>10 DEF TxInv, Asking
  <2>2. seen[q] \in Database /\ ViewOK(q)
    BY <1>10, Types DEF TxInv, ViewInv
  <2> QED
    BY <1>1, <1>3, <1>8, <1>10, <2>1, <2>2, Unconcerned
<1>11. ViewOK(r)'
  <2>1. asked[r] = op /\ asked'[r] = op /\ db' = db /\ stale' = stale /\ rivalry' = rivalry
        /\ pc[r] = "locking" /\ pc'[r] = "decided" /\ seen'[r] = s
    BY <1>1, <1>3 DEF op
  <2>2. Serializable(op) =>
          /\ s.inFleet = seen[r].inFleet /\ s.active = seen[r].active
          /\ s.usages = seen[r].usages /\ s.immobilized = seen[r].immobilized
          /\ op.kind # "reserve" => s.reservations = seen[r].reservations
    BY <1>2, <1>5 DEF Database
  <2>3. ViewOK(r)
    BY DEF ViewInv
  <2>4. VehicleFresh(r)'
    BY <2>1, <2>2, <2>3 DEF ViewOK, VehicleFresh, Serializable
  <2>5. DriverFresh(r)'
    BY <2>1, <2>2, <2>3 DEF ViewOK, DriverFresh, Serializable
  <2>6. TablesFresh(r)'
    BY <2>1, <2>2, <2>3 DEF ViewOK, TablesFresh, Serializable
  <2>7. HeldFresh(r)'
    BY <1>2, <1>8, <2>1, <2>3, PartyKinds
       DEF ViewOK, HeldFresh, CoupleKinds, VehicleKinds, DriverKinds
  <2>8. DecidedHolds(r)'
    <3>1. op.kind = "deactivate" =>
            \A c \in Of(s.reservations, op) : c \in Rows /\ holder'[c] = r
      BY <1>1, <1>2, Fields DEF Versioned, Of, Rows
    <3>2. Couple(asked'[r]) = Couple(op) /\ Of(seen'[r].reservations, asked'[r]) = Of(s.reservations, op)
      BY <2>1
    <3> QED
      BY <1>2, <1>4, <1>8, <2>1, <3>1, <3>2, PartyKinds
         DEF DecidedHolds, CoupleKinds, VehicleKinds, DriverKinds
  <2>9. DecisionStands(r)'
    <3>1. op.kind = "reserve" => Of(db.reservations, op) = {}
      <4> SUFFICES ASSUME op.kind = "reserve" PROVE Of(db.reservations, op) = {}
        OBVIOUS
      <4>1. s.reservations = Of(db.reservations, op)
        BY <1>2, <1>5 DEF Database
      <4>2. Of(s.reservations, op) = {}
        BY <1>1 DEF Allowed
      <4> QED
        BY <4>1, <4>2 DEF Of
    <3>2. /\ Serializable(asked'[r]) = Serializable(op)
          /\ Allowed(asked'[r], seen'[r]) = Allowed(op, s)
          /\ Allowed(asked'[r], db') = Allowed(op, db)
          /\ Of(db'.reservations, asked'[r]) = Of(db.reservations, op)
      BY <2>1
    <3> QED
      BY <1>1, <1>6, <2>1, <3>1, <3>2 DEF DecisionStands
  <2> QED
    BY <2>4, <2>5, <2>6, <2>7, <2>8, <2>9 DEF ViewOK
<1> QED
  BY <1>9, <1>10, <1>11 DEF ViewInv

\* What a request decided is still allowed when it can commit.
LEMMA CommitAllowed ==
  ASSUME TxInv, ViewInv, NEW r \in Requests, pc[r] = "decided", rivalry[r] # "doomed"
  PROVE  Allowed(asked[r], db)
<1> DEFINE op == asked[r]  s == seen[r]
<1> SUFFICES Allowed(op, db)
  OBVIOUS
<1>1. op \in Ops /\ s \in Database /\ db \in Database
  BY Types DEF TxInv, Asking
<1>2. /\ VehicleFresh(r) /\ DriverFresh(r) /\ HeldFresh(r) /\ TablesFresh(r)
      /\ DecidedHolds(r) /\ DecisionStands(r)
  BY DEF ViewInv, ViewOK
<1>3. CASE ~Serializable(op)
  BY <1>2, <1>3 DEF DecisionStands
<1>4. CASE op.kind = "reserve"
  <2>1. holder[op.v] = r /\ holder[op.d] = r
    BY <1>2, <1>4 DEF DecidedHolds
  <2>2. op.v \notin stale[r] /\ op.d \notin stale[r]
    BY <1>2, <1>4, <2>1 DEF HeldFresh
  <2>3. /\ op.v \in s.inFleet /\ op.d \in s.active
        /\ \A c \in s.usages : c[1] # op.v /\ c[2] # op.d
    <3>1. Allowed(op, s)
      BY <1>2, <1>4 DEF DecisionStands, Serializable
    <3> HIDE DEF op, s
    <3> QED
      BY <1>1, <1>4, <3>1, AllowedFields
  <2>4. /\ op.v \in s.inFleet <=> op.v \in db.inFleet
        /\ op.d \in s.active => op.d \in db.active
        /\ \A c \in db.usages : c[1] = op.v \/ c[2] = op.d => c \in s.usages
    BY <1>2, <1>4, <2>2 DEF VehicleFresh, DriverFresh
  <2>5. Of(db.reservations, op) = {}
    BY <1>2, <1>4 DEF DecisionStands
  <2> HIDE DEF op, s
  <2>6. \A c \in db.reservations : c[1] # op.v /\ c[2] # op.d
    BY <1>1, <1>4, <2>5, OfParties, Fields DEF CoupleKinds
  <2> QED
    BY <1>1, <1>4, <2>3, <2>4, <2>6, AllowedFields
<1>5. CASE op.kind = "exit"
  <2>1. op.v \notin stale[r]
    BY <1>2, <1>5 DEF DecidedHolds, HeldFresh, VehicleKinds
  <2>2. Allowed(op, s)
    BY <1>2, <1>5 DEF DecisionStands, Serializable
  <2>3. /\ op.v \in s.inFleet <=> op.v \in db.inFleet
        /\ \A c \in db.usages : c[1] = op.v => c \in s.usages
        /\ \A c \in db.reservations : c[1] = op.v => c \in s.reservations
        /\ op.v \in db.immobilized => op.v \in s.immobilized
    BY <1>2, <1>5, <2>1 DEF VehicleFresh, TablesFresh
  <2> HIDE DEF op, s
  <2> QED
    BY <1>1, <1>5, <2>2, <2>3, AllowedFields
<1>6. CASE op.kind = "restore"
  <2>1. op.v \notin stale[r]
    BY <1>2, <1>6 DEF DecidedHolds, HeldFresh, VehicleKinds
  <2>2. Allowed(op, s)
    BY <1>2, <1>6 DEF DecisionStands, Serializable
  <2>3. op.v \in s.inFleet <=> op.v \in db.inFleet
    BY <1>2, <1>6, <2>1 DEF VehicleFresh
  <2> HIDE DEF op, s
  <2> QED
    BY <1>1, <1>6, <2>2, <2>3, AllowedFields
<1>7. CASE op.kind = "deactivate"
  <2>1. op.d \notin stale[r]
    BY <1>2, <1>7 DEF DecidedHolds, HeldFresh, DriverKinds
  <2>2. Allowed(op, s)
    BY <1>2, <1>7 DEF DecisionStands, Serializable
  <2>3. /\ op.d \in s.active => op.d \in db.active
        /\ \A c \in db.usages : c[2] = op.d => c \in s.usages
    BY <1>2, <1>7, <2>1 DEF DriverFresh
  <2> HIDE DEF op, s
  <2> QED
    BY <1>1, <1>7, <2>2, <2>3, AllowedFields
<1>8. CASE op.kind \in {"immobilize", "release"}
  <2>1. Allowed(op, s)
    BY <1>2, <1>8 DEF DecisionStands, Serializable
  <2>2. op.kind = "release" => (op.v \in s.immobilized => op.v \in db.immobilized)
    BY <1>2 DEF TablesFresh
  <2> HIDE DEF op, s
  <2> QED
    BY <1>1, <1>8, <2>1, <2>2, AllowedFields
<1> QED
  BY <1>3, <1>4, <1>5, <1>6, <1>7, <1>8 DEF Serializable

\* The vehicle and the driver that a commit gives a new version are locked by it.
LEMMA VersionedHeld ==
  ASSUME TxInv, NEW r \in Requests, pc[r] = "decided", DecidedHolds(r),
         NEW x \in Vehicles \cup Drivers, x \in Versioned(asked[r], seen[r])
  PROVE  holder[x] = r
<1> DEFINE op == asked[r]
<1>1. op \in Ops /\ seen[r] \in Database
  BY Types DEF TxInv, Asking
<1>2. x \notin Couples
  BY OccupationTxAssumption
<1>3. /\ op.kind \in {"depart", "return"} => holder[op.v] = r /\ holder[op.d] = r
      /\ op.kind \in {"exit", "restore"} => holder[op.v] = r
      /\ op.kind \in {"deactivate", "reactivate"} => holder[op.d] = r
  BY DEF DecidedHolds, VehicleKinds, DriverKinds
<1> HIDE DEF op
<1>4. \/ op.kind \in {"depart", "return"} /\ x \in {op.v, op.d}
      \/ op.kind \in {"exit", "restore"} /\ x = op.v
      \/ op.kind \in {"deactivate", "reactivate"} /\ x = op.d
  <2>1. Of(seen[r].reservations, op) \subseteq Couples
    BY <1>1, Fields DEF Of
  <2>2. op.kind \in CoupleKinds => Couple(op) \in Couples
    BY <1>1, PartyKinds
  <2>3. x \in Versioned(op, seen[r]) /\ op.kind \in Kinds
    BY <1>1, Party DEF op
  <2> QED
    BY <1>2, <2>1, <2>2, <2>3 DEF Versioned, Kinds, CoupleKinds, VehicleKinds, DriverKinds
<1> QED
  BY <1>3, <1>4

\* What a commit changes in the database was locked by it, or read by nobody
\* else that can still commit.
LEMMA CommitBeside ==
  ASSUME TxInv, ViewInv, NEW r \in Requests, NEW q \in Requests \ {r}, Commit(r)
  PROVE  ViewOK(q)'
<1> DEFINE op == asked[r]  old == seen[r]  p == asked[q]  t == seen[q]
<1>1. /\ pc[r] = "decided" /\ rivalry[r] # "doomed" /\ db' = Effect(op, old, db)
      /\ Finish(r) /\ Forget(r)
      /\ stale' = [x \in Requests |->
           IF x = r THEN {}
           ELSE IF Running(x) THEN stale[x] \cup Versioned(op, old) ELSE stale[x]]
      /\ rivalry' = [x \in Requests |->
           IF x = r THEN "none"
           ELSE IF Running(x) /\ Serializable(op) THEN Rivalry(r, x) ELSE rivalry[x]]
  BY DEF Commit
<1>2. op \in Ops /\ old \in Database /\ db \in Database /\ t \in Database
  BY <1>1, Types DEF TxInv, Asking
<1>3. /\ pc'[q] = pc[q] /\ asked'[q] = p /\ seen'[q] = t /\ asked[q] = p /\ seen[q] = t
      /\ stale'[q] = IF Running(q) THEN stale[q] \cup Versioned(op, old) ELSE stale[q]
      /\ rivalry'[q] = IF Running(q) /\ Serializable(op) THEN Rivalry(r, q) ELSE rivalry[q]
      /\ \A y \in Rows : holder'[y] = q <=> holder[y] = q
  BY <1>1, Types DEF TxInv, Finish, Forget
<1>4. /\ VehicleFresh(q) /\ DriverFresh(q) /\ HeldFresh(q) /\ TablesFresh(q)
      /\ DecidedHolds(q) /\ DecisionStands(q) /\ DecidedHolds(r)
  BY DEF ViewInv, ViewOK
<1>5. CASE pc[q] = "idle"
  BY <1>3, <1>5 DEF ViewOK, VehicleFresh, DriverFresh, HeldFresh, TablesFresh,
                    DecidedHolds, DecisionStands
<1>6. CASE pc[q] # "idle"
  <2>1. p \in Ops
    BY <1>6 DEF TxInv, Asking
  <2>2. Running(q) <=> Serializable(p)
    BY <1>6 DEF Running
  <2>3. /\ op.kind \in {"depart", "return", "reserve"} \cup VehicleKinds => holder[op.v] = r
        /\ op.kind \in {"depart", "return", "reserve"} \cup DriverKinds => holder[op.d] = r
        /\ op.kind = "cancel" => holder[Couple(op)] = r
        /\ op.kind = "depart" /\ Couple(op) \in db.reservations => holder[Couple(op)] = r
        /\ op.kind = "deactivate" => \A c \in Of(old.reservations, op) : holder[c] = r
    BY <1>1, <1>4 DEF DecidedHolds
  <2>4. pc[q] = "decided" =>
          /\ p.kind \in {"depart", "return", "reserve"} \cup VehicleKinds => holder[p.v] = q
          /\ p.kind \in {"depart", "return", "reserve"} \cup DriverKinds => holder[p.d] = q
          /\ p.kind = "cancel" => holder[Couple(p)] = q
          /\ p.kind = "depart" /\ Couple(p) \in db.reservations => holder[Couple(p)] = q
          /\ p.kind = "deactivate" => \A c \in Of(t.reservations, p) : holder[c] = q
    BY <1>4 DEF DecidedHolds
  <2>5. \A x \in Vehicles \cup Drivers : x \in Versioned(op, old) => holder[x] = r
    BY <1>1, <1>4, VersionedHeld
  <2>6. \A y \in Rows : holder[y] = q => holder[y] # r
    OBVIOUS
  <2>7. \A x : Changed(op, old, db, db', x)
    BY <1>1, <1>2, EffectFields
  <2>8. db' \in Database
    BY <1>1, <1>2, EffectAdds
  <2>9. op.kind \in CoupleKinds => Couple(op)[1] = op.v /\ Couple(op)[2] = op.d
    BY <1>2, PartyKinds
  <2>10. /\ op.kind \in {"depart", "return", "exit", "restore"} => op.v \in Versioned(op, old)
         /\ op.kind \in {"depart", "return", "deactivate", "reactivate"} => op.d \in Versioned(op, old)
    BY DEF Versioned
  <2>11. /\ p.kind \in CoupleKinds \cup VehicleKinds => p.v \in Vehicles /\ p.v \in Rows
         /\ p.kind \in CoupleKinds \cup DriverKinds => p.d \in Drivers /\ p.d \in Rows
         /\ p.kind \in CoupleKinds => Couple(p) \in Rows /\ Couple(p)[1] = p.v /\ Couple(p)[2] = p.d
    BY <2>1, PartyKinds
  <2>12. rivalry'[q] # "doomed" =>
           /\ rivalry[q] # "doomed"
           /\ Running(q) /\ Serializable(op) =>
                ~(Meet(Reads(p), Writes(op, old)) /\ Meet(Reads(op), Writes(p, t)))
    BY <1>3 DEF Rivalry
  <2> HIDE DEF op, old, p, t
  <2>13. VehicleFresh(q)'
    <3> SUFFICES ASSUME p.kind \in {"reserve", "exit", "restore"}, p.v \notin stale'[q]
                 PROVE  /\ p.v \in t.inFleet <=> p.v \in db'.inFleet
                        /\ \A c \in db'.usages : c[1] = p.v => c \in t.usages
      BY <1>3 DEF VehicleFresh
    <3>1. p.v \notin stale[q] /\ p.v \notin Versioned(op, old)
      BY <1>3, <2>2 DEF Serializable
    <3>2. /\ p.v \in t.inFleet <=> p.v \in db.inFleet
          /\ \A c \in db.usages : c[1] = p.v => c \in t.usages
      BY <1>3, <1>4, <1>6, <3>1 DEF VehicleFresh
    <3> QED
      BY <2>7, <2>9, <2>10, <3>1, <3>2 DEF CoupleKinds, Changed
  <2>14. DriverFresh(q)'
    <3> SUFFICES ASSUME p.kind \in {"reserve", "deactivate"}, p.d \notin stale'[q]
                 PROVE  /\ p.d \in t.active => p.d \in db'.active
                        /\ \A c \in db'.usages : c[2] = p.d => c \in t.usages
      BY <1>3 DEF DriverFresh
    <3>1. p.d \notin stale[q] /\ p.d \notin Versioned(op, old)
      BY <1>3, <2>2 DEF Serializable
    <3>2. /\ p.d \in t.active => p.d \in db.active
          /\ \A c \in db.usages : c[2] = p.d => c \in t.usages
      BY <1>3, <1>4, <1>6, <3>1 DEF DriverFresh
    <3> QED
      BY <2>7, <2>9, <2>10, <3>1, <3>2 DEF CoupleKinds, Changed
  <2>15. HeldFresh(q)'
    <3>1. \A x \in Vehicles \cup Drivers : x \in stale'[q] /\ holder[x] = q => x \in stale[q]
      BY <1>3, <2>5
    <3> QED
      BY <1>3, <1>4, <1>6, <2>11, <3>1 DEF HeldFresh, CoupleKinds, VehicleKinds, DriverKinds
  <2>16. TablesFresh(q)'
    <3> SUFFICES ASSUME rivalry'[q] # "doomed"
                 PROVE  /\ p.kind = "exit" =>
                             /\ \A c \in db'.reservations : c[1] = p.v => c \in t.reservations
                             /\ p.v \in db'.immobilized => p.v \in t.immobilized
                        /\ p.kind = "release" =>
                             (p.v \in t.immobilized => p.v \in db'.immobilized)
                        /\ p.kind = "deactivate" =>
                             \A c \in db'.reservations : c[2] = p.d => c \in t.reservations
      BY <1>3 DEF TablesFresh
    <3>1. /\ p.kind = "exit" =>
               /\ \A c \in db.reservations : c[1] = p.v => c \in t.reservations
               /\ p.v \in db.immobilized => p.v \in t.immobilized
          /\ p.kind = "release" =>
               (p.v \in t.immobilized => p.v \in db.immobilized)
          /\ p.kind = "deactivate" =>
               \A c \in db.reservations : c[2] = p.d => c \in t.reservations
      BY <1>3, <1>4, <1>6, <2>12 DEF TablesFresh
    <3>2. Serializable(p) /\ Serializable(op) =>
            ~(Meet(Reads(p), Writes(op, old)) /\ Meet(Reads(op), Writes(p, t)))
      BY <2>2, <2>12
    <3>3. ~(p.kind = "exit" /\ op.kind \in {"reserve", "immobilize"} /\ op.v = p.v)
      BY <3>2 DEF Serializable, Meet, Reads, Writes, Both
    <3>4. ~(p.kind = "release" /\ op.kind = "release" /\ op.v = p.v)
      BY <3>2 DEF Serializable, Meet, Reads, Writes
    <3>5. ~(p.kind = "deactivate" /\ op.kind = "reserve" /\ op.d = p.d)
      BY <3>2 DEF Serializable, Meet, Reads, Writes, Both
    <3> QED
      BY <2>7, <2>9, <3>1, <3>3, <3>4, <3>5 DEF CoupleKinds, Changed
  <2>17. DecidedHolds(q)'
    <3> SUFFICES ASSUME pc[q] = "decided"
                 PROVE  /\ p.kind \in {"depart", "return", "reserve"} \cup VehicleKinds
                             => holder[p.v] = q
                        /\ p.kind \in {"depart", "return", "reserve"} \cup DriverKinds
                             => holder[p.d] = q
                        /\ p.kind = "cancel" => holder[Couple(p)] = q
                        /\ p.kind = "depart" /\ Couple(p) \in db'.reservations
                             => holder[Couple(p)] = q
                        /\ p.kind = "deactivate" => \A c \in Of(t.reservations, p) : holder[c] = q
      <4>1. \A c \in Of(t.reservations, p) : c \in Rows
        BY <1>2, Fields DEF Of, Rows
      <4>2. /\ Of(seen'[q].reservations, asked'[q]) = Of(t.reservations, p)
            /\ Couple(asked'[q]) = Couple(p)
        BY <1>3
      <4> QED
        BY <1>3, <2>11, <4>1, <4>2 DEF DecidedHolds, CoupleKinds, VehicleKinds, DriverKinds
    <3>1. p.kind = "depart" /\ Couple(p) \in db'.reservations => Couple(p) \in db.reservations
      BY <2>3, <2>4, <2>7, <2>9, <2>11 DEF CoupleKinds, Changed
    <3> QED
      BY <2>4, <3>1
  <2>18. DecisionStands(q)'
    <3> SUFFICES ASSUME pc[q] = "decided"
                 PROVE  /\ Serializable(p) => Allowed(p, t)
                        /\ p.kind = "reserve" => Of(db'.reservations, p) = {}
                        /\ ~Serializable(p) => Allowed(p, db')
      <4>1. /\ Serializable(asked'[q]) = Serializable(p)
            /\ Allowed(asked'[q], seen'[q]) = Allowed(p, t)
            /\ Allowed(asked'[q], db') = Allowed(p, db')
            /\ Of(db'.reservations, asked'[q]) = Of(db'.reservations, p)
        BY <1>3
      <4> QED
        BY <1>3, <4>1 DEF DecisionStands
    <3>1. /\ Serializable(p) => Allowed(p, t)
          /\ p.kind = "reserve" => Of(db.reservations, p) = {}
          /\ ~Serializable(p) => Allowed(p, db)
      BY <1>4, <1>6 DEF DecisionStands, p, t
    <3>2. p.kind = "reserve" => Of(db'.reservations, p) = {}
      <4> SUFFICES ASSUME p.kind = "reserve", NEW c \in Of(db'.reservations, p) PROVE FALSE
        OBVIOUS
      <4>1. c \in db'.reservations /\ (c[1] = p.v \/ c[2] = p.d)
        BY <2>1, <2>8, OfParties, Fields DEF CoupleKinds
      <4>2. c \notin db.reservations
        BY <1>2, <2>1, <3>1, <4>1, OfParties, Fields DEF CoupleKinds
      <4> QED
        BY <2>3, <2>4, <2>7, <2>9, <4>1, <4>2 DEF CoupleKinds, Changed
    <3>3. CASE p.kind = "depart"
      <4>1. Allowed(p, db) /\ holder[p.v] = q /\ holder[p.d] = q
        BY <2>4, <3>1, <3>3 DEF Serializable
      <4>2. /\ p.v \in db.inFleet /\ p.d \in db.active
            /\ \A c \in db.usages : c[1] # p.v /\ c[2] # p.d
            /\ \A c \in db.reservations : c[1] = p.v \/ c[2] = p.d => c = Couple(p)
        BY <1>2, <2>1, <3>3, <4>1, AllowedFields
      <4>3. /\ p.v \in db'.inFleet /\ p.d \in db'.active
            /\ \A c \in db'.usages : c[1] # p.v /\ c[2] # p.d
            /\ \A c \in db'.reservations : c[1] = p.v \/ c[2] = p.d => c = Couple(p)
        BY <2>3, <2>7, <2>9, <4>1, <4>2 DEF CoupleKinds, VehicleKinds, DriverKinds, Changed
      <4> QED
        BY <2>1, <2>8, <3>3, <4>3, AllowedFields DEF Serializable
    <3>4. CASE p.kind = "return"
      <4>1. Couple(p) \in db.usages /\ holder[p.v] = q
        BY <1>2, <2>1, <2>4, <3>1, <3>4, AllowedFields DEF Serializable
      <4>2. Couple(p) \in db'.usages
        BY <2>3, <2>7, <2>9, <2>11, <3>4, <4>1 DEF CoupleKinds, Changed
      <4> QED
        BY <2>1, <2>8, <3>4, <4>2, AllowedFields DEF Serializable
    <3>5. CASE p.kind = "cancel"
      <4>1. Couple(p) \in db.reservations /\ holder[Couple(p)] = q
        BY <1>2, <2>1, <2>4, <3>1, <3>5, AllowedFields DEF Serializable
      <4>2. Couple(p) \in db'.reservations
        BY <2>3, <2>7, <4>1 DEF Changed
      <4> QED
        BY <2>1, <2>8, <3>5, <4>2, AllowedFields DEF Serializable
    <3>6. CASE p.kind = "reactivate"
      <4>1. p.d \notin db.active /\ holder[p.d] = q
        BY <1>2, <2>1, <2>4, <3>1, <3>6, AllowedFields DEF Serializable, DriverKinds
      <4>2. p.d \notin db'.active
        BY <2>3, <2>7, <4>1 DEF DriverKinds, Changed
      <4> QED
        BY <2>1, <2>8, <3>6, <4>2, AllowedFields DEF Serializable
    <3>7. CASE Serializable(p)
      BY <3>1, <3>2, <3>7
    <3> QED
      BY <2>1, <3>3, <3>4, <3>5, <3>6, <3>7, Party
         DEF Serializable, Kinds, CoupleKinds, VehicleKinds, DriverKinds
  <2> QED
    BY <2>13, <2>14, <2>15, <2>16, <2>17, <2>18 DEF ViewOK
<1> QED
  BY <1>5, <1>6

\* Commit keeps what the others have read current.
LEMMA CommitReads ==
  ASSUME TxInv, ViewInv, NEW r \in Requests, Commit(r)
  PROVE  ViewInv'
<1> DEFINE op == asked[r]
<1>1. /\ pc[r] = "decided" /\ rivalry[r] # "doomed" /\ db' = Effect(op, seen[r], db)
      /\ Finish(r)
  BY DEF Commit
<1>2. op \in Ops /\ seen[r] \in Database /\ db \in Database
  BY <1>1, Types DEF TxInv, Asking
<1>3. ViewOK(r)'
  <2>1. pc'[r] = "idle"
    BY <1>1, Types DEF TxInv, Finish
  <2> QED
    BY <2>1 DEF ViewOK, VehicleFresh, DriverFresh, HeldFresh, TablesFresh,
                DecidedHolds, DecisionStands
<1>4. Consumed'
  <2>1. Allowed(op, db)
    BY <1>1, CommitAllowed
  <2>2. \A x : Changed(op, seen[r], db, db', x)
    BY <1>1, <1>2, EffectFields
  <2> HIDE DEF op
  <2>3. op.kind = "reserve" => Couple(op) \notin db.usages
    BY <1>2, <2>1, AllowedFields, PartyKinds DEF CoupleKinds
  <2> QED
    BY <2>2, <2>3 DEF ViewInv, Consumed, Changed
<1> QED
  BY <1>3, <1>4, CommitBeside DEF ViewInv

\* An abort changes nothing that the others have read.
LEMMA AbortReads ==
  ASSUME TxInv, ViewInv, NEW r \in Requests, Abort(r)
  PROVE  ViewInv'
<1>1. /\ Finish(r) /\ Forget(r) /\ db' = db
      /\ stale' = [stale EXCEPT ![r] = {}] /\ rivalry' = [rivalry EXCEPT ![r] = "none"]
  BY DEF Abort
<1>2. ViewOK(r)'
  <2>1. pc'[r] = "idle"
    BY <1>1, Types DEF TxInv, Finish
  <2> QED
    BY <2>1 DEF ViewOK, VehicleFresh, DriverFresh, HeldFresh, TablesFresh,
                DecidedHolds, DecisionStands
<1>3. ASSUME NEW q \in Requests \ {r} PROVE ViewOK(q)'
  <2>1. /\ pc'[q] = pc[q] /\ asked'[q] = asked[q] /\ seen'[q] = seen[q]
        /\ stale'[q] = stale[q] /\ rivalry'[q] = rivalry[q]
        /\ \A y \in Rows : holder'[y] = q <=> holder[y] = q
    BY <1>1, Types DEF TxInv, Finish, Forget
  <2>2. (asked[q] \in Ops \/ pc[q] = "idle") /\ seen[q] \in Database /\ ViewOK(q)
    BY <1>3, Types DEF TxInv, ViewInv, Asking
  <2> QED
    BY <1>1, <1>3, <2>1, <2>2, Unconcerned
<1> QED
  BY <1>1, <1>2, <1>3 DEF ViewInv, Consumed

\* The initial state satisfies the invariant.
LEMMA ViewInit == Init => ViewInv
BY DEF Init, Empty, ViewInv, Consumed, ViewOK, VehicleFresh, DriverFresh, HeldFresh,
       TablesFresh, DecidedHolds, DecisionStands

\* Every step keeps it.
LEMMA ViewNext == TxInv /\ ViewInv /\ [Next]_vars => ViewInv'
<1> SUFFICES ASSUME TxInv, ViewInv, [Next]_vars PROVE ViewInv'
  OBVIOUS
<1>1. CASE Next
  BY <1>1, BeginReads, LockReads, DecideReads, CommitReads, AbortReads DEF Next
<1>2. CASE UNCHANGED vars
  <2>1. UNCHANGED <<db, pc, asked, seen, stale, rivalry, holder>>
    BY <1>2 DEF vars, txVars
  <2>2. ASSUME NEW q \in Requests PROVE ViewOK(q)'
    <3>1. (asked[q] \in Ops \/ pc[q] = "idle") /\ seen[q] \in Database /\ ViewOK(q)
      BY Types DEF TxInv, ViewInv, Asking
    <3> QED
      BY <2>1, <3>1, Unconcerned
  <2> QED
    BY <2>1, <2>2 DEF ViewInv, Consumed
<1> QED
  BY <1>1, <1>2

\* What a committing request has read is what the atomic operation would read.
LEMMA CommitPerforms ==
  ASSUME TxInv, ViewInv, NEW r \in Requests, Commit(r)
  PROVE  AtomicNext
<1> DEFINE op == asked[r]  s == seen[r]
<1>1. pc[r] = "decided" /\ rivalry[r] # "doomed" /\ db' = Effect(op, s, db)
  BY DEF Commit
<1>2. op \in Ops /\ s \in Database /\ db \in Database
  BY <1>1, Types DEF TxInv, Asking
<1>3. Allowed(op, db)
  BY <1>1, CommitAllowed
<1>4. op.kind = "deactivate" =>
        \A c \in db.reservations : c[2] = op.d => c \in s.reservations
  BY <1>1 DEF ViewInv, ViewOK, TablesFresh
<1> HIDE DEF op, s
<1>5. Effect(op, s, db) = Effect(op, db, db)
  <2>1. CASE op.kind = "deactivate"
    <3>1. db.reservations \ Of(s.reservations, op) = db.reservations \ Of(db.reservations, op)
      BY <1>2, <1>4, <2>1, OfParties, Fields DEF DriverKinds
    <3> QED
      BY <2>1, <3>1 DEF Effect
  <2>2. CASE op.kind # "deactivate"
    BY <1>2, <2>2, Party DEF Effect, Kinds, CoupleKinds, VehicleKinds, DriverKinds
  <2> QED
    BY <2>1, <2>2
<1> QED
  BY <1>1, <1>2, <1>3, <1>5 DEF AtomicNext, Perform

\* Whatever the interleaving of the requests, what they commit is what the
\* operations would do one after the other (D-016): the locks, the versions of
\* the locked rows and the rivalry of serializable transactions are enough.
THEOREM Serialized == Spec => AtomicSpec
<1>1. Init => AtomicInit
  BY DEF Init, AtomicInit
<1>2. TxInv /\ ViewInv /\ [Next]_vars => [AtomicNext]_db
  <2> SUFFICES ASSUME TxInv, ViewInv, Next PROVE AtomicNext \/ UNCHANGED db
    BY DEF vars
  <2> QED
    BY CommitPerforms DEF Next, Begin, Lock, Decide, Abort
<1> QED
  BY <1>1, <1>2, TxInit, TxNext, ViewInit, ViewNext, PTL DEF Spec, AtomicSpec

\* So no interleaving of transactions breaks a promise.
THEOREM PromisesKept == Spec => []PromisesHonoured
BY Serialized, PromisesSafe, PTL
=============================================================================
