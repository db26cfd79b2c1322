---------------------------- MODULE OccupationTx ----------------------------
(***************************************************************************)
(* The transactions behind Commitments: row locks taken in a constant      *)
(* order, two isolation levels, and PostgreSQL under them.                 *)
(*                                                                         *)
(* A departure and a return run in READ COMMITTED: each statement reads    *)
(* the latest committed state, and the locked rows get a new version       *)
(* (lockVehicleForWrite, lockDriverForWrite).  The others run SERIALIZABLE *)
(* on the snapshot of their first statement, the one that asks for the     *)
(* lock, or are a single READ COMMITTED write.                             *)
(*                                                                         *)
(* External, as the code relies on it: FOR UPDATE waits for the holder and *)
(* fails with 40001 when a newer version of the row was committed after    *)
(* the snapshot; a commit fails when it would close a dangerous structure  *)
(* of read-write dependencies among serializable transactions.  A failed   *)
(* transaction is over: withRetries runs it again as a new one.            *)
(***************************************************************************)
EXTENDS Commitments, Integers

CONSTANTS
  Requests,   \* the requests that may run at the same time
  Asked,      \* the kinds of operations they ask for
  NoRequest

ASSUME OccupationTxAssumption ==
  /\ Asked \subseteq Kinds /\ NoRequest \notin Requests
  /\ Vehicles \cap Drivers = {} /\ (Vehicles \cup Drivers) \cap Couples = {}

VARIABLES
  pc,      \* of each request: "idle", "locking" or "decided"
  asked,   \* its operation
  seen,    \* its snapshot, then the state it decided on
  stale,   \* rows with a version newer than its snapshot
  rivalry, \* of each request with the serializable transactions committed since
           \* its snapshot: "none", "out" (one wrote what it read) or "doomed"
  holder   \* of each row lock

txVars == <<pc, asked, seen, stale, rivalry, holder>>
vars == <<db, txVars>>

Rows == Vehicles \cup Drivers \cup Couples   \* a couple: its confirmed reservation

NoOp == [kind |-> "none"]

TypeOK ==
  /\ db \in Database
  /\ pc \in [Requests -> {"idle", "locking", "decided"}]
  /\ asked \in [Requests -> Ops \cup {NoOp}]
  /\ seen \in [Requests -> Database]
  /\ stale \in [Requests -> SUBSET Rows]
  /\ rivalry \in [Requests -> {"none", "out", "doomed"}]
  /\ holder \in [Rows -> Requests \cup {NoRequest}]

Init ==
  /\ db = Empty
  /\ pc = [r \in Requests |-> "idle"]
  /\ asked = [r \in Requests |-> NoOp]
  /\ seen = [r \in Requests |-> Empty]
  /\ stale = [r \in Requests |-> {}]
  /\ rivalry = [r \in Requests |-> "none"]
  /\ holder = [x \in Rows |-> NoRequest]

----------------------------------------------------------------------------
(* Operations and the rows and tables they touch *)

Serializable(op) ==
  op.kind \in {"reserve", "exit", "restore", "deactivate", "immobilize", "release"}

\* Mutant of LockOrder: the return locks the driver before the vehicle.
ReturnLocksDriverFirst(op, s) ==
  CASE op.kind = "depart" ->
         IF Couple(op) \in s.reservations THEN <<op.v, op.d, Couple(op)>> ELSE <<op.v, op.d>>
    [] op.kind = "return" -> <<op.d, op.v>>
    [] op.kind = "reserve" -> <<op.v, op.d>>
    [] op.kind \in {"exit", "restore", "immobilize", "release"} -> <<op.v>>
    [] op.kind \in {"deactivate", "reactivate"} -> <<op.d>>
    [] op.kind = "cancel" -> <<Couple(op)>>

\* Mutant of LockOrder: the departure locks the driver only.
DepartLocksDriverOnly(op, s) ==
  CASE op.kind = "depart" ->
         IF Couple(op) \in s.reservations THEN <<op.d, Couple(op)>> ELSE <<op.d>>
    [] op.kind \in {"return", "reserve"} -> <<op.v, op.d>>
    [] op.kind \in {"exit", "restore", "immobilize", "release"} -> <<op.v>>
    [] op.kind \in {"deactivate", "reactivate"} -> <<op.d>>
    [] op.kind = "cancel" -> <<Couple(op)>>

\* Rows locked first, in this order: the vehicle, the driver, then the
\* reservation that a departure converts or a cancellation closes.
LockOrder(op, s) ==
  CASE op.kind = "depart" ->
         IF Couple(op) \in s.reservations THEN <<op.v, op.d, Couple(op)>> ELSE <<op.v, op.d>>
    [] op.kind \in {"return", "reserve"} -> <<op.v, op.d>>
    [] op.kind \in {"exit", "restore", "immobilize", "release"} -> <<op.v>>
    [] op.kind \in {"deactivate", "reactivate"} -> <<op.d>>
    [] op.kind = "cancel" -> <<Couple(op)>>

\* Mutant of Versioned: a departure and a return lock their rows without
\* writing them.
VersionedByValueOnly(op, s) ==
  CASE op.kind \in {"depart", "return"} -> {Couple(op)}
    [] op.kind \in {"exit", "restore"} -> {op.v}
    [] op.kind = "deactivate" -> {op.d} \cup Of(s.reservations, op)
    [] op.kind = "reactivate" -> {op.d}
    [] op.kind = "cancel" -> {Couple(op)}
    [] op.kind \in {"reserve", "immobilize", "release"} -> {}

\* Rows that get a new version when the operation commits.
Versioned(op, s) ==
  CASE op.kind \in {"depart", "return"} -> {op.v, op.d, Couple(op)}
    [] op.kind \in {"exit", "restore"} -> {op.v}
    [] op.kind = "deactivate" -> {op.d} \cup Of(s.reservations, op)
    [] op.kind = "reactivate" -> {op.d}
    [] op.kind = "cancel" -> {Couple(op)}
    [] op.kind \in {"reserve", "immobilize", "release"} -> {}

Both(table, op) == {<<table, op.v>>, <<table, op.d>>}

\* What a serializable operation reads and writes, as predicates on tables.
Reads(op) ==
  CASE op.kind = "reserve" -> Both("row", op) \cup Both("usage", op) \cup {<<"immobilization", op.v>>}
    [] op.kind = "exit" ->
         {<<"row", op.v>>, <<"usage", op.v>>, <<"reservation", op.v>>, <<"immobilization", op.v>>}
    [] op.kind = "restore" -> {<<"row", op.v>>}
    [] op.kind = "deactivate" -> {<<"row", op.d>>, <<"usage", op.d>>, <<"reservation", op.d>>}
    [] op.kind \in {"immobilize", "release"} -> {<<"row", op.v>>, <<"immobilization", op.v>>}

Writes(op, s) ==
  CASE op.kind = "reserve" -> Both("reservation", op)
    [] op.kind \in {"exit", "restore"} -> {<<"row", op.v>>}
    [] op.kind = "deactivate" ->
         {<<"row", op.d>>, <<"reservation", op.d>>}
           \cup {<<"reservation", c[1]>> : c \in Of(s.reservations, op)}
    [] op.kind \in {"immobilize", "release"} -> {<<"immobilization", op.v>>}

\* Departures and reservations refuse an immobilized vehicle.
Available(op, s) == op.kind \in {"depart", "reserve"} => op.v \notin s.immobilized

Meet(a, b) == a \cap b # {}

\* Mutant of Rivalry: snapshot isolation.
NeverRivals(r, q) == rivalry[q]

\* What the commit of the serializable r does to q, which runs beside it: a
\* dangerous structure has q, or r, as its pivot, and its last member commits
\* first.
Rivalry(r, q) ==
  LET out == Meet(Reads(asked[q]), Writes(asked[r], seen[r]))
      in == Meet(Reads(asked[r]), Writes(asked[q], seen[q]))
  IN
  IF \/ out /\ rivalry[r] = "out"
     \/ in /\ (out \/ rivalry[q] = "out")
  THEN "doomed"
  ELSE IF out /\ rivalry[q] = "none" THEN "out" ELSE rivalry[q]

----------------------------------------------------------------------------

\* What a request can see of the state s: the rows it names, and theirs.
Snapshot(op, s) ==
  [inFleet |-> s.inFleet \cap Concerned(op), active |-> s.active \cap Concerned(op),
   usages |-> Of(s.usages, op), reservations |-> Of(s.reservations, op),
   immobilized |-> s.immobilized \cap Concerned(op)]

\* The request reaches the database: a serializable one takes its snapshot
\* when it asks for its first lock.
Begin(r, op) ==
  /\ pc[r] = "idle" /\ op.kind \in Asked
  /\ pc' = [pc EXCEPT ![r] = "locking"]
  /\ asked' = [asked EXCEPT ![r] = op]
  /\ seen' = [seen EXCEPT ![r] = IF Serializable(op) THEN Snapshot(op, db) ELSE Empty]
  /\ UNCHANGED <<db, stale, rivalry, holder>>

\* The next row of the order that r does not hold yet is x.
Wants(r, x) ==
  LET order == LockOrder(asked[r], db) IN
  /\ pc[r] = "locking"
  /\ \E i \in DOMAIN order :
       order[i] = x /\ holder[x] # r /\ \A j \in 1..(i - 1) : holder[order[j]] = r

\* FOR UPDATE on that row, once nobody else holds it.
Lock(r, x) ==
  /\ Wants(r, x)
  /\ holder[x] = NoRequest
  /\ x \notin stale[r]
  /\ holder' = [holder EXCEPT ![x] = r]
  /\ UNCHANGED <<db, pc, asked, seen, stale, rivalry>>

\* What the checks read: the snapshot of a serializable operation, the latest
\* state for the others; the exclusion constraints of Reservation look at the
\* latest state whatever the snapshot.
View(r) ==
  IF ~Serializable(asked[r]) THEN Snapshot(asked[r], db)
  ELSE IF asked[r].kind = "reserve" THEN [seen[r] EXCEPT !.reservations = Of(db.reservations, asked[r])]
  ELSE seen[r]

\* The checks and the writes, under the locks.
Decide(r) ==
  LET op == asked[r]
      s  == View(r)
  IN
  /\ pc[r] = "locking"
  /\ \A i \in DOMAIN LockOrder(op, db) : holder[LockOrder(op, db)[i]] = r
  /\ Allowed(op, s) /\ Available(op, s)
  /\ LET written == Versioned(op, s) \cap Couples IN
       Serializable(op) =>
         written \cap stale[r] = {} /\ \A x \in written : holder[x] \in {NoRequest, r}
  /\ pc' = [pc EXCEPT ![r] = "decided"]
  /\ seen' = [seen EXCEPT ![r] = s]
  /\ holder' = [x \in Rows |-> IF x \in Versioned(op, s) /\ x \in s.reservations THEN r ELSE holder[x]]
  /\ UNCHANGED <<db, asked, stale, rivalry>>

Forget(r) ==
  /\ asked' = [asked EXCEPT ![r] = NoOp]
  /\ seen' = [seen EXCEPT ![r] = Empty]

\* Mutant of Finish: a status that no request has.
FinishAsDone(r) ==
  /\ pc' = [pc EXCEPT ![r] = "done"]
  /\ holder' = [x \in Rows |-> IF holder[x] = r THEN NoRequest ELSE holder[x]]

\* The request ends: its locks are released.
Finish(r) ==
  /\ pc' = [pc EXCEPT ![r] = "idle"]
  /\ holder' = [x \in Rows |-> IF holder[x] = r THEN NoRequest ELSE holder[x]]

Running(q) == pc[q] # "idle" /\ Serializable(asked[q])

Commit(r) ==
  LET op == asked[r] IN
  /\ pc[r] = "decided"
  /\ rivalry[r] # "doomed"
  /\ db' = Effect(op, seen[r], db)
  /\ Finish(r)
  /\ stale' = [q \in Requests |->
       IF q = r THEN {}
       ELSE IF Running(q) THEN stale[q] \cup Versioned(op, seen[r]) ELSE stale[q]]
  /\ rivalry' = [q \in Requests |->
       IF q = r THEN "none"
       ELSE IF Running(q) /\ Serializable(op) THEN Rivalry(r, q) ELSE rivalry[q]]
  /\ Forget(r)

\* A refusal of the checks, a failed commit (40001, 40P01), a lost connection.
Abort(r) ==
  /\ pc[r] # "idle"
  /\ Finish(r)
  /\ stale' = [stale EXCEPT ![r] = {}]
  /\ rivalry' = [rivalry EXCEPT ![r] = "none"]
  /\ Forget(r)
  /\ UNCHANGED db

Next ==
  \E r \in Requests :
    \/ \E op \in Ops : Begin(r, op)
    \/ \E x \in Rows : Lock(r, x)
    \/ Decide(r) \/ Commit(r) \/ Abort(r)

Spec == Init /\ [][Next]_vars

----------------------------------------------------------------------------
(* Properties *)

\* A departure, which reads under its locks, never commits on a vehicle that
\* is immobilized at that instant.
DeparturesAvailable ==
  [][\A c \in db'.usages \ db.usages : c[1] \notin db.immobilized]_vars

\* A request waits for the holder of the row it wants, and an update waits for
\* whoever has locked a reservation it cancels.
WaitsFor(r, q) ==
  /\ r # q
  /\ \/ \E x \in Rows : Wants(r, x) /\ holder[x] = q
     \/ /\ pc[r] = "locking" /\ asked[r].kind = "deactivate" /\ holder[asked[r].d] = r
        /\ \E c \in Of(seen[r].reservations, asked[r]) : holder[c] = q

\* The constant order of the locks (13.3): no set of requests waits for itself.
NoDeadlock ==
  \A waiting \in (SUBSET Requests) \ {{}} :
    \E r \in waiting : \A q \in waiting : ~WaitsFor(r, q)

============================================================================
