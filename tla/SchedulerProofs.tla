--------------------------- MODULE SchedulerProofs ---------------------------
(***************************************************************************)
(* One scheduled task is executed by one worker at a time, for any number  *)
(* of workers, any lengths of slots, leases and runs, and any number of    *)
(* stops, delays and renewals that fail.  A worker whose renewals have not *)
(* failed and that was not held up holds the lease for as long as it runs; *)
(* while that is true of all, the rows of a slot are those of interrupted  *)
(* executions, then one more.                                              *)
(***************************************************************************)
EXTENDS Scheduler, SequenceTheorems, WellFoundedInduction, TLAPS

\* Whoever runs without having been held up or a renewal that failed holds a lease
\* not yet expired.
Holds ==
  \A w \in Workers :
    Running(w) /\ ~worker[w].stalled => lease.holder = w /\ lease.expiresAt > now

\* A delay in the middle of a run is remembered.
StallsSeen == \A w \in Workers : w \in suspended /\ Running(w) => worker[w].stalled

LockInv == TypeOK /\ Holds /\ StallsSeen

\* As long as nothing was held up: only the latest row of a slot may be
\* other than that of an interrupted execution.
LatestCounts ==
  \A i, j \in DOMAIN jobs :
    i < j /\ jobs[i].slot = jobs[j].slot => jobs[i].status = "ABANDONNE"

\* What each step of a run knows of the rows.
Known(w) ==
  /\ worker[w].step = "settling" =>
       /\ worker[w].job \in OfSlot(worker[w].slot)
       /\ \A j \in OfSlot(worker[w].slot) : j <= worker[w].job
       /\ jobs[worker[w].job].status = "EN_COURS"
  /\ worker[w].step = "creating" =>
       \A i \in OfSlot(worker[w].slot) : jobs[i].status = "ABANDONNE"
  /\ worker[w].step = "working" => worker[w].job = Len(jobs) /\ jobs # <<>>

Undisturbed ==
  stalls = 0 =>
    /\ \A w \in Workers : ~worker[w].stalled
    /\ LatestCounts
    /\ \A w \in Workers : Known(w)

IInv == LockInv /\ Undisturbed

----------------------------------------------------------------------------
(* Slots and rows *)

\* The slot of an instant is a natural number that does not decrease.
LEMMA SlotsGrow ==
  ASSUME NEW P \in Nat \ {0}, NEW a \in Nat, NEW b \in Nat, a <= b
  PROVE  a \div P \in 0..(b \div P)
OBVIOUS

Less == {p \in Nat \X Nat : p[1] < p[2]}

\* A set of natural numbers has a least element.
LEMMA LeastNatural ==
  ASSUME NEW T \in SUBSET Nat, T # {}
  PROVE  \E m \in T : \A n \in T : m <= n
<1>1. IsWellFoundedOn(Less, Nat)
  BY NatLessThanWellFounded DEF OpToRel, Less
<1>2. PICK m \in T : \A n \in T : ~ (<<n, m>> \in Less)
  BY <1>1, WFMin
<1>3. ASSUME NEW n \in T PROVE m <= n
  <2>1. <<n, m>> \notin Less /\ <<n, m>> \in Nat \X Nat
    BY <1>2
  <2>2. ~(n < m)
    BY <2>1 DEF Less
  <2> QED
    BY <2>2
<1> QED
  BY <1>3

\* A function on 1..n is a sequence of length n.
LEMMA FunctionIsSeq ==
  ASSUME NEW S, NEW n \in Nat, NEW f \in [1..n -> S]
  PROVE  f \in Seq(S) /\ Len(f) = n
OBVIOUS

\* The journal of runs as a function on its indices.
LEMMA Rows ==
  ASSUME jobs \in Seq(JobRow)
  PROVE  /\ Len(jobs) \in Nat /\ DOMAIN jobs = 1..Len(jobs) /\ jobs \in [1..Len(jobs) -> JobRow]
         /\ \A i \in 1..Len(jobs) : jobs[i] \in JobRow
<1>1. Len(jobs) \in Nat /\ DOMAIN jobs = 1..Len(jobs) /\ jobs \in [1..Len(jobs) -> JobRow]
  BY LenProperties
<1> QED
  BY <1>1

\* The latest run of a slot that has one is the last of them.
LEMMA LatestRow ==
  ASSUME jobs \in Seq(JobRow), NEW s, OfSlot(s) # {}
  PROVE  Latest(s) \in OfSlot(s) /\ \A j \in OfSlot(s) : j <= Latest(s)
<1>1. OfSlot(s) \subseteq 1..Len(jobs) /\ Len(jobs) \in Nat
  BY Rows DEF OfSlot
<1> DEFINE n == Len(jobs)  back == {n - i : i \in OfSlot(s)}
<1>2. back \in SUBSET Nat /\ back # {}
  BY <1>1
<1>3. PICK m \in back : \A k \in back : m <= k
  BY <1>2, LeastNatural
<1>4. PICK i \in OfSlot(s) : m = n - i
  BY <1>3
<1>5. ASSUME NEW j \in OfSlot(s) PROVE j <= i
  <2>1. n - j \in back
    OBVIOUS
  <2>2. n - i <= n - j /\ i \in Nat /\ j \in Nat /\ n \in Nat
    BY <1>1, <1>3, <1>4, <2>1
  <2> QED
    BY <2>2
<1> QED
  BY <1>5 DEF Latest

\* A row gets another status.
WithStatus(i, status) == [jobs EXCEPT ![i].status = status]

\* A run whose status changes, field by field.
LEMMA RowWithStatus ==
  ASSUME NEW row \in JobRow, NEW status
  PROVE  [row EXCEPT !.status = status] =
           [slot |-> row.slot, status |-> status, lockedUntil |-> row.lockedUntil]
BY DEF JobRow

\* Setting the status of one run leaves the others, and every slot, as they are.
LEMMA StatusSet ==
  ASSUME jobs \in Seq(JobRow), NEW i \in Nat,
         NEW status \in {"EN_COURS", "TERMINE", "ECHEC", "ABANDONNE"},
         jobs' = WithStatus(i, status)
  PROVE  /\ jobs' \in Seq(JobRow) /\ Len(jobs') = Len(jobs) /\ DOMAIN jobs' = DOMAIN jobs
         /\ \A j \in DOMAIN jobs :
              /\ jobs'[j].slot = jobs[j].slot
              /\ jobs'[j].status = (IF j = i THEN status ELSE jobs[j].status)
<1>1. Len(jobs) \in Nat /\ DOMAIN jobs = 1..Len(jobs) /\ jobs \in [1..Len(jobs) -> JobRow]
  BY Rows
<1>2. ASSUME NEW j \in 1..Len(jobs)
      PROVE  /\ jobs'[j] \in JobRow /\ jobs'[j].slot = jobs[j].slot
             /\ jobs'[j].status = (IF j = i THEN status ELSE jobs[j].status)
  <2>1. jobs[j] \in JobRow
    BY <1>1
  <2>2. jobs'[j] = IF j = i THEN [jobs[j] EXCEPT !.status = status] ELSE jobs[j]
    BY <1>1 DEF WithStatus
  <2>3. [jobs[j] EXCEPT !.status = status] =
          [slot |-> jobs[j].slot, status |-> status, lockedUntil |-> jobs[j].lockedUntil]
    BY <2>1, RowWithStatus
  <2>4. [slot |-> jobs[j].slot, status |-> status, lockedUntil |-> jobs[j].lockedUntil] \in JobRow
    BY <2>1 DEF JobRow
  <2> QED
    BY <2>1, <2>2, <2>3, <2>4
<1>3. jobs' \in [1..Len(jobs) -> JobRow]
  BY <1>1, <1>2 DEF WithStatus
<1>4. jobs' \in Seq(JobRow) /\ Len(jobs') = Len(jobs)
  BY <1>1, <1>3, FunctionIsSeq
<1>5. DOMAIN jobs' = DOMAIN jobs
  BY <1>1, <1>3
<1> QED
  BY <1>1, <1>2, <1>4, <1>5

----------------------------------------------------------------------------
(* One worker moves *)

Steps == {"asleep", "awake", "leased", "settling", "creating", "working"}
RunSteps == {"leased", "settling", "creating", "working"}
WorkerRow(n) == [step : Steps, slot : 0..Slot(Horizon), at : 0..Horizon, job : 0..n,
                 stalled : BOOLEAN]
LeaseRow == [holder : Workers \cup {Gone}, expiresAt : 0..(Horizon + LeaseTicks)]

\* The type invariant with the rows of the workers as functions.
LEMMA Typed ==
  TypeOK <=> /\ now \in 0..Horizon /\ lease \in LeaseRow /\ jobs \in Seq(JobRow)
             /\ worker \in [Workers -> WorkerRow(Len(jobs))]
             /\ suspended \subseteq Workers
             /\ stops \in 0..MaxStops /\ stalls \in 0..MaxStalls
BY DEF TypeOK, LeaseRow, WorkerRow, Steps

\* A worker is running exactly in the steps of a run.
LEMMA RunningStep == \A w : Running(w) <=> worker[w].step \in RunSteps
BY DEF Running, RunSteps

\* What the lock asks of an action of worker w, which ends in a row of its own.
LEMMA LockKeeps ==
  ASSUME LockInv, NEW w \in Workers, NEW row \in WorkerRow(Len(jobs')),
         worker' = [worker EXCEPT ![w] = row],
         jobs' \in Seq(JobRow), Len(jobs) <= Len(jobs'),
         now' = now, lease' \in LeaseRow, suspended' \subseteq Workers,
         stops' \in 0..MaxStops, stalls' \in 0..MaxStalls,
         suspended' \ {w} = suspended \ {w},
         row.step \in RunSteps /\ ~row.stalled => lease'.holder = w /\ lease'.expiresAt > now,
         w \in suspended' /\ row.step \in RunSteps => row.stalled,
         lease' = lease \/ lease.holder = w \/ lease.expiresAt <= now
  PROVE  LockInv'
<1>1. /\ worker \in [Workers -> WorkerRow(Len(jobs))] /\ jobs \in Seq(JobRow)
      /\ lease \in LeaseRow /\ now \in 0..Horizon /\ Horizon \in Nat
  BY Typed, SchedulerAssumption DEF LockInv
<1>2. worker'[w] = row /\ \A q \in Workers \ {w} : worker'[q] = worker[q]
  BY <1>1
<1>3. WorkerRow(Len(jobs)) \subseteq WorkerRow(Len(jobs'))
  <2>1. Len(jobs) \in Nat /\ Len(jobs') \in Nat
    BY <1>1, LenProperties
  <2>2. 0..Len(jobs) \subseteq 0..Len(jobs')
    BY <2>1
  <2> QED
    BY <2>2 DEF WorkerRow
<1>4. worker' \in [Workers -> WorkerRow(Len(jobs'))]
  BY <1>1, <1>2, <1>3
<1>5. TypeOK'
  BY <1>1, <1>4 DEF TypeOK, LeaseRow, WorkerRow, Steps
<1>6. ASSUME NEW q \in Workers, worker'[q].step \in RunSteps, ~worker'[q].stalled
      PROVE  lease'.holder = q /\ lease'.expiresAt > now'
  <2>1. CASE q = w
    BY <1>2, <1>6, <2>1
  <2>2. CASE q # w
    <3>1. lease.holder = q /\ lease.expiresAt > now
      BY <1>2, <1>6, <2>2, RunningStep DEF LockInv, Holds
    <3>2. lease.expiresAt \in Int /\ now \in Int
      BY <1>1, SchedulerAssumption DEF LeaseRow
    <3> QED
      BY <2>2, <3>1, <3>2
  <2> QED
    BY <2>1, <2>2
<1>7. ASSUME NEW q \in Workers, q \in suspended', worker'[q].step \in RunSteps
      PROVE  worker'[q].stalled
  <2>1. CASE q = w
    BY <1>2, <1>7, <2>1
  <2>2. CASE q # w
    BY <1>2, <1>7, <2>2, RunningStep DEF LockInv, StallsSeen
  <2> QED
    BY <2>1, <2>2
<1>8. Holds' /\ StallsSeen'
  BY <1>6, <1>7 DEF Holds, StallsSeen, Running, RunSteps
<1> QED
  BY <1>5, <1>8 DEF LockInv

\* Two workers that were not held up and have renewed their lease never run
\* together.
LEMMA Exclusive ==
  ASSUME LockInv PROVE OneRunner
BY DEF LockInv, Holds, OneRunner

\* Without a stall, a running worker is the only one.
LEMMA Alone ==
  ASSUME IInv, stalls = 0, NEW w \in Workers, Running(w), NEW q \in Workers, q # w
  PROVE  ~Running(q)
BY Exclusive DEF IInv, Undisturbed, OneRunner

\* And what the rows ask of it.
LEMMA RowsKeep ==
  ASSUME IInv, NEW w \in Workers, NEW row,
         worker' = [worker EXCEPT ![w] = row],
         stalls' = 0 => stalls = 0,
         stalls = 0 =>
           /\ jobs' = jobs \/ Running(w)
           /\ jobs' = jobs \/ LatestCounts'
           /\ Known(w)'
           /\ ~row.stalled
  PROVE  Undisturbed'
<1>1. worker \in [Workers -> WorkerRow(Len(jobs))]
  BY Typed DEF IInv, LockInv
<1>2. worker'[w] = row /\ \A q \in Workers \ {w} : worker'[q] = worker[q]
  BY <1>1
<1> SUFFICES ASSUME stalls = 0, stalls' = 0
             PROVE  /\ \A q \in Workers : ~worker'[q].stalled
                    /\ LatestCounts'
                    /\ \A q \in Workers : Known(q)'
  BY DEF Undisturbed
<1>3. \A q \in Workers : ~worker'[q].stalled
  BY <1>2 DEF IInv, Undisturbed
<1>4. LatestCounts'
  BY DEF IInv, Undisturbed, LatestCounts
<1>5. ASSUME NEW q \in Workers PROVE Known(q)'
  <2>1. CASE q = w
    BY <2>1
  <2>2. CASE q # w /\ jobs' = jobs
    <3>1. worker'[q] = worker[q] /\ Known(q)
      BY <1>2, <2>2 DEF IInv, Undisturbed
    <3> QED
      BY <2>2, <3>1 DEF Known, OfSlot
  <2>3. CASE q # w /\ Running(w)
    <3>1. ~Running(q) /\ worker'[q] = worker[q]
      BY <1>2, <2>3, Alone
    <3> QED
      BY <3>1 DEF Known, Running
  <2> QED
    BY <2>1, <2>2, <2>3
<1> QED
  BY <1>3, <1>4, <1>5

----------------------------------------------------------------------------
(* The actions of a worker *)

\* The types of what the actions of a worker write.
LEMMA Values ==
  ASSUME TypeOK, NEW w \in Workers
  PROVE  /\ Slot(now) \in 0..Slot(Horizon) /\ now \in 0..Horizon /\ Len(jobs) \in Nat
         /\ Taken(w) \in LeaseRow /\ Taken(w).holder = w /\ Taken(w).expiresAt > now
         /\ worker[w] \in WorkerRow(Len(jobs)) /\ worker \in [Workers -> WorkerRow(Len(jobs))]
         /\ \A n \in Nat : Asleep \in WorkerRow(n)
         /\ Asleep.step \notin RunSteps /\ Asleep.stalled = FALSE /\ Asleep.step = "asleep"
<1>1. now \in 0..Horizon /\ Horizon \in Nat /\ Period \in Nat \ {0} /\ LeaseTicks \in Nat \ {0}
  BY SchedulerAssumption DEF TypeOK
<1>2. Slot(now) \in 0..Slot(Horizon) /\ Slot(Horizon) \in 0..Slot(Horizon)
  BY <1>1, SlotsGrow DEF Slot
<1>3. Taken(w) \in LeaseRow /\ Taken(w).holder = w /\ Taken(w).expiresAt > now
  BY <1>1 DEF Taken, LeaseRow
<1>4. Len(jobs) \in Nat
  BY LenProperties DEF TypeOK
<1>5. worker \in [Workers -> WorkerRow(Len(jobs))]
  BY Typed
<1>6. 0 \in 0..Slot(Horizon) /\ 0 \in 0..Horizon
  BY <1>1, <1>2
<1>7. \A n \in Nat : Asleep \in WorkerRow(n)
  BY <1>6 DEF Asleep, WorkerRow, Steps, NoJob
<1> QED
  BY <1>1, <1>2, <1>3, <1>4, <1>5, <1>7 DEF Asleep, RunSteps

\* An action after which the worker sleeps.
LEMMA SleepKeeps ==
  ASSUME IInv, NEW w \in Workers, worker' = [worker EXCEPT ![w] = Asleep],
         jobs' \in Seq(JobRow), Len(jobs') = Len(jobs),
         jobs' = jobs \/ (Running(w) /\ (stalls = 0 => LatestCounts')),
         now' = now, lease' \in LeaseRow,
         lease' = lease \/ lease.holder = w,
         suspended' \subseteq Workers, suspended' \ {w} = suspended \ {w},
         stops' \in 0..MaxStops, stalls' = stalls
  PROVE  IInv'
<1>1. TypeOK /\ jobs \in Seq(JobRow) /\ Len(jobs) \in Nat /\ stalls \in 0..MaxStalls
  BY LenProperties DEF IInv, LockInv, TypeOK
<1>2. /\ Asleep \in WorkerRow(Len(jobs)) /\ Asleep.step = "asleep" /\ Asleep.stalled = FALSE
      /\ "asleep" \notin RunSteps /\ worker'[w] = Asleep
  BY <1>1, Values DEF RunSteps
<1>3. LockInv'
  <2>1. Len(jobs) <= Len(jobs') /\ LockInv /\ Asleep \in WorkerRow(Len(jobs'))
    BY <1>1, <1>2 DEF IInv
  <2> QED
    BY <1>1, <1>2, <2>1, LockKeeps
<1>4. Known(w)'
  BY <1>2 DEF Known
<1>5. Undisturbed'
  BY <1>2, <1>4, RowsKeep
<1> QED
  BY <1>3, <1>5 DEF IInv

\* Wake keeps the invariant.
LEMMA WakeKeeps ==
  ASSUME IInv, NEW w \in Workers, Wake(w)
  PROVE  IInv'
<1>1. /\ TypeOK /\ jobs \in Seq(JobRow) /\ Len(jobs) \in Nat /\ Len(jobs) <= Len(jobs)
      /\ LockInv /\ suspended \subseteq Workers /\ stops \in 0..MaxStops
      /\ stalls \in 0..MaxStalls /\ lease \in LeaseRow /\ w \notin suspended
  BY LenProperties DEF IInv, LockInv, TypeOK, LeaseRow, Wake, At
<1>2. CASE ~Free(w)
  <2>1. /\ jobs' = jobs /\ jobs' \in Seq(JobRow) /\ Len(jobs') = Len(jobs)
        /\ lease' = lease /\ lease' \in LeaseRow /\ now' = now
        /\ suspended' \subseteq Workers /\ suspended' \ {w} = suspended \ {w}
        /\ stops' \in 0..MaxStops /\ stalls' = stalls
        /\ worker' = [worker EXCEPT ![w] = Asleep]
    BY <1>1, <1>2 DEF Wake
  <2> QED
    BY <2>1, SleepKeeps
<1>3. CASE Free(w)
  <2> DEFINE row == [step |-> "leased", slot |-> Slot(now), at |-> worker[w].at,
                     job |-> worker[w].job, stalled |-> worker[w].stalled]
  <2>1. /\ worker[w] \in WorkerRow(Len(jobs)) /\ Slot(now) \in 0..Slot(Horizon)
        /\ worker \in [Workers -> WorkerRow(Len(jobs))]
    BY <1>1, Values
  <2>2. row \in WorkerRow(Len(jobs)) /\ row.step = "leased" /\ row.stalled = worker[w].stalled
    BY <2>1 DEF WorkerRow, Steps
  <2>3. worker' = [worker EXCEPT ![w] = row]
    <3>1. [worker[w] EXCEPT !.step = "leased"] =
            [step |-> "leased", slot |-> worker[w].slot, at |-> worker[w].at,
             job |-> worker[w].job, stalled |-> worker[w].stalled]
      BY <2>1 DEF WorkerRow
    <3>2. [[step |-> "leased", slot |-> worker[w].slot, at |-> worker[w].at,
            job |-> worker[w].job, stalled |-> worker[w].stalled]
             EXCEPT !.slot = Slot(now)] = row
      OBVIOUS
    <3>3. [worker[w] EXCEPT !.step = "leased", !.slot = Slot(now)] = row
      BY <3>1, <3>2
    <3>4. worker' = [worker EXCEPT ![w] = [worker[w] EXCEPT !.step = "leased", !.slot = Slot(now)]]
      BY <1>3 DEF Wake
    <3> QED
      BY <3>3, <3>4
  <2> HIDE DEF row
  <2>4. /\ lease' = Taken(w) /\ Taken(w) \in LeaseRow /\ Taken(w).holder = w
        /\ Taken(w).expiresAt > now
        /\ jobs' = jobs /\ now' = now /\ suspended' = suspended /\ stops' = stops
        /\ stalls' = stalls
    BY <1>1, <1>3, Values DEF Wake
  <2>5. LockInv'
    BY <1>1, <1>3, <2>2, <2>3, <2>4, LockKeeps DEF Free
  <2>6. Known(w)' /\ (stalls = 0 => ~row.stalled)
    <3>1. worker'[w] = row
      BY <2>1, <2>3
    <3> QED
      BY <2>2, <3>1 DEF Known, IInv, Undisturbed
  <2>7. Undisturbed'
    BY <2>3, <2>4, <2>6, RowsKeep
  <2> QED
    BY <2>5, <2>7 DEF IInv
<1> QED
  BY <1>2, <1>3

\* Renew keeps the invariant.
LEMMA RenewKeeps ==
  ASSUME IInv, NEW w \in Workers, Renew(w)
  PROVE  IInv'
<1>1. /\ TypeOK /\ jobs \in Seq(JobRow) /\ Len(jobs) \in Nat /\ Len(jobs) <= Len(jobs)
      /\ LockInv /\ suspended \subseteq Workers /\ stops \in 0..MaxStops
      /\ stalls \in 0..MaxStalls /\ (w \in suspended => worker[w].stalled)
  BY LenProperties DEF IInv, LockInv, TypeOK, StallsSeen, Renew
<1>2. /\ worker[w] \in WorkerRow(Len(jobs))
      /\ worker \in [Workers -> WorkerRow(Len(jobs))]
      /\ Taken(w) \in LeaseRow /\ Taken(w).holder = w /\ Taken(w).expiresAt > now
  BY <1>1, Values
<1>3. worker' = [worker EXCEPT ![w] = worker[w]]
  BY <1>2 DEF Renew
<1>4. LockInv'
  BY <1>1, <1>2, <1>3, LockKeeps DEF Renew, Free
<1>5. Undisturbed'
  BY DEF IInv, Undisturbed, Renew, LatestCounts, Known, OfSlot
<1> QED
  BY <1>4, <1>5 DEF IInv

\* An action after which the worker still runs.
LEMMA RunKeeps ==
  ASSUME IInv, NEW w \in Workers, Running(w), w \notin suspended,
         NEW row \in WorkerRow(Len(jobs')), worker' = [worker EXCEPT ![w] = row],
         row.step \in RunSteps, row.stalled = worker[w].stalled,
         jobs' \in Seq(JobRow), Len(jobs) <= Len(jobs'),
         UNCHANGED <<now, lease, suspended, stops, stalls>>,
         stalls = 0 => (jobs' = jobs \/ LatestCounts') /\ Known(w)'
  PROVE  IInv'
<1>1. /\ LockInv /\ suspended \subseteq Workers /\ stops \in 0..MaxStops
      /\ stalls \in 0..MaxStalls /\ lease \in LeaseRow
  BY DEF IInv, LockInv, TypeOK, LeaseRow
<1>2. ~row.stalled => lease.holder = w /\ lease.expiresAt > now
  BY <1>1 DEF LockInv, Holds
<1>3. LockInv'
  BY <1>1, <1>2, LockKeeps
<1>4. stalls = 0 => ~row.stalled
  BY DEF IInv, Undisturbed
<1>5. Undisturbed'
  BY <1>4, RowsKeep
<1> QED
  BY <1>3, <1>5 DEF IInv

\* LookUp keeps the invariant.
LEMMA LookUpKeeps ==
  ASSUME IInv, NEW w \in Workers, LookUp(w)
  PROVE  IInv'
<1> DEFINE s == worker[w].slot
<1>1. /\ TypeOK /\ jobs \in Seq(JobRow) /\ Len(jobs) \in Nat
      /\ w \notin suspended /\ worker[w].step = "leased" /\ Running(w)
      /\ lease \in LeaseRow /\ suspended \subseteq Workers /\ stops \in 0..MaxStops
      /\ now \in 0..Horizon
  BY LenProperties DEF IInv, LockInv, TypeOK, LeaseRow, LookUp, At, Running
<1>2. /\ worker[w] \in WorkerRow(Len(jobs))
      /\ worker \in [Workers -> WorkerRow(Len(jobs))]
  BY <1>1, Values
<1>3. /\ jobs' = jobs /\ jobs' \in Seq(JobRow) /\ Len(jobs') = Len(jobs)
      /\ Len(jobs) <= Len(jobs')
      /\ UNCHANGED <<now, lease, suspended, stops, stalls>>
  BY <1>1 DEF LookUp
<1>4. CASE OfSlot(s) = {}
  <2> DEFINE row == [step |-> "creating", slot |-> s, at |-> now, job |-> worker[w].job,
                     stalled |-> worker[w].stalled]
  <2>1. row \in WorkerRow(Len(jobs))
    BY <1>1, <1>2 DEF WorkerRow, Steps
  <2>2. worker' = [worker EXCEPT ![w] = row]
    <3>1. [worker[w] EXCEPT !.step = "creating"] =
            [step |-> "creating", slot |-> worker[w].slot, at |-> worker[w].at,
             job |-> worker[w].job, stalled |-> worker[w].stalled]
      BY <1>2 DEF WorkerRow
    <3>2. [[step |-> "creating", slot |-> worker[w].slot, at |-> worker[w].at,
            job |-> worker[w].job, stalled |-> worker[w].stalled]
             EXCEPT !.at = now] = row
      OBVIOUS
    <3>3. [worker[w] EXCEPT !.step = "creating", !.at = now] = row
      BY <3>1, <3>2
    <3>4. worker' = [worker EXCEPT ![w] = [worker[w] EXCEPT !.step = "creating", !.at = now]]
      BY <1>4 DEF LookUp
    <3> QED
      BY <3>3, <3>4
  <2>3. row.step = "creating" /\ row.slot = s /\ row.stalled = worker[w].stalled
    OBVIOUS
  <2> HIDE DEF row
  <2>4. Known(w)'
    <3>1. worker'[w] = row
      BY <1>2, <2>2
    <3> QED
      BY <1>3, <1>4, <2>3, <3>1 DEF Known, OfSlot
  <2> QED
    BY <1>1, <1>3, <2>1, <2>2, <2>3, <2>4, RunKeeps DEF RunSteps
<1>5. CASE OfSlot(s) # {} /\ Interrupted(Latest(s))
  <2> DEFINE row == [step |-> "settling", slot |-> s, at |-> now, job |-> Latest(s),
                     stalled |-> worker[w].stalled]
  <2>1. Latest(s) \in OfSlot(s) /\ \A j \in OfSlot(s) : j <= Latest(s)
    BY <1>1, <1>5, LatestRow
  <2>2. Latest(s) \in 0..Len(jobs) /\ jobs[Latest(s)].status = "EN_COURS"
    BY <1>1, <1>5, <2>1, Rows DEF OfSlot, Interrupted
  <2>3. row \in WorkerRow(Len(jobs))
    BY <1>1, <1>2, <2>2 DEF WorkerRow, Steps
  <2>4. worker' = [worker EXCEPT ![w] = row]
    <3>1. [worker[w] EXCEPT !.step = "settling"] =
            [step |-> "settling", slot |-> worker[w].slot, at |-> worker[w].at,
             job |-> worker[w].job, stalled |-> worker[w].stalled]
      BY <1>2 DEF WorkerRow
    <3>2. [[[step |-> "settling", slot |-> worker[w].slot, at |-> worker[w].at,
             job |-> worker[w].job, stalled |-> worker[w].stalled]
              EXCEPT !.at = now] EXCEPT !.job = Latest(s)] = row
      <4>1. [[step |-> "settling", slot |-> worker[w].slot, at |-> worker[w].at,
              job |-> worker[w].job, stalled |-> worker[w].stalled] EXCEPT !.at = now]
              = [step |-> "settling", slot |-> worker[w].slot, at |-> now,
                 job |-> worker[w].job, stalled |-> worker[w].stalled]
        OBVIOUS
      <4>2. [[step |-> "settling", slot |-> worker[w].slot, at |-> now,
              job |-> worker[w].job, stalled |-> worker[w].stalled]
               EXCEPT !.job = Latest(s)] = row
        OBVIOUS
      <4> QED
        BY <4>1, <4>2
    <3>3. [worker[w] EXCEPT !.step = "settling", !.at = now, !.job = Latest(s)] = row
      BY <3>1, <3>2
    <3>4. worker' = [worker EXCEPT ![w] =
            [worker[w] EXCEPT !.step = "settling", !.at = now, !.job = Latest(s)]]
      BY <1>5 DEF LookUp
    <3> QED
      BY <3>3, <3>4
  <2>5. /\ row.step = "settling" /\ row.slot = s /\ row.job = Latest(s)
        /\ row.stalled = worker[w].stalled
    OBVIOUS
  <2> HIDE DEF row
  <2>6. Known(w)'
    <3>1. worker'[w] = row
      BY <1>2, <2>4
    <3> DEFINE l == Latest(s)
    <3>2. /\ l \in OfSlot(s) /\ jobs[l].status = "EN_COURS" /\ row.job = l
          /\ \A j \in OfSlot(s) : j <= l
      BY <2>1, <2>2, <2>5
    <3> HIDE DEF l
    <3> QED
      BY <1>3, <2>5, <3>1, <3>2 DEF Known, OfSlot
  <2> QED
    BY <1>1, <1>3, <2>3, <2>4, <2>5, <2>6, RunKeeps DEF RunSteps
<1>6. CASE OfSlot(s) # {} /\ ~Interrupted(Latest(s))
  <2>1. worker' = [worker EXCEPT ![w] = Asleep]
    BY <1>6 DEF LookUp
  <2>2. /\ lease' = lease /\ lease' \in LeaseRow /\ now' = now
        /\ suspended' \subseteq Workers /\ suspended' \ {w} = suspended \ {w}
        /\ stops' \in 0..MaxStops /\ stalls' = stalls
    BY <1>1, <1>3
  <2> QED
    BY <1>3, <2>1, <2>2, SleepKeeps
<1> QED
  BY <1>4, <1>5, <1>6

\* Settle keeps the invariant.
LEMMA SettleKeeps ==
  ASSUME IInv, NEW w \in Workers, Settle(w)
  PROVE  IInv'
<1> DEFINE i == worker[w].job  s == worker[w].slot
           row == [step |-> "creating", slot |-> s, at |-> worker[w].at, job |-> NoJob,
                   stalled |-> worker[w].stalled]
<1>1. /\ TypeOK /\ jobs \in Seq(JobRow) /\ Len(jobs) \in Nat
      /\ w \notin suspended /\ worker[w].step = "settling" /\ Running(w)
  BY LenProperties DEF IInv, LockInv, TypeOK, Settle, At, Running
<1>2. /\ worker[w] \in WorkerRow(Len(jobs))
      /\ worker \in [Workers -> WorkerRow(Len(jobs))]
  BY <1>1, Values
<1>3. i \in Nat /\ DOMAIN jobs = 1..Len(jobs)
  BY <1>1, <1>2, Rows DEF WorkerRow
<1>4. /\ jobs' \in Seq(JobRow) /\ Len(jobs') = Len(jobs) /\ DOMAIN jobs' = DOMAIN jobs
      /\ \A j \in DOMAIN jobs :
           /\ jobs'[j].slot = jobs[j].slot
           /\ jobs'[j].status = (IF j = i /\ jobs[i].status = "EN_COURS" THEN "ABANDONNE"
                                 ELSE jobs[j].status)
  <2>1. CASE jobs[i].status = "EN_COURS"
    <3>1. jobs' = [jobs EXCEPT ![i].status = "ABANDONNE"]
      BY <2>1 DEF Settle
    <3> HIDE DEF i
    <3> DEFINE status == "ABANDONNE"
    <3>2. status \in {"EN_COURS", "TERMINE", "ECHEC", "ABANDONNE"} /\ i \in Nat
      BY <1>3
    <3>3. jobs' = WithStatus(i, status)
      BY <3>1 DEF WithStatus
    <3> HIDE DEF status
    <3>4. /\ jobs' \in Seq(JobRow) /\ Len(jobs') = Len(jobs) /\ DOMAIN jobs' = DOMAIN jobs
          /\ \A j \in DOMAIN jobs :
               /\ jobs'[j].slot = jobs[j].slot
               /\ jobs'[j].status = (IF j = i THEN status ELSE jobs[j].status)
      BY <1>1, <3>2, <3>3, StatusSet
    <3> QED
      BY <2>1, <3>4 DEF status
  <2>2. CASE jobs[i].status # "EN_COURS"
    BY <1>1, <2>2 DEF Settle
  <2> QED
    BY <2>1, <2>2
<1>5. row \in WorkerRow(Len(jobs'))
  BY <1>1, <1>2, <1>4 DEF WorkerRow, Steps, NoJob
<1>6. worker' = [worker EXCEPT ![w] = row]
  <2>1. [worker[w] EXCEPT !.step = "creating"] =
          [step |-> "creating", slot |-> worker[w].slot, at |-> worker[w].at,
           job |-> worker[w].job, stalled |-> worker[w].stalled]
    BY <1>2 DEF WorkerRow
  <2>2. [[step |-> "creating", slot |-> worker[w].slot, at |-> worker[w].at,
          job |-> worker[w].job, stalled |-> worker[w].stalled]
           EXCEPT !.job = NoJob] = row
    OBVIOUS
  <2>3. [[worker[w] EXCEPT !.step = "creating"] EXCEPT !.job = NoJob] = row
    BY <2>1, <2>2
  <2>4. worker' = [worker EXCEPT ![w] =
          [[worker[w] EXCEPT !.step = "creating"] EXCEPT !.job = NoJob]]
    BY <1>2 DEF Settle
  <2> QED
    BY <2>3, <2>4
<1>7. row.step = "creating" /\ row.slot = s /\ row.stalled = worker[w].stalled
  OBVIOUS
<1> HIDE DEF row, i, s
<1>8. ASSUME stalls = 0 PROVE LatestCounts' /\ Known(w)'
  <2>1. /\ i \in OfSlot(s) /\ \A j \in OfSlot(s) : j <= i
        /\ jobs[i].status = "EN_COURS"
        /\ LatestCounts
    BY <1>1, <1>8 DEF IInv, Undisturbed, Known, i, s
  <2>2. LatestCounts'
    BY <1>4, <2>1 DEF LatestCounts
  <2>3. \A j \in DOMAIN jobs : jobs[j].slot = s => jobs'[j].status = "ABANDONNE"
    <3> SUFFICES ASSUME NEW j \in DOMAIN jobs, jobs[j].slot = s
                 PROVE  jobs'[j].status = "ABANDONNE"
      OBVIOUS
    <3>1. CASE j = i
      BY <1>4, <2>1, <3>1
    <3>2. CASE j # i
      <4>1. j <= i /\ j \in Nat /\ i \in DOMAIN jobs /\ jobs[i].slot = s
        BY <1>3, <2>1 DEF OfSlot
      <4>2. j < i
        BY <1>3, <3>2, <4>1
      <4>3. jobs[j].status = "ABANDONNE"
        BY <2>1, <4>1, <4>2 DEF LatestCounts
      <4> QED
        BY <1>4, <3>2, <4>3
    <3> QED
      BY <3>1, <3>2
  <2>4. worker'[w] = row
    BY <1>2, <1>6
  <2>5. Known(w)'
    BY <1>4, <1>7, <2>3, <2>4 DEF Known, OfSlot
  <2> QED
    BY <2>2, <2>5
<1>9. /\ UNCHANGED <<now, lease, suspended, stops, stalls>>
      /\ row.step \in RunSteps /\ Len(jobs) <= Len(jobs') /\ jobs' \in Seq(JobRow)
  BY <1>1, <1>4, <1>7 DEF Settle, RunSteps
<1> QED
  BY <1>1, <1>5, <1>6, <1>7, <1>8, <1>9, RunKeeps

\* Create keeps the invariant.
LEMMA CreateKeeps ==
  ASSUME IInv, NEW w \in Workers, Create(w)
  PROVE  IInv'
<1> DEFINE s == worker[w].slot
           new == [slot |-> s, status |-> "EN_COURS", lockedUntil |-> worker[w].at + StaleTicks]
           row == [step |-> "working", slot |-> s, at |-> worker[w].at, job |-> Len(jobs) + 1,
                   stalled |-> worker[w].stalled]
<1>1. /\ TypeOK /\ jobs \in Seq(JobRow) /\ Len(jobs) \in Nat
      /\ w \notin suspended /\ worker[w].step = "creating" /\ Running(w)
      /\ lease \in LeaseRow /\ suspended \subseteq Workers /\ stops \in 0..MaxStops
  BY LenProperties DEF IInv, LockInv, TypeOK, LeaseRow, Create, At, Running
<1>2. /\ worker[w] \in WorkerRow(Len(jobs))
      /\ worker \in [Workers -> WorkerRow(Len(jobs))]
  BY <1>1, Values
<1>3. CASE \E i \in OfSlot(worker[w].slot) : jobs[i].status = "EN_COURS"
  <2>1. /\ worker' = [worker EXCEPT ![w] = Asleep]
        /\ jobs' = jobs /\ jobs' \in Seq(JobRow) /\ Len(jobs') = Len(jobs)
        /\ lease' = lease /\ lease' \in LeaseRow /\ now' = now
        /\ suspended' \subseteq Workers /\ suspended' \ {w} = suspended \ {w}
        /\ stops' \in 0..MaxStops /\ stalls' = stalls
    BY <1>1, <1>3 DEF Create
  <2> QED
    BY <2>1, SleepKeeps
<1>4. CASE ~ \E i \in OfSlot(worker[w].slot) : jobs[i].status = "EN_COURS"
  <2>1. new \in JobRow
    <3>1. worker[w].at + StaleTicks \in 0..(Horizon + StaleTicks)
      BY <1>2, SchedulerAssumption DEF WorkerRow
    <3> QED
      BY <1>2, <3>1 DEF WorkerRow, JobRow
  <2>2. jobs' = Append(jobs, new)
    BY <1>4 DEF Create
  <2>3. /\ jobs' \in Seq(JobRow) /\ Len(jobs') = Len(jobs) + 1 /\ Len(jobs) <= Len(jobs')
        /\ DOMAIN jobs = 1..Len(jobs) /\ DOMAIN jobs' = 1..(Len(jobs) + 1)
        /\ \A j \in 1..Len(jobs) : jobs'[j] = jobs[j]
        /\ jobs'[Len(jobs) + 1].slot = s
    <3> HIDE DEF new
    <3>1. /\ Append(jobs, new) \in Seq(JobRow) /\ Len(Append(jobs, new)) = Len(jobs) + 1
          /\ \A j \in 1..Len(jobs) : Append(jobs, new)[j] = jobs[j]
          /\ Append(jobs, new)[Len(jobs) + 1] = new
      BY <1>1, <2>1, AppendProperties
    <3>2. DOMAIN jobs = 1..Len(jobs) /\ DOMAIN Append(jobs, new) = 1..(Len(jobs) + 1)
      BY <1>1, <3>1, LenProperties
    <3>3. new.slot = s
      BY DEF new
    <3> QED
      BY <1>1, <2>2, <3>1, <3>2, <3>3
  <2>4. worker' = [worker EXCEPT ![w] = row]
    <3>1. [worker[w] EXCEPT !.step = "working"] =
            [step |-> "working", slot |-> worker[w].slot, at |-> worker[w].at,
             job |-> worker[w].job, stalled |-> worker[w].stalled]
      BY <1>2 DEF WorkerRow
    <3>2. [[step |-> "working", slot |-> worker[w].slot, at |-> worker[w].at,
            job |-> worker[w].job, stalled |-> worker[w].stalled]
             EXCEPT !.job = Len(jobs) + 1] = row
      OBVIOUS
    <3>3. [[worker[w] EXCEPT !.step = "working"] EXCEPT !.job = Len(jobs) + 1] = row
      BY <3>1, <3>2
    <3>4. worker' = [worker EXCEPT ![w] =
            [[worker[w] EXCEPT !.step = "working"] EXCEPT !.job = Len(jobs) + 1]]
      BY <1>2, <1>4 DEF Create
    <3> QED
      BY <3>3, <3>4
  <2>5. row \in WorkerRow(Len(jobs'))
    <3>1. Len(jobs) + 1 \in 0..Len(jobs')
      BY <1>1, <2>3
    <3> QED
      BY <1>2, <3>1 DEF WorkerRow, Steps
  <2>6. row.step = "working" /\ row.job = Len(jobs) + 1 /\ row.stalled = worker[w].stalled
    OBVIOUS
  <2> HIDE DEF row, new, s
  <2>7. ASSUME stalls = 0 PROVE LatestCounts' /\ Known(w)'
    <3>1. LatestCounts /\ \A i \in OfSlot(s) : jobs[i].status = "ABANDONNE"
      BY <1>1, <2>7 DEF IInv, Undisturbed, Known, s
    <3>2. ASSUME NEW i \in DOMAIN jobs', NEW j \in DOMAIN jobs', i < j,
                 jobs'[i].slot = jobs'[j].slot
          PROVE  jobs'[i].status = "ABANDONNE"
      <4>1. i \in 1..Len(jobs) /\ jobs'[i] = jobs[i] /\ i \in DOMAIN jobs
        BY <1>1, <2>3, <3>2
      <4>2. CASE j = Len(jobs) + 1
        BY <2>3, <3>1, <3>2, <4>1, <4>2 DEF OfSlot
      <4>3. CASE j \in 1..Len(jobs)
        BY <2>3, <3>1, <3>2, <4>1, <4>3 DEF LatestCounts
      <4> QED
        BY <1>1, <2>3, <4>2, <4>3
    <3>3. worker'[w] = row /\ jobs' # <<>>
      BY <1>1, <1>2, <2>3, <2>4
    <3> QED
      BY <2>3, <2>6, <3>2, <3>3 DEF LatestCounts, Known
  <2> QED
    BY <1>1, <2>3, <2>4, <2>5, <2>6, <2>7, RunKeeps DEF Create, RunSteps
<1> QED
  BY <1>3, <1>4

\* Finish keeps the invariant.
LEMMA FinishKeeps ==
  ASSUME IInv, NEW w \in Workers, Finish(w)
  PROVE  IInv'
<1> DEFINE i == worker[w].job
<1>1. /\ TypeOK /\ jobs \in Seq(JobRow) /\ Len(jobs) \in Nat
      /\ worker[w].step = "working" /\ Running(w)
      /\ lease \in LeaseRow /\ suspended \subseteq Workers /\ stops \in 0..MaxStops
  BY LenProperties DEF IInv, LockInv, TypeOK, LeaseRow, Finish, At, Running
<1>2. worker[w] \in WorkerRow(Len(jobs))
  BY <1>1, Values
<1>3. i \in Nat /\ DOMAIN jobs = 1..Len(jobs)
  BY <1>1, <1>2, Rows DEF WorkerRow
<1>4. PICK status \in {"TERMINE", "ECHEC"} : jobs' = WithStatus(i, status)
  BY DEF Finish, WithStatus
<1>5. /\ worker' = [worker EXCEPT ![w] = Asleep]
      /\ lease' = lease /\ lease' \in LeaseRow /\ now' = now
      /\ suspended' \subseteq Workers /\ suspended' \ {w} = suspended \ {w}
      /\ stops' \in 0..MaxStops /\ stalls' = stalls
  BY <1>1 DEF Finish
<1> HIDE DEF i
<1>6. /\ jobs' \in Seq(JobRow) /\ Len(jobs') = Len(jobs) /\ DOMAIN jobs' = DOMAIN jobs
      /\ \A j \in DOMAIN jobs :
           /\ jobs'[j].slot = jobs[j].slot
           /\ jobs'[j].status = (IF j = i THEN status ELSE jobs[j].status)
  BY <1>1, <1>3, <1>4, StatusSet
<1>7. ASSUME stalls = 0 PROVE LatestCounts'
  <2>1. i = Len(jobs) /\ LatestCounts
    BY <1>1, <1>7 DEF IInv, Undisturbed, Known, i
  <2>2. ASSUME NEW k \in DOMAIN jobs, NEW j \in DOMAIN jobs, k < j, jobs[k].slot = jobs[j].slot
        PROVE  jobs'[k].status = "ABANDONNE"
    <3>1. k # i
      BY <1>1, <1>3, <2>1, <2>2
    <3> QED
      BY <1>6, <2>1, <2>2, <3>1 DEF LatestCounts
  <2> QED
    BY <1>6, <2>2 DEF LatestCounts
<1> QED
  BY <1>1, <1>5, <1>6, <1>7, SleepKeeps

----------------------------------------------------------------------------
(* Stops, suspensions and time *)

\* An interruption or a stop keeps the invariant.
LEMMA StopsKeep ==
  ASSUME IInv, NEW w \in Workers, Interrupt(w) \/ Stop(w)
  PROVE  IInv'
<1>1. /\ TypeOK /\ jobs \in Seq(JobRow) /\ lease \in LeaseRow
      /\ suspended \subseteq Workers /\ stops \in 0..MaxStops /\ now \in 0..Horizon
  BY DEF IInv, LockInv, TypeOK, LeaseRow
<1>2. stops' \in 0..MaxStops
  BY <1>1, SchedulerAssumption DEF Interrupt, Stop
<1>3. lease' \in LeaseRow /\ (lease' = lease \/ lease.holder = w)
  <2>1. CASE Interrupt(w)
    <3>1. [lease EXCEPT !.holder = Gone] \in LeaseRow
      BY <1>1 DEF LeaseRow
    <3> QED
      BY <1>1, <2>1, <3>1 DEF Interrupt, Abandoned
  <2>2. CASE Stop(w)
    <3>1. now \in 0..(Horizon + LeaseTicks)
      BY <1>1, SchedulerAssumption
    <3> QED
      BY <2>2, <3>1 DEF Stop, LeaseRow
  <2> QED
    BY <2>1, <2>2
<1>4. /\ worker' = [worker EXCEPT ![w] = Asleep]
      /\ jobs' = jobs /\ jobs' \in Seq(JobRow) /\ Len(jobs') = Len(jobs) /\ now' = now
      /\ suspended' \subseteq Workers /\ suspended' \ {w} = suspended \ {w}
      /\ stalls' = stalls
  BY <1>1 DEF Interrupt, Stop
<1> QED
  BY <1>2, <1>3, <1>4, SleepKeeps

\* Suspend and RenewalFails keep the invariant.
LEMMA StallsKeep ==
  ASSUME IInv, NEW w \in Workers, Suspend(w) \/ RenewalFails(w)
  PROVE  IInv'
<1> DEFINE row == [step |-> worker[w].step, slot |-> worker[w].slot, at |-> worker[w].at,
                   job |-> worker[w].job, stalled |-> Running(w)]
<1>1. /\ TypeOK /\ LockInv /\ jobs \in Seq(JobRow) /\ Len(jobs) \in Nat
      /\ lease \in LeaseRow /\ suspended \subseteq Workers /\ stops \in 0..MaxStops
      /\ stalls \in 0..MaxStalls
  BY LenProperties DEF IInv, LockInv, TypeOK, LeaseRow
<1>2. worker[w] \in WorkerRow(Len(jobs))
  BY <1>1, Values
<1>3. row \in WorkerRow(Len(jobs))
  BY <1>2 DEF WorkerRow, Running
<1>4. worker' = [worker EXCEPT ![w] = row]
  <2>1. [worker[w] EXCEPT !.stalled = Running(w)] = row
    BY <1>2 DEF WorkerRow
  <2>2. CASE Suspend(w)
    <3>1. worker' = [worker EXCEPT ![w] = [worker[w] EXCEPT !.stalled = Running(w)]]
      BY <2>2 DEF Suspend
    <3> QED
      BY <2>1, <3>1
  <2>3. CASE RenewalFails(w)
    <3>1. /\ worker' = [worker EXCEPT ![w] = [worker[w] EXCEPT !.stalled = TRUE]]
          /\ Running(w) = TRUE
      BY <2>3 DEF RenewalFails, Running
    <3> QED
      BY <2>1, <3>1
  <2> QED
    BY <2>2, <2>3
<1>5. row.step \in RunSteps => row.stalled
  BY RunningStep
<1> HIDE DEF row
<1>6. /\ jobs' = jobs /\ jobs' \in Seq(JobRow) /\ Len(jobs) <= Len(jobs') /\ now' = now
      /\ lease' = lease /\ lease' \in LeaseRow
      /\ suspended' \subseteq Workers /\ suspended' \ {w} = suspended \ {w}
      /\ stops' \in 0..MaxStops /\ stalls' \in 0..MaxStalls /\ stalls' # 0
      /\ row \in WorkerRow(Len(jobs'))
  BY <1>1, <1>3, SchedulerAssumption DEF Suspend, RenewalFails
<1>7. LockInv'
  BY <1>1, <1>4, <1>5, <1>6, LockKeeps
<1>8. Undisturbed'
  BY <1>6 DEF Undisturbed
<1> QED
  BY <1>7, <1>8 DEF IInv

\* Resume keeps the invariant.
LEMMA ResumeKeeps ==
  ASSUME IInv, NEW w \in Workers, Resume(w)
  PROVE  IInv'
<1>1. TypeOK'
  BY DEF IInv, LockInv, TypeOK, Resume, JobRow, Slot
<1>2. Holds' /\ StallsSeen'
  BY DEF IInv, LockInv, Holds, StallsSeen, Running, Resume
<1>3. Undisturbed'
  BY DEF IInv, Undisturbed, LatestCounts, Known, OfSlot, Resume
<1> QED
  BY <1>1, <1>2, <1>3 DEF IInv, LockInv

\* The row of a worker that wakes, field by field.
LEMMA Awakened ==
  [Asleep EXCEPT !.step = "awake"]
    = [step |-> "awake", slot |-> 0, at |-> 0, job |-> NoJob, stalled |-> FALSE]
<1> DEFINE R == [step : {"asleep"}, slot : {0}, at : {0}, job : {NoJob}, stalled : {FALSE}]
<1>1. ASSUME NEW r \in R, NEW to
      PROVE  [r EXCEPT !.step = to]
               = [step |-> to, slot |-> r.slot, at |-> r.at, job |-> r.job, stalled |-> r.stalled]
  OBVIOUS
<1>2. /\ Asleep \in R /\ Asleep.slot = 0 /\ Asleep.at = 0
      /\ Asleep.job = NoJob /\ Asleep.stalled = FALSE
  BY DEF Asleep
<1> HIDE DEF R
<1>3. [Asleep EXCEPT !.step = "awake"]
        = [step |-> "awake", slot |-> Asleep.slot, at |-> Asleep.at, job |-> Asleep.job,
           stalled |-> Asleep.stalled]
  BY <1>1, <1>2
<1> QED
  BY <1>2, <1>3

\* Tick keeps the invariant.
LEMMA TickKeeps ==
  ASSUME IInv, Tick
  PROVE  IInv'
<1> DEFINE Woken == [step |-> "awake", slot |-> 0, at |-> 0, job |-> NoJob, stalled |-> FALSE]
<1>1. /\ TypeOK /\ jobs \in Seq(JobRow) /\ Len(jobs) \in Nat /\ lease \in LeaseRow
      /\ now \in 0..Horizon /\ Horizon \in Nat
      /\ worker \in [Workers -> WorkerRow(Len(jobs))]
  BY Typed, LenProperties, SchedulerAssumption DEF IInv, LockInv
<1>2. [Asleep EXCEPT !.step = "awake"] = Woken
  BY Awakened
<1>3. Woken \in WorkerRow(Len(jobs)) \/ Workers = {}
  <2> SUFFICES ASSUME NEW w \in Workers PROVE Woken \in WorkerRow(Len(jobs))
    OBVIOUS
  <2>1. Asleep \in WorkerRow(Len(jobs))
    BY <1>1, Values
  <2>2. 0 \in 0..Slot(Horizon)
    BY <2>1 DEF Asleep, WorkerRow
  <2> QED
    BY <1>1, <2>2 DEF WorkerRow, Steps, NoJob
<1>4. \A w \in Workers : worker'[w] = IF At(w, "asleep") THEN Woken ELSE worker[w]
  BY <1>2 DEF Tick
<1> HIDE DEF Woken
<1>5. worker' \in [Workers -> WorkerRow(Len(jobs))]
  <2>1. \A w \in Workers : worker'[w] \in WorkerRow(Len(jobs))
    BY <1>1, <1>3, <1>4
  <2>2. worker' = [w \in Workers |-> worker'[w]]
    BY DEF Tick
  <2> QED
    BY <2>1, <2>2
<1>6. TypeOK'
  <2>1. now' \in 0..Horizon
    BY <1>1 DEF Tick
  <2>2. jobs' = jobs /\ lease' = lease /\ suspended' = suspended /\ stops' = stops
        /\ stalls' = stalls
    BY DEF Tick
  <2>3. suspended \subseteq Workers /\ stops \in 0..MaxStops /\ stalls \in 0..MaxStalls
    BY <1>1 DEF TypeOK
  <2> QED
    BY <1>1, <1>5, <2>1, <2>2, <2>3 DEF TypeOK, LeaseRow, WorkerRow, Steps
<1>7. ASSUME NEW w \in Workers, worker'[w].step \in RunSteps
      PROVE  worker'[w] = worker[w] /\ Running(w)
  BY <1>4, <1>7, RunningStep DEF Woken, RunSteps
<1>8. Holds'
  <2> SUFFICES ASSUME NEW w \in Workers, worker'[w].step \in RunSteps, ~worker'[w].stalled
               PROVE  lease.holder = w /\ lease.expiresAt > now + 1
    BY DEF Tick, Holds, Running, RunSteps
  <2>1. worker'[w] = worker[w] /\ Running(w) /\ ~worker[w].stalled
    BY <1>7
  <2>2. lease.holder = w /\ w \notin suspended
    BY <2>1 DEF IInv, LockInv, Holds, StallsSeen
  <2> QED
    BY <2>1, <2>2 DEF Tick
<1>9. StallsSeen'
  BY <1>7, RunningStep DEF Tick, IInv, LockInv, StallsSeen, Running, RunSteps
<1>10. Undisturbed'
  <2> SUFFICES ASSUME stalls = 0
               PROVE  /\ \A w \in Workers : ~worker'[w].stalled
                      /\ LatestCounts'
                      /\ \A w \in Workers : Known(w)'
    BY DEF Undisturbed, Tick
  <2>1. \A w \in Workers : ~worker'[w].stalled
    BY <1>4 DEF IInv, Undisturbed, Woken
  <2>2. LatestCounts'
    BY DEF IInv, Undisturbed, LatestCounts, Tick
  <2>3. ASSUME NEW w \in Workers PROVE Known(w)'
    <3>1. CASE worker'[w].step \in RunSteps
      <4>1. worker'[w] = worker[w] /\ jobs' = jobs /\ Known(w)
        BY <1>7, <3>1 DEF IInv, Undisturbed, Tick
      <4> QED
        BY <4>1 DEF Known, OfSlot
    <3>2. CASE worker'[w].step \notin RunSteps
      BY <3>2 DEF Known, RunSteps
    <3> QED
      BY <3>1, <3>2
  <2> QED
    BY <2>1, <2>2, <2>3
<1> QED
  BY <1>6, <1>8, <1>9, <1>10 DEF IInv, LockInv

----------------------------------------------------------------------------
(* Theorems *)

\* The initial state satisfies the invariant.
LEMMA InitIInv == Init => IInv
<1> SUFFICES ASSUME Init PROVE IInv
  OBVIOUS
<1> DEFINE Woken == [step |-> "awake", slot |-> 0, at |-> 0, job |-> NoJob, stalled |-> FALSE]
<1>1. worker = [w \in Workers |-> Woken]
  BY Awakened DEF Init
<1>2. Horizon \in Nat /\ Period \in Nat \ {0} /\ LeaseTicks \in Nat
  BY SchedulerAssumption
<1>3. Slot(Horizon) \in 0..Slot(Horizon)
  BY <1>2, SlotsGrow DEF Slot
<1>4. jobs \in Seq(JobRow) /\ Len(jobs) = 0 /\ DOMAIN jobs = {}
  BY DEF Init
<1>5. Woken \in WorkerRow(Len(jobs))
  BY <1>2, <1>3, <1>4 DEF WorkerRow, Steps, NoJob
<1>6. worker \in [Workers -> WorkerRow(Len(jobs))]
  BY <1>1, <1>5
<1>7. TypeOK
  BY <1>2, <1>4, <1>6, SchedulerAssumption, Typed DEF Init, LeaseRow
<1>8. \A w \in Workers : worker[w].step = "awake" /\ worker[w].stalled = FALSE
  BY <1>1
<1>9. Holds /\ StallsSeen
  BY <1>8 DEF Holds, StallsSeen, Running
<1>10. Undisturbed
  BY <1>4, <1>8 DEF Undisturbed, LatestCounts, Known
<1> QED
  BY <1>7, <1>9, <1>10 DEF IInv, LockInv

\* Every step keeps the invariant.
LEMMA NextIInv == IInv /\ [Next]_vars => IInv'
<1> SUFFICES ASSUME IInv, [Next]_vars PROVE IInv'
  OBVIOUS
<1>1. ASSUME NEW w \in Workers, Step(w) PROVE IInv'
  BY <1>1, WakeKeeps, LookUpKeeps, SettleKeeps, CreateKeeps, FinishKeeps DEF Step
<1>2. ASSUME NEW w \in Workers,
             \/ Renew(w) \/ RenewalFails(w)
             \/ Interrupt(w) \/ Stop(w) \/ Suspend(w) \/ Resume(w)
      PROVE  IInv'
  BY <1>2, RenewKeeps, StopsKeep, StallsKeep, ResumeKeeps
<1>3. CASE UNCHANGED vars
  <2>1. TypeOK'
    BY <1>3 DEF IInv, LockInv, TypeOK, vars, JobRow, Slot
  <2>2. Holds' /\ StallsSeen'
    BY <1>3 DEF IInv, LockInv, Holds, StallsSeen, Running, vars
  <2>3. Undisturbed'
    BY <1>3 DEF IInv, Undisturbed, LatestCounts, Known, OfSlot, vars
  <2> QED
    BY <2>1, <2>2, <2>3 DEF IInv, LockInv
<1> QED
  BY <1>1, <1>2, <1>3, TickKeeps DEF Next

\* The invariant holds in every reachable state.
LEMMA Invariant == Spec => []IInv
BY InitIInv, NextIInv, PTL DEF Spec

\* Rows, leases and workers keep their types: a worker only ever names a row
\* that exists.
THEOREM TypesHold == Spec => []TypeOK
<1>1. IInv => TypeOK
  BY DEF IInv, LockInv
<1> QED
  BY <1>1, Invariant, PTL

\* Two workers never execute the task together, unless one was held up while it
\* did, or failed to renew its lease.
THEOREM RunnersExclusive == Spec => []OneRunner
<1>1. IInv => OneRunner
  BY Exclusive DEF IInv
<1> QED
  BY <1>1, Invariant, PTL

\* Stops, errors that end an execution and expiries do not suffice to treat a slot
\* twice.
THEOREM ReplayNeedsStall == Spec => ReplayedOnlyAfterStall
<1>1. ASSUME IInv, [Next]_vars PROVE [\A w \in Workers : Replays(w) => stalls > 0]_vars
  <2> SUFFICES ASSUME NEW w \in Workers, Replays(w) PROVE stalls > 0
    OBVIOUS
  <2>1. stalls # 0
    BY <1>1 DEF IInv, Undisturbed, Known, Replays
  <2>2. stalls \in Nat
    BY <1>1, SchedulerAssumption DEF IInv, LockInv, TypeOK
  <2> QED
    BY <2>1, <2>2
<1> QED
  BY <1>1, Invariant, PTL DEF Spec, ReplayedOnlyAfterStall

Justified ==
  \A i \in DOMAIN jobs :
    jobs[i].status = "EN_COURS" /\ jobs'[i].status = "ABANDONNE"
      => \A w \in WorkingOn(i) :
           \/ worker[w].stalled
           \/ \E q \in Workers : worker[q].step = "settling" /\ worker[q].stalled

\* An execution is declared interrupted once nobody executes it any more, unless
\* one of the two workers was held up or failed to renew its lease.
THEOREM TakeoversJustified == Spec => TakeoverJustified
<1>1. ASSUME IInv, [Next]_vars PROVE [Justified]_vars
  <2> SUFFICES ASSUME NEW i \in DOMAIN jobs, jobs[i].status = "EN_COURS",
                      jobs'[i].status = "ABANDONNE", NEW w \in WorkingOn(i)
               PROVE  \/ worker[w].stalled
                      \/ \E q \in Workers : worker[q].step = "settling" /\ worker[q].stalled
    BY DEF Justified
  <2>1. jobs \in Seq(JobRow) /\ DOMAIN jobs = 1..Len(jobs) /\ Len(jobs) \in Nat
    BY <1>1, Rows DEF IInv, LockInv, TypeOK
  <2>2. jobs' # jobs
    OBVIOUS
  <2>3. PICK q \in Workers : Settle(q) \/ Create(q) \/ Finish(q)
    BY <1>1, <2>2 DEF Next, Step, vars, Wake, LookUp, Renew, RenewalFails,
       Interrupt, Stop, Suspend, Resume, Tick
  <2>4. ~Create(q)
    <3> SUFFICES ASSUME Create(q) PROVE FALSE
      OBVIOUS
    <3> DEFINE new == [slot |-> worker[q].slot, status |-> "EN_COURS",
                       lockedUntil |-> worker[q].at + StaleTicks]
    <3>1. jobs' = Append(jobs, new)
      BY <2>2 DEF Create
    <3> HIDE DEF new
    <3>2. jobs'[i] = jobs[i]
      BY <2>1, <3>1
    <3> QED
      BY <3>2
  <2>5. ~Finish(q)
    <3> SUFFICES ASSUME Finish(q) PROVE FALSE
      OBVIOUS
    <3>1. PICK status \in {"TERMINE", "ECHEC"} : jobs' = [jobs EXCEPT ![worker[q].job].status = status]
      BY DEF Finish
    <3>2. jobs[i] \in JobRow
      BY <2>1, Rows
    <3>3. jobs'[i].status \in {status, jobs[i].status}
      BY <3>1, <3>2 DEF JobRow
    <3> QED
      BY <3>3
  <2>6. worker[q].step = "settling" /\ Running(q) /\ Running(w) /\ w \in Workers /\ w # q
    BY <2>3, <2>4, <2>5 DEF Settle, At, Running, WorkingOn
  <2>7. worker[w].stalled \/ worker[q].stalled
    BY <1>1, <2>6, Exclusive DEF IInv, OneRunner
  <2> QED
    BY <2>6, <2>7
<1> QED
  BY <1>1, Invariant, PTL DEF Spec, TakeoverJustified, Justified
=============================================================================
