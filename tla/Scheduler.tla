----------------------------- MODULE Scheduler -----------------------------
(***************************************************************************)
(* One scheduled task of the workers: its lease (JobLeaseService), its     *)
(* executions (WorkerScheduler) and the Job row of each slot               *)
(* (ScheduledRunsService).                                                 *)
(*                                                                         *)
(* Every worker is woken once per tick and runs the task if it gets the    *)
(* lease, which it renews while the task runs.  The run looks for the      *)
(* latest row of its slot, settles it when it was interrupted, and creates *)
(* the row under which it works.                                           *)
(*                                                                         *)
(* A process may stop (it comes back with another identity, with its lease *)
(* released first if it stops cleanly), an error of the database may end   *)
(* its execution, its renewals may fail, which is only logged, and it may  *)
(* be held up for a while: suspended, timers included, or waiting for the  *)
(* database while the renewals go on.  Otherwise a call takes less than a  *)
(* tick; the work itself lasts as long as it likes.  A call that lasts is  *)
(* one that takes effect when it reads the clock and answers late, or one  *)
(* that starts late: what others do to the lease or to the row in between  *)
(* makes it refused, as it is when it starts after them.                   *)
(***************************************************************************)
EXTENDS Integers, Sequences

CONSTANTS
  Workers,
  Period,      \* length of a slot
  LeaseTicks,  \* leaseMs of the task
  StaleTicks,  \* staleAfterMs of its runs
  Horizon,     \* bounds of the model: the last instant of the clock,
  StopsUntil,  \* the last instant at which a process stops or its execution fails,
  MaxStops,    \* how many times one does,
  MaxStalls    \* and how many times one is held up or starts to fail to renew its lease

ASSUME SchedulerAssumption ==
  /\ Period \in Nat \ {0} /\ LeaseTicks \in Nat \ {0, 1} /\ StaleTicks \in Nat \ {0}
  /\ Horizon \in Nat /\ StopsUntil \in Nat /\ MaxStops \in Nat /\ MaxStalls \in Nat

VARIABLES
  now,
  lease,      \* the JobLease row
  jobs,       \* the Job rows of the task, in the order of their creation
  worker,     \* of each worker: its step, its slot, the instant it read, its row,
              \* and (history) whether since its wake-up it was held up, or a
              \* renewal of its lease failed
  suspended,  \* workers that are held up for the moment
  stops, stalls

vars == <<now, lease, jobs, worker, suspended, stops, stalls>>

Gone == "arrete"   \* the identity of a process that has stopped
NoJob == 0

Slot(at) == at \div Period   \* slotStart

JobRow == [slot : 0..Slot(Horizon), status : {"EN_COURS", "TERMINE", "ECHEC", "ABANDONNE"},
           lockedUntil : 0..(Horizon + StaleTicks)]

Asleep == [step |-> "asleep", slot |-> 0, at |-> 0, job |-> NoJob,
           stalled |-> FALSE]

TypeOK ==
  /\ now \in 0..Horizon
  /\ lease \in [holder : Workers \cup {Gone}, expiresAt : 0..(Horizon + LeaseTicks)]
  /\ jobs \in Seq(JobRow)
  /\ worker \in [Workers -> [step : {"asleep", "awake", "leased", "settling", "creating", "working"},
                             slot : 0..Slot(Horizon), at : 0..Horizon, job : 0..Len(jobs), stalled : BOOLEAN]]
  /\ suspended \subseteq Workers
  /\ stops \in 0..MaxStops /\ stalls \in 0..MaxStalls

Init ==
  /\ now = 0
  /\ lease = [holder |-> Gone, expiresAt |-> 0]
  /\ jobs = <<>>
  /\ worker = [w \in Workers |-> [Asleep EXCEPT !.step = "awake"]]
  /\ suspended = {}
  /\ stops = 0 /\ stalls = 0

----------------------------------------------------------------------------

At(w, step) == w \notin suspended /\ worker[w].step = step
Running(w) == worker[w].step \in {"leased", "settling", "creating", "working"}

\* Mutant of Free: the condition of the upsert is forgotten.
FreeAnyway(w) == TRUE

\* JobLeaseService.acquire, its condition: held by this worker, or expired.
Free(w) == lease.holder = w \/ lease.expiresAt <= now

Taken(w) == [holder |-> w, expiresAt |-> now + LeaseTicks]

\* A wake-up: the task runs if the lease is obtained.
Wake(w) ==
  /\ At(w, "awake")
  /\ IF Free(w)
     THEN /\ lease' = Taken(w)
          /\ worker' = [worker EXCEPT ![w] = [@ EXCEPT !.step = "leased", !.slot = Slot(now)]]
     ELSE /\ lease' = lease
          /\ worker' = [worker EXCEPT ![w] = Asleep]
  /\ UNCHANGED <<now, jobs, suspended, stops, stalls>>

\* The renewal timer of a running task; a lease that is lost is only logged.
Renew(w) ==
  /\ Running(w)
  /\ Free(w)
  /\ lease' = Taken(w)
  /\ UNCHANGED <<now, jobs, worker, suspended, stops, stalls>>

\* The database does not answer the renewals of a running task, or refuses
\* them: this is only logged, and those that follow may fail as well.
RenewalFails(w) ==
  /\ stalls < MaxStalls
  /\ w \notin suspended /\ Running(w) /\ ~worker[w].stalled
  /\ worker' = [worker EXCEPT ![w].stalled = TRUE]
  /\ stalls' = stalls + 1
  /\ UNCHANGED <<now, lease, jobs, suspended, stops>>

OfSlot(s) == {i \in DOMAIN jobs : jobs[i].slot = s}
Latest(s) == CHOOSE i \in OfSlot(s) : \A j \in OfSlot(s) : j <= i

\* Mutant of Interrupted: the status of the row is not looked at.
InterruptedByTheClock(i) == jobs[i].lockedUntil <= now

Interrupted(i) == jobs[i].status = "EN_COURS" /\ jobs[i].lockedUntil <= now

\* runOnce, its first read: the slot is done or under way elsewhere, or it is
\* free, or its last execution was interrupted.
LookUp(w) ==
  LET s == worker[w].slot IN
  /\ At(w, "leased")
  /\ worker' = [worker EXCEPT ![w] =
       IF OfSlot(s) = {} THEN [@ EXCEPT !.step = "creating", !.at = now]
       ELSE IF Interrupted(Latest(s))
            THEN [@ EXCEPT !.step = "settling", !.at = now, !.job = Latest(s)]
            ELSE Asleep]
  /\ UNCHANGED <<now, lease, jobs, suspended, stops, stalls>>


\* The interrupted row becomes ABANDONNE, unless it has finished meanwhile.
Settle(w) ==
  LET i == worker[w].job IN
  /\ At(w, "settling")
  /\ jobs' = IF jobs[i].status = "EN_COURS" THEN [jobs EXCEPT ![i].status = "ABANDONNE"] ELSE jobs
  /\ worker' = [worker EXCEPT ![w].step = "creating", ![w].job = NoJob]
  /\ UNCHANGED <<now, lease, suspended, stops, stalls>>

\* The row of this execution; job_dedupe_active refuses a second unfinished
\* row of the slot.
Create(w) ==
  /\ At(w, "creating")
  /\ IF \E i \in OfSlot(worker[w].slot) : jobs[i].status = "EN_COURS"
     THEN /\ jobs' = jobs
          /\ worker' = [worker EXCEPT ![w] = Asleep]
     ELSE /\ jobs' = Append(jobs, [slot |-> worker[w].slot, status |-> "EN_COURS",
                                   lockedUntil |-> worker[w].at + StaleTicks])
          /\ worker' = [worker EXCEPT ![w].step = "working", ![w].job = Len(jobs) + 1]
  /\ UNCHANGED <<now, lease, suspended, stops, stalls>>

\* Mutant of Finish: the last row is deleted once it has been treated.
FinishAndForget(w) ==
  /\ At(w, "working")
  /\ jobs' = SubSeq(jobs, 1, Len(jobs) - 1)
  /\ worker' = [worker EXCEPT ![w] = Asleep]
  /\ UNCHANGED <<now, lease, suspended, stops, stalls>>

\* The work ends, well or badly: the row says so, whatever it has become.
Finish(w) ==
  /\ At(w, "working")
  /\ \E status \in {"TERMINE", "ECHEC"} : jobs' = [jobs EXCEPT ![worker[w].job].status = status]
  /\ worker' = [worker EXCEPT ![w] = Asleep]
  /\ UNCHANGED <<now, lease, suspended, stops, stalls>>

----------------------------------------------------------------------------

Abandoned(w) == IF lease.holder = w THEN [lease EXCEPT !.holder = Gone] ELSE lease

\* The process dies, and another one replaces it; or an error of the database
\* ends the execution, its row left as it is, and the lease is still its own.
Interrupt(w) ==
  /\ stops < MaxStops /\ now <= StopsUntil
  /\ worker[w].step # "asleep"
  /\ stops' = stops + 1
  /\ lease' \in {lease, Abandoned(w)}
  /\ worker' = [worker EXCEPT ![w] = Asleep]
  /\ suspended' = suspended \ {w}
  /\ UNCHANGED <<now, jobs, stalls>>

\* WorkerScheduler.stop: the executions have ended, the leases are released.
Stop(w) ==
  /\ stops < MaxStops /\ now <= StopsUntil
  /\ ~Running(w) /\ w \notin suspended
  /\ lease.holder = w
  /\ stops' = stops + 1
  /\ lease' = [holder |-> Gone, expiresAt |-> now]
  /\ worker' = [worker EXCEPT ![w] = Asleep]
  /\ UNCHANGED <<now, jobs, suspended, stalls>>

\* The process is suspended, or the database makes it wait.
Suspend(w) ==
  /\ stalls < MaxStalls
  /\ w \notin suspended
  /\ suspended' = suspended \cup {w}
  /\ worker' = [worker EXCEPT ![w].stalled = Running(w)]
  /\ stalls' = stalls + 1
  /\ UNCHANGED <<now, lease, jobs, stops>>

Resume(w) ==
  /\ w \in suspended
  /\ suspended' = suspended \ {w}
  /\ UNCHANGED <<now, lease, jobs, worker, stops, stalls>>

\* One tick: those that are not held up have answered their wake-up, and renewed
\* the lease if their renewals do not fail.
Tick ==
  /\ now < Horizon
  /\ \A w \in Workers \ suspended :
       /\ At(w, "asleep") \/ At(w, "working")
       /\ Running(w) /\ lease.holder = w /\ ~worker[w].stalled => lease.expiresAt > now + 1
  /\ now' = now + 1
  /\ worker' = [w \in Workers |-> IF At(w, "asleep") THEN [Asleep EXCEPT !.step = "awake"] ELSE worker[w]]
  /\ UNCHANGED <<lease, jobs, suspended, stops, stalls>>

Step(w) == Wake(w) \/ LookUp(w) \/ Settle(w) \/ Create(w) \/ Finish(w)

Next ==
  \/ \E w \in Workers :
       \/ Step(w) \/ Renew(w) \/ RenewalFails(w)
       \/ Interrupt(w) \/ Stop(w) \/ Suspend(w) \/ Resume(w)
  \/ Tick

\* Processes run, those held up go on, time passes, and the renewals of a run that
\* do not fail succeed again and again.
Fairness ==
  /\ WF_vars(Tick)
  /\ \A w \in Workers :
       /\ WF_vars(Step(w)) /\ WF_vars(Resume(w))
       /\ SF_vars(~worker[w].stalled /\ Renew(w))

Spec == Init /\ [][Next]_vars /\ Fairness

----------------------------------------------------------------------------
(* Properties *)

WorkingOn(i) == {w \in Workers : worker[w].step = "working" /\ worker[w].job = i}

\* At most one worker executes the task, across stops, expiries and renewals
\* (JobLeaseService: "un seul worker actif par tache"), unless one of them was
\* held up while it did or failed to renew its lease: nothing stops an execution
\* that has lost it.
OneRunner ==
  \A w, q \in Workers :
    Running(w) /\ Running(q) /\ w # q => worker[w].stalled \/ worker[q].stalled

\* w starts to treat a slot that has a row other than that of an interrupted
\* execution.
Replays(w) ==
  /\ worker[w].step = "creating" /\ worker'[w].step = "working"
  /\ \E i \in OfSlot(worker[w].slot) : jobs[i].status # "ABANDONNE"

\* A slot that has been treated is not treated again (ScheduledRunsService: "Un
\* creneau deja traite n'est jamais rejoue").
SlotOnce == [][\A w \in Workers : ~Replays(w)]_vars

\* As long as nobody is held up and no renewal fails, it is so: stops, errors that
\* end an execution and expiries do not suffice to treat a slot twice.
ReplayedOnlyAfterStall == [][\A w \in Workers : Replays(w) => stalls > 0]_vars

\* An execution is declared interrupted only once nobody executes it any more,
\* however long it lasts, unless one of the two was held up or failed to renew
\* its lease: who executes it, or who declares it interrupted.
TakeoverJustified ==
  [][\A i \in DOMAIN jobs :
       jobs[i].status = "EN_COURS" /\ jobs'[i].status = "ABANDONNE"
         => \A w \in WorkingOn(i) :
              \/ worker[w].stalled
              \/ \E q \in Workers : worker[q].step = "settling" /\ worker[q].stalled]_vars

LeftRunning(i) == i \in DOMAIN jobs /\ jobs[i].status = "EN_COURS" /\ WorkingOn(i) = {}

\* An execution interrupted by a stop does not stay EN_COURS for ever: it is
\* marked ABANDONNE and its slot taken again ("une execution interrompue par un
\* arret est marquee ABANDONNE puis reprise").
InterruptedRunSettles == \A i \in 1..(MaxStops + 1) : LeftRunning(i) ~> ~LeftRunning(i)

============================================================================
