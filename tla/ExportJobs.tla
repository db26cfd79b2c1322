----------------------------- MODULE ExportJobs -----------------------------
(***************************************************************************)
(* The queue of deferred jobs (JobsService, JobQueueJob) with the handler  *)
(* of report exports (ReportExportJobHandler), which stores its files as   *)
(* attachments.                                                            *)
(*                                                                         *)
(* A job is locked for ten minutes and the lock is never renewed: it may   *)
(* lapse under a worker that still runs the job.  Every access to the      *)
(* database or the store is a step, which may fail, and a worker may stop  *)
(* after each.                                                             *)
(* Abstracted: the delays of retries (a job put back is due again), the    *)
(* order of claims, progress, contents and rights.                         *)
(***************************************************************************)
EXTENDS Attachments

CONSTANTS
  Jobs, Workers,
  MaxAttempts,  \* maxAttempts of a job (3 by default)
  MaxHitches    \* bound of the model: failed outcome writes, stops, locks that lapse

\* The content of an attempt is stored under a key of its own.
ExportKeys == Jobs \X (1..MaxAttempts)

ASSUME ExportJobsAssumption ==
  /\ MaxAttempts \in Nat /\ MaxHitches \in Nat
  /\ Keys = Uploads \cup ExportKeys /\ Uploads \cap ExportKeys = {}
  /\ Jobs \subseteq Owners /\ None \notin Jobs \cup Workers \cup Keys

VARIABLES
  job,      \* Job rows
  runner,   \* what each worker is at: runOne and the handler
  runs,     \* history: times the handler was started on a job
  hitches   \* history: hitches so far

vars == <<files, job, runner, runs, hitches>>

Final == {"TERMINE", "ECHEC", "ABANDONNE"}

Job == [status : {"ABSENT", "EN_ATTENTE", "EN_COURS"} \cup Final,
        attempts : 0..(MaxAttempts + MaxHitches + 1),
        lockedBy : Workers \cup {None}, lapsed : BOOLEAN,
        result : ExportKeys \cup {None}]

Stages == {"LIBRE", "PRIS", "ECRIT", "PRET", "A_EFFACER", "EN_ECHEC"}

Runner == [stage : Stages, job : Jobs \cup {None},
           attempt : 0..(MaxAttempts + MaxHitches + 1), aborted : BOOLEAN]

Free == [stage |-> "LIBRE", job |-> None, attempt |-> 0, aborted |-> FALSE]

\* No job is ever run more often than its attempts allow, whatever stops.
TypeOK ==
  /\ FilesOK
  /\ job \in [Jobs -> Job] /\ runner \in [Workers -> Runner]
  /\ runs \in [Jobs -> 0..MaxAttempts]
  /\ hitches \in 0..MaxHitches

Init ==
  /\ FilesInit
  /\ job = [j \in Jobs |-> [status |-> "ABSENT", attempts |-> 0, lockedBy |-> None,
                            lapsed |-> FALSE, result |-> None]]
  /\ runner = [w \in Workers |-> Free]
  /\ runs = [j \in Jobs |-> 0]
  /\ hitches = 0

----------------------------------------------------------------------------

Enqueue(j) ==
  /\ job[j].status = "ABSENT"
  /\ job' = [job EXCEPT ![j].status = "EN_ATTENTE"]
  /\ UNCHANGED <<files, runner, runs, hitches>>

\* Mutant of Claimable: a lock that lapsed is not taken over.
ClaimableWaiting(j) == job[j].status = "EN_ATTENTE"

Claimable(j) ==
  \/ job[j].status = "EN_ATTENTE"
  \/ job[j].status = "EN_COURS" /\ job[j].lapsed

\* claimNext: one statement, which also counts the attempt.
Claim(w, j) ==
  /\ runner[w] = Free /\ Claimable(j)
  /\ job' = [job EXCEPT ![j].status = "EN_COURS", ![j].lockedBy = w, ![j].lapsed = FALSE,
                        ![j].attempts = @ + 1]
  /\ runner' = [runner EXCEPT ![w] = [stage |-> "PRIS", job |-> j, aborted |-> FALSE,
                                      attempt |-> job[j].attempts + 1]]
  /\ UNCHANGED <<files, runs, hitches>>

Running(w) == runner[w].job
Moves(w, stage) == runner' = [runner EXCEPT ![w].stage = stage]
Fails(w, aborted) == runner' = [runner EXCEPT ![w].stage = "EN_ECHEC", ![w].aborted = aborted]
Hitch == hitches < MaxHitches /\ hitches' = hitches + 1

\* Mutant of Exhausted: the attempts made are not looked at before a new one.
NeverExhausted(w) == FALSE

Exhausted(w) == runner[w].attempt > MaxAttempts

\* The job was claimed once too many: a worker stopped in its last attempt.
Refuse(w) ==
  /\ runner[w].stage = "PRIS" /\ Exhausted(w)
  /\ Fails(w, TRUE)
  /\ UNCHANGED <<files, job, runs, hitches>>

Started(w) ==
  /\ runner[w].stage = "PRIS" /\ ~Exhausted(w)
  /\ runs' = [runs EXCEPT ![Running(w)] = @ + 1]

Key(w) == <<Running(w), runner[w].attempt>>

\* handle: the report is written to the store.
Generate(w) ==
  /\ Started(w)
  /\ storage' = storage \cup {Key(w)}
  /\ Moves(w, "ECRIT")
  /\ UNCHANGED <<row, aged, attached, uploading, erasing, purge, job, hitches>>

\* Invalid request, account or rights withdrawn (aborted); any other error.
GenerateFails(w, aborted) ==
  /\ Started(w)
  /\ Fails(w, aborted)
  /\ UNCHANGED <<files, job, hitches>>

\* The transaction that records the attachment of the job.
RecordExport(w) ==
  /\ runner[w].stage = "ECRIT"
  /\ row' = [row EXCEPT ![Key(w)] = [kind |-> "EXPORT", owner |-> Running(w), deleted |-> "NON"]]
  /\ Moves(w, "PRET")
  /\ UNCHANGED <<storage, aged, attached, uploading, erasing, purge, job, runs, hitches>>

RecordExportFails(w) ==
  /\ runner[w].stage = "ECRIT"
  /\ Moves(w, "A_EFFACER")
  /\ UNCHANGED <<files, job, runs, hitches>>

\* The content of a transaction that failed is removed.
CleanUp(w) ==
  /\ runner[w].stage = "A_EFFACER"
  /\ storage' = storage \ {Key(w)}
  /\ Fails(w, FALSE)
  /\ UNCHANGED <<row, aged, attached, uploading, erasing, purge, job, runs, hitches>>

\* Mutant of Outcome: the outcome is written whoever holds the lock.
OutcomeUnlocked(w, status, result) ==
  job' = [job EXCEPT ![Running(w)] = [@ EXCEPT !.status = status, !.lockedBy = None,
                                              !.lapsed = FALSE, !.result = result]]

\* The outcome is written if the lock is still this worker's; otherwise no
\* row matches and the worker takes no notice.
Outcome(w, status, result) ==
  IF job[Running(w)].lockedBy = w
    THEN job' = [job EXCEPT ![Running(w)] = [@ EXCEPT !.status = status, !.lockedBy = None,
                                                     !.lapsed = FALSE, !.result = result]]
  ELSE UNCHANGED job

Succeed(w) ==
  /\ runner[w].stage = "PRET"
  /\ Outcome(w, "TERMINE", Key(w))
  /\ runner' = [runner EXCEPT ![w] = Free]
  /\ UNCHANGED <<files, runs, hitches>>

\* The write of a success that fails makes the attempt a failure.
SucceedFails(w) ==
  /\ runner[w].stage = "PRET" /\ Hitch
  /\ Fails(w, FALSE)
  /\ UNCHANGED <<files, job, runs>>

\* finishFailure
Fail(w) ==
  /\ runner[w].stage = "EN_ECHEC"
  /\ Outcome(w, IF runner[w].aborted THEN "ABANDONNE"
                ELSE IF runner[w].attempt >= MaxAttempts THEN "ECHEC" ELSE "EN_ATTENTE", None)
  /\ runner' = [runner EXCEPT ![w] = Free]
  /\ UNCHANGED <<files, runs, hitches>>

\* The worker stops, or the write of a failure fails: the lock stays.
Stops(w) ==
  /\ runner[w] # Free /\ Hitch
  /\ runner' = [runner EXCEPT ![w] = Free]
  /\ UNCHANGED <<files, job, runs>>

\* The lock passes its ten minutes, under a worker that stopped or one that
\* is not done.
Lapse(j) ==
  /\ job[j].status = "EN_COURS" /\ ~job[j].lapsed
  /\ job' = [job EXCEPT ![j].lapsed = TRUE]
  /\ IF \E w \in Workers : Running(w) = j /\ job[j].lockedBy = w
       THEN Hitch ELSE UNCHANGED hitches
  /\ UNCHANGED <<files, runner, runs>>

Step(w) ==
  \/ Refuse(w) \/ Generate(w) \/ RecordExport(w) \/ RecordExportFails(w) \/ CleanUp(w)
  \/ \E aborted \in BOOLEAN : GenerateFails(w, aborted)
  \/ Succeed(w) \/ SucceedFails(w) \/ Fail(w)

Next ==
  \/ FilesNext /\ UNCHANGED <<job, runner, runs, hitches>>
  \/ \E j \in Jobs : Enqueue(j) \/ Lapse(j) \/ \E w \in Workers : Claim(w, j)
  \/ \E w \in Workers : Step(w) \/ Stops(w)

\* The queue is polled every five seconds, a worker goes on with what it
\* does, and locks lapse.
Fairness ==
  /\ \A j \in Jobs : WF_vars(\E w \in Workers : Claim(w, j)) /\ WF_vars(Lapse(j))
  /\ \A w \in Workers : WF_vars(Step(w))

Spec == Init /\ [][Next]_vars /\ Fairness

----------------------------------------------------------------------------
(* Properties *)

\* A finished job can be downloaded until its file expires: its attachment is
\* live, owned by the job, and its content is in the store, whatever other
\* attempts at the same job stored, recorded or cleaned up.
\* Together with the attachments of people, which are kept as well.
NothingPromisedIsLost ==
  /\ AttachedFilesKept
  /\ \A j \in Jobs :
       LET f == job[j].result
       IN  job[j].status = "TERMINE" /\ f \notin aged
             => Live(f) /\ row[f].owner = j /\ f \in storage

\* The outcome of a job is final: a worker that lost its lock and answers
\* late changes neither the outcome nor the file of the one that replaced it.
OutcomeStays ==
  [][\A j \in Jobs : job[j].status \in Final => job'[j] = job[j]]_vars

\* Every job enqueued ends, although workers stop and locks lapse under them.
EveryJobEnds == \A j \in Jobs : job[j].status = "EN_ATTENTE" ~> job[j].status \in Final
=============================================================================
