------------------------------- MODULE Outbox -------------------------------
(***************************************************************************)
(* The e-mail outbox and the workers that empty it (OutboxDispatcherJob).  *)
(*                                                                         *)
(* Rows are claimed in batches under a lock that expires; each is checked  *)
(* again, counted as an attempt with its lock extended, handed to the SMTP *)
(* provider and settled under the condition that the lock is still held.   *)
(* A worker may stop at any point; a new process has another identity.     *)
(*                                                                         *)
(* Time is relative: a row counts the ticks left before its lock expires   *)
(* and before its next attempt, a worker those since it extended the lock. *)
(* A send lasts as long as it likes: the timeouts of the transport bound   *)
(* the silence within an exchange with the server, not the exchange, so it *)
(* may outlive the lock.                                                   *)
(*                                                                         *)
(* Abstracted: the lease of the task (claims must be safe without it),     *)
(* MAX_ROUNDS, the texts and the several reasons for which a delivery is   *)
(* no longer authorized.                                                   *)
(***************************************************************************)
EXTENDS Integers, FiniteSets

CONSTANTS
  Messages, Workers,
  BatchSize,    \* BATCH_SIZE
  MaxAttempts,  \* NotificationOutbox.maxAttempts
  LockTicks,    \* OUTBOX_LOCK_MS
  RetryTicks,   \* OUTBOX_RETRY_DELAYS_MINUTES, a function of the attempts made
  MaxHitches    \* bound of the model: interruptions, and ticks lost by a slow worker

Gone == "arrete"      \* the identity of a process that has stopped
Nobody == "personne"

ASSUME OutboxAssumption ==
  /\ BatchSize \in Nat \ {0} /\ MaxAttempts \in Nat \ {0}
  /\ LockTicks \in Nat
  /\ RetryTicks \in [1..MaxAttempts -> Nat]
  /\ MaxHitches \in Nat
  /\ {Gone, Nobody} \cap Workers = {} /\ Nobody \notin Messages

VARIABLES
  row,       \* NotificationOutbox rows
  worker,    \* of each worker: its step, its batch, the message in hand and, from the
             \* start of a send to its conclusion, the ticks elapsed
  entitled,  \* messages whose delivery is still authorized
  accepted,  \* messages the provider took
  doubtful,  \* messages of which the answer to a send, or its recording, was lost or
             \* was still awaited when the duration of a lock had passed
  hitches

vars == <<row, worker, entitled, accepted, doubtful, hitches>>

Final == {"ENVOYE", "ABANDONNE", "ANNULE"}
Waiting == {"EN_ATTENTE", "ECHEC"}
Expired == -1
Overdue == LockTicks + 1   \* ticks after which the lock of a send has expired

Row == [status : Final \cup Waiting \cup {"EN_COURS"}, attempts : 0..MaxAttempts,
        wait : Nat, lockedBy : Workers \cup {Gone, Nobody}, lock : Expired..LockTicks]

Steps == {"asleep", "idle", "claiming", "delivering", "read", "authorized", "sending", "taken",
          "failed"}

Worker == [step : Steps, batch : SUBSET Messages, message : Messages \cup {Nobody},
           elapsed : 0..Overdue]

Asleep == [step |-> "asleep", batch |-> {}, message |-> Nobody, elapsed |-> 0]

TypeOK ==
  /\ row \in [Messages -> Row]
  /\ worker \in [Workers -> Worker]
  /\ entitled \subseteq Messages
  /\ {accepted, doubtful} \subseteq SUBSET Messages
  /\ hitches \in 0..MaxHitches

Init ==
  /\ row = [m \in Messages |-> [status |-> "EN_ATTENTE", attempts |-> 0, wait |-> 0,
                                lockedBy |-> Nobody, lock |-> Expired]]
  /\ worker = [w \in Workers |-> Asleep]
  /\ entitled = Messages
  /\ accepted = {} /\ doubtful = {}
  /\ hitches = 0

----------------------------------------------------------------------------
(* Rows *)

Mine(w, m) == row[m].status = "EN_COURS" /\ row[m].lockedBy = w

Due == {m \in Messages : row[m].status \in Waiting /\ row[m].wait = 0}

LockExpired(m) == row[m].status = "EN_COURS" /\ row[m].lock = Expired

\* Mutant of Recovered: the attempts already made are not looked at.
RecoveredWhatever(m) ==
  [row[m] EXCEPT !.lockedBy = Nobody, !.lock = Expired, !.status = "EN_ATTENTE", !.wait = 0]

\* A row whose lock has expired: eligible at once, or given up when its last
\* attempt was under way.
Recovered(m) ==
  [row[m] EXCEPT !.lockedBy = Nobody, !.lock = Expired,
                 !.status = IF row[m].attempts >= MaxAttempts THEN "ABANDONNE" ELSE "EN_ATTENTE",
                 !.wait = IF row[m].attempts >= MaxAttempts THEN @ ELSE 0]

Settled(m, status, wait) ==
  [row EXCEPT ![m].status = status, ![m].wait = wait, ![m].lockedBy = Nobody, ![m].lock = Expired]

\* Mutant of Finish: the lock is not a condition of the write.
FinishAnyway(w, m, status, wait) == row' = Settled(m, status, wait)

\* updateMany where the row is EN_COURS and locked by this worker: nothing
\* otherwise.
Finish(w, m, status, wait) ==
  row' = IF Mine(w, m) THEN Settled(m, status, wait) ELSE row

----------------------------------------------------------------------------
(* A worker *)

GoesAfter(w, step, batch, m, elapsed) ==
  worker' = [worker EXCEPT ![w] = [step |-> step, batch |-> batch, message |-> m,
                                   elapsed |-> elapsed]]
Goes(w, step, batch, m) == GoesAfter(w, step, batch, m, 0)

At(w, step) == worker[w].step = step
InHand(w) == worker[w].message

\* Mutant of Recover: locks are taken back before they expire.
RecoverEarly(w) ==
  /\ At(w, "idle")
  /\ row' = [m \in Messages |-> IF row[m].status = "EN_COURS" THEN Recovered(m) ELSE row[m]]
  /\ Goes(w, "claiming", {}, Nobody)
  /\ UNCHANGED <<entitled, accepted, doubtful, hitches>>

\* Mutant of Recover: nothing is taken back.
RecoverNothing(w) ==
  /\ At(w, "idle")
  /\ Goes(w, "claiming", {}, Nobody)
  /\ UNCHANGED <<row, entitled, accepted, doubtful, hitches>>

\* The task wakes up: recoverExpiredLocks.
Recover(w) ==
  /\ At(w, "idle")
  /\ row' = [m \in Messages |-> IF LockExpired(m) THEN Recovered(m) ELSE row[m]]
  /\ Goes(w, "claiming", {}, Nobody)
  /\ UNCHANGED <<entitled, accepted, doubtful, hitches>>

\* claim: as many due rows as the batch holds, or the end of the execution.
Claim(w) ==
  /\ At(w, "claiming")
  /\ \/ /\ Due = {}
        /\ Goes(w, "asleep", {}, Nobody)
        /\ row' = row
     \/ \E batch \in SUBSET Due :
          /\ Cardinality(batch) = IF Cardinality(Due) < BatchSize THEN Cardinality(Due) ELSE BatchSize
          /\ batch # {}
          /\ row' = [m \in Messages |->
               IF m \in batch
               THEN [row[m] EXCEPT !.status = "EN_COURS", !.lockedBy = w, !.lock = LockTicks]
               ELSE row[m]]
          /\ Goes(w, "delivering", batch, Nobody)
  /\ UNCHANGED <<entitled, accepted, doubtful, hitches>>

\* deliver, its first read: a row that is no longer this worker's is left.
Read(w) ==
  /\ At(w, "delivering")
  /\ \/ /\ worker[w].batch = {}
        /\ Goes(w, "claiming", {}, Nobody)
     \/ \E m \in worker[w].batch :
          IF Mine(w, m) THEN Goes(w, "read", worker[w].batch \ {m}, m)
          ELSE Goes(w, "delivering", worker[w].batch \ {m}, Nobody)
  /\ UNCHANGED <<row, entitled, accepted, doubtful, hitches>>

\* authorizeDelivery: a refusal settles the row.
Authorize(w) ==
  LET m == InHand(w) IN
  /\ At(w, "read")
  /\ IF m \in entitled
     THEN Goes(w, "authorized", worker[w].batch, m) /\ row' = row
     ELSE Goes(w, "delivering", worker[w].batch, Nobody) /\ Finish(w, m, "ANNULE", 0)
  /\ UNCHANGED <<entitled, accepted, doubtful, hitches>>

\* Mutant of Start: the lock is not extended.
StartWithoutExtension(w) ==
  LET m == InHand(w) IN
  /\ At(w, "authorized")
  /\ IF Mine(w, m)
     THEN /\ row' = [row EXCEPT ![m].attempts = @ + 1]
          /\ Goes(w, "sending", worker[w].batch, m)
     ELSE row' = row /\ Goes(w, "delivering", worker[w].batch, Nobody)
  /\ UNCHANGED <<entitled, accepted, doubtful, hitches>>

\* The attempt is counted and the lock extended just before the send.
Start(w) ==
  LET m == InHand(w) IN
  /\ At(w, "authorized")
  /\ IF Mine(w, m)
     THEN /\ row' = [row EXCEPT ![m].attempts = @ + 1, ![m].lock = LockTicks]
          /\ Goes(w, "sending", worker[w].batch, m)
     ELSE row' = row /\ Goes(w, "delivering", worker[w].batch, Nobody)
  /\ UNCHANGED <<entitled, accepted, doubtful, hitches>>

\* External: the provider takes the message, or refuses it, or takes it and
\* its answer is lost; after any time.
Send(w) ==
  LET m == InHand(w) IN
  /\ At(w, "sending")
  /\ \E taken, heard \in BOOLEAN :
       /\ heard => taken
       /\ IF heard THEN GoesAfter(w, "taken", worker[w].batch, m, worker[w].elapsed)
          ELSE Goes(w, "failed", worker[w].batch, m)
       /\ accepted' = IF taken THEN accepted \cup {m} ELSE accepted
       /\ doubtful' = IF taken /\ ~heard THEN doubtful \cup {m} ELSE doubtful
  /\ UNCHANGED <<row, entitled, hitches>>

\* The status of the row: ENVOYE, or a later attempt as long as one is left.
\* The write of ENVOYE may itself fail, which the code takes for a failed send.
Conclude(w) ==
  LET m == InHand(w)
      attempts == row[m].attempts
  IN
  /\ \/ /\ At(w, "taken")
        /\ Finish(w, m, "ENVOYE", 0)
        /\ Goes(w, "delivering", worker[w].batch, Nobody)
        /\ doubtful' = doubtful
     \/ /\ At(w, "taken")
        /\ row' = row
        /\ Goes(w, "failed", worker[w].batch, m)
        /\ doubtful' = doubtful \cup {m}
     \/ /\ At(w, "failed")
        /\ IF attempts >= MaxAttempts
           THEN Finish(w, m, "ABANDONNE", 0)
           ELSE Finish(w, m, "ECHEC", RetryTicks[attempts])
        /\ Goes(w, "delivering", worker[w].batch, Nobody)
        /\ doubtful' = doubtful
  /\ UNCHANGED <<entitled, accepted, hitches>>

\* The process stops, and what it had locked is nobody's until the lock
\* expires; or a database error ends the execution, and it is still its own.  A
\* process that stops between two executions leaves nothing behind.
Interrupt(w) ==
  /\ ~At(w, "asleep") /\ ~At(w, "idle")
  /\ hitches < MaxHitches
  /\ hitches' = hitches + 1
  /\ worker' = [worker EXCEPT ![w] = Asleep]
  /\ \E identity \in {Gone, w} :
       row' = [m \in Messages |->
         IF Mine(w, m) THEN [row[m] EXCEPT !.lockedBy = identity] ELSE row[m]]
  /\ doubtful' = IF At(w, "taken") THEN doubtful \cup {InHand(w)} ELSE doubtful
  /\ UNCHANGED <<entitled, accepted>>

----------------------------------------------------------------------------

\* The recipient loses the right to the message, or the alert is resolved; once
\* the row is settled nothing reads it.
Revoke(m) ==
  /\ m \in entitled /\ row[m].status \notin Final
  /\ entitled' = entitled \ {m}
  /\ UNCHANGED <<row, worker, accepted, doubtful, hitches>>

Slow(w) == worker[w].step \notin {"asleep", "idle", "sending"}

Engaged(w) == worker[w].step \in {"sending", "taken"}

\* One tick of the clock, the period of the task.  A send may last any number of
\* them; a tick that passes between two other steps of a worker is a hitch.
Tick ==
  /\ IF \E w \in Workers : Slow(w)
     THEN hitches < MaxHitches /\ hitches' = hitches + 1
     ELSE hitches' = hitches
  /\ row' = [m \in Messages |->
       [row[m] EXCEPT !.wait = IF @ > 0 THEN @ - 1 ELSE 0,
                      !.lock = IF @ > Expired THEN @ - 1 ELSE Expired]]
  /\ worker' = [w \in Workers |->
       [worker[w] EXCEPT !.step = IF @ = "asleep" THEN "idle" ELSE @,
                         !.elapsed = IF Engaged(w) /\ @ < Overdue THEN @ + 1 ELSE @]]
  /\ doubtful' = doubtful \cup {InHand(w) : w \in {q \in Workers : Engaged(q) /\ worker[q].elapsed >= LockTicks}}
  /\ UNCHANGED <<entitled, accepted>>

Work(w) ==
  Recover(w) \/ Claim(w) \/ Read(w) \/ Authorize(w) \/ Start(w) \/ Send(w) \/ Conclude(w)

Next ==
  \/ \E w \in Workers : Work(w) \/ Interrupt(w)
  \/ \E m \in Messages : Revoke(m)
  \/ Tick

\* Workers are woken every minute and run their steps; time passes.
Fairness == WF_vars(Tick) /\ \A w \in Workers : WF_vars(Work(w))

Spec == Init /\ [][Next]_vars /\ Fairness

----------------------------------------------------------------------------
(* Properties *)

\* Two workers send one message at once only when the send of one of them has
\* outlived its lock (OUTBOX_LOCK_MS): the lock is extended just before a send, so
\* that a row taken late in its batch does not lose it early (deliver; "une ligne
\* ... n'arrive jamais a l'envoi avec un verrou deja expire").
OneSender ==
  \A w, q \in Workers :
    w # q /\ At(w, "sending") /\ At(q, "sending") /\ InHand(w) = InHand(q)
      => Overdue \in {worker[w].elapsed, worker[q].elapsed}

\* A message that the provider took is handed to it again only when the
\* confirmation was lost (9.4, the documented double delivery: a stop or a
\* failed write after the send, an answer that never came), or when a send of
\* it, with the write of its outcome, lasted longer than the lock.
DuplicatesExplained ==
  [][\A m \in Messages : row'[m].attempts > row[m].attempts /\ m \in accepted
                           => m \in doubtful]_vars

\* A settled row stays what it is: no late worker overwrites ENVOYE, ANNULE or
\* ABANDONNE.
FinalStays ==
  [][\A m \in Messages : row[m].status \in Final => row'[m].status = row[m].status]_vars

\* A row is given up only after its last allowed attempt, and never comes back
\* to life with all its attempts spent: a queued row has one left (D-261).
AttemptsSpent ==
  \A m \in Messages :
    /\ row[m].status = "ABANDONNE" => row[m].attempts = MaxAttempts
    /\ row[m].status \in Waiting => row[m].attempts < MaxAttempts

\* Every message ends ENVOYE, ANNULE or ABANDONNE, whatever fails and whoever
\* stops, as long as some worker is restarted.
EverythingSettles == \A m \in Messages : <>[](row[m].status \in Final)

============================================================================
