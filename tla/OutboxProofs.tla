---------------------------- MODULE OutboxProofs ----------------------------
(***************************************************************************)
(* The outbox is safe for any number of messages, workers, attempts and    *)
(* hitches, any delays and sends of any length.  What carries the proof is *)
(* a clock: until the duration of a lock has passed, the lock taken when a *)
(* send starts and the ticks elapsed since add up to that duration, so the *)
(* row is its sender's; once it has passed, the message is doubtful.       *)
(***************************************************************************)
EXTENDS Outbox, TLAPS

Handling == {"read", "authorized", "sending", "taken", "failed"}

\* A worker has a message in hand where its steps need one, and whatever it
\* may still send has an attempt left.
WorkerOK(w) ==
  /\ worker[w].step \in Handling =>
       worker[w].message \in Messages /\ worker[w].message \notin worker[w].batch
  /\ \A m \in worker[w].batch : Mine(w, m) => row[m].attempts < MaxAttempts
  /\ worker[w].step \in {"read", "authorized"} /\ Mine(w, worker[w].message)
       => row[worker[w].message].attempts < MaxAttempts
  /\ worker[w].step \in {"sending", "taken", "failed"} => row[worker[w].message].attempts > 0

\* From the start of a send to its conclusion the row is its sender's, or the
\* duration of the lock has passed.
SenderOK(w) == worker[w].step \in {"sending", "taken"} =>
  \/ worker[w].elapsed = Overdue /\ worker[w].message \in doubtful
  \/ /\ worker[w].elapsed \in 0..LockTicks
     /\ Mine(w, worker[w].message)
     /\ row[worker[w].message].lock + worker[w].elapsed >= LockTicks

\* What the provider took is settled, or about to be, or doubtful.
Confirming(m) == \E w \in Workers : worker[w].step = "taken" /\ worker[w].message = m /\ Mine(w, m)

Explained ==
  \A m \in Messages : m \in accepted /\ m \notin doubtful => row[m].status \in Final \/ Confirming(m)

IInv ==
  /\ TypeOK /\ AttemptsSpent
  /\ \A w \in Workers : WorkerOK(w) /\ SenderOK(w)
  /\ Explained

USE DEF At, InHand, Mine, Handling

----------------------------------------------------------------------------

\* The initial state satisfies the invariant.
LEMMA InitIInv == Init => IInv
<1> SUFFICES ASSUME Init PROVE IInv
  OBVIOUS
<1> USE OutboxAssumption
<1>1. TypeOK
  BY DEF Init, TypeOK, Row, Worker, Steps, Asleep, Expired, Overdue, Waiting, Final
<1>2. AttemptsSpent /\ Explained
  BY DEF Init, AttemptsSpent, Explained
<1>3. \A w \in Workers : WorkerOK(w) /\ SenderOK(w)
  BY DEF Init, WorkerOK, SenderOK, Asleep
<1> QED
  BY <1>1, <1>2, <1>3 DEF IInv

\* Two senders of one message would both hold its lock.
LEMMA SenderAlone == IInv => OneSender
BY DEF IInv, SenderOK, OneSender

\* The types the steps below rely on.
LEMMA Types ==
  ASSUME IInv
  PROVE  /\ row \in [Messages -> Row] /\ worker \in [Workers -> Worker]
         /\ accepted \subseteq Messages /\ doubtful \subseteq Messages
         /\ \A m \in Messages :
              /\ row[m].attempts \in 0..MaxAttempts /\ row[m].attempts \in Nat
              /\ row[m].lock \in Expired..LockTicks /\ row[m].wait \in Nat
         /\ \A w \in Workers : worker[w].elapsed \in 0..Overdue /\ worker[w].batch \subseteq Messages
BY OutboxAssumption DEF IInv, TypeOK, Row, Worker

\* A worker alone moves to its next step.
LEMMA GoingAfter ==
  ASSUME IInv, NEW w \in Workers, NEW step \in Steps, NEW batch \in SUBSET Messages,
         NEW m \in Messages \cup {Nobody}, NEW elapsed \in 0..Overdue,
         GoesAfter(w, step, batch, m, elapsed)
  PROVE  /\ worker' \in [Workers -> Worker]
         /\ worker'[w].step = step /\ worker'[w].batch = batch
         /\ worker'[w].message = m /\ worker'[w].elapsed = elapsed
         /\ \A q \in Workers \ {w} : worker'[q] = worker[q]
BY Types DEF GoesAfter, Worker

\* The same where no send is under way.
LEMMA Going ==
  ASSUME IInv, NEW w \in Workers, NEW step \in Steps, NEW batch \in SUBSET Messages,
         NEW m \in Messages \cup {Nobody}, Goes(w, step, batch, m)
  PROVE  /\ worker' \in [Workers -> Worker]
         /\ worker'[w].step = step /\ worker'[w].batch = batch
         /\ worker'[w].message = m /\ worker'[w].elapsed = 0
         /\ \A q \in Workers \ {w} : worker'[q] = worker[q]
<1>1. 0 \in 0..Overdue
  BY OutboxAssumption DEF Overdue
<1> QED
  BY <1>1, GoingAfter DEF Goes

\* The other workers: attempts only grow, and only those of the rows they
\* have not locked.
LEMMA OtherWorker ==
  ASSUME IInv, NEW q \in Workers, worker'[q] = worker[q],
         \A n \in Messages : row'[n].attempts \in Nat /\ row[n].attempts <= row'[n].attempts,
         \A n \in Messages : row'[n].status = "EN_COURS" /\ row'[n].lockedBy = q
                               => Mine(q, n) /\ row'[n].attempts = row[n].attempts
  PROVE  WorkerOK(q)'
<1>1. WorkerOK(q) /\ worker[q].batch \subseteq Messages
  BY Types DEF IInv
<1> QED
  BY <1>1, Types DEF WorkerOK

\* The row of a send that has not lasted longer than its lock is locked.
LEMMA LockHeld ==
  ASSUME IInv, NEW q \in Workers, worker[q].step \in {"sending", "taken"},
         worker[q].elapsed # Overdue \/ worker[q].message \notin doubtful
  PROVE  /\ worker[q].message \in Messages /\ worker[q].elapsed \in 0..LockTicks
         /\ Mine(q, worker[q].message)
         /\ row[worker[q].message].lock \in 0..LockTicks
         /\ row[worker[q].message].lock + worker[q].elapsed >= LockTicks
         /\ ~LockExpired(worker[q].message)
<1>1. PICK n \in Messages : n = worker[q].message
  BY DEF IInv, WorkerOK
<1>2. /\ worker[q].elapsed \in 0..LockTicks /\ Mine(q, n)
      /\ row[n].lock + worker[q].elapsed >= LockTicks
  BY <1>1 DEF IInv, SenderOK
<1>3. row[n].lock \in -1..LockTicks /\ LockTicks \in Nat
  BY Types, OutboxAssumption DEF Expired
<1>4. row[n].lock \in 0..LockTicks
  BY <1>2, <1>3
<1> QED
  BY <1>1, <1>2, <1>4 DEF LockExpired, Expired

\* Rows whose lock is held and not expired are left to their senders.
LEMMA OtherSender ==
  ASSUME IInv, NEW q \in Workers, worker'[q] = worker[q], doubtful \subseteq doubtful',
         \A n \in Messages : Mine(q, n) /\ ~LockExpired(n) => row'[n] = row[n]
  PROVE  SenderOK(q)'
<1>1. CASE worker[q].step \in {"sending", "taken"} /\ worker[q].elapsed # Overdue
  BY <1>1, LockHeld DEF SenderOK
<1>2. CASE worker[q].step \in {"sending", "taken"} /\ worker[q].elapsed = Overdue
  <2>1. worker[q].message \in doubtful
    <3>1. ~(Overdue \in 0..LockTicks)
      BY OutboxAssumption DEF Overdue
    <3> QED
      BY <1>2, <3>1 DEF IInv, SenderOK
  <2> QED
    BY <1>2, <2>1 DEF SenderOK
<1>3. CASE worker[q].step \notin {"sending", "taken"}
  BY <1>3 DEF SenderOK
<1> QED
  BY <1>1, <1>2, <1>3

\* A message being confirmed stays so, unless its worker or its row moves.
LEMMA StillExplained ==
  ASSUME IInv, NEW m \in Messages, m \in accepted, m \notin doubtful,
         row[m].status \in Final => row'[m].status \in Final,
         \A q \in Workers : worker[q].step = "taken" /\ worker[q].message = m /\ Mine(q, m)
                              => worker'[q] = worker[q] /\ row'[m] = row[m]
  PROVE  row'[m].status \in Final \/ Confirming(m)'
BY DEF IInv, Explained, Confirming

----------------------------------------------------------------------------
(* The steps of a worker *)

\* Recover keeps the invariant.
LEMMA RecoverKeeps == ASSUME IInv, NEW w \in Workers, Recover(w) PROVE IInv'
<1> USE OutboxAssumption
<1>1. /\ worker' \in [Workers -> Worker] /\ worker'[w].step = "claiming"
      /\ worker'[w].batch = {}
      /\ \A q \in Workers \ {w} : worker'[q] = worker[q]
  BY Going DEF Recover, Steps
<1>2. /\ row' \in [Messages -> Row]
      /\ \A m \in Messages :
           /\ row'[m].attempts = row[m].attempts
           /\ ~LockExpired(m) => row'[m] = row[m]
           /\ LockExpired(m) =>
                \/ row'[m].status = "EN_ATTENTE" /\ row[m].attempts < MaxAttempts
                \/ row'[m].status = "ABANDONNE" /\ row[m].attempts = MaxAttempts
  <2>1. row' = [m \in Messages |-> IF LockExpired(m) THEN Recovered(m) ELSE row[m]]
    BY DEF Recover
  <2>2. ASSUME NEW m \in Messages
        PROVE  /\ Recovered(m) \in Row /\ Recovered(m).attempts = row[m].attempts
               /\ \/ Recovered(m).status = "EN_ATTENTE" /\ row[m].attempts < MaxAttempts
                  \/ Recovered(m).status = "ABANDONNE" /\ row[m].attempts = MaxAttempts
    <3>1. row[m] \in Row
      BY Types
    <3>2. PICK status \in {"EN_ATTENTE", "ABANDONNE"}, wait \in Nat :
            /\ Recovered(m) = [row[m] EXCEPT !.lockedBy = Nobody, !.lock = Expired,
                                             !.status = status, !.wait = wait]
            /\ status = IF row[m].attempts >= MaxAttempts THEN "ABANDONNE" ELSE "EN_ATTENTE"
      BY <3>1, Types DEF Recovered
    <3>3. Recovered(m) = [status |-> status, attempts |-> row[m].attempts, wait |-> wait,
                          lockedBy |-> Nobody, lock |-> Expired]
      BY <3>1, <3>2 DEF Row
    <3>4. Recovered(m) \in Row
      BY <3>1, <3>3, Types DEF Row, Final, Waiting, Expired
    <3> QED
      BY <3>2, <3>3, <3>4, Types
  <2> QED
    BY <2>1, <2>2, Types
<1>3. UNCHANGED <<entitled, accepted, doubtful, hitches>> /\ worker[w].step = "idle"
  BY DEF Recover
<1>4. TypeOK'
  BY <1>1, <1>2, <1>3 DEF IInv, TypeOK
<1>5. AttemptsSpent'
  BY <1>2, <1>3 DEF IInv, AttemptsSpent, Waiting
<1>6. ASSUME NEW q \in Workers PROVE WorkerOK(q)' /\ SenderOK(q)'
  <2>1. CASE q = w
    BY <1>1, <2>1 DEF WorkerOK, SenderOK
  <2>2. CASE q # w
    <3>1. worker'[q] = worker[q]
      BY <1>1, <2>2
    <3>2. \A n \in Messages : row'[n].status = "EN_COURS" => row'[n] = row[n]
      BY <1>2
    <3>3. WorkerOK(q)'
      BY <1>2, <3>1, <3>2, OtherWorker, Types, SMTT(30)
    <3>4. SenderOK(q)'
      BY <1>2, <1>3, <3>1, OtherSender
    <3> QED
      BY <3>3, <3>4
  <2> QED
    BY <2>1, <2>2
<1>7. Explained'
  <2> SUFFICES ASSUME NEW m \in Messages, m \in accepted, m \notin doubtful
               PROVE  row'[m].status \in Final \/ Confirming(m)'
    BY <1>3 DEF Explained
  <2>1. row[m].status \in Final => row'[m].status \in Final
    BY <1>2 DEF LockExpired, Final
  <2>2. \A q \in Workers : worker[q].step = "taken" /\ worker[q].message = m
                             => worker'[q] = worker[q] /\ row'[m] = row[m]
    BY <1>1, <1>2, <1>3, LockHeld
  <2> QED
    BY <1>3, <2>1, <2>2, StillExplained
<1> QED
  BY <1>4, <1>5, <1>6, <1>7 DEF IInv

\* What is due has an attempt left.
LEMMA ClaimKeeps == ASSUME IInv, NEW w \in Workers, Claim(w) PROVE IInv'
<1> USE OutboxAssumption
<1>1. UNCHANGED <<entitled, accepted, doubtful, hitches>> /\ worker[w].step = "claiming"
  BY DEF Claim
<1>2. PICK batch \in SUBSET Messages, step \in {"asleep", "delivering"} :
        /\ Goes(w, step, batch, Nobody)
        /\ \A m \in batch : row[m].status \in Waiting
        /\ row' = [m \in Messages |->
             IF m \in batch
             THEN [row[m] EXCEPT !.status = "EN_COURS", !.lockedBy = w, !.lock = LockTicks]
             ELSE row[m]]
  <2>1. CASE Due = {} /\ Goes(w, "asleep", {}, Nobody) /\ row' = row
    BY <2>1, Types
  <2>2. CASE \E batch \in SUBSET Due :
               /\ Goes(w, "delivering", batch, Nobody)
               /\ row' = [m \in Messages |->
                    IF m \in batch
                    THEN [row[m] EXCEPT !.status = "EN_COURS", !.lockedBy = w, !.lock = LockTicks]
                    ELSE row[m]]
    BY <2>2 DEF Due
  <2> QED
    BY <2>1, <2>2 DEF Claim
<1>3. /\ worker' \in [Workers -> Worker] /\ worker'[w].step \in {"asleep", "delivering"}
      /\ worker'[w].batch = batch
      /\ \A q \in Workers \ {w} : worker'[q] = worker[q]
  <2>1. step \in Steps
    BY DEF Steps
  <2> QED
    BY <1>2, <2>1, Going
<1>4. ASSUME NEW m \in batch
      PROVE  /\ row'[m] \in Row /\ row'[m].status = "EN_COURS" /\ row'[m].lockedBy = w
             /\ row'[m].attempts = row[m].attempts /\ row[m].attempts < MaxAttempts
  <2>1. m \in Messages /\ row[m] \in Row /\ row[m].attempts < MaxAttempts
    BY <1>2, Types DEF IInv, AttemptsSpent
  <2>2. row'[m] = [row[m] EXCEPT !.status = "EN_COURS", !.lockedBy = w, !.lock = LockTicks]
    BY <1>2, <2>1
  <2>3. row'[m] = [status |-> "EN_COURS", attempts |-> row[m].attempts,
                   wait |-> row[m].wait, lockedBy |-> w, lock |-> LockTicks]
    BY <2>1, <2>2 DEF Row
  <2> QED
    BY <2>1, <2>3 DEF Row, Expired
<1>5. \A m \in Messages \ batch : row'[m] = row[m]
  BY <1>2
<1>6. row' \in [Messages -> Row]
  BY <1>2, <1>4, <1>5, Types
<1>7. TypeOK'
  BY <1>1, <1>3, <1>6 DEF IInv, TypeOK
<1>8. AttemptsSpent'
  BY <1>1, <1>4, <1>5 DEF IInv, AttemptsSpent, Waiting
<1>9. ASSUME NEW q \in Workers PROVE WorkerOK(q)' /\ SenderOK(q)'
  <2>1. CASE q = w
    BY <1>3, <1>4, <2>1 DEF WorkerOK, SenderOK
  <2>2. CASE q # w
    <3>1. worker'[q] = worker[q]
      BY <1>3, <2>2
    <3>2. \A n \in Messages : row'[n].attempts = row[n].attempts
      BY <1>4, <1>5
    <3>3. \A n \in Messages : row'[n].lockedBy = q => row'[n] = row[n]
      BY <1>4, <1>5, <2>2
    <3>4. WorkerOK(q)'
      <4>1. \A n \in Messages : row'[n].attempts \in Nat /\ row[n].attempts <= row'[n].attempts
        BY <3>2, Types
      <4> QED
        BY <3>1, <3>3, <4>1, OtherWorker
    <3>5. \A n \in Messages : Mine(q, n) => row'[n] = row[n]
      BY <1>1, <1>2, <1>5 DEF Waiting
    <3>6. SenderOK(q)'
      BY <1>1, <3>1, <3>5, OtherSender
    <3> QED
      BY <3>4, <3>6
  <2> QED
    BY <2>1, <2>2
<1>10. Explained'
  <2> SUFFICES ASSUME NEW m \in Messages, m \in accepted, m \notin doubtful
               PROVE  row'[m].status \in Final \/ Confirming(m)'
    BY <1>1 DEF Explained
  <2>1. m \notin batch
    BY <1>2 DEF IInv, Explained, Confirming, Waiting, Final
  <2> QED
    BY <1>1, <1>3, <1>5, <2>1, StillExplained
<1> QED
  BY <1>7, <1>8, <1>9, <1>10 DEF IInv

\* A step of w that leaves the rows alone and that the provider knows nothing of.
LEMMA RowsUntouched ==
  ASSUME IInv, NEW w \in Workers, UNCHANGED <<row, entitled, accepted, hitches>>,
         worker' \in [Workers -> Worker], worker'[w].step \notin {"sending", "taken"},
         \A q \in Workers \ {w} : worker'[q] = worker[q],
         WorkerOK(w)', doubtful' \subseteq Messages, doubtful \subseteq doubtful',
         worker[w].step = "taken" => worker[w].message \in doubtful'
  PROVE  IInv'
<1>1. TypeOK' /\ AttemptsSpent'
  BY DEF IInv, TypeOK, AttemptsSpent
<1>2. ASSUME NEW q \in Workers PROVE WorkerOK(q)' /\ SenderOK(q)'
  <2>1. CASE q = w
    BY <2>1 DEF SenderOK
  <2>2. CASE q # w
    BY <2>2, OtherWorker, OtherSender, Types
  <2> QED
    BY <2>1, <2>2
<1>3. Explained'
  <2> SUFFICES ASSUME NEW m \in Messages, m \in accepted, m \notin doubtful'
               PROVE  row'[m].status \in Final \/ Confirming(m)'
    BY DEF Explained
  <2> QED
    BY StillExplained
<1> QED
  BY <1>1, <1>2, <1>3 DEF IInv

\* Read keeps the invariant.
LEMMA ReadKeeps == ASSUME IInv, NEW w \in Workers, Read(w) PROVE IInv'
<1> USE OutboxAssumption
<1>1. /\ UNCHANGED <<row, entitled, accepted, doubtful, hitches>> /\ worker[w].step = "delivering"
      /\ doubtful \subseteq Messages
  BY DEF Read, IInv, TypeOK
<1>2. PICK step \in {"claiming", "delivering", "read"}, batch \in SUBSET worker[w].batch,
           m \in Messages \cup {Nobody} :
        /\ Goes(w, step, batch, m)
        /\ step = "read" => m \in worker[w].batch /\ m \notin batch
  <2>1. CASE Goes(w, "claiming", {}, Nobody)
    BY <2>1
  <2>2. ASSUME NEW m \in worker[w].batch,
               Goes(w, IF Mine(w, m) THEN "read" ELSE "delivering", worker[w].batch \ {m}, m)
        PROVE  \E step \in {"claiming", "delivering", "read"}, batch \in SUBSET worker[w].batch,
                  n \in Messages \cup {Nobody} :
                 /\ Goes(w, step, batch, n)
                 /\ step = "read" => n \in worker[w].batch /\ n \notin batch
    <3>1. m \in Messages /\ worker[w].batch \ {m} \in SUBSET worker[w].batch
      BY Types
    <3>2. CASE Mine(w, m)
      <4>1. Goes(w, "read", worker[w].batch \ {m}, m)
        BY <2>2, <3>2
      <4> QED
        BY <3>1, <4>1
    <3>3. CASE ~Mine(w, m)
      <4>1. Goes(w, "delivering", worker[w].batch \ {m}, m)
        BY <2>2, <3>3
      <4> QED
        BY <3>1, <4>1
    <3> QED
      BY <3>2, <3>3
  <2> QED
    BY <2>1, <2>2 DEF Read
<1>3. /\ worker' \in [Workers -> Worker] /\ worker'[w].step = step
      /\ worker'[w].batch = batch /\ worker'[w].message = m
      /\ \A q \in Workers \ {w} : worker'[q] = worker[q]
  <2>1. step \in Steps /\ batch \in SUBSET Messages
    BY Types DEF Steps
  <2>2. Goes(w, step, batch, m)
    BY <1>2
  <2> QED
    BY <2>1, <2>2, Going
<1>4. WorkerOK(w)'
  <2>1. \A n \in worker[w].batch : Mine(w, n) => row[n].attempts < MaxAttempts
    BY DEF IInv, WorkerOK
  <2> QED
    BY <1>1, <1>2, <1>3, <2>1, Types DEF WorkerOK
<1> QED
  BY <1>1, <1>3, <1>4, RowsUntouched

\* What a worker writes when it is done with a row, if the row is still its own.
LEMMA Settling ==
  ASSUME IInv, NEW w \in Workers, NEW m \in Messages, NEW status \in Final \cup Waiting,
         NEW wait \in Nat, Finish(w, m, status, wait),
         Mine(w, m) /\ status \in Waiting => row[m].attempts < MaxAttempts,
         Mine(w, m) /\ status = "ABANDONNE" => row[m].attempts = MaxAttempts
  PROVE  /\ row' \in [Messages -> Row]
         /\ \A n \in Messages : row'[n].attempts = row[n].attempts
         /\ \A n \in Messages : ~(n = m /\ Mine(w, m)) => row'[n] = row[n]
         /\ Mine(w, m) => row'[m].status = status
         /\ AttemptsSpent'
<1> USE OutboxAssumption
<1>1. row[m] \in Row /\ row \in [Messages -> Row]
  BY Types
<1>2. CASE ~Mine(w, m)
  <2>1. row' = row
    BY <1>2 DEF Finish
  <2> QED
    BY <1>1, <1>2, <2>1 DEF IInv, AttemptsSpent
<1>3. CASE Mine(w, m)
  <2>1. row' = [row EXCEPT ![m].status = status, ![m].wait = wait, ![m].lockedBy = Nobody,
                           ![m].lock = Expired]
    BY <1>3 DEF Finish, Settled
  <2>2. row'[m] = [status |-> status, attempts |-> row[m].attempts, wait |-> wait,
                   lockedBy |-> Nobody, lock |-> Expired]
    BY <1>1, <2>1 DEF Row
  <2>3. row'[m] \in Row /\ row'[m].status = status /\ row'[m].attempts = row[m].attempts
    BY <1>1, <2>2 DEF Row, Expired
  <2>4. \A n \in Messages \ {m} : row'[n] = row[n]
    BY <1>1, <2>1
  <2>5. row' \in [Messages -> Row]
    BY <1>1, <2>1, <2>3, <2>4
  <2>6. AttemptsSpent'
    BY <1>3, <2>3, <2>4 DEF IInv, AttemptsSpent, Waiting
  <2> QED
    BY <1>3, <2>3, <2>4, <2>5, <2>6
<1> QED
  BY <1>2, <1>3

\* The worker settles the message in hand, then turns to the next.
LEMMA SettlingKeeps ==
  ASSUME IInv, NEW w \in Workers, NEW m \in Messages, NEW status \in Final \cup Waiting,
         NEW wait \in Nat, Finish(w, m, status, wait),
         Goes(w, "delivering", worker[w].batch, Nobody),
         Mine(w, m) /\ status \in Waiting => row[m].attempts < MaxAttempts,
         Mine(w, m) /\ status = "ABANDONNE" => row[m].attempts = MaxAttempts,
         worker[w].step = "taken" => worker[w].message = m /\ status = "ENVOYE",
         UNCHANGED <<entitled, accepted, doubtful, hitches>>
  PROVE  IInv'
<1>1. /\ worker' \in [Workers -> Worker] /\ worker'[w].step = "delivering"
      /\ worker'[w].batch = worker[w].batch
      /\ \A q \in Workers \ {w} : worker'[q] = worker[q]
  BY Going, Types DEF Steps
<1>2. /\ row' \in [Messages -> Row]
      /\ \A n \in Messages : row'[n].attempts = row[n].attempts
      /\ \A n \in Messages : ~(n = m /\ Mine(w, m)) => row'[n] = row[n]
      /\ Mine(w, m) => row'[m].status = status
      /\ AttemptsSpent'
  BY Settling
<1>3. TypeOK'
  BY <1>1, <1>2 DEF IInv, TypeOK
<1>4. \A n \in Messages : row'[n].status = "EN_COURS" => row'[n] = row[n]
  BY <1>2 DEF Final, Waiting
<1>5. ASSUME NEW q \in Workers PROVE WorkerOK(q)' /\ SenderOK(q)'
  <2>1. CASE q = w
    <3>1. \A n \in worker[w].batch : Mine(w, n) => row[n].attempts < MaxAttempts
      BY DEF IInv, WorkerOK
    <3> QED
      BY <1>1, <1>2, <1>4, <2>1, <3>1, Types DEF WorkerOK, SenderOK
  <2>2. CASE q # w
    <3>1. worker'[q] = worker[q]
      BY <1>1, <2>2
    <3>2. WorkerOK(q)'
      BY <1>2, <1>4, <3>1, OtherWorker, Types
    <3>3. \A n \in Messages : Mine(q, n) => row'[n] = row[n]
      BY <1>2, <2>2
    <3> QED
      BY <3>1, <3>2, <3>3, OtherSender
  <2> QED
    BY <2>1, <2>2
<1>6. Explained'
  <2> SUFFICES ASSUME NEW n \in Messages, n \in accepted, n \notin doubtful
               PROVE  row'[n].status \in Final \/ Confirming(n)'
    BY DEF Explained
  <2>1. CASE n = m /\ Mine(w, m)
    <3>1. status \in Final
      BY <2>1 DEF IInv, Explained, Confirming, Final
    <3> QED
      BY <1>2, <2>1, <3>1
  <2>2. CASE ~(n = m /\ Mine(w, m))
    BY <1>1, <1>2, <2>2, StillExplained
  <2> QED
    BY <2>1, <2>2
<1> QED
  BY <1>2, <1>3, <1>5, <1>6 DEF IInv

\* Authorize keeps the invariant.
LEMMA AuthorizeKeeps == ASSUME IInv, NEW w \in Workers, Authorize(w) PROVE IInv'
<1>1. /\ UNCHANGED <<entitled, accepted, doubtful, hitches>> /\ worker[w].step = "read"
      /\ worker[w].message \in Messages /\ worker[w].batch \in SUBSET Messages
      /\ doubtful \subseteq Messages
  BY Types DEF Authorize, IInv, WorkerOK, TypeOK
<1>2. PICK m \in Messages : m = worker[w].message
  BY <1>1
<1>3. CASE m \in entitled
  <2>1. Goes(w, "authorized", worker[w].batch, m) /\ row' = row
    BY <1>2, <1>3 DEF Authorize
  <2>2. /\ worker' \in [Workers -> Worker] /\ worker'[w].step = "authorized"
        /\ worker'[w].batch = worker[w].batch /\ worker'[w].message = m
        /\ \A q \in Workers \ {w} : worker'[q] = worker[q]
    BY <1>1, <2>1, Going DEF Steps
  <2>3. WorkerOK(w)'
    BY <1>1, <1>2, <2>1, <2>2 DEF IInv, WorkerOK
  <2> QED
    BY <1>1, <2>1, <2>2, <2>3, RowsUntouched
<1>4. CASE m \notin entitled
  <2>1. Goes(w, "delivering", worker[w].batch, Nobody) /\ Finish(w, m, "ANNULE", 0)
    BY <1>2, <1>4 DEF Authorize
  <2>2. "ANNULE" \in Final \cup Waiting /\ "ANNULE" \notin Waiting
    BY DEF Final, Waiting
  <2> QED
    BY <1>1, <2>1, <2>2, SettlingKeeps
<1> QED
  BY <1>3, <1>4

\* One more attempt, under a lock as long as it can be.
LEMMA StartKeeps == ASSUME IInv, NEW w \in Workers, Start(w) PROVE IInv'
<1> USE OutboxAssumption
<1>1. /\ UNCHANGED <<entitled, accepted, doubtful, hitches>> /\ worker[w].step = "authorized"
      /\ worker[w].message \in Messages /\ worker[w].batch \in SUBSET Messages
      /\ doubtful \subseteq Messages
  BY Types DEF Start, IInv, WorkerOK, TypeOK
<1>2. PICK m \in Messages : m = worker[w].message
  BY <1>1
<1>3. CASE ~Mine(w, m)
  <2>1. Goes(w, "delivering", worker[w].batch, Nobody) /\ row' = row
    BY <1>2, <1>3 DEF Start
  <2>2. /\ worker' \in [Workers -> Worker] /\ worker'[w].step = "delivering"
        /\ worker'[w].batch = worker[w].batch
        /\ \A q \in Workers \ {w} : worker'[q] = worker[q]
    BY <1>1, <2>1, Going DEF Steps
  <2>3. WorkerOK(w)'
    BY <1>1, <2>1, <2>2 DEF IInv, WorkerOK
  <2> QED
    BY <1>1, <2>1, <2>2, <2>3, RowsUntouched
<1>4. CASE Mine(w, m)
  <2>1. /\ Goes(w, "sending", worker[w].batch, m)
        /\ row' = [row EXCEPT ![m].attempts = @ + 1, ![m].lock = LockTicks]
    BY <1>2, <1>4 DEF Start
  <2>2. /\ worker' \in [Workers -> Worker] /\ worker'[w].step = "sending"
        /\ worker'[w].batch = worker[w].batch /\ worker'[w].message = m
        /\ worker'[w].elapsed = 0
        /\ \A q \in Workers \ {w} : worker'[q] = worker[q]
    BY <1>1, <2>1, Going DEF Steps
  <2>3. row[m].attempts < MaxAttempts
    BY <1>1, <1>2, <1>4 DEF IInv, WorkerOK
  <2>4. row'[m] = [status |-> row[m].status, attempts |-> row[m].attempts + 1,
                   wait |-> row[m].wait, lockedBy |-> w, lock |-> LockTicks]
    <3>1. row[m] \in Row /\ row \in [Messages -> Row]
      BY Types
    <3> QED
      BY <1>4, <2>1, <3>1 DEF Row
  <2>5. /\ row'[m] \in Row /\ row'[m].status = "EN_COURS" /\ row'[m].lockedBy = w
        /\ row'[m].attempts = row[m].attempts + 1 /\ row'[m].lock = LockTicks
    BY <1>4, <2>3, <2>4, Types DEF Row, Expired
  <2>6. \A n \in Messages \ {m} : row'[n] = row[n]
    BY <2>1, Types
  <2>7. row' \in [Messages -> Row]
    BY <2>1, <2>5, <2>6, Types
  <2>8. TypeOK'
    BY <1>1, <2>2, <2>7 DEF IInv, TypeOK
  <2>9. \A n \in Messages : row'[n].attempts \in Nat /\ row[n].attempts <= row'[n].attempts
    <3>1. row'[m].attempts \in Nat /\ row[m].attempts <= row'[m].attempts
      BY <2>5, Types
    <3> QED
      <4>1. \A n \in Messages \ {m} : row'[n] = row[n] /\ row[n].attempts \in Nat
        BY <2>6, Types
      <4> QED
        BY <3>1, <4>1
  <2>10. AttemptsSpent'
    BY <2>5, <2>6 DEF IInv, AttemptsSpent, Waiting
  <2>11. ASSUME NEW q \in Workers PROVE WorkerOK(q)' /\ SenderOK(q)'
    <3>1. CASE q = w
      <4>1. \A n \in worker[w].batch : n # m /\ (Mine(w, n) => row[n].attempts < MaxAttempts)
        BY <1>1, <1>2 DEF IInv, WorkerOK
      <4>2. row'[m].attempts > 0
        BY <2>5, Types
      <4>3. WorkerOK(w)'
        BY <1>1, <2>2, <2>6, <4>1, <4>2 DEF WorkerOK
      <4>4. 0 \in 0..LockTicks /\ LockTicks + 0 >= LockTicks
        OBVIOUS
      <4>5. SenderOK(w)'
        BY <1>1, <2>2, <2>5, <4>4 DEF SenderOK
      <4> QED
        BY <3>1, <4>3, <4>5
    <3>2. CASE q # w
      <4>1. worker'[q] = worker[q]
        BY <2>2, <3>2
      <4>2. \A n \in Messages : row'[n].lockedBy = q => row'[n] = row[n]
        BY <2>5, <2>6, <3>2
      <4>3. WorkerOK(q)'
        BY <2>9, <4>1, <4>2, OtherWorker
      <4>4. \A n \in Messages : Mine(q, n) => row'[n] = row[n]
        BY <1>1, <1>4, <2>6, <3>2
      <4> QED
        BY <1>1, <4>1, <4>3, <4>4, OtherSender
    <3> QED
      BY <3>1, <3>2
  <2>12. Explained'
    <3> SUFFICES ASSUME NEW n \in Messages, n \in accepted, n \notin doubtful
                 PROVE  row'[n].status \in Final \/ Confirming(n)'
      BY <1>1 DEF Explained
    <3>1. n # m
      BY <1>1, <1>4 DEF IInv, Explained, Confirming, Final
    <3> QED
      BY <1>1, <2>2, <2>6, <3>1, StillExplained
  <2> QED
    BY <2>8, <2>10, <2>11, <2>12 DEF IInv
<1> QED
  BY <1>3, <1>4

\* What is taken by a send no longer than its lock is about to be settled.
LEMMA SendKeeps == ASSUME IInv, NEW w \in Workers, Send(w) PROVE IInv'
<1> USE OutboxAssumption
<1>1. /\ UNCHANGED <<row, entitled, hitches>> /\ worker[w].step = "sending"
      /\ worker[w].message \in Messages /\ worker[w].batch \in SUBSET Messages
      /\ doubtful \subseteq Messages /\ accepted \subseteq Messages
      /\ worker[w].elapsed \in 0..Overdue /\ 0 \in 0..Overdue
  BY Types DEF Send, IInv, WorkerOK, Overdue
<1>2. PICK m \in Messages : m = worker[w].message
  BY <1>1
<1>3. PICK step \in {"taken", "failed"} :
        /\ step = "taken" => GoesAfter(w, "taken", worker[w].batch, m, worker[w].elapsed)
        /\ step = "failed" => GoesAfter(w, "failed", worker[w].batch, m, 0)
        /\ \/ accepted' = accepted /\ doubtful' = doubtful /\ step = "failed"
           \/ /\ accepted' = accepted \cup {m}
              /\ \/ doubtful' = doubtful /\ step = "taken"
                 \/ doubtful' = doubtful \cup {m}
  <2>1. PICK taken \in BOOLEAN, heard \in BOOLEAN :
          /\ heard => taken
          /\ IF heard THEN GoesAfter(w, "taken", worker[w].batch, m, worker[w].elapsed)
             ELSE GoesAfter(w, "failed", worker[w].batch, m, 0)
          /\ accepted' = IF taken THEN accepted \cup {m} ELSE accepted
          /\ doubtful' = IF taken /\ ~heard THEN doubtful \cup {m} ELSE doubtful
    BY <1>2 DEF Send, Goes
  <2>2. CASE heard
    BY <2>1, <2>2
  <2>3. CASE ~heard
    BY <2>1, <2>3
  <2> QED
    BY <2>2, <2>3
<1>4. /\ worker' \in [Workers -> Worker] /\ worker'[w].step = step
      /\ worker'[w].batch = worker[w].batch /\ worker'[w].message = m
      /\ step = "taken" => worker'[w].elapsed = worker[w].elapsed
      /\ \A q \in Workers \ {w} : worker'[q] = worker[q]
  <2>1. CASE step = "taken"
    <3>1. GoesAfter(w, "taken", worker[w].batch, m, worker[w].elapsed)
      BY <1>3, <2>1
    <3>2. "taken" \in Steps
      BY DEF Steps
    <3> QED
      BY <1>1, <2>1, <3>1, <3>2, GoingAfter
  <2>2. CASE step = "failed"
    <3>1. GoesAfter(w, "failed", worker[w].batch, m, 0)
      BY <1>3, <2>2
    <3>2. "failed" \in Steps
      BY DEF Steps
    <3> QED
      BY <1>1, <2>2, <3>1, <3>2, GoingAfter
  <2> QED
    BY <2>1, <2>2
<1>5. /\ accepted' \subseteq Messages /\ doubtful' \subseteq Messages
      /\ doubtful \subseteq doubtful'
      /\ \A n \in Messages \ {m} : n \in accepted' => n \in accepted
      /\ m \in accepted' /\ m \notin doubtful' => m \in accepted \/ step = "taken"
  BY <1>1, <1>3
<1>6. TypeOK' /\ AttemptsSpent'
  BY <1>1, <1>4, <1>5 DEF IInv, TypeOK, AttemptsSpent
<1>7. ASSUME NEW q \in Workers PROVE WorkerOK(q)' /\ SenderOK(q)'
  <2>1. CASE q = w
    <3>1. WorkerOK(w)'
      BY <1>1, <1>2, <1>4 DEF IInv, WorkerOK
    <3>2. SenderOK(w)'
      BY <1>1, <1>2, <1>4, <1>5 DEF IInv, SenderOK
    <3> QED
      BY <2>1, <3>1, <3>2
  <2>2. CASE q # w
    <3>1. worker'[q] = worker[q]
      BY <1>4, <2>2
    <3>2. WorkerOK(q)'
      BY <1>1, <3>1, OtherWorker, Types, SMTT(30)
    <3>3. SenderOK(q)'
      BY <1>1, <1>5, <3>1, OtherSender
    <3> QED
      BY <3>2, <3>3
  <2> QED
    BY <2>1, <2>2
<1>8. Explained'
  <2> SUFFICES ASSUME NEW n \in Messages, n \in accepted', n \notin doubtful'
               PROVE  row'[n].status \in Final \/ Confirming(n)'
    BY DEF Explained
  <2>1. CASE n = m
    <3>1. m \notin doubtful /\ Mine(w, m)
      BY <1>1, <1>2, <1>5, <2>1, LockHeld
    <3>2. CASE step = "taken"
      BY <1>1, <1>4, <2>1, <3>1, <3>2 DEF Confirming
    <3>3. CASE step # "taken"
      <4>1. m \in accepted
        BY <1>5, <2>1, <3>3
      <4>2. row[m].status \notin Final
        BY <3>1 DEF Final
      <4> QED
        BY <1>1, <3>1, <4>1, <4>2 DEF IInv, Explained, Confirming
    <3> QED
      BY <3>2, <3>3
  <2>2. CASE n # m
    BY <1>1, <1>4, <1>5, <2>2, StillExplained
  <2> QED
    BY <2>1, <2>2
<1> QED
  BY <1>6, <1>7, <1>8 DEF IInv

\* Conclude keeps the invariant.
LEMMA ConcludeKeeps == ASSUME IInv, NEW w \in Workers, Conclude(w) PROVE IInv'
<1> USE OutboxAssumption
<1>1. /\ UNCHANGED <<entitled, accepted, hitches>> /\ worker[w].step \in {"taken", "failed"}
      /\ worker[w].message \in Messages /\ worker[w].batch \in SUBSET Messages
      /\ doubtful \subseteq Messages
  BY Types DEF Conclude, IInv, WorkerOK, TypeOK
<1>2. PICK m \in Messages : m = worker[w].message
  BY <1>1
<1>3. row[m].attempts > 0 /\ row[m].attempts \in 0..MaxAttempts
  BY <1>1, <1>2, Types DEF IInv, WorkerOK
<1> DEFINE attempts == row[m].attempts
<1>4. CASE /\ Finish(w, m, "ENVOYE", 0) /\ doubtful' = doubtful
           /\ Goes(w, "delivering", worker[w].batch, Nobody)
  <2>1. "ENVOYE" \in Final \cup Waiting /\ "ENVOYE" \notin Waiting
    BY DEF Final, Waiting
  <2> QED
    BY <1>1, <1>2, <1>4, <2>1, SettlingKeeps
<1>5. CASE /\ row' = row /\ doubtful' = doubtful \cup {m}
           /\ Goes(w, "failed", worker[w].batch, m)
  <2>1. /\ worker' \in [Workers -> Worker] /\ worker'[w].step = "failed"
        /\ worker'[w].batch = worker[w].batch /\ worker'[w].message = m
        /\ \A q \in Workers \ {w} : worker'[q] = worker[q]
    BY <1>1, <1>5, Going DEF Steps
  <2>2. WorkerOK(w)'
    BY <1>1, <1>2, <1>5, <2>1 DEF IInv, WorkerOK
  <2> QED
    BY <1>1, <1>2, <1>5, <2>1, <2>2, RowsUntouched
<1>6. CASE /\ worker[w].step = "failed" /\ attempts >= MaxAttempts
           /\ Finish(w, m, "ABANDONNE", 0) /\ doubtful' = doubtful
           /\ Goes(w, "delivering", worker[w].batch, Nobody)
  <2>1. "ABANDONNE" \in Final \cup Waiting /\ "ABANDONNE" \notin Waiting
    BY DEF Final, Waiting
  <2>2. row[m].attempts = MaxAttempts
    BY <1>3, <1>6
  <2> QED
    BY <1>1, <1>6, <2>1, <2>2, SettlingKeeps
<1>7. CASE /\ worker[w].step = "failed" /\ ~(attempts >= MaxAttempts)
           /\ Finish(w, m, "ECHEC", RetryTicks[attempts]) /\ doubtful' = doubtful
           /\ Goes(w, "delivering", worker[w].batch, Nobody)
  <2>1. "ECHEC" \in Final \cup Waiting
    BY DEF Final, Waiting
  <2>2. attempts < MaxAttempts /\ RetryTicks[attempts] \in Nat
    BY <1>3, <1>7
  <2> QED
    BY <1>1, <1>7, <2>1, <2>2, SettlingKeeps
<1> QED
  BY <1>2, <1>4, <1>5, <1>6, <1>7 DEF Conclude

----------------------------------------------------------------------------
(* The others *)

\* Interrupt keeps the invariant.
LEMMA InterruptKeeps == ASSUME IInv, NEW w \in Workers, Interrupt(w) PROVE IInv'
<1> USE OutboxAssumption
<1>1. /\ UNCHANGED <<entitled, accepted>> /\ hitches' \in 0..MaxHitches
      /\ worker' = [worker EXCEPT ![w] = Asleep]
      /\ doubtful' = IF worker[w].step = "taken" THEN doubtful \cup {worker[w].message} ELSE doubtful
  <2>1. hitches \in 0..MaxHitches /\ hitches < MaxHitches /\ hitches' = hitches + 1
    BY DEF Interrupt, IInv, TypeOK
  <2>2. hitches' \in 0..MaxHitches
    BY <2>1
  <2> QED
    BY <2>2 DEF Interrupt
<1>2. /\ worker' \in [Workers -> Worker] /\ worker'[w].step = "asleep"
      /\ worker'[w].batch = {}
      /\ \A q \in Workers \ {w} : worker'[q] = worker[q]
  BY <1>1, Types DEF Asleep, Worker, Steps, Overdue
<1>3. PICK identity \in {Gone, w} :
        row' = [m \in Messages |->
          IF Mine(w, m) THEN [row[m] EXCEPT !.lockedBy = identity] ELSE row[m]]
  BY DEF Interrupt
<1>4. ASSUME NEW m \in Messages
      PROVE  /\ row'[m] \in Row /\ row'[m].attempts = row[m].attempts
             /\ row'[m].status = row[m].status
             /\ ~Mine(w, m) => row'[m] = row[m]
             /\ Mine(w, m) => row'[m].lockedBy \in {Gone, w}
  <2>1. row[m] \in Row
    BY Types
  <2>2. CASE Mine(w, m)
    <3>1. row'[m] = [status |-> row[m].status, attempts |-> row[m].attempts,
                     wait |-> row[m].wait, lockedBy |-> identity, lock |-> row[m].lock]
      BY <1>3, <2>1, <2>2 DEF Row
    <3> QED
      BY <2>1, <2>2, <3>1 DEF Row
  <2> QED
    BY <1>3, <2>1, <2>2
<1>5. row' \in [Messages -> Row]
  BY <1>3, <1>4
<1>6. doubtful' \subseteq Messages /\ doubtful \subseteq doubtful'
  BY <1>1 DEF IInv, TypeOK, WorkerOK
<1>7. TypeOK' /\ AttemptsSpent'
  BY <1>1, <1>2, <1>4, <1>5, <1>6 DEF IInv, TypeOK, AttemptsSpent
<1>8. ASSUME NEW q \in Workers PROVE WorkerOK(q)' /\ SenderOK(q)'
  <2>1. CASE q = w
    BY <1>2, <2>1 DEF WorkerOK, SenderOK
  <2>2. CASE q # w
    <3>1. worker'[q] = worker[q]
      BY <1>2, <2>2
    <3>2. \A n \in Messages : row'[n].lockedBy = q => row'[n] = row[n]
      BY <1>4, <2>2
    <3>3. WorkerOK(q)'
      BY <1>4, <3>1, <3>2, OtherWorker, Types
    <3>4. \A n \in Messages : Mine(q, n) => row'[n] = row[n]
      BY <1>1, <1>4, <2>2
    <3> QED
      BY <1>6, <3>1, <3>3, <3>4, OtherSender
  <2> QED
    BY <2>1, <2>2
<1>9. Explained'
  <2> SUFFICES ASSUME NEW m \in Messages, m \in accepted, m \notin doubtful'
               PROVE  row'[m].status \in Final \/ Confirming(m)'
    BY <1>1 DEF Explained
  <2>1. \A q \in Workers : worker[q].step = "taken" /\ worker[q].message = m /\ Mine(q, m)
                             => worker'[q] = worker[q] /\ row'[m] = row[m]
    BY <1>1, <1>2, <1>4
  <2> QED
    BY <1>4, <1>6, <2>1, StillExplained
<1> QED
  BY <1>7, <1>8, <1>9 DEF IInv

\* A tick takes from the lock what it adds to the send, until the lock has expired.
LEMMA TickKeeps == ASSUME IInv, Tick PROVE IInv'
<1> USE OutboxAssumption
<1>1. /\ UNCHANGED <<entitled, accepted>> /\ hitches' \in 0..MaxHitches
  <2>1. /\ hitches \in 0..MaxHitches
        /\ \/ hitches' = hitches
           \/ hitches < MaxHitches /\ hitches' = hitches + 1
    BY DEF Tick, IInv, TypeOK
  <2>2. hitches' \in 0..MaxHitches
    BY <2>1
  <2> QED
    BY <2>2 DEF Tick
<1>2. ASSUME NEW m \in Messages
      PROVE  /\ row'[m] \in Row /\ row'[m].attempts = row[m].attempts
             /\ row'[m].status = row[m].status /\ row'[m].lockedBy = row[m].lockedBy
             /\ row[m].lock >= 0 => row'[m].lock = row[m].lock - 1
  <2>1. PICK wait \in Nat, lock \in Expired..LockTicks :
          /\ row'[m] = [row[m] EXCEPT !.wait = wait, !.lock = lock]
          /\ row[m].lock >= 0 => lock = row[m].lock - 1
    <3>1. row'[m] = [row[m] EXCEPT !.wait = IF row[m].wait > 0 THEN row[m].wait - 1 ELSE 0,
                                   !.lock = IF row[m].lock > Expired THEN row[m].lock - 1
                                            ELSE Expired]
      BY DEF Tick
    <3>2. (IF row[m].wait > 0 THEN row[m].wait - 1 ELSE 0) \in Nat
      BY Types
    <3>3. /\ (IF row[m].lock > Expired THEN row[m].lock - 1 ELSE Expired) \in Expired..LockTicks
          /\ row[m].lock >= 0 => row[m].lock > Expired
      BY Types DEF Expired
    <3> QED
      BY <3>1, <3>2, <3>3
  <2>2. row[m] \in Row
    BY Types
  <2>3. row'[m] = [status |-> row[m].status, attempts |-> row[m].attempts, wait |-> wait,
                   lockedBy |-> row[m].lockedBy, lock |-> lock]
    BY <2>1, <2>2 DEF Row
  <2> QED
    BY <2>1, <2>2, <2>3 DEF Row
<1>3. ASSUME NEW w \in Workers
      PROVE  /\ worker'[w] \in Worker
             /\ worker'[w].step = IF worker[w].step = "asleep" THEN "idle" ELSE worker[w].step
             /\ worker'[w].batch = worker[w].batch /\ worker'[w].message = worker[w].message
             /\ Engaged(w) /\ worker[w].elapsed < Overdue
                  => worker'[w].elapsed = worker[w].elapsed + 1
             /\ ~(worker[w].elapsed < Overdue) => worker'[w].elapsed = worker[w].elapsed
  <2>1. PICK step \in Steps, elapsed \in 0..Overdue :
          /\ worker'[w] = [worker[w] EXCEPT !.step = step, !.elapsed = elapsed]
          /\ step = IF worker[w].step = "asleep" THEN "idle" ELSE worker[w].step
          /\ elapsed = IF Engaged(w) /\ worker[w].elapsed < Overdue THEN worker[w].elapsed + 1
                       ELSE worker[w].elapsed
    <3>1. worker'[w] = [worker[w] EXCEPT
                         !.step = IF worker[w].step = "asleep" THEN "idle" ELSE worker[w].step,
                         !.elapsed = IF Engaged(w) /\ worker[w].elapsed < Overdue
                                     THEN worker[w].elapsed + 1 ELSE worker[w].elapsed]
      BY DEF Tick
    <3>2. worker[w] \in Worker
      BY Types
    <3>3. (IF worker[w].step = "asleep" THEN "idle" ELSE worker[w].step) \in Steps
      BY <3>2 DEF Worker, Steps
    <3>4. (IF Engaged(w) /\ worker[w].elapsed < Overdue THEN worker[w].elapsed + 1
           ELSE worker[w].elapsed) \in 0..Overdue
      <4>1. worker[w].elapsed \in 0..Overdue /\ Overdue \in Nat
        BY Types DEF Overdue
      <4>2. worker[w].elapsed < Overdue => worker[w].elapsed + 1 \in 0..Overdue
        BY <4>1
      <4> QED
        BY <4>1, <4>2
    <3> QED
      BY <3>1, <3>3, <3>4
  <2>2. worker[w] \in Worker
    BY Types
  <2>3. worker'[w] = [step |-> step, batch |-> worker[w].batch, message |-> worker[w].message,
                      elapsed |-> elapsed]
    BY <2>1, <2>2 DEF Worker
  <2> QED
    BY <2>1, <2>2, <2>3 DEF Worker
<1>4. /\ row' \in [Messages -> Row] /\ worker' \in [Workers -> Worker]
      /\ doubtful \subseteq doubtful' /\ doubtful' \subseteq Messages
      /\ \A w \in Workers : Engaged(w) /\ worker[w].elapsed >= LockTicks
                              => worker[w].message \in doubtful'
  <2>1. row' \in [Messages -> Row] /\ worker' \in [Workers -> Worker]
    BY <1>2, <1>3 DEF Tick
  <2>2. \A w \in Workers : Engaged(w) => worker[w].message \in Messages
    BY DEF IInv, WorkerOK, Engaged
  <2>3. doubtful' = doubtful \cup {worker[w].message : w \in {q \in Workers :
                                     Engaged(q) /\ worker[q].elapsed >= LockTicks}}
    BY DEF Tick
  <2>4. doubtful \subseteq Messages
    BY Types
  <2> QED
    BY <2>1, <2>2, <2>3, <2>4
<1>5. TypeOK' /\ AttemptsSpent'
  BY <1>1, <1>2, <1>4 DEF IInv, TypeOK, AttemptsSpent
<1>6. ASSUME NEW w \in Workers PROVE WorkerOK(w)' /\ SenderOK(w)'
  <2>1. WorkerOK(w) /\ SenderOK(w)
    BY DEF IInv
  <2>2. WorkerOK(w)'
    BY <1>2, <1>3, <2>1, Types DEF WorkerOK
  <2>3. SenderOK(w)'
    <3>1. CASE Engaged(w)
      <4>1. PICK m \in Messages : m = worker[w].message
        BY <2>1, <3>1 DEF WorkerOK, Engaged
      <4>2. worker[w].elapsed \in 0..Overdue /\ Overdue = LockTicks + 1 /\ LockTicks \in Nat
        BY Types DEF Overdue
      <4>3. /\ worker'[w].step \in {"sending", "taken"} /\ worker'[w].message = m
        BY <1>3, <3>1, <4>1 DEF Engaged
      <4>4. CASE worker[w].elapsed >= LockTicks
        <5>1. worker'[w].elapsed = Overdue
          <6>1. CASE worker[w].elapsed < Overdue
            <7>1. worker[w].elapsed + 1 = Overdue
              BY <4>2, <4>4, <6>1
            <7> QED
              BY <1>3, <3>1, <6>1, <7>1
          <6>2. CASE ~(worker[w].elapsed < Overdue)
            BY <1>3, <4>2, <6>2
          <6> QED
            BY <6>1, <6>2
        <5> QED
          BY <1>4, <3>1, <4>1, <4>3, <4>4, <5>1 DEF SenderOK
      <4>5. CASE ~(worker[w].elapsed >= LockTicks)
        <5>1. worker[w].elapsed # Overdue /\ worker[w].elapsed < Overdue
          BY <4>2, <4>5
        <5>2. /\ Mine(w, m) /\ row[m].lock \in 0..LockTicks
              /\ row[m].lock + worker[w].elapsed >= LockTicks
          BY <3>1, <4>1, <5>1, LockHeld DEF Engaged
        <5>3. row'[m].lock = row[m].lock - 1 /\ worker'[w].elapsed = worker[w].elapsed + 1
          BY <1>2, <1>3, <3>1, <5>1, <5>2
        <5>4. row'[m].lock + worker'[w].elapsed >= LockTicks /\ worker'[w].elapsed \in 0..LockTicks
          BY <4>2, <4>5, <5>2, <5>3
        <5>5. Mine(w, m)'
          BY <1>2, <5>2
        <5> QED
          BY <4>3, <5>4, <5>5 DEF SenderOK
      <4> QED
        BY <4>4, <4>5
    <3>2. CASE ~Engaged(w)
      BY <1>3, <3>2 DEF SenderOK, Engaged
    <3> QED
      BY <3>1, <3>2
  <2> QED
    BY <2>2, <2>3
<1>7. Explained'
  BY <1>1, <1>2, <1>3, <1>4 DEF IInv, Explained, Confirming
<1> QED
  BY <1>5, <1>6, <1>7 DEF IInv

\* Every step keeps the invariant.
LEMMA NextIInv == ASSUME IInv, [Next]_vars PROVE IInv'
<1>1. ASSUME NEW w \in Workers, Work(w) PROVE IInv'
  BY <1>1, RecoverKeeps, ClaimKeeps, ReadKeeps, AuthorizeKeeps, StartKeeps, SendKeeps,
     ConcludeKeeps DEF Work
<1>2. ASSUME NEW m \in Messages, Revoke(m) PROVE IInv'
  <2>1. UNCHANGED <<row, worker, accepted, doubtful, hitches>> /\ entitled' \subseteq entitled
    BY <1>2 DEF Revoke
  <2>2. TypeOK' /\ AttemptsSpent' /\ Explained'
    BY <2>1 DEF IInv, TypeOK, AttemptsSpent, Explained, Confirming
  <2>3. \A w \in Workers : WorkerOK(w)' /\ SenderOK(w)'
    BY <2>1 DEF IInv, WorkerOK, SenderOK
  <2> QED
    BY <2>2, <2>3 DEF IInv
<1>3. CASE UNCHANGED vars
  <2>1. TypeOK' /\ AttemptsSpent' /\ Explained'
    BY <1>3 DEF vars, IInv, TypeOK, AttemptsSpent, Explained, Confirming
  <2>2. \A w \in Workers : WorkerOK(w)' /\ SenderOK(w)'
    BY <1>3 DEF vars, IInv, WorkerOK, SenderOK
  <2> QED
    BY <2>1, <2>2 DEF IInv
<1> QED
  BY <1>1, <1>2, <1>3, InterruptKeeps, TickKeeps DEF Next

\* The invariant holds in every reachable state.
LEMMA Invariance == Spec => []IInv
BY InitIInv, NextIInv, PTL DEF Spec

----------------------------------------------------------------------------
(* The theorems *)

\* The types hold: no row is ever attempted more often than it may be, whatever
\* stops between the attempts.
THEOREM TypesHold == Spec => []TypeOK
<1>1. IInv => TypeOK
  BY DEF IInv
<1> QED
  BY <1>1, Invariance, PTL

\* Two workers send one message at once only when one of these sends has
\* outlived its lock, however slow the workers are between the other steps.
THEOREM SendersExclusive == Spec => []OneSender
BY SenderAlone, Invariance, PTL

\* Only spent attempts make a row given up, and a queued row has one left.
THEOREM AttemptsRespected == Spec => []AttemptsSpent
<1>1. IInv => AttemptsSpent
  BY DEF IInv
<1> QED
  BY <1>1, Invariance, PTL

\* A message that was taken is attempted again only if its confirmation was lost
\* or came later than the end of the lock.
THEOREM DuplicatesAccounted == Spec => DuplicatesExplained
<1>1. ASSUME IInv, [Next]_vars, NEW m \in Messages, row'[m].attempts > row[m].attempts,
             m \in accepted
      PROVE  m \in doubtful
  <2>1. row'[m] # row[m] /\ ~(row'[m].attempts = row[m].attempts)
    BY <1>1, Types
  <2>2. PICK w \in Workers : Start(w) /\ worker[w].message = m /\ Mine(w, m)
    <3>1. ASSUME NEW w \in Workers, Recover(w) PROVE FALSE
      <4>1. row'[m] = Recovered(m)
        BY <2>1, <3>1 DEF Recover
      <4>2. row[m] \in Row
        BY Types, <1>1
      <4> QED
        BY <2>1, <4>1, <4>2 DEF Recovered, Row
    <3>2. ASSUME NEW w \in Workers, Claim(w) PROVE FALSE
      BY <1>1, <2>1, <3>2, Types, ZenonT(60) DEF Claim, Row
    <3>3. ASSUME NEW w \in Workers, Authorize(w) \/ Conclude(w) PROVE FALSE
      <4>1. \A n, status, wait : Finish(w, n, status, wait) => row'[m].attempts = row[m].attempts
        BY <1>1, Types DEF Finish, Settled, Row
      <4> QED
        BY <2>1, <3>3, <4>1 DEF Authorize, Conclude
    <3>4. ASSUME NEW w \in Workers, Read(w) \/ Send(w) PROVE FALSE
      BY <2>1, <3>4 DEF Read, Send
    <3>5. ASSUME NEW w \in Workers, Interrupt(w) PROVE FALSE
      BY <1>1, <2>1, <3>5, Types DEF Interrupt, Row
    <3>6. CASE Tick
      BY <1>1, <2>1, <3>6, Types DEF Tick, Row
    <3>7. ASSUME NEW n \in Messages, Revoke(n) PROVE FALSE
      BY <2>1, <3>7 DEF Revoke
    <3>8. ASSUME NEW w \in Workers, Start(w)
          PROVE  worker[w].message = m /\ Mine(w, m)
      BY <1>1, <2>1, <3>8, Types DEF Start
    <3> QED
      BY <1>1, <2>1, <3>1, <3>2, <3>3, <3>4, <3>5, <3>6, <3>7, <3>8 DEF Next, Work, vars
  <2>3. row[m].status \notin Final /\ ~Confirming(m)
    BY <2>2 DEF Start, Confirming, Final
  <2> QED
    BY <1>1, <2>3 DEF IInv, Explained
<1>2. IInv /\ [Next]_vars =>
        [\A m \in Messages : row'[m].attempts > row[m].attempts /\ m \in accepted
           => m \in doubtful]_vars
  BY <1>1
<1> QED
  BY <1>2, Invariance, PTL DEF Spec, DuplicatesExplained

\* A settled row stays what it is, whoever answers late.
THEOREM SettledForGood == Spec => FinalStays
<1>1. ASSUME IInv, [Next]_vars, NEW m \in Messages, row[m].status \in Final
      PROVE  row'[m].status = row[m].status
  <2>1. row[m] \in Row /\ row[m].status # "EN_COURS" /\ row[m].status \notin Waiting
    BY <1>1, Types DEF Final, Waiting
  <2>2. ASSUME NEW w \in Workers, Recover(w) \/ Claim(w) PROVE row'[m].status = row[m].status
    BY <1>1, <2>1, <2>2 DEF Recover, LockExpired, Claim, Due
  <2>3. ASSUME NEW w \in Workers, Authorize(w) \/ Conclude(w) PROVE row'[m].status = row[m].status
    <3>1. \A n, status, wait : Finish(w, n, status, wait) => row'[m].status = row[m].status
      BY <1>1, <2>1, Types DEF Finish, Settled
    <3> QED
      BY <2>3, <3>1 DEF Authorize, Conclude
  <2>4. ASSUME NEW w \in Workers, Read(w) \/ Send(w) PROVE row'[m].status = row[m].status
    BY <2>4 DEF Read, Send
  <2>5. ASSUME NEW w \in Workers, Start(w) PROVE row'[m].status = row[m].status
    BY <1>1, <2>1, <2>5, Types DEF Start, Row
  <2>6. ASSUME NEW w \in Workers, Interrupt(w) PROVE row'[m].status = row[m].status
    BY <1>1, <2>1, <2>6 DEF Interrupt
  <2>7. CASE Tick
    BY <1>1, <2>1, <2>7, Types DEF Tick, Row
  <2> QED
    BY <1>1, <2>2, <2>3, <2>4, <2>5, <2>6, <2>7 DEF Next, Work, Revoke, vars
<1>2. IInv /\ [Next]_vars =>
        [\A m \in Messages : row[m].status \in Final => row'[m].status = row[m].status]_vars
  BY <1>1
<1> QED
  BY <1>2, Invariance, PTL DEF Spec, FinalStays

=============================================================================
