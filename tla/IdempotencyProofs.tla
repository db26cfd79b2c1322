------------------------- MODULE IdempotencyProofs -------------------------
(***************************************************************************)
(* Idempotency is correct for any number of requests, of contents and of   *)
(* failures.  The record is what ties the parts together: the execution    *)
(* under way owns it, and so does the one execution that is remembered.    *)
(***************************************************************************)
EXTENDS Idempotency, TLAPS

USE DEF Records, NoRecord, Live

\* Requests that have not got as far as the insertion of a record.
Early == {"unsent", "inserting", "reading"}

\* The record of a request keeps its content, and its response when TERMINE.
RecordFaithful ==
  record # NoRecord =>
    /\ step[record.owner] \notin Early
    /\ record.requestHash = body[record.owner]
    /\ record.status = "TERMINE" => record.owner \in done

\* What is done and not forgotten is remembered by the record.
Remembered == \A r \in done \ forgotten : record.owner = r

\* What a request has done, by the step it has reached.
InOrder == \A r \in Requests :
  /\ step[r] # "unsent" => body[r] \in Bodies
  /\ r \in done => step[r] \notin Early
  /\ step[r] = "recording" => r \in done

IInv ==
  /\ TypeOK
  /\ WorksUnderItsRecord
  /\ AnswersFaithful
  /\ RecordFaithful
  /\ Remembered
  /\ InOrder

\* The initial state satisfies the invariant.
LEMMA InitIInv == Init => IInv
  BY IdempotencyAssumption
  DEF Init, IInv, TypeOK, WorksUnderItsRecord, AnswersFaithful, RecordFaithful, Remembered, InOrder

\* A deleted record changes nothing to the executions: the invariant survives
\* an action that forgets it, if nobody works under it any more.
LEMMA ForgetKeeps ==
  ASSUME IInv, Forget, UNCHANGED <<body, done>>, NEW r \in Requests,
         record.owner = r, step' = step \/ step' = [step EXCEPT ![r] = "refused"],
         step'[r] \notin {"working", "recording", "releasing"},
         answer' = answer, failures' \in 0..MaxFailures
  PROVE  IInv'
<1> USE IdempotencyAssumption
<1>1. TypeOK'
  BY DEF Forget, IInv, TypeOK
<1>2. WorksUnderItsRecord'
  BY DEF Forget, IInv, TypeOK, WorksUnderItsRecord
<1>3. AnswersFaithful'
  BY DEF IInv, TypeOK, AnswersFaithful
<1>4. RecordFaithful'
  BY DEF Forget, RecordFaithful
<1>5. Remembered'
  BY DEF Forget, IInv, TypeOK, Remembered
<1>6. InOrder'
  BY DEF IInv, TypeOK, InOrder, WorksUnderItsRecord, RecordFaithful, Early
<1> QED
  BY <1>1, <1>2, <1>3, <1>4, <1>5, <1>6 DEF IInv

\* Send keeps the invariant.
LEMMA SendKeeps == ASSUME IInv, NEW r \in Requests, Send(r) PROVE IInv'
<1> USE IdempotencyAssumption DEF Send, Goto, IInv, TypeOK, Early
<1>0. PICK b \in Bodies : body' = [body EXCEPT ![r] = b]
  OBVIOUS
<1>1. TypeOK'
  BY <1>0
<1>2. WorksUnderItsRecord'
  BY DEF WorksUnderItsRecord
<1>3. AnswersFaithful'
  BY <1>0 DEF AnswersFaithful, InOrder
<1>4. RecordFaithful'
  BY <1>0 DEF RecordFaithful
<1>5. Remembered'
  BY DEF Remembered
<1>6. InOrder'
  BY <1>0 DEF InOrder
<1> QED
  BY <1>1, <1>2, <1>3, <1>4, <1>5, <1>6

\* Insert keeps the invariant.
LEMMA InsertKeeps == ASSUME IInv, NEW r \in Requests, Insert(r) PROVE IInv'
<1> USE IdempotencyAssumption DEF Insert, Goto, IInv, TypeOK, Early
<1>1. TypeOK'
  BY DEF InOrder
<1>2. WorksUnderItsRecord'
  BY DEF WorksUnderItsRecord
<1>3. AnswersFaithful'
  BY DEF AnswersFaithful
<1>4. RecordFaithful'
  BY DEF RecordFaithful
<1>5. Remembered'
  BY DEF Remembered
<1>6. InOrder'
  BY DEF InOrder
<1> QED
  BY <1>1, <1>2, <1>3, <1>4, <1>5, <1>6

\* ReadExisting keeps the invariant.
LEMMA ReadExistingKeeps == ASSUME IInv, NEW r \in Requests, ReadExisting(r) PROVE IInv'
<1> USE IdempotencyAssumption DEF ReadExisting, Answer, Goto, IInv, TypeOK, Early
<1>1. TypeOK'
  BY DEF Replayable
<1>2. WorksUnderItsRecord'
  BY DEF WorksUnderItsRecord
<1>3. AnswersFaithful'
  BY DEF AnswersFaithful, Replayable, RecordFaithful
<1>4. RecordFaithful'
  BY DEF RecordFaithful
<1>5. Remembered'
  BY DEF Remembered
<1>6. InOrder'
  BY DEF InOrder
<1> QED
  BY <1>1, <1>2, <1>3, <1>4, <1>5, <1>6

\* Work keeps the invariant.
LEMMA WorkKeeps == ASSUME IInv, NEW r \in Requests, Work(r) PROVE IInv'
<1> USE IdempotencyAssumption DEF Work, Goto, Failing, IInv, TypeOK, Early
<1>0. done \subseteq done' /\ done' \subseteq done \cup {r}
  OBVIOUS
<1>1. TypeOK'
  BY <1>0
<1>2. WorksUnderItsRecord'
  BY DEF WorksUnderItsRecord
<1>3. AnswersFaithful'
  BY <1>0 DEF AnswersFaithful
<1>4. RecordFaithful'
  BY <1>0 DEF RecordFaithful
<1>5. Remembered'
  BY <1>0 DEF Remembered, WorksUnderItsRecord
<1>6. InOrder'
  BY <1>0 DEF InOrder
<1> QED
  BY <1>1, <1>2, <1>3, <1>4, <1>5, <1>6

\* Record keeps the invariant.
LEMMA RecordKeeps == ASSUME IInv, NEW r \in Requests, Record(r) PROVE IInv'
<1> USE IdempotencyAssumption DEF Record, Answer, Goto, Failing, IInv, TypeOK, Early
<1>0. record.owner = r /\ record # NoRecord /\ r \in done
  BY DEF WorksUnderItsRecord, InOrder
<1>1. TypeOK'
  BY <1>0
<1>2. WorksUnderItsRecord'
  BY <1>0 DEF WorksUnderItsRecord
<1>3. AnswersFaithful'
  BY <1>0 DEF AnswersFaithful
<1>4. RecordFaithful'
  BY <1>0 DEF RecordFaithful
<1>5. Remembered'
  BY <1>0 DEF Remembered
<1>6. InOrder'
  BY <1>0 DEF InOrder
<1> QED
  BY <1>1, <1>2, <1>3, <1>4, <1>5, <1>6

\* A request that ends in an error leaves its record as it is.
LEMMA RefusedKeeps ==
  ASSUME IInv, NEW r \in Requests, step[r] \in Live, Goto(r, "refused"), failures' \in 0..MaxFailures,
         UNCHANGED <<record, body, answer, done, forgotten>>
  PROVE  IInv'
<1> USE IdempotencyAssumption DEF Goto, IInv, TypeOK, Early
<1>1. TypeOK'
  OBVIOUS
<1>2. WorksUnderItsRecord'
  BY DEF WorksUnderItsRecord
<1>3. AnswersFaithful'
  BY DEF AnswersFaithful
<1>4. RecordFaithful'
  BY DEF RecordFaithful
<1>5. Remembered'
  BY DEF Remembered
<1>6. InOrder'
  BY DEF InOrder
<1> QED
  BY <1>1, <1>2, <1>3, <1>4, <1>5, <1>6

\* The count of failures stays within its bound.
LEMMA FailingBounded == ASSUME TypeOK, Failing PROVE failures' \in 0..MaxFailures
  BY IdempotencyAssumption DEF TypeOK, Failing

\* Release keeps the invariant.
LEMMA ReleaseKeeps == ASSUME IInv, NEW r \in Requests, Release(r) PROVE IInv'
<1>0. record.owner = r /\ step[r] = "releasing" /\ Goto(r, "refused")
  BY DEF Release, IInv, WorksUnderItsRecord
<1>1. CASE Forget /\ failures' = failures
  <2>1. step' = [step EXCEPT ![r] = "refused"] /\ step'[r] = "refused"
    BY <1>0 DEF Goto, IInv, TypeOK
  <2> QED
    BY <1>0, <1>1, <2>1, ForgetKeeps DEF Release, IInv, TypeOK
<1>2. CASE Failing /\ UNCHANGED <<record, forgotten>>
  BY <1>0, <1>2, RefusedKeeps, FailingBounded DEF Release, IInv
<1> QED
  BY <1>0, <1>1, <1>2 DEF Release

\* Purge keeps the invariant.
LEMMA PurgeKeeps == ASSUME IInv, Purge PROVE IInv'
<1>1. record.owner \in Requests /\ step[record.owner] \notin Live
  BY DEF Purge, Expired, IInv, TypeOK
<1> QED
  BY <1>1, ForgetKeeps DEF Purge, IInv, TypeOK

\* Every step keeps the invariant.
LEMMA StepIInv == IInv /\ [Next]_vars => IInv'
<1> SUFFICES ASSUME IInv, [Next]_vars PROVE IInv'
  OBVIOUS
<1>1. CASE UNCHANGED vars
  BY <1>1 DEF vars, IInv, TypeOK, WorksUnderItsRecord, AnswersFaithful, RecordFaithful, Remembered, InOrder
<1>2. CASE Purge
  BY <1>2, PurgeKeeps
<1>3. ASSUME NEW r \in Requests, Send(r) \/ Serve(r) \/ Crash(r) PROVE IInv'
  <2>1. CASE Crash(r)
    BY <2>1, RefusedKeeps, FailingBounded DEF Crash, IInv
  <2> QED
    BY <1>3, <2>1, SendKeeps, InsertKeeps, ReadExistingKeeps, WorkKeeps, RecordKeeps, ReleaseKeeps DEF Serve
<1> QED
  BY <1>1, <1>2, <1>3 DEF Next

\* The invariant holds in every reachable state.
THEOREM Invariant == Spec => []IInv
  BY InitIInv, StepIInv, PTL DEF Spec

\* The types hold: the record is one the table can contain, and only what was
\* executed is ever forgotten.
THEOREM TypesHold == Spec => []TypeOK
<1>1. IInv => TypeOK
  BY DEF IInv
<1> QED
  BY <1>1, Invariant, PTL

\* The work of a key is done under its record, by the request that inserted it,
\* and never once a response is kept (IdempotencyService.run).
THEOREM WorkProtected == Spec => []WorksUnderItsRecord
<1>1. IInv => WorksUnderItsRecord
  BY DEF IInv
<1> QED
  BY <1>1, Invariant, PTL

\* A response, fresh or replayed, is that of a committed execution of the same
\* content, whatever fails.
THEOREM AnswersSafe == Spec => []AnswersFaithful
<1>1. IInv => AnswersFaithful
  BY DEF IInv
<1> QED
  BY <1>1, Invariant, PTL

\* Two executions are committed under one key only if a record was lost: both
\* would be the owner of the one record.
THEOREM DuplicatesExplained == Spec => []NoSilentDuplicate
<1>1. IInv => NoSilentDuplicate
  BY DEF IInv, Remembered, NoSilentDuplicate
<1> QED
  BY <1>1, Invariant, PTL

============================================================================
