---------------------------- MODULE Idempotency ----------------------------
(***************************************************************************)
(* IdempotencyService.run for one key: the record that protects it, the    *)
(* requests that present it, at the same time or one after the other, with *)
(* the same body or with others, and the daily purge.                      *)
(*                                                                         *)
(* The record lives outside the transaction of the work (each action is    *)
(* one statement), and any of these statements may fail; the process may   *)
(* stop between two of them.  A record lives 24 hours, more than any       *)
(* request: it expires only once the request that made it is over.         *)
(***************************************************************************)
EXTENDS Naturals

CONSTANTS
  Requests,     \* the requests that present the key, each with its own name
  Bodies,       \* the contents they may have, up to their hash
  NoRequest, NoBody,
  MaxFailures   \* bound of the model: failures of the database and stops

ASSUME IdempotencyAssumption ==
  NoRequest \notin Requests /\ NoBody \notin Bodies /\ MaxFailures \in Nat

VARIABLES
  record,     \* the IdempotencyRecord of the key, NoRecord when there is none
  step,       \* of each request, where it is in run()
  body,       \* what it contains
  answer,     \* the execution whose response it was given
  done,       \* the requests whose work has been committed (history)
  forgotten,  \* those whose record was then deleted (history)
  failures

vars == <<record, step, body, answer, done, forgotten, failures>>

\* A record names the request that inserted it, which is also the execution
\* whose response it holds once it is TERMINE.
Records == [owner : Requests, requestHash : Bodies, status : {"EN_COURS", "TERMINE"}]
NoRecord == [owner |-> NoRequest, requestHash |-> NoBody, status |-> "EN_COURS"]

Live == {"inserting", "reading", "working", "recording", "releasing"}

TypeOK ==
  /\ record \in Records \cup {NoRecord}
  /\ step \in [Requests -> Live \cup {"unsent", "refused", "answered"}]
  /\ body \in [Requests -> Bodies \cup {NoBody}]
  /\ answer \in [Requests -> Requests \cup {NoRequest}]
  /\ done \subseteq Requests /\ forgotten \subseteq done
  /\ failures \in 0..MaxFailures

Init ==
  /\ record = NoRecord
  /\ step = [r \in Requests |-> "unsent"]
  /\ body = [r \in Requests |-> NoBody]
  /\ answer = [r \in Requests |-> NoRequest]
  /\ done = {} /\ forgotten = {}
  /\ failures = 0

Goto(r, s) == step' = [step EXCEPT ![r] = s]
Answer(r, q) == answer' = [answer EXCEPT ![r] = q] /\ Goto(r, "answered")

\* The record disappears, and what it remembered with it.
Forget ==
  /\ record' = NoRecord
  /\ forgotten' = forgotten \cup ({record.owner} \cap done)

Failing == failures < MaxFailures /\ failures' = failures + 1

----------------------------------------------------------------------------

Send(r) ==
  /\ step[r] = "unsent"
  /\ \E b \in Bodies : body' = [body EXCEPT ![r] = b]
  /\ Goto(r, "inserting")
  /\ UNCHANGED <<record, answer, done, forgotten, failures>>

\* Mutants of Insert: the body is not kept; the record of another execution is
\* replaced.
InsertWithoutHash(r) ==
  /\ step[r] = "inserting"
  /\ IF record = NoRecord
     THEN /\ record' = [owner |-> r, requestHash |-> NoBody, status |-> "EN_COURS"]
          /\ Goto(r, "working")
     ELSE record' = record /\ Goto(r, "reading")
  /\ UNCHANGED <<body, answer, done, forgotten, failures>>

InsertAnyway(r) ==
  /\ step[r] = "inserting"
  /\ record' = [owner |-> r, requestHash |-> body[r], status |-> "EN_COURS"]
  /\ Goto(r, "working")
  /\ UNCHANGED <<body, answer, done, forgotten, failures>>

\* The insertion that the unique index lets one request do.
Insert(r) ==
  /\ step[r] = "inserting"
  /\ IF record = NoRecord
     THEN /\ record' = [owner |-> r, requestHash |-> body[r], status |-> "EN_COURS"]
          /\ Goto(r, "working")
     ELSE record' = record /\ Goto(r, "reading")
  /\ UNCHANGED <<body, answer, done, forgotten, failures>>

\* Mutant of Replayable: the body is not compared.
ReplayableWhatever(r) == record # NoRecord /\ record.status = "TERMINE"

\* What a request that finds a record may be answered with: the record of the
\* same content, once it has the response.
Replayable(r) == record # NoRecord /\ record.status = "TERMINE" /\ record.requestHash = body[r]

\* P2002: the record is read, if it is still there, and replayed or refused.
ReadExisting(r) ==
  /\ step[r] = "reading"
  /\ IF Replayable(r) THEN Answer(r, record.owner) ELSE Goto(r, "refused") /\ answer' = answer
  /\ UNCHANGED <<record, body, done, forgotten, failures>>

\* The work: committed, refused or rolled back, or committed with an error.
Work(r) ==
  /\ step[r] = "working"
  /\ \/ done' = done \cup {r} /\ Goto(r, "recording") /\ failures' = failures
     \/ done' = done /\ Goto(r, "releasing") /\ failures' = failures
     \/ done' = done \cup {r} /\ Goto(r, "releasing") /\ Failing
  /\ UNCHANGED <<record, body, answer, forgotten>>

\* The response is kept with the record, which is updated by its identifier.
Record(r) ==
  /\ step[r] = "recording"
  /\ \/ /\ IF record.owner = r
           THEN record' = [record EXCEPT !.status = "TERMINE"] /\ Answer(r, r)
           ELSE Goto(r, "releasing") /\ UNCHANGED <<record, answer>>
        /\ failures' = failures
     \/ Goto(r, "releasing") /\ Failing /\ UNCHANGED <<record, answer>>
  /\ UNCHANGED <<body, done, forgotten>>

\* The record of a failed execution is deleted, and the error goes on; a
\* failure of the deletion is ignored.
Release(r) ==
  /\ step[r] = "releasing"
  /\ \/ /\ IF record.owner = r THEN Forget ELSE UNCHANGED <<record, forgotten>>
        /\ failures' = failures
     \/ Failing /\ UNCHANGED <<record, forgotten>>
  /\ Goto(r, "refused")
  /\ UNCHANGED <<body, answer, done>>

\* The process stops in the middle of the request, or one of its statements
\* outside the work and its recording fails.
Crash(r) ==
  /\ step[r] \in Live
  /\ Failing
  /\ Goto(r, "refused")
  /\ UNCHANGED <<record, body, answer, done, forgotten>>

Expired == record # NoRecord /\ step[record.owner] \notin Live

\* Mutant of Purge: only what has a response is purged.
PurgeAnswered ==
  /\ Expired /\ record.status = "TERMINE"
  /\ Forget
  /\ UNCHANGED <<step, body, answer, done, failures>>

\* The daily purge of the expired records (purgeExpired).
Purge ==
  /\ Expired
  /\ Forget
  /\ UNCHANGED <<step, body, answer, done, failures>>

Serve(r) == Insert(r) \/ ReadExisting(r) \/ Work(r) \/ Record(r) \/ Release(r)

Next == Purge \/ \E r \in Requests : Send(r) \/ Serve(r) \/ Crash(r)

Spec == Init /\ [][Next]_vars /\ WF_vars(Purge) /\ \A r \in Requests : WF_vars(Serve(r))

----------------------------------------------------------------------------
(* Properties *)

\* The work of a key is done under its record: by the one request that
\* inserted it, never again once a response is kept.
WorksUnderItsRecord ==
  \A r \in Requests :
    step[r] \in {"working", "recording", "releasing"} =>
      record.owner = r /\ record.status = "EN_COURS"

\* A response, fresh or replayed, is that of an execution that was committed,
\* of a request with the same content ("Meme cle + meme corps : reponse initiale
\* rejouee ; meme cle + corps different : 409").
AnswersFaithful ==
  \A r \in Requests :
    step[r] = "answered" => answer[r] \in done /\ body[answer[r]] = body[r]

\* The work is committed twice under one key only when its record was lost in
\* between: it failed after its commit, or a day has passed.
NoSilentDuplicate == \A r, q \in done : r = q \/ r \in forgotten \/ q \in forgotten

\* A key never stays blocked by an execution that will not end: a record EN_COURS
\* gets its response, is released, or is purged.
KeySettles == \A r \in Requests :
  (record.owner = r /\ record.status = "EN_COURS") ~> ~(record.owner = r /\ record.status = "EN_COURS")

============================================================================
