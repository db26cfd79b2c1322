-------------------------- MODULE ExportJobsProofs --------------------------
(***************************************************************************)
(* The queue of exports is correct for any number of jobs, workers,        *)
(* attempts, files and hitches.  Two ideas carry the proof: the attempts   *)
(* of a job number its executions, so that each has a key of its own; and  *)
(* a purge only ever lists files past their time, which nothing promises.  *)
(***************************************************************************)
EXTENDS ExportJobs, FiniteSetTheorems, TLAPS

On(w, j) == runner[w].job = j

Storing == {"ECRIT", "PRET", "A_EFFACER"}

\* What a worker is at: a numbered attempt at a job, no other worker's.
RunnersOK ==
  /\ \A w \in Workers :
       \/ runner[w] = Free
       \/ /\ runner[w].stage # "LIBRE" /\ runner[w].job \in Jobs
          /\ runner[w].attempt \in 1..job[runner[w].job].attempts
          /\ runner[w].stage \in Storing => runner[w].attempt <= MaxAttempts
  /\ \A v, w \in Workers :
       (v # w /\ runner[v].job = runner[w].job /\ runner[v].job # None)
         => runner[v].attempt # runner[w].attempt

\* A lock is held on jobs under way only, and by the latest attempt.
LocksOK == \A j \in Jobs :
  /\ job[j].lockedBy # None => job[j].status = "EN_COURS"
  /\ job[j].status = "EN_COURS" => job[j].lockedBy # None
  /\ \A w \in Workers :
       job[j].lockedBy = w /\ On(w, j) => runner[w].attempt = job[j].attempts

\* Nobody works under the lock of the job, or the lock is spent.
Left(j) == job[j].lapsed \/ \A w \in Workers : job[j].lockedBy = w => ~On(w, j)

\* Only a hitch takes a job past its allowed attempts.
AttemptsCounted == \A j \in Jobs :
  /\ job[j].attempts <= MaxAttempts + hitches + 1
  /\ job[j].status \in {"ABSENT", "EN_ATTENTE"} => job[j].attempts <= MaxAttempts
  /\ job[j].status = "EN_COURS" /\ Left(j) => job[j].attempts <= MaxAttempts + hitches

\* The attempts that may have started the handler.
Begun(j) ==
  {a \in 1..MaxAttempts :
     /\ a <= job[j].attempts
     /\ \A w \in Workers : runner[w].stage = "PRIS" /\ On(w, j) => runner[w].attempt # a}

BegunOnce == \A j \in Jobs : runs[j] <= Cardinality(Begun(j))

\* Uploaded files: what is not past its time has its content, and what was
\* attached by then is on no list.
UploadsKept ==
  /\ \A f \in Uploads : row[f].kind \in {"ABSENTE", "TEMPORAIRE"}
  /\ \A f \in uploading : row[f].kind = "ABSENTE" /\ f \in storage
  /\ \A f \in erasing : row[f].kind = "TEMPORAIRE" /\ row[f].deleted # "NON"
  /\ \A f \in Uploads : row[f].kind = "TEMPORAIRE" /\ Live(f) /\ f \notin aged => f \in storage
  /\ \A f \in attached :
       /\ f \in Uploads /\ row[f].kind = "TEMPORAIRE" /\ row[f].owner # None
       /\ row[f].deleted # "PURGE"
       /\ Live(f) => f \in storage
  /\ \A f \in purge["TEMPORAIRES"].listed :
       f \in Uploads /\ f \in aged /\ f \notin attached /\ row[f].kind = "TEMPORAIRE"

\* Files of exports: one that is recorded and not past its time is whole.
RecordedKept ==
  /\ \A j \in Jobs, a \in 1..MaxAttempts :
       LET f == <<j, a>>
       IN  /\ row[f].kind \in {"ABSENTE", "EXPORT"}
           /\ row[f].kind = "EXPORT" =>
                /\ row[f].owner = j /\ a <= job[j].attempts
                /\ f \notin aged => row[f].deleted = "NON" /\ f \in storage
  /\ \A f \in purge["EXPORTS"].listed : f \in ExportKeys /\ f \in aged /\ row[f].kind = "EXPORT"

\* The file of an attempt in progress, and of a job that ended.
AttemptsKept ==
  /\ \A w \in Workers :
       /\ runner[w].stage = "ECRIT" => Key(w) \in storage
       /\ runner[w].stage \in {"PRIS", "ECRIT", "A_EFFACER"} /\ runner[w].attempt <= MaxAttempts
            => row[Key(w)].kind = "ABSENTE"
       /\ runner[w].stage = "PRET" => row[Key(w)].kind = "EXPORT"
  /\ \A j \in Jobs : job[j].status = "TERMINE" =>
       \E a \in 1..MaxAttempts : job[j].result = <<j, a>> /\ row[<<j, a>>].kind = "EXPORT"

IInv ==
  /\ TypeOK /\ RunnersOK /\ LocksOK /\ AttemptsCounted /\ BegunOnce
  /\ UploadsKept /\ RecordedKept /\ AttemptsKept

USE DEF Free, Idle, Running, Key, Storing, On

----------------------------------------------------------------------------
(* The keys of exports, and the start *)

\* The key of an export, a job and one of its attempts, is a key and never that of an upload.
LEMMA ExportKeyFacts ==
  \A j \in Jobs, a \in 1..MaxAttempts :
    <<j, a>> \in ExportKeys /\ <<j, a>> \in Keys /\ <<j, a>> \notin Uploads
BY ExportJobsAssumption DEF ExportKeys

\* A job has begun finitely many attempts, at most MaxAttempts.
LEMMA BegunBounded ==
  ASSUME TypeOK, NEW j \in Jobs
  PROVE  /\ IsFiniteSet(Begun(j)) /\ Cardinality(Begun(j)) \in Nat
         /\ Cardinality(Begun(j)) <= MaxAttempts
<1>1. IsFiniteSet(1..MaxAttempts) /\ Cardinality(1..MaxAttempts) = MaxAttempts
  BY FS_Interval, ExportJobsAssumption
<1>2. Begun(j) \subseteq 1..MaxAttempts
  BY DEF Begun
<1>3. /\ IsFiniteSet(Begun(j))
      /\ Cardinality(Begun(j)) <= Cardinality(1..MaxAttempts)
  BY <1>1, <1>2, FS_Subset
<1> QED
  BY <1>1, <1>3, FS_CardinalityType

\* An action that starts nothing and forgets no attempt keeps the count.
LEMMA BegunGrows ==
  ASSUME TypeOK, TypeOK', BegunOnce, runs' = runs,
         \A j \in Jobs : Begun(j) \subseteq Begun(j)'
  PROVE  BegunOnce'
<1> SUFFICES ASSUME NEW j \in Jobs PROVE runs'[j] <= Cardinality(Begun(j)')
  BY DEF BegunOnce
<1>1. Begun(j)' \subseteq 1..MaxAttempts
  BY DEF Begun
<1>2. IsFiniteSet(1..MaxAttempts)
  BY FS_Interval, ExportJobsAssumption
<1>3. IsFiniteSet(Begun(j)')
  BY <1>2, <1>1, FS_Subset
<1>4. Cardinality(Begun(j)) <= Cardinality(Begun(j)')
  BY <1>3, FS_Subset
<1>5. Cardinality(Begun(j)) \in Nat /\ Cardinality(Begun(j)') \in Nat /\ runs[j] \in Nat
  BY <1>3, FS_CardinalityType, BegunBounded DEF TypeOK
<1> QED
  BY <1>4, <1>5 DEF BegunOnce

\* The initial state satisfies the invariant.
LEMMA InitIInv == Init => IInv
<1> SUFFICES ASSUME Init PROVE IInv
  OBVIOUS
<1> USE ExportJobsAssumption
<1>1. TypeOK
  BY DEF Init, FilesInit, TypeOK, FilesOK, Row, Job, Runner, Stages, Purges
<1>2. RunnersOK /\ LocksOK /\ AttemptsCounted
  BY DEF Init, RunnersOK, LocksOK, AttemptsCounted
<1>3. BegunOnce
  BY <1>1, BegunBounded DEF Init, BegunOnce
<1>4. UploadsKept /\ RecordedKept /\ AttemptsKept
  BY ExportKeyFacts, AttachmentsAssumption
  DEF Init, FilesInit, UploadsKept, RecordedKept, AttemptsKept, Live, Purges
<1> QED
  BY <1>1, <1>2, <1>3, <1>4 DEF IInv

----------------------------------------------------------------------------
(* Steps of the attachments *)

\* What a step of the attachments leaves alone.
LEMMA JobsApart ==
  ASSUME IInv, UNCHANGED <<job, runner, runs, hitches>>, FilesOK'
  PROVE  TypeOK' /\ RunnersOK' /\ LocksOK' /\ AttemptsCounted' /\ BegunOnce'
<1>1. TypeOK'
  BY DEF IInv, TypeOK
<1>2. RunnersOK' /\ LocksOK'
  BY DEF IInv, RunnersOK, LocksOK
<1>3. AttemptsCounted'
  BY DEF IInv, AttemptsCounted, Left
<1>4. BegunOnce'
  BY DEF IInv, BegunOnce, Begun
<1> QED
  BY <1>1, <1>2, <1>3, <1>4

\* The key of an attempt in progress is that of an export.
LEMMA RunnerKeys ==
  ASSUME IInv
  PROVE  \A w \in Workers :
           runner[w].stage \in {"PRIS"} \cup Storing /\ runner[w].attempt <= MaxAttempts
             => /\ runner[w].job \in Jobs /\ runner[w].attempt \in 1..MaxAttempts
                /\ Key(w) \in Keys /\ Key(w) \notin Uploads
BY ExportKeyFacts DEF IInv, RunnersOK, TypeOK, Job, Runner

\* Rows and contents of exports untouched, their attempts keep them.
LEMMA ExportsUntouched ==
  ASSUME IInv, UNCHANGED <<job, runner>>,
         \A e \in Keys \ Uploads : row'[e] = row[e] /\ (e \in storage => e \in storage')
  PROVE  AttemptsKept'
<1>1. \A w \in Workers : runner[w].stage \in Storing => runner[w].attempt <= MaxAttempts
  BY DEF IInv, RunnersOK
<1> QED
  BY <1>1, RunnerKeys, ExportKeyFacts DEF IInv, AttemptsKept

\* Each step of an upload request keeps the invariant.
LEMMA UploadStepKeeps ==
  ASSUME IInv, UNCHANGED <<job, runner, runs, hitches>>, NEW f \in Uploads,
         Put(f) \/ RecordUpload(f) \/ Remove(f) \/ Erase(f) \/ RequestStops(f)
  PROVE  IInv'
<1> USE AttachmentsAssumption, ExportKeyFacts
<1>0. f \in Keys /\ FilesOK
  BY DEF IInv, TypeOK
<1>1. CASE Put(f)
  <2>1. FilesOK'
    BY <1>0, <1>1 DEF Put, FilesOK
  <2>2. UploadsKept'
    BY <1>0, <1>1 DEF Put, IInv, UploadsKept, Live
  <2>3. RecordedKept'
    BY <1>0, <1>1 DEF Put, IInv, RecordedKept
  <2>4. AttemptsKept'
    BY <1>0, <1>1, ExportsUntouched DEF Put, FilesOK
  <2> QED
    BY <2>1, <2>2, <2>3, <2>4, JobsApart DEF IInv
<1>2. CASE RecordUpload(f)
  <2>1. FilesOK'
    BY <1>0, <1>2 DEF RecordUpload, FilesOK, Row
  <2>2. UploadsKept'
    BY <1>0, <1>2 DEF RecordUpload, IInv, UploadsKept, Live, FilesOK, Row
  <2>3. RecordedKept'
    BY <1>0, <1>2, ExportJobsAssumption DEF RecordUpload, IInv, RecordedKept, FilesOK
  <2>4. AttemptsKept'
    BY <1>0, <1>2, ExportsUntouched DEF RecordUpload, FilesOK
  <2> QED
    BY <2>1, <2>2, <2>3, <2>4, JobsApart DEF IInv
<1>3. CASE Remove(f)
  <2>1. FilesOK'
    BY <1>0, <1>3 DEF Remove, FilesOK, Row
  <2>2. UploadsKept'
    BY <1>0, <1>3 DEF Remove, IInv, UploadsKept, Live, FilesOK, Row
  <2>3. RecordedKept'
    BY <1>0, <1>3, ExportJobsAssumption DEF Remove, IInv, RecordedKept, FilesOK
  <2>4. AttemptsKept'
    BY <1>0, <1>3, ExportsUntouched DEF Remove, FilesOK
  <2> QED
    BY <2>1, <2>2, <2>3, <2>4, JobsApart DEF IInv
<1>4. CASE Erase(f)
  <2>1. FilesOK'
    BY <1>0, <1>4 DEF Erase, FilesOK
  <2>2. UploadsKept'
    BY <1>0, <1>4 DEF Erase, IInv, UploadsKept, Live
  <2>3. RecordedKept'
    BY <1>0, <1>4 DEF Erase, IInv, RecordedKept
  <2>4. AttemptsKept'
    BY <1>0, <1>4, ExportsUntouched DEF Erase, FilesOK
  <2> QED
    BY <2>1, <2>2, <2>3, <2>4, JobsApart DEF IInv
<1>5. CASE RequestStops(f)
  <2>1. FilesOK'
    BY <1>0, <1>5 DEF RequestStops, FilesOK
  <2>2. UploadsKept'
    BY <1>0, <1>5 DEF RequestStops, IInv, UploadsKept, Live
  <2>3. RecordedKept'
    BY <1>0, <1>5 DEF RequestStops, IInv, RecordedKept
  <2>4. AttemptsKept'
    BY <1>0, <1>5, ExportsUntouched DEF RequestStops, FilesOK
  <2> QED
    BY <2>1, <2>2, <2>3, <2>4, JobsApart DEF IInv
<1> QED
  BY <1>1, <1>2, <1>3, <1>4, <1>5

\* Attach keeps the invariant.
LEMMA AttachKeeps ==
  ASSUME IInv, UNCHANGED <<job, runner, runs, hitches>>,
         NEW f \in Uploads, NEW owner \in Owners, Attach(f, owner)
  PROVE  IInv'
<1> USE AttachmentsAssumption, ExportKeyFacts
<1>0. f \in Keys /\ FilesOK
  BY DEF IInv, TypeOK
<1>1. FilesOK'
  BY <1>0 DEF Attach, FilesOK, Row
<1>2. UploadsKept'
  BY <1>0 DEF Attach, IInv, UploadsKept, Live, FilesOK, Row
<1>3. RecordedKept'
  BY <1>0, ExportJobsAssumption DEF Attach, IInv, RecordedKept, FilesOK
<1>4. AttemptsKept'
  BY <1>0, ExportsUntouched DEF Attach, FilesOK
<1> QED
  BY <1>1, <1>2, <1>3, <1>4, JobsApart DEF IInv

\* Age keeps the invariant.
LEMMA AgeKeeps ==
  ASSUME IInv, UNCHANGED <<job, runner, runs, hitches>>, NEW f \in Keys, Age(f)
  PROVE  IInv'
<1>0. FilesOK
  BY DEF IInv, TypeOK
<1>1. FilesOK'
  BY <1>0 DEF Age, FilesOK
<1>2. UploadsKept'
  BY <1>0 DEF Age, IInv, UploadsKept, Live
<1>3. RecordedKept'
  BY <1>0 DEF Age, IInv, RecordedKept
<1>4. AttemptsKept'
  BY ExportsUntouched DEF Age
<1> QED
  BY <1>1, <1>2, <1>3, <1>4, JobsApart DEF IInv

\* What a purge may have listed: files past their time, never one that was
\* attached by then.
LEMMA PurgeStepKeeps ==
  ASSUME IInv, UNCHANGED <<job, runner, runs, hitches>>, NEW p \in Purges,
         \/ List(p) \/ MarkListed(p) \/ PurgeStops(p)
         \/ \E f \in Keys : EraseListed(p, f)
  PROVE  IInv'
<1> USE AttachmentsAssumption, ExportKeyFacts DEF Purges
<1>0. FilesOK /\ UploadsKept /\ RecordedKept /\ purge[p].listed \subseteq Keys
  BY DEF IInv, TypeOK, FilesOK
<1>1. CASE List(p)
  <2>1. FilesOK'
    BY <1>0, <1>1 DEF List, Stale, FilesOK
  <2>2. UploadsKept'
    BY <1>0, <1>1, ExportJobsAssumption DEF List, Stale, UploadsKept, Live, FilesOK, RecordedKept, ExportKeys
  <2>3. RecordedKept'
    BY <1>0, <1>1, ExportJobsAssumption DEF List, Stale, UploadsKept, RecordedKept, FilesOK
  <2>4. AttemptsKept'
    BY <1>1, ExportsUntouched DEF List
  <2> QED
    BY <2>1, <2>2, <2>3, <2>4, JobsApart DEF IInv
<1>2. CASE PurgeStops(p)
  <2>1. FilesOK'
    BY <1>0, <1>2 DEF PurgeStops, FilesOK
  <2>2. UploadsKept'
    BY <1>0, <1>2 DEF PurgeStops, UploadsKept, Live, FilesOK
  <2>3. RecordedKept'
    BY <1>0, <1>2 DEF PurgeStops, RecordedKept, FilesOK
  <2>4. AttemptsKept'
    BY <1>2, ExportsUntouched DEF PurgeStops
  <2> QED
    BY <2>1, <2>2, <2>3, <2>4, JobsApart DEF IInv
<1>3. ASSUME NEW f \in Keys, EraseListed(p, f)
      PROVE  IInv'
  <2>0. /\ f \in aged /\ f \notin attached /\ row[f].kind # "ABSENTE"
        /\ f \notin Uploads => row[f].kind = "EXPORT"
    BY <1>0, <1>3, ExportJobsAssumption DEF EraseListed, UploadsKept, RecordedKept
  <2>1. FilesOK'
    BY <1>0, <1>3 DEF EraseListed, FilesOK
  <2>2. UploadsKept'
    <3>1. f \notin uploading
      BY <1>0, <1>3 DEF EraseListed, UploadsKept, RecordedKept, FilesOK
    <3> QED
      BY <1>0, <1>3, <2>0, <3>1 DEF EraseListed, UploadsKept, Live, FilesOK
  <2>3. RecordedKept'
    BY <1>0, <1>3, <2>0 DEF EraseListed, RecordedKept, FilesOK
  <2>4. AttemptsKept'
    <3>1. \A w \in Workers : runner[w].stage = "ECRIT" => row[Key(w)].kind = "ABSENTE"
      BY DEF IInv, AttemptsKept, RunnersOK
    <3>2. \A w \in Workers : runner[w].stage = "ECRIT" => Key(w) # f
      BY <2>0, <3>1
    <3>3. UNCHANGED row /\ storage' = storage \ {f}
      BY <1>3 DEF EraseListed
    <3> QED
      BY <3>2, <3>3 DEF IInv, AttemptsKept
  <2> QED
    BY <2>1, <2>2, <2>3, <2>4, JobsApart DEF IInv
<1>4. CASE MarkListed(p)
  <2> DEFINE f == purge[p].erased
  <2>0. /\ f \in Keys /\ f \in aged /\ f \notin attached
        /\ f \notin Uploads => row[f].kind = "EXPORT"
    BY <1>0, <1>4, ExportJobsAssumption DEF MarkListed, UploadsKept, RecordedKept, FilesOK
  <2>a. row' = [row EXCEPT ![f].deleted = "PURGE"]
    BY <1>4 DEF MarkListed
  <2>b. /\ \A e \in Keys : row'[e].kind = row[e].kind /\ row'[e].owner = row[e].owner
        /\ \A e \in Keys \ {f} : row'[e] = row[e]
        /\ row'[f].deleted = "PURGE"
    BY <1>0, <2>0, <2>a DEF FilesOK, Row
  <2>1. FilesOK'
    BY <1>0, <1>4, <2>0 DEF MarkListed, FilesOK, Row
  <2>c. /\ UNCHANGED <<storage, aged, attached, uploading, erasing>>
        /\ \A q \in Purges : purge'[q].listed \subseteq purge[q].listed
    BY <1>0, <1>4 DEF MarkListed, FilesOK
  <2> HIDE DEF f
  <2>2. UploadsKept'
    BY <1>0, <2>0, <2>b, <2>c DEF UploadsKept, Live, FilesOK
  <2>3. RecordedKept'
    BY <1>0, <2>0, <2>b, <2>c, ExportJobsAssumption DEF RecordedKept, FilesOK
  <2>4. AttemptsKept'
    <3>1. UNCHANGED <<storage, job, runner>>
      BY <1>4 DEF MarkListed
    <3> QED
      BY <2>b, <3>1, RunnerKeys DEF IInv, AttemptsKept, RunnersOK
  <2> QED
    BY <2>1, <2>2, <2>3, <2>4, JobsApart DEF IInv
<1> QED
  BY <1>1, <1>2, <1>3, <1>4

----------------------------------------------------------------------------
(* Steps of the queue.  Each leaves the uploaded files alone, but for the  *)
(* contents it adds or removes under keys of exports.                      *)

\* What leaves the uploads as they are, or adds to them, keeps what is known of them.
LEMMA UploadsApart ==
  ASSUME IInv, UNCHANGED <<aged, attached, uploading, erasing, purge>>,
         \A f \in Uploads : row'[f] = row[f] /\ (f \in storage => f \in storage')
  PROVE  UploadsKept'
<1>1. FilesOK
  BY DEF IInv, TypeOK
<1> QED
  BY <1>1 DEF IInv, UploadsKept, Live, FilesOK

\* A job whose attempts only grow, files untouched.
LEMMA RecordedApart ==
  ASSUME IInv, UNCHANGED files,
         \A j \in Jobs : job'[j].attempts \in Nat /\ job[j].attempts <= job'[j].attempts
  PROVE  UploadsKept' /\ RecordedKept' /\ FilesOK'
<1>1. UploadsKept' /\ FilesOK'
  BY UploadsApart DEF files, IInv, TypeOK, FilesOK
<1>2. RecordedKept'
  BY ExportJobsAssumption DEF files, IInv, TypeOK, Job, RecordedKept
<1> QED
  BY <1>1, <1>2

\* Enqueue keeps the invariant.
LEMMA EnqueueKeeps ==
  ASSUME IInv, NEW j \in Jobs, Enqueue(j)
  PROVE  IInv'
<1> USE ExportJobsAssumption
<1>0. /\ job[j].status = "ABSENT" /\ UNCHANGED <<files, runner, runs, hitches>>
      /\ job' = [job EXCEPT ![j].status = "EN_ATTENTE"]
      /\ job \in [Jobs -> Job]
  BY DEF Enqueue, IInv, TypeOK
<1>1. /\ \A i \in Jobs \ {j} : job'[i] = job[i]
      /\ job'[j].status = "EN_ATTENTE" /\ job'[j].attempts = job[j].attempts
      /\ job'[j].lockedBy = job[j].lockedBy /\ job'[j].lapsed = job[j].lapsed
      /\ job' \in [Jobs -> Job]
      /\ \A i \in Jobs : job'[i].attempts = job[i].attempts /\ job[i].attempts \in Nat
  BY <1>0 DEF Job, Final
<1>2. UploadsKept' /\ RecordedKept' /\ FilesOK'
  BY <1>0, <1>1, RecordedApart
<1>3. TypeOK'
  BY <1>0, <1>1, <1>2 DEF IInv, TypeOK
<1>4. RunnersOK'
  BY <1>0, <1>1 DEF IInv, RunnersOK
<1>5. LocksOK'
  BY <1>0, <1>1 DEF IInv, LocksOK
<1>6. AttemptsCounted'
  BY <1>0, <1>1 DEF IInv, AttemptsCounted, Left
<1>7. BegunOnce'
  BY <1>0, <1>1 DEF IInv, BegunOnce, Begun
<1>8. AttemptsKept'
  BY <1>0, <1>1 DEF IInv, AttemptsKept, files
<1> QED
  BY <1>2, <1>3, <1>4, <1>6, <1>7, <1>8, <1>5 DEF IInv

\* A claim opens an attempt with a number, hence a key, of its own.
LEMMA ClaimKeeps ==
  ASSUME IInv, NEW w \in Workers, NEW j \in Jobs, Claim(w, j)
  PROVE  IInv'
<1> USE ExportJobsAssumption
<1>0. /\ UNCHANGED <<files, runs, hitches>>
      /\ runner[w] = Free /\ Claimable(j)
      /\ job \in [Jobs -> Job] /\ runner \in [Workers -> Runner]
      /\ hitches \in 0..MaxHitches
  BY DEF Claim, IInv, TypeOK
<1>1. /\ \A i \in Jobs \ {j} : job'[i] = job[i]
      /\ job'[j] = [status |-> "EN_COURS", attempts |-> job[j].attempts + 1, lockedBy |-> w,
                    lapsed |-> FALSE, result |-> job[j].result]
      /\ \A i \in Jobs : job[i].attempts \in Nat
      /\ DOMAIN job' = Jobs /\ job' = [i \in Jobs |-> job'[i]]
  BY <1>0 DEF Claim, Job
<1>2. /\ \A v \in Workers \ {w} : runner'[v] = runner[v]
      /\ runner'[w] = [stage |-> "PRIS", job |-> j, attempt |-> job[j].attempts + 1,
                       aborted |-> FALSE]
      /\ DOMAIN runner' = Workers /\ runner' = [v \in Workers |-> runner'[v]]
  BY <1>0 DEF Claim
<1>3. job[j].attempts <= MaxAttempts + hitches
  BY <1>0, <1>1 DEF IInv, AttemptsCounted, Left, Claimable
<1>4. UploadsKept' /\ RecordedKept' /\ FilesOK'
  BY <1>0, <1>1, RecordedApart
<1>5. TypeOK'
  <2>1. job'[j] \in Job /\ runner'[w] \in Runner
    BY <1>0, <1>1, <1>2, <1>3 DEF Job, Runner, Stages
  <2>2. job' \in [Jobs -> Job] /\ runner' \in [Workers -> Runner]
    BY <1>0, <1>1, <1>2, <2>1
  <2> QED
    BY <1>0, <1>4, <2>2 DEF IInv, TypeOK
<1>6. RunnersOK'
  <2>1. \A v \in Workers \ {w} : On(v, j) => runner[v].attempt <= job[j].attempts
    BY <1>0 DEF IInv, RunnersOK, Runner
  <2>2. ASSUME NEW v \in Workers \ {w}
        PROVE  \/ runner'[v] = Free
               \/ /\ runner'[v].stage # "LIBRE" /\ runner'[v].job \in Jobs
                  /\ runner'[v].attempt \in 1..job'[runner'[v].job].attempts
                  /\ runner'[v].stage \in Storing => runner'[v].attempt <= MaxAttempts
    BY <1>1, <1>2 DEF IInv, RunnersOK
  <2> QED
    BY <1>0, <1>1, <1>2, <2>1, <2>2 DEF IInv, RunnersOK, Runner
<1>7. LocksOK'
  BY <1>0, <1>1, <1>2 DEF IInv, LocksOK
<1>8. AttemptsCounted'
  BY <1>0, <1>1, <1>2, <1>3 DEF IInv, AttemptsCounted, Left
<1>9. BegunOnce'
  <2>1. ASSUME NEW i \in Jobs PROVE Begun(i) \subseteq Begun(i)'
    BY <1>0, <1>1, <1>2 DEF Begun
  <2> QED
    BY <1>0, <1>5, <2>1, BegunGrows DEF IInv
<1>10. AttemptsKept'
  <2>1. job[j].attempts + 1 <= MaxAttempts => row[<<j, job[j].attempts + 1>>].kind = "ABSENTE"
    BY <1>1 DEF IInv, RecordedKept
  <2>2. \A v \in Workers :
           /\ runner'[v].stage = "ECRIT" => Key(v)' \in storage
           /\ runner'[v].stage \in {"PRIS", "ECRIT", "A_EFFACER"}
                /\ runner'[v].attempt <= MaxAttempts => row[Key(v)'].kind = "ABSENTE"
           /\ runner'[v].stage = "PRET" => row[Key(v)'].kind = "EXPORT"
    BY <1>2, <2>1 DEF IInv, AttemptsKept
  <2>3. \A i \in Jobs : job'[i].status = "TERMINE" => job'[i] = job[i]
    BY <1>1
  <2>4. \A i \in Jobs : job'[i].status = "TERMINE" =>
          \E a \in 1..MaxAttempts : job'[i].result = <<i, a>> /\ row[<<i, a>>].kind = "EXPORT"
    BY <2>3 DEF IInv, AttemptsKept
  <2> QED
    BY <1>0, <2>2, <2>4 DEF AttemptsKept, files
<1> QED
  BY <1>4, <1>5, <1>6, <1>7, <1>8, <1>9, <1>10 DEF IInv

\* A worker goes on to another stage of the attempt it is at.
Shifts(w, stage) ==
  /\ runner' \in [Workers -> Runner]
  /\ \A v \in Workers \ {w} : runner'[v] = runner[v]
  /\ runner'[w].stage = stage /\ runner'[w].job = runner[w].job
  /\ runner'[w].attempt = runner[w].attempt

\* A step of a worker within its job only changes the stage of that worker.
LEMMA MoveShifts ==
  ASSUME IInv, NEW w \in Workers, NEW stage \in Stages, Moves(w, stage)
  PROVE  Shifts(w, stage)
<1>1. runner \in [Workers -> Runner]
  BY DEF IInv, TypeOK
<1> QED
  BY <1>1 DEF Moves, Shifts, Runner

\* So does a failure.
LEMMA FailShifts ==
  ASSUME IInv, NEW w \in Workers, NEW aborted \in BOOLEAN, Fails(w, aborted)
  PROVE  Shifts(w, "EN_ECHEC")
<1>1. runner \in [Workers -> Runner]
  BY DEF IInv, TypeOK
<1> QED
  BY <1>1 DEF Fails, Shifts, Runner, Stages

\* A change of stage keeps what the invariant says of the workers, the locks and the attempts.
LEMMA StageMoves ==
  ASSUME IInv, NEW w \in Workers, NEW stage, Shifts(w, stage), stage # "LIBRE",
         runner[w].stage # "LIBRE",
         stage \in Storing => runner[w].attempt <= MaxAttempts,
         UNCHANGED job, hitches' \in 0..MaxHitches, hitches <= hitches'
  PROVE  RunnersOK' /\ LocksOK' /\ AttemptsCounted'
<1>1. job \in [Jobs -> Job] /\ hitches \in 0..MaxHitches
  BY DEF IInv, TypeOK
<1>2. RunnersOK'
  BY <1>1 DEF Shifts, IInv, RunnersOK
<1>3. LocksOK'
  BY DEF Shifts, IInv, LocksOK
<1>4. AttemptsCounted'
  BY <1>1, ExportJobsAssumption DEF Shifts, IInv, AttemptsCounted, Left, Job
<1> QED
  BY <1>2, <1>3, <1>4

\* What the worker was at is a job, and its attempt is numbered.
LEMMA AtWork ==
  ASSUME IInv, NEW w \in Workers, runner[w].stage # "LIBRE"
  PROVE  /\ Running(w) \in Jobs /\ runner[w].attempt \in 1..job[Running(w)].attempts
         /\ runner[w].stage \in Storing => runner[w].attempt <= MaxAttempts
         /\ job[Running(w)].attempts \in Nat
BY DEF IInv, RunnersOK, TypeOK, Job

\* The handler starts: one more attempt has begun.
LEMMA StartCounted ==
  ASSUME IInv, NEW w \in Workers, Started(w), UNCHANGED job,
         runner' \in [Workers -> Runner],
         \A v \in Workers \ {w} : runner'[v] = runner[v],
         runner'[w].stage # "PRIS"
  PROVE  BegunOnce' /\ runs' \in [Jobs -> 0..MaxAttempts]
<1> USE ExportJobsAssumption
<1>0. PICK j \in Jobs, a \in 1..MaxAttempts :
        /\ j = Running(w) /\ a = runner[w].attempt /\ a <= job[j].attempts
  BY AtWork DEF Started, Exhausted
<1>1. /\ runs \in [Jobs -> 0..MaxAttempts] /\ runs' = [runs EXCEPT ![j] = @ + 1]
      /\ runner[w].stage = "PRIS" /\ On(w, j)
  BY <1>0 DEF Started, IInv, TypeOK
<1>2. ASSUME NEW v \in Workers \ {w}, On(v, j)
      PROVE  runner[v].attempt # a
  BY <1>0, <1>1, <1>2, ExportJobsAssumption DEF IInv, RunnersOK
<1>3. a \notin Begun(j) /\ Begun(j) \cup {a} \subseteq Begun(j)'
  BY <1>0, <1>1, <1>2 DEF Begun
<1>4. \A i \in Jobs : Begun(i) \subseteq Begun(i)' /\ Begun(i)' \subseteq 1..MaxAttempts
  BY DEF Begun
<1>5. \A i \in Jobs : /\ IsFiniteSet(Begun(i)) /\ Cardinality(Begun(i)) \in Nat
                      /\ IsFiniteSet(Begun(i)') /\ Cardinality(Begun(i)') \in Nat
                      /\ Cardinality(Begun(i)') <= MaxAttempts
                      /\ Cardinality(Begun(i)) <= Cardinality(Begun(i)')
  <2>1. IsFiniteSet(1..MaxAttempts) /\ Cardinality(1..MaxAttempts) = MaxAttempts
    BY FS_Interval
  <2> QED
    BY <1>4, <2>1, FS_Subset, FS_CardinalityType
<1>6. Cardinality(Begun(j) \cup {a}) = Cardinality(Begun(j)) + 1
  BY <1>1, <1>3, <1>5, FS_AddElement
<1>7. Cardinality(Begun(j) \cup {a}) <= Cardinality(Begun(j)')
  BY <1>1, <1>3, <1>5, FS_Subset
<1>8. runs'[j] = runs[j] + 1 /\ \A i \in Jobs \ {j} : runs'[i] = runs[i]
  BY <1>1
<1>9. \A i \in Jobs : runs[i] <= Cardinality(Begun(i)) /\ runs[i] \in Nat
  BY <1>1 DEF IInv, BegunOnce
<1>10. \A i \in Jobs : runs'[i] \in Nat /\ runs'[i] <= Cardinality(Begun(i)')
  BY <1>1, <1>5, <1>6, <1>7, <1>8, <1>9
<1>11. BegunOnce'
  BY <1>10 DEF BegunOnce
<1>12. \A i \in Jobs : runs'[i] \in 0..MaxAttempts
  BY <1>5, <1>10
<1>13. runs' \in [Jobs -> 0..MaxAttempts]
  BY <1>1, <1>12
<1> QED
  BY <1>11, <1>13

\* A stage that starts nothing.
LEMMA NothingStarted ==
  ASSUME IInv, NEW w \in Workers, UNCHANGED <<job, runs>>, TypeOK',
         \A v \in Workers \ {w} : runner'[v] = runner[v],
         runner'[w].stage # "PRIS"
  PROVE  BegunOnce'
<1>1. \A j \in Jobs : Begun(j) \subseteq Begun(j)'
  BY DEF Begun
<1> QED
  BY <1>1, BegunGrows DEF IInv

\* Refuse keeps the invariant.
LEMMA RefuseKeeps == ASSUME IInv, NEW w \in Workers, Refuse(w) PROVE IInv'
<1> USE ExportJobsAssumption
<1>0. /\ runner[w].stage = "PRIS" /\ Fails(w, TRUE)
      /\ UNCHANGED <<files, job, runs, hitches>> /\ hitches \in 0..MaxHitches
  BY DEF Refuse, IInv, TypeOK
<1>1. Shifts(w, "EN_ECHEC")
  BY <1>0, FailShifts DEF Stages
<1>2. RunnersOK' /\ LocksOK' /\ AttemptsCounted'
  BY <1>0, <1>1, StageMoves
<1>3. /\ runner' \in [Workers -> Runner]
      /\ \A v \in Workers \ {w} : runner'[v] = runner[v]
      /\ runner'[w].stage = "EN_ECHEC"
  BY <1>1 DEF Shifts
<1>4. TypeOK' /\ UploadsKept' /\ RecordedKept'
  BY <1>0, <1>3, RecordedApart DEF IInv, TypeOK, Job
<1>5. BegunOnce'
  BY <1>0, <1>3, <1>4, NothingStarted
<1>6. AttemptsKept'
  BY <1>0, <1>3 DEF IInv, AttemptsKept, files
<1> QED
  BY <1>2, <1>4, <1>5, <1>6 DEF IInv

\* GenerateFails keeps the invariant.
LEMMA GenerateFailsKeeps ==
  ASSUME IInv, NEW w \in Workers, NEW aborted \in BOOLEAN, GenerateFails(w, aborted)
  PROVE  IInv'
<1> USE ExportJobsAssumption
<1>0. /\ runner[w].stage = "PRIS" /\ Fails(w, aborted) /\ Started(w)
      /\ UNCHANGED <<files, job, hitches>> /\ hitches \in 0..MaxHitches
  BY DEF GenerateFails, Started, IInv, TypeOK
<1>1. Shifts(w, "EN_ECHEC")
  BY <1>0, FailShifts DEF Stages
<1>2. RunnersOK' /\ LocksOK' /\ AttemptsCounted'
  BY <1>0, <1>1, StageMoves
<1>3. /\ runner' \in [Workers -> Runner]
      /\ \A v \in Workers \ {w} : runner'[v] = runner[v]
      /\ runner'[w].stage = "EN_ECHEC"
  BY <1>1 DEF Shifts
<1>4. BegunOnce' /\ runs' \in [Jobs -> 0..MaxAttempts]
  BY <1>0, <1>3, StartCounted
<1>5. TypeOK' /\ UploadsKept' /\ RecordedKept'
  BY <1>0, <1>3, <1>4, RecordedApart DEF IInv, TypeOK, Job
<1>6. AttemptsKept'
  BY <1>0, <1>3 DEF IInv, AttemptsKept, files
<1> QED
  BY <1>2, <1>4, <1>5, <1>6 DEF IInv

\* Generate keeps the invariant.
LEMMA GenerateKeeps == ASSUME IInv, NEW w \in Workers, Generate(w) PROVE IInv'
<1> USE ExportJobsAssumption
<1>0. /\ runner[w].stage = "PRIS" /\ Moves(w, "ECRIT") /\ Started(w)
      /\ storage' = storage \cup {Key(w)}
      /\ UNCHANGED <<row, aged, attached, uploading, erasing, purge, job, hitches>>
      /\ hitches \in 0..MaxHitches /\ FilesOK
      /\ runner[w].attempt <= MaxAttempts
  BY AtWork DEF Generate, Started, Exhausted, IInv, TypeOK, Runner
<1>1. Shifts(w, "ECRIT")
  BY <1>0, MoveShifts DEF Stages
<1>2. RunnersOK' /\ LocksOK' /\ AttemptsCounted'
  BY <1>0, <1>1, StageMoves
<1>3. /\ runner' \in [Workers -> Runner]
      /\ \A v \in Workers \ {w} : runner'[v] = runner[v]
      /\ runner'[w].stage = "ECRIT" /\ runner'[w].job = runner[w].job
      /\ runner'[w].attempt = runner[w].attempt
  BY <1>1 DEF Shifts
<1>4. BegunOnce' /\ runs' \in [Jobs -> 0..MaxAttempts]
  BY <1>0, <1>3, StartCounted
<1>5. FilesOK'
  BY <1>0, RunnerKeys DEF FilesOK
<1>6. TypeOK'
  BY <1>0, <1>3, <1>4, <1>5 DEF IInv, TypeOK
<1>7. UploadsKept'
  BY <1>0, UploadsApart
<1>8. RecordedKept'
  BY <1>0 DEF IInv, RecordedKept
<1>9. AttemptsKept'
  BY <1>0, <1>3 DEF IInv, AttemptsKept
<1> QED
  BY <1>2, <1>4, <1>6, <1>7, <1>8, <1>9 DEF IInv

\* RecordExport keeps the invariant.
LEMMA RecordExportKeeps == ASSUME IInv, NEW w \in Workers, RecordExport(w) PROVE IInv'
<1> USE ExportJobsAssumption
<1> DEFINE k == Key(w)
           exported == [kind |-> "EXPORT", owner |-> Running(w), deleted |-> "NON"]
<1>0. /\ runner[w].stage = "ECRIT" /\ Moves(w, "PRET")
      /\ row' = [row EXCEPT ![k] = exported]
      /\ UNCHANGED <<storage, aged, attached, uploading, erasing, purge, job, runs, hitches>>
      /\ hitches \in 0..MaxHitches /\ FilesOK
      /\ Running(w) \in Jobs /\ runner[w].attempt \in 1..MaxAttempts
      /\ runner[w].attempt <= job[Running(w)].attempts
      /\ k \in Keys /\ k \notin Uploads /\ k \in storage
  <2>1. /\ runner[w].stage = "ECRIT" /\ Moves(w, "PRET")
        /\ row' = [row EXCEPT ![k] = exported]
        /\ UNCHANGED <<storage, aged, attached, uploading, erasing, purge, job, runs, hitches>>
    BY DEF RecordExport
  <2>2. hitches \in 0..MaxHitches /\ FilesOK
    BY DEF IInv, TypeOK
  <2>3. /\ Running(w) \in Jobs /\ runner[w].attempt <= job[Running(w)].attempts
        /\ runner[w].attempt <= MaxAttempts
    BY <2>1, AtWork
  <2>4. runner[w].attempt \in 1..MaxAttempts /\ k \in Keys /\ k \notin Uploads
    BY <2>1, <2>3, RunnerKeys
  <2>5. k \in storage
    BY <2>1 DEF IInv, AttemptsKept
  <2> QED
    BY <2>1, <2>2, <2>3, <2>4, <2>5
<1>1. Shifts(w, "PRET")
  BY <1>0, MoveShifts DEF Stages
<1>2. RunnersOK' /\ LocksOK' /\ AttemptsCounted'
  BY <1>0, <1>1, StageMoves
<1>3. /\ runner' \in [Workers -> Runner]
      /\ \A v \in Workers \ {w} : runner'[v] = runner[v]
      /\ runner'[w].stage = "PRET" /\ runner'[w].job = runner[w].job
      /\ runner'[w].attempt = runner[w].attempt
  BY <1>1 DEF Shifts
<1>4. /\ row' \in [Keys -> Row] /\ row'[k] = exported
      /\ \A f \in Keys \ {k} : row'[f] = row[f]
  BY <1>0 DEF FilesOK, Row
<1>5. TypeOK'
  BY <1>0, <1>3, <1>4 DEF IInv, TypeOK, FilesOK
<1>6. BegunOnce'
  BY <1>0, <1>3, <1>5, NothingStarted
<1>7. UploadsKept'
  BY <1>0, <1>4, UploadsApart
<1>8. RecordedKept'
  BY <1>0, <1>4, ExportKeyFacts DEF IInv, RecordedKept
<1>9. AttemptsKept'
  <2>1. ASSUME NEW v \in Workers \ {w} PROVE Key(v) # k \/ runner[v].stage = "LIBRE"
    BY <1>0, AtWork DEF IInv, RunnersOK
  <2>2. \A v \in Workers : runner[v].stage \in {"PRIS", "ECRIT", "PRET", "A_EFFACER"}
                             /\ runner[v].attempt <= MaxAttempts => Key(v) \in Keys
    BY RunnerKeys
  <2>3. \A v \in Workers : runner[v].stage \in Storing => runner[v].attempt <= MaxAttempts
    BY AtWork
  <2>4. ASSUME NEW v \in Workers
        PROVE  /\ runner'[v].stage = "ECRIT" => Key(v)' \in storage
               /\ runner'[v].stage \in {"PRIS", "ECRIT", "A_EFFACER"}
                    /\ runner'[v].attempt <= MaxAttempts => row'[Key(v)'].kind = "ABSENTE"
               /\ runner'[v].stage = "PRET" => row'[Key(v)'].kind = "EXPORT"
    <3>1. CASE v = w
      BY <1>3, <1>4, <3>1
    <3>2. CASE v # w
      BY <1>3, <1>4, <2>1, <2>2, <2>3, <3>2 DEF IInv, AttemptsKept
    <3> QED
      BY <3>1, <3>2
  <2>5. \A j \in Jobs, a \in 1..MaxAttempts :
          row[<<j, a>>].kind = "EXPORT" => row'[<<j, a>>].kind = "EXPORT"
    BY <1>4, ExportKeyFacts
  <2>6. \A j \in Jobs : job[j].status = "TERMINE" =>
          \E a \in 1..MaxAttempts : job[j].result = <<j, a>> /\ row'[<<j, a>>].kind = "EXPORT"
    BY <2>5 DEF IInv, AttemptsKept
  <2> QED
    BY <1>0, <2>4, <2>6 DEF AttemptsKept
<1> QED
  BY <1>2, <1>5, <1>6, <1>7, <1>8, <1>9 DEF IInv

\* RecordExportFails keeps the invariant.
LEMMA RecordExportFailsKeeps ==
  ASSUME IInv, NEW w \in Workers, RecordExportFails(w)
  PROVE  IInv'
<1> USE ExportJobsAssumption
<1>0. /\ runner[w].stage = "ECRIT" /\ Moves(w, "A_EFFACER")
      /\ UNCHANGED <<files, job, runs, hitches>> /\ hitches \in 0..MaxHitches
      /\ runner[w].attempt <= MaxAttempts
  <2>1. /\ runner[w].stage = "ECRIT" /\ Moves(w, "A_EFFACER")
        /\ UNCHANGED <<files, job, runs, hitches>>
    BY DEF RecordExportFails
  <2>2. hitches \in 0..MaxHitches
    BY DEF IInv, TypeOK
  <2> QED
    BY <2>1, <2>2, AtWork
<1>1. Shifts(w, "A_EFFACER")
  BY <1>0, MoveShifts DEF Stages
<1>2. RunnersOK' /\ LocksOK' /\ AttemptsCounted'
  BY <1>0, <1>1, StageMoves
<1>3. /\ runner' \in [Workers -> Runner]
      /\ \A v \in Workers \ {w} : runner'[v] = runner[v]
      /\ runner'[w].stage = "A_EFFACER" /\ runner'[w].job = runner[w].job
      /\ runner'[w].attempt = runner[w].attempt
  BY <1>1 DEF Shifts
<1>4. TypeOK' /\ UploadsKept' /\ RecordedKept'
  BY <1>0, <1>3, RecordedApart DEF IInv, TypeOK, Job
<1>5. BegunOnce'
  BY <1>0, <1>3, <1>4, NothingStarted
<1>6. AttemptsKept'
  <2>1. ASSUME NEW v \in Workers
        PROVE  /\ Key(v)' = Key(v)
               /\ runner'[v].stage = "ECRIT" => runner[v].stage = "ECRIT"
               /\ runner'[v].stage \in {"PRIS", "ECRIT", "A_EFFACER"}
                    => runner[v].stage \in {"PRIS", "ECRIT", "A_EFFACER"}
               /\ runner'[v].stage = "PRET" => runner[v].stage = "PRET"
               /\ runner'[v].attempt = runner[v].attempt
    BY <1>0, <1>3
  <2>2. UNCHANGED <<storage, row, job>>
    BY <1>0 DEF files
  <2> QED
    BY <2>1, <2>2 DEF IInv, AttemptsKept
<1> QED
  BY <1>2, <1>4, <1>5, <1>6 DEF IInv

\* The content removed is under the key of an attempt that recorded nothing.
LEMMA CleanUpKeeps == ASSUME IInv, NEW w \in Workers, CleanUp(w) PROVE IInv'
<1> USE ExportJobsAssumption
<1> DEFINE k == Key(w)
<1>0. /\ runner[w].stage = "A_EFFACER" /\ Fails(w, FALSE)
      /\ storage' = storage \ {k}
      /\ UNCHANGED <<row, aged, attached, uploading, erasing, purge, job, runs, hitches>>
      /\ hitches \in 0..MaxHitches /\ FilesOK
      /\ Running(w) \in Jobs /\ runner[w].attempt \in 1..MaxAttempts
      /\ k \in Keys /\ k \notin Uploads /\ row[k].kind = "ABSENTE"
  BY AtWork, RunnerKeys DEF CleanUp, IInv, TypeOK, Runner, AttemptsKept
<1>1. Shifts(w, "EN_ECHEC")
  BY <1>0, FailShifts DEF Stages
<1>2. RunnersOK' /\ LocksOK' /\ AttemptsCounted'
  BY <1>0, <1>1, StageMoves
<1>3. /\ runner' \in [Workers -> Runner]
      /\ \A v \in Workers \ {w} : runner'[v] = runner[v]
      /\ runner'[w].stage = "EN_ECHEC"
  BY <1>1 DEF Shifts
<1>4. TypeOK'
  BY <1>0, <1>3 DEF IInv, TypeOK, FilesOK
<1>5. BegunOnce'
  BY <1>0, <1>3, <1>4, NothingStarted
<1>6. UploadsKept'
  BY <1>0, UploadsApart
<1>7. RecordedKept'
  BY <1>0 DEF IInv, RecordedKept
<1>8. AttemptsKept'
  <2>1. ASSUME NEW v \in Workers \ {w} PROVE Key(v) # k \/ runner[v].stage = "LIBRE"
    BY <1>0, AtWork DEF IInv, RunnersOK
  <2> QED
    BY <1>0, <1>3, <2>1 DEF IInv, AttemptsKept
<1> QED
  BY <1>2, <1>4, <1>5, <1>6, <1>7, <1>8 DEF IInv

\* SucceedFails keeps the invariant.
LEMMA SucceedFailsKeeps == ASSUME IInv, NEW w \in Workers, SucceedFails(w) PROVE IInv'
<1> USE ExportJobsAssumption
<1>1. hitches \in 0..MaxHitches
  BY DEF IInv, TypeOK
<1>2. /\ runner[w].stage = "PRET" /\ Fails(w, FALSE)
      /\ UNCHANGED <<files, job, runs>>
      /\ hitches' \in 0..MaxHitches /\ hitches <= hitches'
  <2>1. hitches < MaxHitches /\ hitches' = hitches + 1
    BY DEF SucceedFails, Hitch
  <2>2. hitches' \in 0..MaxHitches /\ hitches <= hitches'
    BY <1>1, <2>1
  <2> QED
    BY <2>2 DEF SucceedFails
<1>3. Shifts(w, "EN_ECHEC")
  BY <1>2, FailShifts DEF Stages
<1>4. RunnersOK' /\ LocksOK' /\ AttemptsCounted'
  BY <1>2, <1>3, StageMoves
<1>5. /\ runner' \in [Workers -> Runner]
      /\ \A v \in Workers \ {w} : runner'[v] = runner[v]
      /\ runner'[w].stage = "EN_ECHEC"
  BY <1>3 DEF Shifts
<1>6. TypeOK' /\ UploadsKept' /\ RecordedKept'
  BY <1>2, <1>5, RecordedApart DEF IInv, TypeOK, Job
<1>7. BegunOnce'
  BY <1>2, <1>5, <1>6, NothingStarted
<1>8. AttemptsKept'
  BY <1>2, <1>5 DEF IInv, AttemptsKept, files
<1> QED
  BY <1>4, <1>6, <1>7, <1>8 DEF IInv

----------------------------------------------------------------------------
(* The end of an attempt *)

\* A worker that is done holds nothing any more.
LEMMA Leaves ==
  ASSUME IInv, NEW w \in Workers, runner' = [runner EXCEPT ![w] = Free],
         \A j \in Jobs : job'[j].attempts = job[j].attempts
  PROVE  /\ runner' \in [Workers -> Runner] /\ runner'[w] = Free
         /\ \A v \in Workers \ {w} : runner'[v] = runner[v]
         /\ RunnersOK'
         /\ \A j \in Jobs : Begun(j) \subseteq Begun(j)'
<1>1. runner \in [Workers -> Runner]
  BY DEF IInv, TypeOK
<1>2. /\ runner' \in [Workers -> Runner] /\ runner'[w] = Free
      /\ \A v \in Workers \ {w} : runner'[v] = runner[v]
  BY <1>1, ExportJobsAssumption DEF Runner, Stages
<1>3. RunnersOK'
  BY <1>2 DEF IInv, RunnersOK
<1>4. \A j \in Jobs : Begun(j) \subseteq Begun(j)'
  BY <1>2 DEF Begun
<1> QED
  BY <1>2, <1>3, <1>4

Ended(old, status, result) ==
  [old EXCEPT !.status = status, !.lockedBy = None, !.lapsed = FALSE, !.result = result]

\* The row of a job after its end, field by field.
LEMMA JobEnded ==
  ASSUME NEW old \in Job, NEW status, NEW result
  PROVE  Ended(old, status, result) =
           [status |-> status, attempts |-> old.attempts, lockedBy |-> None,
            lapsed |-> FALSE, result |-> result]
<1> DEFINE new == Ended(old, status, result)
<1>1. /\ old = [f \in {"status", "attempts", "lockedBy", "lapsed", "result"} |-> old[f]]
      /\ DOMAIN old = {"status", "attempts", "lockedBy", "lapsed", "result"}
  BY DEF Job
<1>2. DOMAIN new = DOMAIN old
  BY DEF Ended
<1>3. /\ new.status = status /\ new.attempts = old.attempts /\ new.lockedBy = None
      /\ new.lapsed = FALSE /\ new.result = result
  BY <1>1 DEF Ended
<1>4. new = [f \in DOMAIN new |-> new[f]]
  BY DEF Ended
<1> HIDE DEF new
<1>5. new = [f \in {"status", "attempts", "lockedBy", "lapsed", "result"} |-> new[f]]
  BY <1>1, <1>2, <1>4
<1> QED
  BY <1>3, <1>5 DEF new

\* The outcome of the worker that holds the lock, or nothing: in either case
\* the job is at rest or in the hands of another.
LEMMA OutcomeKeeps ==
  ASSUME IInv, NEW w \in Workers, runner[w].stage # "LIBRE",
         NEW status \in Final \cup {"EN_ATTENTE"}, NEW result \in ExportKeys \cup {None},
         status = "EN_ATTENTE" => runner[w].attempt < MaxAttempts,
         status = "TERMINE" =>
           /\ runner[w].attempt <= MaxAttempts /\ result = Key(w)
           /\ row[result].kind = "EXPORT",
         Outcome(w, status, result), runner' = [runner EXCEPT ![w] = Free],
         UNCHANGED <<files, runs, hitches>>
  PROVE  IInv'
<1> USE ExportJobsAssumption
<1> DEFINE j == Running(w)
<1>0. /\ j \in Jobs /\ job \in [Jobs -> Job] /\ hitches \in 0..MaxHitches
      /\ runner[w].attempt \in 1..job[j].attempts /\ job[j].attempts \in Nat
  BY AtWork DEF IInv, TypeOK
<1>1. /\ \A i \in Jobs \ {j} : job'[i] = job[i]
      /\ \/ job' = job /\ job[j].lockedBy # w
         \/ /\ job[j].lockedBy = w /\ job'[j].status = status /\ job'[j].lockedBy = None
            /\ job'[j].lapsed = FALSE /\ job'[j].result = result
      /\ \A i \in Jobs : job'[i].attempts = job[i].attempts /\ job[i].attempts \in Nat
      /\ job' \in [Jobs -> Job]
  <2>1. CASE job[j].lockedBy # w
    BY <1>0, <2>1 DEF Outcome, Job
  <2>2. CASE job[j].lockedBy = w
    <3>1. job' = [job EXCEPT ![j] = [job[j] EXCEPT !.status = status, !.lockedBy = None,
                                                  !.lapsed = FALSE, !.result = result]]
      BY <2>2 DEF Outcome
    <3>2. job'[j] = [status |-> status, attempts |-> job[j].attempts, lockedBy |-> None,
                     lapsed |-> FALSE, result |-> result]
      <4>1. job[j] \in Job
        BY <1>0
      <4>2. job'[j] = Ended(job[j], status, result)
        BY <1>0, <3>1 DEF Ended
      <4> QED
        BY <4>1, <4>2, JobEnded
    <3>3. /\ job'[j] \in Job /\ job'[j].status = status /\ job'[j].lockedBy = None
          /\ job'[j].lapsed = FALSE /\ job'[j].result = result
          /\ job'[j].attempts = job[j].attempts
      BY <1>0, <3>2 DEF Job, Final
    <3>4. \A i \in Jobs \ {j} : job'[i] = job[i]
      BY <1>0, <3>1
    <3>5. job' \in [Jobs -> Job]
      BY <1>0, <3>1, <3>3
    <3>6. \A i \in Jobs : job'[i].attempts = job[i].attempts
      BY <3>3, <3>4
    <3>7. \A i \in Jobs : job[i].attempts \in Nat
      BY <1>0 DEF Job
    <3> QED
      BY <2>2, <3>3, <3>4, <3>5, <3>6, <3>7
  <2> QED
    BY <2>1, <2>2
<1> HIDE DEF j
<1>2. /\ runner' \in [Workers -> Runner] /\ runner'[w] = Free
      /\ \A v \in Workers \ {w} : runner'[v] = runner[v]
      /\ RunnersOK'
      /\ \A i \in Jobs : Begun(i) \subseteq Begun(i)'
  BY <1>1, Leaves
<1>3. UploadsKept' /\ RecordedKept' /\ FilesOK'
  BY <1>1, RecordedApart
<1>4. TypeOK'
  BY <1>1, <1>2, <1>3 DEF IInv, TypeOK
<1>5. job[j].lockedBy = w => runner[w].attempt = job[j].attempts
  BY <1>0 DEF IInv, LocksOK, j
<1>6. LocksOK'
  BY <1>0, <1>1, <1>2 DEF IInv, LocksOK, Final
<1>7. AttemptsCounted'
  <2>1. ASSUME NEW i \in Jobs
        PROVE  /\ job'[i].status = "EN_COURS" => job'[i] = job[i]
               /\ job'[i].status = "EN_COURS" /\ Left(i)' => Left(i)
               /\ job'[i].status \in {"ABSENT", "EN_ATTENTE"}
                    => job[i].attempts <= MaxAttempts
    <3>1. CASE job'[i] = job[i]
      <4>1. job[i].lockedBy = w => ~On(w, i)
        BY <1>0, <1>1, <3>1 DEF j, IInv, LocksOK, Job
      <4> QED
        BY <1>1, <1>2, <3>1, <4>1 DEF Left, IInv, AttemptsCounted
    <3>2. CASE job'[i] # job[i]
      BY <1>0, <1>1, <1>5, <3>2 DEF Final, Runner
    <3> QED
      BY <3>1, <3>2
  <2> QED
    BY <1>1, <2>1 DEF IInv, AttemptsCounted
<1>8. BegunOnce'
  BY <1>2, <1>4, BegunGrows DEF IInv
<1>9. AttemptsKept'
  <2>1. \A v \in Workers : /\ runner'[v].stage = "ECRIT" => Key(v)' \in storage
                           /\ runner'[v].stage \in {"PRIS", "ECRIT", "A_EFFACER"}
                                /\ runner'[v].attempt <= MaxAttempts
                                => row[Key(v)'].kind = "ABSENTE"
                           /\ runner'[v].stage = "PRET" => row[Key(v)'].kind = "EXPORT"
    BY <1>2 DEF IInv, AttemptsKept
  <2>2. ASSUME NEW i \in Jobs, job'[i].status = "TERMINE"
        PROVE  \E a \in 1..MaxAttempts : job'[i].result = <<i, a>> /\ row[<<i, a>>].kind = "EXPORT"
    <3>1. CASE job'[i] = job[i]
      BY <2>2, <3>1 DEF IInv, AttemptsKept
    <3>2. CASE job'[i] # job[i]
      <4>1. i = j /\ job'[i].status = status /\ job'[i].result = result
        BY <1>1, <3>2
      <4>2. runner[w].attempt <= MaxAttempts /\ result = Key(w) /\ row[result].kind = "EXPORT"
        BY <2>2, <4>1
      <4>3. runner[w].attempt \in 1..MaxAttempts
        BY <1>0, <4>2
      <4>4. result = <<i, runner[w].attempt>>
        BY <4>1, <4>2 DEF j
      <4> QED
        BY <4>1, <4>2, <4>3, <4>4
    <3> QED
      BY <3>1, <3>2
  <2> QED
    BY <2>1, <2>2 DEF AttemptsKept, files
<1> QED
  BY <1>2, <1>3, <1>4, <1>6, <1>7, <1>8, <1>9 DEF IInv

\* Succeed keeps the invariant.
LEMMA SucceedKeeps == ASSUME IInv, NEW w \in Workers, Succeed(w) PROVE IInv'
<1>1. /\ runner[w].stage = "PRET" /\ Outcome(w, "TERMINE", Key(w))
      /\ runner' = [runner EXCEPT ![w] = Free] /\ UNCHANGED <<files, runs, hitches>>
      /\ row[Key(w)].kind = "EXPORT"
  BY DEF Succeed, IInv, AttemptsKept
<1>2. runner[w].attempt <= MaxAttempts /\ Key(w) \in ExportKeys
  BY <1>1, AtWork, RunnerKeys, ExportKeyFacts
<1>3. PICK status \in Final, result \in ExportKeys :
        status = "TERMINE" /\ result = Key(w) /\ Outcome(w, status, result)
  BY <1>1, <1>2 DEF Final
<1>4. row[result].kind = "EXPORT" /\ status # "EN_ATTENTE"
  BY <1>1, <1>3
<1> QED
  BY <1>1, <1>2, <1>3, <1>4, OutcomeKeeps

\* Fail keeps the invariant.
LEMMA FailKeeps == ASSUME IInv, NEW w \in Workers, Fail(w) PROVE IInv'
<1>1. PICK status \in {"ABANDONNE", "ECHEC", "EN_ATTENTE"} :
        /\ status = "EN_ATTENTE" => ~(runner[w].attempt >= MaxAttempts)
        /\ Outcome(w, status, None)
  BY DEF Fail
<1>2. /\ runner[w].stage = "EN_ECHEC" /\ runner[w].attempt \in Nat
      /\ runner' = [runner EXCEPT ![w] = Free] /\ UNCHANGED <<files, runs, hitches>>
  BY DEF Fail, IInv, TypeOK, Runner
<1>3. status = "EN_ATTENTE" => runner[w].attempt < MaxAttempts
  BY <1>1, <1>2, ExportJobsAssumption
<1> QED
  BY <1>1, <1>2, <1>3, OutcomeKeeps DEF Final

\* Stops keeps the invariant.
LEMMA StopsKeeps == ASSUME IInv, NEW w \in Workers, Stops(w) PROVE IInv'
<1> USE ExportJobsAssumption
<1>0. /\ runner' = [runner EXCEPT ![w] = Free] /\ UNCHANGED <<files, job, runs>>
      /\ hitches' = hitches + 1 /\ hitches' \in 0..MaxHitches /\ hitches \in Nat
      /\ job \in [Jobs -> Job]
  BY DEF Stops, Hitch, IInv, TypeOK
<1>1. /\ runner' \in [Workers -> Runner] /\ runner'[w] = Free
      /\ \A v \in Workers \ {w} : runner'[v] = runner[v]
      /\ RunnersOK'
      /\ \A i \in Jobs : Begun(i) \subseteq Begun(i)'
  BY <1>0, Leaves
<1>2. TypeOK' /\ UploadsKept' /\ RecordedKept'
  BY <1>0, <1>1, RecordedApart DEF IInv, TypeOK, Job
<1>3. LocksOK'
  BY <1>0, <1>1 DEF IInv, LocksOK
<1>4. AttemptsCounted'
  BY <1>0 DEF IInv, AttemptsCounted, Job
<1>5. BegunOnce'
  BY <1>0, <1>1, <1>2, BegunGrows DEF IInv
<1>6. AttemptsKept'
  BY <1>0, <1>1 DEF IInv, AttemptsKept, files
<1> QED
  BY <1>1, <1>2, <1>3, <1>4, <1>5, <1>6 DEF IInv

\* Lapse keeps the invariant.
LEMMA LapseKeeps == ASSUME IInv, NEW j \in Jobs, Lapse(j) PROVE IInv'
<1> USE ExportJobsAssumption
<1>0. /\ job[j].status = "EN_COURS" /\ job' = [job EXCEPT ![j].lapsed = TRUE]
      /\ UNCHANGED <<files, runner, runs>> /\ job \in [Jobs -> Job]
      /\ hitches \in 0..MaxHitches /\ hitches' \in 0..MaxHitches
      /\ hitches <= hitches'
      /\ ~Left(j) => hitches' = hitches + 1
  BY DEF Lapse, Hitch, Left, IInv, TypeOK
<1>1. /\ \A i \in Jobs \ {j} : job'[i] = job[i]
      /\ job'[j].status = job[j].status /\ job'[j].lockedBy = job[j].lockedBy
      /\ job'[j].result = job[j].result
      /\ \A i \in Jobs : job'[i].attempts = job[i].attempts /\ job[i].attempts \in Nat
      /\ job' \in [Jobs -> Job]
  <2>1. job'[j] \in Job /\ \A i \in Jobs \ {j} : job'[i] = job[i]
    BY <1>0 DEF Job
  <2>2. job' \in [Jobs -> Job]
    BY <1>0, <2>1
  <2> QED
    BY <1>0, <2>1, <2>2 DEF Job
<1>2. UploadsKept' /\ RecordedKept' /\ FilesOK'
  BY <1>0, <1>1, RecordedApart
<1>3. TypeOK'
  BY <1>0, <1>1, <1>2 DEF IInv, TypeOK
<1>4. RunnersOK'
  BY <1>0, <1>1 DEF IInv, RunnersOK
<1>5. LocksOK'
  BY <1>0, <1>1 DEF IInv, LocksOK
<1>6. AttemptsCounted'
  BY <1>0, <1>1 DEF IInv, AttemptsCounted, Left
<1>7. BegunOnce'
  BY <1>0, <1>1 DEF IInv, BegunOnce, Begun
<1>8. AttemptsKept'
  BY <1>0, <1>1 DEF IInv, AttemptsKept, files
<1> QED
  BY <1>2, <1>3, <1>4, <1>6, <1>7, <1>8, <1>5 DEF IInv

----------------------------------------------------------------------------
(* The theorems *)

\* Every step keeps the invariant.
LEMMA NextIInv == ASSUME IInv, [Next]_vars PROVE IInv'
<1>1. CASE FilesNext /\ UNCHANGED <<job, runner, runs, hitches>>
  BY <1>1, UploadStepKeeps, AttachKeeps, AgeKeeps, PurgeStepKeeps DEF FilesNext
<1>2. ASSUME NEW j \in Jobs, Enqueue(j) \/ Lapse(j) \/ \E w \in Workers : Claim(w, j)
      PROVE  IInv'
  BY <1>2, EnqueueKeeps, LapseKeeps, ClaimKeeps
<1>3. ASSUME NEW w \in Workers, Step(w) \/ Stops(w)
      PROVE  IInv'
  BY <1>3, RefuseKeeps, GenerateKeeps, RecordExportKeeps, RecordExportFailsKeeps, CleanUpKeeps,
     GenerateFailsKeeps, SucceedKeeps, SucceedFailsKeeps, FailKeeps, StopsKeeps DEF Step
<1>4. CASE UNCHANGED vars
  <2>1. UNCHANGED files /\ UNCHANGED <<job, runner, runs, hitches>>
    BY <1>4 DEF vars
  <2>2. FilesOK' /\ UploadsKept' /\ RecordedKept'
    BY <2>1 DEF IInv, TypeOK, FilesOK, UploadsKept, RecordedKept, Live, files
  <2>3. AttemptsKept'
    BY <2>1 DEF IInv, AttemptsKept, files
  <2> QED
    BY <2>1, <2>2, <2>3, JobsApart DEF IInv
<1> QED
  BY <1>1, <1>2, <1>3, <1>4 DEF Next

\* The invariant holds in every reachable state.
LEMMA Invariance == Spec => []IInv
  BY InitIInv, NextIInv, PTL DEF Spec

\* The types hold, so no job is run more often than its attempts allow,
\* however many workers stop or lose their locks.
THEOREM AttemptsBounded == Spec => []TypeOK
<1>1. IInv => TypeOK
  BY DEF IInv
<1> QED
  BY <1>1, Invariance, PTL

\* A finished job has its file until it expires, and what is attached is kept.
THEOREM PromisesKept == Spec => []NothingPromisedIsLost
<1>1. IInv => NothingPromisedIsLost
  <2> SUFFICES ASSUME IInv PROVE NothingPromisedIsLost
    OBVIOUS
  <2>1. AttachedFilesKept
    BY AttachmentsAssumption DEF AttachedFilesKept, IInv, UploadsKept, Live, TypeOK, FilesOK, Row
  <2>2. ASSUME NEW j \in Jobs, job[j].status = "TERMINE", job[j].result \notin aged
        PROVE  /\ Live(job[j].result) /\ row[job[j].result].owner = j
               /\ job[j].result \in storage
    <3>1. PICK a \in 1..MaxAttempts : job[j].result = <<j, a>> /\ row[<<j, a>>].kind = "EXPORT"
      BY <2>2 DEF IInv, AttemptsKept
    <3> QED
      BY <2>2, <3>1 DEF IInv, RecordedKept, Live
  <2> QED
    BY <2>1, <2>2 DEF NothingPromisedIsLost
<1> QED
  BY <1>1, Invariance, PTL

\* Nothing touches a job that has ended: the late answer of a worker that
\* lost its lock finds no row.
THEOREM OutcomesFinal == Spec => OutcomeStays
<1>1. ASSUME IInv, [Next]_vars, NEW j \in Jobs, job[j].status \in Final
      PROVE  job'[j] = job[j]
  <2>1. job[j].lockedBy = None /\ job \in [Jobs -> Job] /\ None \notin Workers
    BY <1>1, ExportJobsAssumption DEF IInv, LocksOK, TypeOK, Job, Final
  <2>2. ASSUME NEW w \in Workers, NEW status, NEW result, Outcome(w, status, result),
               runner[w].stage # "LIBRE"
        PROVE  job'[j] = job[j]
    BY <1>1, <2>1, <2>2, AtWork DEF Outcome
  <2>3. ASSUME NEW w \in Workers, Step(w) PROVE job'[j] = job[j]
    BY <1>1, <2>2, <2>3
    DEF Step, Refuse, Generate, RecordExport, RecordExportFails, CleanUp, GenerateFails,
        Succeed, SucceedFails, Fail
  <2>4. ASSUME NEW i \in Jobs, Enqueue(i) \/ Lapse(i) \/ \E w \in Workers : Claim(w, i)
        PROVE  job'[j] = job[j]
    BY <1>1, <2>1, <2>4 DEF Enqueue, Lapse, Claim, Claimable, Final
  <2> QED
    BY <1>1, <2>3, <2>4 DEF Next, Stops, vars
<1>2. IInv /\ [Next]_vars =>
        [\A j \in Jobs : job[j].status \in Final => job'[j] = job[j]]_vars
  BY <1>1
<1> QED
  BY <1>2, Invariance, PTL DEF Spec, OutcomeStays
=============================================================================
