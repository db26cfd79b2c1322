# Formal models of Parcavo

Parcavo manages the vehicles of a group of companies: who has which vehicle and
until when, what it has driven, what it costs, when it must be serviced. A NestJS
API (`apps/api`) runs every operation against PostgreSQL through Prisma; a worker
(`apps/worker`) runs the scheduled tasks, the e-mail outbox and the job queue; a web
client (`apps/web`) shows the rest. Several API processes and several workers may
run at once, and the database is all they share.

This directory holds TLA+ models of the parts where order, concurrency, failure and
time matter, the TLC configurations that check them on small instances, and the
TLAPS proofs of the properties that matter most. Paths below are relative to the
repository; `usages.service.ts` and the like are under `apps/api/src/modules/`.

## 1. Inventory

| Component | State | Operations | Interacts with | Must be correct |
|---|---|---|---|---|
| Usages | `VehicleUsage` rows | `checkout`, `return`, `extend`, regularisation of the return reading, late returns | locks vehicle and driver; converts reservations; reads immobilizations; ingests readings; alerts after commit | no double possession, even entered afterwards; announced period clear of other people's reservations |
| Reservations | `Reservation` rows | `create`, `update`, `cancel`, `markNoShow`, `expireUnconverted` | same parties; two exclusion constraints | disjoint slots, fit parties, conversion by the right departure |
| Vehicles | `lifecycleStatus`, `companyId` | `changeLifecycle`, `transfer` | refused while anything is open | nothing promised on a vehicle that has left |
| Drivers | `status` | `deactivate`, `reactivate` | cancels reservations to come, closes assignments | nothing promised to an inactive driver |
| Immobilizations | `Immobilization`, its causes | `create`, `addCause`, `endCause`, `end`, `update`; from interventions and incidents | lock of the vehicle; alerts on conflicts | no departure on an immobilized vehicle; periods and causes agree |
| Transactions | row locks, versions, snapshots | `serializable`, `lockedReadCommitted`, `withRetries` | all of the above | equivalent to a serial order; no lock cycle |
| Idempotency | `IdempotencyRecord` | `run`, `purgeExpired` | wraps departures, returns, completions, imports ... | one execution per key, faithful replay |
| Outbox | `NotificationOutbox` | `recoverExpiredLocks`, `claim`, `deliver` | SMTP provider, `authorizeDelivery`, lease of the task | one sender while its lock lasts, exact final status, every row settles |
| Scheduler | `JobLease`, `Job` rows of slots | `acquire`, `runOnce`, `stop` | all worker tasks | one runner, a slot once, interrupted runs taken again |
| Job queue | `Job` rows of exports | `claimNext`, `runOne`, `finishFailure` | report exports | attempts bounded, a lost lock never overwrites |
| Odometer | readings, segments | `ingest`, corrections, rejection | usages, fuel, maintenance, telemetry | increasing chain; dependent distances follow |
| Interventions, incidents | their rows | start, complete, cancel, reopen | immobilization causes, plans, expenses | what one step opens, the reverse step closes |
| Maintenance plans | due dates and kilometres | recomputation, refresh | readings, interventions, alerts | due computed from the latest facts |
| Alerts | `Alert`, recipient states | `raise`, `resolve`, `sync` | everything, after commit; outbox | one active alert per occurrence; no lost resolution |
| Attachments | files and rows | upload, `attach`, `discard`, `purgeAbandoned` | storage | an attached file keeps its content |
| Fuel, expenses | entries and their corrections | create, correct, cancel | readings, attachments | a chain of corrections has one active end |
| Telemetry | pairs, cursors, deliveries | sync, webhooks, leases | odometer | a measure counts once |
| Imports | batches | check, commit | every row type | a batch is imported once, whole |
| Documents, assignments, suppliers, settings, audit, organizations, users, access control, auth, reports, dashboard, health | plain records, read-only views | | | |

What is hard: transactions of two isolation levels that rely on each other's row
locks and versions (`docs/DECISIONS.md`, D-016); operations entered after the fact;
checks made outside the transaction that uses them; actions after the commit that
may fail; locks and leases with an expiry; processes that stop, or stand still,
between two statements; a mail provider whose answer is lost. `PROJECT.json` lists
these hazards one by one, with the line where each bites and the properties that
would catch it.

## 2. Modules

    Occupation  <- OccupationProofs          one action per committed operation
    Commitments                              the same promises without time (abstract)
        ^
        | EXTENDS, and implements AtomicSpec
    OccupationTx <- OccupationTxProofs       locks, snapshots, commits and aborts

    Odometer                                 the readings and counters of a vehicle
        ^
        | EXTENDS (composition)
    UsageDistance <- UsageDistanceProofs     departures and returns with their readings

    Downtime                                 what immobilizations promise (abstract)
        ^
        | INSTANCE WITH, implements it
    Upkeep <- UpkeepProofs                   immobilizations, interventions, incidents

    Attachments                              files: rows, contents, purges
        ^
        | EXTENDS (composition)
    ExportJobs <- ExportJobsProofs           the job queue and the export handler

    Outbox <- OutboxProofs                   rows, workers, provider
    Scheduler <- SchedulerProofs             lease, slots, workers
    Idempotency <- IdempotencyProofs         one key and its requests
    MC*.tla, *.cfg                           instances for TLC

### Occupation

State: the clock, the life cycle and company of each vehicle, the status of each
driver, the usage and reservation rows, the active immobilization of each vehicle,
and the immobilization requests that have read their vehicle and not yet locked it.
Each action is one committed transaction: `Checkout` (`UsagesService.checkout` with
`DepartureChecksService.check`, `conflictingReservations`, `reservationToConvert`),
`Return`, `Extend`, `Reserve`, `Amend`, `Cancel`, `NoShow`, `Expire`,
`ChangeLifecycle`, `Transfer`, `Deactivate` (with the reservations it cancels),
`Reactivate`, `OpenCause`, `UpdateImmobilization`, `EndImmobilization`.
`ImmobilizationsService.create` checks the life cycle before its transaction and is
two actions, `RequestImmobilization` and `OpenCause`. Departures and returns are
dated at any instant up to now plus the tolerance, as the code accepts them.
Abstracted: everything that can only refuse a request (permissions, permits,
documents, readings, open interventions and incidents, stale versions of the form),
and what no other operation reads.

### Commitments and OccupationTx

`Commitments` reduces a slot to a point: each operation is `Allowed` by the state and
has an `Effect` on it, in one step (`AtomicSpec`). `OccupationTx` runs the same
operations as the code does: locks in the order vehicle, driver, reservation
(`LockOrder`), READ COMMITTED for departures and returns, with a new version of the
rows they lock (`Versioned`: `lockVehicleForWrite`, `lockDriverForWrite`),
SERIALIZABLE on the snapshot of the first statement for the others, and single
conditional writes (cancellation, reactivation). PostgreSQL is external: `FOR UPDATE`
waits and then fails on a newer version; the commit of a serializable transaction
fails when it would close a dangerous structure of read-write dependencies
(`Rivalry`, the pivot rule with its commit-order refinement). Any transaction may
abort at any point; `withRetries` then begins it anew, so retries are new requests.
Transactions that would only read an immobilization are not refused by
`AtomicSpec`: whether a reservation may be decided just before an immobilization it
does not see is settled by the order of their commits, which is serializable, and
the alert for it comes from the catch-up (`evaluateActive`). Departures, which read
under their locks, must see it: `DeparturesAvailable`. Amendments, which lock the former
and the new parties sorted by identifier (`lockParties`), and extensions, which also lock
their usage, are in `Occupation` only.

### Outbox

A row has its status, attempts, remaining wait, holder and remaining lock. A worker
goes through the steps of `deliver`: read, authorize, count the attempt and extend the
lock, send, conclude; each is a separate action, since another worker may recover or
claim in between. A process may stop (its rows belong to an identity that no longer
exists, `heartbeat.service.ts`) or the execution may end in an error (they are still
its own). The provider may take a message and its answer be lost. A send lasts any number
of ticks: the timeouts of the transport (`smtp-transport.ts:20`) bound the connection, the
greeting and each silence of the server, and the last starts again at every exchange, so
that nothing bounds the whole under the two minutes of the lock. `elapsed` counts the ticks
since the lock was extended for the send, up to `Overdue`, when that lock has expired;
`accepted` (history) has what the provider took, and `doubtful` those of which an answer or its
recording was lost or was still awaited when the duration of the lock had passed.
`Revoke` makes a delivery unauthorized at any time. The lease of the task is deliberately left out:
claims are safe without it. `MAX_ROUNDS` only postpones rows to the next minute.

### Scheduler

One task, with the lease of `JobLeaseService.acquire`, the wake-up and renewal of
`WorkerScheduler.execute`, and the look-up, takeover and creation of
`ScheduledRunsService.runOnce`, each a step of its own. A process may die or an error of the
database end its execution, the lease being then still its own (`Interrupt`); it may stop
cleanly (`Stop`); its renewals may fail, which `WorkerScheduler.execute` only logs
(`RenewalFails`); and it may be held up (`Suspend`): suspended with its timers (a paused
container, a blocked event loop), or waiting for a statement while its timers still renew.
`stalled` remembers (history) that a run was held up or failed to renew. Otherwise a
call to the database takes less than a tick. A call that lasts is not cut into the reading of
the clock and the statement: it takes effect when it reads the clock and answers late, or it starts
late. What the conditions of the lease and of the rows let pass is the same.

### Idempotency

One key, its record and the requests that present it. Insertion, reading of the
existing record, work, recording and release are separate statements and any of them
may fail; the work may be committed and still fail (an error after its commit).
History variables remember who has committed (`done`) and whose record was then lost
(`forgotten`). A record expires only once its request is over: it lives 24 hours.

### Odometer and UsageDistance

`Odometer` has the rows `OdometerReading` and `OdometerSegment` of one vehicle. Every
operation of `OdometerIngestionService` and `OdometerService` runs under the lock of
the vehicle and is one action: `Entered` (staff and drivers), `Sampled` (connectors),
`Approve`, `Reject`, `Correct`, `Initialised`, `Replaced`. `Evaluate` is the rule of
`evaluateReading` on the neighbours that the queries find; `Ingest` is the single entry
of a reading and yields the set of its results, empty when the reading is refused.
Instants are grouped in minutes (`PerMinute`), since manual readings are compared by
the minute. A reading of the staff or of a driver may name its counter
(`odometerSegmentId`), one that was replaced included, as `OdometerService.create` lets it;
otherwise it goes to the counter in service at its instant. `UsageDistance` composes it with the usages: `CheckOut` and `Return` ingest
their reading in the transaction that writes the usage, `RegularizeWithNew` and
`RegularizeWithExisting` give a return its reading afterwards, and each decision on a
reading computes the distances of the usages that refer to it again, as
`usage-distance.ts` does.

### Upkeep and Downtime

`Upkeep` has the immobilizations of a vehicle with all their causes, the interventions
with their cost and expense, and the incidents. `OpenCause` and `CloseCauses` are
`openCause` and `closeCauses` of `ImmobilizationsService`, used by requests of the staff
and by `Start`, `Complete`, `Cancel` (interventions) and `Immobilize` (incidents).
Whatever a service checks before its transaction without a version to hold it to is a
step of its own (`Admit...`), and the transaction comes later, on another state:
an incident may be closed in between, which the transaction sees under its shared lock
(`Refused`). Between `resolveKind` and the transaction of `POST /immobilizations` nothing
is looked at again, and the model does the same. `Downtime` is the abstract promise (a
vehicle is down since an instant or it is up; periods are disjoint and final), and
`DowntimeSpec` says that `Upkeep` implements it.

### Attachments and ExportJobs

A file is a row in the database and a content in a store that no transaction covers.
`Attachments` has each access to either as a step: upload in two, removal and the
erasure after its commit, and the two purges of the worker, which list files and then
erase and mark them one by one. `ExportJobs` adds the queue of `JobsService`: a claim
counts an attempt and takes a lock of ten minutes that is never renewed, so that it may
lapse under a worker at work (`Lapse`); the handler writes its content, records its
attachment and only then is the outcome written, if the lock is still its own. Any of
these may fail and a worker may stop after each.

## 3. Runs

| Run | Checks | Bounds |
|---|---|---|
| `occupation` | `PossessionDisjoint`, `AnnouncedPeriodClear`, `CommitmentsFit`, `ConversionsFaithful` | 2 vehicles, 2 drivers, 2 companies, 2 usages, 1 reservation, clock 0..2, all four tolerances 1 |
| `occupation_exit` | violation of `ExitedVehicleNotImmobilized` | 1 vehicle, 1 driver |
| `occupation_tx` | `PromisesHonoured`, `NoDeadlock`, `AtomicSpec`, `DeparturesAvailable` | 2 vehicles, 1 driver, 2 concurrent transactions of all ten kinds |
| `outbox` | `OneSender`, `DuplicatesExplained`, `FinalStays`, `AttemptsSpent`, `EverythingSettles` | 2 messages, 2 workers, batches of 2, 2 attempts, locks of 1 tick, 2 hitches, sends of any length |
| `scheduler` | `OneRunner`, `ReplayedOnlyAfterStall`, `TakeoverJustified`, `InterruptedRunSettles` | 2 workers, clock 0..8, slots of 5 ticks, lease and stale time of 2, 2 stops, 1 delay or worker whose renewals fail |
| `scheduler_catch_up` | violation of `InterruptedRunSettles` | slots of 3 ticks, stale time of 3, 1 stop, no delay, no renewal that fails |
| `scheduler_suspended` | violation of `SlotOnce` | 1 delay or worker whose renewals fail, no stop |
| `idempotency` | `WorksUnderItsRecord`, `AnswersFaithful`, `NoSilentDuplicate`, `KeySettles` | 4 requests, 2 bodies, 2 failures |
| `usage_distance` | `DistanceFollowsReadings`, `CumulativeNeverDecreases`, `ValidationStands`, `BaseStands` | 1 usage, instants 0..3 in two minutes, kilometres 0..1, 3 readings, 2 counters |
| `upkeep` | `PeriodsSummariseCauses`, `CostsInTheBooks`, `ClosedTakesNoIntervention`, `DowntimeSpec` | 1 intervention, 1 incident, other causes, 3 causes, instants 0..1, 1 admitted request |
| `export_jobs` | `NothingPromisedIsLost`, `OutcomeStays`, `EveryJobEnds`, and in `TypeOK` the bound on executions | 1 job, 2 workers, 1 uploaded file, 2 attempts, 2 hitches |
| `attachments_purge` | violation of `OnlyTemporaryPurged` | 2 files, 2 owners |

Every passing run also checks the type invariant of its module. The largest,
`occupation_tx`, has 2.6 million distinct states and takes two to three minutes;
`usage_distance` has 1.9 million, `outbox` 1.6 million, `upkeep` 1.4 million.

Why the bounds are enough. Two usages and a reservation are what each property of
Occupation relates; three instants give a past, a present and a future, and
tolerances of one instant make every boundary a reachable case. The two companies
differ only as origin and target of a transfer, so all drivers belong to one and are
interchangeable. A second reservation, and the choice among several to convert, are
covered by the proofs, which bound nothing. Two transactions suffice for a lock cycle
of two rows and for write skew; a third is needed only for the longest dangerous
structures, whose middle member the pivot rule treats alike. Two workers are the
takeover; two attempts are a retry and a last one; a hitch is an interruption, or a
tick that passes while a worker is between two statements, and two of them allow a
stop and a delay, or a second stop of whoever recovered. The ticks of a send are not
counted: with a lock of one, two of them are a send that outlives it. In Scheduler one stop per slot
and one delay, or one worker cut off from the lease, reach every way to take a run over; the clock
covers the first slot and most of the second. In Idempotency four requests
are an execution, a concurrent one, a retry and one with another body. In
UsageDistance three readings are a departure, a return and what comes between or
replaces one of them; two counters are a replacement, before, during or after the
usage; two values of the kilometrage and no allowance make every comparison of the rule
come out both ways, an implausible rise included; two minutes of two instants put
readings in one minute, in either order, and in different ones; a reading named for the
replaced counter may be dated before or after its end. A second usage would only add guards
that no property reads. In Upkeep three causes on two instants give two immobilizations
that may touch, and one whose causes are closed in the order opposite to their opening;
one admitted request is what an incident may overtake. The view of `MCUpkeep` forgets in
which order causes were created, which nothing depends on. In ExportJobs one job and
two workers are a lock that lapses under its holder, a second attempt beside the first,
and a late answer; a second job would share nothing with the first, since keys and
locks are per job. Symmetry is
used in the Occupation and OccupationTx runs: their configurations check no liveness
and treat vehicles, drivers, usages and requests alike.

Deadlock is not checked where the model really stops: in Scheduler the clock ends at its
horizon, in Idempotency each request is sent once, in UsageDistance and Upkeep readings
and causes are bounded, in ExportJobs and Attachments every file is used once.

Fairness. In Outbox, time passes and each worker takes its next step: the task is
woken every minute by a timer and a stopped worker is restarted by its supervisor
(`docker-compose.prod.yml`); a send ends some time, since a server that goes silent
is given up and one that goes on answering has only so much to answer. Interruptions are not fair; they are bounded by
`MaxHitches`. In Scheduler, processes run, those held up go on, and the renewal
timer of a running task fires again and again (strong fairness, since a lease held
elsewhere disables it for a while), except those of a worker that was held up or failed to
renew. In Idempotency, a request that is served goes on
unless it crashes, and the daily purge runs. In ExportJobs the queue is polled every five
seconds (`job-queue.job.ts`), a worker goes on with what it does, and locks lapse;
nothing is fair about purges, uploads and removals. The other modules claim only safety
and assume nothing.

## 4. Findings

1. `occupation_exit`: `ImmobilizationsService.create` refuses an exited vehicle before
   its transaction (`immobilizations.service.ts:117`) and `openCause` does not look
   again once it holds the lock: a cession or archival committed in between leaves an
   exited vehicle with an active immobilization.
2. `scheduler_catch_up`: `AlertCatchUpJob` passes a stale time equal to its slot
   (`alert-catch-up.job.ts:62`). The lock of an interrupted run then expires when its
   slot is over, and its key is never looked up again: the row stays `EN_COURS`, is
   neither marked `ABANDONNE` nor purged. The next slot repeats the same idempotent
   catch-up, so the alerts themselves are not lost.
3. `scheduler_suspended`: between the look-up of a slot and the creation of its row,
   the lease is not checked and the unique index covers unfinished rows only. A worker
   held up there past its lease repeats a slot that another has treated. As long as nobody
   is held up and no renewal fails this cannot happen (`ReplayedOnlyAfterStall`).
4. `attachments_purge`: `purgeAbandoned` lists the free temporary files, then removes the
   content of each and marks its row without looking at its owner again
   (`attachments.service.ts:257`). A file older than a day, listed and then attached,
   loses its content under the business object that refers to it. A file attached within
   its day is never listed, and keeps its content (`NothingPromisedIsLost`).

Also met, and modelled as they are without a run of their own: `POST /immobilizations`
does not look at the status of the incident it names (`resolveKind`), whereas
`incidents.service.ts:63` says that a closed incident accepts no immobilization; and it
looks at that of an intervention before its transaction only, so that a cause may be
opened for one concluded meanwhile. Either way the periods and causes agree, and such a
cause is closed by hand.

The comment of the SMTP adapter says that a failure « ne bloque jamais la ligne au-delà de son
verrou (2 min) » (`smtp-transport.ts:19`). Its timeouts do not ensure it: a server that answers each
exchange just within 30 seconds keeps a send going past the lock, and another worker may
then recover the row and send it too. `OneSender` and `DuplicatesExplained` say exactly when.
Likewise « un seul worker actif par tâche » (`job-lease.service.ts:14`) holds only while the holder
renews: a run that has lost its lease is told so by a line of the log, and goes on (`OneRunner`).

A reading named for a replaced counter may be dated after the end of that counter: neither
`findSegment` (`odometer-ingestion.service.ts:352`) nor `evaluateReading` compares its instant with
the end, only its value with the base of the next one. It is accepted, although the counter in
service may have been read before it with a higher cumulative value. So accepted values follow the
instants on each counter, and the counters follow each other (`CumulativeNeverDecreases`), but over
all readings by instant the cumulative value may decrease, whereas `docs/DECISIONS.md:114` says
« le cumul du véhicule reste croissant et recalculable ». Such a reading is not among those that
fixed the base of the next counter, and `correct` does not protect it; `BaseStands` speaks of
the readings up to the end.

A return entered within the minute of its departure may be answered by a sample of a
connector taken earlier in that minute, with the value of the return: manual readings are
the same when their minute is (`odometer-rules.ts:138`). The return then has a reading
older and lower than that of the departure, and its distance stays `NON_VALIDEE` although
both are accepted; no distance is wrong. `Follows`, in `UsageDistance`, therefore asks
that the reading of the return was observed after that of the departure. Among the
readings accepted by the rule this changes nothing else: on one counter accepted
readings never share an instant.

`docs/DECISIONS.md` documents that a failure between the commit of an operation and
the recording of its response frees the idempotency key; in the model these are the
executions in `forgotten`. After a stop of the process the key is not freed but stays
`EN_COURS`, and refuses retries, until the purge: `KeySettles` counts on the purge for
that.

## 5. Proofs

For every value of the constants that satisfies the named assumptions of the modules
(`OccupationAssumption`, `OccupationTxAssumption`, `OutboxAssumption`,
`SchedulerAssumption`, `IdempotencyAssumption`, `UpkeepAssumption`,
`AttachmentsAssumption`, `ExportJobsAssumption`, `OdometerAssumption`; Commitments needs
none), every invariant, every action property and both refinements of the passing runs
are proved; what is left to the model checker is liveness. The bounds that the models put on retries, stops and
hitches are constants too: the proofs hold whatever they are.

- `OccupationProofs`: the five invariants of the `occupation` run.
  Each is inductive with the types. Possession: a new usage begins after every return
  of its parties and nothing of theirs is open, a return only shortens, and an
  extension changes no possession. Announced period: each operation that lengthens
  one side checks the other, with now as the least end of an occupation
  (`OccupancyCovers`, `LongerSlotOverlaps`); one that shortens a slot or closes a row
  cannot make two of them meet. Commitments: what takes a party away
  (`ChangeLifecycle`, `Transfer`, `Deactivate`) finds nothing open on it or cancels
  it, and time only lets reservations end. Conversions: a converted reservation never
  changes again and neither does the departure of a usage.
- `OccupationTxProofs`, in three parts. First `PromisesSafe`: the atomic specification
  honours its promises. Then the locks (`TxInv`), with `TypesHold`, `DeadlockFree` and
  `DeparturesSafe`: a request that still locks holds only rows its operation names,
  taken in order (`LocksInOrder`), and an idle one none (`IdleHoldsNothing`); so whoever
  waits waits for a holder that can only want a later row, and a circle would descend
  for ever (`NoCircle`); a decided departure keeps the lock of the vehicle it found
  available (`DecidedUnderLock`), and an immobilization needs that lock. Last,
  `Serialized`, that the transactions implement `AtomicSpec`, and with it `PromisesKept`,
  that no interleaving breaks a promise. The mapping is the identity; what must be
  shown is that an operation decided on a snapshot is allowed in the state it commits
  on. Three mechanisms of D-016 see to it, and `ViewInv` has a part for each: what was read
  with a locked row is current while the row has no newer version (`VehicleFresh`,
  `DriverFresh`, `HeldFresh`: departures and returns give the rows they lock a new one);
  what was read of other tables is current unless a rival has committed a change of it
  (`TablesFresh`), and the commit is then refused; and a departure or a return, which reads
  under its locks, decides on the present (`DecisionStands`). `CommitAllowed` puts the
  three together for each kind of operation, `CommitBeside` shows that a commit leaves the
  other requests' reading so marked, and `CommitPerforms` that the commit has the
  effect of the operation.
- `OutboxProofs`: `TypesHold`, `SendersExclusive`, `AttemptsRespected`,
  `DuplicatesAccounted`, `SettledForGood`. The invariant adds a clock argument (`SenderOK`):
  from the start of a send to its conclusion, either the duration of a lock has passed
  and the message is doubtful, or the row is the sender's and the lock left on it and the
  ticks elapsed make at least that duration; so of two senders one is overdue, or
  both would hold the row. What the provider took is settled, about to be, or doubtful (`Explained`).
  No assumption bounds a send.
- `SchedulerProofs`: `TypesHold`, `RunnersExclusive`, `ReplayNeedsStall`,
  `TakeoversJustified`. A worker that runs, was not held up and has not failed to renew holds
  the unexpired lease (`Holds`), since it renews or leaves before time passes it. As long as nobody
  was held up and no renewal failed, only the latest row of a slot is other than abandoned, and each step
  of a run knows what it read of them (`Undisturbed`, `Known`): without the history
  `stalls` this would not be inductive, and `scheduler_suspended` shows it is false.
- `IdempotencyProofs`: `TypesHold`, `WorkProtected`, `AnswersSafe`, `DuplicatesExplained`,
  from one strengthened invariant `IInv`. By itself `NoSilentDuplicate` is not inductive:
  one must know that whoever works owns the record, that an execution which has
  committed and was not forgotten still has its record, and that a kept response is
  that of a committed execution.
- `UpkeepProofs`: `TypesHold`, `PeriodsHold`, `CostsHold`, `ClosedStaysAlone` and the
  refinement `ImplementsDowntime`. The rows and causes change in two operations only;
  each is shown once to keep `OutageOK` (types, the constraint `Permitted`, the agreement
  of periods) and to be a step of `Downtime` or a stutter, and every request is one of
  them or touches neither. The books need `CostsOnCompletion`: an intervention not
  completed has no cost entered, so that a completion never enters a second one.
- `ExportJobsProofs`: `AttemptsBounded`, `PromisesKept`, `OutcomesFinal`. The attempts of
  a job number its executions, so that two of them never share a key nor clean up each
  other's content; a job over its attempts has spent a hitch for each (`AttemptsCounted`);
  and the purges have only aged files on their lists, which nothing promises.

- `UsageDistanceProofs`: `TypesHold`, `CumulativeSafe`, `DistanceSafe`, `ValidationStays`,
  `BaseStays`. That cumulative values never decrease is not inductive: it relates readings of
  counters that may be far apart, and says nothing of those that only wait. The
  invariant (`Sound`, `Based`) is local: on one counter the accepted values follow
  their instants, all different (`InOrder`); they are at most the base of the next one
  (`BelowNextBase`) and at least the start of their own, unless it is the first
  (`AboveStart`); a counter ends when the next starts (`Contiguous`); every counter but the
  first has an accepted reading (`Based`), and every row is on the scale of its counter
  (`OnScale`). Nothing says that a reading was observed before the end of its counter, and nothing
  needs it. `Evaluated` shows that a value the rule accepts fits so, although it only looks at
  the two nearest neighbours; `Place` that a reading that fits keeps the rest; `Monotone` deduces
  the order across counters by a least counter where it would fail. `BaseStays` rests on
  `BelowNextBase` from above and on `FixesFollowingBase` from below (`LastValidatedStays`);
  `ValidationStays` on the corrections, which may not move the instant of a reading that an
  event uses.

Only model-checked: liveness (`EverythingSettles`, `InterruptedRunSettles`, `KeySettles`,
`EveryJobEnds`), out of the prover's reach; and,
necessarily, the violation runs.

## 6. State of the plan

Done: Occupation, Commitments, OccupationTx, Outbox, Scheduler, Idempotency, ExportJobs
with Attachments, Upkeep with Downtime, Odometer with UsageDistance, and the proofs above,
which cover every safety property of these modules.

What would come next, in order of worth: the leases and the cursor of the telemetry
synchronisation and its webhooks; the alerts raised and resolved by concurrent actions
after their commits; the confirmation of imports.

## 7. Not modelled

- Telemetry (providers, synchronisation, webhooks, units): the largest part of the code,
  with protocols of several external providers; what it inserts in the odometer is
  `Sampled`. Its two hazards are listed without a property.
- Alerts: raised and resolved after the commits, by callers that may meet; the catch-up,
  whose schedule is in `Scheduler`, evaluates every condition again.
- Maintenance plans, documents and conformity: a due date or a status is a pure function
  of dates and kilometres, which the unit tests of the repository cover.
- Imports: one serializable transaction per batch; the rest is parsing.
- Fuel: its readings enter as in `Odometer` and its expenses as in `Upkeep`; consumption
  is arithmetic. Expenses entered by hand and their corrections are left out too.
- Assignments: their periods are kept apart by an exclusion constraint.
- Authentication, access control, users, organizations: they can only refuse the requests
  modelled here. Suppliers, settings, audit, health: plain records.
- Reports and the dashboard (read-only views), the web interface, the command-line tools,
  contracts and configuration, deployment and end-to-end tests.

What is left out of the parts that are modelled (places, comments, tasks and lines of
interventions, permits, the display copies of kilometres, delays of retries of jobs) is
named at the head of each module. `Upkeep` runs each transaction in one step, so that the
causes `endCausesForSource` reads before it locks the vehicle (`immobilizations.service.ts:301`)
are those it closes: that PostgreSQL refuses one of two such transactions is relied on,
not checked. `PROJECT.json` gives the status of every component and
the reason for it.
