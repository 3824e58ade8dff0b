# A formal model of the Vehicle Information System

TLA+ modules, TLC runs and TLAPS proofs about the NestJS backend in
`src/nest-server` (17 services and their libraries). Paths below are relative to
that directory. The three web clients are project templates and are not modelled.

## 1. Inventory

The services are separate Node processes behind a gateway; the Kubernetes
manifest runs three replicas of the backend image (`k8s/deployments.yaml:9`). Each keeps its state in
PostgreSQL (through Prisma), MongoDB and Redis; they talk to each other by Kafka
events and to the vehicles by MQTT. A handler is an `async` function: between two
`await`s nothing else runs in its process, at every `await` everything may. Few
handlers use a transaction, and all write rows by id, with no condition on what
the row holds by then. That is where the hard behaviour is:

- **interleaving**: requests, MQTT messages, Kafka messages and replicas on one row;
- **stale reads**: a decision is taken on a row read before another `await`;
- **partial failure**: PostgreSQL, MongoDB, Redis and Kafka are written one after
  the other, and an exception in between leaves the earlier ones;
- **delivery**: a device repeats an MQTT message it has no PUBACK for, and Kafka
  delivers at least once. MQTT handlers are not awaited, so those of one process
  overlap; Kafka messages are handled one by one in a process, but
  `KafkaProducerService.emit` is called without a key, so the messages of one
  vehicle have no common order and reach several replicas at a time;
- **stale caches**: Redis is filled after the row was read and dropped or written
  after the row was written, by calls that overlap;
- **timeouts** that nothing triggers, and retries nobody executes;
- **timestamps** that clients supply and the services compare with their own clock.

| Component | State | Operations | Correct if |
|---|---|---|---|
| remote commands (`apps/remote-command-service`) | `remote_commands` row, `command:pending:<vehicle>` in Redis | create, enqueue, publish, mark sent, acknowledge, cancel, time out | outcomes are true and final, events agree with rows, retries are bounded, what happened is told |
| vehicles (`apps/vehicle-service`) | vehicle row, driver assignments, pairing codes, status and ownership history | register, update, delete, assign or remove driver, transfer, pair, unpair, change status | one driver, legal transitions, histories tell the truth, deleted is for ever |
| trips (`apps/trip-service`) | `trips` row, route points in MongoDB, active trip in Redis | start, update and end by telemetry; start and end by hand | one trip at a time, stores agree, trips end |
| OTA (`apps/ota-service`) | campaigns, deployments, firmware versions | create, deploy, status report, rollback | counters equal the deployments that ended, versions follow completed deployments, calls get through |
| telemetry (`apps/telemetry-service`) | telemetry documents, odometer, latest state in Redis | ingest, bulk ingest, read, delete | the odometer is the highest there has been since it was entered, latest is latest, what is announced is stored |
| diagnostics (`apps/diagnostics-service`) | trouble codes, event log, health in Redis | detect, score, recommend | one ACTIVE code per fault, counts tell how often it occurred, score in range and current |
| location, geofences (`apps/location-service`) | locations, geofences, inside flags in Redis | record, evaluate, manage fences | ENTERED and EXITED alternate while the inside flag lives |
| driver behaviour (`apps/driver-behaviour-service`) | behaviour events, scores, score in Redis | detect, score, read | score tells the events, in range and monotone |
| notifications (`apps/notification-service`) | notifications, preferences, templates | alert, dispatch, read, delete | noted once, delivery reported truly |
| auth, users (`apps/auth-service`, `apps/user-service`) | users' login state and roles, sessions, reset tokens, password history | register, log in, refresh, log out, change and reset password, update, delete | sessions end when they should, a password is one that was set, attempts are counted |
| fleets (`apps/fleet-service`) | fleet row with metadata | create, update, delete, statistics | no update lost, deleted is decommissioned |
| reports, audit (`apps/reporting-service`, `apps/audit-service`) | reports, schedules, data in MongoDB; audit rows and details | create, delete, nightly job; append | reports end, every announcement has its audit row |
| analytics (`apps/analytics-service`) | dashboard in Redis, fleet statistics | read, roll up | aggregates equal their sources, each rollup has every fleet it found |
| admin (`apps/admin-service`) | settings, flags (both cached), API keys, webhooks | read, write, evaluate, dispatch | the cache is not stale, a flag is stable per user |
| libraries (`libs`) | circuit breaker; retry engine, VIN validator, Kafka, MQTT and Redis wrappers | | the breaker opens and closes as documented, delays are bounded, check digits detect |

How they are joined: `vis.telemetry.processed` goes from telemetry to location,
diagnostics, driver behaviour and trips; their findings go to notifications,
analytics and audit on topics of their own. Telemetry, trips and
OTA also write columns of the vehicle row, two of which (`odometer`, `firmwareVersion`)
`updateVehicle` of the vehicle service writes, too; users and auth share the tables of an
account.

## 2. Plan

| Order | Module | Proof module |
|---|---|---|
| 1 | `RemoteCommand`, `CommandLedger` (abstract) | `RemoteCommandProofs` |
| 2 | `VehicleLifecycle` | `VehicleLifecycleProofs` |
| 3 | `TripDetection`, `TripLedger` (abstract) | `TripDetectionProofs` |
| 4 | `OtaRollout` | `OtaRolloutProofs` |
| 5 | `KafkaConsumer` (shared), `TelemetryIngest`, `LocationTracking` with `GeofenceCrossing` (abstract), `Diagnostics`, `DriverBehaviour`, `Notifications`; composed in `Signals` | `LocationProofs`, `SignalsProofs` |
| 6 | `Calls` (shared), `Accounts`, `Fleets`, `AdminSettings`, `Reports`, `AuditTrail`, `Analytics`, `CircuitBreaker`; composed in `Office` | `AccountsProofs`, `OfficeProofs` |
| 7 | `Calculations`: algorithms against reference definitions | polygons in `LocationProofs`, quiet hours in `SignalsProofs`, pages in `OfficeProofs`; the rest is recursive over data |

All of these are written, and all state machines are proved about. What is left: an
abstract ledger for campaigns as there is one for commands and for trips, a composition of notifications
and audit with all their producers, and the parts that section 7 lists.

Every module that is proved about takes its sets as CONSTANTS with a named
assumption and declares no RECURSIVE operator.

## 3. Modules and the code

All models use one scheme. A **worker** is a handler invocation in flight;
`task[w]` holds what it has read and its next awaited call (`at`). One action is one
awaited call together with the code that runs before the next `await`. A
`Start...` action is the first read with all its early returns; a call that is
refused changes nothing and is no action. Writes name the row by its id only, as
the code does. `Abort`, `Reject` or `Fail` is the rejection of the next awaited call or the death of the
process: what was written stays. A definition `X_Suffix` just before `X` is a
mutant, a plausible bug that some property must detect; it is used by nothing.

`Calls` has the workers of a service that is only called. `KafkaConsumer` adds
a topic (`inbox`), what has been delivered of it (`taken`), and what has been delivered a
second time (`again`): every handler catches its errors, so a message that failed is done
with (`libs/kafka/src/kafka.consumer.ts`). kafkajs commits offsets some time after the
handler: `Redeliver` gives any message once more, whether its handler is still at work on
another replica, has failed or has long ended. Several workers are the replicas.

### RemoteCommand (`apps/remote-command-service/src/commands`)

| Model | Code |
|---|---|
| `status`, `retryCount`, `stamps` | columns of `remote_commands`; `stamps` are the timestamp columns that hold a value |
| `pending[v]` | the Redis key `command:pending:<vehicleId>` |
| `request[c]` | how far the one `createCommand` call of `c` has come (`CreateRow`, `CheckPending`, `SetQueued`, `CachePending`, `Publish`, `MarkSent`, `EmitSent`, `EmitCreated`) |
| `task[w]` | an invocation of `handleAck`, `cancelCommand` or `handleTimeout` |
| `published`, `reports` | what the broker has and what vehicles have sent: both stay, so messages may be repeated and reordered |
| `events` | Kafka messages, as a set |

`handleTimeout` is called by nothing in the repository. The constant `Sweeps` says
whether the model calls it: it does in `command_one`, where the question is what the handler
does, and nowhere else, since a command that nobody answers just stays SENT. `CommandLedger` is the abstract
specification: each status rests on a fact that cannot be taken back (published,
reported, retries used up). It deliberately does not promise that a status is final.

### VehicleLifecycle (`apps/vehicle-service/src/vehicles`)

`drivers[v]` counts ACTIVE assignments (which driver it is makes no difference to
any guard); `code[v][c]` is the status of a pairing code, with `LAPSED` for a PENDING
code whose `expiresAt` has passed; `changes[v]` and `moves[v]` are the two history
tables in commit order. A Prisma `$transaction` is one action, except in
`unpairVehicle`: PostgreSQL's READ COMMITTED lets its `updateMany` miss a code that
another transaction activates before it commits, so `SelectPaired` and
`CommitUnpair` are two actions. In the other transactions the row lock of the vehicle
makes the order of the writes the order of the commits. `updateVehicle` writes
columns that no call of this service reads and is left out here; its `odometer` is in
`TelemetryIngest` and its `firmwareVersion` in `OtaRollout`, where they are read. The uniqueness
of VIN and registration number is left to the database, which enforces it. `ServiceSpec` adds `alone`, chosen at the
start: where it is TRUE no two calls are in flight and none fails.

### TripDetection (`apps/trip-service/src/trips`)

One vehicle, since all state is per vehicle. `row` and `samples` are PostgreSQL,
`points` MongoDB, `cached` the Redis key. Distance, speeds and consumption are
folded in together, one message at a time, so the number of samples a store has
folded in stands for all of them. Messages are classified as the code does: moving
with the ignition on, standing, ignition off. The timestamp of a message is
the client's: it may be any time ago or ahead of the clock (`Stamps`). `CacheTrip` stores it as
`lastTimestamp`, which the next standing message has compared with the wall clock.
Times are relative to that clock, which `Tick` advances: `sent[w]` is how long ago the message in hand was stamped,
`age` how long ago `lastTimestamp` is, and `stopped` how long ago, by its stamp, a message
last told of movement, which the code does not keep and only the properties read.

`endTrip` may state a distance (`EndTripDto.distance`), which takes the place of the measured one
(`CloseTrip` with a member of `Distances`, the operation `declare`); `stated` remembers of which trips
the row has such a distance, until a later write replaces it. In `ServiceSpec`, where `alone`
is TRUE, one message is processed at a time, they come in the order of their timestamps
(`InOrder`), however late or early, nothing fails or lapses, and nobody starts or ends
trips by hand.

`TripLedger` is the abstract specification: a trip is opened once and closed for good, its row is
written only with a number of samples for which there is evidence, or, by whoever closes it, with
a distance that is stated; evidence stays, and the topics are told of nothing that is not so. The evidence for a trip (`Covered`) is its route
points, those about to be stored and those whose statement failed. The ledger does not promise that a
trip is closed, or that only one is open.

### OtaRollout (`apps/ota-service/src/ota`)

| Model | Code |
|---|---|
| `released`, `campaign`, `total`, `succeeded`, `failed`, `deployment`, `installed` | the rows of `firmwares`, `ota_campaigns`, `ota_deployments` and `vehicles.firmwareVersion`; `byHand` remembers whose version a client entered last |
| `manifests`, `copies`, `reports`, `events` | what went to vehicles, how many times for a campaign, what vehicles sent, Kafka |
| `Activate`, `CreateDeployment`, `SendManifest`, `EmitStarted` | `deployCampaign` of the service and of the rollout engine, one statement and one turn of each loop at a time |
| `StartReport`, `UpdateRow`, `CountUpdate`, `RecordVersion`, `EmitInstalled`, `EmitOutcome` | `updateDeploymentStatus` |
| `EnterVersion` | `executeRollback`, and `updateVehicle` of the vehicle service, which write any version into the vehicle row |
| `DeleteFirmware` | `deleteFirmware` with the `onDelete: Cascade` of the schema |
| `Reject` | a statement on a row that is gone (Prisma P2025) or a violated foreign key |

`dto.vehicleIds` is a list, and nothing forbids that it names a vehicle twice: so is the `all` of
`StartDeploy` (`Targets`). The vehicle then gets two rows and two manifests, and counts twice.

The vehicle is external. It answers a manifest by the statuses of `Phases` and an
outcome; the manifest carries no deployment id, so how it learns the id it
reports is left open. `reports` keeps all messages, so each may be handled
repeatedly, late or never. A campaign with `scheduledAt` is created as SCHEDULED, which
nothing acts on or tells from DRAFT: the model has DRAFT for both. `updateFirmware`
(which could change the version of a firmware in use) is not modelled.

### The messages of a vehicle: Signals

A message is the time it was measured at. What the services read of it is a
function of the message (`OdoOf`, `FencesAt`, `CodesOf`, `Speeding`): whether a
position is in a polygon, say, is data here and an algorithm in `Calculations`.

| Module | State | Operations |
|---|---|---|
| `TelemetryIngest` | vehicle row, `odometer`, `doc` (MongoDB), `latest` (Redis), `processed` (Kafka) | `ingest`, bulk ingest, `getLatest` which fills the cache, `deleteTelemetry`; the vehicle is registered with an odometer, updated to another one (`UpdateVehicle`) and deleted, Redis keys lapse. `claims` remembers what was entered last and what has been reported since |
| `LocationTracking` | `points`, `cached`, `fence`, `flag` (Redis), `crossings`, and `lapsed`: the flags that have expired since | the consumer: store, cache, read the fences, read and write each flag, tell of a crossing; reading a location; fences created, changed and deleted |
| `Diagnostics` | `dtc`: the occurrence count of each ACTIVE row; `logged`, `told`, `health`, `advised` | the consumer: per rule find, write, log, tell; then score, cache, advise |
| `DriverBehaviour` | `driver`, `recorded`, `detected`, `score`, `cached` | the consumer with its two lookups of the driver; reading a score; reassignment |
| `Notifications` | `note`, `announced` | alerts and calls that create, dispatch with its `catch` block (also when an emit rejects that the broker has taken), read, delete |

`GeofenceCrossing` is what a reader of `vis.geofence.entered` and `.exited` may rely
on: for each fence they alternate, ENTERED first, but for an ENTERED that is told again because
the service has forgotten (`Forget`) that the vehicle is inside. It has to allow that: the
inside flag lives for a day from the entry and is not renewed (`geofences.service.ts:146`), so it
expires under any vehicle that stays longer. `LocationTracking` implements it
where one replica handles the messages (`Crossing == INSTANCE GeofenceCrossing WITH
told <- crossings`) and none fails, with flags that expire at any time but between the
statements that set a flag and tell of it (`Outlive`).

`Signals` joins them: the variable `processed` of the telemetry service is the `inbox` of
its consumers, each of which has offsets of its own (`taken`) and tasks of its own; the
notification service takes `alerts`. A step is a step of one service. `alone` is chosen at the
start. Where it is FALSE, calls overlap and fail, Redis keys lapse, and messages are
repeated and taken in any order. Where it is TRUE, each service handles one thing at a
time (`OneBusy`), in the order of its topic (`InOrder`), by whichever replica; nothing
fails, the driver of the vehicle stays, the vehicle is updated only between two messages, and the
keys that every message renews (latest telemetry, location, health) are renewed in time. Inside
flags, which no message renews, expire in either case; geofences, drivers' cached
scores, reads and deletions come and go as ever.

`MCSignals` gives each behaviour a **scene**: telemetry alone, telemetry with one of its consumers,
or notifications. The consumers share no state, so nothing is lost by
looking at them one at a time.

### The services people call: Office

| Module | State | Operations |
|---|---|---|
| `Accounts` | one `account` row, `histories`, `session` rows, `revokedKeys` (Redis), `token` rows, `mailed` | all calls of the auth service, and create, update and delete of the user service, which work on the same rows |
| `Fleets` | `fleet`, `announced` | create, update (which merges metadata into what it read), delete, statistics in separate counts |
| `AdminSettings` | `settings`, `flag`, both caches, `key`, `webhook` | settings and flags through Redis, the read of the cache and that of the row being two actions; API keys; webhooks. A row is abstracted to how often it has been written |
| `Reports`, `AuditTrail` | `report`, `cachedData`, `schedules`; `logs`, `details` | create, delete, schedule, nightly job; the audit consumer, fed by `vis.report.generated` |
| `Analytics` | `overview` (Redis), `stats`; `found` remembers how many rollups found each fleet | dashboard from separate counts, roll-up of the fleets there are when it starts, fleet by fleet; fleets and vehicles come meanwhile |
| `CircuitBreaker` | `state`, `failureCount` | `execute` with calls that settle in any order |
| `Calculations` | none | VIN check digit, point in polygon, health score, driver score, quiet hours, roll-out hash, retry delay, pages, each with a reference |

`Accounts` has the time only where it is compared: a lock, a token and a
session may lapse at any moment. Password hashes and tokens are model
values. `Office` puts the services side by side; they share no state, but for the reports
that the audit trail takes. `mode` is chosen at the start: `any` (calls overlap and fail),
`sound` (they overlap and none fails) or `alone` (neither, and no vehicle or fleet comes
under a statistics call). Audit events are delivered again under `any`. `administered` says whether `updateUser` is called, which may
lock an account at will.

`MCOffice` gives each behaviour a scene as `MCSignals` does; reports and the audit trail have
one together. A calculation is a behaviour of one state, with the input as its scene.

## 4. Runs

| Run | Instance | Shows |
|---|---|---|
| `command_one` | 1 command with 2 handlers beside `createCommand`, MaxRetries 1, failures, sweeps; or 2 commands of one vehicle with 1 handler and 2 reports. 762k states | `TypeOK`, `OutcomeIsReported`, `AnnouncedIsRecorded`, `AnnouncedIsNotPending`, `RetriesBounded`, `FinalAtRest`, and `ImplementsLedger`: the service implements the ledger |
| `live` | 1 command, 2 handlers; or 1 campaign for 2 vehicles, firmware being deleted; fair, no failures. 44k states | `OutcomeIsTold`: a published command and an outcome stamped on its row are told; `CallsComplete`: deployments and reported outcomes get through to Kafka |
| `command_terminal`, `command_cancelled` | 1 command | violations, see section 6 |
| `vehicle_overlap` | 2 overlapping calls that write the same columns, up to 3 history rows when a call starts, failures; or all calls one at a time. 630k states | `TypeOK`, `HistoryTellsCurrent`, `HistoryIsGrounded`, `AnnouncedIsRecorded`, `PairedHasCode`, `DeletedIsFrozen`; one at a time also `SerialAgrees`: one driver, none once deleted, pairing columns agree, history rows join, transitions follow the map |
| `vehicle_driver` | 2 overlapping calls | violation |
| `trip_overlap` | 2 replicas, 2 trips, manual calls with and without a stated distance, failures; or 1 replica alone, with messages stamped early and late. 1.46M states | `TypeOK`, `CachedIsRecorded`, `AnnouncedIsDone`, `SamplesCovered`, and `ImplementsLedger`: the service implements its ledger; alone also `AloneAgrees`: the stores agree, a trip is timed out only after no message told of movement for that long, messages follow a live trip |
| `trip_idling` | 1 replica, 1 trip | violation |
| `ota_overlap` | 1 campaign for 2 vehicles or twice for one, deletions; or 2 campaigns for 1 vehicle, versions entered by hand; 2 overlapping invocations, failures. 1.58M states | `TypeOK`, `OutcomeIsReported`, `AnnouncedIsCounted`, `AnnouncedIsRecorded` (manifests, OTA_STARTED and FIRMWARE_INSTALLED have their rows) |
| `ota_forward` | 1 vehicle, 2 phases | violation |
| `signals` | up to 4 messages, 2 workers, 2 fences one inside the other, 1 trouble code, 2 drivers, 2 notifications, odometers entered by hand. 600k states | `Types`; `LocationIsStored`; `RecordsAreGrounded`: odometer, counts, scores, notifications tell what was stored; `CrossingsAlternate`: the step of `GeofenceCrossing`, with flags expiring; `OdometerKeepsUp`: messages and updates one at a time leave the highest odometer; `InOrderAgrees`: in order and one at a time caches are current, codes have one row, scores are right, alerts are settled |
| `office` | 2 calls in flight, 2 passwords, roles, sessions, reports, schedules, fleets and flag keys, 1 token, lock after 2 attempts, threshold 2, 2 rollups, fleets being added; the inputs of the calculations. 564k states | `Types`; `PasswordIsRecorded`, `RevocationIsRecorded`, `RevokedStaysOut`: accounts; `RecordsAreGrounded`: what is announced, cached or filed has happened; `CallsAgree`: what holds without failures, and without overlaps; `NothingIsUndone`; `CalculationsAgree` |

`MCRemoteCommand`, `MCVehicleLifecycle` and `MCOtaRollout` add one
variable that is chosen at the start and restricts the steps of the behaviour
(`several`, `group`, `wide`), as the scenes of `MCLiveness`, `MCSignals` and `MCOffice`
do, and `alone` of the modules is chosen at the start, too. Thus one run covers several small instances: it explores the union of
their behaviours instead of the product of their states. The restrictions only
bound what is explored; the expression coverage of TLC shows every action taken.

**Bounds.** Commands only meet at the Redis key of their vehicle, and the key holds
one command, so two commands and one vehicle show every way they disturb each other;
the code treats each row alone. Two handlers beside `createCommand` suffice for a
lost update between any two writers. `MaxRetries = 1` has a retry, a retry
too many and the dead letter; the code's 3 adds repetitions only. The calls of the
vehicle service that write disjoint columns do not affect each other, except for
`deleteVehicle`, which is in every group. `MaxChanges` 3 has histories with a row
between the stale read and its write. `IdleTimeout` of two ticks separates
standing shortly from standing long, and stamps from one tick ahead of the clock to two behind it
(`AllStamps`) give a message on either side of the time-out; in `trip_overlap` the clock stands where the replica is
disturbed (`Bounded`), as a trip that is timed out goes the way of one whose ignition is off. One stated distance
beyond all samples stands for those that no route bears out. Campaigns meet in the version of a vehicle
and in nothing else, and the deployments of a campaign in its counters: hence the two
shapes of `ota_overlap`; two entries of a list are two vehicles or one twice; with `MaxUpdates = 1` two reports in flight still count
twice. In `live` a vehicle says two of the three things it can say of a command, which
has an acknowledgement before an outcome and contradicting outcomes.
Two odometers to enter, one below and one equal to a reported one, make an update that lowers and
one that is overtaken.

In `signals`, two messages that overlap are what a lost update of a count, a flag or
a score needs; a third shows what comes after; four, in order, lead in, out, in and
out of a fence. `Window = 2` (the code scores the last 100 events) is passed by the third. In
`office`, each lost update or stale cache needs two calls; `MaxAttempts = 2` (5 in the
code) has an attempt that counts and one that locks, `Threshold = 2` a failure that
counts and one that opens; two fleets or schedules make a loop with a turn in the
middle of which something happens. The scenes of accounts mix the calls that share
columns (`AccountCalls`). The calculations are run on all triangles and two families of
quadrilaterals of a 3 by 3 grid, all hours, all one-letter changes of two VINs, all sets
of faults, up to 30 driver events, and user ids on which the hash overflows. The theorems of section 5 hold
without any of these bounds.

**Deadlock** is not checked: these systems may really stop. Every call is made by a
client, a cancelled command or a deleted vehicle takes no more calls, and the bounded
sets of commands, trips, messages and deployments are used up.

**Fairness** (in `live`). Awaited calls settle once issued, as
Node's event loop and the drivers' own time limits make them: weak fairness of
`createCommand` after it has begun and of every handler (`RemoteCommand!Fairness`,
`OtaRollout!Fairness`). In the instances that use it no call fails. Nothing is assumed of
vehicles, clients or delivery: a report may never be sent or handled. Nor is anything assumed
of time-outs: nothing in the program calls `handleTimeout`, so there is no promise that a
SENT command ends, and none is checked. In the campaigns of `live`, one
`deployCampaign` runs at a time, because overlapping ones would use up the bounded rows.

**Mutants.** For each property of each passing run `PROJECT.json` names a mutant of
a mapped definition that the run rejects.

## 5. Proofs

Each theorem holds for all values of the constants that satisfy the assumptions
named in the component's module: `CommandsAssumption`, `LifecycleAssumption`,
`TripAssumption`, `RolloutAssumption`, `LocationAssumption`, `AccountsAssumption`,
`SignalsAssumption` and `OfficeAssumption` (those of the modules they compose), and that the
placeholder `None` is none of the values it stands beside (`NoneAssumption`,
`PlaceholderAssumption`). Nothing else is assumed, so the bounds and failure switches of the
runs are parameters of the theorems; where occurrences, documents or retries are counted,
the workers are finitely many.

| Proof module | Proves |
|---|---|
| `RemoteCommandProofs` | types, all safety invariants of `command_one`, `FinalAtRest`, and `Spec => Ledger!Spec` |
| `VehicleLifecycleProofs` | types, `HistoryTellsCurrent`, `HistoryIsGrounded`, `AnnouncedIsRecorded`, `PairedHasCode`, `DeletedIsFrozen`, `SerialAgrees`, and `OneActiveDriver` where there is one worker |
| `TripDetectionProofs` | types, every property of `trip_overlap` with `Spec => Ledger!Spec`, and `CompletedStays` |
| `OtaRolloutProofs` | types and the properties of `ota_overlap` |
| `LocationProofs` | types, `LocationIsStored`, that one replica, where nothing but keys lapse, implements `GeofenceCrossing`, and `PolygonIsRight` of `Calculations` |
| `SignalsProofs` | every property of `signals`: types, `RecordsAreGrounded`, `LocationIsStored`, `OdometerKeepsUp`, `CrossingsAlternate`, `InOrderAgrees`; that each service behaves as its module says; and what holds of each service alone; `QuietIsInterval` of `Calculations` |
| `AccountsProofs` | types, `PasswordIsRecorded`, `RevocationIsRecorded`, `RevokedStaysOut` |
| `OfficeProofs` | types, `RecordsAreGrounded`, `CallsAgree` and `NothingIsUndone` of `office`, and that each service behaves as its module says, so that what `AccountsProofs` proves holds there; `PagesCover` of `Calculations` |

The properties are not inductive as they stand. Each module has an inductive
invariant with a part for the pending invocations (`TaskInv`): what an invocation relies
on when it writes must still be true then. The argument is each time that a stale read is
harmless where its basis can only grow.

`RemoteCommandProofs`. `IInv` adds to the properties

- `RequestInv`: the progress of `createCommand` determines what is certain of the
  row, the wire and the events (published only after the row left PENDING, `sentAt`
  set once marked, COMMAND_SENT told before COMMAND_CREATED);
- `TaskInv`: what a pending handler relies on when it writes is still true then (its
  report is still there, the timestamps it announces are set, the key it deleted
  has not come back, the retries it saw used up are used up);
- `WireInv`: reports and `sentAt` only of published commands.

`Monotone` proves that reports, publications, events, timestamps and the retry count
grow, and `Writers` which actions write which variable. Two steps are less obvious. The
Redis key of a command is set before its publication and a report comes after it, so
no `CachePending` can follow an announced outcome (`NotPendingStep`).
`RetriesBounded` counts the pending retries: one joins only while the count is
below the maximum, and each that is executed moves from the set into the count
(`BoundedStep`).

`VehicleLifecycleProofs`. The types need `Shape`, the order of the statements of each
call and the types of what it has read. For the histories, `HistoryInv` adds what calls
in flight know: the status or fleet a call has read is one that an earlier history row
led to, or the one the vehicle began with (`StatusReads`, `FleetReads`), and what it is about to announce it
has written (`Told`). History tables only grow, so this stays true however late the
call goes on, and the row it appends is grounded in an earlier one, though perhaps not in the last. For
pairing, `PairedInv` adds that the codes a call will write exist, or are new and no other
call's (`CodesRead`, `IssuesApart`); ACTIVE assignments are counted together with
the `assignDriver` calls about to make one (`DriversBounded`), which gives one driver where
there is one worker.

For `SerialAgrees`, `SerialInv` is a second invariant where `alone` is TRUE. What the one call in
flight has read is still so, an `assignDriver` past its release finds no ACTIVE driver, and
only a `deleteVehicle` is still at work on a deleted vehicle (`InTurn`). A deleted vehicle has
a driver only until that call releases it (`Released`), the columns of the pairing agree with the
codes (`Paired`), and each row of a history starts where the one before it ended (`Chained`).

`TripDetectionProofs`. The types
alone are not inductive: an event is typed only because an invocation has its trip
by the time it emits, so they are proved together with `Shape`, the order of the
awaited calls of each operation. `IInv` further adds

- `RowInv`: what an invocation knows of its trip (a row, a first route point, a
  completed row before the key is deleted and the event emitted) stays true, since
  rows only advance (`RowsAdvance`) and route points are only added (`PointsGrow`);
- `KnownInv`: nobody claims more samples than are accounted for. `Covered(t)` counts
  the route points, the points still to be stored and those that failed. It never
  falls (`CoveredGrows`), so a count read long ago is still covered when it is
  written; an update claims one more only until `CacheTrip` makes its point one
  of those to be stored (`ContinueClaims`).

`StatedIsClosed` has a stated distance only on a completed trip: no invocation reads it back into
an active one, so nobody carries it on. This is why invocations that overwrite each other's state lose
samples and never invent one. TLC has checked this `IInv` on the instance of `trip_overlap` as well.
`Refinement` then is short: the row is written by `CreateRow`, `UpdateRow` and
`CompleteRow` only, `IInv'` bounds what they write by the evidence, and `RowInv` has what
`EmitEvent` tells.

For `AloneAgrees`, `SerialInv` has, for each awaited call of the one message in flight, how
far each store is with its sample (`InTurn`): an update goes to Redis, then to MongoDB, then to
PostgreSQL, a new trip the other way round. `Aged` says that the cached trip is never older
than the vehicle has stood, except while the message that told of movement has not written the
key yet, so a time-out is due to standing. It compares timestamps only, not
when messages came, and needs their order: a late message handled after a newer one takes
`lastTimestamp` back, and then a trip may be timed out that has just moved.

`OtaRolloutProofs`. In `StateInv`, `TaskInv` is what a call in flight knows: behind the
first loop of a deployment each vehicle has its row, behind the second its manifest
(`DeployKnows`); the message a report call handles was sent, and behind each of its statements
come the version, the column or the event it has written (`ReportKnows`). `WireInv`
has reports only on rows. `CountInv` is the counting argument: of each campaign and outcome, the
deployments Kafka was told of, together with those counted and still to be told, are at
most the counter, since an outcome is counted before it is told. A row that is deleted
is a status of its own in the model, so that what was known of it stays known.

`LocationProofs`. `TaskInv` says that what a call is about to cache or announce is
stored, and what it is about to store was on the topic. For the refinement, `SteadyInv`
relates, where one replica works and nothing
fails, the Redis flag of a fence to its last crossing unless the flag has lapsed since, with the crossing about to be
announced in between; each announcement is then the one `GeofenceCrossing` has next, and all
other steps stutter. The last part is about the geometry that `LocationTracking` leaves open:
`PolygonCorrect` states `PolygonIsRight` of `Calculations` for all integer coordinates. An
edge crosses the ray where its ends lie above and below the point and the point on the proper
side (`EdgeHasSide`); weighted by the sides, the heights of the corners of a triangle cancel
out (`Balance`), which leaves the parity of the crossings no choice (`InTriangle`).

`SignalsProofs`. `SignalsInv` has a part for each service. It holds however calls
overlap, fail and are repeated, and each part is proved of the service's own `Next`;
that a step of the composition is a step or a stutter of each service is one lemma
(`SignalsSteps`).

- Telemetry (`TelemetryInv`): behind its first statement, the message of a call is
  stored, and MongoDB loses a document only by `deleteTelemetry`. An odometer about to be
  written is that of a stored message; `UpdateVehicle` starts `claims` anew.
- Diagnostics (`DiagnosticsInv`): `CodeIsCounted` counts the workers that are about to
  add a row of a code, to log an event or to tell one (`Adding`, `Logging`, `Telling`)
  together with what is there: the rows and those to come are at most the workers, what
  is logged and to be logged is within the occurrences in the rows, what is told and to
  be told within what is logged. A second row needs a second worker that found none.
- Driver behaviour (`DriverInv`): the same argument for what is recorded, detected and
  told of a driver; what a call has counted stays recorded, so a score written late is
  still grounded.
- Notifications (`NoteOnceInv`): no two calls that dispatch have the same row
  (`NoteApart`); of that row no outcome is told before the call tells one (`NoteKnows`);
  `markAsRead` and `deleteNotification` overwrite the status but never put it back to
  PENDING and never clear `deliveredAt` or `failureReason` (`NoteLater`).
  `NoteForDelivery` counts, for each alert, its notifications and the calls that will
  still create one against its deliveries.

Where `alone` is TRUE, a second invariant per service (`TelemetryInTurn`,
`LocationInTurn`, `DiagnosticsInTurn`, ... together `InTurn`) says, at each statement of
the one call under way, how the row, the cache and the topic differ: what the call has
read is still so, since nobody else works. The Redis keys of telemetry and of the
location agree because both are the last message of the topic, once it has been taken;
the crossings alternate because `CrossInv` ties each flag to the last crossing of its
fence, with the crossing about to be announced in between.

`AccountsProofs`. The types need `Shape` here too: accounts, sessions and tokens are
marked, never removed, so what a call has read is still there when it writes, and only a
session already revoked gets a key in Redis. `PasswordInv` adds that a token named by a
history row is SPENT, and a `resetPassword` whose token was spent meanwhile does not
commit: its transaction deletes the row of the token. `refreshTokens` writes the token
hash and the expiry of a session but not that it is revoked, and only logins create
sessions, which `RevokedStaysOut` needs.

`OfficeProofs`. `OfficeInv` is made of a part for each service: what holds however calls
overlap and fail, what holds where nothing fails, and what holds where calls do not
overlap either.

- Accounts: `AccountInTurn` has the one call under way between its statements: the
  account it read is as it was, a login that got past the lock finds no lock, roles are
  missing only between the two statements of `updateUser`, and a deleted account has a
  valid session only until its `deleteUser` revokes it.
- Fleets: what a call announces is in the row, or it is about to create the row.
  `deleted` is never cleared and only one `createFleet` gets past the unique name, which
  is `FleetIsTold`; alone, the metadata an update read are those it merges into
  (`FleetInTurn`).
- Settings: in `AdminInv` rows only count up, so an event stays true of what was written
  (`Justified`); alone, the caches are current but for the call about to drop them
  (`SettingsCurrent`, `FlagCurrent`).
- Reports (`ReportInv`, `ReportDone`): a report is completed only by the call that made
  it and only while it is there, since the update of a deleted row rejects, and it is
  told once, by that call. Where nothing fails, a row that is PROCESSING has its call.
- Audit (`AuditInv`, `AuditDone`): a row names a message of the topic, with at most as
  many rows, and calls about to write one, as deliveries; as the topic only grows and reports are never un-made, a row
  stays about a completed report.
- Analytics (`StatInv`, `RollupInv`): counts never exceed the vehicles there are;
  documents per fleet are counted together with the rollups that still have the fleet to
  do, which are those that found it.
- Breaker (`BreakerInv`): CLOSED means below the threshold whatever calls settle late,
  and only a trial leaves OPEN.

Model-checked only: liveness (`OutcomeIsTold`, `CallsComplete`), which this prover does
not reach; and of `CalculationsAgree` the check digits, scores, roll-out buckets and retry delays,
which are recursive over data (sums, folds, powers) and checked on bounded
inputs. Polygons, quiet hours and pages are proved for all inputs.

## 6. Where code and text disagree

| Run | What happens | What the repository says |
|---|---|---|
| `command_terminal` | an acknowledgement that is quicker than `markSent` loses its COMPLETED to SENT | "Cannot cancel command in terminal status", `remote-command.service.ts:93` |
| `command_cancelled` | a cancel between `enqueueCommand` and `publishCommand` succeeds, and the command is sent all the same | "Cancel a pending or queued remote command", `remote-command.controller.ts:40` |
| `vehicle_driver` | two overlapping `assignDriver` calls: two ACTIVE drivers | "Ensures ONLY 1 active driver", `vehicles.service.ts:278` |
| `trip_idling` | each message of an idling vehicle refreshes `lastTimestamp`: no timeout | "end on ignition OFF or idle > 15 mins", `docs/ARCHITECTURE.md:14` |
| `ota_forward` | a repeated or late report takes a deployment back, from COMPLETED too | "deployment progress tracking (`PENDING` -> `DOWNLOADING` -> ... -> `COMPLETED`)", `docs/ARCHITECTURE.md:18` |

The models show more of the kind, for which there is no run of its own. Commands, vehicles, trips, OTA:

- a retried command stays QUEUED, as nothing publishes it again ("Retry with
  exponential backoff", `command-queue.engine.ts:125`), and as `handleTimeout` has
  no caller, a command no vehicle answers stays SENT;
- the second pending command of a vehicle replaces the first under their key
  ("Store in Redis priority queue / cache", `command-queue.engine.ts:39`);
- each part of `SerialAgrees` fails with two workers: `assignDriver`
  overlapping `deleteVehicle` leaves a driver no call can release, and two
  overlapping `changeStatus` calls take a transition the map forbids;
- after `endTrip`, messages go to the completed trip and driving starts none
  (`FollowsLiveTrip` fails with `Manual = TRUE`);
- OTA manifests go out with QoS 1, but the status topic is subscribed without a QoS, so
  reports may be lost and their deployments stay as they were;
- a list that names a vehicle twice deploys to it twice, and counts it twice
  (`ota.service.ts:60`); `updateVehicle` enters versions no campaign has installed;
- `lastTimestamp` is compared with the wall clock (`trip-detection.engine.ts:60`): a
  message with an old timestamp lets the next standing one time out the trip;
- `endTrip` takes the distance it is given, whatever the route says (`trips.service.ts:83`).

The services of `signals`:

- a message is compared with an old reading and lowers the odometer that another message or
  `updateVehicle` has written meanwhile ("Update Vehicle Odometer if greater",
  `telemetry.service.ts:78`); overlapping messages may leave an older message as the latest;
  bursts make two ACTIVE rows of one code, which share its occurrences; no code resolves a DTC;
- `TELEMETRY_PROCESSED` carries few fields (`telemetry.service.ts:98-110`), so of the
  rules of the diagnostics service only P0562 can fire, though `../README.md:197` and
  `docs/ARCHITECTURE.md:15` promise P0217, P0522, C0073 and B0001;
- an inside flag lives for 24 hours and is not renewed: afterwards ENTERED is told again, or EXITED
  never (`CrossingsAlternate` allows for it); a failing emit loses it for good;
- an MQTT message without a position is stored at 0/0 (`telemetry.subscriber.ts:51`);
- the driver is looked up twice (`driver-behaviour.service.ts:29`), so an event and its score may go
  to different drivers;
- a failing emit turns a DELIVERED notification into FAILED, and both may be told of it, when the
  broker took the event before the emit rejected; a READ one may be overwritten; COMMAND_COMPLETED and OTA_COMPLETED are consumed and ignored;
  quiet hours know no time zone, and equal ends mean none;
  `GET notifications/templates` is shadowed by `:id`.

The services of `office`:

- overlapping wrong passwords count once; a login in flight clears a lock just set and
  leaves the status LOCKED; when a lockout has lapsed, one wrong password locks again
  (`auth.service.ts:154-177`); `resetPassword` leaves `accountLockedUntil`;
- a login in flight makes a session after `deleteUser` revoked all; a refresh in flight
  gives new tokens to a session just logged out, which stays revoked;
- `updateUser` deletes the roles before it makes new ones (`users.service.ts:193`), and a
  failure in between leaves none;
- overlapping updates of a fleet lose metadata keys (`fleets.service.ts:175`), and one in flight makes a
  deleted fleet ACTIVE;
- `getStatistics` and the dashboard count in separate queries: the parts may exceed the whole;
- a report whose job failed stays PROCESSING, as nothing sets FAILED; the nightly job
  runs on every replica without a lock; a deleted report leaves its data in MongoDB;
- a cache filled by a read that overlaps the write stays stale until it lapses; renaming a
  flag's key leaves the entry of the old key for an hour (`feature-flag.service.ts:88`);
- `isFeatureEnabled`, `dispatchWebhookEvent`, the circuit breaker and the retry engine
  have no callers; a late success while OPEN resets the breaker's count;
- some audit topics have no producer; an event that is delivered again is audited twice;
- in double arithmetic a driver score that ties is rounded down now and then, where
  `Calculations` has the exact value.

## 7. Not modelled

- Vehicles: what `updateVehicle` writes besides `odometer` and `firmwareVersion`. OTA: `updateFirmware`, and the key `firmware:<version>`
  which nothing reads. Users: `updateProfile`. Admin: `updateWebhook`.
  Notifications: creating and updating templates, and their rendering, which is text
  (`template.service.ts:57` also expands `$` patterns in the values it inserts). Analytics: the snapshots its
  consumer appends. VIN: the tables of model years and countries. Each writes columns or
  data that no other modelled call reads.
- The content of reports, messages and commands, response texts and log lines beyond
  what a property reads; queries without a cache; WebSocket broadcasts.
- The gateway, configuration, DTO validation, logging, Docker, Kubernetes and
  monitoring files, which keep no state of the system.
- The web clients, which are templates.
- Crashes of a database, a broker or Redis themselves: the code leaves them to its
  infrastructure. A crash of a process is `Abort`, `Reject` or `Fail`.
