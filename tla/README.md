# Verification of dsh-gateway

TLA+ models of the parts of dsh-gateway that keep state across awaits, timers,
processes and crashes, the TLC runs that check them, and TLAPS proofs of their
safety properties. Paths below are relative to the repository unless they name
a `.tla` or `.cfg` file. `PROJECT.json` holds the map from every definition to
the lines it models, the runs, the mutants, the findings, the hazards and the
theorems.

## 1. The system

dsh-gateway connects DeepSeek Harness (DSH), the host application, to a CLIProxyAPI
(CPA) server: one it starts and supervises itself (*managed*), or one an
operator runs (*external*). It is a plugin: its code runs in the host's Node.js
process, on one event loop, except for the analytics worker, which has a thread
of its own. Several hosts may be started on one DSH home directory; they share
its files and its database and nothing else.

| component | source | state it keeps | operations |
| --- | --- | --- | --- |
| runtime owner lock | `packages/runtime/src/index.ts:415-495` | the lock file of the home; `acquired` | `acquire`, `release` |
| managed runtime | `packages/runtime/src/index.ts:560-1235` | lifecycle state, process handle, `ownerHeld`, `startPromise`, `stopRequested`, `disposed`; `managed.yaml` | `install`, `start`, `stop`, `restart`, `dispose`, the child monitor |
| release staging and probes | `packages/runtime/src/index.ts` (the rest) | release files, port file | hashing, staging, `current.json`, endpoint probes |
| device login | `packages/gateway/src/host/oauth/` | one operation with its process, timers, parser, ready promise | `start`, `status`, `cancel`, `dispose`; output, timers, exit |
| gateway host service | `packages/gateway/src/host/gateway-service.ts` | the manager slot, credentials, the provider route's settings | the remotes of the user interface |
| CPA management client | `packages/gateway/src/host/cpa-client/` | none between calls | one HTTP exchange per call |
| provider planner | `packages/gateway/src/host/provider/` | none | plans of settings operations |
| usage collector | `packages/analytics/src/pipeline/collector.ts` | the status counters, the latch, the poll in flight | `poll`, `dispose` |
| projection, hashing, pricing | `packages/analytics/src/pipeline/` (the rest) | none | one record at a time |
| worker client, worker | `packages/analytics/src/storage/{client,protocol,worker-entry}.ts` | pending requests, outbox, ready promise, close | requests, `close`; messages, timers |
| store engine | `packages/analytics/src/storage/{engine,schema,validation}.ts` | the SQLite database: lease, events, receipts, rollups, snapshots | open, ingest, query, maintenance, close |
| analytics service | `packages/analytics/src/service.ts` | the store, the collector, the timer, `initialization`, `closePromise` | `start`, the remotes, `close` |
| user interface | `packages/gateway/src/client/` | view state | renders the remotes |
| packages, scripts, fixtures | `packages/{pack,platform}`, `scripts`, `tests` | none at run time | |

### How they interact

```
 user interface --remotes--> gateway host service --> CPA management client --HTTP--> CPA server
                                |        |                                              ^  ^
                                |        +-- device login manager --spawns--> login     |  |
                                |                                    process            |  |
                                +--> managed runtime --owner lock, spawns, joins--------+  |
 user interface --remotes--> analytics service -- collector --pops the usage queue---------+
                                |                    |
                                +--- worker client <-+ --messages--> worker thread --> SQLite
```

* The runtime holds the owner lock from `acquireOwner()` to `releaseOwner()`
  and spawns only in between. The lock is a file: two processes meet in it.
* The gateway host service replaces the login manager when the launch target
  changed or its login is over. The plugin's disposal disposes the manager.
* The collector takes usage items from the CPA server's queue. The server
  removes what it answers with; from then on the collector's memory is the only
  copy, until an ingest request is committed by the worker.
* The worker takes the collector lease of its target (a hash of the endpoint)
  in the database before it serves and gives it back as it closes.

### What is hard here

Everything on the event loop is atomic between two awaits and nothing is
beyond. Nearly every operation reads fields before an await and acts on them
after it: `start()` beside `stop()`, `install()` and `dispose()`; two
`oauthDeviceStart()` calls; `close()` beside an `initialize()` and a poll in
flight. Processes exit and timers fire in between, late answers arrive after
timeouts, and hosts die between any two file-system calls. `hazards` in
`PROJECT.json` lists the places, line by line, each with the properties aimed
at it or the reason why there is none.

### What makes each component correct

* lock: one owner; a dead owner never blocks the home; `acquire()` ends.
* runtime: a process lives only under the lock; `stop()` and `dispose()` end
  it; no call hangs and no state is final but the documented ones.
* login: the first verdict stands; every login is bounded and its process ends
  with it; whoever cancels or disposes reaches it.
* worker client: every request settles once, success means committed; close
  ends; one engine per target.
* collector: every item popped is counted once; no loss goes unreported; after
  a loss it pops nothing more.
* store engine: an event whose time had come is accepted once, whoever reports it
  and however often; the rollups agree with the rows they summarise; the price of a row is that of
  the pipeline's matcher; nothing the client lets through is refused at the end.
* CPA client: an exchange ends, with the whole answer or with one failure.
* provider planner and host: a foreign route is never written, what was applied
  is what was planned, a call is answered.
* user interface: a page is busy exactly while it waits, shows the answer of its
  last question, and learns of the end of a login.

## 2. Modules

| module | models | proofs |
| --- | --- | --- |
| `OwnerLock` | `RuntimeOwnerLock` | `OwnerLockProofs` |
| `GatewayRuntime` | `GatewayRuntime` over an ideal lock | `GatewayRuntimeProofs` |
| `DeviceLogin` | `CodexDeviceLoginManager` and its slot in `GatewayHostService` | `DeviceLoginProofs` |
| `WorkerClient` | `AnalyticsWorkerClient`, the worker, the leases | `WorkerClientProofs` |
| `UsageCollector` | `HttpUsageCollector` and `GatewayAnalyticsService`, composed with `WorkerClient` | `UsageCollectorProofs` |
| `UsagePricing` | the rule matcher and the estimate of `pricing.ts`, and the engine's own pricing | `UsagePricingProofs` |
| `UsageProjection` | the client's parsers, the projectors, the limits of the hasher and of the storage | `UsageStoreProofs` |
| `UsageLedger` | abstract: what the store promises about usage observations | |
| `UsageStore` | `SQLiteAnalyticsEngine` and the opening of its database; implements `UsageLedger` | `UsageStoreProofs` |
| `ProviderPlan` | `host/provider`: the settings planner, as operators | |
| `CpaClient` | `host/cpa-client`: one exchange, its server and its queue | |
| `GatewayHost` | `GatewayHostService`: all its remotes, over `CpaClient` and `ProviderPlan` | |
| `GatewayPages` | the pages of `packages/gateway/src/client`, over `GatewayHost` | `GatewayPagesProofs` |

`UsageProjection` extends `UsagePricing`, `UsageStore` extends `UsageProjection`;
`GatewayPages` extends `GatewayHost`, which extends `CpaClient`, which extends
`ProviderPlan`. `UsageStoreProofs` extends `UsagePricingProofs`, whose
`PricesAgree` it cites.

Each `MC...` module gives one of them the constants TLC needs; the `.cfg` files
are the runs. The modules also hold a mutated form of some definitions, each
commented as a mutant: a form a plausible mistake in the code would give it.
No specification uses one. `PROJECT.json` says which definition it replaces and
which property then fails, so that no property is one that nothing can break.

### OwnerLock

`lockFile` is who created the file at the path and whether its record has been
written; `pc` names the file-system call or the pid probe that comes next;
`seen` is what `readRecord()` returned. One action per call: `Create`/`Exists`
for `open("wx")`, `Write`, `Read`, `Check` for `isAlive`, `Rename`, then
`ReleaseRead` and `ReleaseRemove`. `Write` joins the write and the close of the
handle, `Rename` joins `rename()` and the `rm()` of the renamed file, which has a
name of its own that nobody else looks at. `Crash` is possible everywhere.
`Faults` are the calls that may fail with an I/O error; each has an action that
says what the failure leaves: `OpenFails`, `WriteFails` (a file without record),
`CloseFails` (a complete record of no owner), `ReadFails` and `ReleaseReadFails`
(swallowed: no record), `RenameFails`, `UnlinkFails`, `RemoveFails` (swallowed:
the record stays). A pid and its token are the process: a pid that is reused is
not modelled.

### GatewayRuntime

`rt[i]` holds the private fields of a runtime; `pc[c]` is the await at which
call `c` is suspended, and an action runs the call from there to its next
await, with every helper it calls on the way. `transition()` throws for a move
outside `ALLOWED_TRANSITIONS`; `Move` and `CanMove` say what then happens to the
caller. `Fail` is `failManaged()`, whose steps go on in `FailJoined`,
`FailReleased` and `FailRemoved`. The order in which promise continuations run
is kept where it matters: what awaits a start or a process's end goes on before
any other event (`StartEnds`, `JoinsResumed`). Reading the release and its
hashes, credentials, probes, the spawn and the acquisition of the lock succeed or
fail at will, and so does the removal of `managed.yaml`, whose rejection no one
catches: `FailRemoveFails` and `StopRemoveFails` reject the call with the state it
had, `Validated` does so where `probe()` finds the runtime disposed, and
`InstallRefused` leaves `install()` with the lock. Two things are assumed: the
lock is ideal (`OwnerLock` is what the file really does) and its `release()` does
not throw, and `waitForExit()` settles only once the process is gone.

Port, health, `lastError` and the installed release do not steer the control and
are left out. In the code, `stop()` that finds `stopping` returns at once: so
`StopReturns` in `EnterStop`.

### DeviceLogin

`login[o]` is one operation: its state, `terminal`, the ready promise, the
armed timer, what the parser has found, its process and its output stream.
`Output` reads a chunk of one or two lines: two are enough for a chunk that
completes the code and carries a verdict, in both orders, and for two
conflicting verdicts. A process that was told to end is joined when it exits, or
when `terminate()` or `waitForExit()` fails or gives up (`JoinFails`): then the
manager goes on and the process may live. `Start` is `oauthDeviceStart()` with
`prepareOauthManager()` up to the first await; `Replace` goes on when the old
manager's process is joined; `Unload` and `Unloaded` are the plugin's disposal.
`Status` may find a login expired, as `status()` does.

### WorkerClient

`client[c]` holds the main thread's fields, the two message channels (`inbox`,
`replies`) and the worker. A handler runs to its end, so `close()` goes on in the
step that lets it (`Update`, `Resume`). Both channels keep their order. A
request is named by what it asks for; a client names its own close request.
`TargetOf` is the endpoint a client was created for: `lease` has one owner for
each, as the rows of `collector_state` do.
Request ids never repeat, so their wrap is left out, and so is the `postMessage`
that throws for a message that cannot be cloned. `Dispatch` commits the
request's transaction and then answers, or refuses and leaves the database as it
was. `Dies` is the end of the thread alone, `Crash` that of the host process.

### UsageCollector

Extends `WorkerClient` with the service and the collector of each instance of
the plugin, and the queue all of them pop. `cycle` is where `runCycle()` stands,
`batch` the popped items not yet dealt with, `asked` the request it awaits.
Every item is the ingest request made for it, so what the collector counts and
what the worker has committed can be compared. `DequeueFails` is every way an
answer is lost after the server popped the items. `CollectorDisposed` is the
`disposeTimeoutMs` race, which may give up on a running poll. Snapshots of
accounts and quota and the maintenance are requests that are not items
(`Snapshot`); whether one is due is time, so any number of them is possible,
none included. The back-off `currentBackoffMs` is computed by the code and never
read, and is left out.

### UsagePricing and UsageProjection

Operators of one record, no state. A rule has a pattern per dimension, a price
per request and one per million tokens (one category stands for five), and a
window. `match` and `estimatePricing` are `pricing.ts`; `Before` and
`applyPricing` are what the engine does to a row it stores. In
`UsageProjection` a JSON value is a record of what the three stages look at: a
string's length, whether it holds a NUL, whether it has the form of its field;
a number's value and grain. `RecordLands`, `FileLands` and `WindowLands` say
that what the client lets through reaches a row or a dead letter. Hashing is
taken to be injective, numbers beyond the safe integers are left out (every
stage refuses them), and so is the shape `invalid_shape` of a quota the client
cannot pass.

### UsageStore and UsageLedger

Every operation of the engine is one immediate transaction and one action. The
opening is four (`Open`, `Migrate`, `SetVersion`, `AcquireLease`), because the
process may die between its commits. An observation stands for its payload
fingerprint, `key` for its source event. `ingestRequest` is the whole handler:
retention, receipt, conflict, merge, price, both rollups, counters. `maintain`
deletes at most `MaxDelete` expired rows of each table. `who` stands for the
text dimensions, `toks` for the nullable measurements; latency histograms are
rebuilt by the same statement as the rollups and left out. The queries read and
change nothing.

An observation may bear any time: the engine does not compare it with its clock,
which is only taken never to go back.

`UsageLedger` is what the store promises: an observation that is accepted when its
time has come is accepted at most once, ever; a request is one row, the join of
its observations in whatever order they came; rows younger than the horizon are
kept; the price is the matcher's estimate of the join. The refinement maps `rows`
to the table and takes the clock and the three history variables as they are.
`due` outlives the receipts, so the refinement says what their purge may cost: a
source event may be accepted a second time only as another observation with a
later time, when the receipt of the first has outlived its retention. Of an
observation that was accepted before its time nothing of this kind holds, and the
ledger does not promise it: its receipt expires by the time it was received
(`MCUsageStoreFuture.cfg`).

### ProviderPlan, CpaClient, GatewayHost

`ProviderPlan` has the operators of `host/provider`: a list of models is the
function its first declarations make, a base URL a host and a path, a settings
section its `cpa` route or `None`. `withOps` is what the settings service makes
of the planned leaves.

`CpaClient`: `exch[x]` is one exchange, from the resolution of its credential to
the parsed answer; `Headers` and `Body` are the two awaits of `fetchJson`,
`TimerFires` its request timer, `Rejects` a broken connection or the abort. The
server takes entries off its queue as it answers, also for a caller that has
given up. `Exchanged` is the same in one step, for scenes about the callers;
`PromiseKept` is what justifies it: what the detailed exchange settles with is
what the coarse one may.

`GatewayHost`: `op[c]` is one call of a remote: `kind`, the await it is in, and
what it carries over that await (`loc`), which is where stale state would bite:
`models` keeps the descriptor it read before its exchange, `applyModels` the plan
it made before `settings.mutate`. `runtime` and `login` are `GatewayRuntime` and
`DeviceLogin` as far as the handlers see them; a device login that is over when
`oauthDeviceStart` answers and a host without runtime are left out. `OtherWrites`
is another plugin or the user writing the same settings section.

### GatewayPages

`view` is the page under study, `page` its state. A button is an action whose
guard is what the page disables it by; `Answer` is an answer, or its failure on
the way, reaching the function that made the call (`by`), if it still passes that
function's mounted, active, signal and generation tests (`cur`). State and the
effects that depend on it are committed in one step. This is an abstraction that
React does not guarantee: an update made after an awaited answer is rendered in a
later task, and the clean-up of a passive effect may run after it, so that another
answer in between still passes the tests of the old effect. `VerdictShownStays`,
`AnswersAreOwn` and `BusyIsExact` say nothing of that gap. `PollFires` and `DashboardPoll` are the two polls. `Mount` and
`Leave` change the page; the answers of calls made before are ignored then, but
the host still serves them. `/` shows `SetupView` and `DashboardView`
together; they share nothing and are studied apart. The reads that
`Promise.all` joins are one read.

## 3. The runs

| run | asks | result |
| --- | --- | --- |
| `lock` | two contenders, every call of the file system may fail, every crash | holds |
| `runtime` | any three overlapping calls of five operations, both modes | holds |
| `runtime_awaited` | up to four `start`/`stop`/`restart` calls, stop awaited before start | holds |
| `runtime_two` | does a ready runtime have its configuration file? | **violated**, finding 1 |
| `login` | two overlapping logins, their output, timers, exits, failing joins, disposal | holds |
| `worker` | two clients for one target, timeouts, deaths, close | holds |
| `collector` | two items through collector, client and worker, close at any point | holds |
| `store` | two requests from two sources, before, at and after their time; every record, file and window at the limits | holds |
| `store_late` | do the rollups keep their counts for their retention? | **violated**, finding 2 |
| `host` | two overlapping remotes; exchanges step by step | holds |
| `pages` | seven pages and two writers over the host | holds |
| `host_overwrite` | does `applyModels` replace only what its caller has seen? | **violated**, finding 3 |

### Properties that hold

* `lock`: `UndisputedOwnerKept`: an owner whose record is at the path while
  nobody is past a stale verdict is disturbed by no one, unless a contender cannot
  read its record. `LeftBehindByFailure`: a live process that is no owner leaves a
  record, which would refuse everybody, only where its own close after the write,
  or its own read or `rm()` in `release()` fails; no other failure, crash or
  interleaving does it. `AcquireTerminates`, `CrashedOwnerRecovered` (liveness).
* `runtime`: `OwnerFlagExact`: `ownerHeld` and the lock file agree.
  `ReadyIsRunning`: a probe answered late does not make a crashed runtime ready.
  `SettledWhenQuiet`: when all calls have returned, none has left a process without
  `ready`, and the state is transient only if the very call that owed another one
  was rejected, by the removal of `managed.yaml` or because its runtime was
  disposed. What these two and `LiveChildOwned` say
  of processes is said of instances that no call asks to `install()`
  (`NeverInstalls`). `EveryCallReturns` (liveness).
* `runtime_awaited`: `LiveChildOwned`: a live process has the lock and is the one
  `stop()` would end.
* `login`: `RunningIsReachable`, `ArmedUntilEnded`, `FirstVerdictKept`, and
  `EveryLoginEnds` (liveness): a login ends, its process gone or given up by the
  subprocess service, and every start call settles.
* `worker`: `EngineHoldsLease` (of its target), `AnsweredIsStored`, `CloseFreesLease`, and
  `EveryCallEnds` (liveness), for requests and for closes.
* `collector`: `EveryItemCounted`, `NoSilentLoss`, `LatchHolds`,
  `ClosedIsQuiet`, `ServiceCloses` (liveness).
* `store`: `ImplementsLedger`, the refinement of `UsageLedger` through replays,
  conflicting payloads, merges in both orders, re-pricing, crashes while opening,
  and retention cut short by its batch limit. `RollupMatchesRaw`: from the horizon
  on, hours and days are what the rows add up to. `EveryRecordLands`: the limits
  of the three stages fit together.
* `host`: `PromiseKept`: an exchange settles with what the server answered, whole,
  or with one failure, whatever the timer, the signal and the network do, and a
  batch popped from the usage queue is never handed on in part. `EveryCallAnswered`
  (liveness): each remote answers.
* `pages`: `BusyIsExact`, `AnswersAreOwn`: late answers neither end a busy state
  that is not theirs (`loadingMore` excepted) nor are shown for another question. `VerdictShownStays`,
  `LoginShown` (liveness): an ended login is shown and stays so. `ApplySticks`:
  applying the same models again changes nothing, and the provider then counts as
  configured. `ForeignRouteKept`: no write replaces a route that is not the
  gateway's own, whoever put it there between plan and write.

### Findings

Each is a run that TLC finds violated, and a line of the documentation that the
code does not keep.

1. `ReadyHasConfig` (`packages/runtime/src/index.ts:1137`). A start that is
   refused the lock still removes `managed.yaml`, the file of the owner.
2. `RollupKeptForRetention` (`packages/analytics/src/storage/engine.ts:560`). A
   late record of a day whose rows were purged rebuilds that day's rollup from
   itself alone.
3. `NoBlindOverwrite` (`packages/gateway/src/host/gateway-service.ts:315`). The
   answer of `applyModels` carries the revision of after the write, and of after
   whatever somebody else wrote meanwhile.

### Known disagreements, with a configuration each

TLC finds these violated as well; the configuration shows the behaviour and is
not one of the runs.

* `MCOwnerLockExclusion.cfg`, `AtMostOneOwner`
  (`packages/runtime/src/index.ts:467`). `open("wx")` and the write of the record
  are two calls: a contender that reads the empty file takes it for stale and
  renames it away. The verdict and the rename are two calls as well.
* `MCGatewayRuntimeDispose.cfg`, `DisposedMeansDead` (`:909`). A `start()` made
  while `dispose()` awaits the removal of `managed.yaml` outlives the disposal.
* `MCGatewayRuntimeInstall.cfg`, `OneOwnerPerHome` (`:852`). `install()` gives up
  at its end the lock that a `start()` beside it has acquired.
* `MCDeviceLoginSlot.cfg`, `RunningIsInSlot`
  (`packages/gateway/src/host/gateway-service.ts:553`). Two `oauthDeviceStart()`
  calls replace one manager twice; the login of the first replacement is dropped.
* `MCWorkerClientTargets.cfg`, `CollectorIsAlone`
  (`packages/analytics/src/service.ts:199`). The lease is kept by target, and the
  target is a hash of the endpoint: two instances with different endpoints serve
  side by side on one database, where `docs/design/security.md:157-159` has "one
  analytics collector owner" for a resolved `DSH_HOME`.
* `MCUsageCollectorLease.cfg`, `CompetitorConsumesNothing`
  (`packages/analytics/src/service.ts:223`). The first poll does not wait for
  the worker to have the lease.
* `MCUsageStoreHealth.cfg`, `HealthIsCurrent`
  (`packages/analytics/src/pipeline/management-projectors.ts:49`). The key of a
  health reading has the modification time of the account's file and not its
  status: another status of an untouched file is a conflict and a dead letter,
  and the latest snapshot stays the old one.
* `MCUsageStoreFuture.cfg`, `CommittedOnce`
  (`packages/analytics/src/storage/engine.ts:371`). A receipt expires by the time
  of its delivery. An event dated in the future, if only by a part of the day that
  the cutoffs are rounded to, is still within the retention by then, and a replay
  is committed again, where `docs/design/analytics-data-model.md:246-247` has that
  the receipts prevent "a replay from incrementing retained rollups after its raw
  row has expired".

### What does not hold, and how the properties say so

* `LiveChildOwned` needs callers that await a stop before they start again, and
  no `install()` beside. Without the first, five calls break it: a start that runs
  while the state has gone to `failed` spawns after a further `stop()` has given
  up its lock. The process still is the one `stop()` would end: that much is
  proved for all callers (`LiveHandle` in `GatewayRuntimeProofs`).
* `ReadyIsRunning` and what `SettledWhenQuiet` says of processes need that
  nobody calls `install()` on the instance, whose `finally` gives up the lock of
  a `start()` beside it. Three calls are too few to see it: the calls `install`,
  `start`, `start`, `stop`, `start`, `stop`, `start` end with a process that is
  not the one `ready` stands for. Without `install()` the proofs have them for
  every number of calls, awaited or not.
* A success line that arrives before the URI and the code ends the login without
  settling the promise that `start()` awaits: `EveryLoginEnds` names this
  exception. In the same case the code line may show the state `pending` again:
  `FirstVerdictKept` names it.
* A contender that fails to read the owner's record takes it for stale and renames
  it away (`readRecord()` swallows the error): `UndisputedOwnerKept` excepts it.
  A process that left a record behind is refused by itself for as long as it lives:
  `CrashedOwnerRecovered` excepts it.
* A rejected removal of `managed.yaml` leaves the runtime `stopping` or `starting`
  with no call underway: `SettledWhenQuiet` names the states and the cause. A
  refused bundled asset leaves `install()` with the lock.
* A start after a crash in `ready` is refused by the runtime's own lock, frees
  it, and fails; the next one succeeds. The models have this behaviour; no
  document forbids it.
* The lease is only given up by a close that the worker answered. After a crash
  or a terminated worker no later instance for the same target gets it. `EngineHoldsLease` and
  `CloseFreesLease` are what remains true.
* Items lost on the way from the server (`DequeueFails`) are seen only as
  `dequeueFailures`: `NoSilentLoss` is about items received.
* When `dispose()` of the collector gives up on a poll, the poll sets the
  availability afterwards; `LatchHolds` is about latched collectors only.
* A NUL in a provider, model or endpoint passes the client and the projector, and
  only the storage refuses it: the ingest fails, the collector latches, and the
  rest of the batch is counted as possibly lost. `EveryRecordLands` excepts it.
* The engine prices a null count with a price of 0 as unknown where the matcher
  and the documents have it free (`NoFreeComponent`), and it does not reject
  rules of equal specificity that overlap (`PricingAssumption`). The bundled
  snapshot has no rules today.
* Two overlapping starts may each generate an absent credential, so that the
  process has read another value than the one stored.
* `loadingMore` of the requests page stays set when the query changes under a
  next page: `BusyIsExact` leaves it out. A page that is left and mounted again
  no longer knows the id of a login underway, and a new one is refused until that
  one ends. A late status may show the runtime's state of before an operation.

### Bounds, and why they are enough

* `lock`: two processes and the file of a dead third owner; `MaxAttempts = 3`.
  Contention is between one that renames and one that creates: two are enough
  to violate exclusion. Three rounds are enough for a process to see a file
  appear, vanish and appear again; the proofs cover every number.
* `runtime`: one runtime, three calls, each of any operation. Three overlap in a
  start, a stop that waits for it, and a call beside both. `runtime_awaited` has
  four (the drift it looks for needs five without its discipline, and five with
  every rejection are too many for TLC); it is one mode and uses symmetry, which is sound there because no definition
  distinguishes calls and the run checks an invariant only. The proofs cover
  every number of calls and instances for all the invariants of both runs.
* `login`: two calls; lines with either field, the verdict of success, a denial
  that stands for the verdicts other than success, which are treated alike, other
  text, and the lines the parser rejects. `MCDeviceLoginSlot.cfg` takes three
  calls: the old login and two that replace it.
* `worker`: two clients of one target, one operation besides their close. The
  pending limit is not met there; it is in `collector`.
* `collector`: two items, one that becomes a dead letter, one other request,
  `Batch = 2`, `MaxPending = 1`: an ingest may fail before or after the other
  item, and a remote may fill the limit, so that an ingest is refused. One instance; `MCUsageCollectorLease.cfg`
  has two.
* `store`: two requests of one day, four observations (one completes another, one
  contradicts it), one quota reading and one dead letter; a day has two hours.
  Request rows go at the end of their day and rollups a day later, and time runs for
  six hours, of which the requests bear the third and the fourth: they are delivered
  before, at and after their time, what is delivered early loses its receipt while
  its time is within the retention, and in the last hour one is outside it. The
  database is opened, closed and killed any number of times, in the first hour only
  (`LastRestart`): the engine keeps nothing in memory that the tables do not have.
  `MaxDelete = 1` leaves expired rows behind. Two rules, one of them for the
  completed dimensions. `EveryRecordLands` looks at 14 593 records, a good one
  changed in any two fields to any length on, below or above each limit, 6 859
  files and 4 913 windows; the client lets 4 743 of the 26 365 through. The proofs
  cover every set of observations, rules and records, every retention and any
  number of restarts.
* `host`: two calls, because every hazard there is one call between two awaits of
  another; a queue of one good and one bad record, `Count = 2`; damaged replies of
  two kinds, one before and one after the headers are read.
* `pages`: one page and two calls underway; three pages of rows; two models, two
  images, two filters; one login. `host_overwrite` needs three writes.

`CHECK_DEADLOCK FALSE` is everywhere, because these systems may stop: every call
has been made, or every process has died.

### Fairness, and why the code justifies it

Nobody has to call anything, no process has to exit by itself, print, or crash,
no worker has to answer, and no CPA server, network or LLM service does.

* `OwnerLock`: a live process runs the call it is in; the event loop resumes it.
* `GatewayRuntime`: an await settles (files, probes and the readiness loop are
  bounded); a process that was told to end ends, because the subprocess service
  escalates after `graceMs`; the end of a process is reported.
* `DeviceLogin`: timers fire, the wait for a process that was told to end settles,
  because it is gone or because the subprocess service fails or gives up, and calls
  resume.
* `WorkerClient`: the timers of requests and of the ready promise fire, and
  `worker.terminate()` ends a thread. `EveryCallEnds` rests on these alone.
* `UsageCollector`: the same, and the key lookup and the dequeue end (the client
  has a timeout). A cycle may take snapshots, but ends at last: each snapshot
  settles, and there are finitely many requests in an instance.
* `GatewayHost` (`HostFairness`): the handlers go on, the credential lookup and
  the settings service answer, the request timer fires and an aborted `fetch`
  rejects. `EveryCallAnswered` excepts the probe, which waits for the LLM service
  and has no timer.
* `GatewayPages` (`PageFairness`): a timer of a mounted page fires, the host takes
  the three login calls, which do not wait for anything, and an answer, or the
  failure of its connection, arrives.

## 4. The proofs

For every value of the constants that satisfies the stated assumptions. These
are weak: `None` is no element of the sets, limits are positive, the sets of
names that must be disjoint are, the items are finitely many.

* `OwnerLockProofs`. The inductive invariant is `TypeOK`, that the processes a
  pid probe finds alive are exactly those that can still step, and that the
  attempt counter is below its bound wherever the loop goes on. `OwnerKept` adds
  one step lemma: a step of another process cannot touch an undisputed path,
  because it is not in `write`, `rename` or `relremove` and its verdict, if it
  has one, is about the live owner; only a read that fails can give it another.
  `LeftOnlyByFailure` is a step lemma of its own: a record is completed in the
  step to ownership or by `CloseFails`, and an owner leaves `held` only for the
  read and the `rm()` of `release()`.
* `GatewayRuntimeProofs`. `OwnerFlagExact` is not inductive. A stop that waits
  for a start is woken in the step that ends the start and may then release
  the lock, so two calls might release it: `OneRelease` excludes that, and
  needs in turn that one stop at most waits for a start (`OneWaiter`), which
  needs that the state has left `starting` while one does (`PendingStops`). The
  proof says of each action what it may do to the lock (nothing, begin a
  release, finish one, take it) and to the starts, and then preserves the
  invariant once per kind of effect.

  The processes need two more invariants. `RuntimeInv` adds where starts, stops
  and the state may stand together (`ControlInv`: `startPromise` names the one
  start underway, and the state shows neither `ready` nor `degraded` before it
  ends) and, for an instance without `install()`, where its process may
  (`ProcessInv`: a process that lives is the one kept, nobody joins another, no
  start goes on to spawn beside it, and while `starting` is shown no stop is
  about to drop what the start has). It is proved without any discipline of the
  callers; `ReadyRuns` and `QuietIsSettled` follow. Again an action is classed
  by what it does to the starts and to the process (pass, drop, join, wait, go
  on, spawn, return), and each conjunct is preserved once per class.
  `OrderlyInv` adds for `AwaitedSpec` that a start not yet spawned starts from a
  clean instance and nobody takes its lock away (`EarlyKeeps`, `LateKeeps`).
  That rests on the callers: a start which `starting` no longer shows is awaited
  by a stop (`StopAwaits`), so no other stop finds it and drops what it holds; and
  a restart starts only over what its own stop has left clean (`OneRestart`,
  `RestartClean`). `ProcessIsOwned` follows.
* `DeviceLoginProofs`. Each helper of the manager takes a sound operation to a
  sound one that *evolves* from it: same manager, no new process, a verdict
  kept. `Good` says that managers and operations agree on who runs what, `Fresh`
  that a call that has not started has left no trace.
* `WorkerClientProofs`. `Safe` relates each client to the lease and to what is
  stored. A request is *told* when its answer is on its way or has arrived: told
  implies stored, and a told close implies that the worker has ended and the
  lease is elsewhere. The handlers of the main thread are *quiet*: they take no
  message, leave the thread alone and make no request a success.
* `UsageCollectorProofs`. Extends the invariant of `WorkerClientProofs` with, per
  instance, `Life` (where service, cycle, close and client may stand together),
  `Count` (the counters and the batch add up, and the item asked for is in it),
  `Latch`, and `Items` (as many items are counted as kept as were answered with
  success, and of the batch only the item asked for was ever requested). `NoSilentLoss` follows by counting: the items
  answered with success are stored, hence at most as many as those kept.

* `UsagePricingProofs`. Two rules that match one request overlap in every
  dimension and in time, so `validateOverlaps` leaves one most specific
  (`MatchIsUnique`); there is one because specificity is bounded by the number
  of dimensions and the natural numbers are well-founded. The engine's order
  puts exactly that one first (`EngineTakesTheMatch`), and component by component
  the two estimates agree unless a price is 0 (`PricesAgree`). The assumption is
  what `validateRule` and `validateOverlaps` accept: the engine itself does not
  reject overlaps, and without that its third key would decide.
* `UsageStoreProofs`. The invariant of the refinement, `StoreInv`, is that the
  rows are the joins of the observations still kept, and that every observation
  ever accepted when its time had come is remembered: by a receipt not older than
  it, or by being outside the retention, where nothing is accepted any more. A merge is then the
  join with one part more, in either order, and a replay after the purge is too
  old. `StoreRefinesLedger` has one hypothesis, `NoFreeComponent(Rules)`, because
  the engine's price is the matcher's only then (`PricesAgree`); without it the
  ledger's price is not what the code stores. `RollupsMatch` follows a row
  through its two groups: `refreshRollups` recomputes the bucket of the old row
  and of the new one, every other bucket has the rows it had, and maintenance
  takes only rows of buckets below the horizon. `StoreTypeOK` has the one
  induction: that a sum over the rows of a bucket is a natural number. The fold
  of the community modules is a function chosen by its recursion over subsets;
  that it exists and has natural values is shown layer by layer of the
  cardinality, a least layer without it being a contradiction. `RecordsLand`
  compares the three tables of limits, field by field. Assumed are what the
  validators of the storage let through (`InputAssumption`) and that a field
  holds a JSON value (`JsonAssumption`), which `JSON.parse` grants.
* `GatewayPagesProofs`. `ForeignRouteKept` is not inductive: it says something of
  the moment of the write, and the plan was made before. The invariant `IInv`
  adds that a plan which waits for its write was made of the settings of its own
  revision, and that this revision is not above the present one; so at the write
  either the revisions differ and nothing is written, or the settings are the
  planned ones and the planner's conflict test applies to them. Every other
  step of the pages, the handlers, the client and the other callers is `Calm`: it
  makes no plan and leaves the waiting ones alone (`StepKinds`). A writer from
  outside raises the revision, as does a write. The theorem assumes only that the
  descriptor at the start has a natural number as its revision.

  `PromiseHolds` needs that an exchange on its way holds one reply that was served
  to it, or one piece that was popped from the queue, and nothing of another's
  (`ClientInv`).

  `BusyIsRight` and `AnswersRight` rest on `PagesInv`. Of every call it says who
  still waits for it, its *role*, and that an answer to one that somebody waits
  for is about what was asked (`CallsGood`); of the page on the screen, which
  roles there are for what it shows (`SetupGood` to `ReadsGood`): one call for a
  page that is busy, none for one that is not, a trial of the request that was
  run last, an upload of the file that was chosen last, a query of the filter in
  the form, a next page only of rows that are shown and ready. What a page does
  to the calls is always a *turn*: it consumes one answer, drops the calls of some
  functions and makes one call or none. The steps of the host and of other
  callers are *unseen*: they change neither who waits nor what was asked. So
  every page needs one lemma for its buttons and one for its answers.

  `VerdictStays` needs `LoginInv` besides: all views of a login that a page shows
  or is about to be told (`Seen`) are no later than the login itself, and of a
  login that has ended there is one view only (`SeenGood`); a poll is armed or
  underway only of the pending login on the page (`PollsGood`); and what the
  answers of a login, a cancel and a poll can say follows from what they were
  asked (`TellsGood`). An old answer then is a pending one of the login on the
  page, and none is awaited once the page has the verdict, because the answer
  that brought it dropped the poll.

  `ApplyHolds` compares the planner with itself on its own result (`PlanAgain`):
  the address of a profile is normal, so it passes its own identity test, and a
  second plan finds the exact route and nothing to change; and what the writes of
  single fields leave is the whole profile (`PlanWrites`). That needs models in a
  finite set, of which alone a list can be made, and routes that have the fields
  of a route. Hence `AppliesInv`: besides `IInv`,
  `PagesInv` and `ClientInv`, every set of models on its way, in a call, an answer
  or on the page, is finite (`FewInv`), since it came from an answer of CPA or
  from a caller; and what is in the settings is a route (`RoutesGood`), since it
  was written by the planner or by a writer that writes one.

  The four start from any host at rest without a page (`HostInit`, `page =
  None`) and assume `NoneIsNull`: `None` is no name of a function of the pages
  and no record. It stands for the `undefined` and `null` of the code, and is a
  model value in the runs. `FaultsAssumption` and `ExchangeAssumption` say that
  the faults of a reply are of the kinds named, and that exchanges are numbered.
  `EndpointAssumption` says that an endpoint is a host and a path,
  `CatalogsAssumption` that an answer lists finitely many models,
  `WriterAssumption` that what other writers put in the provider's place is a
  route or nothing, and `ConflictAssumption` that the planner's verdict `Conflict` is none of its records.

Only model-checked: all liveness (under fairness, out of the prover's reach), and
the violations, which are counterexamples.

## 5. Not modelled, and why

* Release staging, hashing of releases, rendering of `managed.yaml`, the probes of
  an endpoint: file and network input. `GatewayRuntime` has their success and
  failure.
* Callback parsing (`oauth/callback.ts`): a check of one URL, without state or a
  caller in the source.
* Of the user interface: layout, texts, locales, the fields of the filter form.
* Of the store engine: the columns of the queries, cursors and latency
  histograms; of its opening, the pragmas.
* Of the provider planner: the lengths and characters of names and URLs.
* Of the analytics service: the modes that do not collect.
* Plugin entry and configuration, packages, scripts, the test double of CPA: no
  logic of the running system.

## 6. Plan

Done: `OwnerLock`, `GatewayRuntime`, `DeviceLogin`, `WorkerClient`,
`UsageCollector`, `UsageStore` with `UsageLedger`, `UsageProjection` and
`UsagePricing`, and `ProviderPlan`, `CpaClient`, `GatewayHost` and `GatewayPages`,
with proofs of every invariant, action property and refinement that the passing
runs check.

Left, in order of weight:

1. `GatewayRuntime`: an abstract lifecycle that it implements.
2. `GatewayPages` with the commit of a state and its effects as two steps.
3. The release staging of the runtime (`current.json`, staging directories) as
   a module with crashes between its file-system calls.

## 7. Running

```
tlc -workers 2 -config MCGatewayRuntime.cfg MCGatewayRuntime
tlapm GatewayRuntimeProofs.tla
```

The passing runs take from seconds to three minutes each, the proofs up to a few
minutes per module.
