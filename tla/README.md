# termup in TLA+

A verification development of [termup](../src/README.md), an uptime monitor: a
daemon, `termupd`, that probes HTTP targets, debounces the results into up and
down, alerts, and serves a terminal dashboard, `termup`. The modules here are
translated from the Go source; `PROJECT.json` names, for every definition, the
lines it stands for.

To check it, in this directory: `tlc -config <run>.cfg <module>.tla` for the
runs listed below, `tlapm <module>_proofs.tla` for the proofs.

## 1. The system

| Component | Source | State it keeps | Operations |
| --- | --- | --- | --- |
| Scheduler | `scheduler/scheduler.go` | ticker, the current batch: a channel, a pool of workers, one dispatch goroutine per monitor | `Run`, `runOnce`, `probeOne` |
| Trackers | `monitor/*.go` | per monitor: state and fail counter, certificate warning, window of raw results | three `Observe`, `State` |
| Prober | `probe/probe.go` | none | `Probe` |
| Alert queue | `notify/async.go`, `multi.go` | bounded channel, `closed`, `done` | `Notify`, `Close`, the worker |
| Providers | `notify/providers.go`, `stdout.go` | none | one POST or one log line |
| Stores | `storage/sqlite.go`, `memory.go` | the list of monitors in config order, their results | `Save`, `Prune`, `Sync`, `List`, `History`, `Close` |
| Configuration | `config/*.go` | the file; the watcher's event queue | `Load`, `Watch` |
| Daemon | `server/server.go` | boot and shutdown sequence | `Start`, `run` |
| API | `api/*.go` | none | status, dashboard |
| Dashboard | `cmd/termup/*.go` | last answer, error, filter, selection, fetches under way | `Update`, `View` |

How they interact. The scheduler's loop lists the monitors of the store and
hands each, after a jitter delay, to a worker; the worker probes, saves the
result in the store, and shows it to the three trackers in turn, each of which may
raise an alert. Alerts go into the bounded queue, whose worker calls the
providers one after the other. The config watcher replaces the store's list
under a running batch; the retention sweep deletes old results. The API reads
store and machine. The daemon starts all of them and, on SIGINT or SIGTERM, waits
for each in turn for a bounded time, drains the queue and closes the store.
Trackers and queue are lost with the process, the store is not.

What is hard here: goroutines joined through a channel and two wait groups; a
channel that is closed while others send; a list that changes under a batch;
cancellation that reaches probes whose result is then evidence; state that
restarts while the operator's memory does not; a multi-statement transaction cut
off; timeouts over work that goes on; a file read at another moment than the
event that announced it; alerts that are dropped while the tracker that raised
them does not learn of it; a dashboard put together from reads at several
moments, and answers that overtake each other. `PROJECT.json` lists each as a hazard
with its line and the properties that guard it, or a note why none does.

What makes each component correct:

- *Scheduler*: one worker per monitor at a time, no send on the closed channel,
  nothing left behind when `Run` returns, every batch ends, nobody is starved,
  and all in all the same behaviour as a sequential pipeline per monitor.
- *Trackers*: the debounced state is the verdict of the last results; an outage is
  reported and only then a recovery; one certificate alert per crossing and life of
  the process; more failures in a window than runs too short for the machine can
  hold, `((FlapThreshold + 1) / 2) * (FailThreshold - 1)`, 6 of 10 with the source's
  values, do not escape both the machine and the flap tracker. Fewer may: a target that
  fails twice and answers three times, for ever, fails 40 % of the time with 4 flips
  in a window and never 3 failures in a row, and is never reported.
- *Alert queue*: no panic, truthful outcome, complete drain, order, no blocking.
- *Alert path*, from tracker to operator: but for alerts that were dropped, the
  operator's picture comes to agree with the trackers', across restarts.
- *Stores*: two adapters, one promise; `Sync` is atomic; retention removes
  nothing newer than the cut-off.
- *Configuration*: the store ends up with what the file holds.
- *Daemon*: nothing is used after it was closed unless that was reported; a clean
  shutdown loses nothing; a shutdown ends.
- *API*: a card does not contradict itself; a removed monitor leaves next to nothing.
- *Dashboard*: what is marked is what is described; the screen catches up with the
  daemon by itself.

## 2. The modules

Composition, arrows meaning "implements":

```
MachineObserve, CertObserve, FlapObserve        Trackers
        |                                          |
ProbePipeline  <----- refinement -----  Scheduler (loop, dispatch, pool, reload, crash)
      ^
      +-------------- refinement -----  AlertPath (trackers, queue, providers, operator)
AlertQueue     <----- refinement -----  AsyncNotifier (lock, channel, worker, fan-out)
ResultStore    <----- refinement -----  SQLiteStore,  MemoryStore  (both in Adapters; types: StoreTypes)
Subsequences (what a filter keeps: under StoreTypes and TermUI)
StatusAPI (dashboard request among workers, reloads, restarts; the machine of Trackers)
Daemon (boot, shutdown)    ConfigReload (file, watcher)    TermUI (dashboard)
```

| Module | Models | State and actions against the code |
| --- | --- | --- |
| `Trackers` | `monitor/*.go` | One operator per `Observe`: the new tracker, and whether it fires. Their mutexes make a call one step. A result is error, 2xx or not, and the hours its certificate has left. |
| `ProbePipeline` | one monitor's probes | The abstract specification of the scheduler: `StartProbe`, `FinishProbe`, `Observe`, `ObserveCert`, `ObserveFlap`, `Restart`. `told` and `certTold` are what was ever said of a monitor since its last outage began, and of its certificate since it was last in order. Both are histories that outlive the process; a restart is entered in `certTold` as the excuse it is for saying it again, and changes nothing in `told`. |
| `Scheduler` | `scheduler.go` | `rpc` is where `Run` is; `disp`, `wpc` are the program counters of the dispatch goroutines and workers; `Handoff` is the rendezvous on the unbuffered channel; `Sync` is the reload, `Cancel` the signal, `Restart` a new process. |
| `AlertPath` | `scheduler.notify`, the queue as `AlertQueue` abstracts it, the providers | Each tracker's step of `ProbePipeline` with the `Send` it may cause; `Receive`, `Delivered`, `NotDelivered` are the worker's; `Close` and `RestartAll` the shutdown and the next process. `heard`, `lost` and `restarted` are ghosts: what the operator has heard, which topic's latest alert was dropped, whether a restart came after it. |
| `AlertQueue` | the promise of `notify.Async` | accepted alerts, and what every provider got. |
| `AsyncNotifier` | `async.go`, `multi.go` | One action per lock operation, check, channel operation and provider call. The RWMutex is Go's: a waiting writer keeps new readers out. |
| `Subsequences` | what a `WHERE` clause or a filtering loop keeps of a sequence | `Pick(s, I)`: the elements at the places `I`, in order. It says what `SelectSeq` says, but without its recursion, which no prover can use. |
| `StoreTypes`, `ResultStore` | `storage.Store` | What a reader of the port may see. |
| `SQLiteStore` | `sqlite.go` | The tables; `Begin`, one action per statement of `Sync`, `Commit`, and `Abort` for an error or a death at any of them. One connection: everyone else waits. |
| `MemoryStore` | `memory.go` | A slice and a map; every operation one step under the mutex. |
| `Adapters` | both adapters | Composes the two behind the same calls; `MemoryStore` takes its step of a `Sync` when SQLite commits. `swept` is a ghost: the second of the latest retention cut-off, which never goes back. |
| `ConfigReload` | `config/*.go`, the reload path of `server.go` | `pc` runs through `Start`, then the watcher. Saves are renames, truncations and writes, or move-and-rewrite; the kernel merges equal events and drops what overflows. |
| `Daemon` | `server.go` | `main` runs through boot, serve and the waits of the shutdown; `overstayed`, `late`, `refused` are ghosts that record timeouts, uses of the closed store and of the closed queue. |
| `StatusAPI` | `api/handlers.go`, dashboard | `ReadList`, then per monitor `ReadHistory` and `ReadState`, each one call; `Save` and `Observe` of the workers, `Reload` and `Restart` come between any two. `owed`, `kept` and `agree` are ghosts: whether anything excuses a card, and how many results store and machine both know. |
| `TermUI` | `cmd/termup/model.go`, `nav.go`, `layout.go`, what `view.go` makes of the selection | One action per message of `Update`; a fetch is a process of its own whose answer may be overtaken. `Body` and `Detail` are functions of the state: the grid of cards with bars and marker, and the panel. |

`MC*` modules only give constants their values; where these are plain, the cfg does
so directly. The definitions commented "a plausible slip" are not part of any
specification: each is the body a definition would have with a likely bug, and
shows that the property next to it can fail.

## 3. The runs

| Run | Checks | Bounds | States |
| --- | --- | --- | --- |
| `pipeline` | types, `StateIsVerdict`, `DownIsReported`, `CertOncePerCrossing`, `NoSilentOutage`, `RecoveryAnswersAlarm` | one monitor; the source's 3, 10, 5 and 14; lifetimes just above, at and below the threshold and expired | 299 thousand |
| `pool` | types, `OneWorkerPerMonitor`, `NoSendOnClosedJobs`, `QuiescentOnReturn`, `PipelineSpec`: the pool implements the pipeline | two monitors, two workers, crashes, certificates below the threshold or absent | 1.4 million |
| `pool_liveness` | `EveryBatchEnds`, `CancelStops`, `ProbedAgain` | two monitors behind one worker | 58 thousand |
| `alert_path` | `PictureIsTrue`, `WarningsAreGiven`, `OutageIsHeard` | one monitor, thresholds of one, a window and a queue of two, certificates at and below the threshold | 1.44 million |
| `notifier` | types, `NoPanic`, `DrainedOnNil`, `OutcomeIsTruth`, `KeepsPromise`, `CallsReturn`, `EventuallyDelivered` | two producers, two closers, four alerts, a queue of two, two providers that may hang | 194 thousand |
| `stores` | types, `SQLiteIsStore`, `MemoryIsStore`, `Interchangeable` | two names, two targets, a history of two, three half-seconds, three rows | 968 thousand |
| `status` | `CardIsExplained`, `OneOrphanAtMost` | one monitor, the source's threshold of 3, a history of 4 | 278 thousand |
| `daemon` | types, `LateIsReported`, `CleanExit`, `ShutdownEnds` | three writers, one request, a queue of two | 25 thousand |
| `reload` | types, `CaughtUp`, `EventuallyApplied` | three versions, three saves, an event queue of two | 18 thousand |
| `dashboard` | types, `MarkedIsDescribed`, `ScreenCatchesUp` | three monitors, three answers, three queries, two fetches, bars of two | 47 thousand |
| `cancelled_probe`, `missed_edit` | a promise the code does not keep, see section 5 | the smallest instance that shows it | |

Why the bounds are enough. The interesting cases need two of a thing: two
monitors for one worker to block the other, two workers to overlap, two producers
and two closers to race, a queue shorter than the number of alerts, a history
shorter than the number of results, two fetches for one answer to overtake
another. Monitors share nothing in the trackers, so `pipeline` has one; it runs
with the source's thresholds, at which a window of ten holds several runs of failures. The
pool's passing runs have thresholds of one: their properties relate the
stages of several goroutines, not the lengths of windows, and the proofs cover
every other value. In `alert_path` one result may raise three alerts, so one
monitor fills a queue of two; the alerts of other monitors would only fill it
sooner. In `status` the shortest history above the threshold makes the oldest result
fall out while the streak still counts; the request holds no state across cards, so
one monitor shows every card. Half-second moments put two results into one second, where the two
stores differ. Three rows in all let one monitor have more than `History` returns.
`dashboard`'s answers have cards with fewer, as many and more checks than bars.
`MaxRows`, `MaxEdits` and `Fetches` bound what the code leaves unbounded (rows of the
table, saves of the user, presses of `r`); each is a guard of the action it bounds
and named so in the module.

Deadlock is checked where the system never stops. It is off for the notifier (all
alerts raised and all closers back), the daemon (exited), the stores (the clock's
last moment with no result in hand) and the dashboard (quit).

### Fairness

- `Scheduler`: weak fairness of every goroutine and timer. `FinishProbe` is
  included because the context and the client of a probe both end after ten
  seconds (`scheduler.go:115`, `probe.go:22-41`). `RunStop` is strongly fair: a Go
  `select` picks at random among the ready cases, so a tick that is always ready
  does not hide `ctx.Done()` for ever. Nothing is assumed of the watcher, the
  signal or the restart.
  `ProbedAgain` has two premises: the monitor stays in the list and nobody cancels,
  and `List` does not fail for ever (if the loop asks for the list again and again, it gets one
  again and again). That the loop does come back to ask, over lost ticks, long batches and a
  pool of one, is what the run shows.
- `AsyncNotifier`: the lock, the channel and the deadline are fair, a provider is
  not. `EventuallyDelivered` alone has as its premise that provider calls end
  (`http.Client` with a timeout, `providers.go`).
- `AlertPath`: weak fairness of the queue's worker and of the end of a provider's
  call, delivered or not; a provider's client gives up after ten seconds. Nothing
  makes a probe happen, a queue close or a process end.
- `Daemon`: weak fairness of the main goroutine alone, whose waits all have timers.
- `ConfigReload`: weak fairness of the watcher's goroutine; none for the editor.
- `TermUI`: timers fire; each fetch by itself ends, at the latest with the client's
  timeout, and reaches the update loop. `StatusAPI` claims no liveness.

## 4. The proofs

Proved with TLAPS, for every value of the constants the named assumptions allow:

| Module | Theorems |
| --- | --- |
| `Scheduler_proofs` | `TypeCorrect`, `OneWorkerPerMonitorHolds`, `NoSendOnClosedJobsHolds`, `QuiescentOnReturnHolds`, `ImplementsPipeline`, `BatchNeverStuck`, `BatchShrinks` |
| `AlertPath_proofs`, on `ProbePipeline` | `TypeCorrect`, `StateIsVerdictHolds`, `DownIsReportedHolds`, `RecoveryAnswersAlarmHolds`, `CertOncePerCrossingHolds`, `NoSilentOutageHolds` |
| `AlertPath_proofs`, on `AlertPath` | `PathImplementsPipeline`, `PathTypeCorrect`, `PictureIsTrueHolds`, `WarningsAreGivenHolds` |
| `AsyncNotifier_proofs` | `TypeCorrect`, `NeverPanics`, `OutcomeIsTruthHolds`, `DrainedOnNilHolds`, `KeepsPromiseHolds`, `CallersNeverStuck` |
| `Adapters_proofs` | `TypeCorrect`, `SQLiteIsStoreHolds`, `MemoryIsStoreHolds`, `InterchangeableHolds` |
| `StatusAPI_proofs` | `TypeCorrect`, `OneOrphanAtMostHolds`, `CardIsExplainedHolds` |
| `ConfigReload_proofs` | `TypeCorrect`, `CaughtUpHolds` |
| `Daemon_proofs` | `TypeCorrect`, `LateIsReportedHolds`, `CleanExitHolds` |
| `TermUI_proofs` | `TypeCorrect`, `MarkedIsDescribedHolds` |

With these, every property of the runs that is not a liveness property is proved.
`AlertPath_proofs` begins with the lemmas about the operators of `Trackers` (what
`LastN` keeps, where the truncated division crosses the threshold, the types of the
three `Observe`), of which `StatusAPI_proofs` repeats two; `Adapters_proofs` begins with
those about `Subsequences`, of which `TermUI_proofs` repeats four.

Assumptions: the thresholds are positive naturals with `FlapWindow` at least
`FailThreshold` (as in the source, 10 and 3), `historyLimit` is above
`FailThreshold` (60 and 3), hours are integers, the names that configurations draw
on are finitely many, a limit and a bar length are positive, there is a worker and
a provider, what the daemon answers is a list of cards, queues have a positive
size, a version is none of the contents that are refused, the mark for a free
write lock is no closer, and the mark for an idle worker is no monitor's name.

Arguments:

- *StateIsVerdict* is not inductive: it looks at the last results, and the counter
  that decides the next verdict is not in it. `Agrees` ties the counter to the flap
  tracker's window: the last `failStreak` results failed, the one before them, if
  there is one, did not unless the monitor is down, and each state says how long
  the streak may be. `AgreesStep` shows that one more result keeps it, dropping the
  oldest entry or not; `AgreesVerdict` that it implies the verdict. This is where
  the window must be at least as long as the threshold.
- *DownIsReported* is inductive once types are known. *RecoveryAnswersAlarm* is about
  all that was announced since the account was opened. `Accounts` is the shape it can have: nothing
  yet, an outage, or an outage and the recovery that answers it. A monitor that comes up
  from down was last announced as down (*DownIsReported*), one that comes up from
  unknown is silent, and a restart, which makes the machine unknown, says nothing: so a
  recovery never stands behind another.
- *CertOncePerCrossing* needs in addition that a result in the certificate stage
  has a certificate, and `DaysLeftThreshold` for the division that truncates
  towards zero. `CertAccount` ties the tracker's flag to the account: it is set exactly
  when the last entry is an alert, so that an alert can only follow the restart that
  cleared it or open an account.
- *NoSilentOutage* is about a window and holds of any: only the flag, which is the
  verdict of the window (`FlagIsVerdict`), is about states. `Runs(w, n, q, r)` says of the
  first `n` results of a window without an outage that they end in `r` failures,
  that `q` runs of failures are over before them, that every flip begins or ends a
  run, and how many failures that makes at most. `RunsStep` adds a result,
  `RunsOfWindow` is the induction, over a set of numbers (`NatSetInduction`, from
  the well-foundedness of `<`), which needs no operator as a parameter.
- *Scheduler*: `BInv` is the types, `OneWorkerPerMonitor` and `BatchLife`: outside a
  batch there is no worker and no dispatch goroutine, the channel is open while the
  loop waits for the dispatch goroutines, and when it waits for the workers it is
  closed and no dispatch goroutine is left. Without `BatchLife` a new batch could
  meet the workers of the old. The other two properties follow from it.
- *ImplementsPipeline* maps a monitor's stage to that of the worker that holds it;
  `JobHeld`, a part of the types, says that a worker holds a monitor exactly while it is busy, and
  `NoMonitorAssumption` that an idle worker's entry is nobody's name.
  `AbsMove` and `AbsStutter` say what a worker's step does to the mapping; every
  step of the scheduler is then a step of the pipeline for one monitor or a stutter.
  With it, what is proved of the pipeline holds of the pool.
- *BatchNeverStuck* and *BatchShrinks* are the part of `EveryBatchEnds` that is not about
  fairness. What each goroutine waits for is written out (`LoopReady`,
  `DispatchReady`, `WorkerReady`). With `BInv`, and with the pool complete as long as
  there is something to hand over (`PoolInv`), a batch always has one that is ready;
  and every step of one takes something from `Left` - a stage of a monitor, a
  worker's exit, one of the two `Wait`s - to which nothing is added, whatever ticks,
  signals and reloads come between. `Left` being finite for finitely many monitors
  and workers, a batch can neither wait for itself nor go round in circles.
- *Daemon*: `Inv` has, beside the two properties, that a wait that is over was
  honoured or overstayed (`Honoured`), that the queue is empty or undrained
  (`Drained`), the life of the store, and that nothing works before it is started.

- *PathImplementsPipeline*: each step of the alert path is a step of the pipeline or
  leaves it alone, so `StateIsVerdict` and the others hold of it too.
- *PictureIsTrue* is about the last alert on its way, and a machine that has just
  restarted is neither up nor down. `Picture` is its inductive form: a machine that
  is not down, of a monitor the operator at last thinks down, owes it to a restart.
  What `Send` does to the last alert of a topic is one lemma, what a delivery, failed
  or not, does to it another. *WarningsAreGiven* is inductive with the types; the
  work is in the alerts that change places between queue, hand and operator.
- *AsyncNotifier*. `LockInv` says who may hold what: a writer that has the lock
  excludes readers, a producer in front of its send holds it for reading and has
  seen the flag unset, and the channel is closed after the flag is set. `NoPanic`
  follows.
  `FanInv` says what each provider has got of the alert in delivery, and with it the
  mapping of *KeepsPromise* is checked step by step: accepting appends to what is
  accepted, and everything else leaves it as it is or moves an alert to the next
  provider. `AnswerInv` (an alert whose caller got nil, and no other, is queued, in
  hand or delivered, and once) gives *OutcomeIsTruth*, `DrainInv` (the worker leaves an empty,
  closed queue only) *DrainedOnNil*. `HeldInv`, the converse of a part of `LockInv` (whoever holds
  the lock is inside Notify or Close), gives *CallersNeverStuck*: nobody under way in
  either waits for all the others, and nobody waits for the worker, which a
  provider may hold up for ever.
- *OneOrphanAtMost*: a removed monitor that the batch has still to probe, or whose
  result is still to be saved, has an empty history (`OrphanInv`); after that save it is in no
  batch, so none follows.
- *CardIsExplained*. `Follows(h, o, k, t)` says that the machine `t` is what the
  newest `k` results of `h`, the last `o` left out, make of it, in terms of the age of
  a result rather than of its place, so that a history cut at its old end changes
  nothing. Save and Observe exchange `o` between 1 and 0; a failed save, a removal
  and a restart put `k` to 0. A half-done card keeps `Follows` for its bars until
  something is observed, and at `k = FailThreshold` it implies the verdict.
- *Stores*. The rows of all monitors stand in one table and the in-memory
  histories apart, so the first thing is what filtering does: `Rank` and `Nth`
  number the members of a set of places in order, and with them `Pick` of a longer
  sequence, of a part of a part and of the last of a part can be computed without
  an induction over the sequence. `Alike` relates the adapters: the table of
  monitors lists what the slice does (`Tabled`), and of every monitor both
  histories are in order of time, end no later than the result in hand (`Due`),
  what is in memory is the newest part of the rows (`Matched`), and what is missing
  there is of the second of the latest cut-off, unless the ring is full (`Lacking`). The order of
  time is what makes a sweep a cut: on both sides it removes a first part, and so
  the newest part of the one stays the newest part of the other; and a row that SQLite keeps
  though the in-memory store lacks it is neither older than the second of this cut-off nor,
  cut-offs never going back, newer (`LackingPrune`). `SyncInv` says what the statements of a
  transaction under way have done to its copy of the tables. `SaveEffect`, `PruneEffect`
  and `SyncEffect` show that the operations keep the relation; *Interchangeable*
  follows. For *SQLiteIsStore* and *MemoryIsStore* each step is a step of the store or
  leaves what a reader sees alone; a sweep is the delicate one, since it removes
  rows from a table of which a history shows the newest only (`DropsFirst`).
- *MarkedIsDescribed* rests on `Placed`: a selection stands on a visible card and on
  one of its bars, if there is any. Whatever a message does to list, filter or
  selection, `ClampFits` and `FirstFits` say that what it leaves is placed again;
  `CardProperties` and `BarProperties` relate the three ways the code counts the bars.
- *CaughtUp*. `News` says what stands in for it away from rest: before the watch
  nothing was edited since the load; behind it the version in the file is in the
  store, about to be, or an event is on its way that makes the watcher read it.
  `SavesAreEdits` has the heart of it: a step of a save that leaves a version in the
  file raises an event that counts.

Only model-checked: the nine liveness properties, since TLAPS has no fairness and no
ENABLED. For the scheduler's batch and the notifier's callers the theorems named
`...NeverStuck` prove, with the conditions written out instead of ENABLED, that
there is always a goroutine that can move; elsewhere the absence of deadlock is
model-checked too.

## 5. Disagreements found

Each of the first two is a run that fails, with the counterexample as evidence.

1. `cancelled_probe`: SIGTERM cancels the probes in flight, and a cancelled probe
   counts as a failure. A monitor with two failures behind it is announced down by
   the daemon's own shutdown (`README.md:38-39` asks for three failures of the
   target).
2. `missed_edit`: an edit between the boot's `loadConfig` and the watcher's `Add`
   is not applied until the file is saved again (`README.md:33-34`, `110`).
3. No run, since `OneOrphanAtMost` says how far it goes: a probe in flight saves its
   result after the reload that removed its monitor, and the row stays, against
   `sqlite.go:173`. It is one row at most, and the next `Sync` prunes it.
4. No run, since it takes a single step: with a query applied the filter box offers
   "esc clear" (`view.go:78`), and esc then quits (`model.go:97`, action `Quit` of
   `TermUI`).

## 6. Not modelled

- Time. Timers fire at any moment, jitter is arbitrary, and the sum of the
  shutdown's timeouts is not compared with what a supervisor allows.
- The text of things: URLs, YAML, payloads, JSON, SQL, colours, the columns of the
  grid. A configuration file written in several pieces, the first of which parses,
  is left out with it; so are the providers' payloads and the routes of the API.
- The stage timings of a probe, which no decision depends on, and with them the race
  of the trace hooks on a dual-stack host (`probe.go:77`).
- The status request, which reads the list to see whether the monitor is there, and
  then its state: an answer of two facts that nothing sets side by side.
- Retention in `StatusAPI` and `Scheduler`: the sweep is an operation of the stores.
- Failures of the store other than those of `Save` (`StatusAPI`), `Sync` and `List`.
- Two daemons over one socket and one database.

## 7. What is left open

Every part that keeps state or decides anything has a module, and the plan is done.
A team that goes on would give `Daemon` a clock, to compare the waits of a shutdown
with the time a supervisor allows.
