------------------------------ MODULE Scheduler ------------------------------
(***************************************************************************)
(* scheduler.Run with its goroutines: the loop that lists the monitors and  *)
(* runs one batch, one dispatch goroutine per monitor of the batch, and the *)
(* pool of workers that probe, save and observe.  A batch has its own       *)
(* unbuffered channel jobs.  Around it: the ticker, the cancellation of the *)
(* root context (SIGINT, SIGTERM), the config watcher, which replaces the   *)
(* store's list under a running batch, and the end of the process.          *)
(*                                                                          *)
(* Time is not modelled: the jitter timer of a dispatch goroutine fires at  *)
(* any moment, and probes of one batch may outlast the ticker's interval.   *)
(***************************************************************************)
EXTENDS Trackers

CONSTANTS Monitors,   \* the names a config may list
          Workers,    \* the worker slots of a batch
          Hours,      \* the certificate lifetimes, in hours, probes can read
          MayCrash    \* whether the process may also die without a signal

ASSUME HoursAssumption == Hours \subseteq Int
ASSUME WorkersAssumption == Workers # {}
ASSUME MayCrashAssumption == MayCrash \in BOOLEAN

VARIABLES
  rpc,        \* where Run is: list, dispatch, join (wg.Wait), select, returned
  tick,       \* the one tick the ticker's channel holds
  ctxDone,    \* the root context is cancelled
  disp,       \* the dispatch goroutine of each monitor: none, timer, send
  jobsClosed, \* close(jobs) has run in this batch
  wpc,        \* where each worker is
  job,        \* the monitor a busy worker holds
  res,        \* its result
  monitors,   \* the monitors the store lists
  track, certWarned, flap,   \* the trackers
  told, certTold             \* the alerts, as in ProbePipeline

loopVars == <<rpc, tick, ctxDone>>
batchVars == <<disp, jobsClosed>>
workerVars == <<wpc, job, res>>
trackerVars == <<track, certWarned, flap, told, certTold>>
vars == <<loopVars, batchVars, workerVars, monitors, trackerVars>>

Idle == {"off", "recv"}       \* a worker slot unused, or receiving from jobs
Steps == {"probing", "save", "observe", "cert", "flap"}
Busy(w) == wpc[w] \in Steps
NoMonitor == "none"
ASSUME NoMonitorAssumption == NoMonitor \notin Monitors

\* Module ProbePipeline over the monitor a worker holds.
Holders(m) == {w \in Workers : Busy(w) /\ job[w] = m}
Holder(m) == CHOOSE w \in Workers : job[w] = m
AbsStage(m) ==
  IF \E w \in Workers : job[w] = m
  THEN LET at == wpc[Holder(m)] IN IF at = "save" THEN "observe" ELSE at
  ELSE "idle"
AbsResult(m) ==
  IF \E w \in Workers : job[w] = m /\ wpc[w] # "probing"
  THEN res[Holder(m)] ELSE NoAnswer("none")
Pipeline == INSTANCE ProbePipeline WITH
  stage <- [m \in Monitors |-> AbsStage(m)],
  result <- [m \in Monitors |-> AbsResult(m)]

Configs == SUBSET Monitors \ {{}}   \* validate rejects an empty list

Init ==
  /\ rpc = "list"
  /\ tick = FALSE
  /\ ctxDone = FALSE
  /\ disp = [m \in Monitors |-> "none"]
  /\ jobsClosed = FALSE
  /\ wpc = [w \in Workers |-> "off"]
  /\ job = [w \in Workers |-> NoMonitor]
  /\ res = [w \in Workers |-> NoAnswer("none")]
  /\ track = [m \in Monitors |-> FreshTracker]
  /\ certWarned = [m \in Monitors |-> FALSE]
  /\ flap = [m \in Monitors |-> FreshFlap]
  /\ certTold = [m \in Monitors |-> <<>>]
  /\ monitors \in Configs
  /\ told = [m \in Monitors |-> <<>>]

-----------------------------------------------------------------------------
(* Run and runOnce.                                                         *)

\* The list is read once; the workers and the dispatch goroutines start.
ListOk ==
  /\ rpc = "list"
  /\ rpc' = "dispatch"
  /\ disp' = [m \in Monitors |-> IF m \in monitors THEN "timer" ELSE disp[m]]
  /\ jobsClosed' = FALSE
  /\ wpc' = [w \in Workers |-> IF wpc[w] = "off" THEN "recv" ELSE wpc[w]]
  /\ UNCHANGED <<tick, ctxDone, job, res, monitors, trackerVars>>

\* A plausible slip: the loop gives up when List fails.
FatalListErr ==
  /\ rpc = "list"
  /\ rpc' = "returned"
  /\ UNCHANGED <<tick, ctxDone, batchVars, workerVars, monitors, trackerVars>>

\* store.List fails: the batch is skipped.
ListErr ==
  /\ rpc = "list"
  /\ rpc' = "select"
  /\ UNCHANGED <<tick, ctxDone, batchVars, workerVars, monitors, trackerVars>>

\* A plausible slip: dispatch.Wait(), but no close(jobs).
ForgottenClose ==
  /\ rpc = "dispatch"
  /\ \A m \in Monitors : disp[m] = "none"
  /\ rpc' = "join"
  /\ UNCHANGED <<tick, ctxDone, batchVars, workerVars, monitors, trackerVars>>

\* A plausible slip: close(jobs) without dispatch.Wait().
EagerCloseJobs ==
  /\ rpc = "dispatch"
  /\ jobsClosed' = TRUE
  /\ rpc' = "join"
  /\ UNCHANGED <<tick, ctxDone, disp, workerVars, monitors, trackerVars>>

\* dispatch.Wait() returns; close(jobs).
CloseJobs ==
  /\ rpc = "dispatch"
  /\ \A m \in Monitors : disp[m] = "none"
  /\ jobsClosed' = TRUE
  /\ rpc' = "join"
  /\ UNCHANGED <<tick, ctxDone, disp, workerVars, monitors, trackerVars>>

\* A plausible slip: no wg.Wait().
NoJoin ==
  /\ rpc = "join"
  /\ rpc' = "select"
  /\ UNCHANGED <<tick, ctxDone, batchVars, workerVars, monitors, trackerVars>>

\* wg.Wait() returns.
Join ==
  /\ rpc = "join"
  /\ \A w \in Workers : wpc[w] = "off"
  /\ rpc' = "select"
  /\ UNCHANGED <<tick, ctxDone, batchVars, workerVars, monitors, trackerVars>>

RunTick ==
  /\ rpc = "select"
  /\ tick
  /\ tick' = FALSE
  /\ rpc' = "list"
  /\ UNCHANGED <<ctxDone, batchVars, workerVars, monitors, trackerVars>>

RunStop ==
  /\ rpc = "select"
  /\ ctxDone
  /\ rpc' = "returned"
  /\ UNCHANGED <<tick, ctxDone, batchVars, workerVars, monitors, trackerVars>>

-----------------------------------------------------------------------------
(* A dispatch goroutine: the jitter timer, then the send on jobs.  Each of  *)
(* its two selects may also take ctx.Done().                                *)

JitterOver(m) ==
  /\ disp[m] = "timer"
  /\ disp' = [disp EXCEPT ![m] = "send"]
  /\ UNCHANGED <<loopVars, jobsClosed, workerVars, monitors, trackerVars>>

AbandonDispatch(m) ==
  /\ disp[m] # "none"
  /\ ctxDone
  /\ disp' = [disp EXCEPT ![m] = "none"]
  /\ UNCHANGED <<loopVars, jobsClosed, workerVars, monitors, trackerVars>>

\* A send meets a receive.  A probe started under a cancelled context can
\* only come back cancelled.
Handoff(m, w) ==
  /\ disp[m] = "send"
  /\ wpc[w] = "recv"
  /\ ~jobsClosed
  /\ disp' = [disp EXCEPT ![m] = "none"]
  /\ wpc' = [wpc EXCEPT ![w] = "probing"]
  /\ job' = [job EXCEPT ![w] = m]
  /\ res' = [res EXCEPT ![w] = IF ctxDone THEN NoAnswer("cancelled")
                                          ELSE NoAnswer("none")]
  /\ UNCHANGED <<loopVars, jobsClosed, monitors, trackerVars>>

-----------------------------------------------------------------------------
(* A worker: range over jobs, probeOne for each.                            *)

\* A plausible slip: a bare receive, which a closed channel answers with a
\* zero monitor.
ZeroJob(w) ==
  /\ wpc[w] = "recv"
  /\ jobsClosed
  /\ wpc' = [wpc EXCEPT ![w] = "probing"]
  /\ UNCHANGED <<loopVars, batchVars, job, res, monitors, trackerVars>>

WorkerExit(w) ==
  /\ wpc[w] = "recv"
  /\ jobsClosed
  /\ wpc' = [wpc EXCEPT ![w] = "off"]
  /\ UNCHANGED <<loopVars, batchVars, job, res, monitors, trackerVars>>

\* What a probe may bring back: only a cancelled context cancels it.
Outcomes(w) ==
  IF res[w].err = "cancelled" THEN {NoAnswer("cancelled")}
  ELSE {r \in Pipeline!ProbeResults : r.err = "cancelled" => ctxDone}

FinishProbe(w) ==
  /\ wpc[w] = "probing"
  /\ \E r \in Outcomes(w) : res' = [res EXCEPT ![w] = r]
  /\ wpc' = [wpc EXCEPT ![w] = "save"]
  /\ UNCHANGED <<loopVars, batchVars, job, monitors, trackerVars>>

\* What the store keeps of the result is module StatusAPI's; a failed Save is
\* logged and the result observed all the same.
Save(w) ==
  /\ wpc[w] = "save"
  /\ wpc' = [wpc EXCEPT ![w] = "observe"]
  /\ UNCHANGED <<loopVars, batchVars, job, res, monitors, trackerVars>>

\* machine.Observe, and the alert of an alarm-worthy transition.
Observe(w) ==
  LET m == job[w]
      next == MachineObserve(track[m], IsUp(res[w]))
  IN  /\ wpc[w] = "observe"
      /\ track' = [track EXCEPT ![m] = next]
      /\ told' = [told EXCEPT ![m] =
           IF IsAlarm(track[m].state, next.state)
           THEN Pipeline!Announce(@, next.state) ELSE @]
      /\ wpc' = [wpc EXCEPT ![w] = IF res[w].hasCert THEN "cert" ELSE "flap"]
      /\ UNCHANGED <<loopVars, batchVars, job, res, monitors,
                     certWarned, flap, certTold>>

ObserveCert(w) ==
  LET m == job[w]
  IN  /\ wpc[w] = "cert"
      /\ certWarned' = [certWarned EXCEPT ![m] = CertObserve(@, res[w])]
      /\ certTold' = [certTold EXCEPT ![m] =
           Pipeline!CertNews(@, certWarned[m], res[w])]
      /\ wpc' = [wpc EXCEPT ![w] = "flap"]
      /\ UNCHANGED <<loopVars, batchVars, job, res, monitors, track, flap, told>>

ObserveFlap(w) ==
  LET m == job[w]
  IN  /\ wpc[w] = "flap"
      /\ flap' = [flap EXCEPT ![m] = FlapObserve(@, IsUp(res[w]))]
      /\ wpc' = [wpc EXCEPT ![w] = "recv"]
      /\ job' = [job EXCEPT ![w] = NoMonitor]
      /\ res' = [res EXCEPT ![w] = NoAnswer("none")]
      /\ UNCHANGED <<loopVars, batchVars, monitors, track, certWarned, told, certTold>>

-----------------------------------------------------------------------------
(* The surroundings.                                                        *)

\* The ticker's channel holds one tick; a tick that finds it full is dropped.
Tick ==
  /\ rpc # "returned"
  /\ ~tick
  /\ tick' = TRUE
  /\ UNCHANGED <<rpc, ctxDone, batchVars, workerVars, monitors, trackerVars>>

Cancel ==
  /\ ~ctxDone
  /\ ctxDone' = TRUE
  /\ UNCHANGED <<rpc, tick, batchVars, workerVars, monitors, trackerVars>>

\* The config watcher: store.Sync replaces the list and prunes, in one
\* transaction, whatever a batch is doing.
Sync ==
  /\ \E new \in Configs : monitors' = new
  /\ UNCHANGED <<loopVars, batchVars, workerVars, trackerVars>>

\* The process ends - a crash, or Run has returned - and another one starts:
\* initializeStorage syncs the store with the config it finds.
Restart ==
  /\ MayCrash \/ rpc = "returned"
  /\ rpc' = "list"
  /\ tick' = FALSE
  /\ ctxDone' = FALSE
  /\ disp' = [m \in Monitors |-> "none"]
  /\ jobsClosed' = FALSE
  /\ wpc' = [w \in Workers |-> "off"]
  /\ job' = [w \in Workers |-> NoMonitor]
  /\ res' = [w \in Workers |-> NoAnswer("none")]
  /\ track' = [m \in Monitors |-> FreshTracker]
  /\ certWarned' = [m \in Monitors |-> FALSE]
  /\ flap' = [m \in Monitors |-> FreshFlap]
  /\ certTold' = [m \in Monitors |-> Pipeline!CertForgotten(certTold[m])]
  /\ monitors' \in Configs
  /\ UNCHANGED told

WorkerStep(w) ==
  \/ FinishProbe(w)
  \/ Save(w)
  \/ Observe(w)
  \/ ObserveCert(w)
  \/ ObserveFlap(w)

Next ==
  \/ ListOk \/ ListErr \/ CloseJobs \/ Join \/ RunTick \/ RunStop
  \/ \E m \in Monitors :
       \/ JitterOver(m)
       \/ AbandonDispatch(m)
       \/ \E w \in Workers : Handoff(m, w)
  \/ \E w \in Workers : WorkerExit(w) \/ WorkerStep(w)
  \/ Tick \/ Cancel \/ Sync \/ Restart

(* Fairness.  Every goroutine that can move does, and every timer fires.    *)
(* FinishProbe is fair because the probe's context and its client both end  *)
(* after 10s.  RunStop is strongly fair because a Go select that finds      *)
(* several cases ready picks among them at random: a tick that is always    *)
(* ready cannot hide ctx.Done() forever.  The watcher, the signal and the   *)
(* restart owe nothing.                                                     *)
Fairness ==
  /\ WF_vars(ListOk \/ ListErr)
  /\ WF_vars(CloseJobs)
  /\ WF_vars(Join)
  /\ WF_vars(RunTick)
  /\ SF_vars(RunStop)
  /\ \A m \in Monitors : WF_vars(JitterOver(m)) /\ WF_vars(AbandonDispatch(m))
  /\ WF_vars(\E m \in Monitors, w \in Workers : Handoff(m, w))
  /\ \A w \in Workers : WF_vars(WorkerExit(w)) /\ WF_vars(WorkerStep(w))
  /\ WF_vars(Tick)

Spec == Init /\ [][Next]_vars
FairSpec == Spec /\ Fairness

-----------------------------------------------------------------------------
\* A busy worker holds a monitor, and no other does: what is saved and
\* observed has a name.
JobHeld == \A w \in Workers : job[w] \in Monitors <=> Busy(w)

(* Type correctness of the goroutines' control state and of the store, and  *)
(* of what a busy worker holds; the trackers' types are ProbePipeline's,    *)
(* which PipelineSpec covers.                                               *)
TypeOK ==
  /\ rpc \in {"list", "dispatch", "join", "select", "returned"}
  /\ tick \in BOOLEAN /\ ctxDone \in BOOLEAN /\ jobsClosed \in BOOLEAN
  /\ disp \in [Monitors -> {"none", "timer", "send"}]
  /\ wpc \in [Workers -> Idle \union Steps]
  /\ job \in [Workers -> Monitors \union {NoMonitor}]
  /\ res \in [Workers -> Result]
  /\ monitors \in Configs
  /\ JobHeld

(* Two workers never hold the same monitor, and a monitor still waiting to  *)
(* be dispatched is held by none: the trackers of one monitor see its       *)
(* results one at a time, in probe order, although the pool is concurrent   *)
(* and a batch may outlast the interval.                                    *)
OneWorkerPerMonitor ==
  /\ \A v, w \in Workers : Busy(v) /\ Busy(w) /\ job[v] = job[w] => v = w
  /\ \A m \in Monitors : disp[m] # "none" => Holders(m) = {}

(* close(jobs) waits for the dispatch goroutines: none is left that could   *)
(* send on the closed channel and panic.                                    *)
NoSendOnClosedJobs ==
  jobsClosed => \A m \in Monitors : disp[m] # "send"

(* When Run returns nothing of it is left behind: no worker that would      *)
(* still save, no dispatch goroutine.  server.run closes the store on the   *)
(* strength of this (server.go:207-208).                                    *)
QuiescentOnReturn ==
  rpc = "returned" =>
    /\ \A w \in Workers : wpc[w] = "off"
    /\ \A m \in Monitors : disp[m] = "none"

(* The pool as a whole implements ProbePipeline: seen per monitor, the      *)
(* goroutines of a batch are one sequential pipeline, so what ProbePipeline *)
(* guarantees of states and alerts holds for the concurrent scheduler.      *)
PipelineSpec == Pipeline!Spec

(* Every batch that starts ends: the loop gets back to its select, so a     *)
(* batch cannot hang on its own channel, pool or dispatch goroutines.       *)
EveryBatchEnds == rpc = "dispatch" ~> rpc = "select"

(* After a signal Run returns, whatever it was doing; unless the process    *)
(* dies first, the wait in server.run is for something that comes.          *)
CancelStops == ctxDone ~> (rpc = "returned" \/ ~ctxDone)

(* A monitor that stays configured is probed again and again, if no signal  *)
(* comes and the store does not fail List for ever: a hot reload during a   *)
(* batch, a List that fails now and then, or a long batch that swallows     *)
(* ticks starves nobody.  That the loop comes back to List is not assumed;  *)
(* a loop that stopped ticking would violate this.                          *)
ProbedAgain ==
  \A m \in Monitors :
    /\ <>[](m \in monitors /\ ~ctxDone)
    /\ []<>(rpc = "list") => []<><<ListOk>>_vars
    => []<>(Holders(m) # {})

(* README.md:38 says a monitor flips to down only after 3 consecutive       *)
(* failures.  A failure here is a probe the target failed, not one that the *)
(* daemon itself cancelled: the step that turns a monitor down is not the   *)
(* processing of a cancelled probe.                                         *)
DownAlertsAreEarned ==
  [][\A m \in Monitors :
       track'[m].state = "down" /\ track[m].state # "down"
         => \A w \in Holders(m) : res[w].err # "cancelled"]_vars
=============================================================================
