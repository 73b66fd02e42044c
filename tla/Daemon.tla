-------------------------------- MODULE Daemon --------------------------------
(***************************************************************************)
(* server.Start and server.run: the boot sequence, the goroutines run       *)
(* starts, and the graceful shutdown, a fixed sequence of waits of which     *)
(* each is bounded by a timeout of 5s.  A worker that overstays is left      *)
(* behind and goes on until the process exits.                              *)
(*                                                                          *)
(* What the workers do is modelled elsewhere (Scheduler, AsyncNotifier);     *)
(* here they write to the store, raise alerts, and return or do not.  That   *)
(* a returned scheduler writes nothing is Scheduler's QuiescentOnReturn.     *)
(***************************************************************************)
EXTENDS Integers

CONSTANT Cap   \* the size of the notifier's queue

ASSUME CapAssumption == Cap \in Nat \ {0}

VARIABLES
  main,       \* where Start or run is
  ctxDone,    \* SIGINT or SIGTERM has cancelled the root context
  wr,         \* each store writer: off, running, writing, done
  handler,    \* an API request: idle, reading
  storeOpen,
  closed,     \* the notifier accepts no more alerts
  queued,     \* the alerts it still has to deliver
  overstayed, \* the waits that ended by timeout: what each was for
  late,       \* the writers whose write met the closed store
  refused     \* an alert met the closed notifier

workVars == <<wr, handler>>
ghostVars == <<overstayed, late, refused>>
vars == <<main, ctxDone, workVars, storeOpen, closed, queued, ghostVars>>

Writers == {"scheduler", "retention", "watcher"}

Positions == {"config", "listener", "storage", "notifier", "serve",
              "api", "scheduler", "retention", "watcher", "drain", "drained",
              "close", "return", "exited", "fatal"}
BootSteps == {"config", "listener", "storage", "notifier"}
Live == main \notin {"exited", "fatal"}    \* the process runs

Init ==
  /\ main = "config"
  /\ ctxDone = FALSE
  /\ wr = [w \in Writers |-> "off"]
  /\ handler = "idle"
  /\ storeOpen = FALSE
  /\ closed = FALSE
  /\ queued = 0
  /\ overstayed = {}
  /\ late = {}
  /\ refused = FALSE

-----------------------------------------------------------------------------
(* Start.                                                                   *)

LoadConfig ==
  /\ main = "config"
  /\ main' = "listener"
  /\ UNCHANGED <<ctxDone, workVars, storeOpen, closed, queued, ghostVars>>

InitializeListener ==
  /\ main = "listener"
  /\ main' = "storage"
  /\ UNCHANGED <<ctxDone, workVars, storeOpen, closed, queued, ghostVars>>

\* NewSQLite, and the first Sync.
InitializeStorage ==
  /\ main = "storage"
  /\ main' = "notifier"
  /\ storeOpen' = TRUE
  /\ UNCHANGED <<ctxDone, workVars, closed, queued, ghostVars>>

\* The notifiers are built; run installs the signal handler and starts the
\* writers and the API.
StartWorkers ==
  /\ main = "notifier"
  /\ main' = "serve"
  /\ wr' = [w \in Writers |-> "running"]
  /\ UNCHANGED <<ctxDone, handler, storeOpen, closed, queued, ghostVars>>

\* log.Fatal in any step of Start, a signal before there is a handler for it,
\* or the API failing to serve: the process ends there.
Fatal ==
  /\ main \in BootSteps \union {"serve"}
  /\ main' = "fatal"
  /\ UNCHANGED <<ctxDone, workVars, storeOpen, closed, queued, ghostVars>>

-----------------------------------------------------------------------------
(* run, from the signal on.                                                 *)

Signal ==
  /\ Live /\ main \notin BootSteps
  /\ ~ctxDone
  /\ ctxDone' = TRUE
  /\ UNCHANGED <<main, workVars, storeOpen, closed, queued, ghostVars>>

BeginShutdown ==
  /\ main = "serve"
  /\ ctxDone
  /\ main' = "api"
  /\ UNCHANGED <<ctxDone, workVars, storeOpen, closed, queued, ghostVars>>

\* A plausible slip: run returns without draining the notifier.
UndrainedAfterWait ==
  [api |-> "scheduler", scheduler |-> "retention", retention |-> "watcher",
   watcher |-> "close", drained |-> "close"]

\* What run does after each of its waits, in this order.
AfterWait ==
  [api |-> "scheduler", scheduler |-> "retention", retention |-> "watcher",
   watcher |-> "drain", drained |-> "close"]

Waits == DOMAIN AfterWait

Ended(w) ==
  \/ w \in Writers /\ wr[w] = "done"
  \/ w = "api" /\ handler = "idle"
  \/ w = "drained" /\ queued = 0

\* A plausible slip: the wait does not look at what it waits for.
HastyStop(w) ==
  /\ main = w
  /\ main' = AfterWait[w]
  /\ UNCHANGED <<ctxDone, workVars, storeOpen, closed, queued, ghostVars>>

\* srv.Shutdown, waitFor and notifier.Close each return when what they wait
\* for has ended ...
Stopped(w) ==
  /\ main = w
  /\ Ended(w)
  /\ main' = AfterWait[w]
  /\ UNCHANGED <<ctxDone, workVars, storeOpen, closed, queued, ghostVars>>

\* A plausible slip: the wait is not bounded.
WaitForEver(w) == FALSE

\* ... or when their timeout is over.
Overstays(w) ==
  /\ main = w
  /\ main' = AfterWait[w]
  /\ overstayed' = overstayed \union {w}
  /\ UNCHANGED <<ctxDone, workVars, storeOpen, closed, queued, late, refused>>

\* notifier.Close: no alert is accepted from here on.
CloseNotifier ==
  /\ main = "drain"
  /\ main' = "drained"
  /\ closed' = TRUE
  /\ UNCHANGED <<ctxDone, workVars, storeOpen, queued, ghostVars>>

\* sql.DB.Close does not wait for a statement that is running.
CloseStore ==
  /\ main = "close"
  /\ main' = "return"
  /\ storeOpen' = FALSE
  /\ UNCHANGED <<ctxDone, workVars, closed, queued, ghostVars>>

\* run returns, then main: the process takes with it whoever is left.
Exit ==
  /\ main = "return"
  /\ main' = "exited"
  /\ UNCHANGED <<ctxDone, workVars, storeOpen, closed, queued, ghostVars>>

-----------------------------------------------------------------------------
(* The goroutines.                                                          *)

\* A select that finds ctx.Done() and a tick or an event ready takes either,
\* so a writer may begin one more write after the signal.
BeginWrite(w) ==
  /\ Live
  /\ wr[w] = "running"
  /\ wr' = [wr EXCEPT ![w] = "writing"]
  /\ UNCHANGED <<main, ctxDone, handler, storeOpen, closed, queued, ghostVars>>

EndWrite(w) ==
  /\ Live
  /\ wr[w] = "writing"
  /\ wr' = [wr EXCEPT ![w] = "running"]
  /\ late' = IF storeOpen THEN late ELSE late \union {w}
  /\ UNCHANGED <<main, ctxDone, handler, storeOpen, closed, queued,
                 overstayed, refused>>

\* The watcher may also give up on its own, when fsnotify fails.
Return(w) ==
  /\ Live
  /\ wr[w] = "running"
  /\ ctxDone \/ w = "watcher"
  /\ wr' = [wr EXCEPT ![w] = "done"]
  /\ UNCHANGED <<main, ctxDone, handler, storeOpen, closed, queued, ghostVars>>

\* A plausible slip: the queue has no bound.
UncappedAlert ==
  /\ Live
  /\ wr["scheduler"] \in {"running", "writing"}
  /\ queued' = IF ~closed THEN queued + 1 ELSE queued
  /\ refused' = (refused \/ closed)
  /\ UNCHANGED <<main, ctxDone, workVars, storeOpen, closed, overstayed, late>>

\* A worker of the pool notifies, while another may be writing; a full queue
\* drops the alert.
RaiseAlert ==
  /\ Live
  /\ wr["scheduler"] \in {"running", "writing"}
  /\ queued' = IF ~closed /\ queued < Cap THEN queued + 1 ELSE queued
  /\ refused' = (refused \/ closed)
  /\ UNCHANGED <<main, ctxDone, workVars, storeOpen, closed, overstayed, late>>

DeliverAlert ==
  /\ Live
  /\ queued > 0
  /\ queued' = queued - 1
  /\ UNCHANGED <<main, ctxDone, workVars, storeOpen, closed, ghostVars>>

BeginRequest ==
  /\ main = "serve"
  /\ handler = "idle"
  /\ handler' = "reading"
  /\ UNCHANGED <<main, ctxDone, wr, storeOpen, closed, queued, ghostVars>>

EndRequest ==
  /\ Live
  /\ handler = "reading"
  /\ handler' = "idle"
  /\ late' = IF storeOpen THEN late ELSE late \union {"api"}
  /\ UNCHANGED <<main, ctxDone, wr, storeOpen, closed, queued, overstayed, refused>>

MainStep ==
  \/ BeginShutdown
  \/ \E w \in Waits : Stopped(w) \/ Overstays(w)
  \/ CloseNotifier \/ CloseStore \/ Exit

Next ==
  \/ LoadConfig \/ InitializeListener \/ InitializeStorage \/ StartWorkers \/ Fatal
  \/ Signal \/ MainStep
  \/ \E w \in Writers : BeginWrite(w) \/ EndWrite(w) \/ Return(w)
  \/ RaiseAlert \/ DeliverAlert
  \/ BeginRequest \/ EndRequest

Spec == Init /\ [][Next]_vars

(* Fairness for the main goroutine alone: its timers fire and it runs.  The *)
(* writers, the handler and the providers may hang for ever.                *)
FairSpec == Spec /\ WF_vars(MainStep)

-----------------------------------------------------------------------------
(* Type correctness.                                                        *)
TypeOK ==
  /\ main \in Positions
  /\ ctxDone \in BOOLEAN /\ storeOpen \in BOOLEAN
  /\ closed \in BOOLEAN /\ refused \in BOOLEAN
  /\ wr \in [Writers -> {"off", "running", "writing", "done"}]
  /\ handler \in {"idle", "reading"}
  /\ queued \in 0 .. Cap
  /\ overstayed \subseteq Waits
  /\ late \subseteq Waits

(* Nobody uses what the shutdown has already closed, except those that run   *)
(* reported as not stopping in time: a write or a read that met the closed   *)
(* store is the work of a worker whose own wait timed out, and an alert was  *)
(* refused only if the scheduler's did (server.go:207-208, 230-231).         *)
LateIsReported ==
  /\ late \subseteq overstayed
  /\ refused => "scheduler" \in overstayed

(* A shutdown without a timeout loses nothing: when the process exits every  *)
(* writer has returned, every alert accepted is delivered and the store is   *)
(* closed.                                                                   *)
CleanExit ==
  main = "exited" /\ overstayed = {} =>
    /\ \A w \in Writers : wr[w] = "done"
    /\ queued = 0
    /\ ~storeOpen

(* After a signal the process ends, although every writer, request and       *)
(* provider may hang for ever ("termupd cannot hang behind a slow provider", *)
(* server.go:44-49).                                                         *)
ShutdownEnds == ctxDone ~> ~Live
=============================================================================
