------------------------------ MODULE AlertPath ------------------------------
(***************************************************************************)
(* From a tracker to the operator.  ProbePipeline takes every alert it      *)
(* raises as told; here the alert goes through notify.Async, as in the      *)
(* daemon: a bounded queue that refuses when it is full or closed, one      *)
(* worker, and providers whose failure is logged and not retried.  The      *)
(* trackers do not learn of any of it: scheduler.notify logs the refusal,   *)
(* and a warning counts as given.                                          *)
(*                                                                          *)
(* Notify and a delivery are one step each, which AsyncNotifier's           *)
(* refinement of AlertQueue justifies.  The providers of the fan-out are    *)
(* one: an alert has reached the operator when it reached any, the daemon's *)
(* own log (stdout) not counted.                                            *)
(***************************************************************************)
EXTENDS ProbePipeline

CONSTANTS Cap    \* the queue's capacity, notifyQueueSize

ASSUME CapAssumption == Cap \in Nat \ {0}

VARIABLES queue,     \* Async.queue, oldest alert first
          hand,      \* the alert the worker is delivering: <<>> or <<alert>>
          open,      \* Close has not been called
          heard,     \* what the operator has been told of a monitor
          lost,      \* the topics whose latest alert nobody will get
          restarted  \* a restart since the latest state-change alert

alertVars == <<queue, hand, open, heard, lost, restarted>>
pathVars == <<vars, alertVars>>

Topics == {"state", "cert", "flap"}
Topic(kind) == IF kind \in {"up", "down"} THEN "state" ELSE kind
Alert == [mon : Monitors, kind : {"up", "down", "cert", "flap"}]

\* Everything accepted and not yet heard, oldest first.
OnItsWay == hand \o queue

About(a, m, topic) == a.mon = m /\ Topic(a.kind) = topic

Waiting(m, topic) == \E i \in 1 .. Len(OnItsWay) : About(OnItsWay[i], m, topic)

PathInit ==
  /\ Init
  /\ queue = <<>>
  /\ hand = <<>>
  /\ open = TRUE
  /\ heard = [m \in Monitors |-> [state |-> "nothing", warnings |-> {}]]
  /\ lost = [m \in Monitors |-> {}]
  /\ restarted = [m \in Monitors |-> FALSE]

-----------------------------------------------------------------------------
(* scheduler.notify, on Async.Notify: the alert is queued or dropped.       *)

\* A plausible slip: room is made by dropping the oldest alert, silently.
EvictingSend(m, kind) ==
  IF open
  THEN /\ queue' = Append(IF Len(queue) < Cap THEN queue ELSE Tail(queue),
                          [mon |-> m, kind |-> kind])
       /\ lost' = [lost EXCEPT ![m] = @ \ {Topic(kind)}]
  ELSE /\ lost' = [lost EXCEPT ![m] = @ \union {Topic(kind)}]
       /\ UNCHANGED queue

Send(m, kind) ==
  IF open /\ Len(queue) < Cap
  THEN /\ queue' = Append(queue, [mon |-> m, kind |-> kind])
       /\ lost' = [lost EXCEPT ![m] = @ \ {Topic(kind)}]
  ELSE /\ lost' = [lost EXCEPT ![m] = @ \union {Topic(kind)}]
       /\ UNCHANGED queue

NoAlert == UNCHANGED <<queue, lost>>

\* A tracker that is armed again: what was heard of it was about the past.
Forget(m, warning, armed) ==
  heard' = IF armed THEN [heard EXCEPT ![m].warnings = @ \ {warning}] ELSE heard

-----------------------------------------------------------------------------
(* The steps of probeOne, with the alert each may raise.                    *)

ProbeSteps(m) == (StartProbe(m) \/ FinishProbe(m)) /\ UNCHANGED alertVars

RaiseState(m) ==
  /\ Observe(m)
  /\ IF IsAlarm(track[m].state, track'[m].state)
     THEN /\ Send(m, track'[m].state)
          /\ restarted' = [restarted EXCEPT ![m] = FALSE]
     ELSE NoAlert /\ UNCHANGED restarted
  /\ UNCHANGED <<hand, open, heard>>

RaiseCert(m) ==
  /\ ObserveCert(m)
  /\ IF CertFires(certWarned[m], result[m]) THEN Send(m, "cert") ELSE NoAlert
  /\ Forget(m, "cert", ~certWarned'[m])
  /\ UNCHANGED <<hand, open, restarted>>

RaiseFlap(m) ==
  /\ ObserveFlap(m)
  /\ IF FlapFires(flap[m], IsUp(result[m])) THEN Send(m, "flap") ELSE NoAlert
  /\ Forget(m, "flap", ~flap'[m].warned)
  /\ UNCHANGED <<hand, open, restarted>>

-----------------------------------------------------------------------------
(* Async.run and the providers.                                             *)

\* A plausible slip: the worker does not drain a closed queue.
HastyReceive ==
  /\ open
  /\ hand = <<>> /\ queue # <<>>
  /\ hand' = <<Head(queue)>>
  /\ queue' = Tail(queue)
  /\ UNCHANGED <<vars, open, heard, lost, restarted>>

Receive ==
  /\ hand = <<>> /\ queue # <<>>
  /\ hand' = <<Head(queue)>>
  /\ queue' = Tail(queue)
  /\ UNCHANGED <<vars, open, heard, lost, restarted>>

\* What an alert makes of what the operator knows of its monitor.
Hears(h, kind) ==
  IF Topic(kind) = "state" THEN [h EXCEPT !.state = kind]
  ELSE [h EXCEPT !.warnings = @ \union {kind}]

Delivered ==
  /\ hand # <<>>
  /\ heard' = [heard EXCEPT ![hand[1].mon] = Hears(@, hand[1].kind)]
  /\ hand' = <<>>
  /\ UNCHANGED <<vars, queue, open, lost, restarted>>

\* The POST fails, is refused or times out: logged, and the next one's turn.
\* A later alert on the same topic makes up for it.
NotDelivered ==
  LET a == hand[1]
      t == Topic(a.kind)
  IN  /\ hand # <<>>
      /\ lost' = IF \E i \in 1 .. Len(queue) : About(queue[i], a.mon, t) THEN lost
                 ELSE [lost EXCEPT ![a.mon] = @ \union {t}]
      /\ hand' = <<>>
      /\ UNCHANGED <<vars, queue, open, heard, restarted>>

\* The shutdown has begun; what is queued still drains, and probes that the
\* shutdown did not wait for still raise alerts.
Close ==
  /\ open
  /\ open' = FALSE
  /\ UNCHANGED <<vars, queue, hand, heard, lost, restarted>>

\* The process ends, in order or not, and starts again: with the trackers
\* goes whatever had not been delivered.  The operator remembers.
RestartAll ==
  /\ Restart
  /\ queue' = <<>>
  /\ hand' = <<>>
  /\ open' = TRUE
  /\ heard' = [m \in Monitors |-> [heard[m] EXCEPT !.warnings = {}]]
  /\ lost' = [m \in Monitors |->
               IF "state" \in lost[m] \/ Waiting(m, "state") THEN {"state"} ELSE {}]
  /\ restarted' = [m \in Monitors |-> TRUE]

PathNext ==
  \/ \E m \in Monitors : ProbeSteps(m) \/ RaiseState(m) \/ RaiseCert(m) \/ RaiseFlap(m)
  \/ Receive \/ Delivered \/ NotDelivered
  \/ Close \/ RestartAll

PathSpec == PathInit /\ [][PathNext]_pathVars

(* The worker never rests while there is something to deliver: it is a       *)
(* goroutine of its own, and a provider's client gives up after 10 seconds.  *)
FairPathSpec ==
  PathSpec /\ WF_pathVars(Receive) /\ WF_pathVars(Delivered \/ NotDelivered)

-----------------------------------------------------------------------------
(* Type correctness: at most Cap alerts wait, beside the one in delivery.    *)
PathTypeOK ==
  /\ TypeOK
  /\ queue \in Seq(Alert) /\ Len(queue) <= Cap
  /\ hand \in Seq(Alert) /\ Len(hand) <= 1
  /\ open \in BOOLEAN
  /\ heard \in [Monitors -> [state : {"nothing", "up", "down"},
                             warnings : SUBSET {"cert", "flap"}]]
  /\ lost \in [Monitors -> SUBSET Topics]
  /\ restarted \in [Monitors -> BOOLEAN]

\* What the operator will think of m when all that is on its way has arrived.
AtLast(m, s) ==
  \/ \E i \in 1 .. Len(OnItsWay) :
       /\ OnItsWay[i] = [mon |-> m, kind |-> s]
       /\ \A j \in i + 1 .. Len(OnItsWay) : ~About(OnItsWay[j], m, "state")
  \/ heard[m].state = s /\ ~Waiting(m, "state")

(* The operator's picture lags behind the machine but comes to agree with    *)
(* it.  What is on its way, in its order, leaves an operator who thinks down *)
(* of a monitor that is down; and one who goes on thinking down of a monitor *)
(* that is up has a reason: the latest alert was refused by a full or closed *)
(* queue or lost by its provider (async.go:60-65, "preferred over stalling   *)
(* the probe"), or a restart came after it and the machine, new, took the    *)
(* recovery for restart noise (machine.go:67-70).                            *)
PictureIsTrue ==
  \A m \in Monitors : "state" \notin lost[m] =>
    /\ track[m].state = "down" => AtLast(m, "down")
    /\ track[m].state = "up" /\ AtLast(m, "down") => restarted[m]

(* A tracker that has warned is not armed again by a lost alert.  Yet a      *)
(* warning that stands was heard since, is on its way, or its latest alert   *)
(* was dropped: no restart, crossing or recovery leaves one that nobody was  *)
(* ever sent (scheduler.go:143, 156; cert.go:34, flap.go:57).                *)
WarningsAreGiven ==
  \A m \in Monitors :
    LET Given(w) == w \in heard[m].warnings \/ Waiting(m, w) \/ w \in lost[m]
    IN  /\ certWarned[m] => Given("cert")
        /\ flap[m].warned => Given("flap")

(* An outage that lasts is heard of, if its alert was not dropped: no        *)
(* failing provider and no alert in front of it holds it up for good.        *)
OutageIsHeard ==
  \A m \in Monitors :
    <>[](track[m].state = "down")
      => <>[](heard[m].state = "down" \/ "state" \in lost[m])
=============================================================================
