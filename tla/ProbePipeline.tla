--------------------------- MODULE ProbePipeline ---------------------------
(***************************************************************************)
(* What the scheduler promises about ONE monitor, with no word on worker    *)
(* pools, batches or tickers: its probes run one at a time, and each result *)
(* goes through the state machine, the certificate tracker and the flap     *)
(* tracker in that order before the next probe starts.  Module Scheduler    *)
(* models the goroutines of scheduler.Run and is shown to implement this.   *)
(*                                                                          *)
(* A restart is a step of this specification: the trackers are in memory    *)
(* only (monitor/machine.go, "process-local"), what the operator was told   *)
(* is not.  The alert queue is taken here to accept every event.            *)
(* told and certTold are history variables: no action reads them.           *)
(***************************************************************************)
EXTENDS Trackers

CONSTANTS Monitors,   \* the names probed
          Hours       \* the certificate lifetimes, in hours, probes can read

ASSUME HoursAssumption == Hours \subseteq Int

VARIABLES stage,      \* how far the current result of each monitor has got
          result,     \* the result in hand
          track,      \* Machine.track
          certWarned, \* CertTracker.warned
          flap,       \* FlapTracker.states
          told,       \* the state-change alerts raised, from the last "down" on
          certTold    \* the certificate alerts of this crossing, and restarts

vars == <<stage, result, track, certWarned, flap, told, certTold>>

Stages == {"idle", "probing", "observe", "cert", "flap"}

\* Everything a probe can bring back.  A certificate comes with any answer,
\* a 503 over https included; an error comes with nothing else.
ProbeResults ==
  {r \in [err : {"none", "failed", "cancelled"}, ok : BOOLEAN,
          hasCert : BOOLEAN, hoursLeft : Hours \union {0}] :
     /\ r.err # "none" => r = NoAnswer(r.err)
     /\ IF r.hasCert THEN r.hoursLeft \in Hours ELSE r.hoursLeft = 0}

ZeroResult == NoAnswer("none")

\* The account of what was said, one entry an alert, repetitions included.  A
\* "down" opens a new account: what came before matters to no later "up".
Announce(said, state) ==
  IF state = "down" THEN <<"down">> ELSE Append(said, state)

\* A reading at or above CertWarnDays closes the account of the crossing.  A
\* restart is entered in it, as the excuse of the one alert on top of it.
CertNews(said, warned, r) ==
  IF r.hoursLeft >= 24 * CertWarnDays THEN <<>>
  ELSE IF CertFires(warned, r)
       THEN IF said = <<"restart">> THEN <<"alert">> ELSE Append(said, "alert")
       ELSE said
CertForgotten(said) == IF said = <<>> THEN <<>> ELSE <<"restart">>

Init ==
  /\ stage = [m \in Monitors |-> "idle"]
  /\ result = [m \in Monitors |-> ZeroResult]
  /\ track = [m \in Monitors |-> FreshTracker]
  /\ certWarned = [m \in Monitors |-> FALSE]
  /\ flap = [m \in Monitors |-> FreshFlap]
  /\ told = [m \in Monitors |-> <<>>]
  /\ certTold = [m \in Monitors |-> <<>>]

-----------------------------------------------------------------------------
StartProbe(m) ==
  /\ stage[m] = "idle"
  /\ stage' = [stage EXCEPT ![m] = "probing"]
  /\ UNCHANGED <<result, track, certWarned, flap, told, certTold>>

FinishProbe(m) ==
  /\ stage[m] = "probing"
  /\ stage' = [stage EXCEPT ![m] = "observe"]
  /\ \E r \in ProbeResults : result' = [result EXCEPT ![m] = r]
  /\ UNCHANGED <<track, certWarned, flap, told, certTold>>

\* machine.Observe and, on an alarm, the alert that announces the new state.
Observe(m) ==
  LET from == track[m].state
      next == MachineObserve(track[m], IsUp(result[m]))
  IN  /\ stage[m] = "observe"
      /\ track' = [track EXCEPT ![m] = next]
      /\ told' = [told EXCEPT ![m] = IF IsAlarm(from, next.state)
                                     THEN Announce(@, next.state) ELSE @]
      /\ stage' = [stage EXCEPT ![m] = IF result[m].hasCert THEN "cert" ELSE "flap"]
      /\ UNCHANGED <<result, certWarned, flap, certTold>>

\* certs.Observe; reached only by a result that carries a certificate.
ObserveCert(m) ==
  /\ stage[m] = "cert"
  /\ certWarned' = [certWarned EXCEPT ![m] = CertObserve(@, result[m])]
  /\ certTold' = [certTold EXCEPT ![m] = CertNews(@, certWarned[m], result[m])]
  /\ stage' = [stage EXCEPT ![m] = "flap"]
  /\ UNCHANGED <<result, track, flap, told>>

\* flaps.Observe; the last thing probeOne does with a result.
ObserveFlap(m) ==
  /\ stage[m] = "flap"
  /\ flap' = [flap EXCEPT ![m] = FlapObserve(@, IsUp(result[m]))]
  /\ stage' = [stage EXCEPT ![m] = "idle"]
  /\ result' = [result EXCEPT ![m] = ZeroResult]
  /\ UNCHANGED <<track, certWarned, told, certTold>>

\* The process ends, at any point, and starts again: the trackers are new.
Restart ==
  /\ stage' = [m \in Monitors |-> "idle"]
  /\ result' = [m \in Monitors |-> ZeroResult]
  /\ track' = [m \in Monitors |-> FreshTracker]
  /\ certWarned' = [m \in Monitors |-> FALSE]
  /\ flap' = [m \in Monitors |-> FreshFlap]
  /\ certTold' = [m \in Monitors |-> CertForgotten(certTold[m])]
  /\ UNCHANGED told

Next ==
  \/ \E m \in Monitors :
       \/ StartProbe(m)
       \/ FinishProbe(m)
       \/ Observe(m)
       \/ ObserveCert(m)
       \/ ObserveFlap(m)
  \/ Restart

Spec == Init /\ [][Next]_vars

-----------------------------------------------------------------------------
(* Type correctness: every variable is a map over the monitors; a window    *)
(* never outgrows FlapWindow and a fail streak never passes FailThreshold.  *)
TypeOK ==
  /\ stage \in [Monitors -> Stages]
  /\ result \in [Monitors -> Result]
  /\ track \in [Monitors -> Tracker]
  /\ certWarned \in [Monitors -> BOOLEAN]
  /\ flap \in [Monitors -> FlapState]
  /\ told \in [Monitors -> Seq({"up", "down"})]
  /\ certTold \in [Monitors -> Seq({"alert", "restart"})]
  /\ \A m \in Monitors : /\ Len(flap[m].window) <= FlapWindow
                         /\ track[m].failStreak <= FailThreshold

\* The raw results the machine has seen, newest last, cut to FlapWindow: the
\* flap tracker's window, plus the result it has not reached yet.
Seen(m) ==
  IF stage[m] \in {"cert", "flap"}
  THEN LastN(Append(flap[m].window, IsUp(result[m])), FlapWindow)
  ELSE flap[m].window

(* The debounced state kept by Machine.Observe, one counter and one enum, is *)
(* at every moment the verdict of the last FailThreshold raw results: down   *)
(* exactly when they all failed, up when one of them succeeded, unknown      *)
(* before either.  It holds although the machine and the flap tracker see a  *)
(* result at different moments, and needs FlapWindow >= FailThreshold.       *)
StateIsVerdict == \A m \in Monitors : track[m].state = Verdict(Seen(m))

SaidLast(said, news) == said # <<>> /\ said[Len(said)] = news

(* Whoever reads only the alerts is never unaware of an outage: while the    *)
(* machine says down, the last state-change alert said down, whatever        *)
(* restarts came between (machine.go: unknown -> down stays loud).           *)
DownIsReported ==
  \A m \in Monitors : track[m].state = "down" => SaidLast(told[m], "down")

(* A recovery is announced only to someone whose last news was an outage:    *)
(* the machine drops unknown -> up, so a restart in front of a healthy       *)
(* target sends no "up" on top of an "up" already sent, or of nothing.       *)
RecoveryAnswersAlarm ==
  \A m \in Monitors : \A i \in 1 .. Len(told[m]) :
    told[m][i] = "up" => i > 1 /\ told[m][i - 1] = "down"

(* The certificate alert fires once per crossing of CertWarnDays and process *)
(* life, and does fire: the tracker is warned exactly when the latest word   *)
(* on the crossing is an alert, and no alert comes on top of an alert.  The  *)
(* one excuse for a second alert is a restart between the two, for           *)
(* CertTracker is in memory.  Failed probes between two readings carry no    *)
(* certificate and must not re-arm it (cert.go:23-25).                       *)
CertOncePerCrossing ==
  \A m \in Monitors :
    /\ certWarned[m] <=> SaidLast(certTold[m], "alert")
    /\ \A i \in 2 .. Len(certTold[m]) : certTold[m][i] # "alert"

Failures(w) == Cardinality({i \in 1 .. Len(w) : ~w[i]})

\* A run of FailThreshold failures inside the window: the machine went down.
HasOutage(w) ==
  \E i \in 1 .. Len(w) - FailThreshold + 1 :
    \A j \in i .. i + FailThreshold - 1 : ~w[j]

(* How many failures the two detectors can miss together (flap.go:9-12: "an   *)
(* oscillating target never settles to down, so the machine would miss it").  *)
(* A window with fewer than FlapThreshold flips has at most                   *)
(* (FlapThreshold + 1) \div 2 runs of failures; with more failures than such  *)
(* runs of FailThreshold - 1 can hold, the machine was down at some point in  *)
(* the window or flapping is reported.  Up to that number a target fails      *)
(* unreported: two failures, three answers, for ever, is 4 flips in a window  *)
(* of 10 and never 3 failures in a row.                                       *)
NoSilentOutage ==
  \A m \in Monitors :
    LET w == flap[m].window
    IN  Failures(w) > ((FlapThreshold + 1) \div 2) * (FailThreshold - 1)
          => HasOutage(w) \/ flap[m].warned
=============================================================================
