------------------------------ MODULE Trackers ------------------------------
(***************************************************************************)
(* Package monitor: the result of one probe and the three trackers that    *)
(* turn results into alerts.  Each tracker is a mutex-guarded map from a    *)
(* monitor's name to a small value and has one mutating method, Observe.    *)
(* Here Observe is an operator on the value under one name: the value it    *)
(* leaves behind, and next to it the condition under which it asks its      *)
(* caller (scheduler.probeOne) to send an event.  A name absent from the    *)
(* map reads as the zero value, which is what the Fresh* values are.        *)
(***************************************************************************)
EXTENDS Integers, Sequences, FiniteSets

CONSTANTS FailThreshold,   \* consecutive failures before a monitor is down
          FlapWindow,      \* raw results the flap tracker remembers
          FlapThreshold,   \* flips within the window that mean flapping
          CertWarnDays     \* days left below which a certificate is reported

ASSUME ThresholdsAssumption ==
  /\ FailThreshold \in Nat \ {0}
  /\ FlapWindow \in Nat \ {0}
  /\ FlapThreshold \in Nat \ {0}
  /\ CertWarnDays \in Nat \ {0}

\* 10 >= 3: the flap tracker still remembers what the machine decided on.
ASSUME WindowCoversStreak == FlapWindow >= FailThreshold

-----------------------------------------------------------------------------
(* Results.  err abstracts Result.Err: the prober got a response ("none"),  *)
(* the target gave none ("failed": refused, DNS, TLS, the 10s timeout), or  *)
(* the daemon itself cancelled the request ("cancelled").  ok says whether  *)
(* the status code is 2xx.  hoursLeft is CertExpiry - CheckedAt.            *)

Result == [err : {"none", "failed", "cancelled"}, ok : BOOLEAN,
           hasCert : BOOLEAN, hoursLeft : Int]

\* A result that carries an error has no status code and no certificate.
NoAnswer(err) == [err |-> err, ok |-> FALSE, hasCert |-> FALSE, hoursLeft |-> 0]

IsUp(r) == r.err = "none" /\ r.ok

\* int(d.Hours() / 24): Go's conversion truncates towards zero.
DaysLeft(hours) == IF hours >= 0 THEN hours \div 24 ELSE -((-hours) \div 24)

-----------------------------------------------------------------------------
(* Machine: debounced up/down state.                                        *)

State == {"unknown", "up", "down"}
Tracker == [state : State, failStreak : Nat]
FreshTracker == [state |-> "unknown", failStreak |-> 0]

\* A plausible slip: the streak survives a success.
StickyStreakObserve(t, up) ==
  IF up THEN [t EXCEPT !.state = "up"]
  ELSE IF t.state = "down" THEN t
  ELSE [state |-> IF t.failStreak + 1 >= FailThreshold THEN "down" ELSE t.state,
        failStreak |-> t.failStreak + 1]

\* A plausible slip: down is not left out, and the streak counts on.
RunawayStreakObserve(t, up) ==
  IF up THEN [state |-> "up", failStreak |-> 0]
  ELSE [state |-> IF t.failStreak + 1 >= FailThreshold THEN "down" ELSE t.state,
        failStreak |-> t.failStreak + 1]

MachineObserve(t, up) ==
  IF up THEN [state |-> "up", failStreak |-> 0]
  ELSE IF t.state = "down" THEN t
  ELSE [state |-> IF t.failStreak + 1 >= FailThreshold THEN "down" ELSE t.state,
        failStreak |-> t.failStreak + 1]

\* A plausible slip: everything observed first is taken for restart noise.
SilentStartAlarm(from, to) == from # to /\ from # "unknown"

\* A plausible slip: every change is announced.
LoudStartAlarm(from, to) == from # to

\* unknown -> up is the one silent change.
IsAlarm(from, to) == from # to /\ ~(from = "unknown" /\ to = "up")

-----------------------------------------------------------------------------
(* CertTracker: whether the low-certificate alert has been raised.          *)

CertObserve(warned, r) ==
  IF r.hasCert THEN DaysLeft(r.hoursLeft) < CertWarnDays ELSE warned

\* A plausible slip: the alert is repeated with every low reading.
RepeatingCertFires(warned, r) == CertObserve(warned, r)

CertFires(warned, r) == ~warned /\ CertObserve(warned, r)

-----------------------------------------------------------------------------
(* FlapTracker: a sliding window of raw results.                            *)

FlapState == [window : Seq(BOOLEAN), warned : BOOLEAN]
FreshFlap == [window |-> <<>>, warned |-> FALSE]

LastN(s, n) == IF Len(s) > n THEN SubSeq(s, Len(s) - n + 1, Len(s)) ELSE s

Flips(w) == Cardinality({i \in 2 .. Len(w) : w[i] # w[i - 1]})

\* A plausible slip: flapping is reported at FlapThreshold flips only.
NarrowFlapObserve(f, up) ==
  LET w == LastN(Append(f.window, up), FlapWindow)
  IN  [window |-> w, warned |-> Flips(w) = FlapThreshold]

FlapObserve(f, up) ==
  LET w == LastN(Append(f.window, up), FlapWindow)
  IN  [window |-> w, warned |-> Flips(w) >= FlapThreshold]

FlapFires(f, up) == ~f.warned /\ FlapObserve(f, up).warned

-----------------------------------------------------------------------------
\* What the last FailThreshold raw results since the start say of a target.
Verdict(w) ==
  LET recent == LastN(w, FailThreshold)
  IN  IF \E i \in 1 .. Len(recent) : recent[i] THEN "up"
      ELSE IF Len(recent) >= FailThreshold THEN "down"
      ELSE "unknown"
=============================================================================
