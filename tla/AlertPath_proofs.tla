-------------------------- MODULE AlertPath_proofs --------------------------
(***************************************************************************)
(* Theorems about AlertPath and about ProbePipeline, which it extends, for   *)
(* every set of monitors, every queue capacity and every value of the        *)
(* thresholds that Trackers admits.  First the trackers' operators, then     *)
(* the pipeline of one result, then the path of its alerts.                 *)
(***************************************************************************)
EXTENDS AlertPath, SequenceTheorems, FiniteSetTheorems, WellFoundedInduction, TLAPS

-----------------------------------------------------------------------------
(* The trackers' operators.                                                 *)

(* LastN keeps the newest n elements of a sequence, in order: the trimming  *)
(* of the flap tracker's window (flap.go:44-46).                            *)
LEMMA LastNProperties ==
  ASSUME NEW S, NEW s \in Seq(S), NEW n \in Nat
  PROVE  /\ LastN(s, n) \in Seq(S)
         /\ Len(LastN(s, n)) = IF Len(s) > n THEN n ELSE Len(s)
         /\ \A i \in 1 .. Len(LastN(s, n)) :
              LastN(s, n)[i] = s[Len(s) - Len(LastN(s, n)) + i]
<1>1. CASE Len(s) > n
  <2>1. LastN(s, n) = SubSeq(s, Len(s) - n + 1, Len(s))
    BY <1>1 DEF LastN
  <2>2. /\ Len(s) \in Nat
        /\ Len(s) - n + 1 \in 1 .. Len(s) + 1
        /\ Len(s) \in Len(s) - n .. Len(s)
    BY <1>1, LenProperties
  <2>3. /\ SubSeq(s, Len(s) - n + 1, Len(s)) \in Seq(S)
        /\ Len(SubSeq(s, Len(s) - n + 1, Len(s))) = n
        /\ \A i \in 1 .. n :
             SubSeq(s, Len(s) - n + 1, Len(s))[i] = s[Len(s) - n + i]
    BY <1>1, <2>2, SubSeqProperties
  <2> QED BY <1>1, <2>1, <2>3
<1>2. CASE ~(Len(s) > n)
  <2>1. LastN(s, n) = s
    BY <1>2 DEF LastN
  <2>2. Len(s) \in Nat /\ \A i \in 1 .. Len(s) : Len(s) - Len(s) + i = i
    BY LenProperties
  <2> QED BY <1>2, <2>1, <2>2
<1> QED BY <1>1, <1>2

(* Truncating the days left towards zero and comparing with CertWarnDays is *)
(* comparing the hours: the warning fires neither a day early nor late.     *)
LEMMA DaysLeftThreshold ==
  ASSUME NEW h \in Int
  PROVE  DaysLeft(h) < CertWarnDays <=> h < 24 * CertWarnDays
BY ThresholdsAssumption DEF DaysLeft

(* What one observation does to a tracker.                                  *)
LEMMA MachineObserveType ==
  ASSUME NEW t \in Tracker, t.failStreak <= FailThreshold, NEW up \in BOOLEAN,
         t.state # "down" => t.failStreak < FailThreshold
  PROVE  /\ MachineObserve(t, up) \in Tracker
         /\ MachineObserve(t, up).failStreak <= FailThreshold
         /\ MachineObserve(t, up).state # "down" =>
              MachineObserve(t, up).failStreak < FailThreshold
BY ThresholdsAssumption DEF MachineObserve, Tracker, State

LEMMA FlapObserveType ==
  ASSUME NEW f \in FlapState, NEW up \in BOOLEAN
  PROVE  /\ FlapObserve(f, up) \in FlapState
         /\ Len(FlapObserve(f, up).window) <= FlapWindow
         /\ FlapObserve(f, up).window = LastN(Append(f.window, up), FlapWindow)
<1> DEFINE a == Append(f.window, up)
<1>1. a \in Seq(BOOLEAN) /\ Len(a) \in Nat
  BY AppendProperties, LenProperties DEF FlapState
<1>2. FlapWindow \in Nat
  BY ThresholdsAssumption
<1> HIDE DEF a
<1>3. /\ LastN(a, FlapWindow) \in Seq(BOOLEAN)
      /\ Len(LastN(a, FlapWindow)) = IF Len(a) > FlapWindow THEN FlapWindow ELSE Len(a)
  BY <1>1, <1>2, LastNProperties
<1>4. Len(LastN(a, FlapWindow)) <= FlapWindow
  BY <1>1, <1>2, <1>3
<1> USE DEF a
<1> QED BY <1>3, <1>4 DEF FlapObserve, FlapState

(* The types of what the trackers are given and of what they remember.      *)
LEMMA IsUpType == \A r \in Result : IsUp(r) \in BOOLEAN
BY DEF IsUp, Result

LEMMA CertObserveType ==
  ASSUME NEW warned \in BOOLEAN, NEW r \in Result
  PROVE  CertObserve(warned, r) \in BOOLEAN
<1>1. CASE r.hasCert
  <2>1. CertObserve(warned, r) = (DaysLeft(r.hoursLeft) < CertWarnDays)
    BY <1>1, Zenon DEF CertObserve
  <2>2. (DaysLeft(r.hoursLeft) < CertWarnDays) \in BOOLEAN
    OBVIOUS
  <2> QED BY <2>1, <2>2, Zenon
<1>2. CASE ~r.hasCert
  BY <1>2, Zenon DEF CertObserve
<1> QED BY <1>1, <1>2

LEMMA EmptyWindow ==
  /\ FreshFlap \in FlapState
  /\ Len(FreshFlap.window) = 0
  /\ FreshFlap.window = <<>>
BY DEF FreshFlap, FlapState
-----------------------------------------------------------------------------
(* Type correctness, with the one fact about trackers it rests on: a        *)
(* monitor that is not down has a fail streak below the threshold.          *)

StreakBound ==
  \A m \in Monitors :
    track[m].state # "down" => track[m].failStreak < FailThreshold

TInv == TypeOK /\ StreakBound

LEMMA ProbeResultsType == ProbeResults \subseteq Result
<1> DEFINE Raw == [err : {"none", "failed", "cancelled"}, ok : BOOLEAN,
                   hasCert : BOOLEAN, hoursLeft : Hours \union {0}]
<1>1. ProbeResults \subseteq Raw
  BY DEF ProbeResults
<1>2. Hours \union {0} \subseteq Int
  BY HoursAssumption
<1>3. Raw \subseteq Result
  BY <1>2, Zenon DEF Result
<1> QED BY <1>1, <1>3, Zenon

LEMMA FreshType ==
  /\ ZeroResult \in Result
  /\ FreshTracker \in Tracker
  /\ FreshTracker.failStreak <= FailThreshold
  /\ FreshTracker.state # "down" => FreshTracker.failStreak < FailThreshold
  /\ Len(FreshFlap.window) <= FlapWindow
BY EmptyWindow, ThresholdsAssumption
   DEF ZeroResult, NoAnswer, Result, FreshTracker, Tracker, State

(* Accounts of one entry.                                                   *)
LEMMA OneEntry ==
  /\ <<"up">> \in Seq({"up", "down"}) /\ <<"down">> \in Seq({"up", "down"})
  /\ <<"alert">> \in Seq({"alert", "restart"})
  /\ <<"restart">> \in Seq({"alert", "restart"})
OBVIOUS

LEMMA TInvInit == Init => TInv
BY FreshType, EmptySeq, EmptyWindow DEF Init, TInv, TypeOK, StreakBound, Stages

LEMMA TInvNext == TInv /\ [Next]_vars => TInv'
<1> SUFFICES ASSUME TInv, [Next]_vars PROVE TInv'
  OBVIOUS
<1> USE DEF TInv, TypeOK, StreakBound
<1>1. ASSUME NEW m \in Monitors, StartProbe(m) PROVE TInv'
  BY <1>1 DEF StartProbe, Stages
<1>2. ASSUME NEW m \in Monitors, FinishProbe(m) PROVE TInv'
  BY <1>2, ProbeResultsType DEF FinishProbe, Stages
<1>3. ASSUME NEW m \in Monitors, Observe(m) PROVE TInv'
  <2> DEFINE next == MachineObserve(track[m], IsUp(result[m]))
  <2>1. /\ next \in Tracker
        /\ next.failStreak <= FailThreshold
        /\ next.state # "down" => next.failStreak < FailThreshold
    BY IsUpType, MachineObserveType
  <2>2. /\ track' = [track EXCEPT ![m] = next]
        /\ stage' = [stage EXCEPT ![m] = IF result[m].hasCert THEN "cert" ELSE "flap"]
        /\ told' = [told EXCEPT ![m] =
             IF IsAlarm(track[m].state, next.state)
             THEN Announce(@, next.state) ELSE @]
        /\ UNCHANGED <<result, certWarned, flap, certTold>>
    BY <1>3 DEF Observe
  <2>3. IsAlarm(track[m].state, next.state) => next.state \in {"up", "down"}
    <3>1. next.state = "unknown" => track[m].state = "unknown"
      BY DEF MachineObserve, Tracker, State
    <3> QED BY <2>1, <3>1 DEF IsAlarm, Tracker, State
  <2> HIDE DEF next
  <2>4. track' \in [Monitors -> Tracker]
    BY <2>1, <2>2
  <2>5. told' \in [Monitors -> Seq({"up", "down"})]
    <3>1. IsAlarm(track[m].state, next.state) =>
            Announce(told[m], next.state) \in Seq({"up", "down"})
      BY <2>3, AppendProperties, OneEntry DEF Announce
    <3> QED BY <2>2, <3>1
  <2>6. stage' \in [Monitors -> Stages]
    BY <2>2 DEF Stages
  <2>7. \A n \in Monitors :
          /\ track'[n].failStreak <= FailThreshold
          /\ track'[n].state # "down" => track'[n].failStreak < FailThreshold
    BY <2>1, <2>2
  <2> QED BY <2>2, <2>4, <2>5, <2>6, <2>7
<1>4. ASSUME NEW m \in Monitors, ObserveCert(m) PROVE TInv'
  <2>1. certWarned' \in [Monitors -> BOOLEAN]
    BY <1>4, CertObserveType DEF ObserveCert
  <2>2. certTold' \in [Monitors -> Seq({"alert", "restart"})]
    <3>1. CertNews(certTold[m], certWarned[m], result[m]) \in Seq({"alert", "restart"})
      BY AppendProperties, OneEntry, EmptySeq DEF CertNews
    <3> QED BY <1>4, <3>1 DEF ObserveCert
  <2>3. stage' \in [Monitors -> Stages]
    BY <1>4 DEF ObserveCert, Stages
  <2> QED BY <1>4, <2>1, <2>2, <2>3 DEF ObserveCert
<1>5. ASSUME NEW m \in Monitors, ObserveFlap(m) PROVE TInv'
  <2> DEFINE next == FlapObserve(flap[m], IsUp(result[m]))
  <2>1. next \in FlapState /\ Len(next.window) <= FlapWindow
    BY IsUpType, FlapObserveType
  <2>2. /\ flap' = [flap EXCEPT ![m] = next]
        /\ stage' = [stage EXCEPT ![m] = "idle"]
        /\ result' = [result EXCEPT ![m] = ZeroResult]
        /\ UNCHANGED <<track, certWarned, told, certTold>>
    BY <1>5 DEF ObserveFlap
  <2> HIDE DEF next
  <2>3. flap' \in [Monitors -> FlapState]
    BY <2>1, <2>2
  <2>4. \A n \in Monitors : Len(flap'[n].window) <= FlapWindow
    BY <2>1, <2>2
  <2> QED BY <2>2, <2>3, <2>4, FreshType DEF Stages
<1>6. ASSUME Restart PROVE TInv'
  <2>1. certTold' \in [Monitors -> Seq({"alert", "restart"})]
    BY <1>6, OneEntry, EmptySeq DEF Restart, CertForgotten
  <2> QED BY <1>6, <2>1, FreshType, EmptyWindow DEF Restart, Stages
<1>7. CASE UNCHANGED vars
  BY <1>7 DEF vars
<1> QED BY <1>1, <1>2, <1>3, <1>4, <1>5, <1>6, <1>7 DEF Next

(* Every value stays in its type, and no window or streak outgrows its      *)
(* bound, whatever the thresholds, the monitors and the results are.        *)
THEOREM TypeCorrect == Spec => []TypeOK
<1>1. TInv => TypeOK
  BY DEF TInv
<1> QED BY TInvInit, TInvNext, <1>1, PTL DEF Spec
-----------------------------------------------------------------------------
(* The debounced state is the verdict of the last raw results.  StateIsVerdict *)
(* is not inductive: the counter that will decide the next verdict must be     *)
(* tied to the window too.  Agrees says that the last failStreak results       *)
(* failed, that the one before them, if any, did not unless the monitor is     *)
(* down, and what each state says of the streak.                               *)

Agrees(w, t) ==
  /\ t.failStreak <= Len(w)
  /\ \A i \in Len(w) - t.failStreak + 1 .. Len(w) : ~w[i]
  /\ t.state = "down" => t.failStreak = FailThreshold
  /\ t.state = "up" => /\ t.failStreak < FailThreshold
                       /\ t.failStreak < Len(w)
                       /\ w[Len(w) - t.failStreak]
  /\ t.state = "unknown" => t.failStreak < FailThreshold /\ t.failStreak = Len(w)

LEMMA AgreesVerdict ==
  ASSUME NEW w \in Seq(BOOLEAN), NEW t \in Tracker, Agrees(w, t)
  PROVE  t.state = Verdict(w)
<1> DEFINE v == LastN(w, FailThreshold)
<1>1. FailThreshold \in Nat \ {0} /\ Len(w) \in Nat
  BY ThresholdsAssumption, LenProperties
<1>2. /\ v \in Seq(BOOLEAN)
      /\ Len(v) = IF Len(w) > FailThreshold THEN FailThreshold ELSE Len(w)
      /\ \A i \in 1 .. Len(v) : v[i] = w[Len(w) - Len(v) + i]
  BY <1>1, LastNProperties
<1>3. Verdict(w) = IF \E i \in 1 .. Len(v) : v[i] THEN "up"
                   ELSE IF Len(v) >= FailThreshold THEN "down" ELSE "unknown"
  BY DEF Verdict
<1> HIDE DEF v
<1>4. t.failStreak \in Nat /\ t.state \in {"unknown", "up", "down"}
  BY DEF Tracker, State
<1>5. CASE t.state = "up"
  <2> DEFINE i == Len(v) - t.failStreak
  <2>1. i \in 1 .. Len(v) /\ Len(w) - Len(v) + i = Len(w) - t.failStreak
    BY <1>1, <1>2, <1>4, <1>5 DEF Agrees
  <2>2. v[i]
    BY <1>2, <1>5, <2>1 DEF Agrees
  <2> QED BY <1>3, <1>5, <2>1, <2>2
<1>6. CASE t.state = "down"
  <2>1. Len(v) = FailThreshold /\ t.failStreak = FailThreshold
    BY <1>1, <1>2, <1>4, <1>6 DEF Agrees
  <2>2. \A i \in 1 .. Len(v) :
          Len(w) - Len(v) + i \in Len(w) - t.failStreak + 1 .. Len(w)
    BY <1>1, <2>1
  <2>3. ~ \E i \in 1 .. Len(v) : v[i]
    BY <1>2, <2>2 DEF Agrees
  <2>4. Len(v) >= FailThreshold
    BY <1>1, <2>1
  <2> QED BY <1>3, <1>6, <2>3, <2>4
<1>7. CASE t.state = "unknown"
  <2>1. Len(v) = Len(w) /\ ~(Len(v) >= FailThreshold) /\ t.failStreak = Len(w)
    BY <1>1, <1>2, <1>4, <1>7 DEF Agrees
  <2>2. \A i \in 1 .. Len(v) :
          Len(w) - Len(v) + i \in Len(w) - t.failStreak + 1 .. Len(w)
    BY <1>1, <2>1
  <2>3. ~ \E i \in 1 .. Len(v) : v[i]
    BY <1>2, <2>2 DEF Agrees
  <2> QED BY <1>3, <1>7, <2>1, <2>3
<1> QED BY <1>4, <1>5, <1>6, <1>7

(* One result observed by both trackers keeps them in agreement, also when  *)
(* the window is full and loses its oldest result.                          *)
LEMMA AgreesStep ==
  ASSUME NEW w \in Seq(BOOLEAN), NEW t \in Tracker, Agrees(w, t),
         Len(w) <= FlapWindow, NEW up \in BOOLEAN
  PROVE  Agrees(LastN(Append(w, up), FlapWindow), MachineObserve(t, up))
<1> DEFINE a == Append(w, up)
           v == LastN(a, FlapWindow)
           u == MachineObserve(t, up)
<1>1. /\ FailThreshold \in Nat \ {0} /\ FlapWindow \in Nat \ {0}
      /\ FlapWindow >= FailThreshold
      /\ Len(w) \in Nat
      /\ t.failStreak \in Nat /\ t.state \in {"unknown", "up", "down"}
  BY ThresholdsAssumption, WindowCoversStreak, LenProperties DEF Tracker, State
<1>2. /\ a \in Seq(BOOLEAN) /\ Len(a) = Len(w) + 1
      /\ a[Len(w) + 1] = up
      /\ \A i \in 1 .. Len(w) : a[i] = w[i]
  BY <1>1, AppendProperties
<1> HIDE DEF a
<1>3. /\ v \in Seq(BOOLEAN)
      /\ Len(v) = IF Len(a) > FlapWindow THEN FlapWindow ELSE Len(a)
      /\ \A i \in 1 .. Len(v) : v[i] = a[Len(a) - Len(v) + i]
  BY <1>1, <1>2, LastNProperties
<1> HIDE DEF v
<1>4. /\ Len(v) \in Nat \ {0}
      /\ Len(v) = Len(w) + 1 \/ (Len(v) = FlapWindow /\ Len(v) = Len(w))
      /\ Len(v) >= FailThreshold \/ Len(v) = Len(w) + 1
  BY <1>1, <1>2, <1>3
<1>5. v[Len(v)] = up
  <2>1. Len(v) \in 1 .. Len(v) /\ Len(a) - Len(v) + Len(v) = Len(w) + 1
    BY <1>1, <1>2, <1>4
  <2>2. v[Len(v)] = a[Len(a) - Len(v) + Len(v)]
    BY <1>3, <2>1
  <2> QED BY <1>2, <2>1, <2>2
<1>6. ASSUME NEW i \in 1 .. Len(v) - 1
      PROVE  v[i] = w[Len(w) + 1 - Len(v) + i]
  <2>1. /\ i \in 1 .. Len(v)
        /\ Len(a) - Len(v) + i = Len(w) + 1 - Len(v) + i
        /\ Len(w) + 1 - Len(v) + i \in 1 .. Len(w)
    BY <1>1, <1>2, <1>4
  <2>2. v[i] = a[Len(w) + 1 - Len(v) + i]
    BY <1>3, <2>1
  <2> QED BY <1>2, <2>1, <2>2
<1>7. CASE up
  <2>1. u.state = "up" /\ u.failStreak = 0
    BY <1>7 DEF MachineObserve
  <2> HIDE DEF u
  <2>2. \A i \in Len(v) - u.failStreak + 1 .. Len(v) : FALSE
    BY <1>4, <2>1
  <2>3. /\ u.failStreak <= Len(v)
        /\ Len(v) - u.failStreak = Len(v)
        /\ u.failStreak < FailThreshold /\ u.failStreak < Len(v)
    BY <1>1, <1>4, <2>1
  <2>4. v[Len(v) - u.failStreak]
    BY <1>5, <1>7, <2>3
  <2>5. Agrees(v, u)
    BY <2>1, <2>2, <2>3, <2>4, Zenon DEF Agrees
  <2> QED BY <2>5 DEF v, u, a
<1>8. CASE ~up /\ t.state = "down"
  <2>1. u = t
    BY <1>8 DEF MachineObserve
  <2>2. t.failStreak = FailThreshold /\ FailThreshold <= Len(v)
    BY <1>1, <1>4, <1>8 DEF Agrees
  <2>3. ASSUME NEW i \in Len(v) - FailThreshold + 1 .. Len(v) PROVE ~v[i]
    <3>1. CASE i = Len(v)
      BY <1>5, <1>8, <3>1
    <3>2. CASE i # Len(v)
      <4>1. /\ i \in 1 .. Len(v) - 1
            /\ Len(w) + 1 - Len(v) + i \in Len(w) - t.failStreak + 1 .. Len(w)
        BY <1>1, <1>4, <2>2, <3>2
      <4> QED BY <1>6, <4>1 DEF Agrees
    <3> QED BY <3>1, <3>2
  <2>4. Agrees(v, t)
    BY <1>1, <1>8, <2>2, <2>3 DEF Agrees
  <2> QED BY <2>1, <2>4 DEF v, u, a
<1>9. CASE ~up /\ t.state # "down"
  <2> DEFINE n == t.failStreak + 1
  <2>1. /\ u.failStreak = n
        /\ u.state = IF n >= FailThreshold THEN "down" ELSE t.state
    BY <1>9 DEF MachineObserve
  <2>2. n \in Nat \ {0} /\ n <= FailThreshold /\ n <= Len(v)
    BY <1>1, <1>4, <1>9 DEF Agrees
  <2>3. ASSUME NEW i \in Len(v) - n + 1 .. Len(v) PROVE ~v[i]
    <3>1. CASE i = Len(v)
      BY <1>5, <1>9, <3>1
    <3>2. CASE i # Len(v)
      <4>1. /\ i \in Int /\ i < Len(v) /\ i >= Len(v) - t.failStreak
            /\ t.failStreak + 1 <= Len(v)
        BY <1>1, <1>4, <2>2, <3>2
      <4>2. i \in 1 .. Len(v) - 1
        BY <1>1, <1>4, <4>1
      <4>3. Len(w) + 1 - Len(v) + i \in Len(w) - t.failStreak + 1 .. Len(w)
        BY <1>1, <1>4, <4>1
      <4> QED BY <1>6, <4>2, <4>3 DEF Agrees
    <3> QED BY <3>1, <3>2
  <2>4. CASE n >= FailThreshold
    <3>1. u.state = "down" /\ n = FailThreshold
      BY <1>1, <2>1, <2>2, <2>4
    <3> HIDE DEF u, n
    <3>2. Agrees(v, u)
      BY <2>1, <2>2, <2>3, <3>1 DEF Agrees
    <3> QED BY <3>2 DEF v, u, a
  <2>5. CASE ~(n >= FailThreshold) /\ t.state = "up"
    <3>1. u.state = "up" /\ n < FailThreshold
      BY <1>1, <2>1, <2>2, <2>5
    <3>2. /\ n < Len(v)
          /\ Len(v) - n \in 1 .. Len(v) - 1
          /\ Len(w) + 1 - Len(v) + (Len(v) - n) = Len(w) - t.failStreak
      <4>1. t.failStreak < Len(w)
        BY <2>5 DEF Agrees
      <4>2. n \in Nat /\ n >= 1 /\ Len(v) \in Nat
        BY <1>4, <2>2
      <4>3. n < Len(v)
        <5>1. CASE Len(v) = Len(w) + 1
          BY <1>1, <4>1, <5>1
        <5>2. CASE Len(v) = FlapWindow
          BY <1>1, <3>1, <4>2, <5>2
        <5> QED BY <1>4, <5>1, <5>2
      <4>4. Len(v) - n \in 1 .. Len(v) - 1
        BY <4>2, <4>3
      <4>5. Len(w) + 1 - Len(v) + (Len(v) - n) = Len(w) - t.failStreak
        BY <1>1, <4>2
      <4> QED BY <4>3, <4>4, <4>5
    <3>3. v[Len(v) - n]
      BY <1>6, <2>5, <3>2 DEF Agrees
    <3> HIDE DEF u, n
    <3>4. Agrees(v, u)
      BY <2>1, <2>2, <2>3, <3>1, <3>2, <3>3 DEF Agrees
    <3> QED BY <3>4 DEF v, u, a
  <2>6. CASE ~(n >= FailThreshold) /\ t.state = "unknown"
    <3>1. u.state = "unknown" /\ n < FailThreshold /\ n = Len(v)
      BY <1>1, <1>4, <2>1, <2>2, <2>6 DEF Agrees
    <3> HIDE DEF u, n
    <3>2. Agrees(v, u)
      BY <2>1, <2>2, <2>3, <3>1 DEF Agrees
    <3> QED BY <3>2 DEF v, u, a
  <2> QED BY <1>1, <1>9, <2>4, <2>5, <2>6
<1> QED BY <1>7, <1>8, <1>9

-----------------------------------------------------------------------------
(* The inductive invariant.                                                 *)
VInv == TInv /\ \A m \in Monitors : Agrees(Seen(m), track[m])

LEMMA FreshAgrees == Agrees(FreshFlap.window, FreshTracker)
BY EmptyWindow, ThresholdsAssumption DEF Agrees, FreshTracker

LEMMA SeenType == TInv => \A m \in Monitors : Seen(m) \in Seq(BOOLEAN)
<1> SUFFICES ASSUME TInv, NEW m \in Monitors PROVE Seen(m) \in Seq(BOOLEAN)
  OBVIOUS
<1>1. flap[m] \in FlapState /\ IsUp(result[m]) \in BOOLEAN
  BY IsUpType DEF TInv, TypeOK
<1>2. LastN(Append(flap[m].window, IsUp(result[m])), FlapWindow) \in Seq(BOOLEAN)
  BY <1>1, FlapObserveType DEF FlapState
<1> QED BY <1>1, <1>2 DEF Seen, FlapState

LEMMA VInvInit == Init => VInv
<1> SUFFICES ASSUME Init PROVE VInv
  OBVIOUS
<1>1. \A m \in Monitors : Seen(m) = FreshFlap.window /\ track[m] = FreshTracker
  BY DEF Init, Seen
<1> QED BY <1>1, TInvInit, FreshAgrees DEF VInv

LEMMA VInvNext == VInv /\ [Next]_vars => VInv'
<1> SUFFICES ASSUME VInv, [Next]_vars PROVE VInv'
  OBVIOUS
<1>1. TInv /\ TInv'
  BY TInvNext DEF VInv
<1>2. SUFFICES ASSUME NEW n \in Monitors PROVE Agrees(Seen(n)', track'[n])
  BY <1>1 DEF VInv
<1>3. Agrees(Seen(n), track[n])
  BY DEF VInv
<1> USE <1>1 DEF TInv, TypeOK
\* A step that moves no result past a tracker leaves Seen as it is.
<1>4. ASSUME NEW m \in Monitors, StartProbe(m) \/ FinishProbe(m)
      PROVE  Agrees(Seen(n)', track'[n])
  <2>1. Seen(n)' = Seen(n) /\ track'[n] = track[n]
    BY <1>4 DEF StartProbe, FinishProbe, Seen
  <2> QED BY <1>3, <2>1
<1>5. ASSUME NEW m \in Monitors, Observe(m) PROVE Agrees(Seen(n)', track'[n])
  <2>1. CASE n = m
    <3>1. /\ Seen(n) = flap[n].window
          /\ Seen(n)' = LastN(Append(flap[n].window, IsUp(result[n])), FlapWindow)
          /\ track'[n] = MachineObserve(track[n], IsUp(result[n]))
      BY <1>5, <2>1 DEF Observe, Seen
    <3>2. /\ flap[n].window \in Seq(BOOLEAN)
          /\ Len(flap[n].window) <= FlapWindow
          /\ IsUp(result[n]) \in BOOLEAN
      BY IsUpType DEF FlapState
    <3> QED BY <1>3, <3>1, <3>2, AgreesStep
  <2>2. CASE n # m
    <3>1. Seen(n)' = Seen(n) /\ track'[n] = track[n]
      BY <1>5, <2>2 DEF Observe, Seen
    <3> QED BY <1>3, <3>1
  <2> QED BY <2>1, <2>2
<1>6. ASSUME NEW m \in Monitors, ObserveCert(m) PROVE Agrees(Seen(n)', track'[n])
  <2>1. Seen(n)' = Seen(n) /\ track'[n] = track[n]
    BY <1>6 DEF ObserveCert, Seen
  <2> QED BY <1>3, <2>1
<1>7. ASSUME NEW m \in Monitors, ObserveFlap(m) PROVE Agrees(Seen(n)', track'[n])
  <2>1. FlapObserve(flap[m], IsUp(result[m])).window =
          LastN(Append(flap[m].window, IsUp(result[m])), FlapWindow)
    BY IsUpType, FlapObserveType
  <2>2. Seen(n)' = Seen(n) /\ track'[n] = track[n]
    BY <1>7, <2>1 DEF ObserveFlap, Seen
  <2> QED BY <1>3, <2>2
<1>8. ASSUME Restart PROVE Agrees(Seen(n)', track'[n])
  <2>1. Seen(n)' = FreshFlap.window /\ track'[n] = FreshTracker
    BY <1>8 DEF Restart, Seen
  <2> QED BY <2>1, FreshAgrees
<1>9. CASE UNCHANGED vars
  <2>1. Seen(n)' = Seen(n) /\ track'[n] = track[n]
    BY <1>9 DEF vars, Seen
  <2> QED BY <1>3, <2>1
<1> QED BY <1>4, <1>5, <1>6, <1>7, <1>8, <1>9 DEF Next

(* For all thresholds with FlapWindow >= FailThreshold: the state kept by   *)
(* Machine.Observe is the verdict of the last FailThreshold raw results.    *)
THEOREM StateIsVerdictHolds == Spec => []StateIsVerdict
<1>1. VInv => StateIsVerdict
  BY SeenType, AgreesVerdict DEF VInv, TInv, TypeOK, StateIsVerdict
<1> QED BY VInvInit, VInvNext, <1>1, PTL DEF Spec
-----------------------------------------------------------------------------
(* Alerts.                                                                  *)
\* The accounts the machine's alarms make: of an outage, perhaps answered.
Accounts == {<<>>, <<"down">>, <<"down", "up">>}

DInv == TInv /\ DownIsReported /\ \A m \in Monitors : told[m] \in Accounts

LEMMA AccountsEnd ==
  \A said \in Accounts : SaidLast(said, "down") <=> said = <<"down">>
BY DEF Accounts, SaidLast

LEMMA AnsweredOutage == Append(<<"down">>, "up") = <<"down", "up">>
<1> DEFINE S == {"up", "down"}
<1>1. /\ Append(<<"down">>, "up") \in Seq(S)
      /\ Len(Append(<<"down">>, "up")) = 2
      /\ Append(<<"down">>, "up")[1] = "down" /\ Append(<<"down">>, "up")[2] = "up"
  BY OneEntry, AppendProperties
<1>2. <<"down", "up">> \in Seq(S) /\ Len(<<"down", "up">>) = 2
  OBVIOUS
<1>3. <<"down", "up">>[1] = "down" /\ <<"down", "up">>[2] = "up"
  OBVIOUS
<1> DEFINE s == Append(<<"down">>, "up")
           t == <<"down", "up">>
<1>4. s \in Seq(S) /\ t \in Seq(S) /\ Len(s) = Len(t)
  BY <1>1, <1>2
<1>5. \A i \in 1 .. Len(s) : s[i] = t[i]
  <2>1. Len(s) = 2 /\ s[1] = t[1] /\ s[2] = t[2]
    BY <1>1, <1>3
  <2> HIDE DEF s, t
  <2> QED BY <2>1
<1>6. s = t
  <2> HIDE DEF s, t, S
  <2> QED BY <1>4, <1>5, SeqEqual
<1> QED BY <1>6

LEMMA DInvInit == Init => DInv
<1> SUFFICES ASSUME Init PROVE DInv
  OBVIOUS
<1>1. \A m \in Monitors : track[m].state = "unknown" /\ told[m] = <<>>
  BY DEF Init, FreshTracker
<1> QED BY <1>1, TInvInit DEF DInv, DownIsReported, Accounts

LEMMA DInvNext == DInv /\ [Next]_vars => DInv'
<1> SUFFICES ASSUME DInv, [Next]_vars PROVE DInv'
  OBVIOUS
<1>1. TInv /\ TInv'
  BY TInvNext DEF DInv
<1> DEFINE Fine(n) == told'[n] \in Accounts
                      /\ (track'[n].state = "down" => told'[n] = <<"down">>)
<1>2. SUFFICES ASSUME NEW n \in Monitors PROVE Fine(n)
  <2>1. \A n \in Monitors : Fine(n)
    BY <1>2
  <2> HIDE DEF Fine
  <2>2. \A n \in Monitors : SaidLast(<<"down">>, "down")
    BY DEF SaidLast
  <2>3. (\A n \in Monitors : told[n] \in Accounts)'
    BY <2>1 DEF Fine
  <2>4. DownIsReported'
    BY <2>1, <2>2 DEF Fine, DownIsReported
  <2> QED BY <1>1, <2>3, <2>4 DEF DInv
<1> USE <1>1 DEF TInv, TypeOK
<1>3. told[n] \in Accounts /\ (track[n].state = "down" => told[n] = <<"down">>)
  BY AccountsEnd DEF DInv, DownIsReported
<1>4. ASSUME NEW m \in Monitors, Observe(m) PROVE Fine(n)
  <2> DEFINE next == MachineObserve(track[m], IsUp(result[m]))
  <2>1. /\ track' = [track EXCEPT ![m] = next]
        /\ told' = [told EXCEPT ![m] =
             IF IsAlarm(track[m].state, next.state)
             THEN Announce(@, next.state) ELSE @]
    BY <1>4 DEF Observe
  <2>2. next.state \in {"unknown", "up", "down"}
        /\ (next.state = "unknown" => track[m].state = "unknown")
    BY DEF MachineObserve, Tracker, State
  <2> HIDE DEF next
  <2>3. CASE n = m /\ IsAlarm(track[m].state, next.state) /\ next.state = "down"
    BY <2>1, <2>3 DEF Announce, Accounts
  <2>4. CASE n = m /\ IsAlarm(track[m].state, next.state) /\ next.state # "down"
    <3>1. track[n].state = "down" /\ next.state = "up"
      BY <2>2, <2>4 DEF IsAlarm, Tracker, State
    <3>2. told'[n] = Append(<<"down">>, "up") /\ track'[n].state = "up"
      BY <1>3, <2>1, <2>4, <3>1 DEF Announce
    <3> QED BY <3>2, AnsweredOutage DEF Accounts
  <2>5. CASE n = m /\ ~IsAlarm(track[m].state, next.state)
    <3>1. told'[n] = told[n] /\ track'[n] = next
      BY <2>1, <2>5
    <3>2. next.state = "down" => track[n].state = "down"
      BY <2>5 DEF IsAlarm
    <3> QED BY <1>3, <3>1, <3>2
  <2>6. CASE n # m
    BY <1>3, <2>1, <2>6
  <2> QED BY <2>3, <2>4, <2>5, <2>6
<1>5. ASSUME NEW m \in Monitors,
             StartProbe(m) \/ FinishProbe(m) \/ ObserveCert(m) \/ ObserveFlap(m)
      PROVE  Fine(n)
  BY <1>3, <1>5 DEF StartProbe, FinishProbe, ObserveCert, ObserveFlap
<1>6. ASSUME Restart PROVE Fine(n)
  BY <1>3, <1>6 DEF Restart, FreshTracker
<1>7. CASE UNCHANGED vars
  BY <1>3, <1>7 DEF vars
<1> QED BY <1>4, <1>5, <1>6, <1>7 DEF Next

(* Whenever a monitor is down, the last state-change alert said so, across  *)
(* any number of restarts.                                                  *)
THEOREM DownIsReportedHolds == Spec => []DownIsReported
<1>1. DInv => DownIsReported
  BY DEF DInv
<1> QED BY DInvInit, DInvNext, <1>1, PTL DEF Spec

(* For all thresholds and any number of restarts: "up" is announced on top  *)
(* of a "down" only, never of another "up" or of nothing.                   *)
THEOREM RecoveryAnswersAlarmHolds == Spec => []RecoveryAnswersAlarm
<1>1. ASSUME NEW said \in Accounts, NEW i \in 1 .. Len(said), said[i] = "up"
      PROVE  i > 1 /\ said[i - 1] = "down"
  <2>1. said = <<"down", "up">> /\ i = 2
    BY <1>1 DEF Accounts
  <2> QED BY <2>1
<1>2. DInv => RecoveryAnswersAlarm
  BY <1>1 DEF DInv, RecoveryAnswersAlarm
<1> QED BY DInvInit, DInvNext, <1>2, PTL DEF Spec

-----------------------------------------------------------------------------
(* Certificates.                                                            *)
\* A warned tracker has alerted and no more; one that is not may follow a
\* process that had.
CertAccount(warned, said) ==
  IF warned THEN said = <<"alert">> ELSE said \in {<<>>, <<"restart">>}

CInv ==
  /\ TInv
  /\ \A m \in Monitors : /\ CertAccount(certWarned[m], certTold[m])
                         /\ stage[m] = "cert" => result[m].hasCert

LEMMA CInvInit == Init => CInv
BY TInvInit DEF Init, CInv, CertAccount

LEMMA CInvNext == CInv /\ [Next]_vars => CInv'
<1> SUFFICES ASSUME CInv, [Next]_vars PROVE CInv'
  OBVIOUS
<1>1. TInv /\ TInv'
  BY TInvNext DEF CInv
<1>2. \A n \in Monitors : /\ CertAccount(certWarned[n], certTold[n])
                          /\ stage[n] = "cert" => result[n].hasCert
  BY DEF CInv
<1>3. SUFFICES ASSUME NEW n \in Monitors
               PROVE  /\ CertAccount(certWarned'[n], certTold'[n])
                      /\ stage'[n] = "cert" => result'[n].hasCert
  BY <1>1 DEF CInv
<1> USE <1>1 DEF TInv, TypeOK
<1> DEFINE Goal == /\ CertAccount(certWarned'[n], certTold'[n])
                   /\ stage'[n] = "cert" => result'[n].hasCert
<1>4. ASSUME NEW m \in Monitors, StartProbe(m) \/ FinishProbe(m) PROVE Goal
  BY <1>2, <1>4 DEF StartProbe, FinishProbe
<1>5. ASSUME NEW m \in Monitors, Observe(m) PROVE Goal
  <2>1. /\ stage' = [stage EXCEPT ![m] = IF result[m].hasCert THEN "cert" ELSE "flap"]
        /\ UNCHANGED <<result, certWarned, certTold>>
    BY <1>5 DEF Observe
  <2> QED BY <1>2, <2>1
<1>6. ASSUME NEW m \in Monitors, ObserveCert(m) PROVE Goal
  <2> DEFINE r == result[m]
             warned == CertObserve(certWarned[m], r)
             said == CertNews(certTold[m], certWarned[m], r)
  <2>1. /\ certWarned' = [certWarned EXCEPT ![m] = warned]
        /\ certTold' = [certTold EXCEPT ![m] = said]
        /\ stage' = [stage EXCEPT ![m] = "flap"]
        /\ UNCHANGED result
    BY <1>6 DEF ObserveCert
  <2>2. r.hasCert /\ r.hoursLeft \in Int
    BY <1>2, <1>6 DEF ObserveCert, Result
  <2>3. warned <=> r.hoursLeft < 24 * CertWarnDays
    <3>1. warned <=> DaysLeft(r.hoursLeft) < CertWarnDays
      BY <2>2, Zenon DEF CertObserve
    <3>2. DaysLeft(r.hoursLeft) < CertWarnDays <=> r.hoursLeft < 24 * CertWarnDays
      BY <2>2, DaysLeftThreshold
    <3> QED BY <3>1, <3>2
  <2>4. CertFires(certWarned[m], r) <=> ~certWarned[m] /\ warned
    BY DEF CertFires
  <2>5. r.hoursLeft >= 24 * CertWarnDays <=> ~warned
    BY <2>2, <2>3, ThresholdsAssumption
  <2>6. CertAccount(certWarned[m], certTold[m])
    BY <1>2
  <2> HIDE DEF warned
  <2>7. CertAccount(warned, said)
    <3>1. CASE ~warned
      BY <2>5, <3>1 DEF CertNews, CertAccount
    <3>2. CASE warned /\ certWarned[m]
      BY <2>4, <2>5, <2>6, <3>2 DEF CertNews, CertAccount
    <3>3. CASE warned /\ ~certWarned[m]
      <4>1. said = IF certTold[m] = <<"restart">> THEN <<"alert">>
                   ELSE Append(certTold[m], "alert")
        BY <2>4, <2>5, <3>3 DEF CertNews
      <4>2. certTold[m] \in {<<>>, <<"restart">>}
        BY <2>6, <3>3 DEF CertAccount
      <4>3. Append(<<>>, "alert") = <<"alert">>
        OBVIOUS
      <4> QED BY <3>3, <4>1, <4>2, <4>3 DEF CertAccount
    <3> QED BY <3>1, <3>2, <3>3
  <2> HIDE DEF said
  <2> QED BY <1>2, <2>1, <2>7
<1>7. ASSUME NEW m \in Monitors, ObserveFlap(m) PROVE Goal
  BY <1>2, <1>7 DEF ObserveFlap
<1>8. ASSUME Restart PROVE Goal
  BY <1>8 DEF Restart, CertForgotten, CertAccount
<1>9. CASE UNCHANGED vars
  BY <1>2, <1>9 DEF vars
<1> QED BY <1>4, <1>5, <1>6, <1>7, <1>8, <1>9 DEF Next

(* One certificate alert per crossing and process life, for every           *)
(* CertWarnDays > 0, every lifetime, expired certificates included, and     *)
(* restarts at any point: none is sent on top of another but for a restart. *)
THEOREM CertOncePerCrossingHolds == Spec => []CertOncePerCrossing
<1>1. ASSUME NEW warned \in BOOLEAN, NEW said, CertAccount(warned, said)
      PROVE  /\ warned <=> SaidLast(said, "alert")
             /\ \A i \in 2 .. Len(said) : said[i] # "alert"
  <2>1. Len(said) \in {0, 1}
    <3>1. Len(<<>>) = 0 /\ Len(<<"alert">>) = 1 /\ Len(<<"restart">>) = 1
      OBVIOUS
    <3>2. said \in {<<>>, <<"alert">>, <<"restart">>}
      BY <1>1, Zenon DEF CertAccount
    <3> QED BY <3>1, <3>2, Zenon
  <2>2. warned <=> SaidLast(said, "alert")
    BY <1>1 DEF CertAccount, SaidLast
  <2> QED BY <2>1, <2>2
<1>2. CInv => CertOncePerCrossing
  BY <1>1 DEF CInv, TInv, TypeOK, CertOncePerCrossing
<1> QED BY CInvInit, CInvNext, <1>2, PTL DEF Spec

-----------------------------------------------------------------------------
(* The two detectors leave no gap.                                          *)

(* Induction over the numbers in a set, from the least counterexample.      *)
LEMMA NatSetInduction ==
  ASSUME NEW S, 0 \in S, \A n \in Nat : n \in S => n + 1 \in S
  PROVE  Nat \subseteq S
<1> DEFINE T == Nat \ S
<1>1. SUFFICES ASSUME T # {} PROVE FALSE
  OBVIOUS
<1>2. PICK x \in T : \A y \in T : ~ (<<y, x>> \in OpToRel(<, Nat))
  BY <1>1, NatLessThanWellFounded, WFMin, Zenon
<1>3. \A y \in T : ~(y < x)
  BY <1>2, Zenon DEF OpToRel
<1>4. x \in Nat /\ x \notin S /\ x # 0
  OBVIOUS
<1>5. x - 1 \in Nat /\ x - 1 < x /\ (x - 1) + 1 = x
  BY <1>4
<1>6. x - 1 \in S
  BY <1>3, <1>5
<1> QED BY <1>4, <1>5, <1>6

(* Failures and flips among the first n results of a window.                *)
FailsTo(w, n) == Cardinality({i \in 1 .. n : ~w[i]})
FlipsTo(w, n) == Cardinality({i \in 2 .. n : w[i] # w[i - 1]})

(* One more result counts for one at most.                                  *)
LEMMA CountStep ==
  ASSUME NEW A, NEW x, NEW n \in Nat, A \subseteq 1 .. n, x \notin A
  PROVE  /\ IsFiniteSet(A) /\ Cardinality(A) \in Nat
         /\ Cardinality(A \union {x}) = Cardinality(A) + 1
<1>1. IsFiniteSet(1 .. n)
  BY FS_Interval
<1>2. IsFiniteSet(A) /\ Cardinality(A) \in Nat
  BY <1>1, FS_Subset, FS_CardinalityType
<1> QED BY <1>2, FS_AddElement

LEMMA FailsStep ==
  ASSUME NEW w, NEW n \in Nat
  PROVE  /\ FailsTo(w, n) \in Nat
         /\ FailsTo(w, n + 1) = FailsTo(w, n) + (IF w[n + 1] THEN 0 ELSE 1)
<1> DEFINE A == {i \in 1 .. n : ~w[i]}
           B == {i \in 1 .. n + 1 : ~w[i]}
<1>1. A \subseteq 1 .. n /\ n + 1 \notin A
  OBVIOUS
<1>2. 1 .. n + 1 = (1 .. n) \union {n + 1}
  OBVIOUS
<1>3. B = IF w[n + 1] THEN A ELSE A \union {n + 1}
  BY <1>2
<1> HIDE DEF A, B
<1>4. Cardinality(A) \in Nat /\ Cardinality(A \union {n + 1}) = Cardinality(A) + 1
  BY <1>1, CountStep
<1>5. Cardinality(B) = Cardinality(A) + (IF w[n + 1] THEN 0 ELSE 1)
  BY <1>3, <1>4
<1> QED BY <1>4, <1>5 DEF FailsTo, A, B

LEMMA FlipsStep ==
  ASSUME NEW w, NEW n \in Nat \ {0}
  PROVE  /\ FlipsTo(w, n) \in Nat
         /\ FlipsTo(w, n + 1) = FlipsTo(w, n) + (IF w[n + 1] = w[n] THEN 0 ELSE 1)
<1> DEFINE A == {i \in 2 .. n : w[i] # w[i - 1]}
           B == {i \in 2 .. n + 1 : w[i] # w[i - 1]}
<1>1. A \subseteq 1 .. n /\ n + 1 \notin A
  OBVIOUS
<1>2. 2 .. n + 1 = (2 .. n) \union {n + 1} /\ (n + 1) - 1 = n
  OBVIOUS
<1>3. B = IF w[n + 1] = w[n] THEN A ELSE A \union {n + 1}
  BY <1>2
<1> HIDE DEF A, B
<1>4. Cardinality(A) \in Nat /\ Cardinality(A \union {n + 1}) = Cardinality(A) + 1
  BY <1>1, CountStep
<1>5. Cardinality(B) = Cardinality(A) + (IF w[n + 1] = w[n] THEN 0 ELSE 1)
  BY <1>3, <1>4
<1> QED BY <1>4, <1>5 DEF FlipsTo, A, B

LEMMA CountsAtOne ==
  ASSUME NEW w
  PROVE  FailsTo(w, 0) = 0 /\ FlipsTo(w, 1) = 0
<1>1. {i \in 1 .. 0 : ~w[i]} = {} /\ {i \in 2 .. 1 : w[i] # w[i - 1]} = {}
  OBVIOUS
<1> QED BY <1>1, FS_EmptySet DEF FailsTo, FlipsTo

(* What the first n results of a window without an outage look like: r       *)
(* failures at the end, q runs of failures before them, none longer than     *)
(* FailThreshold - 1, and a run begins or ends at every flip.               *)
Runs(w, n, q, r) ==
  /\ 2 * q = FlipsTo(w, n) + (IF w[1] THEN 0 ELSE 1) - (IF w[n] THEN 0 ELSE 1)
  /\ w[n] <=> r = 0
  /\ r <= n /\ \A i \in n - r + 1 .. n : ~w[i]
  /\ FailsTo(w, n) <= q * (FailThreshold - 1) + r

(* A run at the end of n results is shorter than FailThreshold.             *)
LEMMA RunIsShort ==
  ASSUME NEW w, Len(w) \in Nat, ~HasOutage(w),
         NEW n \in 1 .. Len(w), NEW r \in Nat, r <= n, r <= FailThreshold,
         \A i \in n - r + 1 .. n : ~w[i]
  PROVE  r <= FailThreshold - 1
<1>1. FailThreshold \in Nat \ {0}
  BY ThresholdsAssumption
<1>2. SUFFICES ASSUME r = FailThreshold PROVE FALSE
  BY <1>1
<1> DEFINE a == n - r + 1
<1>3. a \in 1 .. Len(w) - FailThreshold + 1
  BY <1>1, <1>2
<1>4. a + FailThreshold - 1 = n
  BY <1>1, <1>2
<1>5. \A j \in a .. a + FailThreshold - 1 : ~w[j]
  BY <1>4
<1> HIDE DEF a
<1> QED BY <1>3, <1>5 DEF HasOutage

LEMMA RunsStep ==
  ASSUME NEW w \in Seq(BOOLEAN), ~HasOutage(w),
         NEW n \in Nat, n >= 1, n + 1 <= Len(w),
         NEW q \in Nat, NEW r \in 0 .. FailThreshold - 1, Runs(w, n, q, r)
  PROVE  \E p \in Nat, s \in 0 .. FailThreshold - 1 : Runs(w, n + 1, p, s)
<1> DEFINE F == FailThreshold - 1
<1>1. FailThreshold \in Nat \ {0} /\ Len(w) \in Nat /\ F \in Nat
  BY ThresholdsAssumption, LenProperties
<1>2. w[n] \in BOOLEAN /\ w[n + 1] \in BOOLEAN /\ w[1] \in BOOLEAN
  BY <1>1, ElementOfSeq
<1>3. /\ FailsTo(w, n) \in Nat
      /\ FailsTo(w, n + 1) = FailsTo(w, n) + (IF w[n + 1] THEN 0 ELSE 1)
  BY FailsStep
<1>4. /\ FlipsTo(w, n) \in Nat
      /\ FlipsTo(w, n + 1) = FlipsTo(w, n) + (IF w[n + 1] = w[n] THEN 0 ELSE 1)
  <2>1. n \in Nat \ {0}
    OBVIOUS
  <2> QED BY <2>1, FlipsStep
<1>a. w[n + 1] = w[n] <=> (w[n + 1] <=> w[n])
  <2>1. \A x, y \in BOOLEAN : x = y <=> (x <=> y)
    OBVIOUS
  <2> QED BY <1>2, <2>1, Zenon
<1>5. CASE ~w[n + 1]
  <2> DEFINE s == r + 1
  <2>1. \A i \in n - r + 1 .. n : ~w[i]
    BY DEF Runs
  <2>2. \A i \in (n + 1) - s + 1 .. n + 1 : ~w[i]
    BY <1>1, <1>5, <2>1
  <2>3. s \in Nat /\ s <= n + 1 /\ s <= FailThreshold /\ s # 0
    BY <1>1 DEF Runs
  <2>4. s <= FailThreshold - 1
    <3>1. n + 1 \in 1 .. Len(w)
      BY <1>1
    <3> HIDE DEF s
    <3> QED BY <1>1, <2>2, <2>3, <3>1, RunIsShort
  <2>5. FailsTo(w, n + 1) <= q * F + s
    <3>1. q * F \in Nat
      BY <1>1
    <3>2. FailsTo(w, n) <= q * F + r
      BY DEF Runs
    <3> HIDE DEF F
    <3> QED BY <1>3, <1>5, <3>1, <3>2
  <2>6. 2 * q = FlipsTo(w, n + 1) + (IF w[1] THEN 0 ELSE 1) - 1
    <3>1. CASE w[n]
      <4>1. FlipsTo(w, n + 1) = FlipsTo(w, n) + 1
        BY <1>a, <1>4, <1>5, <3>1
      <4> QED BY <1>4, <3>1, <4>1 DEF Runs
    <3>2. CASE ~w[n]
      <4>1. FlipsTo(w, n + 1) = FlipsTo(w, n)
        BY <1>a, <1>4, <1>5, <3>2
      <4> QED BY <1>4, <3>2, <4>1 DEF Runs
    <3> QED BY <3>1, <3>2
  <2> HIDE DEF s
  <2>7. Runs(w, n + 1, q, s)
    BY <1>5, <2>2, <2>3, <2>5, <2>6 DEF Runs
  <2> QED BY <1>1, <2>3, <2>4, <2>7
<1>6. CASE w[n + 1] /\ w[n]
  <2>1. r = 0 /\ FlipsTo(w, n + 1) = FlipsTo(w, n) /\ FailsTo(w, n + 1) = FailsTo(w, n)
    BY <1>a, <1>3, <1>4, <1>6 DEF Runs
  <2>2. \A i \in (n + 1) - 0 + 1 .. n + 1 : ~w[i]
    OBVIOUS
  <2>3. Runs(w, n + 1, q, 0)
    BY <1>6, <2>1, <2>2 DEF Runs
  <2> QED BY <1>1, <2>3
<1>7. CASE w[n + 1] /\ ~w[n]
  <2>1. FlipsTo(w, n + 1) = FlipsTo(w, n) + 1 /\ FailsTo(w, n + 1) = FailsTo(w, n)
    <3>1. w[n + 1] # w[n]
      BY <1>a, <1>7
    <3>2. FailsTo(w, n + 1) = FailsTo(w, n) + 0
      BY <1>3, <1>7
    <3> QED BY <1>3, <1>4, <3>1, <3>2
  <2>2. \A i \in (n + 1) - 0 + 1 .. n + 1 : ~w[i]
    OBVIOUS
  <2>3. FailsTo(w, n) <= q * F + r /\ (q + 1) * F = q * F + F /\ q * F \in Nat
    BY <1>1 DEF Runs
  <2>4. FailsTo(w, n + 1) <= (q + 1) * F + 0
    <3> HIDE DEF F
    <3>1. r <= F /\ r \in Nat
      BY <1>1 DEF F
    <3> QED BY <1>1, <1>3, <2>1, <2>3, <3>1
  <2>5. 2 * (q + 1) = FlipsTo(w, n + 1) + (IF w[1] THEN 0 ELSE 1) - 0
    BY <1>2, <1>4, <1>7, <2>1 DEF Runs
  <2>6. Runs(w, n + 1, q + 1, 0)
    BY <1>7, <2>2, <2>4, <2>5 DEF Runs
  <2> QED BY <1>1, <2>6
<1> QED BY <1>2, <1>5, <1>6, <1>7

(* Induction over the results of the window.                                *)
LEMMA RunsOfWindow ==
  ASSUME NEW w \in Seq(BOOLEAN), ~HasOutage(w), Len(w) # 0
  PROVE  \E q \in Nat, r \in 0 .. FailThreshold - 1 : Runs(w, Len(w), q, r)
<1> DEFINE S == {n \in Nat : n \in 1 .. Len(w) =>
                   \E q \in Nat, r \in 0 .. FailThreshold - 1 : Runs(w, n, q, r)}
<1>1. FailThreshold \in Nat \ {0} /\ Len(w) \in Nat \ {0} /\ w[1] \in BOOLEAN
  <2>1. FailThreshold \in Nat \ {0} /\ Len(w) \in Nat \ {0}
    BY ThresholdsAssumption, LenProperties
  <2> QED BY <2>1, ElementOfSeq
<1>2. 0 \in S
  OBVIOUS
<1>3. 1 \in S
  <2>1. FailsTo(w, 1) = (IF w[1] THEN 0 ELSE 1) /\ FlipsTo(w, 1) = 0
    <3>1. FailsTo(w, 0) = 0 /\ FlipsTo(w, 1) = 0
      BY CountsAtOne
    <3>2. FailsTo(w, 0 + 1) = FailsTo(w, 0) + (IF w[0 + 1] THEN 0 ELSE 1)
      BY FailsStep
    <3> QED BY <3>1, <3>2
  <2>2. CASE w[1]
    <3>1. \A i \in 1 - 0 + 1 .. 1 : ~w[i]
      OBVIOUS
    <3>2. 0 * (FailThreshold - 1) = 0
      BY <1>1
    <3>3. Runs(w, 1, 0, 0)
      BY <2>1, <2>2, <3>1, <3>2 DEF Runs
    <3> QED BY <1>1, <3>3
  <2>3. CASE ~w[1]
    <3>1. \A i \in 1 - 1 + 1 .. 1 : ~w[i]
      BY <2>3
    <3>2. 1 <= FailThreshold - 1
      BY <1>1, <3>1, RunIsShort
    <3>3. 0 * (FailThreshold - 1) = 0
      BY <1>1
    <3>4. Runs(w, 1, 0, 1)
      BY <2>1, <2>3, <3>1, <3>3 DEF Runs
    <3> QED BY <1>1, <3>2, <3>4
  <2> QED BY <2>2, <2>3
<1>4. ASSUME NEW n \in Nat, n \in S PROVE n + 1 \in S
  <2>1. CASE n = 0
    BY <1>3, <2>1
  <2>2. CASE n # 0 /\ n + 1 <= Len(w)
    <3>1. n \in 1 .. Len(w) /\ n >= 1
      BY <1>1, <2>2
    <3>2. PICK q \in Nat, r \in 0 .. FailThreshold - 1 : Runs(w, n, q, r)
      BY <1>4, <3>1
    <3>3. \E p \in Nat, s \in 0 .. FailThreshold - 1 : Runs(w, n + 1, p, s)
      BY <2>2, <3>1, <3>2, RunsStep
    <3> QED BY <3>3
  <2>3. CASE ~(n + 1 <= Len(w))
    BY <1>1, <2>3
  <2> QED BY <2>1, <2>2, <2>3
<1> HIDE DEF S
<1>5. Nat \subseteq S
  BY <1>2, <1>4, NatSetInduction
<1>6. Len(w) \in S
  BY <1>1, <1>5
<1> QED BY <1>1, <1>6 DEF S

LEMMA Monotone ==
  ASSUME NEW a \in Nat, NEW b \in Nat, NEW c \in Nat, a <= b
  PROVE  a * c <= b * c
<1>1. (b - a) * c \in Nat
  OBVIOUS
<1>2. b * c = a * c + (b - a) * c
  OBVIOUS
<1> QED BY <1>1, <1>2

LEMMA FlipsAndFailuresType ==
  ASSUME NEW w \in Seq(BOOLEAN)
  PROVE  Flips(w) \in Nat /\ Failures(w) \in Nat
<1>1. Len(w) \in Nat
  BY LenProperties
<1>2. IsFiniteSet(1 .. Len(w))
  BY <1>1, FS_Interval
<1>3. /\ {i \in 2 .. Len(w) : w[i] # w[i - 1]} \subseteq 1 .. Len(w)
      /\ {i \in 1 .. Len(w) : ~w[i]} \subseteq 1 .. Len(w)
  OBVIOUS
<1> QED BY <1>2, <1>3, FS_Subset, FS_CardinalityType DEF Flips, Failures

(* A window that is neither an outage nor flapping holds no more failures    *)
(* than its runs of failures can.                                           *)
LEMMA QuietWindow ==
  ASSUME NEW w \in Seq(BOOLEAN), ~HasOutage(w), Flips(w) < FlapThreshold
  PROVE  Failures(w) <= ((FlapThreshold + 1) \div 2) * (FailThreshold - 1)
<1> DEFINE F == FailThreshold - 1
           h == (FlapThreshold + 1) \div 2
<1>1. Len(w) \in Nat /\ F \in Nat /\ h \in Nat /\ FlapThreshold \in Nat
  BY ThresholdsAssumption, LenProperties
<1>2. Failures(w) = FailsTo(w, Len(w)) /\ Flips(w) = FlipsTo(w, Len(w))
  BY DEF Failures, Flips, FailsTo, FlipsTo
<1>3. CASE Len(w) = 0
  <2>1. Failures(w) = 0
    BY <1>2, <1>3, CountsAtOne
  <2>2. h * F \in Nat
    <3> HIDE DEF h, F
    <3> QED BY <1>1
  <2> QED BY <2>1, <2>2
<1>4. CASE Len(w) # 0
  <2>1. PICK q \in Nat, r \in 0 .. FailThreshold - 1 : Runs(w, Len(w), q, r)
    BY <1>4, RunsOfWindow
  <2>2. /\ 2 * q = Flips(w) + (IF w[1] THEN 0 ELSE 1) - (IF w[Len(w)] THEN 0 ELSE 1)
        /\ w[Len(w)] <=> r = 0
        /\ Failures(w) <= q * F + r
    BY <1>2, <2>1 DEF Runs
  <2>3. Flips(w) \in Nat /\ Failures(w) \in Nat
    BY <1>1, <1>2, <1>4, FailsStep, FlipsStep
  <2>4. r \in Nat /\ r <= F
    BY <1>1
  <2>5. PICK k \in Nat : 2 * k <= FlapThreshold + 1 /\ Failures(w) <= k * F
    <3>1. CASE r = 0
      <4>1. 2 * q <= FlapThreshold + 1 /\ q * F \in Nat
        BY <1>1, <2>2, <2>3, <3>1
      <4>2. Failures(w) <= q * F
        BY <2>2, <2>3, <3>1, <4>1
      <4> QED BY <4>1, <4>2
    <3>2. CASE r # 0
      <4>1. 2 * (q + 1) <= FlapThreshold + 1
        BY <1>1, <2>2, <2>3, <3>2
      <4>2. (q + 1) * F = q * F + F /\ q * F \in Nat
        BY <1>1
      <4> HIDE DEF F
      <4>3. Failures(w) <= (q + 1) * F
        BY <1>1, <2>2, <2>3, <2>4, <4>2
      <4> QED BY <4>1, <4>3
    <3> QED BY <3>1, <3>2
  <2>6. k <= h
    BY <1>1, <2>5
  <2> HIDE DEF h, F
  <2>7. k * F <= h * F /\ k * F \in Nat /\ h * F \in Nat
    BY <1>1, <2>6, Monotone
  <2>8. Failures(w) <= h * F
    BY <2>3, <2>5, <2>7
  <2> QED BY <2>8 DEF h, F
<1> QED BY <1>3, <1>4

(* The flap tracker's flag is the verdict of its window, whose failures are  *)
(* what the theorem counts.                                                 *)
FlagIsVerdict ==
  \A m \in Monitors : flap[m].warned <=> Flips(flap[m].window) >= FlapThreshold

FInv == TInv /\ FlagIsVerdict

LEMMA NoFlips == ~(Flips(FreshFlap.window) >= FlapThreshold)
<1>1. {i \in 2 .. 0 : FreshFlap.window[i] # FreshFlap.window[i - 1]} = {}
  OBVIOUS
<1>2. Flips(FreshFlap.window) = 0
  BY <1>1, EmptyWindow, FS_EmptySet DEF Flips
<1> QED BY <1>2, ThresholdsAssumption

LEMMA FInvInit == Init => FInv
<1> SUFFICES ASSUME Init PROVE FInv
  OBVIOUS
<1>1. \A m \in Monitors : flap[m] = FreshFlap
  BY DEF Init
<1>2. ~FreshFlap.warned
  BY DEF FreshFlap
<1> QED BY <1>1, <1>2, NoFlips, TInvInit DEF FInv, FlagIsVerdict

LEMMA FInvNext == FInv /\ [Next]_vars => FInv'
<1> SUFFICES ASSUME FInv, [Next]_vars PROVE FInv'
  OBVIOUS
<1>1. TInv /\ TInv'
  BY TInvNext DEF FInv
<1>2. SUFFICES ASSUME NEW n \in Monitors
               PROVE  flap'[n].warned <=> Flips(flap'[n].window) >= FlapThreshold
  BY <1>1 DEF FInv, FlagIsVerdict
<1>3. flap[n].warned <=> Flips(flap[n].window) >= FlapThreshold
  BY DEF FInv, FlagIsVerdict
<1>4. ASSUME NEW m \in Monitors,
             StartProbe(m) \/ FinishProbe(m) \/ Observe(m) \/ ObserveCert(m)
      PROVE  flap'[n] = flap[n]
  BY <1>4 DEF StartProbe, FinishProbe, Observe, ObserveCert
<1>5. ASSUME NEW m \in Monitors, ObserveFlap(m)
      PROVE  flap'[n].warned <=> Flips(flap'[n].window) >= FlapThreshold
  <2>1. CASE n = m
    <3> DEFINE w == LastN(Append(flap[m].window, IsUp(result[m])), FlapWindow)
    <3>1. flap'[n] = FlapObserve(flap[m], IsUp(result[m]))
      BY <1>1, <1>5, <2>1 DEF ObserveFlap, TInv, TypeOK
    <3>2. flap'[n] = [window |-> w, warned |-> Flips(w) >= FlapThreshold]
      BY <3>1 DEF FlapObserve
    <3> HIDE DEF w
    <3>3. flap'[n].window = w /\ flap'[n].warned = (Flips(w) >= FlapThreshold)
      BY <3>2
    <3> QED BY <3>3, Zenon
  <2>2. CASE n # m
    <3>1. flap'[n] = flap[n]
      BY <1>1, <1>5, <2>2 DEF ObserveFlap, TInv, TypeOK
    <3> QED BY <1>3, <3>1
  <2> QED BY <2>1, <2>2
<1>6. ASSUME Restart
      PROVE  flap'[n].warned <=> Flips(flap'[n].window) >= FlapThreshold
  <2>1. flap'[n] = FreshFlap /\ ~FreshFlap.warned
    BY <1>6 DEF Restart, FreshFlap
  <2> QED BY <2>1, NoFlips
<1>7. CASE UNCHANGED vars
  <2>1. flap'[n] = flap[n]
    BY <1>7 DEF vars
  <2> QED BY <1>3, <2>1
<1> QED BY <1>3, <1>4, <1>5, <1>6, <1>7 DEF Next

(* For every threshold and every window: a target with more failures in its  *)
(* window than runs too short for the machine can hold, was down within the  *)
(* window or is reported as flapping (flap.go, machine.go).                 *)
THEOREM NoSilentOutageHolds == Spec => []NoSilentOutage
<1>1. FInv => NoSilentOutage
  <2> SUFFICES ASSUME FInv, NEW m \in Monitors,
                      ~HasOutage(flap[m].window), ~flap[m].warned
               PROVE  ~(Failures(flap[m].window)
                          > ((FlapThreshold + 1) \div 2) * (FailThreshold - 1))
    BY DEF NoSilentOutage
  <2> DEFINE w == flap[m].window
             h == ((FlapThreshold + 1) \div 2) * (FailThreshold - 1)
  <2>1. w \in Seq(BOOLEAN)
    BY DEF FInv, TInv, TypeOK, FlapState
  <2>2. ~(Flips(w) >= FlapThreshold)
    BY DEF FInv, FlagIsVerdict
  <2>3. Flips(w) \in Nat /\ Failures(w) \in Nat
    BY <2>1, FlipsAndFailuresType
  <2> HIDE DEF w
  <2>4. Flips(w) < FlapThreshold
    BY <2>2, <2>3, ThresholdsAssumption
  <2>5. Failures(w) <= h
    BY <2>1, <2>4, QuietWindow DEF w
  <2>6. h \in Nat
    <3>1. (FlapThreshold + 1) \div 2 \in Nat /\ FailThreshold - 1 \in Nat
      BY ThresholdsAssumption
    <3> QED BY <3>1
  <2> HIDE DEF h
  <2>7. ~(Failures(w) > h)
    BY <2>3, <2>5, <2>6
  <2> QED BY <2>7 DEF w, h
<1> QED BY <1>1, FInvInit, FInvNext, PTL DEF Spec

-----------------------------------------------------------------------------
(* The path of the alerts.                                                  *)

(* What becomes of the trackers is what ProbePipeline says: the queue and   *)
(* its worker only listen.                                                  *)
LEMMA PathStep == [PathNext]_pathVars => [Next]_vars
BY DEF PathNext, pathVars, Next, ProbeSteps, RaiseState, RaiseCert, RaiseFlap,
       Receive, Delivered, NotDelivered, Close, RestartAll

(* Behind a bounded queue that drops, the trackers still behave as          *)
(* ProbePipeline promises, so its theorems hold of the whole path.          *)
THEOREM PathImplementsPipeline == PathSpec => Spec
<1>1. PathInit => Init
  BY DEF PathInit
<1> QED BY <1>1, PathStep, PTL DEF PathSpec, Spec

-----------------------------------------------------------------------------
(* Sequences of alerts, read from their old end to their new one.           *)

WaitsIn(s, m, topic) == \E i \in 1 .. Len(s) : About(s[i], m, topic)

\* The state an operator who thinks h ends up with, s delivered.
EndsWith(s, h, m, k) ==
  \/ \E i \in 1 .. Len(s) :
       /\ s[i] = [mon |-> m, kind |-> k]
       /\ \A j \in i + 1 .. Len(s) : ~About(s[j], m, "state")
  \/ h = k /\ ~WaitsIn(s, m, "state")

LEMMA ReadAsSequences ==
  ASSUME NEW m \in Monitors
  PROVE  /\ \A t : Waiting(m, t) <=> WaitsIn(OnItsWay, m, t)
         /\ \A t : Waiting(m, t)' <=> WaitsIn(OnItsWay', m, t)
         /\ \A k : AtLast(m, k) <=> EndsWith(OnItsWay, heard[m].state, m, k)
         /\ \A k : AtLast(m, k)' <=> EndsWith(OnItsWay', heard'[m].state, m, k)
BY DEF Waiting, WaitsIn, AtLast, EndsWith

(* An alert at the end of the queue is waiting, with those before it, and   *)
(* settles what the operator will think if it announces a state.            *)
LEMMA AppendWaits ==
  ASSUME NEW s \in Seq(Alert), NEW a \in Alert, NEW m \in Monitors, NEW t
  PROVE  WaitsIn(Append(s, a), m, t) <=> WaitsIn(s, m, t) \/ About(a, m, t)
<1>1. /\ Len(s) \in Nat /\ Len(Append(s, a)) = Len(s) + 1
      /\ \A i \in 1 .. Len(s) : Append(s, a)[i] = s[i]
      /\ Append(s, a)[Len(s) + 1] = a
  BY AppendProperties, LenProperties
<1>2. \A i \in 1 .. Len(s) + 1 : i \in 1 .. Len(s) \/ i = Len(s) + 1
  BY <1>1
<1>3. Len(s) + 1 \in 1 .. Len(s) + 1 /\ \A i \in 1 .. Len(s) : i \in 1 .. Len(s) + 1
  BY <1>1
<1> QED BY <1>1, <1>2, <1>3 DEF WaitsIn

LEMMA AppendEnds ==
  ASSUME NEW s \in Seq(Alert), NEW a \in Alert, NEW m \in Monitors,
         NEW k \in {"up", "down"}, NEW h
  PROVE  EndsWith(Append(s, a), h, m, k) <=>
           IF About(a, m, "state") THEN a.kind = k ELSE EndsWith(s, h, m, k)
<1> DEFINE b == Append(s, a)
<1>1. /\ Len(s) \in Nat /\ Len(b) = Len(s) + 1
      /\ \A i \in 1 .. Len(s) : b[i] = s[i]
      /\ b[Len(s) + 1] = a
  BY AppendProperties, LenProperties
<1>2. WaitsIn(b, m, "state") <=> WaitsIn(s, m, "state") \/ About(a, m, "state")
  BY AppendWaits
<1> HIDE DEF b
<1>3. a = [mon |-> m, kind |-> k] <=> About(a, m, "state") /\ a.kind = k
  BY DEF About, Topic, Alert
<1> SUFFICES EndsWith(b, h, m, k) <=>
               IF About(a, m, "state") THEN a.kind = k ELSE EndsWith(s, h, m, k)
  BY DEF b
<1>4. CASE About(a, m, "state")
  <2>1. \A i \in 1 .. Len(s) : ~ \A j \in i + 1 .. Len(b) : ~About(b[j], m, "state")
    BY <1>1, <1>4
  <2>2. Len(b) \in 1 .. Len(b) /\ \A j \in Len(b) + 1 .. Len(b) : FALSE
    BY <1>1
  <2>3. \A i \in 1 .. Len(b) : i \in 1 .. Len(s) \/ i = Len(b)
    BY <1>1
  <2>4. EndsWith(b, h, m, k) <=> b[Len(b)] = [mon |-> m, kind |-> k]
    BY <1>2, <1>4, <2>1, <2>2, <2>3 DEF EndsWith
  <2> QED BY <1>1, <1>3, <1>4, <2>4
<1>5. CASE ~About(a, m, "state")
  <2>1. ASSUME NEW i \in 1 .. Len(s)
        PROVE  (\A j \in i + 1 .. Len(b) : ~About(b[j], m, "state"))
                 <=> (\A j \in i + 1 .. Len(s) : ~About(s[j], m, "state"))
    <3>1. \A j \in i + 1 .. Len(b) : j \in i + 1 .. Len(s) \/ j = Len(s) + 1
      BY <1>1
    <3>2. \A j \in i + 1 .. Len(s) : j \in 1 .. Len(s) /\ j \in i + 1 .. Len(b)
      BY <1>1
    <3> QED BY <1>1, <1>5, <3>1, <3>2
  <2>2. b[Len(s) + 1] # [mon |-> m, kind |-> k]
    BY <1>1, <1>3, <1>5
  <2>3. /\ \A i \in 1 .. Len(b) : i \in 1 .. Len(s) \/ i = Len(s) + 1
        /\ \A i \in 1 .. Len(s) : i \in 1 .. Len(b)
    BY <1>1
  <2> QED BY <1>1, <1>2, <1>5, <2>1, <2>2, <2>3 DEF EndsWith
<1> QED BY <1>4, <1>5

(* The oldest alert leaves.                                                 *)
LEMMA HeadTail ==
  ASSUME NEW s \in Seq(Alert), s # <<>>
  PROVE  /\ Len(s) \in Nat \ {0} /\ Len(Tail(s)) = Len(s) - 1
         /\ s[1] \in Alert /\ Head(s) = s[1]
         /\ \A i \in 1 .. Len(s) : i = 1 \/ (i - 1 \in 1 .. Len(Tail(s)) /\ s[i] = Tail(s)[i - 1])
         /\ \A i \in 1 .. Len(Tail(s)) : i + 1 \in 1 .. Len(s) /\ Tail(s)[i] = s[i + 1]
<1>1. Len(s) \in Nat \ {0}
  BY EmptySeq
<1>2. Len(Tail(s)) = Len(s) - 1 /\ \A i \in 1 .. Len(Tail(s)) : Tail(s)[i] = s[i + 1]
  BY HeadTailProperties
<1>3. s[1] \in Alert
  BY <1>1, ElementOfSeq
<1>4. \A i \in 1 .. Len(s) : i = 1 \/ i - 1 \in 1 .. Len(Tail(s))
  BY <1>1, <1>2
<1>5. \A i \in 1 .. Len(s) : i # 1 => s[i] = Tail(s)[i - 1]
  BY <1>1, <1>2, <1>4
<1>6. Head(s) = s[1]
  OBVIOUS
<1> QED BY <1>1, <1>2, <1>3, <1>4, <1>5, <1>6

LEMMA TailWaits ==
  ASSUME NEW s \in Seq(Alert), s # <<>>, NEW m \in Monitors, NEW t
  PROVE  WaitsIn(s, m, t) <=> About(s[1], m, t) \/ WaitsIn(Tail(s), m, t)
<1>1. 1 \in 1 .. Len(s)
  BY HeadTail
<1> QED BY <1>1, HeadTail DEF WaitsIn

LEMMA TailEnds ==
  ASSUME NEW s \in Seq(Alert), s # <<>>, NEW m \in Monitors,
         NEW k \in {"up", "down"}, NEW h
  PROVE  EndsWith(s, h, m, k) <=>
           EndsWith(Tail(s), IF About(s[1], m, "state") THEN s[1].kind ELSE h, m, k)
<1> DEFINE r == Tail(s)
           Last(q, i) == /\ q[i] = [mon |-> m, kind |-> k]
                         /\ \A j \in i + 1 .. Len(q) : ~About(q[j], m, "state")
<1>1. /\ Len(s) \in Nat \ {0} /\ Len(r) = Len(s) - 1 /\ s[1] \in Alert
      /\ \A i \in 1 .. Len(s) : i = 1 \/ (i - 1 \in 1 .. Len(r) /\ s[i] = r[i - 1])
      /\ \A i \in 1 .. Len(r) : i + 1 \in 1 .. Len(s) /\ r[i] = s[i + 1]
  BY HeadTail
<1>2. WaitsIn(s, m, "state") <=> About(s[1], m, "state") \/ WaitsIn(r, m, "state")
  BY TailWaits
<1> HIDE DEF r
<1>3. s[1] = [mon |-> m, kind |-> k] <=> About(s[1], m, "state") /\ s[1].kind = k
  BY <1>1 DEF About, Topic, Alert
<1>4. ASSUME NEW i \in 1 .. Len(r) PROVE Last(r, i) <=> Last(s, i + 1)
  <2>1. \A j \in i + 1 .. Len(r) : j + 1 \in i + 2 .. Len(s) /\ r[j] = s[j + 1]
    BY <1>1
  <2>2. \A j \in i + 2 .. Len(s) : j - 1 \in i + 1 .. Len(r) /\ s[j] = r[j - 1]
    BY <1>1
  <2>3. i + 1 + 1 = i + 2
    OBVIOUS
  <2> QED BY <1>1, <2>1, <2>2, <2>3
<1>5. Last(s, 1) <=> /\ About(s[1], m, "state") /\ s[1].kind = k
                     /\ ~WaitsIn(r, m, "state")
  <2>1. \A j \in 1 + 1 .. Len(s) : j - 1 \in 1 .. Len(r) /\ s[j] = r[j - 1]
    BY <1>1
  <2>2. \A j \in 1 .. Len(r) : j + 1 \in 1 + 1 .. Len(s) /\ r[j] = s[j + 1]
    BY <1>1
  <2> QED BY <1>3, <2>1, <2>2 DEF WaitsIn
<1>6. 1 \in 1 .. Len(s)
  BY <1>1
<1>7. (\E i \in 1 .. Len(s) : Last(s, i)) <=> Last(s, 1) \/ \E i \in 1 .. Len(r) : Last(r, i)
  <2>1. ASSUME NEW i \in 1 .. Len(s), Last(s, i), i # 1
        PROVE  \E e \in 1 .. Len(r) : Last(r, e)
    <3>1. i - 1 \in 1 .. Len(r) /\ (i - 1) + 1 = i
      BY <1>1, <2>1
    <3>2. Last(r, i - 1)
      BY <1>4, <2>1, <3>1
    <3> QED BY <3>1, <3>2
  <2>2. ASSUME NEW i \in 1 .. Len(r), Last(r, i)
        PROVE  \E e \in 1 .. Len(s) : Last(s, e)
    <3>1. i + 1 \in 1 .. Len(s)
      BY <1>1
    <3>2. Last(s, i + 1)
      BY <1>4, <2>2
    <3> QED BY <3>1, <3>2
  <2> HIDE DEF Last
  <2> QED BY <1>6, <2>1, <2>2
<1>8. /\ EndsWith(s, h, m, k) <=>
            (\E i \in 1 .. Len(s) : Last(s, i)) \/ (h = k /\ ~WaitsIn(s, m, "state"))
      /\ \A g : EndsWith(r, g, m, k) <=>
            (\E i \in 1 .. Len(r) : Last(r, i)) \/ (g = k /\ ~WaitsIn(r, m, "state"))
  BY DEF EndsWith
<1> HIDE DEF Last
<1>9. CASE About(s[1], m, "state")
  BY <1>2, <1>5, <1>7, <1>8, <1>9 DEF r
<1>10. CASE ~About(s[1], m, "state")
  BY <1>2, <1>5, <1>7, <1>8, <1>10 DEF r
<1> QED BY <1>9, <1>10

(* The delivery takes the head of what is on its way, the worker's receive   *)
(* only moves the line between the queue and the hand.                       *)
LEMMA OnItsWaySteps ==
  ASSUME queue \in Seq(Alert), hand \in Seq(Alert), Len(hand) <= 1
  PROVE  /\ OnItsWay \in Seq(Alert)
         /\ hand = <<>> => OnItsWay = queue
         /\ hand # <<>> => /\ OnItsWay # <<>> /\ OnItsWay[1] = hand[1]
                           /\ Tail(OnItsWay) = queue
<1>1. /\ OnItsWay \in Seq(Alert)
      /\ Len(OnItsWay) = Len(hand) + Len(queue)
      /\ \A i \in 1 .. Len(hand) + Len(queue) :
           OnItsWay[i] = IF i <= Len(hand) THEN hand[i] ELSE queue[i - Len(hand)]
  BY ConcatProperties DEF OnItsWay
<1>2. hand = <<>> => OnItsWay = queue
  BY ConcatEmptySeq DEF OnItsWay
<1>3. CASE hand # <<>>
  <2>1. Len(hand) = 1 /\ Len(queue) \in Nat
    <3>1. Len(queue) \in Nat
      BY LenProperties
    <3>2. Len(hand) \in Nat \ {0}
      BY <1>3, EmptySeq
    <3>3. \A n \in Nat \ {0} : n <= 1 => n = 1
      OBVIOUS
    <3> QED BY <3>1, <3>2, <3>3
  <2>2. Len(OnItsWay) = 1 + Len(queue) /\ OnItsWay # <<>>
    BY <1>1, <2>1, EmptySeq
  <2>3. OnItsWay[1] = hand[1]
    BY <1>1, <2>1
  <2>4. /\ Tail(OnItsWay) \in Seq(Alert) /\ Len(Tail(OnItsWay)) = Len(queue)
        /\ \A i \in 1 .. Len(queue) : Tail(OnItsWay)[i] = OnItsWay[i + 1]
    BY <1>1, <2>1, <2>2, HeadTailProperties
  <2>5. \A i \in 1 .. Len(queue) : OnItsWay[i + 1] = queue[i]
    BY <1>1, <2>1
  <2>6. Tail(OnItsWay) = queue
    BY <2>4, <2>5, SeqEqual
  <2> QED BY <1>1, <1>3, <2>2, <2>3, <2>6
<1> QED BY <1>1, <1>2, <1>3

LEMMA SendSteps ==
  ASSUME queue \in Seq(Alert), hand \in Seq(Alert), Len(hand) <= 1,
         NEW m \in Monitors, NEW kind \in {"up", "down", "cert", "flap"},
         Send(m, kind), UNCHANGED hand
  PROVE  LET a == [mon |-> m, kind |-> kind] IN
         \/ /\ OnItsWay' = Append(OnItsWay, a)
            /\ lost' = [lost EXCEPT ![m] = @ \ {Topic(kind)}]
         \/ /\ OnItsWay' = OnItsWay
            /\ lost' = [lost EXCEPT ![m] = @ \union {Topic(kind)}]
<1> DEFINE a == [mon |-> m, kind |-> kind]
<1>1. a \in Alert
  BY DEF Alert
<1>2. CASE open /\ Len(queue) < Cap
  <2>1. queue' = Append(queue, a) /\ lost' = [lost EXCEPT ![m] = @ \ {Topic(kind)}]
    BY <1>2 DEF Send
  <2> HIDE DEF a
  <2>2. Append(queue, a) = queue \o <<a>> /\ <<a>> \in Seq(Alert)
    BY <1>1, AppendIsConcat
  <2>3. hand \o (queue \o <<a>>) = (hand \o queue) \o <<a>>
    BY <2>2, ConcatAssociative
  <2>4. OnItsWay \in Seq(Alert)
    BY OnItsWaySteps
  <2>5. OnItsWay \o <<a>> = Append(OnItsWay, a)
    BY <1>1, <2>4, AppendIsConcat
  <2>6. OnItsWay' = Append(OnItsWay, a)
    BY <2>1, <2>2, <2>3, <2>5 DEF OnItsWay
  <2> QED BY <2>1, <2>6 DEF a
<1>3. CASE ~(open /\ Len(queue) < Cap)
  BY <1>3 DEF Send, OnItsWay
<1> QED BY <1>2, <1>3

-----------------------------------------------------------------------------
(* Type correctness.                                                        *)

PInv == TInv /\ PathTypeOK

LEMMA AlarmKind ==
  ASSUME PInv, NEW m \in Monitors, Observe(m),
         IsAlarm(track[m].state, track'[m].state)
  PROVE  track'[m].state \in {"up", "down"}
<1> DEFINE next == MachineObserve(track[m], IsUp(result[m]))
<1>1. track[m] \in Tracker /\ track \in [Monitors -> Tracker]
  BY DEF PInv, TInv, TypeOK
<1>2. track'[m] = next
  BY <1>1 DEF Observe
<1>3. next.state \in {"up", "down"} \/ next.state = track[m].state
  BY <1>1 DEF MachineObserve
<1> HIDE DEF next
<1> QED BY <1>2, <1>3 DEF IsAlarm

LEMMA SendType ==
  ASSUME PInv, NEW m \in Monitors, NEW kind \in {"up", "down", "cert", "flap"},
         Send(m, kind)
  PROVE  /\ queue' \in Seq(Alert) /\ Len(queue') <= Cap
         /\ lost' \in [Monitors -> SUBSET Topics]
<1> DEFINE a == [mon |-> m, kind |-> kind]
<1>1. /\ queue \in Seq(Alert) /\ Len(queue) <= Cap /\ Len(queue) \in Nat
      /\ lost \in [Monitors -> SUBSET Topics]
  BY LenProperties DEF PInv, PathTypeOK
<1>2. a \in Alert /\ Topic(kind) \in Topics
  BY DEF Alert, Topic, Topics
<1>3. lost' \in [Monitors -> SUBSET Topics]
  BY <1>1, <1>2 DEF Send
<1>4. \/ queue' = Append(queue, a) /\ Len(queue) < Cap
      \/ queue' = queue
  BY DEF Send
<1> HIDE DEF a
<1>5. Append(queue, a) \in Seq(Alert) /\ Len(Append(queue, a)) = Len(queue) + 1
  BY <1>1, <1>2, AppendProperties
<1> QED BY <1>1, <1>3, <1>4, <1>5, CapAssumption

LEMMA PInvInit == PathInit => PInv
<1>1. <<>> \in Seq(Alert) /\ Len(<<>>) = 0
  BY EmptySeq
<1> QED BY <1>1, TInvInit, CapAssumption DEF PathInit, PInv, PathTypeOK, TInv

LEMMA PInvNext == PInv /\ [PathNext]_pathVars => PInv'
<1> SUFFICES ASSUME PInv, [PathNext]_pathVars PROVE PInv'
  OBVIOUS
<1>1. TInv'
  BY PathStep, TInvNext DEF PInv
<1> DEFINE Types == /\ queue \in Seq(Alert) /\ Len(queue) <= Cap
                    /\ hand \in Seq(Alert) /\ Len(hand) <= 1
                    /\ open \in BOOLEAN
                    /\ heard \in [Monitors -> [state : {"nothing", "up", "down"},
                                               warnings : SUBSET {"cert", "flap"}]]
                    /\ lost \in [Monitors -> SUBSET Topics]
                    /\ restarted \in [Monitors -> BOOLEAN]
<1>2. Types
  BY DEF PInv, PathTypeOK
<1>3. SUFFICES Types'
  BY <1>1 DEF PInv, PathTypeOK, TInv
<1>4. ASSUME NEW m \in Monitors, NEW w, NEW armed, Forget(m, w, armed)
      PROVE  heard' \in [Monitors -> [state : {"nothing", "up", "down"},
                                      warnings : SUBSET {"cert", "flap"}]]
  <2>1. CASE armed
    BY <1>2, <1>4, <2>1 DEF Forget
  <2>2. CASE ~armed
    BY <1>2, <1>4, <2>2 DEF Forget
  <2> QED BY <2>1, <2>2
<1>5. ASSUME NEW m \in Monitors, ProbeSteps(m) PROVE Types'
  BY <1>2, <1>5 DEF ProbeSteps, alertVars
<1>6. ASSUME NEW m \in Monitors, RaiseState(m) PROVE Types'
  <2>1. CASE IsAlarm(track[m].state, track'[m].state)
    <3>1. /\ Send(m, track'[m].state) /\ track'[m].state \in {"up", "down"}
          /\ restarted' = [restarted EXCEPT ![m] = FALSE]
          /\ UNCHANGED <<hand, open, heard>>
      BY <1>6, <2>1, AlarmKind DEF RaiseState
    <3>2. /\ queue' \in Seq(Alert) /\ Len(queue') <= Cap
          /\ lost' \in [Monitors -> SUBSET Topics]
      BY <3>1, SendType
    <3> QED BY <1>2, <3>1, <3>2
  <2>2. CASE ~IsAlarm(track[m].state, track'[m].state)
    BY <1>2, <1>6, <2>2 DEF RaiseState, NoAlert
  <2> QED BY <2>1, <2>2
<1>7. ASSUME NEW m \in Monitors, RaiseCert(m) PROVE Types'
  <2>1. /\ queue' \in Seq(Alert) /\ Len(queue') <= Cap
        /\ lost' \in [Monitors -> SUBSET Topics]
    BY <1>2, <1>7, SendType DEF RaiseCert, NoAlert
  <2> QED BY <1>2, <1>4, <1>7, <2>1 DEF RaiseCert
<1>8. ASSUME NEW m \in Monitors, RaiseFlap(m) PROVE Types'
  <2>1. /\ queue' \in Seq(Alert) /\ Len(queue') <= Cap
        /\ lost' \in [Monitors -> SUBSET Topics]
    BY <1>2, <1>8, SendType DEF RaiseFlap, NoAlert
  <2> QED BY <1>2, <1>4, <1>8, <2>1 DEF RaiseFlap
<1>9. ASSUME Receive PROVE Types'
  <2>1. /\ Head(queue) \in Alert /\ Tail(queue) \in Seq(Alert)
        /\ Len(Tail(queue)) = Len(queue) - 1 /\ Len(queue) \in Nat
    BY <1>2, <1>9, HeadTailProperties, LenProperties DEF Receive
  <2>2. Len(Tail(queue)) <= Cap
    BY <1>2, <2>1, CapAssumption
  <2>3. <<Head(queue)>> \in Seq(Alert) /\ Len(<<Head(queue)>>) <= 1
    BY <2>1
  <2> QED BY <1>2, <1>9, <2>1, <2>2, <2>3 DEF Receive
<1>10. <<>> \in Seq(Alert) /\ Len(<<>>) <= 1 /\ Len(<<>>) <= Cap
  BY EmptySeq, CapAssumption
<1>11. ASSUME hand # <<>> PROVE hand[1] \in Alert
  <2>1. Len(hand) \in Nat \ {0}
    BY <1>2, <1>11, EmptySeq
  <2> QED BY <1>2, <2>1, ElementOfSeq
<1>12. ASSUME Delivered PROVE Types'
  <2>1. hand[1].mon \in Monitors /\ hand[1].kind \in {"up", "down", "cert", "flap"}
    BY <1>11, <1>12 DEF Delivered, Alert
  <2>2. heard' \in [Monitors -> [state : {"nothing", "up", "down"},
                                 warnings : SUBSET {"cert", "flap"}]]
    BY <1>2, <1>12, <2>1 DEF Delivered, Hears, Topic
  <2> QED BY <1>2, <1>10, <1>12, <2>2 DEF Delivered
<1>13. ASSUME NotDelivered PROVE Types'
  <2>1. Topic(hand[1].kind) \in Topics
    BY <1>11, <1>13 DEF NotDelivered, Alert, Topic, Topics
  <2>2. lost' \in [Monitors -> SUBSET Topics]
    BY <1>2, <1>13, <2>1 DEF NotDelivered
  <2> QED BY <1>2, <1>10, <1>13, <2>2 DEF NotDelivered
<1>14. ASSUME Close PROVE Types'
  BY <1>2, <1>14 DEF Close
<1>15. ASSUME RestartAll PROVE Types'
  <2>1. lost' \in [Monitors -> SUBSET Topics]
    <3> DEFINE left(m) == IF "state" \in lost[m] \/ Waiting(m, "state")
                          THEN {"state"} ELSE {}
    <3>1. lost' = [m \in Monitors |-> left(m)]
      BY <1>15 DEF RestartAll
    <3>2. \A m \in Monitors : left(m) \in SUBSET Topics
      BY DEF Topics
    <3> HIDE DEF left
    <3> QED BY <3>1, <3>2
  <2>2. heard' \in [Monitors -> [state : {"nothing", "up", "down"},
                                 warnings : SUBSET {"cert", "flap"}]]
    BY <1>2, <1>15 DEF RestartAll
  <2> QED BY <1>10, <1>15, <2>1, <2>2 DEF RestartAll
<1>16. CASE UNCHANGED pathVars
  BY <1>2, <1>16 DEF pathVars, alertVars
<1> HIDE DEF Types
<1> QED BY <1>5, <1>6, <1>7, <1>8, <1>9, <1>12, <1>13, <1>14, <1>15, <1>16 DEF PathNext

(* Every value stays in its type: no more than Cap alerts ever wait in the   *)
(* queue, and no more than one is in the worker's hand.                      *)
THEOREM PathTypeCorrect == PathSpec => []PathTypeOK
<1>1. PInv => PathTypeOK
  BY DEF PInv
<1> QED BY PInvInit, PInvNext, <1>1, PTL DEF PathSpec

-----------------------------------------------------------------------------
(* The queue, step by step: what each step does to the end of the operator's *)
(* picture (AtLast) and to what waits.                                       *)

LEMMA SendWaits ==
  ASSUME PInv, NEW m \in Monitors, NEW kind \in {"up", "down", "cert", "flap"},
         Send(m, kind), UNCHANGED hand, NEW n \in Monitors, NEW w \in Topics
  PROVE  /\ Waiting(n, w) \/ w \in lost[n] => Waiting(n, w)' \/ w \in lost'[n]
         /\ Waiting(m, Topic(kind))' \/ Topic(kind) \in lost'[m]
<1> DEFINE a == [mon |-> m, kind |-> kind]
<1>1. /\ queue \in Seq(Alert) /\ hand \in Seq(Alert) /\ Len(hand) <= 1
      /\ lost \in [Monitors -> SUBSET Topics]
  BY DEF PInv, PathTypeOK
<1>2. /\ OnItsWay \in Seq(Alert) /\ a \in Alert
      /\ \A t : About(a, m, t) <=> t = Topic(kind)
      /\ \A t : About(a, n, t) <=> n = m /\ t = Topic(kind)
  BY <1>1, OnItsWaySteps DEF Alert, About
<1>3. CASE OnItsWay' = Append(OnItsWay, a) /\ lost' = [lost EXCEPT ![m] = @ \ {Topic(kind)}]
  <2> HIDE DEF a
  <2>1. Waiting(n, w)' <=> Waiting(n, w) \/ About(a, n, w)
    BY <1>2, <1>3, ReadAsSequences, AppendWaits
  <2>2. Waiting(m, Topic(kind))' <=> Waiting(m, Topic(kind)) \/ About(a, m, Topic(kind))
    BY <1>2, <1>3, ReadAsSequences, AppendWaits
  <2> QED BY <1>1, <1>2, <1>3, <2>1, <2>2
<1>4. CASE OnItsWay' = OnItsWay /\ lost' = [lost EXCEPT ![m] = @ \union {Topic(kind)}]
  BY <1>1, <1>4, ReadAsSequences
<1> QED BY <1>1, <1>3, <1>4, SendSteps

\* A warning, raised or not, is no news of a state.
LEMMA WarningIsNoNews ==
  ASSUME PInv, NEW m \in Monitors, NEW kind \in {"cert", "flap"},
         Send(m, kind) \/ NoAlert, UNCHANGED hand,
         NEW n \in Monitors, heard'[n].state = heard[n].state,
         NEW k \in {"up", "down"}
  PROVE  /\ AtLast(n, k)' <=> AtLast(n, k)
         /\ "state" \in lost'[n] <=> "state" \in lost[n]
<1> DEFINE a == [mon |-> m, kind |-> kind]
<1>1. /\ queue \in Seq(Alert) /\ hand \in Seq(Alert) /\ Len(hand) <= 1
      /\ lost \in [Monitors -> SUBSET Topics]
  BY DEF PInv, PathTypeOK
<1>2. /\ OnItsWay \in Seq(Alert) /\ a \in Alert
      /\ ~About(a, n, "state") /\ Topic(kind) # "state"
  BY <1>1, OnItsWaySteps DEF Alert, About, Topic
<1>3. CASE NoAlert
  <2>1. OnItsWay' = OnItsWay /\ lost' = lost
    BY <1>3 DEF NoAlert, OnItsWay
  <2> QED BY <2>1, ReadAsSequences
<1>4. CASE OnItsWay' = Append(OnItsWay, a) /\ lost' = [lost EXCEPT ![m] = @ \ {Topic(kind)}]
  <2> HIDE DEF a
  <2>1. AtLast(n, k)' <=> AtLast(n, k)
    BY <1>2, <1>4, ReadAsSequences, AppendEnds
  <2> QED BY <1>1, <1>2, <1>4, <2>1
<1>5. CASE OnItsWay' = OnItsWay /\ lost' = [lost EXCEPT ![m] = @ \union {Topic(kind)}]
  BY <1>1, <1>2, <1>5, ReadAsSequences
<1> QED BY <1>1, <1>3, <1>4, <1>5, SendSteps

LEMMA ReceiveSteps ==
  ASSUME PInv, Receive
  PROVE  OnItsWay' = OnItsWay
<1>1. /\ queue \in Seq(Alert) /\ queue # <<>> /\ hand = <<>>
      /\ queue' = Tail(queue) /\ hand' = <<Head(queue)>>
  BY DEF PInv, PathTypeOK, Receive
<1>2. /\ Head(queue) = queue[1] /\ queue[1] \in Alert
      /\ Tail(queue) \in Seq(Alert) /\ Len(queue) \in Nat \ {0}
      /\ Len(Tail(queue)) = Len(queue) - 1
      /\ \A i \in 1 .. Len(queue) : i = 1 \/ (i - 1 \in 1 .. Len(Tail(queue))
                                              /\ queue[i] = Tail(queue)[i - 1])
  BY <1>1, HeadTail, HeadTailProperties
<1> DEFINE one == <<queue[1]>>
           rest == Tail(queue)
<1>3. one \in Seq(Alert) /\ Len(one) = 1 /\ one[1] = queue[1]
  BY <1>2
<1> HIDE DEF one, rest
<1>4. /\ one \o rest \in Seq(Alert) /\ Len(one \o rest) = Len(one) + Len(rest)
      /\ \A i \in 1 .. Len(one) + Len(rest) :
           (one \o rest)[i] = IF i <= Len(one) THEN one[i] ELSE rest[i - Len(one)]
  BY <1>2, <1>3, ConcatProperties DEF rest
<1>5. Len(one \o rest) = Len(queue)
  BY <1>2, <1>3, <1>4 DEF rest
<1>6. \A i \in 1 .. Len(queue) : (one \o rest)[i] = queue[i]
  BY <1>2, <1>3, <1>4 DEF rest
<1>7. one \o rest = queue
  BY <1>1, <1>4, <1>5, <1>6, SeqEqual
<1>8. OnItsWay = queue
  BY <1>1, ConcatEmptySeq DEF OnItsWay
<1> QED BY <1>1, <1>2, <1>7, <1>8 DEF OnItsWay, one, rest

LEMMA HandSteps ==
  ASSUME PInv, hand # <<>>, hand' = <<>>, UNCHANGED queue, NEW m \in Monitors
  PROVE  /\ hand[1] \in Alert
         /\ OnItsWay' = queue
         /\ \A t : Waiting(m, t) <=> About(hand[1], m, t) \/ WaitsIn(queue, m, t)
         /\ \A t : Waiting(m, t)' <=> WaitsIn(queue, m, t)
         /\ \A k \in {"up", "down"} :
              /\ AtLast(m, k) <=>
                   EndsWith(queue, IF About(hand[1], m, "state") THEN hand[1].kind
                                   ELSE heard[m].state, m, k)
              /\ AtLast(m, k)' <=> EndsWith(queue, heard'[m].state, m, k)
<1>1. queue \in Seq(Alert) /\ hand \in Seq(Alert) /\ Len(hand) <= 1
  BY DEF PInv, PathTypeOK
<1>2. /\ OnItsWay \in Seq(Alert) /\ OnItsWay # <<>>
      /\ OnItsWay[1] = hand[1] /\ Tail(OnItsWay) = queue
  BY <1>1, OnItsWaySteps
<1>3. hand[1] \in Alert
  BY <1>2, HeadTail
<1>4. OnItsWay' = queue
  BY <1>1, ConcatEmptySeq DEF OnItsWay
<1>5. \A t : Waiting(m, t) <=> About(hand[1], m, t) \/ WaitsIn(queue, m, t)
  BY <1>2, ReadAsSequences, TailWaits
<1>6. ASSUME NEW k \in {"up", "down"}
      PROVE  AtLast(m, k) <=>
               EndsWith(queue, IF About(hand[1], m, "state") THEN hand[1].kind
                               ELSE heard[m].state, m, k)
  <2>1. AtLast(m, k) <=> EndsWith(OnItsWay, heard[m].state, m, k)
    BY ReadAsSequences
  <2> QED BY <1>2, <2>1, TailEnds
<1> QED BY <1>3, <1>4, <1>5, <1>6, ReadAsSequences

-----------------------------------------------------------------------------
(* The operator's picture.  PictureIsTrue is not inductive: a monitor that   *)
(* is new to the machine, unknown, while the operator still thinks it down   *)
(* must owe that to a restart, or the silent unknown -> up that follows      *)
(* would break it.                                                          *)

Picture(m) ==
  "state" \notin lost[m] =>
    /\ track[m].state = "down" => AtLast(m, "down")
    /\ track[m].state # "down" /\ AtLast(m, "down") => restarted[m]

PicInv == PInv /\ \A m \in Monitors : Picture(m)

LEMMA PicInvInit == PathInit => PicInv
<1> SUFFICES ASSUME PathInit, NEW m \in Monitors PROVE Picture(m)
  BY PInvInit DEF PicInv
<1>1. track[m].state = "unknown" /\ heard[m].state = "nothing"
  BY DEF PathInit, Init, FreshTracker
<1>2. OnItsWay = <<>>
  BY DEF PathInit, OnItsWay
<1>3. ~AtLast(m, "down")
  BY <1>1, <1>2 DEF AtLast
<1> QED BY <1>1, <1>3 DEF Picture

\* A step that touches none of what the picture is made of.
LEMMA PictureStays ==
  ASSUME NEW n \in Monitors, Picture(n), track'[n] = track[n],
         AtLast(n, "down")' <=> AtLast(n, "down"),
         "state" \in lost'[n] <=> "state" \in lost[n],
         restarted'[n] <=> restarted[n]
  PROVE  Picture(n)'
BY DEF Picture

LEMMA PicInvNext == PicInv /\ [PathNext]_pathVars => PicInv'
<1> SUFFICES ASSUME PicInv, [PathNext]_pathVars PROVE PicInv'
  OBVIOUS
<1>1. PInv /\ PInv'
  BY PInvNext DEF PicInv
<1>2. SUFFICES ASSUME NEW n \in Monitors PROVE Picture(n)'
  BY <1>1 DEF PicInv
<1>3. Picture(n)
  BY DEF PicInv
<1>4. /\ track \in [Monitors -> Tracker] /\ lost \in [Monitors -> SUBSET Topics]
      /\ heard \in [Monitors -> [state : {"nothing", "up", "down"},
                                 warnings : SUBSET {"cert", "flap"}]]
      /\ restarted \in [Monitors -> BOOLEAN]
      /\ queue \in Seq(Alert) /\ hand \in Seq(Alert) /\ Len(hand) <= 1
  BY <1>1 DEF PInv, PathTypeOK, TInv, TypeOK
<1>5. ASSUME NEW m \in Monitors, ProbeSteps(m) PROVE Picture(n)'
  <2>1. UNCHANGED <<track, alertVars>>
    BY <1>5 DEF ProbeSteps, StartProbe, FinishProbe
  <2> QED BY <1>3, <2>1 DEF alertVars, Picture, AtLast, Waiting, OnItsWay
<1>6. ASSUME NEW m \in Monitors, RaiseState(m) PROVE Picture(n)'
  <2> DEFINE next == MachineObserve(track[m], IsUp(result[m]))
  <2>1. track' = [track EXCEPT ![m] = next]
    BY <1>6 DEF RaiseState, Observe
  <2>2. next.state \in {"up", "down"} \/ next.state = track[m].state
    BY <1>4 DEF MachineObserve
  <2>3. track[m].state = "down" /\ next.state # "down" => next.state = "up"
    BY <1>4 DEF MachineObserve
  <2> HIDE DEF next
  <2>4. track'[m] = next /\ (n # m => track'[n] = track[n])
    BY <1>4, <2>1
  <2>5. CASE IsAlarm(track[m].state, next.state)
    <3> DEFINE a == [mon |-> m, kind |-> next.state]
    <3>1. /\ Send(m, next.state) /\ restarted' = [restarted EXCEPT ![m] = FALSE]
          /\ UNCHANGED <<hand, heard>>
      BY <1>6, <2>4, <2>5 DEF RaiseState
    <3>2. next.state \in {"up", "down"}
      BY <1>1, <1>6, <2>4, <2>5, AlarmKind DEF RaiseState
    <3>3. /\ a \in Alert /\ OnItsWay \in Seq(Alert) /\ Topic(next.state) = "state"
          /\ About(a, n, "state") <=> n = m
      BY <1>4, <3>2, OnItsWaySteps DEF Alert, About, Topic
    <3>4. CASE /\ OnItsWay' = Append(OnItsWay, a)
               /\ lost' = [lost EXCEPT ![m] = @ \ {"state"}]
      <4>1. AtLast(n, "down")' <=> EndsWith(Append(OnItsWay, a), heard[n].state, n, "down")
        BY <3>1, <3>4, ReadAsSequences
      <4>2. AtLast(n, "down") <=> EndsWith(OnItsWay, heard[n].state, n, "down")
        BY ReadAsSequences
      <4>3. a.kind = next.state
        OBVIOUS
      <4> HIDE DEF a
      <4>4. EndsWith(Append(OnItsWay, a), heard[n].state, n, "down") <=>
              IF About(a, n, "state") THEN a.kind = "down"
              ELSE EndsWith(OnItsWay, heard[n].state, n, "down")
        BY <3>3, AppendEnds
      <4>5. AtLast(n, "down")' <=> IF n = m THEN next.state = "down" ELSE AtLast(n, "down")
        BY <3>3, <4>1, <4>2, <4>3, <4>4
      <4>6. CASE n = m
        BY <2>4, <4>5, <4>6 DEF Picture
      <4>7. CASE n # m
        BY <1>3, <1>4, <2>4, <3>1, <3>4, <4>5, <4>7, PictureStays
      <4> QED BY <4>6, <4>7
    <3>5. CASE OnItsWay' = OnItsWay /\ lost' = [lost EXCEPT ![m] = @ \union {"state"}]
      <4>1. AtLast(n, "down")' <=> AtLast(n, "down")
        BY <3>1, <3>5, ReadAsSequences
      <4>2. CASE n = m
        BY <1>4, <3>5, <4>2 DEF Picture
      <4>3. CASE n # m
        BY <1>3, <1>4, <2>4, <3>1, <3>5, <4>1, <4>3, PictureStays
      <4> QED BY <4>2, <4>3
    <3> QED BY <1>4, <3>1, <3>2, <3>3, <3>4, <3>5, SendSteps
  <2>6. CASE ~IsAlarm(track[m].state, next.state)
    <3>1. UNCHANGED <<queue, lost, restarted, hand, heard>>
      BY <1>6, <2>4, <2>6 DEF RaiseState, NoAlert
    <3>2. AtLast(n, "down")' <=> AtLast(n, "down")
      BY <3>1 DEF AtLast, Waiting, OnItsWay
    <3>3. track[m].state = "down" <=> next.state = "down"
      BY <2>2, <2>3, <2>6 DEF IsAlarm
    <3>4. track'[n].state = "down" <=> track[n].state = "down"
      BY <2>4, <3>3
    <3> QED BY <1>3, <3>1, <3>2, <3>4 DEF Picture
  <2> QED BY <2>5, <2>6
<1>7. ASSUME NEW m \in Monitors, RaiseCert(m) PROVE Picture(n)'
  <2>1. /\ Send(m, "cert") \/ NoAlert
        /\ UNCHANGED <<track, hand, restarted>> /\ Forget(m, "cert", ~certWarned'[m])
    BY <1>7 DEF RaiseCert, ObserveCert
  <2>2. heard'[n].state = heard[n].state
    BY <1>4, <2>1 DEF Forget
  <2> QED BY <1>1, <1>3, <2>1, <2>2, WarningIsNoNews, PictureStays
<1>8. ASSUME NEW m \in Monitors, RaiseFlap(m) PROVE Picture(n)'
  <2>1. /\ Send(m, "flap") \/ NoAlert
        /\ UNCHANGED <<track, hand, restarted>> /\ Forget(m, "flap", ~flap'[m].warned)
    BY <1>8 DEF RaiseFlap, ObserveFlap
  <2>2. heard'[n].state = heard[n].state
    BY <1>4, <2>1 DEF Forget
  <2> QED BY <1>1, <1>3, <2>1, <2>2, WarningIsNoNews, PictureStays
<1>9. ASSUME Receive PROVE Picture(n)'
  <2>1. UNCHANGED <<track, heard, lost, restarted>> /\ OnItsWay' = OnItsWay
    BY <1>1, <1>9, ReceiveSteps DEF Receive, vars
  <2> QED BY <1>3, <2>1, ReadAsSequences, PictureStays
<1>10. ASSUME Delivered PROVE Picture(n)'
  <2>1. /\ hand # <<>> /\ hand' = <<>> /\ UNCHANGED <<track, queue, lost, restarted>>
        /\ heard' = [heard EXCEPT ![hand[1].mon] = Hears(@, hand[1].kind)]
    BY <1>10 DEF Delivered, vars
  <2>2. hand[1] \in Alert
    BY <1>1, <2>1, HandSteps
  <2>3. heard'[n].state = IF About(hand[1], n, "state") THEN hand[1].kind
                          ELSE heard[n].state
    BY <1>4, <2>1, <2>2 DEF Hears, About, Topic, Alert
  <2>4. AtLast(n, "down")' <=> AtLast(n, "down")
    BY <1>1, <2>1, <2>3, HandSteps
  <2> QED BY <1>3, <2>1, <2>4, PictureStays
<1>11. ASSUME NotDelivered PROVE Picture(n)'
  <2> DEFINE a == hand[1]
             t == Topic(a.kind)
  <2>1. /\ hand # <<>> /\ hand' = <<>> /\ UNCHANGED <<track, queue, heard, restarted>>
        /\ lost' = IF \E i \in 1 .. Len(queue) : About(queue[i], a.mon, t) THEN lost
                   ELSE [lost EXCEPT ![a.mon] = @ \union {t}]
    BY <1>11 DEF NotDelivered, vars
  <2>2. a \in Alert
    BY <1>1, <2>1, HandSteps
  <2> HIDE DEF a
  <2>3. CASE About(a, n, "state") /\ ~WaitsIn(queue, n, "state")
    <3>1. a.mon = n /\ t = "state"
      BY <2>3 DEF About
    <3>2. "state" \in lost'[n]
      BY <1>4, <2>1, <2>3, <3>1 DEF WaitsIn
    <3> QED BY <3>2 DEF Picture
  <2>4. CASE About(a, n, "state") /\ WaitsIn(queue, n, "state")
    <3>1. a.mon = n /\ t = "state"
      BY <2>4 DEF About
    <3>2. lost' = lost
      BY <2>1, <2>4, <3>1 DEF WaitsIn
    <3>3. AtLast(n, "down")' <=> AtLast(n, "down")
      <4>1. \A g, h : EndsWith(queue, g, n, "down") <=> EndsWith(queue, h, n, "down")
        BY <2>4 DEF EndsWith
      <4> QED BY <1>1, <2>1, <4>1, HandSteps
    <3> QED BY <1>3, <2>1, <3>2, <3>3, PictureStays
  <2>5. CASE ~About(a, n, "state")
    <3>1. ~(a.mon = n /\ t = "state")
      BY <2>5 DEF About
    <3>2. "state" \in lost'[n] <=> "state" \in lost[n]
      BY <1>4, <2>1, <2>2, <3>1 DEF Alert
    <3>3. AtLast(n, "down")' <=> AtLast(n, "down")
      BY <1>1, <2>1, <2>5, HandSteps DEF a
    <3> QED BY <1>3, <2>1, <3>2, <3>3, PictureStays
  <2> QED BY <2>3, <2>4, <2>5
<1>12. ASSUME Close PROVE Picture(n)'
  <2>1. UNCHANGED <<track, queue, hand, heard, lost, restarted>>
    BY <1>12 DEF Close, vars
  <2> QED BY <1>3, <2>1 DEF Picture, AtLast, Waiting, OnItsWay
<1>13. ASSUME RestartAll PROVE Picture(n)'
  <2>1. track'[n].state = "unknown" /\ restarted'[n]
    BY <1>13 DEF RestartAll, Restart, FreshTracker
  <2> QED BY <2>1 DEF Picture
<1>14. CASE UNCHANGED pathVars
  <2>1. UNCHANGED <<track, queue, hand, heard, lost, restarted>>
    BY <1>14 DEF pathVars, vars, alertVars
  <2> QED BY <1>3, <2>1 DEF Picture, AtLast, Waiting, OnItsWay
<1> QED BY <1>5, <1>6, <1>7, <1>8, <1>9, <1>10, <1>11, <1>12, <1>13, <1>14 DEF PathNext

(* For every queue capacity and every threshold: unless the latest alert was *)
(* dropped, the operator will come to know of an outage, and goes on         *)
(* believing in one that is over only because of a restart.                  *)
THEOREM PictureIsTrueHolds == PathSpec => []PictureIsTrue
<1>1. PicInv => PictureIsTrue
  BY DEF PicInv, Picture, PictureIsTrue
<1> QED BY PicInvInit, PicInvNext, <1>1, PTL DEF PathSpec
-----------------------------------------------------------------------------
(* The two one-shot warnings.                                               *)

Given(m, w) == w \in heard[m].warnings \/ Waiting(m, w) \/ w \in lost[m]

WInv == PInv /\ WarningsAreGiven

LEMMA WInvInit == PathInit => WInv
BY PInvInit DEF PathInit, Init, WInv, WarningsAreGiven, FreshFlap

LEMMA WInvNext == WInv /\ [PathNext]_pathVars => WInv'
<1> SUFFICES ASSUME WInv, [PathNext]_pathVars PROVE WInv'
  OBVIOUS
<1>1. PInv /\ PInv'
  BY PInvNext DEF WInv
<1>2. /\ \A n \in Monitors : certWarned[n] => Given(n, "cert")
      /\ \A n \in Monitors : flap[n].warned => Given(n, "flap")
  BY DEF WInv, WarningsAreGiven, Given
<1> DEFINE Goal(n) == /\ certWarned'[n] => Given(n, "cert")'
                      /\ flap'[n].warned => Given(n, "flap")'
<1>3. SUFFICES ASSUME NEW n \in Monitors PROVE Goal(n)
  BY <1>1 DEF WInv, WarningsAreGiven, Given
<1>4. /\ certWarned \in [Monitors -> BOOLEAN] /\ flap \in [Monitors -> FlapState]
      /\ lost \in [Monitors -> SUBSET Topics]
      /\ heard \in [Monitors -> [state : {"nothing", "up", "down"},
                                 warnings : SUBSET {"cert", "flap"}]]
      /\ queue \in Seq(Alert) /\ hand \in Seq(Alert) /\ Len(hand) <= 1
  BY <1>1 DEF PInv, PathTypeOK, TInv, TypeOK
\* A step that changes neither tracker takes back no warning given.
<1>5. ASSUME certWarned'[n] = certWarned[n], flap'[n] = flap[n],
             \A w \in {"cert", "flap"} : Given(n, w) => Given(n, w)'
      PROVE  Goal(n)
  BY <1>2, <1>5
<1>6. ASSUME NEW m \in Monitors, ProbeSteps(m) PROVE Goal(n)
  <2>1. UNCHANGED <<certWarned, flap, alertVars>>
    BY <1>6 DEF ProbeSteps, StartProbe, FinishProbe
  <2> QED BY <1>5, <2>1 DEF alertVars, Given, Waiting, OnItsWay
<1>7. ASSUME NEW m \in Monitors, RaiseState(m) PROVE Goal(n)
  <2>1. /\ UNCHANGED <<certWarned, flap, heard, hand>>
        /\ (Send(m, track'[m].state) /\ track'[m].state \in {"up", "down"}) \/ NoAlert
    BY <1>1, <1>7, AlarmKind DEF RaiseState, Observe
  <2>2. \A w \in {"cert", "flap"} : w \in Topics
    BY DEF Topics
  <2>3. \A w \in {"cert", "flap"} :
          Waiting(n, w) \/ w \in lost[n] => Waiting(n, w)' \/ w \in lost'[n]
    <3>1. CASE NoAlert
      BY <2>1, <3>1 DEF NoAlert, Waiting, OnItsWay
    <3>2. CASE Send(m, track'[m].state) /\ track'[m].state \in {"up", "down"}
      BY <1>1, <2>1, <2>2, <3>2, SendWaits
    <3> QED BY <2>1, <3>1, <3>2
  <2> QED BY <1>5, <2>1, <2>3 DEF Given
<1>8. ASSUME NEW m \in Monitors, RaiseCert(m) PROVE Goal(n)
  <2> DEFINE fires == CertFires(certWarned[m], result[m])
  <2>1. /\ UNCHANGED <<flap, hand>> /\ Forget(m, "cert", ~certWarned'[m])
        /\ IF fires THEN Send(m, "cert") ELSE NoAlert
        /\ certWarned' = [certWarned EXCEPT ![m] = CertObserve(@, result[m])]
    BY <1>8 DEF RaiseCert, ObserveCert
  <2>2. certWarned'[m] /\ ~fires => certWarned[m]
    BY <1>4, <2>1 DEF CertFires
  <2>3. \A w \in {"cert", "flap"} :
          /\ Waiting(n, w) \/ w \in lost[n] => Waiting(n, w)' \/ w \in lost'[n]
          /\ fires => Waiting(m, "cert")' \/ "cert" \in lost'[m]
    <3>1. CASE fires
      <4>1. Topic("cert") = "cert" /\ \A w \in {"cert", "flap"} : w \in Topics
        BY DEF Topic, Topics
      <4> QED BY <1>1, <2>1, <3>1, <4>1, SendWaits
    <3>2. CASE ~fires
      BY <2>1, <3>2 DEF NoAlert, Waiting, OnItsWay
    <3> QED BY <3>1, <3>2
  <2> HIDE DEF fires
  <2>4. /\ "flap" \in heard[n].warnings => "flap" \in heard'[n].warnings
        /\ n # m => heard'[n] = heard[n] /\ certWarned'[n] = certWarned[n]
        /\ certWarned'[m] => heard' = heard
    BY <1>4, <2>1 DEF Forget
  <2>5. flap'[n].warned => Given(n, "flap")'
    BY <1>2, <2>1, <2>3, <2>4 DEF Given
  <2>6. CASE n = m
    BY <1>2, <2>2, <2>3, <2>4, <2>5, <2>6 DEF Given
  <2>7. CASE n # m
    BY <1>2, <2>3, <2>4, <2>5, <2>7 DEF Given
  <2> QED BY <2>6, <2>7
<1>9. ASSUME NEW m \in Monitors, RaiseFlap(m) PROVE Goal(n)
  <2> DEFINE fires == FlapFires(flap[m], IsUp(result[m]))
             next == FlapObserve(flap[m], IsUp(result[m]))
  <2>1. /\ UNCHANGED <<certWarned, hand>> /\ Forget(m, "flap", ~flap'[m].warned)
        /\ IF fires THEN Send(m, "flap") ELSE NoAlert
        /\ flap' = [flap EXCEPT ![m] = next]
    BY <1>9 DEF RaiseFlap, ObserveFlap
  <2>2. flap'[m].warned /\ ~fires => flap[m].warned
    BY <1>4, <2>1 DEF FlapFires
  <2>3. \A w \in {"cert", "flap"} :
          /\ Waiting(n, w) \/ w \in lost[n] => Waiting(n, w)' \/ w \in lost'[n]
          /\ fires => Waiting(m, "flap")' \/ "flap" \in lost'[m]
    <3>1. CASE fires
      <4>1. Topic("flap") = "flap" /\ \A w \in {"cert", "flap"} : w \in Topics
        BY DEF Topic, Topics
      <4> QED BY <1>1, <2>1, <3>1, <4>1, SendWaits
    <3>2. CASE ~fires
      BY <2>1, <3>2 DEF NoAlert, Waiting, OnItsWay
    <3> QED BY <3>1, <3>2
  <2> HIDE DEF fires, next
  <2>4. /\ "cert" \in heard[n].warnings => "cert" \in heard'[n].warnings
        /\ n # m => heard'[n] = heard[n] /\ flap'[n] = flap[n]
        /\ flap'[m].warned => heard' = heard
    BY <1>4, <2>1 DEF Forget
  <2>5. certWarned'[n] => Given(n, "cert")'
    BY <1>2, <2>1, <2>3, <2>4 DEF Given
  <2>6. CASE n = m
    BY <1>2, <2>2, <2>3, <2>4, <2>5, <2>6 DEF Given
  <2>7. CASE n # m
    BY <1>2, <2>3, <2>4, <2>5, <2>7 DEF Given
  <2> QED BY <2>6, <2>7
<1>10. ASSUME Receive PROVE Goal(n)
  <2>1. UNCHANGED <<certWarned, flap, heard, lost>> /\ OnItsWay' = OnItsWay
    BY <1>1, <1>10, ReceiveSteps DEF Receive, vars
  <2> QED BY <1>5, <2>1, ReadAsSequences DEF Given
<1>11. ASSUME Delivered PROVE Goal(n)
  <2>1. /\ hand # <<>> /\ hand' = <<>> /\ UNCHANGED <<certWarned, flap, queue, lost>>
        /\ heard' = [heard EXCEPT ![hand[1].mon] = Hears(@, hand[1].kind)]
    BY <1>11 DEF Delivered, vars
  <2>2. hand[1] \in Alert
    BY <1>1, <2>1, HandSteps
  <2>3. ASSUME NEW w \in {"cert", "flap"}
        PROVE  /\ w \in heard[n].warnings => w \in heard'[n].warnings
               /\ About(hand[1], n, w) => w \in heard'[n].warnings
    BY <1>4, <2>1, <2>2 DEF Hears, About, Topic, Alert
  <2>4. \A w \in {"cert", "flap"} :
          Waiting(n, w) => Waiting(n, w)' \/ About(hand[1], n, w)
    BY <1>1, <2>1, HandSteps
  <2> QED BY <1>5, <2>1, <2>3, <2>4 DEF Given
<1>12. ASSUME NotDelivered PROVE Goal(n)
  <2> DEFINE a == hand[1]
             t == Topic(a.kind)
  <2>1. /\ hand # <<>> /\ hand' = <<>> /\ UNCHANGED <<certWarned, flap, queue, heard>>
        /\ lost' = IF \E i \in 1 .. Len(queue) : About(queue[i], a.mon, t) THEN lost
                   ELSE [lost EXCEPT ![a.mon] = @ \union {t}]
    BY <1>12 DEF NotDelivered, vars
  <2>2. ASSUME NEW w \in {"cert", "flap"}
        PROVE  /\ Waiting(n, w) <=> About(a, n, w) \/ WaitsIn(queue, n, w)
               /\ Waiting(n, w)' <=> WaitsIn(queue, n, w)
    BY <1>1, <2>1, HandSteps
  <2>3. a \in Alert
    BY <1>1, <2>1, HandSteps
  <2> HIDE DEF a
  <2>4. \A w \in {"cert", "flap"} : w \in lost[n] => w \in lost'[n]
    BY <1>4, <2>1, <2>3 DEF Alert
  <2>5. ASSUME NEW w \in {"cert", "flap"}, About(a, n, w), ~WaitsIn(queue, n, w)
        PROVE  w \in lost'[n]
    <3>1. a.mon = n /\ t = w
      BY <2>5 DEF About
    <3> QED BY <1>4, <2>1, <2>5, <3>1 DEF WaitsIn
  <2> QED BY <1>5, <2>1, <2>2, <2>4, <2>5 DEF Given
<1>13. ASSUME Close PROVE Goal(n)
  <2>1. UNCHANGED <<certWarned, flap, queue, hand, heard, lost>>
    BY <1>13 DEF Close, vars
  <2> QED BY <1>5, <2>1 DEF Given, Waiting, OnItsWay
<1>14. ASSUME RestartAll PROVE Goal(n)
  BY <1>14 DEF RestartAll, Restart, FreshFlap
<1>15. CASE UNCHANGED pathVars
  <2>1. UNCHANGED <<certWarned, flap, queue, hand, heard, lost>>
    BY <1>15 DEF pathVars, vars, alertVars
  <2> QED BY <1>5, <2>1 DEF Given, Waiting, OnItsWay
<1> HIDE DEF Goal
<1> QED BY <1>6, <1>7, <1>8, <1>9, <1>10, <1>11, <1>12, <1>13, <1>14, <1>15 DEF PathNext

(* A warning that stands was sent: whatever the queue's capacity, it is      *)
(* heard, on its way or its latest alert dropped and logged.                 *)
THEOREM WarningsAreGivenHolds == PathSpec => []WarningsAreGiven
<1>1. WInv => WarningsAreGiven
  BY DEF WInv
<1> QED BY WInvInit, WInvNext, <1>1, PTL DEF PathSpec
=============================================================================
