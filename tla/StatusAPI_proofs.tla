-------------------------- MODULE StatusAPI_proofs --------------------------
(***************************************************************************)
(* Theorems about StatusAPI, for every set of monitors, every FailThreshold *)
(* and every history longer than it.                                        *)
(***************************************************************************)
EXTENDS StatusAPI, SequenceTheorems, TLAPS

-----------------------------------------------------------------------------
(* The operators of Trackers, as in AlertPath_proofs.                       *)

(* LastN keeps the newest n elements of a sequence, in order.               *)
LEMMA LastNProperties ==
  ASSUME NEW S, NEW s \in Seq(S), NEW n \in Nat
  PROVE  /\ LastN(s, n) \in Seq(S)
         /\ Len(LastN(s, n)) = IF Len(s) > n THEN n ELSE Len(s)
         /\ \A i \in 1 .. Len(LastN(s, n)) :
              LastN(s, n)[i] = s[Len(s) - Len(LastN(s, n)) + i]
<1>1. CASE Len(s) > n
  <2>1. LastN(s, n) = SubSeq(s, Len(s) - n + 1, Len(s))
    BY <1>1 DEF LastN
  <2>2. /\ Len(s) \in Nat
        /\ Len(s) - n + 1 \in 1 .. Len(s) + 1
        /\ Len(s) \in Len(s) - n .. Len(s)
    BY <1>1, LenProperties
  <2>3. /\ SubSeq(s, Len(s) - n + 1, Len(s)) \in Seq(S)
        /\ Len(SubSeq(s, Len(s) - n + 1, Len(s))) = n
        /\ \A i \in 1 .. n :
             SubSeq(s, Len(s) - n + 1, Len(s))[i] = s[Len(s) - n + i]
    BY <1>1, <2>2, SubSeqProperties
  <2> QED BY <1>1, <2>1, <2>3
<1>2. CASE ~(Len(s) > n)
  <2>1. LastN(s, n) = s
    BY <1>2 DEF LastN
  <2>2. Len(s) \in Nat /\ \A i \in 1 .. Len(s) : Len(s) - Len(s) + i = i
    BY LenProperties
  <2> QED BY <1>2, <2>1, <2>2
<1> QED BY <1>1, <1>2

(* What one observation does to a tracker.                                  *)
LEMMA MachineObserveType ==
  ASSUME NEW t \in Tracker, t.failStreak <= FailThreshold, NEW up \in BOOLEAN,
         t.state # "down" => t.failStreak < FailThreshold
  PROVE  /\ MachineObserve(t, up) \in Tracker
         /\ MachineObserve(t, up).failStreak <= FailThreshold
         /\ MachineObserve(t, up).state # "down" =>
              MachineObserve(t, up).failStreak < FailThreshold
BY ThresholdsAssumption DEF MachineObserve, Tracker, State

-----------------------------------------------------------------------------
(* Type correctness, with what it needs to know of the trackers.             *)

Bounded(t) == /\ t.failStreak <= FailThreshold
              /\ t.state # "down" => t.failStreak < FailThreshold

TInv ==
  /\ TypeOK
  /\ \A m \in Monitors : Bounded(track[m])
  /\ \A m \in Monitors : kept[m] => stage[m] = "observe"
  /\ HalfDone => card.mon \in Monitors /\ card.bars \in Seq(BOOLEAN)

LEMMA Empty == <<>> \in Seq(BOOLEAN) /\ Len(<<>>) = 0
BY EmptySeq

LEMMA Thresholds ==
  /\ FailThreshold \in Nat \ {0} /\ Limit \in Nat /\ Limit > FailThreshold
  /\ 0 \in 0 .. FailThreshold /\ 0 <= Limit
BY ThresholdsAssumption, HistoryCoversStreak

LEMMA FreshBounded == FreshTracker \in Tracker /\ Bounded(FreshTracker)
BY Thresholds DEF FreshTracker, Tracker, State, Bounded

(* Appending a result to a history cut to Limit: the newest is the result,   *)
(* and those before it are the newest of before.                             *)
LEMMA AppendToHistory ==
  ASSUME NEW h \in Seq(BOOLEAN), NEW up \in BOOLEAN, Len(h) <= Limit
  PROVE  LET v == LastN(Append(h, up), Limit) IN
         /\ v \in Seq(BOOLEAN) /\ Len(v) \in Nat /\ Len(v) <= Limit
         /\ Len(v) = IF Len(h) < Limit THEN Len(h) + 1 ELSE Len(h)
         /\ v[Len(v)] = up
         /\ \A d \in 0 .. Len(v) - 2 : v[Len(v) - 1 - d] = h[Len(h) - d]
<1> DEFINE a == Append(h, up)
           v == LastN(a, Limit)
<1>1. /\ Len(h) \in Nat /\ a \in Seq(BOOLEAN) /\ Len(a) = Len(h) + 1
      /\ a[Len(h) + 1] = up /\ \A i \in 1 .. Len(h) : a[i] = h[i]
  BY AppendProperties, LenProperties
<1> HIDE DEF a
<1>2. /\ v \in Seq(BOOLEAN)
      /\ Len(v) = IF Len(a) > Limit THEN Limit ELSE Len(a)
      /\ \A i \in 1 .. Len(v) : v[i] = a[Len(a) - Len(v) + i]
  BY <1>1, LastNProperties, Thresholds
<1> HIDE DEF v
<1>3. /\ Len(v) = IF Len(h) < Limit THEN Len(h) + 1 ELSE Len(h)
      /\ Len(v) \in Nat \ {0} /\ Len(v) <= Limit
  BY <1>1, <1>2, Thresholds
<1>4. v[Len(v)] = up
  <2>1. Len(v) \in 1 .. Len(v) /\ Len(a) - Len(v) + Len(v) = Len(h) + 1
    BY <1>1, <1>3
  <2>2. v[Len(v)] = a[Len(a) - Len(v) + Len(v)]
    BY <1>2, <2>1
  <2> QED BY <1>1, <2>1, <2>2
<1>5. ASSUME NEW d \in 0 .. Len(v) - 2 PROVE v[Len(v) - 1 - d] = h[Len(h) - d]
  <2>1. /\ Len(v) - 1 - d \in 1 .. Len(v)
        /\ Len(a) - Len(v) + (Len(v) - 1 - d) = Len(h) - d
        /\ Len(h) - d \in 1 .. Len(h)
    BY <1>1, <1>3
  <2>2. v[Len(v) - 1 - d] = a[Len(h) - d]
    BY <1>2, <2>1
  <2> QED BY <1>1, <2>1, <2>2
<1> QED BY <1>2, <1>3, <1>4, <1>5 DEF v, a

LEMMA TInvInit == Init => TInv
<1> SUFFICES ASSUME Init PROVE TInv
  OBVIOUS
<1>1. track \in [Monitors -> Tracker] /\ \A m \in Monitors : Bounded(track[m])
  BY FreshBounded DEF Init
<1>2. history \in [Monitors -> Seq(BOOLEAN)] /\ \A m \in Monitors : Len(history[m]) <= Limit
  BY Empty, Thresholds DEF Init
<1>3. ~HalfDone /\ card = NoCard
  BY DEF Init, HalfDone, NoCard
<1>4. /\ stage \in [Monitors -> {"idle", "save", "observe"}]
      /\ result \in [Monitors -> BOOLEAN] /\ kept \in [Monitors -> BOOLEAN]
      /\ agree \in [Monitors -> 0 .. FailThreshold]
      /\ \A m \in Monitors : ~kept[m]
  BY Thresholds DEF Init
<1> QED BY <1>1, <1>2, <1>3, <1>4 DEF Init, TInv, TypeOK

LEMMA TInvNext == TInv /\ [Next]_vars => TInv'
<1> SUFFICES ASSUME TInv, [Next]_vars PROVE TInv'
  OBVIOUS
<1> USE DEF TInv, TypeOK
<1>1. ASSUME StartBatch PROVE TInv'
  BY <1>1 DEF StartBatch, storeVars, requestVars, ghostVars, HalfDone
<1>2. ASSUME NEW m \in Monitors, Probe(m) PROVE TInv'
  BY <1>2 DEF Probe, storeVars, requestVars, ghostVars, HalfDone
<1>3. ASSUME NEW m \in Monitors, Save(m) PROVE TInv'
  <2> DEFINE v == LastN(Append(history[m], result[m]), Limit)
  <2>1. v \in Seq(BOOLEAN) /\ Len(v) <= Limit
    BY AppendToHistory
  <2>2. /\ history' = [history EXCEPT ![m] = v] \/ history' = history
        /\ kept' \in [Monitors -> BOOLEAN] /\ \A n \in Monitors \ {m} : kept'[n] = kept[n]
        /\ stage' = [stage EXCEPT ![m] = "observe"]
        /\ UNCHANGED <<listed, due, result, track, requestVars, owed, agree>>
    BY <1>3 DEF Save
  <2> HIDE DEF v
  <2>3. history' \in [Monitors -> Seq(BOOLEAN)] /\ \A n \in Monitors : Len(history'[n]) <= Limit
    <3>1. CASE history' = history
      BY <3>1
    <3>2. CASE history' = [history EXCEPT ![m] = v]
      <4>1. history' \in [Monitors -> Seq(BOOLEAN)]
        BY <2>1, <3>2
      <4>2. \A n \in Monitors : history'[n] = IF n = m THEN v ELSE history[n]
        BY <3>2
      <4> QED BY <2>1, <4>1, <4>2
    <3> QED BY <2>2, <3>1, <3>2
  <2> QED BY <2>2, <2>3 DEF requestVars, HalfDone
<1>4. ASSUME NEW m \in Monitors, Observe(m) PROVE TInv'
  <2> DEFINE next == MachineObserve(track[m], result[m])
  <2>1. next \in Tracker /\ Bounded(next)
    BY MachineObserveType DEF Bounded
  <2>2. /\ track' = [track EXCEPT ![m] = next]
        /\ stage' = [stage EXCEPT ![m] = "idle"] /\ result' = [result EXCEPT ![m] = FALSE]
        /\ kept' = [kept EXCEPT ![m] = FALSE]
        /\ UNCHANGED <<storeVars, due, requestVars>>
    BY <1>4 DEF Observe
  <2> HIDE DEF next
  <2>3. owed' \in BOOLEAN
    BY <1>4 DEF Observe
  <2>4. agree' \in [Monitors -> 0 .. FailThreshold]
    <3> DEFINE k == IF ~kept[m] THEN 0
                    ELSE IF agree[m] < FailThreshold THEN agree[m] + 1 ELSE agree[m]
    <3>1. agree' = [agree EXCEPT ![m] = k]
      BY <1>4 DEF Observe
    <3>2. agree \in [Monitors -> 0 .. FailThreshold] /\ agree[m] \in 0 .. FailThreshold
      OBVIOUS
    <3>3. k \in 0 .. FailThreshold
      <4>1. CASE agree[m] < FailThreshold
        <5>1. agree[m] + 1 \in 0 .. FailThreshold
          BY <3>2, <4>1, Thresholds
        <5> QED BY <4>1, <5>1, Thresholds
      <4>2. CASE ~(agree[m] < FailThreshold)
        BY <3>2, <4>2, Thresholds
      <4> QED BY <4>1, <4>2
    <3> HIDE DEF k
    <3> QED BY <3>1, <3>2, <3>3
  <2> QED BY <2>1, <2>2, <2>3, <2>4 DEF storeVars, requestVars, HalfDone
<1>5. ASSUME NEW new \in SUBSET Monitors, SyncTo(new)
      PROVE  /\ listed' \subseteq Monitors
             /\ history' \in [Monitors -> Seq(BOOLEAN)]
             /\ \A m \in Monitors : Len(history'[m]) <= Limit
  BY <1>5, Empty, Thresholds DEF SyncTo
<1>6. ASSUME Reload PROVE TInv'
  <2>1. /\ listed' \subseteq Monitors
        /\ history' \in [Monitors -> Seq(BOOLEAN)]
        /\ \A m \in Monitors : Len(history'[m]) <= Limit
    BY <1>5, <1>6 DEF Reload
  <2>2. /\ kept' \in [Monitors -> BOOLEAN] /\ agree' \in [Monitors -> 0 .. FailThreshold]
        /\ \A m \in Monitors : kept'[m] => kept[m]
    BY <1>6, Thresholds DEF Reload
  <2> QED BY <1>6, <2>1, <2>2 DEF Reload, workerVars, requestVars, HalfDone
<1>7. ASSUME Restart PROVE TInv'
  <2>1. /\ listed' \subseteq Monitors
        /\ history' \in [Monitors -> Seq(BOOLEAN)]
        /\ \A m \in Monitors : Len(history'[m]) <= Limit
    BY <1>5, <1>7 DEF Restart
  <2>2. track' \in [Monitors -> Tracker] /\ \A m \in Monitors : Bounded(track'[m])
    BY <1>7, FreshBounded DEF Restart
  <2>3. card' = NoCard /\ ~HalfDone'
    BY <1>7 DEF Restart, HalfDone, NoCard
  <2>4. /\ stage' \in [Monitors -> {"idle", "save", "observe"}]
        /\ result' \in [Monitors -> BOOLEAN] /\ kept' \in [Monitors -> BOOLEAN]
        /\ agree' \in [Monitors -> 0 .. FailThreshold]
        /\ \A m \in Monitors : ~kept'[m]
    BY <1>7, Thresholds DEF Restart
  <2> QED BY <1>7, <2>1, <2>2, <2>3, <2>4 DEF Restart
<1>8. ASSUME ReadList \/ ReadFails PROVE TInv'
  <2>1. card' = NoCard /\ ~HalfDone' /\ owed' = FALSE /\ todo' \subseteq Monitors
    BY <1>8 DEF ReadList, ReadFails, HalfDone, NoCard
  <2> QED BY <1>8, <2>1 DEF ReadList, ReadFails, storeVars, workerVars
<1>9. ASSUME NEW m \in Monitors, ReadHistory(m) PROVE TInv'
  <2>1. card' = [mon |-> m, bars |-> history[m], state |-> "unread"]
    BY <1>9 DEF ReadHistory, BuildHealth
  <2>2. /\ card' \in [mon : Monitors, bars : Seq(BOOLEAN), state : State \union {"unread"}]
        /\ card'.mon \in Monitors /\ card'.bars \in Seq(BOOLEAN)
    BY <2>1
  <2> QED BY <1>9, <2>2 DEF ReadHistory, storeVars, workerVars
<1>10. ASSUME ReadState PROVE TInv'
  <2>1. card' = [mon |-> card.mon, bars |-> card.bars, state |-> track[card.mon].state]
    BY <1>10 DEF ReadState, BuildHealth, StateOf
  <2>2. card.mon \in Monitors /\ card.bars \in Seq(BOOLEAN)
    BY <1>10 DEF ReadState
  <2>3. track[card.mon].state \in State
    BY <2>2 DEF Tracker
  <2>4. /\ card' \in [mon : Monitors, bars : Seq(BOOLEAN), state : State \union {"unread"}]
        /\ card'.mon \in Monitors /\ card'.bars \in Seq(BOOLEAN)
    BY <2>1, <2>2, <2>3
  <2>5. owed' \in BOOLEAN
    BY <1>10 DEF ReadState
  <2> QED BY <1>10, <2>4, <2>5 DEF ReadState, storeVars, workerVars
<1>11. CASE UNCHANGED vars
  BY <1>11 DEF vars, storeVars, workerVars, requestVars, ghostVars, HalfDone
<1> QED BY <1>1, <1>2, <1>3, <1>4, <1>6, <1>7, <1>8, <1>9, <1>10, <1>11 DEF Next

(* Every value stays in its type: a history never outgrows the limit, and    *)
(* what the request holds between two reads is a monitor and its bars.       *)
THEOREM TypeCorrect == Spec => []TypeOK
<1>1. TInv => TypeOK
  BY DEF TInv
<1> QED BY TInvInit, TInvNext, <1>1, PTL DEF Spec

-----------------------------------------------------------------------------
(* What is left of a monitor that was removed.  A batch that holds it may    *)
(* still probe it, and its probe in flight save one result; OneOrphanAtMost  *)
(* needs to know that not both can happen, nor the second twice.             *)

OrphanInv ==
  \A m \in Monitors :
    /\ m \in due => stage[m] = "idle"
    /\ m \notin listed => Len(history[m]) <= 1
    /\ m \notin listed /\ (m \in due \/ stage[m] = "save") => history[m] = <<>>

LEMMA OrphanInvInit == Init => OrphanInv
BY Empty DEF Init, OrphanInv

LEMMA OrphanInvNext == TInv /\ OrphanInv /\ [Next]_vars => OrphanInv'
<1> SUFFICES ASSUME TInv, OrphanInv, [Next]_vars PROVE OrphanInv'
  OBVIOUS
<1>1. /\ history \in [Monitors -> Seq(BOOLEAN)] /\ result \in [Monitors -> BOOLEAN]
      /\ stage \in [Monitors -> {"idle", "save", "observe"}]
      /\ \A m \in Monitors : Len(history[m]) <= Limit
  BY DEF TInv, TypeOK
<1> USE DEF OrphanInv
<1>2. ASSUME StartBatch PROVE OrphanInv'
  BY <1>2 DEF StartBatch, storeVars
<1>3. ASSUME NEW m \in Monitors, Probe(m) PROVE OrphanInv'
  BY <1>1, <1>3 DEF Probe, storeVars
<1>4. ASSUME NEW m \in Monitors, Save(m) PROVE OrphanInv'
  <2> DEFINE v == LastN(Append(history[m], result[m]), Limit)
  <2>1. history[m] = <<>> => Len(v) = 1
    <3>1. ASSUME history[m] = <<>> PROVE Len(history[m]) = 0 /\ 0 < Limit
      BY <3>1, Empty, Thresholds
    <3>2. Len(v) = IF Len(history[m]) < Limit THEN Len(history[m]) + 1
                   ELSE Len(history[m])
      BY <1>1, AppendToHistory
    <3> HIDE DEF v
    <3> QED BY <3>1, <3>2
  <2>2. /\ history' = [history EXCEPT ![m] = v] \/ history' = history
        /\ stage[m] = "save" /\ stage' = [stage EXCEPT ![m] = "observe"]
        /\ UNCHANGED <<listed, due>>
    BY <1>4 DEF Save
  <2> HIDE DEF v
  <2>3. m \notin due
    BY <2>2
  <2>4. m \notin listed => history[m] = <<>>
    BY <2>2
  <2>5. m \notin listed' => Len(history'[m]) <= 1
    <3>1. history'[m] = v \/ history'[m] = history[m]
      <4>1. m \in DOMAIN history
        BY <1>1
      <4> QED BY <2>2, <4>1
    <3>2. history[m] = <<>> => Len(v) = 1 /\ Len(history[m]) = 0
      BY <2>1, Empty
    <3>3. m \notin listed' => history[m] = <<>>
      BY <2>2, <2>4
    <3>4. ASSUME m \notin listed' PROVE Len(history'[m]) \in {0, 1}
      <4>1. history[m] = <<>>
        BY <3>3, <3>4
      <4>2. CASE history'[m] = v
        BY <3>2, <4>1, <4>2
      <4>3. CASE history'[m] = history[m]
        BY <3>2, <4>1, <4>3
      <4> QED BY <3>1, <4>2, <4>3
    <3>5. \A x \in {0, 1} : x <= 1
      OBVIOUS
    <3> QED BY <3>4, <3>5, Zenon
  <2>6. stage'[m] # "save" /\ m \notin due'
    BY <1>1, <2>2, <2>3
  <2>7. \A n \in Monitors \ {m} : history'[n] = history[n] /\ stage'[n] = stage[n]
    BY <1>1, <2>2
  <2> QED BY <2>2, <2>5, <2>6, <2>7
<1>5. ASSUME NEW m \in Monitors, Observe(m) PROVE OrphanInv'
  BY <1>1, <1>5 DEF Observe, storeVars
<1>6. ASSUME NEW new \in SUBSET Monitors, SyncTo(new)
      PROVE  \A m \in Monitors : m \notin listed' => history'[m] = <<>>
  BY <1>6 DEF SyncTo
<1>7. ASSUME Reload PROVE OrphanInv'
  BY <1>6, <1>7, Empty DEF Reload, workerVars
<1>8. ASSUME Restart PROVE OrphanInv'
  BY <1>6, <1>8, Empty DEF Restart
<1>9. ASSUME ReadList \/ ReadFails \/ ReadState \/ (\E m \in Monitors : ReadHistory(m))
      PROVE  OrphanInv'
  BY <1>9 DEF ReadList, ReadFails, ReadState, ReadHistory, storeVars, workerVars
<1>10. CASE UNCHANGED vars
  BY <1>10 DEF vars, storeVars, workerVars
<1> QED BY <1>2, <1>3, <1>4, <1>5, <1>7, <1>8, <1>9, <1>10 DEF Next

(* For any sequence of reloads and restarts, a monitor that is not in the    *)
(* config has at most one result in the store.                               *)
THEOREM OneOrphanAtMostHolds == Spec => []OneOrphanAtMost
<1>1. OrphanInv => OneOrphanAtMost
  BY DEF OrphanInv, OneOrphanAtMost
<1> QED BY TInvInit, TInvNext, OrphanInvInit, OrphanInvNext, <1>1, PTL DEF Spec

-----------------------------------------------------------------------------
(* The history and the machine.  Follows(h, o, k, t) says that t is what the *)
(* machine makes of the newest k results of h, the last o of h left out: o   *)
(* is 1 between the Save of a result and its observation.  The results are   *)
(* counted from the new end, where d is the age of a result: Limit forgets   *)
(* at the old end.                                                          *)

Aged(h, o, d) == h[Len(h) - o - d]

Follows(h, o, k, t) ==
  /\ k + o <= Len(h)
  /\ \A d \in 0 .. k - 1 : Aged(h, o, d) => t.state = "up" /\ t.failStreak <= d
  /\ \A j \in 0 .. k :
       (\A d \in 0 .. j - 1 : ~Aged(h, o, d)) => t.state = "down" \/ t.failStreak >= j

LEMMA FollowsNothing ==
  ASSUME NEW h \in Seq(BOOLEAN), NEW t \in Tracker
  PROVE  Follows(h, 0, 0, t)
<1>1. Len(h) \in Nat /\ t.failStreak \in Nat
  BY LenProperties DEF Tracker
<1> QED BY <1>1 DEF Follows

LEMMA FollowsSave ==
  ASSUME NEW h \in Seq(BOOLEAN), Len(h) <= Limit, NEW up \in BOOLEAN,
         NEW k \in 0 .. FailThreshold, NEW t \in Tracker, Follows(h, 0, k, t)
  PROVE  Follows(LastN(Append(h, up), Limit), 1, k, t)
<1> DEFINE v == LastN(Append(h, up), Limit)
<1>1. /\ Len(v) \in Nat
      /\ Len(v) = IF Len(h) < Limit THEN Len(h) + 1 ELSE Len(h)
      /\ \A d \in 0 .. Len(v) - 2 : v[Len(v) - 1 - d] = h[Len(h) - d]
  BY AppendToHistory
<1> HIDE DEF v
<1>2. Len(h) \in Nat /\ k <= Len(h) /\ k < Limit
  BY LenProperties, Thresholds DEF Follows
<1>3. k + 1 <= Len(v)
  BY <1>1, <1>2, Thresholds
<1>4. \A d \in 0 .. k - 1 : Aged(v, 1, d) = Aged(h, 0, d)
  BY <1>1, <1>2, <1>3 DEF Aged
<1>5. \A d \in 0 .. k - 1 : Aged(v, 1, d) => t.state = "up" /\ t.failStreak <= d
  BY <1>4 DEF Follows
<1>6. ASSUME NEW j \in 0 .. k, \A d \in 0 .. j - 1 : ~Aged(v, 1, d)
      PROVE  t.state = "down" \/ t.failStreak >= j
  <2>1. \A d \in 0 .. j - 1 : d \in 0 .. k - 1
    OBVIOUS
  <2>2. \A d \in 0 .. j - 1 : ~Aged(h, 0, d)
    BY <1>4, <1>6, <2>1
  <2> QED BY <2>2 DEF Follows
<1> QED BY <1>3, <1>5, <1>6 DEF Follows, v

LEMMA FollowsObserve ==
  ASSUME NEW h \in Seq(BOOLEAN), NEW k \in 0 .. FailThreshold,
         NEW t \in Tracker, Bounded(t), Follows(h, 1, k, t)
  PROVE  Follows(h, 0, IF k < FailThreshold THEN k + 1 ELSE k,
                 MachineObserve(t, h[Len(h)]))
<1> DEFINE up == h[Len(h)]
           n == IF k < FailThreshold THEN k + 1 ELSE k
           u == MachineObserve(t, up)
<1>1. /\ Len(h) \in Nat /\ k + 1 <= Len(h) /\ k \in Nat /\ FailThreshold \in Nat \ {0}
      /\ t.failStreak \in Nat /\ t.state \in {"unknown", "up", "down"}
  BY LenProperties, Thresholds DEF Follows, Tracker, State
<1>2. n \in 1 .. FailThreshold /\ n <= k + 1 /\ n <= Len(h)
  BY <1>1
<1>3. up \in BOOLEAN
  <2>1. Len(h) \in 1 .. Len(h)
    BY <1>1
  <2> QED BY <2>1, ElementOfSeq
<1>4. Aged(h, 0, 0) = up /\ \A d \in 1 .. n - 1 : d - 1 \in 0 .. k - 1 /\ Aged(h, 0, d) = Aged(h, 1, d - 1)
  <2>1. Len(h) - 0 - 0 = Len(h) /\ \A d \in 1 .. n - 1 : Len(h) - 0 - d = Len(h) - 1 - (d - 1)
    BY <1>1, <1>2
  <2>2. \A d \in 1 .. n - 1 : d - 1 \in 0 .. k - 1
    BY <1>1, <1>2
  <2> QED BY <2>1, <2>2 DEF Aged
<1>5. \A d \in 0 .. k - 1 : Aged(h, 1, d) => t.state = "up" /\ t.failStreak <= d
  BY DEF Follows
<1> HIDE DEF n, up
<1>6. CASE up
  <2>1. u = [state |-> "up", failStreak |-> 0]
    BY <1>6 DEF MachineObserve
  <2> HIDE DEF u
  <2>2. \A d \in 0 .. n - 1 : u.state = "up" /\ u.failStreak <= d
    BY <1>2, <2>1
  <2>3. ASSUME NEW j \in 0 .. n, \A d \in 0 .. j - 1 : ~Aged(h, 0, d)
        PROVE  u.failStreak >= j
    <3>1. ~(0 \in 0 .. j - 1)
      BY <1>4, <1>6, <2>3
    <3>2. j = 0
      BY <1>2, <3>1
    <3> QED BY <2>1, <3>2
  <2> QED BY <1>2, <2>2, <2>3 DEF Follows, u, n, up
<1>7. CASE ~up
  <2>1. u = IF t.state = "down" THEN t
            ELSE [state |-> IF t.failStreak + 1 >= FailThreshold THEN "down" ELSE t.state,
                  failStreak |-> t.failStreak + 1]
    BY <1>7 DEF MachineObserve
  <2> HIDE DEF u
  <2>2. ASSUME NEW d \in 0 .. n - 1, Aged(h, 0, d)
        PROVE  u.state = "up" /\ u.failStreak <= d
    <3>1. d \in 1 .. n - 1
      BY <1>2, <1>4, <1>7, <2>2
    <3>2. d - 1 \in 0 .. k - 1 /\ Aged(h, 1, d - 1)
      BY <1>4, <2>2, <3>1
    <3>3. t.state = "up" /\ t.failStreak <= d - 1
      BY <1>5, <3>2
    <3>4. t.failStreak + 1 < FailThreshold /\ t.failStreak + 1 <= d
      BY <1>1, <1>2, <3>1, <3>3
    <3>5. ~(t.failStreak + 1 >= FailThreshold)
      BY <1>1, <3>4
    <3> QED BY <2>1, <3>3, <3>4, <3>5
  <2>3. ASSUME NEW j \in 0 .. n, \A d \in 0 .. j - 1 : ~Aged(h, 0, d)
        PROVE  u.state = "down" \/ u.failStreak >= j
    <3>1. CASE t.state = "down"
      BY <2>1, <3>1
    <3>2. CASE t.state # "down"
      <4>1. u.failStreak = t.failStreak + 1
        BY <2>1, <3>2
      <4>2. CASE j = 0
        BY <1>1, <4>1, <4>2
      <4>3. CASE j # 0
        <5>1. j - 1 \in 0 .. k
          BY <1>2, <4>3
        <5>2. \A d \in 0 .. j - 1 - 1 : d + 1 \in 1 .. n - 1 /\ d + 1 \in 0 .. j - 1
                                        /\ (d + 1) - 1 = d
          BY <1>2
        <5>3. \A d \in 0 .. j - 1 - 1 : ~Aged(h, 1, d)
          BY <1>4, <2>3, <5>2
        <5>4. t.failStreak >= j - 1
          BY <3>2, <5>1, <5>3 DEF Follows
        <5> QED BY <1>1, <4>1, <5>4
      <4> QED BY <4>2, <4>3
    <3> QED BY <3>1, <3>2
  <2> QED BY <1>2, <2>2, <2>3 DEF Follows, u, n, up
<1> QED BY <1>3, <1>6, <1>7

(* A machine that follows FailThreshold results is at their verdict.        *)
LEMMA FollowsVerdict ==
  ASSUME NEW w \in Seq(BOOLEAN), NEW t \in Tracker, Bounded(t),
         Follows(w, 0, FailThreshold, t)
  PROVE  t.state = Verdict(w)
<1> DEFINE F == FailThreshold
           v == LastN(w, F)
<1>1. F \in Nat \ {0} /\ Len(w) \in Nat /\ F <= Len(w)
  BY LenProperties, Thresholds DEF Follows
<1>2. /\ v \in Seq(BOOLEAN) /\ Len(v) = IF Len(w) > F THEN F ELSE Len(w)
      /\ \A i \in 1 .. Len(v) : v[i] = w[Len(w) - Len(v) + i]
  BY <1>1, LastNProperties
<1>3. Verdict(w) = IF \E i \in 1 .. Len(v) : v[i] THEN "up"
                   ELSE IF Len(v) >= FailThreshold THEN "down" ELSE "unknown"
  BY DEF Verdict
<1> HIDE DEF v
<1>4. Len(v) = F
  BY <1>1, <1>2
<1>5. /\ \A i \in 1 .. F : F - i \in 0 .. F - 1 /\ v[i] = Aged(w, 0, F - i)
      /\ \A d \in 0 .. F - 1 : F - d \in 1 .. F /\ v[F - d] = Aged(w, 0, d)
  <2>1. /\ \A i \in 1 .. F : Len(w) - F + i = Len(w) - 0 - (F - i) /\ F - i \in 0 .. F - 1
        /\ \A d \in 0 .. F - 1 : Len(w) - F + (F - d) = Len(w) - 0 - d /\ F - d \in 1 .. F
    BY <1>1
  <2>2. \A i \in 1 .. F : v[i] = w[Len(w) - F + i]
    BY <1>2, <1>4
  <2>3. \A i \in 1 .. F : v[i] = Aged(w, 0, F - i)
    <3>1. \A i \in 1 .. F : Aged(w, 0, F - i) = w[Len(w) - 0 - (F - i)]
      BY DEF Aged
    <3> QED BY <2>1, <2>2, <3>1
  <2>4. \A d \in 0 .. F - 1 : v[F - d] = Aged(w, 0, d)
    <3>1. \A d \in 0 .. F - 1 : Aged(w, 0, d) = w[Len(w) - 0 - d]
      BY DEF Aged
    <3>2. \A d \in 0 .. F - 1 : v[F - d] = w[Len(w) - F + (F - d)]
      BY <2>1, <2>2
    <3> QED BY <2>1, <3>1, <3>2
  <2> QED BY <2>1, <2>3, <2>4
<1>6. CASE \E i \in 1 .. F : v[i]
  <2>1. \E d \in 0 .. F - 1 : Aged(w, 0, d)
    BY <1>5, <1>6
  <2>2. t.state = "up"
    BY <2>1 DEF Follows
  <2> QED BY <1>3, <1>4, <1>6, <2>2
<1>7. CASE ~ \E i \in 1 .. F : v[i]
  <2>1. \A d \in 0 .. F - 1 : ~Aged(w, 0, d)
    BY <1>5, <1>7
  <2>2. F \in 0 .. F
    BY <1>1
  <2>3. t.state = "down" \/ t.failStreak >= F
    BY <2>1, <2>2 DEF Follows
  <2>4. t.state = "down"
    BY <1>1, <2>3 DEF Bounded, Tracker
  <2> QED BY <1>1, <1>3, <1>4, <1>7, <2>4
<1> QED BY <1>6, <1>7

LEMMA FollowsWithout ==
  ASSUME NEW h \in Seq(BOOLEAN), NEW k \in Nat, NEW t, Follows(h, 1, k, t)
  PROVE  WithoutLast(h) \in Seq(BOOLEAN) /\ Follows(WithoutLast(h), 0, k, t)
<1> DEFINE w == WithoutLast(h)
<1>1. Len(h) \in Nat \ {0} /\ k + 1 <= Len(h)
  BY LenProperties DEF Follows
<1>2. \A i \in 1 .. Len(h) - 1 : h[i] \in BOOLEAN
  BY <1>1, ElementOfSeq
<1>3. /\ w \in Seq(BOOLEAN) /\ Len(w) = Len(h) - 1
      /\ \A i \in 1 .. Len(h) - 1 : w[i] = h[i]
  <2>1. /\ w \in Seq(BOOLEAN)
        /\ Len(w) = IF 1 <= Len(h) - 1 THEN Len(h) - 1 - 1 + 1 ELSE 0
        /\ \A i \in 1 .. Len(h) - 1 - 1 + 1 : w[i] = h[1 + i - 1]
    BY <1>1, <1>2, SubSeqProperties DEF WithoutLast
  <2> HIDE DEF w
  <2>2. Len(w) = Len(h) - 1
    <3>1. \A n \in Nat \ {0} : (IF 1 <= n - 1 THEN n - 1 - 1 + 1 ELSE 0) = n - 1
      OBVIOUS
    <3>2. (IF 1 <= Len(h) - 1 THEN Len(h) - 1 - 1 + 1 ELSE 0) = Len(h) - 1
      BY <1>1, <3>1
    <3>3. Len(w) = IF 1 <= Len(h) - 1 THEN Len(h) - 1 - 1 + 1 ELSE 0
      BY <2>1
    <3> QED BY <3>2, <3>3
  <2>3. ASSUME NEW i \in 1 .. Len(h) - 1 PROVE w[i] = h[i]
    <3>1. i \in 1 .. Len(h) - 1 - 1 + 1 /\ 1 + i - 1 = i
      BY <1>1
    <3> QED BY <2>1, <3>1
  <2> QED BY <2>1, <2>2, <2>3
<1> HIDE DEF w
<1>4. \A d \in 0 .. k - 1 : Aged(w, 0, d) = Aged(h, 1, d)
  <2> SUFFICES ASSUME NEW d \in 0 .. k - 1 PROVE Aged(w, 0, d) = Aged(h, 1, d)
    OBVIOUS
  <2>1. d \in Int /\ 0 <= d /\ d < k
    OBVIOUS
  <2>2. Len(h) - 1 - d \in 1 .. Len(h) - 1
    BY <1>1, <2>1
  <2>3. Len(w) - 0 - d = Len(h) - 1 - d
    BY <1>1, <1>3, <2>1
  <2>4. w[Len(h) - 1 - d] = h[Len(h) - 1 - d]
    BY <1>3, <2>2
  <2> QED BY <2>3, <2>4 DEF Aged
<1>5. \A d \in 0 .. k - 1 : Aged(w, 0, d) => t.state = "up" /\ t.failStreak <= d
  BY <1>4 DEF Follows
<1>6. ASSUME NEW j \in 0 .. k, \A d \in 0 .. j - 1 : ~Aged(w, 0, d)
      PROVE  t.state = "down" \/ t.failStreak >= j
  <2>1. \A d \in 0 .. j - 1 : d \in 0 .. k - 1
    OBVIOUS
  <2>2. \A d \in 0 .. j - 1 : ~Aged(h, 1, d)
    BY <1>4, <1>6, <2>1
  <2> QED BY <2>2 DEF Follows
<1>7. k + 0 <= Len(w)
  BY <1>1, <1>3
<1> QED BY <1>3, <1>5, <1>6, <1>7 DEF Follows, w

-----------------------------------------------------------------------------
(* The card.  CardIsExplained needs FollowsInv, of every monitor, and of a   *)
(* half-done card that the machine still follows the bars: it has observed   *)
(* nothing since they were read, or the card is owed nothing.                *)

FollowsInv ==
  \A m \in Monitors :
    /\ Follows(history[m], IF kept[m] THEN 1 ELSE 0, agree[m], track[m])
    /\ kept[m] => history[m][Len(history[m])] = result[m]

CardInv ==
  /\ HalfDone /\ owed =>
       \E o \in {0, 1} : Follows(card.bars, o, agree[card.mon], track[card.mon])
  /\ CardIsExplained

FInv == TInv /\ FollowsInv

LEMMA FInvInit == Init => FInv
<1> SUFFICES ASSUME Init PROVE FollowsInv
  BY TInvInit DEF FInv
<1>1. \A m \in Monitors : Follows(history[m], 0, 0, track[m])
  BY Empty, FreshBounded, FollowsNothing DEF Init
<1> QED BY <1>1 DEF Init, FollowsInv

LEMMA FInvNext == FInv /\ [Next]_vars => FInv'
<1> SUFFICES ASSUME FInv, [Next]_vars PROVE FollowsInv'
  BY TInvNext DEF FInv
<1>1. /\ history \in [Monitors -> Seq(BOOLEAN)] /\ track \in [Monitors -> Tracker]
      /\ result \in [Monitors -> BOOLEAN] /\ kept \in [Monitors -> BOOLEAN]
      /\ agree \in [Monitors -> 0 .. FailThreshold]
      /\ \A m \in Monitors : Len(history[m]) <= Limit /\ Bounded(track[m])
      /\ \A m \in Monitors : kept[m] => stage[m] = "observe"
  BY DEF FInv, TInv, TypeOK
<1>2. \A m \in Monitors :
        /\ Follows(history[m], IF kept[m] THEN 1 ELSE 0, agree[m], track[m])
        /\ kept[m] => history[m][Len(history[m])] = result[m]
  BY DEF FInv, FollowsInv
<1>3. SUFFICES ASSUME NEW n \in Monitors
               PROVE  /\ Follows(history'[n], IF kept'[n] THEN 1 ELSE 0, agree'[n], track'[n])
                      /\ kept'[n] => history'[n][Len(history'[n])] = result'[n]
  BY DEF FollowsInv
<1> DEFINE Goal == /\ Follows(history'[n], IF kept'[n] THEN 1 ELSE 0, agree'[n], track'[n])
                   /\ kept'[n] => history'[n][Len(history'[n])] = result'[n]
\* A step that touches another monitor, or none.
<1>4. ASSUME history'[n] = history[n], kept'[n] = kept[n], agree'[n] = agree[n],
             track'[n] = track[n], kept[n] => result'[n] = result[n]
      PROVE  Goal
  BY <1>2, <1>4
<1>5. ASSUME StartBatch PROVE Goal
  BY <1>4, <1>5 DEF StartBatch, storeVars, ghostVars
<1>6. ASSUME NEW m \in Monitors, Probe(m) PROVE Goal
  <2>1. ~kept[m] /\ \A k \in Monitors \ {m} : result'[k] = result[k]
    BY <1>1, <1>6 DEF Probe
  <2> QED BY <1>4, <1>6, <2>1 DEF Probe, storeVars, ghostVars
<1>7. ASSUME NEW m \in Monitors, Save(m) PROVE Goal
  <2> DEFINE v == LastN(Append(history[m], result[m]), Limit)
  <2>1. PICK stored \in BOOLEAN :
          /\ history' = IF stored THEN [history EXCEPT ![m] = v] ELSE history
          /\ kept' = [kept EXCEPT ![m] = stored]
    BY <1>7 DEF Save
  <2>2. ~kept[m] /\ UNCHANGED <<result, track, agree>>
    BY <1>1, <1>7 DEF Save
  <2>3. v[Len(v)] = result[m] /\ Follows(v, 1, agree[m], track[m])
    <3>1. Follows(history[m], 0, agree[m], track[m])
      BY <1>2, <2>2
    <3>2. /\ history[m] \in Seq(BOOLEAN) /\ Len(history[m]) <= Limit
          /\ result[m] \in BOOLEAN /\ track[m] \in Tracker
          /\ agree[m] \in 0 .. FailThreshold
      BY <1>1
    <3>3. v[Len(v)] = result[m]
      BY <3>2, AppendToHistory
    <3>4. Follows(v, 1, agree[m], track[m])
      BY <3>1, <3>2, FollowsSave
    <3> QED BY <3>3, <3>4
  <2> HIDE DEF v
  <2>4. CASE n # m
    <3>1. history'[n] = history[n] /\ kept'[n] = kept[n]
      BY <1>1, <2>1, <2>4
    <3> QED BY <1>4, <2>2, <3>1
  <2>5. CASE n = m /\ stored
    <3>1. history'[n] = v /\ kept'[n]
      BY <1>1, <2>1, <2>5
    <3> QED BY <2>2, <2>3, <2>5, <3>1
  <2>6. CASE n = m /\ ~stored
    <3>1. history'[n] = history[n] /\ kept'[n] = FALSE
      BY <1>1, <2>1, <2>6
    <3>2. kept[n] = FALSE
      BY <1>1, <2>2, <2>6
    <3> QED BY <1>4, <2>2, <3>1, <3>2
  <2> QED BY <2>4, <2>5, <2>6
<1>8. ASSUME NEW m \in Monitors, Observe(m) PROVE Goal
  <2> DEFINE next == MachineObserve(track[m], result[m])
             k == IF ~kept[m] THEN 0
                  ELSE IF agree[m] < FailThreshold THEN agree[m] + 1 ELSE agree[m]
  <2>1. /\ track' = [track EXCEPT ![m] = next] /\ kept' = [kept EXCEPT ![m] = FALSE]
        /\ agree' = [agree EXCEPT ![m] = k] /\ result' = [result EXCEPT ![m] = FALSE]
        /\ UNCHANGED history
    BY <1>8 DEF Observe, storeVars
  <2>2. Follows(history[m], 0, k, next)
    <3>1. CASE kept[m]
      <4>1. Follows(history[m], 1, agree[m], track[m]) /\ history[m][Len(history[m])] = result[m]
        BY <1>2, <3>1
      <4>2. k = IF agree[m] < FailThreshold THEN agree[m] + 1 ELSE agree[m]
        BY <3>1
      <4> HIDE DEF k
      <4> QED BY <1>1, <4>1, <4>2, FollowsObserve
    <3>2. CASE ~kept[m]
      <4>1. next \in Tracker
        BY <1>1, MachineObserveType DEF Bounded
      <4> HIDE DEF next
      <4> QED BY <1>1, <3>2, <4>1, FollowsNothing
    <3> QED BY <3>1, <3>2
  <2> HIDE DEF next, k
  <2>3. CASE n = m
    <3>1. track'[n] = next /\ ~kept'[n] /\ agree'[n] = k
      BY <1>1, <2>1, <2>3
    <3> QED BY <2>1, <2>2, <2>3, <3>1
  <2>4. CASE n # m
    BY <1>1, <1>4, <2>1, <2>4
  <2> QED BY <2>3, <2>4
<1>9. ASSUME Reload PROVE Goal
  <2>1. PICK new \in SUBSET Monitors : SyncTo(new)
    BY <1>9 DEF Reload
  <2>2. /\ history'[n] = IF n \in new THEN history[n] ELSE <<>>
        /\ kept'[n] = (kept[n] /\ n \in new)
        /\ agree'[n] = IF n \in new THEN agree[n] ELSE 0
        /\ UNCHANGED <<track, result>>
    BY <1>9, <2>1 DEF Reload, SyncTo, workerVars
  <2>3. CASE n \in new
    BY <1>2, <2>2, <2>3
  <2>4. CASE n \notin new
    <3>1. Follows(<<>>, 0, 0, track[n])
      BY <1>1, Empty, FollowsNothing
    <3> QED BY <2>2, <2>4, <3>1
  <2> QED BY <2>3, <2>4
<1>10. ASSUME Restart PROVE Goal
  <2>1. PICK new \in SUBSET Monitors : SyncTo(new)
    BY <1>10 DEF Restart
  <2>2. history'[n] = IF n \in new THEN history[n] ELSE <<>>
    BY <2>1 DEF SyncTo
  <2>3. history'[n] \in Seq(BOOLEAN)
    BY <1>1, <2>2, Empty
  <2>4. track'[n] = FreshTracker /\ agree'[n] = 0 /\ ~kept'[n]
    BY <1>10 DEF Restart
  <2> QED BY <2>3, <2>4, FreshBounded, FollowsNothing
<1>11. ASSUME ReadList \/ ReadFails \/ ReadState \/ (\E m \in Monitors : ReadHistory(m))
       PROVE  Goal
  BY <1>4, <1>11 DEF ReadList, ReadFails, ReadState, ReadHistory, storeVars, workerVars
<1>12. CASE UNCHANGED vars
  BY <1>4, <1>12 DEF vars, storeVars, workerVars, ghostVars
<1> HIDE DEF Goal
<1> QED BY <1>5, <1>6, <1>7, <1>8, <1>9, <1>10, <1>11, <1>12 DEF Next, Goal

LEMMA CardInvInit == Init => CardInv
BY DEF Init, CardInv, CardIsExplained

LEMMA CardInvNext == FInv /\ CardInv /\ [Next]_vars => CardInv'
<1> SUFFICES ASSUME FInv, CardInv, [Next]_vars PROVE CardInv'
  OBVIOUS
<1>1. /\ history \in [Monitors -> Seq(BOOLEAN)] /\ track \in [Monitors -> Tracker]
      /\ agree \in [Monitors -> 0 .. FailThreshold] /\ kept \in [Monitors -> BOOLEAN]
      /\ \A m \in Monitors : Bounded(track[m])
      /\ HalfDone => card.mon \in Monitors /\ card.bars \in Seq(BOOLEAN)
  BY DEF FInv, TInv, TypeOK
<1>2. HalfDone /\ owed =>
        \E o \in {0, 1} : Follows(card.bars, o, agree[card.mon], track[card.mon])
  BY DEF CardInv
\* While the card stays, it is enough that what its monitor is followed by does.
<1>3. ASSUME UNCHANGED card, owed' => owed,
             HalfDone /\ owed' => /\ agree'[card.mon] = agree[card.mon]
                                  /\ track'[card.mon] = track[card.mon]
      PROVE  CardInv'
  <2>1. HalfDone' <=> HalfDone
    BY <1>3 DEF HalfDone
  <2> QED BY <1>2, <1>3, <2>1 DEF CardInv, CardIsExplained
<1>4. ASSUME StartBatch PROVE CardInv'
  BY <1>3, <1>4 DEF StartBatch, requestVars, ghostVars
<1>5. ASSUME NEW m \in Monitors, Probe(m) \/ Save(m) PROVE CardInv'
  BY <1>3, <1>5 DEF Probe, Save, requestVars, ghostVars
<1>6. ASSUME NEW m \in Monitors, Observe(m) PROVE CardInv'
  <2>1. /\ UNCHANGED card
        /\ owed' => owed
        /\ HalfDone /\ owed' => card.mon # m
        /\ \A n \in Monitors \ {m} : agree'[n] = agree[n] /\ track'[n] = track[n]
    BY <1>1, <1>6 DEF Observe, requestVars
  <2>2. HalfDone /\ owed' => /\ agree'[card.mon] = agree[card.mon]
                             /\ track'[card.mon] = track[card.mon]
    BY <1>1, <2>1
  <2> QED BY <1>3, <2>1, <2>2
<1>7. ASSUME Reload PROVE CardInv'
  <2>1. UNCHANGED <<card, owed, track>>
    BY <1>7 DEF Reload, requestVars
  <2>2. CASE HalfDone /\ owed
    <3>1. HalfDone' /\ card.mon \in Monitors
      BY <1>1, <2>1, <2>2 DEF HalfDone
    <3>2. agree'[card.mon] = agree[card.mon] \/ agree'[card.mon] = 0
      BY <1>7, <3>1 DEF Reload
    <3>3. \E o \in {0, 1} : Follows(card.bars, o, agree'[card.mon], track[card.mon])
      <4>1. Follows(card.bars, 0, 0, track[card.mon])
        BY <1>1, <2>2, <3>1, FollowsNothing
      <4> QED BY <1>2, <2>2, <3>2, <4>1
    <3> QED BY <2>1, <3>1, <3>3 DEF CardInv, CardIsExplained
  <2>3. CASE ~(HalfDone /\ owed)
    BY <1>3, <2>1, <2>3
  <2> QED BY <2>2, <2>3
<1>8. ASSUME Restart \/ ReadList \/ ReadFails PROVE CardInv'
  <2>1. owed' = FALSE
    BY <1>8 DEF Restart, ReadList, ReadFails
  <2> QED BY <2>1 DEF CardInv, CardIsExplained
<1>9. ASSUME NEW m \in Monitors, ReadHistory(m) PROVE CardInv'
  <2>1. /\ card' = [mon |-> m, bars |-> history[m], state |-> "unread"]
        /\ UNCHANGED <<track, agree>>
    BY <1>9 DEF ReadHistory, BuildHealth
  <2>2. \E o \in {0, 1} : Follows(history[m], o, agree[m], track[m])
    BY <1>1 DEF FInv, FollowsInv
  <2>3. HalfDone'
    BY <2>1 DEF HalfDone
  <2>4. \E o \in {0, 1} : Follows(card'.bars, o, agree'[card'.mon], track'[card'.mon])
    BY <2>1, <2>2
  <2> QED BY <2>3, <2>4 DEF CardInv, CardIsExplained
<1>10. ASSUME ReadState PROVE CardInv'
  <2> DEFINE m == card.mon
             b == card.bars
             t == track[m]
  <2>1. /\ HalfDone /\ m \in Monitors /\ b \in Seq(BOOLEAN)
        /\ card' = [mon |-> m, bars |-> b, state |-> t.state]
        /\ owed' => owed /\ agree[m] = FailThreshold
    BY <1>1, <1>10 DEF ReadState, BuildHealth, StateOf
  <2>2. t \in Tracker /\ Bounded(t) /\ t.state # "unread"
    BY <1>1, <2>1 DEF Tracker, State
  <2>3. ASSUME owed' PROVE t.state \in {Verdict(b), Verdict(WithoutLast(b))}
    <3>1. PICK o \in {0, 1} : Follows(b, o, FailThreshold, t)
      BY <1>2, <2>1, <2>3
    <3> HIDE DEF t, b
    <3>2. CASE o = 0
      BY <2>1, <2>2, <3>1, <3>2, FollowsVerdict
    <3>3. CASE o = 1
      <4>1. WithoutLast(b) \in Seq(BOOLEAN) /\ Follows(WithoutLast(b), 0, FailThreshold, t)
        BY <2>1, <3>1, <3>3, FollowsWithout, Thresholds
      <4> QED BY <2>2, <4>1, FollowsVerdict
    <3> QED BY <3>1, <3>2, <3>3
  <2> HIDE DEF t, b
  <2>4. ~HalfDone' /\ card'.bars = b /\ card'.state = t.state
    BY <2>1, <2>2 DEF HalfDone
  <2> QED BY <2>3, <2>4 DEF CardInv, CardIsExplained
<1>11. CASE UNCHANGED vars
  BY <1>3, <1>11 DEF vars, requestVars, ghostVars
<1> QED BY <1>4, <1>5, <1>6, <1>7, <1>8, <1>9, <1>10, <1>11 DEF Next

(* The dashboard's cards do not contradict themselves, for every threshold   *)
(* and every longer history, whatever is probed, reloaded or restarted       *)
(* between the two reads a card is made of.                                  *)
THEOREM CardIsExplainedHolds == Spec => []CardIsExplained
<1>1. CardInv => CardIsExplained
  BY DEF CardInv
<1> QED BY FInvInit, FInvNext, CardInvInit, CardInvNext, <1>1, PTL DEF Spec
=============================================================================
