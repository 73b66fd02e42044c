------------------------ MODULE AsyncNotifier_proofs ------------------------
(***************************************************************************)
(* Theorems about AsyncNotifier, for every number of callers, of alerts and *)
(* of providers and every size of the queue.                                *)
(***************************************************************************)
EXTENDS AsyncNotifier, SequenceTheorems, FiniteSetTheorems, TLAPS

-----------------------------------------------------------------------------
(* The lock.  NoPanic rests on all of this: who is between the check of      *)
(* closed and the send reads under the lock, who closes the channel writes   *)
(* under it, and closed tells the former that the latter has been there.     *)

Critical == {"lock", "flag", "close", "unlock"}

LockInv ==
  /\ \A p \in Producers : ppc[p] \in {"check", "send"} => p \in readers
  /\ \A p \in Producers : ppc[p] = "send" => ~closed
  /\ \A c \in Closers : cpc[c] \in Critical => writer = c
  /\ \A c \in Closers : cpc[c] \in Critical \ {"lock"} => readers = {}
  /\ \A c \in Closers : cpc[c] = "close" => closed /\ ~chClosed
  /\ chClosed => closed

\* What each goroutine holds.
HoldInv ==
  /\ \A p \in Producers : ppc[p] # "idle" => alert[p] \in Alerts
  /\ wpc = "deliver" => hand \in Alerts
  /\ wpc # "deliver" => child = 1

AInv == TypeOK /\ HoldInv /\ LockInv

LEMMA AInvInit == Init => AInv
<1>1. <<>> \in Seq(Alerts) /\ Len(<<>>) = 0 /\ 1 \in Children
  BY EmptySeq, ChildrenAssumption DEF Children
<1>2. Init => TypeOK
  <2>1. [k \in Children |-> <<>>] \in [Children -> Seq(Alerts)]
    BY <1>1
  <2>2. Init => queue \in Seq(Alerts) /\ Len(queue) <= Cap
    <3>1. 0 <= Cap
      BY CapAssumption
    <3> QED BY <1>1, <3>1 DEF Init
  <2>3. Init => delivered \in [Children -> Seq(Alerts)] /\ child \in Children
    BY <1>1, <2>1 DEF Init
  <2>4. Init => /\ ppc \in [Producers -> {"idle", "rlock", "check", "send"}]
                /\ alert \in [Producers -> Alerts \union {NoAlert}]
                /\ cpc \in [Closers -> {"idle", "lock", "flag", "close", "unlock", "wait",
                                        "nil", "drainIncomplete"}]
                /\ outcome \in [Alerts -> {"unraised", "pending", "nil", "ErrQueueFull",
                                           "ErrClosed"}]
    BY DEF Init
  <2> QED BY <2>2, <2>3, <2>4 DEF Init, TypeOK
<1>3. Init => HoldInv /\ LockInv
  BY DEF Init, HoldInv, LockInv, Critical
<1> QED BY <1>2, <1>3 DEF AInv

LEMMA LockNext == AInv /\ [Next]_vars => LockInv'
<1> SUFFICES ASSUME AInv, [Next]_vars PROVE LockInv'
  OBVIOUS
<1> USE NobodyAssumption DEF AInv, TypeOK, LockInv, Critical
<1>1. ASSUME NEW p \in Producers, NEW e \in Alerts, CallNotify(p, e) PROVE LockInv'
  BY <1>1 DEF CallNotify, lockVars
<1>2. ASSUME NEW p \in Producers, RLock(p) PROVE LockInv'
  BY <1>2 DEF RLock
<1>3. ASSUME NEW p \in Producers, CheckClosed(p) PROVE LockInv'
  BY <1>3 DEF CheckClosed, Return, lockVars
<1>4. ASSUME NEW p \in Producers, TrySend(p) PROVE LockInv'
  <2>1. /\ ppc' = [ppc EXCEPT ![p] = "idle"] /\ readers' = readers \ {p}
        /\ UNCHANGED <<cpc, writer, closed, chClosed>>
    BY <1>4 DEF TrySend, Return
  <2> QED BY <2>1
<1>5. ASSUME NEW c \in Closers, CallClose(c) PROVE LockInv'
  BY <1>5 DEF CallClose, producerVars
<1>6. ASSUME NEW c \in Closers, Lock(c) PROVE LockInv'
  BY <1>6 DEF Lock, producerVars, lockVars
<1>7. ASSUME NEW c \in Closers, SetClosed(c) PROVE LockInv'
  BY <1>7 DEF SetClosed, producerVars
<1>8. ASSUME NEW c \in Closers, CloseQueue(c) PROVE LockInv'
  BY <1>8 DEF CloseQueue, producerVars, lockVars
<1>9. ASSUME NEW c \in Closers, Unlock(c) PROVE LockInv'
  BY <1>9 DEF Unlock, producerVars
<1>10. ASSUME NEW c \in Closers, Drained(c) \/ DeadlineExpired(c) PROVE LockInv'
  BY <1>10 DEF Drained, DeadlineExpired, producerVars, lockVars
<1>11. ASSUME Receive \/ DeliverToChild \/ WorkerExit PROVE LockInv'
  BY <1>11 DEF Receive, DeliverToChild, WorkerExit, producerVars, lockVars
<1>12. CASE UNCHANGED vars
  BY <1>12 DEF vars, producerVars, lockVars
<1> QED BY <1>1, <1>2, <1>3, <1>4, <1>5, <1>6, <1>7, <1>8, <1>9, <1>10, <1>11, <1>12
        DEF Next, ProducerStep, CloserStep

LEMMA TypeNext == AInv /\ [Next]_vars => (TypeOK /\ HoldInv)'
<1> SUFFICES ASSUME AInv, [Next]_vars PROVE (TypeOK /\ HoldInv)'
  OBVIOUS
<1> USE DEF AInv, TypeOK, HoldInv
<1>1. ASSUME NEW p \in Producers, NEW e \in Alerts, CallNotify(p, e)
      PROVE  (TypeOK /\ HoldInv)'
  BY <1>1 DEF CallNotify, lockVars, workerVars
<1>2. ASSUME NEW p \in Producers, RLock(p) PROVE (TypeOK /\ HoldInv)'
  BY <1>2 DEF RLock, workerVars
<1>3. ASSUME NEW p \in Producers, CheckClosed(p) PROVE (TypeOK /\ HoldInv)'
  BY <1>3 DEF CheckClosed, Return, lockVars, workerVars
<1>4. ASSUME NEW p \in Producers, TrySend(p) PROVE (TypeOK /\ HoldInv)'
  <2>1. alert[p] \in Alerts /\ Len(queue) \in Nat
    <3>1. Len(queue) \in Nat
      BY LenProperties
    <3>2. alert[p] \in Alerts
      BY <1>4 DEF TrySend
    <3> QED BY <3>1, <3>2
  <2>2. /\ Append(queue, alert[p]) \in Seq(Alerts)
        /\ Len(Append(queue, alert[p])) = Len(queue) + 1
    BY <2>1, AppendProperties
  <2>3. queue' \in Seq(Alerts) /\ Len(queue') <= Cap
    <3>1. CASE Len(queue) < Cap /\ queue' = Append(queue, alert[p])
      <4>1. Len(queue) + 1 <= Cap
        BY <2>1, <3>1, CapAssumption
      <4> QED BY <2>2, <3>1, <4>1
    <3>2. CASE queue' = queue
      BY <3>2
    <3> QED BY <1>4, <3>1, <3>2 DEF TrySend
  <2>4. outcome' \in [Alerts -> {"unraised", "pending", "nil", "ErrQueueFull", "ErrClosed"}]
    BY <1>4 DEF TrySend, Return
  <2>5. /\ ppc' = [ppc EXCEPT ![p] = "idle"] /\ alert' = [alert EXCEPT ![p] = NoAlert]
        /\ readers' = readers \ {p} /\ UNCHANGED <<cpc, writer, closed, chClosed, workerVars>>
    BY <1>4 DEF TrySend, Return
  <2> QED BY <2>3, <2>4, <2>5 DEF workerVars
<1>5. ASSUME NEW c \in Closers,
             CallClose(c) \/ Lock(c) \/ SetClosed(c) \/ CloseQueue(c) \/ Unlock(c)
               \/ Drained(c) \/ DeadlineExpired(c)
      PROVE  (TypeOK /\ HoldInv)'
  BY <1>5 DEF CallClose, Lock, SetClosed, CloseQueue, Unlock, Drained, DeadlineExpired,
              producerVars, lockVars, workerVars
<1>6. ASSUME Receive PROVE (TypeOK /\ HoldInv)'
  <2>1. Head(queue) \in Alerts /\ Tail(queue) \in Seq(Alerts)
    BY <1>6, HeadTailProperties DEF Receive
  <2>2. Len(Tail(queue)) <= Cap
    <3>1. Len(Tail(queue)) = Len(queue) - 1 /\ Len(queue) \in Nat
      BY <1>6, HeadTailProperties, LenProperties DEF Receive
    <3> QED BY <3>1, CapAssumption
  <2> QED BY <1>6, <2>1, <2>2 DEF Receive, producerVars, lockVars
<1>7. ASSUME DeliverToChild PROVE (TypeOK /\ HoldInv)'
  <2>1. delivered' \in [Children -> Seq(Alerts)]
    <3>1. Append(delivered[child], hand) \in Seq(Alerts)
      BY <1>7, AppendProperties DEF DeliverToChild
    <3> QED BY <1>7, <3>1 DEF DeliverToChild
  <2>2. /\ child' \in Children
        /\ wpc' \in {"recv", "deliver"} /\ hand' \in Alerts \union {NoAlert}
        /\ wpc' = "deliver" => hand' \in Alerts
        /\ wpc' # "deliver" => child' = 1
    BY <1>7, ChildrenAssumption DEF DeliverToChild, Children
  <2>3. UNCHANGED <<producerVars, cpc, lockVars, queue, chClosed>>
    BY <1>7 DEF DeliverToChild
  <2> QED BY <2>1, <2>2, <2>3 DEF producerVars, lockVars
<1>8. ASSUME WorkerExit PROVE (TypeOK /\ HoldInv)'
  BY <1>8 DEF WorkerExit, producerVars, lockVars
<1>9. CASE UNCHANGED vars
  BY <1>9 DEF vars, producerVars, lockVars, workerVars
<1> QED BY <1>1, <1>2, <1>3, <1>4, <1>5, <1>6, <1>7, <1>8, <1>9
        DEF Next, ProducerStep, CloserStep

LEMMA AInvNext == AInv /\ [Next]_vars => AInv'
BY LockNext, TypeNext DEF AInv

(* Every value stays in its type, for every queue size and fan-out.         *)
THEOREM TypeCorrect == Spec => []TypeOK
<1>1. AInv => TypeOK
  BY DEF AInv
<1> QED BY AInvInit, AInvNext, <1>1, PTL DEF Spec

(* However many workers raise alerts while however many shutdown paths close *)
(* the queue: nothing is sent on the closed channel, which is closed once.   *)
THEOREM NeverPanics == Spec => []NoPanic
<1>1. AInv => NoPanic
  BY DEF AInv, LockInv, NoPanic
<1> QED BY AInvInit, AInvNext, <1>1, PTL DEF Spec

-----------------------------------------------------------------------------
(* Sequences: what was handed over, what is in hand, what is queued.         *)

LEMMA TakeHead ==
  ASSUME NEW S, NEW d \in Seq(S), NEW q \in Seq(S), q # <<>>
  PROVE  (d \o <<>>) \o q = (d \o <<Head(q)>>) \o Tail(q)
<1> DEFINE one == <<Head(q)>>
           rest == Tail(q)
<1>1. /\ Head(q) \in S /\ rest \in Seq(S) /\ Len(rest) = Len(q) - 1
      /\ \A i \in 1 .. Len(rest) : rest[i] = q[i + 1]
      /\ Len(q) \in Nat \ {0} /\ Head(q) = q[1]
  BY HeadTailProperties, EmptySeq
<1>2. one \in Seq(S) /\ Len(one) = 1 /\ one[1] = q[1]
  BY <1>1
<1> HIDE DEF one, rest
<1>3. /\ one \o rest \in Seq(S) /\ Len(one \o rest) = Len(one) + Len(rest)
      /\ \A i \in 1 .. Len(one) + Len(rest) :
           (one \o rest)[i] = IF i <= Len(one) THEN one[i] ELSE rest[i - Len(one)]
  BY <1>1, <1>2, ConcatProperties
<1>4. Len(one \o rest) = Len(q) /\ \A i \in 1 .. Len(q) : (one \o rest)[i] = q[i]
  BY <1>1, <1>2, <1>3
<1>5. one \o rest = q
  BY <1>3, <1>4, SeqEqual
<1>6. (d \o one) \o rest = d \o q
  <2>1. one \in Seq(S) /\ rest \in Seq(S)
    BY <1>1, <1>2
  <2>2. (d \o one) \o rest = d \o (one \o rest)
    BY <2>1, ConcatAssociative, SMTT(30)
  <2> QED BY <1>5, <2>2
<1>7. (d \o <<>>) \o q = d \o q
  BY ConcatEmptySeq
<1> QED BY <1>6, <1>7 DEF one, rest

LEMMA AddToQueue ==
  ASSUME NEW S, NEW d \in Seq(S), NEW h \in Seq(S), NEW q \in Seq(S), NEW e \in S
  PROVE  (d \o h) \o Append(q, e) = Append((d \o h) \o q, e)
<1>1. /\ Append(q, e) = q \o <<e>> /\ <<e>> \in Seq(S)
      /\ d \o h \in Seq(S) /\ (d \o h) \o q \in Seq(S)
  BY AppendIsConcat, ConcatProperties
<1>2. (d \o h) \o (q \o <<e>>) = ((d \o h) \o q) \o <<e>>
  BY <1>1, ConcatAssociative
<1>3. Append((d \o h) \o q, e) = ((d \o h) \o q) \o <<e>>
  BY <1>1, AppendIsConcat
<1> QED BY <1>1, <1>2, <1>3

LEMMA HandOver ==
  ASSUME NEW S, NEW d \in Seq(S), NEW q \in Seq(S), NEW e \in S
  PROVE  (d \o <<e>>) \o q = (Append(d, e) \o <<>>) \o q
<1>1. Append(d, e) = d \o <<e>> /\ Append(d, e) \in Seq(S)
  BY AppendIsConcat, AppendProperties
<1>2. Append(d, e) \o <<>> = Append(d, e)
  BY <1>1, ConcatEmptySeq
<1> QED BY <1>1, <1>2

InHand == IF wpc = "deliver" THEN <<hand>> ELSE <<>>
Last == delivered[NumChildren]

LEMMA AcceptedType ==
  ASSUME AInv
  PROVE  /\ Accepted \in Seq(Alerts) /\ Accepted = (Last \o InHand) \o queue
         /\ Last \in Seq(Alerts) /\ InHand \in Seq(Alerts) /\ queue \in Seq(Alerts)
         /\ Len(Last) \in Nat /\ Len(queue) \in Nat
         /\ Len(Accepted) = Len(Last) + Len(InHand) + Len(queue)
         /\ Len(InHand) = IF wpc = "deliver" THEN 1 ELSE 0
         /\ wpc = "deliver" => Accepted[Len(Last) + 1] = hand
<1>1. /\ Last \in Seq(Alerts) /\ queue \in Seq(Alerts)
      /\ wpc = "deliver" => hand \in Alerts
  BY ChildrenAssumption DEF AInv, TypeOK, HoldInv, Last, Children
<1>2. /\ InHand \in Seq(Alerts) /\ Len(InHand) = IF wpc = "deliver" THEN 1 ELSE 0
      /\ wpc = "deliver" => InHand[1] = hand
  <2>1. CASE wpc = "deliver"
    <3>1. <<hand>> \in Seq(Alerts) /\ Len(<<hand>>) = 1 /\ <<hand>>[1] = hand
      BY <1>1, <2>1
    <3> QED BY <2>1, <3>1 DEF InHand
  <2>2. CASE wpc # "deliver"
    BY <2>2, EmptySeq DEF InHand
  <2> QED BY <2>1, <2>2
<1>3. Accepted = (Last \o InHand) \o queue
  BY DEF Accepted, Last, InHand
<1>4. /\ Last \o InHand \in Seq(Alerts)
      /\ Len(Last \o InHand) = Len(Last) + Len(InHand)
      /\ \A i \in 1 .. Len(Last) + Len(InHand) :
           (Last \o InHand)[i] = IF i <= Len(Last) THEN Last[i] ELSE InHand[i - Len(Last)]
  BY <1>1, <1>2, ConcatProperties
<1>5. /\ Accepted \in Seq(Alerts)
      /\ Len(Accepted) = Len(Last \o InHand) + Len(queue)
      /\ \A i \in 1 .. Len(Last \o InHand) + Len(queue) :
           Accepted[i] = IF i <= Len(Last \o InHand) THEN (Last \o InHand)[i]
                         ELSE queue[i - Len(Last \o InHand)]
  BY <1>1, <1>3, <1>4, ConcatProperties
<1>6. Len(Last) \in Nat /\ Len(queue) \in Nat
  BY <1>1, LenProperties
<1>7. wpc = "deliver" => Accepted[Len(Last) + 1] = hand
  BY <1>2, <1>4, <1>5, <1>6
<1> QED BY <1>1, <1>2, <1>3, <1>4, <1>5, <1>6, <1>7

\* The alert that a successful send appends.
Sends(p) == /\ ppc[p] = "send" /\ Len(queue) < Cap
            /\ queue' = Append(queue, alert[p]) /\ Return(p, "nil")

(* The one step that changes what is accepted is a send that finds room:     *)
(* receiving an alert and handing it over only move it along.                *)
LEMMA AcceptedSteps ==
  ASSUME AInv, [Next]_vars
  PROVE  \/ \E p \in Producers : Sends(p) /\ Accepted' = Append(Accepted, alert[p])
         \/ Accepted' = Accepted /\ ~ \E p \in Producers : Sends(p)
<1>1. /\ Accepted = (Last \o InHand) \o queue
      /\ Last \in Seq(Alerts) /\ InHand \in Seq(Alerts) /\ queue \in Seq(Alerts)
      /\ Len(queue) \in Nat
  BY AcceptedType
<1>2. Accepted' = (Last' \o InHand') \o queue'
  BY DEF Accepted, Last, InHand
<1>3. ASSUME NEW p \in Producers, Sends(p)
      PROVE  Accepted' = Append(Accepted, alert[p])
  <2>1. alert[p] \in Alerts
    BY <1>3 DEF Sends, AInv, HoldInv
  <2>2. Last' = Last /\ InHand' = InHand /\ queue' = Append(queue, alert[p])
    BY <1>3 DEF Sends, Return, workerVars, Last, InHand
  <2> QED BY <1>1, <1>2, <2>1, <2>2, AddToQueue
<1>4. ASSUME Receive PROVE Accepted' = Accepted
  <2>1. /\ queue # <<>> /\ Last' = Last /\ queue' = Tail(queue)
        /\ InHand = <<>> /\ InHand' = <<Head(queue)>>
    BY <1>4 DEF Receive, Last, InHand
  <2> QED BY <1>1, <1>2, <2>1, TakeHead
<1>5. ASSUME DeliverToChild PROVE Accepted' = Accepted
  <2>1. /\ wpc = "deliver" /\ queue' = queue
        /\ delivered' = [delivered EXCEPT ![child] = Append(@, hand)]
        /\ child \in Children /\ delivered \in [Children -> Seq(Alerts)] /\ hand \in Alerts
    BY <1>5 DEF DeliverToChild, AInv, TypeOK, HoldInv
  <2>2. CASE child < NumChildren
    <3>1. Last' = Last
      BY <2>1, <2>2, ChildrenAssumption DEF Last, Children
    <3>2. InHand' = InHand
      BY <1>5, <2>2 DEF DeliverToChild, InHand
    <3> QED BY <1>1, <1>2, <2>1, <3>1, <3>2
  <2>3. CASE ~(child < NumChildren)
    <3>1. child = NumChildren
      BY <2>1, <2>3, ChildrenAssumption DEF Children
    <3>2. Last' = Append(Last, hand)
      BY <2>1, <3>1 DEF Last
    <3>3. InHand = <<hand>> /\ InHand' = <<>>
      BY <1>5, <2>1, <2>3 DEF DeliverToChild, InHand
    <3> QED BY <1>1, <1>2, <2>1, <3>2, <3>3, HandOver
  <2> QED BY <2>2, <2>3
<1>6. ASSUME UNCHANGED <<queue, wpc, hand, delivered>> PROVE Accepted' = Accepted
  BY <1>6 DEF Accepted
<1>7. (\E p \in Producers : Sends(p)) \/ UNCHANGED <<queue, wpc, hand, delivered>>
        \/ Receive \/ DeliverToChild \/ WorkerExit
  <2>1. ASSUME NEW p \in Producers, TrySend(p)
        PROVE  Sends(p) \/ UNCHANGED <<queue, wpc, hand, delivered>>
    BY <2>1 DEF TrySend, Sends, Return, workerVars
  <2>2. ASSUME NEW p \in Producers, NEW e \in Alerts, CallNotify(p, e)
        PROVE  UNCHANGED <<queue, wpc, hand, delivered>>
    BY <2>2 DEF CallNotify, workerVars
  <2>3. ASSUME NEW p \in Producers, RLock(p) \/ CheckClosed(p)
        PROVE  UNCHANGED <<queue, wpc, hand, delivered>>
    BY <2>3 DEF RLock, CheckClosed, Return, workerVars
  <2>4. ASSUME NEW c \in Closers,
               CallClose(c) \/ CloserStep(c) \/ Drained(c) \/ DeadlineExpired(c)
        PROVE  UNCHANGED <<queue, wpc, hand, delivered>>
    BY <2>4 DEF CallClose, CloserStep, Lock, SetClosed, CloseQueue, Unlock, Drained,
                DeadlineExpired, workerVars
  <2>5. UNCHANGED vars => UNCHANGED <<queue, wpc, hand, delivered>>
    BY DEF vars, workerVars
  <2> QED BY <2>1, <2>2, <2>3, <2>4, <2>5 DEF Next, ProducerStep
<1>8. ASSUME WorkerExit PROVE Accepted' = Accepted
  BY <1>8 DEF WorkerExit, Accepted
<1>9. CASE \E p \in Producers : Sends(p)
  BY <1>3, <1>9
<1>10. CASE ~ \E p \in Producers : Sends(p)
  BY <1>4, <1>5, <1>6, <1>7, <1>8, <1>10
<1> QED BY <1>9, <1>10

-----------------------------------------------------------------------------
(* The fan-out.  The worker calls the providers in order: those before child *)
(* have the alert in hand, the others do not have it yet.                    *)

FanInv ==
  \A k \in Children :
    delivered[k] = IF wpc = "deliver" /\ k < child THEN Append(Last, hand) ELSE Last

RInv == AInv /\ FanInv

LEMMA RInvInit == Init => RInv
<1>1. Init => FanInv
  BY ChildrenAssumption DEF Init, FanInv, Last, Children
<1> QED BY <1>1, AInvInit DEF RInv

LEMMA RInvNext == RInv /\ [Next]_vars => RInv'
<1> SUFFICES ASSUME RInv, [Next]_vars PROVE FanInv'
  BY AInvNext DEF RInv
<1>1. /\ AInv /\ delivered \in [Children -> Seq(Alerts)] /\ child \in Children
      /\ \A k \in Children : k \in Nat /\ k <= NumChildren
      /\ NumChildren \in Children /\ child \in Nat
  BY ChildrenAssumption DEF RInv, AInv, TypeOK, Children
<1>2. \A k \in Children :
        delivered[k] = IF wpc = "deliver" /\ k < child THEN Append(Last, hand) ELSE Last
  BY DEF RInv, FanInv
<1>3. ASSUME UNCHANGED <<wpc, hand, child, delivered>> PROVE FanInv'
  BY <1>2, <1>3 DEF FanInv, Last
<1>4. ASSUME Receive PROVE FanInv'
  <2>1. child = 1 /\ UNCHANGED <<child, delivered>> /\ wpc # "deliver"
    BY <1>1, <1>4 DEF Receive, AInv, HoldInv
  <2>2. \A k \in Children : ~(k < child')
    BY <2>1 DEF Children
  <2> QED BY <1>2, <2>1, <2>2 DEF FanInv, Last
<1>5. ASSUME DeliverToChild PROVE FanInv'
  <2>1. /\ wpc = "deliver"
        /\ delivered' = [delivered EXCEPT ![child] = Append(@, hand)]
    BY <1>5 DEF DeliverToChild
  <2>2. delivered[child] = Last
    BY <1>1, <1>2
  <2>3. \A k \in Children :
          delivered'[k] = IF k = child \/ k < child THEN Append(Last, hand) ELSE Last
    BY <1>1, <1>2, <2>1, <2>2
  <2>4. CASE child < NumChildren
    <3>1. child' = child + 1 /\ UNCHANGED <<wpc, hand>>
      BY <1>5, <2>4 DEF DeliverToChild
    <3>2. Last' = Last
      BY <1>1, <2>1, <2>4 DEF Last
    <3>3. \A k \in Children : k < child + 1 <=> k = child \/ k < child
      BY <1>1
    <3> QED BY <2>1, <2>3, <3>1, <3>2, <3>3 DEF FanInv
  <2>5. CASE ~(child < NumChildren)
    <3>1. wpc' = "recv"
      BY <1>5, <2>5 DEF DeliverToChild
    <3>2. \A k \in Children : k = child \/ k < child
      BY <1>1, <2>5
    <3>3. \A k \in Children : delivered'[k] = Append(Last, hand)
      BY <2>3, <3>2
    <3>4. Last' = Append(Last, hand)
      BY <1>1, <3>3 DEF Last
    <3> QED BY <3>1, <3>3, <3>4 DEF FanInv
  <2> QED BY <2>4, <2>5
<1>6. ASSUME WorkerExit PROVE FanInv'
  BY <1>2, <1>6 DEF WorkerExit, FanInv, Last
<1>7. UNCHANGED <<wpc, hand, child, delivered>> \/ Receive \/ DeliverToChild \/ WorkerExit
  BY DEF Next, CallNotify, ProducerStep, RLock, CheckClosed, TrySend, Return,
         CallClose, CloserStep, Lock, SetClosed, CloseQueue, Unlock, Drained,
         DeadlineExpired, vars, workerVars
<1> QED BY <1>3, <1>4, <1>5, <1>6, <1>7

-----------------------------------------------------------------------------
(* Refinement of AlertQueue.                                                 *)

LEMMA PromiseStep == RInv /\ [Next]_vars => [Promise!Next]_(Promise!vars)
<1> SUFFICES ASSUME RInv, [Next]_vars PROVE [Promise!Next]_(Promise!vars)
  OBVIOUS
<1>1. AInv /\ delivered \in [Children -> Seq(Alerts)] /\ child \in Children
  BY DEF RInv, AInv, TypeOK
<1>2. \A k \in Children :
        delivered[k] = IF wpc = "deliver" /\ k < child THEN Append(Last, hand) ELSE Last
  BY DEF RInv, FanInv
<1>3. /\ Last \in Seq(Alerts) /\ Len(Last) \in Nat /\ Len(queue) \in Nat
      /\ Len(Accepted) = Len(Last) + Len(InHand) + Len(queue)
      /\ Len(InHand) = IF wpc = "deliver" THEN 1 ELSE 0
      /\ wpc = "deliver" => Accepted[Len(Last) + 1] = hand
  BY <1>1, AcceptedType
<1>4. ASSUME NEW p \in Producers, Sends(p), Accepted' = Append(Accepted, alert[p])
      PROVE  Promise!Accept(alert[p]) /\ alert[p] \in Alerts
  <2>1. alert[p] \in Alerts /\ ~closed
    BY <1>1, <1>4 DEF Sends, AInv, HoldInv, LockInv
  <2>2. \A k \in Children : Len(delivered[k]) \in Nat /\ Len(delivered[k]) >= Len(Last)
    <3>1. ASSUME wpc = "deliver" PROVE Len(Append(Last, hand)) = Len(Last) + 1
      <4>1. hand \in Alerts
        BY <1>1, <3>1 DEF AInv, HoldInv
      <4> QED BY <1>3, <4>1, AppendProperties
    <3>2. SUFFICES ASSUME NEW k \in Children
                   PROVE  Len(delivered[k]) \in Nat /\ Len(delivered[k]) >= Len(Last)
      OBVIOUS
    <3>3. CASE wpc = "deliver" /\ k < child
      <4>1. delivered[k] = Append(Last, hand)
        BY <1>2, <3>3
      <4>2. Len(delivered[k]) = Len(Last) + 1
        BY <3>1, <3>3, <4>1
      <4> QED BY <1>3, <4>2
    <3>4. CASE ~(wpc = "deliver" /\ k < child)
      <4>1. delivered[k] = Last
        BY <1>2, <3>4
      <4> QED BY <1>3, <4>1
    <3> QED BY <3>3, <3>4
  <2>3. \A k \in Children : Len(Accepted) <= Len(delivered[k]) + Cap
    BY <1>3, <1>4, <2>2, CapAssumption DEF Sends
  <2>4. UNCHANGED <<delivered, closed>>
    BY <1>4 DEF Sends, Return, workerVars
  <2> QED BY <1>4, <2>1, <2>3, <2>4 DEF Promise!Accept
<1>5. ASSUME Accepted' = Accepted, DeliverToChild PROVE Promise!Deliver(child)
  <2>1. /\ wpc = "deliver" /\ UNCHANGED closed
        /\ delivered' = [delivered EXCEPT ![child] = Append(@, hand)]
    BY <1>5 DEF DeliverToChild, lockVars
  <2>2. delivered[child] = Last
    <3>1. ~(child < child)
      BY <1>1 DEF Children
    <3> QED BY <1>1, <1>2, <3>1
  <2>3. Len(Last) < Len(Accepted)
    BY <1>3, <2>1
  <2>4. Accepted[Len(delivered[child]) + 1] = hand
    BY <1>3, <2>1, <2>2
  <2> QED BY <1>5, <2>1, <2>2, <2>3, <2>4 DEF Promise!Deliver
<1>6. ASSUME Accepted' = Accepted, NEW c \in Closers, SetClosed(c)
      PROVE  Promise!Close \/ UNCHANGED Promise!vars
  <2>1. closed' = TRUE /\ UNCHANGED delivered
    BY <1>6 DEF SetClosed, workerVars
  <2>2. CASE closed
    <3>1. (~closed)' = ~closed
      BY <2>1, <2>2
    <3> QED BY <1>6, <2>1, <3>1 DEF Promise!vars
  <2>3. CASE ~closed
    <3>1. (~closed)' = FALSE
      BY <2>1
    <3> QED BY <1>6, <2>1, <2>3, <3>1 DEF Promise!Close
  <2> QED BY <2>2, <2>3
<1>7. ASSUME Accepted' = Accepted, UNCHANGED <<delivered, closed>>
      PROVE  UNCHANGED Promise!vars
  BY <1>7 DEF Promise!vars
<1>8. \/ UNCHANGED <<delivered, closed>>
      \/ \E p \in Producers : Sends(p)
      \/ DeliverToChild
      \/ \E c \in Closers : SetClosed(c)
  BY DEF Next, CallNotify, ProducerStep, RLock, CheckClosed, TrySend, Sends, Return,
         CallClose, CloserStep, Lock, CloseQueue, Unlock, Drained, DeadlineExpired,
         Receive, WorkerExit, vars, lockVars, workerVars
<1> QED BY <1>1, <1>4, <1>5, <1>6, <1>7, <1>8, AcceptedSteps DEF Promise!Next

(* The lock, the channel and the worker implement the queue their callers    *)
(* were promised: accepted alerts reach every provider once, in order.       *)
THEOREM KeepsPromiseHolds == Spec => KeepsPromise
<1>1. Init => Promise!Init
  <2> SUFFICES ASSUME Init PROVE Promise!Init
    OBVIOUS
  <2>1. Accepted = <<>>
    <3>1. delivered[NumChildren] = <<>>
      BY ChildrenAssumption DEF Init, Children
    <3> QED BY <3>1 DEF Init, Accepted
  <2> QED BY <2>1 DEF Init, Promise!Init
<1> QED BY RInvInit, RInvNext, PromiseStep, <1>1, PTL DEF Spec, KeepsPromise, Promise!Spec

-----------------------------------------------------------------------------
(* The answers of Notify.  An alert is raised once, so only one goroutine    *)
(* holds it while its outcome is pending, and it has not been accepted yet.  *)

HolderInv ==
  /\ \A p \in Producers : ppc[p] # "idle" => outcome[alert[p]] = "pending"
  /\ \A p, q \in Producers :
       ppc[p] # "idle" /\ ppc[q] # "idle" /\ alert[p] = alert[q] => p = q

AnswerInv ==
  /\ \A i, j \in 1 .. Len(Accepted) : Accepted[i] = Accepted[j] => i = j
  /\ \A e \in Alerts :
       outcome[e] = "nil" <=> \E i \in 1 .. Len(Accepted) : Accepted[i] = e

OInv == AInv /\ HolderInv /\ AnswerInv

\* Notify answers with an error.
Refused(p) == /\ ppc[p] # "idle"
              /\ Return(p, "ErrClosed") \/ Return(p, "ErrQueueFull")

\* A step inside Notify, or outside.
InsideNotify == /\ UNCHANGED <<alert, outcome>>
                /\ \A p \in Producers : ppc'[p] # "idle" <=> ppc[p] # "idle"

LEMMA ProducerSteps ==
  ASSUME AInv, [Next]_vars
  PROVE  \/ \E p \in Producers, e \in Alerts : CallNotify(p, e)
         \/ \E p \in Producers : Sends(p) \/ Refused(p)
         \/ InsideNotify
<1> USE DEF AInv, TypeOK
<1>1. ASSUME NEW p \in Producers, RLock(p) PROVE InsideNotify
  BY <1>1 DEF RLock, InsideNotify
<1>2. ASSUME NEW p \in Producers, CheckClosed(p) PROVE Refused(p) \/ InsideNotify
  <2>1. CASE closed
    BY <1>2, <2>1 DEF CheckClosed, Refused
  <2>2. CASE ~closed
    BY <1>2, <2>2 DEF CheckClosed, InsideNotify
  <2> QED BY <2>1, <2>2
<1>3. ASSUME NEW p \in Producers, TrySend(p) PROVE Sends(p) \/ Refused(p)
  BY <1>3 DEF TrySend, Sends, Refused
<1>4. ASSUME NEW c \in Closers,
             CallClose(c) \/ CloserStep(c) \/ Drained(c) \/ DeadlineExpired(c)
      PROVE  InsideNotify
  BY <1>4 DEF CallClose, CloserStep, Lock, SetClosed, CloseQueue, Unlock, Drained,
              DeadlineExpired, producerVars, InsideNotify
<1>5. ASSUME Receive \/ DeliverToChild \/ WorkerExit \/ UNCHANGED vars PROVE InsideNotify
  BY <1>5 DEF Receive, DeliverToChild, WorkerExit, vars, producerVars, InsideNotify
<1> QED BY <1>1, <1>2, <1>3, <1>4, <1>5 DEF Next, ProducerStep

LEMMA HolderNext == AInv /\ HolderInv /\ [Next]_vars => HolderInv'
<1> SUFFICES ASSUME AInv, HolderInv, [Next]_vars PROVE HolderInv'
  OBVIOUS
<1>1. /\ ppc \in [Producers -> {"idle", "rlock", "check", "send"}]
      /\ alert \in [Producers -> Alerts \union {NoAlert}]
      /\ outcome \in [Alerts -> {"unraised", "pending", "nil", "ErrQueueFull", "ErrClosed"}]
      /\ \A p \in Producers : ppc[p] # "idle" => alert[p] \in Alerts
  BY DEF AInv, TypeOK, HoldInv
<1>2. ASSUME NEW p \in Producers, NEW e \in Alerts, CallNotify(p, e) PROVE HolderInv'
  <2>1. /\ ppc' = [ppc EXCEPT ![p] = "rlock"] /\ alert' = [alert EXCEPT ![p] = e]
        /\ outcome' = [outcome EXCEPT ![e] = "pending"] /\ outcome[e] = "unraised"
    BY <1>2 DEF CallNotify
  <2>2. \A q \in Producers : ppc[q] # "idle" => alert[q] # e
    BY <2>1 DEF HolderInv
  <2> QED BY <1>1, <2>1, <2>2 DEF HolderInv
<1>3. ASSUME NEW p \in Producers, NEW o, ppc[p] # "idle", Return(p, o) PROVE HolderInv'
  <2>1. /\ ppc' = [ppc EXCEPT ![p] = "idle"] /\ alert' = [alert EXCEPT ![p] = NoAlert]
        /\ outcome' = [outcome EXCEPT ![alert[p]] = o]
    BY <1>3 DEF Return
  <2>2. \A q \in Producers : ppc[q] # "idle" /\ q # p => alert[q] # alert[p]
    BY <1>3 DEF HolderInv
  <2> QED BY <1>1, <1>3, <2>1, <2>2 DEF HolderInv
<1>4. ASSUME InsideNotify PROVE HolderInv'
  BY <1>4 DEF InsideNotify, HolderInv
<1>5. \A p \in Producers : Sends(p) => ppc[p] # "idle" /\ Return(p, "nil")
  BY DEF Sends
<1> QED BY <1>2, <1>3, <1>4, <1>5, ProducerSteps DEF Refused

LEMMA OInvNext == OInv /\ [Next]_vars => OInv'
<1> SUFFICES ASSUME OInv, [Next]_vars PROVE AnswerInv'
  BY AInvNext, HolderNext DEF OInv
<1>1. /\ AInv /\ HolderInv
      /\ outcome \in [Alerts -> {"unraised", "pending", "nil", "ErrQueueFull", "ErrClosed"}]
      /\ \A p \in Producers : ppc[p] # "idle" => alert[p] \in Alerts
      /\ Accepted \in Seq(Alerts) /\ Len(Accepted) \in Nat
  BY AcceptedType, LenProperties DEF OInv, AInv, TypeOK, HoldInv
<1>2. /\ \A i, j \in 1 .. Len(Accepted) : Accepted[i] = Accepted[j] => i = j
      /\ \A e \in Alerts :
           outcome[e] = "nil" <=> \E i \in 1 .. Len(Accepted) : Accepted[i] = e
  BY DEF OInv, AnswerInv
<1>3. ASSUME NEW p \in Producers, Sends(p), Accepted' = Append(Accepted, alert[p])
      PROVE  AnswerInv'
  <2> DEFINE a == alert[p]
             n == Len(Accepted)
  <2>1. /\ a \in Alerts /\ outcome[a] = "pending"
        /\ outcome' = [outcome EXCEPT ![a] = "nil"]
    BY <1>1, <1>3 DEF Sends, Return, HolderInv
  <2>2. \A i \in 1 .. n : Accepted[i] # a
    BY <1>2, <2>1
  <2>3. /\ Len(Accepted') = n + 1 /\ Accepted'[n + 1] = a
        /\ \A i \in 1 .. n : Accepted'[i] = Accepted[i]
    BY <1>1, <1>3, <2>1, AppendProperties
  <2>4. \A i \in 1 .. n + 1 : i \in 1 .. n \/ i = n + 1
    BY <1>1
  <2>5. n + 1 \in 1 .. n + 1 /\ \A i \in 1 .. n : i \in 1 .. n + 1
    BY <1>1
  <2> HIDE DEF n, a
  <2>6. \A i, j \in 1 .. n + 1 : Accepted'[i] = Accepted'[j] => i = j
    BY <1>2, <2>2, <2>3, <2>4 DEF n
  <2>7. ASSUME NEW e \in Alerts
        PROVE  outcome'[e] = "nil" <=> \E i \in 1 .. n + 1 : Accepted'[i] = e
    <3>1. CASE e = a
      BY <1>1, <2>1, <2>3, <2>5, <3>1
    <3>2. CASE e # a
      <4>1. outcome'[e] = outcome[e]
        BY <1>1, <2>1, <3>2
      <4>2. (\E i \in 1 .. n + 1 : Accepted'[i] = e) <=> \E i \in 1 .. n : Accepted[i] = e
        BY <2>3, <2>4, <2>5, <3>2
      <4> QED BY <1>2, <4>1, <4>2 DEF n
    <3> QED BY <3>1, <3>2
  <2> QED BY <2>3, <2>6, <2>7 DEF AnswerInv
<1>4. ASSUME Accepted' = Accepted,
             \A e \in Alerts : outcome'[e] = "nil" <=> outcome[e] = "nil"
      PROVE  AnswerInv'
  BY <1>2, <1>4 DEF AnswerInv
<1>5. ASSUME NEW p \in Producers, NEW e \in Alerts, CallNotify(p, e)
      PROVE  \A f \in Alerts : outcome'[f] = "nil" <=> outcome[f] = "nil"
  BY <1>1, <1>5 DEF CallNotify
<1>6. ASSUME NEW p \in Producers, Refused(p)
      PROVE  \A e \in Alerts : outcome'[e] = "nil" <=> outcome[e] = "nil"
  <2>1. outcome[alert[p]] = "pending"
    BY <1>1, <1>6 DEF Refused, HolderInv
  <2> QED BY <1>1, <1>6, <2>1 DEF Refused, Return
<1>7. ASSUME InsideNotify
      PROVE  \A e \in Alerts : outcome'[e] = "nil" <=> outcome[e] = "nil"
  BY <1>7 DEF InsideNotify
<1>8. CASE \E p \in Producers : Sends(p) /\ Accepted' = Append(Accepted, alert[p])
  BY <1>3, <1>8
<1>9. CASE Accepted' = Accepted /\ ~ \E p \in Producers : Sends(p)
  BY <1>1, <1>4, <1>5, <1>6, <1>7, <1>9, ProducerSteps
<1> QED BY <1>1, <1>8, <1>9, AcceptedSteps

LEMMA OInvInit == Init => OInv
<1> SUFFICES ASSUME Init PROVE HolderInv /\ AnswerInv
  BY AInvInit DEF OInv
<1>1. Accepted = <<>>
  <2>1. delivered[NumChildren] = <<>>
    BY ChildrenAssumption DEF Init, Children
  <2> QED BY <2>1 DEF Init, Accepted
<1>2. AnswerInv
  BY <1>1 DEF Init, AnswerInv
<1>3. HolderInv
  BY DEF Init, HolderInv
<1> QED BY <1>2, <1>3

(* Notify's answer is what becomes of the alert, for any number of callers:  *)
(* refused alerts are never delivered, accepted ones are on their way once.  *)
THEOREM OutcomeIsTruthHolds == Spec => []OutcomeIsTruth
<1>1. OInv => OutcomeIsTruth
  <2> SUFFICES ASSUME OInv, NEW e \in Alerts
               PROVE  Cardinality({i \in 1 .. Len(Accepted) : Accepted[i] = e}) =
                        IF outcome[e] = "nil" THEN 1 ELSE 0
    BY DEF OutcomeIsTruth
  <2> DEFINE at == {i \in 1 .. Len(Accepted) : Accepted[i] = e}
  <2>1. outcome[e] = "nil" <=> at # {}
    BY DEF OInv, AnswerInv
  <2>2. \A i, j \in at : i = j
    BY DEF OInv, AnswerInv
  <2> HIDE DEF at
  <2>3. CASE at = {}
    BY <2>1, <2>3, FS_EmptySet DEF at
  <2>4. CASE at # {}
    <3>1. PICK i \in at : TRUE
      BY <2>4
    <3>2. at = {i}
      BY <2>2, <3>1
    <3> QED BY <2>1, <2>4, <3>2, FS_Singleton DEF at
  <2> QED BY <2>3, <2>4
<1> QED BY OInvInit, OInvNext, <1>1, PTL DEF Spec
-----------------------------------------------------------------------------
(* The drain.                                                               *)

DrainInv ==
  /\ wpc = "exited" => queue = <<>> /\ chClosed
  /\ \A c \in Closers : cpc[c] = "nil" => wpc = "exited"

LEMMA DrainInvNext == AInv /\ DrainInv /\ [Next]_vars => DrainInv'
<1> SUFFICES ASSUME AInv, DrainInv, [Next]_vars PROVE DrainInv'
  OBVIOUS
<1> USE DEF DrainInv
<1>1. cpc \in [Closers -> {"idle", "lock", "flag", "close", "unlock", "wait",
                           "nil", "drainIncomplete"}]
  BY DEF AInv, TypeOK
<1>2. ASSUME NEW p \in Producers, NEW e \in Alerts, CallNotify(p, e) PROVE DrainInv'
  BY <1>2 DEF CallNotify, workerVars
<1>3. ASSUME NEW p \in Producers, RLock(p) \/ CheckClosed(p) PROVE DrainInv'
  BY <1>3 DEF RLock, CheckClosed, Return, workerVars
<1>4. ASSUME NEW p \in Producers, TrySend(p) PROVE DrainInv'
  <2>1. ~chClosed
    BY <1>4 DEF TrySend, AInv, LockInv
  <2>2. UNCHANGED <<cpc, chClosed, wpc>>
    BY <1>4 DEF TrySend, Return, workerVars
  <2> QED BY <2>1, <2>2
<1>5. ASSUME NEW c \in Closers,
             CallClose(c) \/ Lock(c) \/ SetClosed(c) \/ CloseQueue(c) \/ Unlock(c)
               \/ Drained(c) \/ DeadlineExpired(c)
      PROVE  DrainInv'
  BY <1>1, <1>5 DEF CallClose, Lock, SetClosed, CloseQueue, Unlock, Drained,
                    DeadlineExpired, workerVars
<1>6. ASSUME Receive \/ DeliverToChild PROVE DrainInv'
  BY <1>6 DEF Receive, DeliverToChild
<1>7. ASSUME WorkerExit PROVE DrainInv'
  BY <1>7 DEF WorkerExit
<1>8. CASE UNCHANGED vars
  BY <1>8 DEF vars, workerVars
<1> QED BY <1>2, <1>3, <1>4, <1>5, <1>6, <1>7, <1>8 DEF Next, ProducerStep, CloserStep

(* Close returns nil only when nothing that was accepted is left, for every  *)
(* fan-out and queue size, whoever else raised alerts or closed meanwhile.   *)
THEOREM DrainedOnNilHolds == Spec => []DrainedOnNil
<1> DEFINE Inv == OInv /\ FanInv /\ DrainInv
<1>1. Init => Inv
  BY OInvInit, RInvInit DEF RInv, DrainInv, Init
<1>2. Inv /\ [Next]_vars => Inv'
  BY OInvNext, RInvNext, DrainInvNext DEF RInv, OInv
<1>3. Inv => DrainedOnNil
  <2> SUFFICES ASSUME Inv, NEW c \in Closers, cpc[c] = "nil", NEW e \in Alerts
               PROVE  /\ outcome[e] = "nil" => \A k \in Children :
                           \E i \in 1 .. Len(delivered[k]) : delivered[k][i] = e
                      /\ outcome[e] = "pending" => closed /\ queue = <<>>
    BY DEF DrainedOnNil
  <2>1. wpc = "exited" /\ queue = <<>> /\ chClosed /\ closed
    BY DEF DrainInv, OInv, AInv, LockInv
  <2>2. Accepted = Last
    <3>1. AInv /\ InHand = <<>>
      BY <2>1 DEF OInv, InHand
    <3>2. Last \in Seq(Alerts) /\ Accepted = (Last \o <<>>) \o <<>>
      BY <2>1, <3>1, AcceptedType
    <3> QED BY <3>2, ConcatEmptySeq
  <2>3. \A k \in Children : delivered[k] = Accepted
    BY <2>1, <2>2 DEF FanInv
  <2>4. outcome[e] = "nil" => \E i \in 1 .. Len(Accepted) : Accepted[i] = e
    BY DEF OInv, AnswerInv
  <2> QED BY <2>1, <2>3, <2>4
<1> QED BY <1>1, <1>2, <1>3, PTL DEF Spec
-----------------------------------------------------------------------------
(* Nobody who has called Notify or Close waits for everybody else.  What a   *)
(* goroutine waits for is written out here, ENABLED being out of reach.      *)

Notifying(p) == ppc[p] # "idle"
Closing(c) == cpc[c] \in Critical \union {"wait"}
ProducerReady(p) == ppc[p] \in {"check", "send"} \/ (ppc[p] = "rlock" /\ writer = Nobody)
CloserReady(c) ==
  cpc[c] \in {"flag", "close", "unlock", "wait"} \/ (cpc[c] = "lock" /\ readers = {})

SomeCallerMoves ==
  (\E p \in Producers : Notifying(p)) \/ (\E c \in Closers : Closing(c)) =>
    (\E p \in Producers : ProducerReady(p)) \/ (\E c \in Closers : CloserReady(c))

\* The lock is only held by someone who is inside.
HeldInv ==
  /\ \A p \in readers : ppc[p] \in {"check", "send"}
  /\ writer # Nobody => cpc[writer] \in Critical

LEMMA HeldNext == AInv /\ HeldInv /\ [Next]_vars => HeldInv'
<1> SUFFICES ASSUME AInv, HeldInv, [Next]_vars PROVE HeldInv'
  OBVIOUS
<1> USE NobodyAssumption DEF AInv, TypeOK, LockInv, Critical, HeldInv
<1>1. ASSUME NEW p \in Producers, NEW e \in Alerts, CallNotify(p, e) PROVE HeldInv'
  BY <1>1 DEF CallNotify, lockVars
<1>2. ASSUME NEW p \in Producers, RLock(p) PROVE HeldInv'
  BY <1>2 DEF RLock
<1>3. ASSUME NEW p \in Producers, CheckClosed(p) PROVE HeldInv'
  BY <1>3 DEF CheckClosed, Return, lockVars
<1>4. ASSUME NEW p \in Producers, TrySend(p) PROVE HeldInv'
  BY <1>4 DEF TrySend, Return
<1>5. ASSUME NEW c \in Closers, CallClose(c) PROVE HeldInv'
  BY <1>5 DEF CallClose, producerVars
<1>6. ASSUME NEW c \in Closers, Lock(c) \/ SetClosed(c) \/ CloseQueue(c) PROVE HeldInv'
  BY <1>6 DEF Lock, SetClosed, CloseQueue, producerVars, lockVars
<1>7. ASSUME NEW c \in Closers, Unlock(c) PROVE HeldInv'
  BY <1>7 DEF Unlock, producerVars
<1>8. ASSUME NEW c \in Closers, Drained(c) \/ DeadlineExpired(c) PROVE HeldInv'
  BY <1>8 DEF Drained, DeadlineExpired, producerVars, lockVars
<1>9. ASSUME Receive \/ DeliverToChild \/ WorkerExit PROVE HeldInv'
  BY <1>9 DEF Receive, DeliverToChild, WorkerExit, producerVars, lockVars
<1>10. CASE UNCHANGED vars
  BY <1>10 DEF vars, producerVars, lockVars
<1> QED BY <1>1, <1>2, <1>3, <1>4, <1>5, <1>6, <1>7, <1>8, <1>9, <1>10
        DEF Next, ProducerStep, CloserStep

(* For any number of callers and any size of the queue: as long as a Notify  *)
(* or a Close is under way, one of them can go on by itself, whatever the    *)
(* worker and its providers do.  The lock is never lost, no reader waits for *)
(* a writer that waits for it, and no send waits for room in the queue       *)
(* (async.go:51-70).                                                        *)
THEOREM CallersNeverStuck == Spec => []SomeCallerMoves
<1>1. Init => HeldInv
  BY DEF Init, HeldInv
<1>2. AInv /\ HeldInv => SomeCallerMoves
  <2> SUFFICES ASSUME AInv, HeldInv,
                      \A p \in Producers : ~ProducerReady(p),
                      \A c \in Closers : ~CloserReady(c)
               PROVE  /\ \A p \in Producers : ~Notifying(p)
                      /\ \A c \in Closers : ~Closing(c)
    BY DEF SomeCallerMoves
  <2>1. readers = {}
    BY DEF HeldInv, ProducerReady, AInv, TypeOK
  <2>2. writer = Nobody
    BY <2>1 DEF HeldInv, Critical, CloserReady, AInv, TypeOK
  <2>3. \A p \in Producers : ~Notifying(p)
    BY <2>2 DEF Notifying, ProducerReady, AInv, TypeOK
  <2>4. \A c \in Closers : ~Closing(c)
    BY <2>1 DEF Closing, CloserReady, Critical
  <2> QED BY <2>3, <2>4
<1> QED BY <1>1, <1>2, AInvInit, AInvNext, HeldNext, PTL DEF Spec
=============================================================================
