-------------------------- MODULE Scheduler_proofs --------------------------
(***************************************************************************)
(* Theorems about Scheduler, for every set of monitors, every pool of       *)
(* workers and every value of the thresholds.                               *)
(***************************************************************************)
EXTENDS Scheduler, TLAPS

-----------------------------------------------------------------------------
(* Type correctness.                                                        *)

LEMMA NoAnswerType ==
  \A e \in {"none", "failed", "cancelled"} : NoAnswer(e) \in Result
BY DEF NoAnswer, Result

LEMMA OutcomesType ==
  \A w \in Workers : /\ Outcomes(w) \subseteq Pipeline!ProbeResults
                     /\ Outcomes(w) \subseteq Result
<1> DEFINE Raw == [err : {"none", "failed", "cancelled"}, ok : BOOLEAN,
                   hasCert : BOOLEAN, hoursLeft : Hours \union {0}]
<1>1. Pipeline!ProbeResults \subseteq Raw
  BY DEF Pipeline!ProbeResults
<1>2. Hours \union {0} \subseteq Int
  BY HoursAssumption
<1>3. Raw \subseteq Result
  BY <1>2, Zenon DEF Result
<1>4. NoAnswer("cancelled") \in Pipeline!ProbeResults
  <2>1. NoAnswer("cancelled") \in Raw
    BY DEF NoAnswer
  <2> QED BY <2>1 DEF Pipeline!ProbeResults, Pipeline!NoAnswer, NoAnswer
<1> QED BY <1>1, <1>3, <1>4, Zenon DEF Outcomes

LEMMA TypeOKInit == Init => TypeOK
<1> SUFFICES ASSUME Init PROVE TypeOK
  OBVIOUS
<1>1. res \in [Workers -> Result]
  BY NoAnswerType DEF Init
<1>2. wpc \in [Workers -> Idle \union Steps] /\ JobHeld
  BY NoMonitorAssumption DEF Init, Idle, JobHeld, Busy, Steps
<1> QED BY <1>1, <1>2 DEF Init, TypeOK

LEMMA TypeOKNext == TypeOK /\ [Next]_vars => TypeOK'
<1> SUFFICES ASSUME TypeOK, [Next]_vars PROVE TypeOK'
  OBVIOUS
<1> USE NoAnswerType, NoMonitorAssumption DEF TypeOK, JobHeld, Busy, Idle, Steps,
        loopVars, batchVars, workerVars
<1>1. ASSUME ListOk PROVE TypeOK'
  BY <1>1 DEF ListOk
<1>2. ASSUME ListErr \/ CloseJobs \/ Join \/ RunTick \/ RunStop PROVE TypeOK'
  BY <1>2 DEF ListErr, CloseJobs, Join, RunTick, RunStop
<1>3. ASSUME NEW m \in Monitors, JitterOver(m) \/ AbandonDispatch(m) PROVE TypeOK'
  BY <1>3 DEF JitterOver, AbandonDispatch
<1>4. ASSUME NEW m \in Monitors, NEW w \in Workers, Handoff(m, w) PROVE TypeOK'
  BY <1>4 DEF Handoff
<1>5. ASSUME NEW w \in Workers, WorkerExit(w) PROVE TypeOK'
  BY <1>5 DEF WorkerExit
<1>6. ASSUME NEW w \in Workers, FinishProbe(w) PROVE TypeOK'
  <2>1. PICK r \in Outcomes(w) : res' = [res EXCEPT ![w] = r]
    BY <1>6 DEF FinishProbe
  <2>2. r \in Result
    BY OutcomesType
  <2> QED BY <1>6, <2>1, <2>2 DEF FinishProbe
<1>7. ASSUME NEW w \in Workers, Save(w) PROVE TypeOK'
  BY <1>7 DEF Save
<1>8. ASSUME NEW w \in Workers, Observe(w) PROVE TypeOK'
  BY <1>8 DEF Observe
<1>9. ASSUME NEW w \in Workers, ObserveCert(w) PROVE TypeOK'
  BY <1>9 DEF ObserveCert
<1>10. ASSUME NEW w \in Workers, ObserveFlap(w) PROVE TypeOK'
  BY <1>10 DEF ObserveFlap
<1>11. ASSUME Tick \/ Cancel PROVE TypeOK'
  BY <1>11 DEF Tick, Cancel
<1>12. ASSUME Sync PROVE TypeOK'
  BY <1>12 DEF Sync
<1>13. ASSUME Restart PROVE TypeOK'
  <2>1. res' \in [Workers -> Result]
    BY <1>13 DEF Restart
  <2> QED BY <1>13, <2>1 DEF Restart
<1>14. CASE UNCHANGED vars
  BY <1>14 DEF vars
<1> QED BY <1>1, <1>2, <1>3, <1>4, <1>5, <1>6, <1>7, <1>8, <1>9, <1>10, <1>11,
           <1>12, <1>13, <1>14 DEF Next, WorkerStep

(* The control state of the goroutines and the store stay in their types.   *)
THEOREM TypeCorrect == Spec => []TypeOK
BY TypeOKInit, TypeOKNext, PTL DEF Spec

-----------------------------------------------------------------------------
(* The life of a batch.  Outside a batch nothing of it exists; channel jobs *)
(* is open exactly while dispatch goroutines may still send on it.          *)

NoBatch ==
  /\ \A w \in Workers : wpc[w] = "off"
  /\ \A m \in Monitors : disp[m] = "none"

BatchLife ==
  /\ rpc \in {"list", "select", "returned"} => NoBatch
  /\ rpc = "dispatch" => ~jobsClosed
  /\ rpc = "join" => jobsClosed /\ \A m \in Monitors : disp[m] = "none"

BInv == TypeOK /\ BatchLife /\ OneWorkerPerMonitor

LEMMA BInvInit == Init => BInv
<1> SUFFICES ASSUME Init PROVE BInv
  OBVIOUS
<1>1. rpc = "list" /\ NoBatch
  BY DEF Init, NoBatch
<1>2. \A w \in Workers : ~Busy(w)
  BY DEF Init, Busy, Steps
<1> QED BY <1>1, <1>2, TypeOKInit DEF BInv, BatchLife, OneWorkerPerMonitor, Holders

LEMMA BInvNext == BInv /\ [Next]_vars => BInv'
<1> SUFFICES ASSUME BInv, [Next]_vars PROVE BInv'
  OBVIOUS
<1>1. TypeOK /\ TypeOK'
  BY TypeOKNext DEF BInv
<1>2. SUFFICES (BatchLife /\ OneWorkerPerMonitor)'
  BY <1>1 DEF BInv
<1> USE <1>1 DEF BInv, TypeOK, JobHeld, BatchLife, NoBatch, OneWorkerPerMonitor,
        Holders, Busy, Steps, Idle, loopVars, batchVars, workerVars
<1>3. ASSUME ListOk PROVE (BatchLife /\ OneWorkerPerMonitor)'
  <2>1. \A w \in Workers : wpc'[w] = "recv"
    BY <1>3 DEF ListOk
  <2> QED BY <1>3, <2>1 DEF ListOk
<1>4. ASSUME ListErr \/ RunTick \/ RunStop
      PROVE  (BatchLife /\ OneWorkerPerMonitor)'
  BY <1>4 DEF ListErr, RunTick, RunStop
<1>5. ASSUME CloseJobs \/ Join PROVE (BatchLife /\ OneWorkerPerMonitor)'
  BY <1>5 DEF CloseJobs, Join
<1>6. ASSUME NEW m \in Monitors, JitterOver(m) \/ AbandonDispatch(m)
      PROVE  (BatchLife /\ OneWorkerPerMonitor)'
  BY <1>6 DEF JitterOver, AbandonDispatch
<1>7. ASSUME NEW m \in Monitors, NEW w \in Workers, Handoff(m, w)
      PROVE  (BatchLife /\ OneWorkerPerMonitor)'
  <2>1. rpc = "dispatch" /\ ~jobsClosed /\ UNCHANGED <<rpc, jobsClosed>>
    BY <1>7 DEF Handoff
  <2>2. \A v \in Workers : Busy(v) => job[v] # m
    BY <1>7 DEF Handoff
  <2>3. /\ disp' = [disp EXCEPT ![m] = "none"]
        /\ wpc' = [wpc EXCEPT ![w] = "probing"]
        /\ job' = [job EXCEPT ![w] = m]
    BY <1>7 DEF Handoff
  <2>4. OneWorkerPerMonitor'
    BY <2>2, <2>3
  <2> QED BY <2>1, <2>4
<1>8. ASSUME NEW w \in Workers, WorkerExit(w)
      PROVE  (BatchLife /\ OneWorkerPerMonitor)'
  BY <1>8 DEF WorkerExit
\* A step of probeOne: the worker is busy, so a batch is on, and it keeps its
\* monitor or lets it go.
<1>9. ASSUME NEW w \in Workers, WorkerStep(w)
      PROVE  (BatchLife /\ OneWorkerPerMonitor)'
  <2>1. /\ Busy(w)
        /\ UNCHANGED <<rpc, disp, jobsClosed>>
        /\ \E p \in Steps \union {"recv"} : wpc' = [wpc EXCEPT ![w] = p]
        /\ job' = job \/ (job' = [job EXCEPT ![w] = NoMonitor] /\ wpc'[w] = "recv")
    BY <1>9 DEF WorkerStep, FinishProbe, Save, Observe, ObserveCert, ObserveFlap
  <2>2. rpc \in {"dispatch", "join"}
    BY <2>1
  <2>3. \A v \in Workers : Busy(v)' => Busy(v) /\ job'[v] = job[v]
    BY <2>1
  <2>4. OneWorkerPerMonitor'
    BY <2>1, <2>3
  <2> QED BY <2>1, <2>2, <2>4
<1>10. ASSUME Tick \/ Cancel \/ Sync PROVE (BatchLife /\ OneWorkerPerMonitor)'
  BY <1>10 DEF Tick, Cancel, Sync
<1>11. ASSUME Restart PROVE (BatchLife /\ OneWorkerPerMonitor)'
  BY <1>11 DEF Restart
<1>12. CASE UNCHANGED vars
  BY <1>12 DEF vars
<1> QED BY <1>3, <1>4, <1>5, <1>6, <1>7, <1>8, <1>9, <1>10, <1>11, <1>12 DEF Next

(* Whatever the pool's size and however the goroutines interleave, two      *)
(* workers never hold the same monitor.                                     *)
THEOREM OneWorkerPerMonitorHolds == Spec => []OneWorkerPerMonitor
<1>1. BInv => OneWorkerPerMonitor
  BY DEF BInv
<1> QED BY BInvInit, BInvNext, <1>1, PTL DEF Spec

(* No dispatch goroutine can be about to send when jobs is closed.          *)
LEMMA NoSendFromBInv == BInv => NoSendOnClosedJobs
<1> SUFFICES ASSUME BInv, jobsClosed, NEW m \in Monitors PROVE disp[m] # "send"
  BY DEF NoSendOnClosedJobs
<1> QED BY DEF BInv, BatchLife, NoBatch, TypeOK

THEOREM NoSendOnClosedJobsHolds == Spec => []NoSendOnClosedJobs
BY BInvInit, BInvNext, NoSendFromBInv, PTL DEF Spec

(* When Run has returned, no goroutine it started is left.                  *)
THEOREM QuiescentOnReturnHolds == Spec => []QuiescentOnReturn
<1>1. BInv => QuiescentOnReturn
  BY DEF BInv, BatchLife, NoBatch, QuiescentOnReturn
<1> QED BY BInvInit, BInvNext, <1>1, PTL DEF Spec

-----------------------------------------------------------------------------
(* Every batch ends, as far as that can be said without fairness: while a    *)
(* batch is on some goroutine of it can move, and whichever of them moves    *)
(* leaves less to be done.                                                  *)

InBatch == rpc \in {"dispatch", "join"}

\* Who can move: Run out of a Wait, a dispatch goroutine out of its timer or
\* its send, a worker out of a call or of its receive.
LoopReady ==
  \/ rpc = "dispatch" /\ \A m \in Monitors : disp[m] = "none"
  \/ rpc = "join" /\ \A w \in Workers : wpc[w] = "off"
DispatchReady(m) ==
  \/ disp[m] = "timer"
  \/ disp[m] = "send" /\ ~jobsClosed /\ \E w \in Workers : wpc[w] = "recv"
WorkerReady(w) == Busy(w) \/ (wpc[w] = "recv" /\ jobsClosed)

NeverStuck ==
  InBatch => \/ LoopReady
             \/ \E m \in Monitors : DispatchReady(m)
             \/ \E w \in Workers : WorkerReady(w)

\* While the dispatch goroutines send, the whole pool is there.
PoolInv == BInv /\ (rpc = "dispatch" => \A w \in Workers : wpc[w] # "off")

LEMMA PoolInvInit == Init => PoolInv
<1>1. Init => rpc # "dispatch"
  BY DEF Init
<1> QED BY <1>1, BInvInit DEF PoolInv

LEMMA PoolInvNext == PoolInv /\ [Next]_vars => PoolInv'
<1> SUFFICES ASSUME PoolInv, [Next]_vars PROVE PoolInv'
  OBVIOUS
<1>1. BInv /\ BInv'
  BY BInvNext DEF PoolInv
<1>2. SUFFICES ASSUME rpc' = "dispatch", NEW w \in Workers PROVE wpc'[w] # "off"
  BY <1>1 DEF PoolInv
<1>3. wpc \in [Workers -> Idle \union Steps] /\ (rpc = "dispatch" => wpc[w] # "off" /\ ~jobsClosed)
  BY <1>1 DEF BInv, TypeOK, PoolInv, BatchLife
<1> USE DEF loopVars, batchVars, workerVars
<1>4. CASE ListOk
  BY <1>3, <1>4 DEF ListOk
<1>5. CASE ListErr \/ CloseJobs \/ Join \/ RunTick \/ RunStop \/ Restart
  BY <1>2, <1>5 DEF ListErr, CloseJobs, Join, RunTick, RunStop, Restart
<1>6. ASSUME NEW m \in Monitors,
             JitterOver(m) \/ AbandonDispatch(m) \/ \E v \in Workers : Handoff(m, v)
      PROVE  wpc'[w] # "off"
  BY <1>2, <1>3, <1>6 DEF JitterOver, AbandonDispatch, Handoff
<1>7. ASSUME NEW v \in Workers, WorkerExit(v) PROVE wpc'[w] # "off"
  BY <1>2, <1>3, <1>7 DEF WorkerExit
<1>8. ASSUME NEW v \in Workers, WorkerStep(v) PROVE wpc'[w] # "off"
  BY <1>2, <1>3, <1>8
     DEF WorkerStep, FinishProbe, Save, Observe, ObserveCert, ObserveFlap
<1>9. CASE Tick \/ Cancel \/ Sync \/ UNCHANGED vars
  BY <1>2, <1>3, <1>9 DEF Tick, Cancel, Sync, vars
<1> QED BY <1>4, <1>5, <1>6, <1>7, <1>8, <1>9 DEF Next

(* A probe always has something to bring back, cancelled or not.            *)
LEMMA OutcomesNotEmpty == \A w \in Workers : Outcomes(w) # {}
<1> SUFFICES ASSUME NEW w \in Workers, Outcomes(w) = {} PROVE FALSE
  OBVIOUS
<1>1. NoAnswer("failed") \in Pipeline!ProbeResults
  BY DEF Pipeline!ProbeResults, Pipeline!NoAnswer, NoAnswer
<1>2. NoAnswer("failed").err # "cancelled"
  BY DEF NoAnswer
<1> QED BY <1>1, <1>2 DEF Outcomes

(* For any number of monitors and workers: Run, the dispatch goroutines and  *)
(* the workers are never all waiting for one another.                       *)
THEOREM BatchNeverStuck == Spec => []NeverStuck
<1>1. PoolInv => NeverStuck
  <2> SUFFICES ASSUME PoolInv, InBatch, ~LoopReady,
                      \A w \in Workers : ~WorkerReady(w)
               PROVE  \E m \in Monitors : DispatchReady(m)
    BY DEF NeverStuck
  <2>1. \A w \in Workers : wpc[w] \in {"off", "recv"}
    BY DEF PoolInv, BInv, TypeOK, WorkerReady, Busy, Idle
  <2>2. CASE rpc = "join"
    <3>1. \A w \in Workers : wpc[w] = "off"
      BY <2>1, <2>2 DEF PoolInv, BInv, BatchLife, WorkerReady
    <3> QED BY <2>2, <3>1 DEF LoopReady
  <2>3. CASE rpc = "dispatch"
    <3>1. PICK m \in Monitors : disp[m] \in {"timer", "send"}
      BY <2>3 DEF LoopReady, PoolInv, BInv, TypeOK
    <3>2. PICK w \in Workers : wpc[w] = "recv"
      BY <2>1, <2>3, WorkersAssumption DEF PoolInv
    <3>3. ~jobsClosed
      BY <2>3 DEF PoolInv, BInv, BatchLife
    <3> QED BY <3>1, <3>2, <3>3 DEF DispatchReady
  <2> QED BY <2>2, <2>3 DEF InBatch
<1> QED BY PoolInvInit, PoolInvNext, <1>1, PTL DEF Spec

-----------------------------------------------------------------------------
\* What a batch has still to do: of each monitor the stages it has not been
\* through, of each worker its exit, of Run its two Waits.
Rest == [none |-> 0, off |-> 0, recv |-> 0, timer |-> 7, send |-> 6, probing |-> 5,
         save |-> 4, observe |-> 3, cert |-> 2, flap |-> 1]
HasStage(m, k) ==
  \/ k <= Rest[disp[m]]
  \/ \E w \in Workers : Busy(w) /\ job[w] = m /\ k <= Rest[wpc[w]]
StagesLeft == {x \in Monitors \X (1 .. 7) : HasStage(x[1], x[2])}
ExitsLeft == {w \in Workers : wpc[w] # "off"}
WaitsLeft == IF rpc = "dispatch" THEN {1, 2} ELSE IF rpc = "join" THEN {1} ELSE {}
Left == <<StagesLeft, ExitsLeft, WaitsLeft>>

GoroutineStep ==
  \/ CloseJobs \/ Join
  \/ \E m \in Monitors :
       JitterOver(m) \/ AbandonDispatch(m) \/ \E w \in Workers : Handoff(m, w)
  \/ \E w \in Workers : WorkerExit(w) \/ WorkerStep(w)

LessLeft ==
  /\ StagesLeft' \subseteq StagesLeft /\ ExitsLeft' \subseteq ExitsLeft
  /\ WaitsLeft' \subseteq WaitsLeft
  /\ Left' # Left

Shrinks ==
  [][/\ GoroutineStep => LessLeft
     /\ Tick \/ Cancel \/ Sync => Left' = Left]_vars

\* A goroutine that gives up a stage of its monitor, and no more.
LEMMA FewerStages ==
  ASSUME NEW m \in Monitors, NEW k \in 1 .. 7,
         HasStage(m, k), ~HasStage(m, k)',
         \A n \in Monitors, l \in 1 .. 7 : HasStage(n, l)' => HasStage(n, l),
         ExitsLeft' \subseteq ExitsLeft, WaitsLeft' \subseteq WaitsLeft
  PROVE  LessLeft
<1>1. StagesLeft' \subseteq StagesLeft
  BY DEF StagesLeft
<1>2. <<m, k>> \in StagesLeft /\ <<m, k>> \notin StagesLeft'
  BY DEF StagesLeft
<1> QED BY <1>1, <1>2 DEF LessLeft, Left

LEMMA RestOf ==
  /\ \A s \in {"none", "off", "recv"} : Rest[s] = 0
  /\ Rest["timer"] = 7 /\ Rest["send"] = 6 /\ Rest["probing"] = 5 /\ Rest["save"] = 4
  /\ Rest["observe"] = 3 /\ Rest["cert"] = 2 /\ Rest["flap"] = 1
BY DEF Rest

(* A worker that goes on to a later step of probeOne.                       *)
LEMMA WorkerGoesOn ==
  ASSUME BInv, NEW w \in Workers, Busy(w), NEW p,
         wpc' = [wpc EXCEPT ![w] = p],
         \/ p \in Steps /\ Rest[p] < Rest[wpc[w]] /\ job' = job
         \/ p = "recv" /\ job' = [job EXCEPT ![w] = NoMonitor],
         UNCHANGED <<rpc, disp>>
  PROVE  LessLeft
<1>0. job[w] \in Monitors /\ Rest[wpc[w]] \in 1 .. 7
  BY RestOf DEF BInv, TypeOK, JobHeld, Busy, Steps
<1>1. PICK m \in Monitors, k \in 1 .. 7 : m = job[w] /\ k = Rest[wpc[w]]
  BY <1>0
<1>2. disp[m] = "none" /\ \A v \in Workers : Busy(v) /\ job[v] = m => v = w
  BY <1>1 DEF BInv, OneWorkerPerMonitor, TypeOK, Holders
<1>3. wpc \in [Workers -> Idle \union Steps] /\ job \in [Workers -> Monitors \union {NoMonitor}]
  BY DEF BInv, TypeOK
<1>4. \A v \in Workers : v # w => wpc'[v] = wpc[v] /\ job'[v] = job[v]
  BY <1>3
<1>5. wpc'[w] = p
  BY <1>3
<1>6. p \in Steps => job'[w] = m /\ Rest[p] < k
  BY <1>1, <1>3, RestOf DEF Steps
<1>7. p \notin Steps \/ p # "recv"
  BY DEF Steps
<1>8. HasStage(m, k)
  BY <1>1 DEF HasStage, Busy
<1>9. ~HasStage(m, k)'
  <2>1. ~(k <= Rest[disp'[m]])
    BY <1>1, <1>2, RestOf
  <2>2. ASSUME NEW v \in Workers, Busy(v)', job'[v] = m, k <= Rest[wpc'[v]] PROVE FALSE
    <3>1. CASE v = w
      <4>1. p \in Steps
        BY <1>5, <2>2, <3>1 DEF Busy
      <4>2. Rest[p] \in Nat
        BY <4>1, RestOf DEF Steps
      <4> QED BY <1>1, <1>5, <1>6, <2>2, <3>1, <4>1, <4>2
    <3>2. CASE v # w
      <4>1. Busy(v) /\ job[v] = m
        BY <1>4, <2>2, <3>2 DEF Busy
      <4> QED BY <1>2, <3>2, <4>1
    <3> QED BY <3>1, <3>2
  <2> QED BY <2>1, <2>2 DEF HasStage
<1>10. ASSUME NEW n \in Monitors, NEW l \in 1 .. 7, HasStage(n, l)' PROVE HasStage(n, l)
  <2>1. CASE l <= Rest[disp'[n]]
    BY <2>1 DEF HasStage
  <2>2. ASSUME NEW v \in Workers, Busy(v)', job'[v] = n, l <= Rest[wpc'[v]]
        PROVE  HasStage(n, l)
    <3>1. CASE v = w
      <4>1. p \in Steps
        BY <1>5, <2>2, <3>1 DEF Busy
      <4>2. n = m /\ l <= k
        <5>1. Rest[p] \in Nat
          BY <4>1, RestOf DEF Steps
        <5> QED BY <1>1, <1>5, <1>6, <2>2, <3>1, <4>1, <5>1
      <4>3. n = job[w] /\ l <= Rest[wpc[w]]
        BY <1>1, <4>2
      <4> QED BY <4>3 DEF HasStage
    <3>2. CASE v # w
      <4>1. Busy(v) /\ job[v] = n /\ l <= Rest[wpc[v]]
        BY <1>4, <2>2, <3>2 DEF Busy
      <4> QED BY <4>1 DEF HasStage
    <3> QED BY <3>1, <3>2
  <2>3. \/ l <= Rest[disp'[n]]
        \/ \E v \in Workers : Busy(v)' /\ job'[v] = n /\ l <= Rest[wpc'[v]]
    BY <1>10, Zenon DEF HasStage
  <2> QED BY <2>1, <2>2, <2>3
<1>11. ExitsLeft' \subseteq ExitsLeft
  <2>1. wpc[w] # "off"
    BY DEF Busy, Steps
  <2> QED BY <1>4, <2>1 DEF ExitsLeft
<1>12. WaitsLeft' = WaitsLeft
  BY DEF WaitsLeft
<1> QED BY <1>8, <1>9, <1>10, <1>11, <1>12, FewerStages

(* A dispatch goroutine that goes on, gives up, or hands its monitor over.   *)
LEMMA DispatchGoesOn ==
  ASSUME BInv, NEW m \in Monitors,
         JitterOver(m) \/ AbandonDispatch(m) \/ \E w \in Workers : Handoff(m, w)
  PROVE  LessLeft
<1> USE DEF loopVars, workerVars
<1>1. /\ disp \in [Monitors -> {"none", "timer", "send"}]
      /\ wpc \in [Workers -> Idle \union Steps]
      /\ job \in [Workers -> Monitors \union {NoMonitor}]
  BY DEF BInv, TypeOK
<1>0. disp[m] # "none" /\ Rest[disp[m]] \in 1 .. 7
  <2>1. disp[m] \in {"timer", "send"}
    BY <1>1 DEF JitterOver, AbandonDispatch, Handoff
  <2> QED BY <2>1, RestOf
<1>2. PICK k \in 1 .. 7 : k = Rest[disp[m]]
  BY <1>0
<1>3. \A v \in Workers : ~(Busy(v) /\ job[v] = m)
  BY <1>0 DEF BInv, OneWorkerPerMonitor, Holders
<1>4. /\ rpc' = rpc
      /\ \A n \in Monitors : n # m => disp'[n] = disp[n]
      /\ Rest[disp'[m]] < k
  <2>1. disp'[m] \in {"none", "send"} /\ (disp[m] = "send" => disp'[m] = "none")
    BY <1>1 DEF JitterOver, AbandonDispatch, Handoff
  <2>2. rpc' = rpc /\ \A n \in Monitors : n # m => disp'[n] = disp[n]
    BY <1>1 DEF JitterOver, AbandonDispatch, Handoff
  <2>3. disp[m] \in {"timer", "send"}
    BY <1>0, <1>1
  <2> QED BY <1>2, <2>1, <2>2, <2>3, RestOf
\* The worker that gets the monitor, if one does, has a stage less to go through.
<1>5. ASSUME NEW v \in Workers
      PROVE  /\ wpc[v] # "off" <=> wpc'[v] # "off"
             /\ Busy(v)' => \/ Busy(v) /\ job'[v] = job[v] /\ wpc'[v] = wpc[v]
                            \/ job'[v] = m /\ Rest[wpc'[v]] < k
  <2>1. CASE JitterOver(m) \/ AbandonDispatch(m)
    BY <2>1 DEF JitterOver, AbandonDispatch, Busy
  <2>2. ASSUME NEW w \in Workers, Handoff(m, w)
        PROVE  /\ wpc[v] # "off" <=> wpc'[v] # "off"
               /\ Busy(v)' => \/ Busy(v) /\ job'[v] = job[v] /\ wpc'[v] = wpc[v]
                              \/ job'[v] = m /\ Rest[wpc'[v]] < k
    <3>1. CASE v = w
      <4>1. /\ disp[m] = "send" /\ wpc[w] = "recv"
            /\ wpc'[w] = "probing" /\ job'[w] = m
        BY <1>1, <2>2 DEF Handoff
      <4>2. Rest[wpc'[w]] < k
        BY <1>2, <4>1, RestOf
      <4> QED BY <3>1, <4>1, <4>2
    <3>2. CASE v # w
      BY <1>1, <2>2, <3>2 DEF Handoff, Busy
    <3> QED BY <3>1, <3>2
  <2> QED BY <2>1, <2>2
<1>6. HasStage(m, k)
  BY <1>2 DEF HasStage
<1>7. \A s \in {"none", "timer", "send"} \union Idle \union Steps : Rest[s] \in Nat
  BY RestOf DEF Idle, Steps
<1>8. Rest[disp'[m]] \in Nat /\ \A v \in Workers : Rest[wpc'[v]] \in Nat
  <2>1. disp'[m] \in {"none", "timer", "send"}
    BY <1>1 DEF JitterOver, AbandonDispatch, Handoff
  <2>2. \A v \in Workers : wpc'[v] \in Idle \union Steps
    BY <1>1 DEF JitterOver, AbandonDispatch, Handoff, Steps
  <2> QED BY <1>7, <2>1, <2>2
<1>9. ~HasStage(m, k)'
  <2>1. ~(k <= Rest[disp'[m]])
    BY <1>2, <1>4, <1>8
  <2>2. ASSUME NEW v \in Workers, Busy(v)', job'[v] = m, k <= Rest[wpc'[v]] PROVE FALSE
    BY <1>2, <1>3, <1>5, <1>8, <2>2
  <2> QED BY <2>1, <2>2 DEF HasStage
<1>10. ASSUME NEW n \in Monitors, NEW l \in 1 .. 7, HasStage(n, l)' PROVE HasStage(n, l)
  <2>1. CASE l <= Rest[disp'[n]]
    <3>1. CASE n = m
      <4>1. l <= k
        BY <1>2, <1>4, <1>8, <2>1, <3>1
      <4>2. l <= Rest[disp[n]]
        BY <1>2, <3>1, <4>1
      <4> QED BY <4>2 DEF HasStage
    <3>2. CASE n # m
      BY <1>4, <2>1, <3>2 DEF HasStage
    <3> QED BY <3>1, <3>2
  <2>2. ASSUME NEW v \in Workers, Busy(v)', job'[v] = n, l <= Rest[wpc'[v]]
        PROVE  HasStage(n, l)
    <3>1. CASE Busy(v) /\ job'[v] = job[v] /\ wpc'[v] = wpc[v]
      BY <2>2, <3>1 DEF HasStage
    <3>2. CASE job'[v] = m /\ Rest[wpc'[v]] < k
      <4>1. n = m /\ l <= k
        BY <1>2, <1>8, <2>2, <3>2
      <4>2. l <= Rest[disp[n]]
        BY <1>2, <4>1
      <4> QED BY <4>2 DEF HasStage
    <3> QED BY <1>5, <2>2, <3>1, <3>2
  <2>3. \/ l <= Rest[disp'[n]]
        \/ \E v \in Workers : Busy(v)' /\ job'[v] = n /\ l <= Rest[wpc'[v]]
    BY <1>10, Zenon DEF HasStage
  <2> QED BY <2>1, <2>2, <2>3
<1>11. ExitsLeft' = ExitsLeft /\ WaitsLeft' = WaitsLeft
  BY <1>4, <1>5 DEF ExitsLeft, WaitsLeft
<1> QED BY <1>2, <1>6, <1>9, <1>10, <1>11, FewerStages

LEMMA GoroutineShrinks == BInv /\ GoroutineStep => LessLeft
<1> SUFFICES ASSUME BInv, GoroutineStep PROVE LessLeft
  OBVIOUS
<1>1. /\ disp \in [Monitors -> {"none", "timer", "send"}]
      /\ wpc \in [Workers -> Idle \union Steps]
  BY DEF BInv, TypeOK
<1>2. CASE CloseJobs \/ Join
  <2>1. StagesLeft' = StagesLeft /\ ExitsLeft' = ExitsLeft
    BY <1>2 DEF CloseJobs, Join, workerVars, batchVars, StagesLeft, HasStage, Busy, ExitsLeft
  <2>2. WaitsLeft' \subseteq WaitsLeft /\ WaitsLeft' # WaitsLeft
    BY <1>2 DEF CloseJobs, Join, WaitsLeft
  <2> QED BY <2>1, <2>2 DEF LessLeft, Left
<1>3. ASSUME NEW w \in Workers, WorkerExit(w) PROVE LessLeft
  <2>1. /\ wpc[w] = "recv" /\ wpc'[w] = "off"
        /\ \A v \in Workers : v # w => wpc'[v] = wpc[v]
        /\ UNCHANGED <<rpc, disp, job>>
    BY <1>1, <1>3 DEF WorkerExit, loopVars, batchVars
  <2>2. \A v \in Workers : Busy(v)' <=> Busy(v)
    BY <2>1 DEF Busy, Steps
  <2>3. \A v \in Workers : Busy(v) => wpc'[v] = wpc[v]
    BY <2>1 DEF Busy, Steps
  <2>4. StagesLeft' = StagesLeft
    BY <2>1, <2>2, <2>3 DEF StagesLeft, HasStage
  <2>5. w \in ExitsLeft /\ w \notin ExitsLeft' /\ ExitsLeft' \subseteq ExitsLeft
    BY <2>1 DEF ExitsLeft
  <2>6. WaitsLeft' = WaitsLeft
    BY <2>1 DEF WaitsLeft
  <2> QED BY <2>4, <2>5, <2>6 DEF LessLeft, Left
<1>4. ASSUME NEW w \in Workers, WorkerStep(w) PROVE LessLeft
  <2> USE DEF loopVars, batchVars
  <2>1. UNCHANGED <<rpc, disp>>
    BY <1>4 DEF WorkerStep, FinishProbe, Save, Observe, ObserveCert, ObserveFlap
  <2>2. CASE FinishProbe(w)
    <3>1. wpc[w] = "probing" /\ wpc' = [wpc EXCEPT ![w] = "save"] /\ job' = job
      BY <2>2 DEF FinishProbe
    <3>2. Busy(w) /\ "save" \in Steps /\ Rest["save"] < Rest[wpc[w]]
      BY <3>1, RestOf DEF Busy, Steps
    <3> QED BY <2>1, <3>1, <3>2, WorkerGoesOn
  <2>3. CASE Save(w)
    <3>1. wpc[w] = "save" /\ wpc' = [wpc EXCEPT ![w] = "observe"] /\ job' = job
      BY <2>3 DEF Save
    <3>2. Busy(w) /\ "observe" \in Steps /\ Rest["observe"] < Rest[wpc[w]]
      BY <3>1, RestOf DEF Busy, Steps
    <3> QED BY <2>1, <3>1, <3>2, WorkerGoesOn
  <2>4. CASE Observe(w)
    <3>1. wpc[w] = "observe" /\ job' = job
      BY <2>4 DEF Observe
    <3>2. \E p \in {"cert", "flap"} : wpc' = [wpc EXCEPT ![w] = p]
      BY <2>4 DEF Observe
    <3>3. PICK p \in {"cert", "flap"} : wpc' = [wpc EXCEPT ![w] = p]
      BY <3>2
    <3>4. Busy(w) /\ p \in Steps /\ Rest[p] < Rest[wpc[w]]
      BY <3>1, RestOf DEF Busy, Steps
    <3> QED BY <2>1, <3>1, <3>3, <3>4, WorkerGoesOn
  <2>5. CASE ObserveCert(w)
    <3>1. wpc[w] = "cert" /\ wpc' = [wpc EXCEPT ![w] = "flap"] /\ job' = job
      BY <2>5 DEF ObserveCert
    <3>2. Busy(w) /\ "flap" \in Steps /\ Rest["flap"] < Rest[wpc[w]]
      BY <3>1, RestOf DEF Busy, Steps
    <3> QED BY <2>1, <3>1, <3>2, WorkerGoesOn
  <2>6. CASE ObserveFlap(w)
    <3>1. /\ wpc[w] = "flap" /\ wpc' = [wpc EXCEPT ![w] = "recv"]
          /\ job' = [job EXCEPT ![w] = NoMonitor]
      BY <2>6 DEF ObserveFlap
    <3>2. Busy(w)
      BY <3>1 DEF Busy, Steps
    <3> QED BY <2>1, <3>1, <3>2, WorkerGoesOn
  <2> QED BY <1>4, <2>2, <2>3, <2>4, <2>5, <2>6 DEF WorkerStep
<1> QED BY <1>2, <1>3, <1>4, DispatchGoesOn DEF GoroutineStep

(* For any number of monitors and workers: every step of a goroutine of a    *)
(* batch takes something from what the batch has still to do, and adds       *)
(* nothing, whatever the ticker, a signal or the config watcher do           *)
(* meanwhile.  With finitely many monitors and workers that is finite, so    *)
(* no batch goes round in circles (scheduler.go, runOnce).                  *)
THEOREM BatchShrinks == Spec => Shrinks
<1>1. Tick \/ Cancel \/ Sync => Left' = Left
  BY DEF Tick, Cancel, Sync, batchVars, workerVars, loopVars, Left, StagesLeft, HasStage,
         Busy, ExitsLeft, WaitsLeft
<1>2. BInv => (GoroutineStep => LessLeft) /\ (Tick \/ Cancel \/ Sync => Left' = Left)
  BY <1>1, GoroutineShrinks
<1> QED BY <1>2, BInvInit, BInvNext, PTL DEF Spec, Shrinks

-----------------------------------------------------------------------------
(* The refinement of ProbePipeline.  The mapping picks the worker that holds *)
(* a monitor; BInv makes it unique, so the mapping is what AbsFacts says.    *)

AbsMap ==
  /\ \A w \in Workers : Busy(w) =>
       /\ job[w] \in Monitors
       /\ AbsStage(job[w]) = IF wpc[w] = "save" THEN "observe" ELSE wpc[w]
       /\ AbsResult(job[w]) = IF wpc[w] = "probing" THEN NoAnswer("none") ELSE res[w]
  /\ \A m \in Monitors : (\A w \in Workers : ~(Busy(w) /\ job[w] = m)) =>
       AbsStage(m) = "idle" /\ AbsResult(m) = NoAnswer("none")

LEMMA AbsFacts == BInv => AbsMap
<1> SUFFICES ASSUME BInv PROVE AbsMap
  OBVIOUS
<1>0. \A w \in Workers : job[w] \in Monitors <=> Busy(w)
  BY DEF BInv, TypeOK, JobHeld
<1>1. ASSUME NEW w \in Workers, Busy(w)
      PROVE  /\ job[w] \in Monitors
             /\ AbsStage(job[w]) = IF wpc[w] = "save" THEN "observe" ELSE wpc[w]
             /\ AbsResult(job[w]) =
                  IF wpc[w] = "probing" THEN NoAnswer("none") ELSE res[w]
  <2>1. \A v \in Workers : job[v] = job[w] => v = w
    BY <1>0, <1>1 DEF BInv, OneWorkerPerMonitor
  <2>2. Holder(job[w]) = w
    BY <2>1 DEF Holder
  <2>3. AbsStage(job[w]) = IF wpc[w] = "save" THEN "observe" ELSE wpc[w]
    BY <2>2 DEF AbsStage
  <2>4. AbsResult(job[w]) = IF wpc[w] = "probing" THEN NoAnswer("none") ELSE res[w]
    BY <2>1, <2>2 DEF AbsResult
  <2> QED BY <1>0, <1>1, <2>3, <2>4
<1>2. ASSUME NEW m \in Monitors, \A w \in Workers : ~(Busy(w) /\ job[w] = m)
      PROVE  AbsStage(m) = "idle" /\ AbsResult(m) = NoAnswer("none")
  <2>1. \A w \in Workers : job[w] # m
    BY <1>0, <1>2
  <2> QED BY <2>1 DEF AbsStage, AbsResult
<1> QED BY <1>1, <1>2 DEF AbsMap

(* A monitor whose holder does not move is not seen to move.                *)
LEMMA AbsFrame ==
  ASSUME AbsMap, AbsMap', NEW x \in Monitors,
         \A w \in Workers :
           /\ Busy(w) /\ job[w] = x <=> Busy(w)' /\ job'[w] = x
           /\ Busy(w) /\ job[w] = x => wpc'[w] = wpc[w] /\ res'[w] = res[w]
  PROVE  AbsStage(x)' = AbsStage(x) /\ AbsResult(x)' = AbsResult(x)
<1>1. CASE \A w \in Workers : ~(Busy(w) /\ job[w] = x)
  BY <1>1 DEF AbsMap
<1>2. CASE \E w \in Workers : Busy(w) /\ job[w] = x
  <2>1. PICK w \in Workers : Busy(w) /\ job[w] = x
    BY <1>2
  <2>2. Busy(w)' /\ job'[w] = x /\ wpc'[w] = wpc[w] /\ res'[w] = res[w]
    BY <2>1
  <2> QED BY <2>1, <2>2 DEF AbsMap
<1> QED BY <1>1, <1>2

(* The operators of Trackers as Scheduler sees them and as the instance of  *)
(* ProbePipeline does.                                                      *)
LEMMA SameOperators ==
  /\ Pipeline!ZeroResult = NoAnswer("none")
  /\ Pipeline!FreshTracker = FreshTracker
  /\ Pipeline!FreshFlap = FreshFlap
  /\ \A r : Pipeline!IsUp(r) = IsUp(r)
  /\ \A t, up : Pipeline!MachineObserve(t, up) = MachineObserve(t, up)
  /\ \A s, t : Pipeline!IsAlarm(s, t) = IsAlarm(s, t)
  /\ \A d, r : Pipeline!CertObserve(d, r) = CertObserve(d, r)
  /\ \A d, r : Pipeline!CertFires(d, r) = CertFires(d, r)
  /\ \A f, up : Pipeline!FlapObserve(f, up) = FlapObserve(f, up)
<1>1. /\ Pipeline!ZeroResult = NoAnswer("none")
      /\ Pipeline!FreshTracker = FreshTracker
      /\ Pipeline!FreshFlap = FreshFlap
  BY DEF Pipeline!ZeroResult, Pipeline!NoAnswer, NoAnswer, Pipeline!FreshTracker,
         FreshTracker, Pipeline!FreshFlap, FreshFlap
<1>2. \A r : Pipeline!IsUp(r) = IsUp(r)
  BY Zenon DEF Pipeline!IsUp, IsUp
<1>3. \A t, up : Pipeline!MachineObserve(t, up) = MachineObserve(t, up)
  BY Zenon DEF Pipeline!MachineObserve, MachineObserve
<1>4. \A s, t : Pipeline!IsAlarm(s, t) = IsAlarm(s, t)
  BY Zenon DEF Pipeline!IsAlarm, IsAlarm
<1>5. \A h : Pipeline!DaysLeft(h) = DaysLeft(h)
  BY Zenon DEF Pipeline!DaysLeft, DaysLeft
<1>6. \A d, r : Pipeline!CertObserve(d, r) = CertObserve(d, r)
  BY <1>5, Zenon DEF Pipeline!CertObserve, CertObserve
<1>7. \A d, r : Pipeline!CertFires(d, r) = CertFires(d, r)
  BY <1>6, Zenon DEF Pipeline!CertFires, CertFires
<1>8. \A w : Pipeline!Flips(w) = Flips(w)
  BY Zenon DEF Pipeline!Flips, Flips, Cardinality, Pipeline!Cardinality
<1>9. \A s, n : Pipeline!LastN(s, n) = LastN(s, n)
  BY Zenon DEF Pipeline!LastN, LastN
<1>10. \A f, up : Pipeline!FlapObserve(f, up) = FlapObserve(f, up)
  BY <1>8, <1>9, Zenon DEF Pipeline!FlapObserve, FlapObserve
<1> QED BY <1>1, <1>2, <1>3, <1>4, <1>6, <1>7, <1>10

LEMMA PipelineInit == Init => Pipeline!Init
<1> SUFFICES ASSUME Init PROVE Pipeline!Init
  OBVIOUS
<1>1. \A w \in Workers : ~Busy(w)
  BY DEF Init, Busy, Steps
<1>2. \A m \in Monitors : AbsStage(m) = "idle" /\ AbsResult(m) = NoAnswer("none")
  BY <1>1, AbsFacts, BInvInit DEF AbsMap
<1>3. /\ [m \in Monitors |-> AbsStage(m)] = [m \in Monitors |-> "idle"]
      /\ [m \in Monitors |-> AbsResult(m)] = [m \in Monitors |-> NoAnswer("none")]
  BY <1>2
<1>4. /\ track = [m \in Monitors |-> FreshTracker]
      /\ certWarned = [m \in Monitors |-> FALSE]
      /\ flap = [m \in Monitors |-> FreshFlap]
      /\ told = [m \in Monitors |-> <<>>]
      /\ certTold = [m \in Monitors |-> <<>>]
  BY DEF Init
<1> QED BY <1>3, <1>4, SameOperators, Zenon DEF Pipeline!Init

AbsStages == [m \in Monitors |-> AbsStage(m)]
AbsResults == [m \in Monitors |-> AbsResult(m)]

(* A step of probeOne by worker w moves the monitor w holds and no other.   *)
LEMMA AbsMove ==
  ASSUME BInv, AbsMap, AbsMap', NEW w \in Workers, Busy(w),
         NEW p, NEW r, NEW j,
         wpc' = [wpc EXCEPT ![w] = p],
         res' = [res EXCEPT ![w] = r],
         job' = [job EXCEPT ![w] = j],
         p = "recv" \/ (p \in Steps \ {"probing"} /\ j = job[w])
  PROVE  /\ job[w] \in Monitors
         /\ AbsStages' = [AbsStages EXCEPT ![job[w]] =
              IF p = "recv" THEN "idle" ELSE IF p = "save" THEN "observe" ELSE p]
         /\ AbsResults' = [AbsResults EXCEPT ![job[w]] =
              IF p = "recv" THEN NoAnswer("none") ELSE r]
\* m names the value of job[w] before the step.
<1>0. job[w] \in Monitors
  BY DEF BInv, TypeOK, JobHeld
<1>m. PICK m \in Monitors : m = job[w]
  BY <1>0
<1>1. /\ job[w] = m
      /\ wpc \in [Workers -> Idle \union Steps]
      /\ res \in [Workers -> Result]
      /\ job \in [Workers -> Monitors \union {NoMonitor}]
  BY <1>m DEF BInv, TypeOK
<1>2. \A v \in Workers : Busy(v) /\ job[v] = m => v = w
  BY <1>m DEF BInv, OneWorkerPerMonitor
<1>3. wpc'[w] = p /\ res'[w] = r /\ job'[w] = j
  BY <1>1
<1>4. \A v \in Workers : v # w =>
        wpc'[v] = wpc[v] /\ res'[v] = res[v] /\ job'[v] = job[v]
  BY <1>1
<1>5. \A v \in Workers : v # w => (Busy(v)' <=> Busy(v))
  BY <1>4 DEF Busy
<1>6. Busy(w)' <=> p # "recv"
  BY <1>3 DEF Busy, Steps
<1>7. ASSUME NEW x \in Monitors, x # m
      PROVE  AbsStage(x)' = AbsStage(x) /\ AbsResult(x)' = AbsResult(x)
  <2>1. \A v \in Workers :
          /\ Busy(v) /\ job[v] = x <=> Busy(v)' /\ job'[v] = x
          /\ Busy(v) /\ job[v] = x => wpc'[v] = wpc[v] /\ res'[v] = res[v]
    BY <1>1, <1>3, <1>4, <1>5, <1>6, <1>7
  <2> QED BY <2>1, AbsFrame
<1>8. CASE p = "recv"
  <2>1. \A v \in Workers : ~(Busy(v)' /\ job'[v] = m)
    BY <1>2, <1>4, <1>5, <1>6, <1>8
  <2>2. AbsStage(m)' = "idle" /\ AbsResult(m)' = NoAnswer("none")
    BY <1>1, <2>1 DEF AbsMap
  <2> QED BY <1>0, <1>1, <1>7, <1>8, <2>2 DEF AbsStages, AbsResults
<1>9. CASE p \in Steps \ {"probing"} /\ j = job[w]
  <2>1. Busy(w)' /\ job'[w] = m /\ p # "recv"
    BY <1>1, <1>3, <1>6, <1>9 DEF Steps
  <2>2. /\ AbsStage(m)' = IF p = "save" THEN "observe" ELSE p
        /\ AbsResult(m)' = r
    BY <1>3, <1>9, <2>1 DEF AbsMap
  <2> QED BY <1>0, <1>1, <1>7, <2>1, <2>2 DEF AbsStages, AbsResults
<1> QED BY <1>8, <1>9

(* A step that moves no busy worker is not seen.                            *)
LEMMA AbsStutter ==
  ASSUME AbsMap, AbsMap', job' = job, res' = res,
         \A w \in Workers : /\ Busy(w)' <=> Busy(w)
                            /\ Busy(w) => wpc'[w] = wpc[w]
  PROVE  UNCHANGED <<AbsStages, AbsResults>>
<1>1. ASSUME NEW x \in Monitors
      PROVE  AbsStage(x)' = AbsStage(x) /\ AbsResult(x)' = AbsResult(x)
  BY AbsFrame
<1> QED BY <1>1 DEF AbsStages, AbsResults

LEMMA PipelineStep == BInv /\ [Next]_vars => [Pipeline!Next]_(Pipeline!vars)
<1> SUFFICES ASSUME BInv, [Next]_vars
             PROVE  Pipeline!Next \/ UNCHANGED Pipeline!vars
  OBVIOUS
<1>1. BInv'
  BY BInvNext
<1>2. AbsMap
  BY AbsFacts
<1>3. AbsMap'
  BY <1>1, AbsFacts, PTL
<1>5. /\ wpc \in [Workers -> Idle \union Steps]
      /\ res \in [Workers -> Result]
      /\ job \in [Workers -> Monitors \union {NoMonitor}]
  BY DEF BInv, TypeOK
<1>6. \A w \in Workers : Busy(w) => AbsStages[job[w]] =
          (IF wpc[w] = "save" THEN "observe" ELSE wpc[w])
        /\ AbsResults[job[w]] = IF wpc[w] = "probing" THEN NoAnswer("none") ELSE res[w]
  BY <1>2 DEF AbsMap, AbsStages, AbsResults
<1> USE DEF Busy, Steps, Idle, trackerVars, workerVars, loopVars, batchVars
\* Steps of the loop, the dispatchers and the surroundings.
<1>7. ASSUME \/ ListErr \/ CloseJobs \/ Join \/ RunTick \/ RunStop
             \/ \E m \in Monitors : JitterOver(m) \/ AbandonDispatch(m)
             \/ Tick \/ Cancel \/ Sync \/ UNCHANGED vars
      PROVE  UNCHANGED Pipeline!vars
  <2>1. UNCHANGED <<wpc, job, res, track, certWarned, flap, told, certTold>>
    BY <1>7 DEF ListErr, CloseJobs, Join, RunTick, RunStop, JitterOver,
                AbandonDispatch, Tick, Cancel, Sync, vars
  <2>2. \A w \in Workers : /\ Busy(w)' <=> Busy(w)
                           /\ Busy(w) => wpc'[w] = wpc[w]
    BY <2>1
  <2>3. UNCHANGED <<AbsStages, AbsResults>>
    BY <1>2, <1>3, <2>1, <2>2, AbsStutter
  <2> QED BY <2>1, <2>3 DEF Pipeline!vars, AbsStages, AbsResults
\* Workers come and go.
<1>8. ASSUME ListOk \/ \E w \in Workers : WorkerExit(w)
      PROVE  UNCHANGED Pipeline!vars
  <2>1. UNCHANGED <<job, res, track, certWarned, flap, told, certTold>>
    BY <1>8 DEF ListOk, WorkerExit
  <2>2. \A w \in Workers : /\ Busy(w)' <=> Busy(w)
                           /\ Busy(w) => wpc'[w] = wpc[w]
    BY <1>5, <1>8 DEF ListOk, WorkerExit
  <2>3. UNCHANGED <<AbsStages, AbsResults>>
    BY <1>2, <1>3, <2>1, <2>2, AbsStutter
  <2> QED BY <2>1, <2>3 DEF Pipeline!vars, AbsStages, AbsResults
<1>9. ASSUME NEW m \in Monitors, NEW w \in Workers, Handoff(m, w)
      PROVE  Pipeline!StartProbe(m)
  <2>1. /\ wpc[w] = "recv" /\ disp[m] = "send"
        /\ wpc' = [wpc EXCEPT ![w] = "probing"]
        /\ job' = [job EXCEPT ![w] = m]
        /\ \E r : res' = [res EXCEPT ![w] = r]
        /\ UNCHANGED <<track, certWarned, flap, told, certTold>>
    BY <1>9 DEF Handoff
  <2>2. \A v \in Workers : ~(Busy(v) /\ job[v] = m)
    BY <2>1 DEF BInv, OneWorkerPerMonitor, Holders
  <2>3. AbsStage(m) = "idle" /\ AbsResult(m) = NoAnswer("none")
    BY <1>2, <2>2 DEF AbsMap
  <2>4. Busy(w)' /\ wpc'[w] = "probing" /\ job'[w] = m
    BY <1>5, <2>1
  <2>5. AbsStage(m)' = "probing" /\ AbsResult(m)' = NoAnswer("none")
    BY <1>3, <2>4 DEF AbsMap
  <2>6. ASSUME NEW x \in Monitors, x # m
        PROVE  AbsStage(x)' = AbsStage(x) /\ AbsResult(x)' = AbsResult(x)
    <3>1. \A v \in Workers :
            /\ Busy(v) /\ job[v] = x <=> Busy(v)' /\ job'[v] = x
            /\ Busy(v) /\ job[v] = x => wpc'[v] = wpc[v] /\ res'[v] = res[v]
      BY <1>5, <2>1, <2>4, <2>6
    <3> QED BY <1>2, <1>3, <3>1, AbsFrame
  <2>7. /\ AbsStages[m] = "idle"
        /\ AbsStages' = [AbsStages EXCEPT ![m] = "probing"]
        /\ AbsResults' = AbsResults
    BY <2>3, <2>5, <2>6 DEF AbsStages, AbsResults
  <2> QED BY <2>1, <2>7 DEF Pipeline!StartProbe, AbsStages, AbsResults
<1>10. ASSUME NEW w \in Workers, FinishProbe(w) PROVE Pipeline!FinishProbe(job[w])
  <2>1. PICK r \in Outcomes(w) : res' = [res EXCEPT ![w] = r]
    BY <1>10 DEF FinishProbe
  <2>2. /\ wpc[w] = "probing" /\ Busy(w)
        /\ wpc' = [wpc EXCEPT ![w] = "save"]
        /\ job' = [job EXCEPT ![w] = job[w]]
        /\ UNCHANGED <<track, certWarned, flap, told, certTold>>
    BY <1>5, <1>10 DEF FinishProbe
  <2>3. r \in Pipeline!ProbeResults
    BY OutcomesType
  <2>4. /\ job[w] \in Monitors
        /\ AbsStages[job[w]] = "probing"
        /\ AbsStages' = [AbsStages EXCEPT ![job[w]] = "observe"]
        /\ AbsResults' = [AbsResults EXCEPT ![job[w]] = r]
    BY <1>2, <1>3, <1>6, <2>1, <2>2, AbsMove
  <2> QED BY <2>2, <2>3, <2>4 DEF Pipeline!FinishProbe, AbsStages, AbsResults
<1>11. ASSUME NEW w \in Workers, Save(w) PROVE UNCHANGED Pipeline!vars
  <2>1. /\ wpc[w] = "save" /\ Busy(w)
        /\ wpc' = [wpc EXCEPT ![w] = "observe"]
        /\ res' = [res EXCEPT ![w] = res[w]]
        /\ job' = [job EXCEPT ![w] = job[w]]
        /\ UNCHANGED <<track, certWarned, flap, told, certTold>>
    BY <1>5, <1>11 DEF Save
  <2>2. /\ job[w] \in Monitors
        /\ AbsStages' = [AbsStages EXCEPT ![job[w]] = "observe"]
        /\ AbsResults' = [AbsResults EXCEPT ![job[w]] = res[w]]
    BY <1>2, <1>3, <2>1, AbsMove
  <2>3. AbsStages[job[w]] = "observe" /\ AbsResults[job[w]] = res[w]
    BY <1>6, <2>1
  <2>4. UNCHANGED <<AbsStages, AbsResults>>
    BY <2>2, <2>3 DEF AbsStages, AbsResults
  <2> QED BY <2>1, <2>4 DEF Pipeline!vars, AbsStages, AbsResults
<1>12. ASSUME NEW w \in Workers, Observe(w) PROVE Pipeline!Observe(job[w])
  <2> DEFINE p == IF res[w].hasCert THEN "cert" ELSE "flap"
  <2>1. /\ wpc[w] = "observe" /\ Busy(w)
        /\ wpc' = [wpc EXCEPT ![w] = p]
        /\ res' = [res EXCEPT ![w] = res[w]]
        /\ job' = [job EXCEPT ![w] = job[w]]
        /\ UNCHANGED <<certWarned, flap, certTold>>
    BY <1>5, <1>12 DEF Observe
  <2>2. p \in {"cert", "flap"}
    OBVIOUS
  <2>3. /\ job[w] \in Monitors
        /\ AbsStages' = [AbsStages EXCEPT ![job[w]] = p]
        /\ AbsResults' = [AbsResults EXCEPT ![job[w]] = res[w]]
    <3> HIDE DEF p
    <3> QED BY <1>2, <1>3, <2>1, <2>2, AbsMove, ZenonT(60)
  <2>4. AbsStages[job[w]] = "observe" /\ AbsResults[job[w]] = res[w]
    BY <1>6, <2>1
  <2>5. AbsResults' = AbsResults
    BY <2>3, <2>4 DEF AbsResults
  <2>6. LET next == MachineObserve(track[job[w]], IsUp(res[w]))
        IN  /\ track' = [track EXCEPT ![job[w]] = next]
            /\ told' = [told EXCEPT ![job[w]] =
                 IF IsAlarm(track[job[w]].state, next.state)
                 THEN Pipeline!Announce(@, next.state) ELSE @]
    BY <1>12 DEF Observe
  <2> QED BY <2>1, <2>3, <2>4, <2>5, <2>6, SameOperators
          DEF Pipeline!Observe, AbsStages, AbsResults
<1>13. ASSUME NEW w \in Workers, ObserveCert(w) PROVE Pipeline!ObserveCert(job[w])
  <2>1. /\ wpc[w] = "cert" /\ Busy(w)
        /\ wpc' = [wpc EXCEPT ![w] = "flap"]
        /\ res' = [res EXCEPT ![w] = res[w]]
        /\ job' = [job EXCEPT ![w] = job[w]]
        /\ UNCHANGED <<track, flap, told>>
    BY <1>5, <1>13 DEF ObserveCert
  <2>2. /\ job[w] \in Monitors
        /\ AbsStages' = [AbsStages EXCEPT ![job[w]] = "flap"]
        /\ AbsResults' = [AbsResults EXCEPT ![job[w]] = res[w]]
    BY <1>2, <1>3, <2>1, AbsMove
  <2>3. AbsStages[job[w]] = "cert" /\ AbsResults[job[w]] = res[w]
    BY <1>6, <2>1
  <2>4. AbsResults' = AbsResults
    BY <2>2, <2>3 DEF AbsResults
  <2>5. /\ certWarned' = [certWarned EXCEPT ![job[w]] = CertObserve(@, res[w])]
        /\ certTold' = [certTold EXCEPT ![job[w]] =
             Pipeline!CertNews(@, certWarned[job[w]], res[w])]
    BY <1>13 DEF ObserveCert
  <2> QED BY <2>1, <2>2, <2>3, <2>4, <2>5, SameOperators
          DEF Pipeline!ObserveCert, AbsStages, AbsResults
<1>14. ASSUME NEW w \in Workers, ObserveFlap(w) PROVE Pipeline!ObserveFlap(job[w])
  <2>1. /\ wpc[w] = "flap" /\ Busy(w)
        /\ wpc' = [wpc EXCEPT ![w] = "recv"]
        /\ res' = [res EXCEPT ![w] = NoAnswer("none")]
        /\ job' = [job EXCEPT ![w] = NoMonitor]
        /\ UNCHANGED <<track, certWarned, told, certTold>>
    BY <1>14 DEF ObserveFlap
  <2>2. /\ job[w] \in Monitors
        /\ AbsStages' = [AbsStages EXCEPT ![job[w]] = "idle"]
        /\ AbsResults' = [AbsResults EXCEPT ![job[w]] = NoAnswer("none")]
    BY <1>2, <1>3, <2>1, AbsMove
  <2>3. AbsStages[job[w]] = "flap" /\ AbsResults[job[w]] = res[w]
    BY <1>6, <2>1
  <2>4. flap' = [flap EXCEPT ![job[w]] = FlapObserve(@, IsUp(res[w]))]
    BY <1>14 DEF ObserveFlap
  <2> QED BY <2>1, <2>2, <2>3, <2>4, SameOperators
          DEF Pipeline!ObserveFlap, AbsStages, AbsResults
<1>15. ASSUME Restart PROVE Pipeline!Restart
  <2>1. \A w \in Workers : ~Busy(w)'
    BY <1>15 DEF Restart
  <2>2. \A m \in Monitors : AbsStage(m)' = "idle" /\ AbsResult(m)' = NoAnswer("none")
    BY <1>3, <2>1 DEF AbsMap
  <2>3. /\ AbsStages' = [m \in Monitors |-> "idle"]
        /\ AbsResults' = [m \in Monitors |-> NoAnswer("none")]
    BY <2>2 DEF AbsStages, AbsResults
  <2>4. /\ track' = [m \in Monitors |-> FreshTracker]
        /\ certWarned' = [m \in Monitors |-> FALSE]
        /\ flap' = [m \in Monitors |-> FreshFlap]
        /\ certTold' = [m \in Monitors |-> Pipeline!CertForgotten(certTold[m])]
        /\ UNCHANGED told
    BY <1>15 DEF Restart
  <2> QED BY <2>3, <2>4, SameOperators, Zenon
          DEF Pipeline!Restart, AbsStages, AbsResults
<1>16. \A w \in Workers : Busy(w) => job[w] \in Monitors
  BY <1>2 DEF AbsMap
<1>17. ASSUME NEW w \in Workers, WorkerStep(w) PROVE job[w] \in Monitors
  BY <1>16, <1>17 DEF WorkerStep, FinishProbe, Save, Observe, ObserveCert, ObserveFlap
<1> QED BY <1>7, <1>8, <1>9, <1>10, <1>11, <1>12, <1>13, <1>14, <1>15, <1>17
        DEF Next, WorkerStep, Pipeline!Next

(* Every behaviour of the goroutine pool is one of ProbePipeline: what is   *)
(* proved of states and alerts there holds of the concurrent scheduler.     *)
THEOREM ImplementsPipeline == Spec => PipelineSpec
BY BInvInit, BInvNext, PipelineInit, PipelineStep, PTL
   DEF Spec, PipelineSpec, Pipeline!Spec
=============================================================================
