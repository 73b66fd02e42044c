---------------------------- MODULE Daemon_proofs ----------------------------
(***************************************************************************)
(* Theorems about Daemon, for every queue size.                             *)
(***************************************************************************)
EXTENDS Daemon, TLAPS

LEMMA WaitOrder ==
  /\ Waits = {"api", "scheduler", "retention", "watcher", "drained"}
  /\ AfterWait["api"] = "scheduler" /\ AfterWait["scheduler"] = "retention"
  /\ AfterWait["retention"] = "watcher" /\ AfterWait["watcher"] = "drain"
  /\ AfterWait["drained"] = "close"
BY DEF Waits, AfterWait

-----------------------------------------------------------------------------
(* The inductive invariant: a wait that lies behind run ended with what it   *)
(* waited for, or its timeout is on record; and the store and the notifier   *)
(* are usable until run has got past the last of their users.                *)

AfterDrain == {"close", "return", "exited"}
AfterWatcher == {"drain", "drained", "close", "return", "exited"}
AfterRetention == {"watcher", "drain", "drained", "close", "return", "exited"}
AfterScheduler == {"retention", "watcher", "drain", "drained", "close", "return", "exited"}
AfterAPI == {"scheduler", "retention", "watcher", "drain", "drained", "close",
             "return", "exited"}

Honoured ==
  /\ main \in AfterAPI => handler = "idle" \/ "api" \in overstayed
  /\ main \in AfterScheduler => wr["scheduler"] = "done" \/ "scheduler" \in overstayed
  /\ main \in AfterRetention => wr["retention"] = "done" \/ "retention" \in overstayed
  /\ main \in AfterWatcher => wr["watcher"] = "done" \/ "watcher" \in overstayed

Drained ==
  /\ main \in AfterDrain => queued = 0 \/ "drained" \in overstayed
  /\ closed <=> main \in AfterDrain \union {"drained"}

StoreLife ==
  /\ ~storeOpen => main \in {"config", "listener", "storage", "return", "exited", "fatal"}
  /\ storeOpen => main \notin {"return", "exited"}

NotStarted ==
  main \in BootSteps => handler = "idle" /\ \A w \in Writers : wr[w] = "off"

Inv == TypeOK /\ Honoured /\ Drained /\ StoreLife /\ NotStarted /\ LateIsReported

LEMMA InvInit == Init => Inv
<1> SUFFICES ASSUME Init PROVE Inv
  OBVIOUS
<1>1. wr \in [Writers -> {"off", "running", "writing", "done"}] /\ main \in Positions
  BY DEF Init, Positions
<1>2. overstayed \subseteq Waits /\ late \subseteq Waits /\ queued \in 0 .. Cap
  BY CapAssumption DEF Init
<1>3. TypeOK
  BY <1>1, <1>2 DEF Init, TypeOK
<1>4. Honoured /\ Drained
  BY DEF Init, Honoured, Drained, AfterAPI, AfterScheduler, AfterRetention,
         AfterWatcher, AfterDrain
<1>5. StoreLife /\ NotStarted /\ LateIsReported
  BY DEF Init, StoreLife, NotStarted, LateIsReported, BootSteps
<1> QED BY <1>3, <1>4, <1>5 DEF Inv

LEMMA TypeOKNext == Inv /\ [Next]_vars => TypeOK'
<1> SUFFICES ASSUME Inv, [Next]_vars PROVE TypeOK'
  OBVIOUS
<1> USE WaitOrder, CapAssumption DEF Inv, TypeOK, Positions, workVars, ghostVars, Live
<1>1. ASSUME LoadConfig \/ InitializeListener \/ InitializeStorage PROVE TypeOK'
  BY <1>1 DEF LoadConfig, InitializeListener, InitializeStorage
<1>2. ASSUME StartWorkers PROVE TypeOK'
  BY <1>2 DEF StartWorkers
<1>3. ASSUME Fatal \/ Signal \/ BeginShutdown PROVE TypeOK'
  BY <1>3 DEF Fatal, Signal, BeginShutdown
<1>4. ASSUME NEW w \in Waits, Stopped(w) PROVE TypeOK'
  BY <1>4 DEF Stopped, Ended
<1>5. ASSUME NEW w \in Waits, Overstays(w) PROVE TypeOK'
  BY <1>5 DEF Overstays
<1>6. ASSUME CloseNotifier \/ CloseStore \/ Exit PROVE TypeOK'
  BY <1>6 DEF CloseNotifier, CloseStore, Exit
<1>7. ASSUME NEW w \in Writers, BeginWrite(w) PROVE TypeOK'
  BY <1>7 DEF BeginWrite
<1>8. ASSUME NEW w \in Writers, EndWrite(w) PROVE TypeOK'
  <2>1. w \in Waits
    BY DEF Writers
  <2>2. late' \subseteq Waits
    BY <1>8, <2>1 DEF EndWrite
  <2> QED BY <1>8, <2>2 DEF EndWrite
<1>9. ASSUME NEW w \in Writers, Return(w) PROVE TypeOK'
  BY <1>9 DEF Return
<1>10. ASSUME RaiseAlert PROVE TypeOK'
  BY <1>10 DEF RaiseAlert
<1>11. ASSUME DeliverAlert PROVE TypeOK'
  BY <1>11 DEF DeliverAlert
<1>12. ASSUME BeginRequest \/ EndRequest PROVE TypeOK'
  BY <1>12 DEF BeginRequest, EndRequest
<1>13. CASE UNCHANGED vars
  BY <1>13 DEF vars
<1> HIDE DEF Inv, TypeOK
<1> QED BY <1>1, <1>2, <1>3, <1>4, <1>5, <1>6, <1>7, <1>8, <1>9, <1>10, <1>11,
           <1>12, <1>13 DEF Next, MainStep

LEMMA HonouredNext == Inv /\ [Next]_vars => Honoured'
<1> SUFFICES ASSUME Inv, [Next]_vars PROVE Honoured'
  OBVIOUS
<1> USE WaitOrder DEF Inv, Honoured, TypeOK, Writers, NotStarted, BootSteps, AfterAPI, AfterScheduler, AfterRetention,
        AfterWatcher, workVars, ghostVars, Live
<1>1. ASSUME LoadConfig \/ InitializeListener \/ InitializeStorage PROVE Honoured'
  BY <1>1 DEF LoadConfig, InitializeListener, InitializeStorage
<1>2. ASSUME StartWorkers PROVE Honoured'
  BY <1>2 DEF StartWorkers
<1>3. ASSUME Fatal \/ Signal \/ BeginShutdown PROVE Honoured'
  BY <1>3 DEF Fatal, Signal, BeginShutdown
<1>4. ASSUME NEW w \in Waits, Stopped(w) PROVE Honoured'
  BY <1>4 DEF Stopped, Ended
<1>5. ASSUME NEW w \in Waits, Overstays(w) PROVE Honoured'
  BY <1>5 DEF Overstays
<1>6. ASSUME CloseNotifier \/ CloseStore \/ Exit PROVE Honoured'
  BY <1>6 DEF CloseNotifier, CloseStore, Exit
<1>7. ASSUME NEW w \in Writers, BeginWrite(w) PROVE Honoured'
  BY <1>7 DEF BeginWrite
<1>8. ASSUME NEW w \in Writers, EndWrite(w) PROVE Honoured'
  BY <1>8 DEF EndWrite
<1>9. ASSUME NEW w \in Writers, Return(w) PROVE Honoured'
  BY <1>9 DEF Return
<1>10. ASSUME RaiseAlert PROVE Honoured'
  BY <1>10 DEF RaiseAlert
<1>11. ASSUME DeliverAlert PROVE Honoured'
  BY <1>11 DEF DeliverAlert
<1>12. ASSUME BeginRequest \/ EndRequest PROVE Honoured'
  BY <1>12 DEF BeginRequest, EndRequest
<1>13. CASE UNCHANGED vars
  BY <1>13 DEF vars
<1> HIDE DEF Inv, Honoured
<1> QED BY <1>1, <1>2, <1>3, <1>4, <1>5, <1>6, <1>7, <1>8, <1>9, <1>10, <1>11,
           <1>12, <1>13 DEF Next, MainStep

LEMMA DrainedNext == Inv /\ [Next]_vars => Drained'
<1> SUFFICES ASSUME Inv, [Next]_vars PROVE Drained'
  OBVIOUS
<1> USE WaitOrder DEF Inv, Drained, TypeOK, AfterDrain, BootSteps, workVars, ghostVars, Live
<1>1. ASSUME LoadConfig \/ InitializeListener \/ InitializeStorage PROVE Drained'
  BY <1>1 DEF LoadConfig, InitializeListener, InitializeStorage
<1>2. ASSUME StartWorkers PROVE Drained'
  BY <1>2 DEF StartWorkers
<1>3. ASSUME Fatal \/ Signal \/ BeginShutdown PROVE Drained'
  BY <1>3 DEF Fatal, Signal, BeginShutdown
<1>4. ASSUME NEW w \in Waits, Stopped(w) PROVE Drained'
  <2>1. CASE w = "drained"
    <3>1. main = "drained" /\ main' = "close" /\ closed' = closed /\ queued' = queued
      BY <1>4, <2>1 DEF Stopped
    <3>2. queued = 0 /\ closed
      BY <1>4, <2>1, <3>1 DEF Stopped, Ended, Writers
    <3> QED BY <3>1, <3>2
  <2>2. CASE w # "drained"
    <3>1. main' \in {"scheduler", "retention", "watcher", "drain"} /\ ~closed
      BY <1>4, <2>2 DEF Stopped
    <3> QED BY <1>4, <3>1 DEF Stopped
  <2> QED BY <2>1, <2>2
<1>5. ASSUME NEW w \in Waits, Overstays(w) PROVE Drained'
  <2>1. CASE w = "drained"
    <3>1. main = "drained" /\ main' = "close" /\ closed' = closed
      BY <1>5, <2>1 DEF Overstays
    <3>2. "drained" \in overstayed'
      BY <1>5, <2>1 DEF Overstays
    <3> QED BY <3>1, <3>2
  <2>2. CASE w # "drained"
    <3>1. main' \in {"scheduler", "retention", "watcher", "drain"} /\ ~closed
      BY <1>5, <2>2 DEF Overstays
    <3> QED BY <1>5, <3>1 DEF Overstays
  <2> QED BY <2>1, <2>2
<1>6. ASSUME CloseNotifier \/ CloseStore \/ Exit PROVE Drained'
  BY <1>6 DEF CloseNotifier, CloseStore, Exit
<1>7. ASSUME NEW w \in Writers, BeginWrite(w) PROVE Drained'
  BY <1>7 DEF BeginWrite
<1>8. ASSUME NEW w \in Writers, EndWrite(w) PROVE Drained'
  BY <1>8 DEF EndWrite
<1>9. ASSUME NEW w \in Writers, Return(w) PROVE Drained'
  BY <1>9 DEF Return
<1>10. ASSUME RaiseAlert PROVE Drained'
  BY <1>10 DEF RaiseAlert
<1>11. ASSUME DeliverAlert PROVE Drained'
  BY <1>11 DEF DeliverAlert
<1>12. ASSUME BeginRequest \/ EndRequest PROVE Drained'
  BY <1>12 DEF BeginRequest, EndRequest
<1>13. CASE UNCHANGED vars
  BY <1>13 DEF vars
<1> HIDE DEF Inv, Drained
<1> QED BY <1>1, <1>2, <1>3, <1>4, <1>5, <1>6, <1>7, <1>8, <1>9, <1>10, <1>11,
           <1>12, <1>13 DEF Next, MainStep

LEMMA StoreLifeNext == Inv /\ [Next]_vars => StoreLife'
<1> SUFFICES ASSUME Inv, [Next]_vars PROVE StoreLife'
  OBVIOUS
<1> USE WaitOrder DEF Inv, StoreLife, BootSteps, workVars, ghostVars, Live
<1>1. ASSUME LoadConfig \/ InitializeListener \/ InitializeStorage PROVE StoreLife'
  BY <1>1 DEF LoadConfig, InitializeListener, InitializeStorage
<1>2. ASSUME StartWorkers PROVE StoreLife'
  BY <1>2 DEF StartWorkers
<1>3. ASSUME Fatal \/ Signal \/ BeginShutdown PROVE StoreLife'
  BY <1>3 DEF Fatal, Signal, BeginShutdown
<1>4. ASSUME NEW w \in Waits, Stopped(w) PROVE StoreLife'
  BY <1>4 DEF Stopped, Ended
<1>5. ASSUME NEW w \in Waits, Overstays(w) PROVE StoreLife'
  BY <1>5 DEF Overstays
<1>6. ASSUME CloseNotifier \/ CloseStore \/ Exit PROVE StoreLife'
  BY <1>6 DEF CloseNotifier, CloseStore, Exit
<1>7. ASSUME NEW w \in Writers, BeginWrite(w) PROVE StoreLife'
  BY <1>7 DEF BeginWrite
<1>8. ASSUME NEW w \in Writers, EndWrite(w) PROVE StoreLife'
  BY <1>8 DEF EndWrite
<1>9. ASSUME NEW w \in Writers, Return(w) PROVE StoreLife'
  BY <1>9 DEF Return
<1>10. ASSUME RaiseAlert PROVE StoreLife'
  BY <1>10 DEF RaiseAlert
<1>11. ASSUME DeliverAlert PROVE StoreLife'
  BY <1>11 DEF DeliverAlert
<1>12. ASSUME BeginRequest \/ EndRequest PROVE StoreLife'
  BY <1>12 DEF BeginRequest, EndRequest
<1>13. CASE UNCHANGED vars
  BY <1>13 DEF vars
<1> HIDE DEF Inv, StoreLife
<1> QED BY <1>1, <1>2, <1>3, <1>4, <1>5, <1>6, <1>7, <1>8, <1>9, <1>10, <1>11,
           <1>12, <1>13 DEF Next, MainStep

LEMMA NotStartedNext == Inv /\ [Next]_vars => NotStarted'
<1> SUFFICES ASSUME Inv, [Next]_vars PROVE NotStarted'
  OBVIOUS
<1> USE WaitOrder DEF Inv, NotStarted, BootSteps, workVars, ghostVars, Live
<1>1. ASSUME LoadConfig \/ InitializeListener \/ InitializeStorage PROVE NotStarted'
  BY <1>1 DEF LoadConfig, InitializeListener, InitializeStorage
<1>2. ASSUME StartWorkers PROVE NotStarted'
  BY <1>2 DEF StartWorkers
<1>3. ASSUME Fatal \/ Signal \/ BeginShutdown PROVE NotStarted'
  BY <1>3 DEF Fatal, Signal, BeginShutdown
<1>4. ASSUME NEW w \in Waits, Stopped(w) PROVE NotStarted'
  BY <1>4 DEF Stopped, Ended
<1>5. ASSUME NEW w \in Waits, Overstays(w) PROVE NotStarted'
  BY <1>5 DEF Overstays
<1>6. ASSUME CloseNotifier \/ CloseStore \/ Exit PROVE NotStarted'
  BY <1>6 DEF CloseNotifier, CloseStore, Exit
<1>7. ASSUME NEW w \in Writers, BeginWrite(w) PROVE NotStarted'
  BY <1>7 DEF BeginWrite
<1>8. ASSUME NEW w \in Writers, EndWrite(w) PROVE NotStarted'
  BY <1>8 DEF EndWrite
<1>9. ASSUME NEW w \in Writers, Return(w) PROVE NotStarted'
  BY <1>9 DEF Return
<1>10. ASSUME RaiseAlert PROVE NotStarted'
  BY <1>10 DEF RaiseAlert
<1>11. ASSUME DeliverAlert PROVE NotStarted'
  BY <1>11 DEF DeliverAlert
<1>12. ASSUME BeginRequest \/ EndRequest PROVE NotStarted'
  BY <1>12 DEF BeginRequest, EndRequest
<1>13. CASE UNCHANGED vars
  BY <1>13 DEF vars
<1> HIDE DEF Inv, NotStarted
<1> QED BY <1>1, <1>2, <1>3, <1>4, <1>5, <1>6, <1>7, <1>8, <1>9, <1>10, <1>11,
           <1>12, <1>13 DEF Next, MainStep

LEMMA LateIsReportedNext == Inv /\ [Next]_vars => LateIsReported'
<1> SUFFICES ASSUME Inv, [Next]_vars PROVE LateIsReported'
  OBVIOUS
<1> USE DEF Inv, LateIsReported, workVars, ghostVars
<1>1. ASSUME LoadConfig \/ InitializeListener \/ InitializeStorage PROVE LateIsReported'
  BY <1>1 DEF LoadConfig, InitializeListener, InitializeStorage
<1>2. ASSUME StartWorkers PROVE LateIsReported'
  BY <1>2 DEF StartWorkers
<1>3. ASSUME Fatal \/ Signal \/ BeginShutdown PROVE LateIsReported'
  BY <1>3 DEF Fatal, Signal, BeginShutdown
<1>4. ASSUME NEW w \in Waits, Stopped(w) PROVE LateIsReported'
  BY <1>4 DEF Stopped, Ended
<1>5. ASSUME NEW w \in Waits, Overstays(w) PROVE LateIsReported'
  BY <1>5 DEF Overstays
<1>6. ASSUME CloseNotifier \/ CloseStore \/ Exit PROVE LateIsReported'
  BY <1>6 DEF CloseNotifier, CloseStore, Exit
<1>7. ASSUME NEW w \in Writers, BeginWrite(w) PROVE LateIsReported'
  BY <1>7 DEF BeginWrite
<1>8. ASSUME NEW w \in Writers, EndWrite(w) PROVE LateIsReported'
  <2>1. CASE storeOpen
    BY <1>8, <2>1 DEF EndWrite
  <2>2. CASE ~storeOpen
    <3>1. wr[w] = "writing" /\ main \in {"return", "exited"}
      BY <1>8, <2>2 DEF EndWrite, Live, StoreLife, NotStarted, BootSteps
    <3>2. w \in overstayed
      BY <3>1 DEF Honoured, Writers, AfterScheduler, AfterRetention, AfterWatcher
    <3> QED BY <1>8, <3>2 DEF EndWrite
  <2> QED BY <2>1, <2>2
<1>9. ASSUME NEW w \in Writers, Return(w) PROVE LateIsReported'
  BY <1>9 DEF Return
<1>10. ASSUME RaiseAlert PROVE LateIsReported'
  <2>1. closed => "scheduler" \in overstayed
    BY <1>10 DEF RaiseAlert, Drained, Honoured, AfterDrain, AfterScheduler
  <2> QED BY <1>10, <2>1 DEF RaiseAlert
<1>11. ASSUME DeliverAlert PROVE LateIsReported'
  BY <1>11 DEF DeliverAlert
<1>12. ASSUME BeginRequest \/ EndRequest PROVE LateIsReported'
  <2>1. CASE storeOpen /\ EndRequest
    BY <2>1 DEF EndRequest
  <2>2. CASE ~storeOpen /\ EndRequest
    <3>1. handler = "reading" /\ main \in {"return", "exited"}
      BY <2>2 DEF EndRequest, Live, StoreLife, NotStarted, BootSteps
    <3>2. "api" \in overstayed
      BY <3>1 DEF Honoured, AfterAPI
    <3> QED BY <2>2, <3>2 DEF EndRequest
  <2>3. CASE BeginRequest
    BY <2>3 DEF BeginRequest
  <2> QED BY <1>12, <2>1, <2>2, <2>3
<1>13. CASE UNCHANGED vars
  BY <1>13 DEF vars
<1> HIDE DEF Inv, LateIsReported
<1> QED BY <1>1, <1>2, <1>3, <1>4, <1>5, <1>6, <1>7, <1>8, <1>9, <1>10, <1>11,
           <1>12, <1>13 DEF Next, MainStep

LEMMA InvNext == Inv /\ [Next]_vars => Inv'
BY TypeOKNext, HonouredNext, DrainedNext, StoreLifeNext, NotStartedNext,
   LateIsReportedNext DEF Inv

-----------------------------------------------------------------------------
(* Every variable of the daemon stays in its type.                          *)
THEOREM TypeCorrect == Spec => []TypeOK
<1>1. Inv => TypeOK
  BY DEF Inv
<1> QED BY InvInit, InvNext, <1>1, PTL DEF Spec

(* Whatever meets the closed store or the closed notifier was reported as    *)
(* not stopping in time.                                                     *)
THEOREM LateIsReportedHolds == Spec => []LateIsReported
<1>1. Inv => LateIsReported
  BY DEF Inv
<1> QED BY InvInit, InvNext, <1>1, PTL DEF Spec

(* A shutdown in which no wait timed out loses nothing.                      *)
THEOREM CleanExitHolds == Spec => []CleanExit
<1>1. Inv => CleanExit
  BY DEF Inv, Honoured, Drained, StoreLife, CleanExit, AfterScheduler,
         AfterRetention, AfterWatcher, AfterAPI, AfterDrain, Writers
<1> QED BY InvInit, InvNext, <1>1, PTL DEF Spec
=============================================================================
