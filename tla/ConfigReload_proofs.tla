------------------------- MODULE ConfigReload_proofs -------------------------
(***************************************************************************)
(* Theorems about ConfigReload, for every set of versions, every size of    *)
(* the kernel's event queue and any number of saves.                        *)
(***************************************************************************)
EXTENDS ConfigReload, SequenceTheorems, TLAPS

-----------------------------------------------------------------------------
(* Lemmas.  A save changes file, events and missed through Edit alone.       *)

(* What an edit leaves, whatever step of a save it is.                       *)
LEMMA EditType ==
  ASSUME TypeOK, NEW c \in Contents, NEW op \in Ops, Edit(c, op)
  PROVE  /\ file' \in Contents /\ events' \in Seq(Ops) /\ Len(events') <= QueueCap
         /\ missed' \subseteq {"gap", "overflow", "sync", "watcher"}
<1>1. file' = c /\ Emit(op)
  BY DEF Edit
<1>2. events \in Seq(Ops) /\ Len(events) \in Nat /\ Len(events) <= QueueCap
  BY LenProperties DEF TypeOK
<1>3. missed' \subseteq {"gap", "overflow", "sync", "watcher"}
  BY <1>1 DEF Emit, TypeOK
<1>4. events' \in Seq(Ops) /\ Len(events') <= QueueCap
  <2>1. CASE UNCHANGED events
    BY <1>2, <2>1
  <2>2. CASE Len(events) < QueueCap /\ events' = Append(events, op)
    <3>1. Append(events, op) \in Seq(Ops) /\ Len(Append(events, op)) = Len(events) + 1
      BY <1>2, AppendProperties
    <3>2. Len(events) + 1 <= QueueCap
      BY <1>2, <2>2, QueueCapAssumption
    <3> QED BY <2>2, <3>1, <3>2
  <2> QED BY <1>1, <2>1, <2>2 DEF Emit
<1> QED BY <1>1, <1>3, <1>4

(* An event that makes the watcher read the file is on its way.              *)
Pending == \E i \in 1 .. Len(events) : Relevant(events[i])

(* The queue loses no news but with the overflow noted: after an event that  *)
(* counts, the watcher has one to receive.                                   *)
LEMMA EmitLeavesPending ==
  ASSUME TypeOK, NEW op \in Ops, Relevant(op), Emit(op), Watching
  PROVE  Pending' \/ missed' # {}
<1>1. events \in Seq(Ops) /\ Len(events) \in Nat
  BY LenProperties DEF TypeOK
<1>2. CASE events' = Append(events, op)
  <2>1. Len(events') = Len(events) + 1 /\ events'[Len(events) + 1] = op
    BY <1>1, <1>2, AppendProperties
  <2>2. Len(events) + 1 \in 1 .. Len(events')
    BY <1>1, <2>1
  <2> QED BY <2>1, <2>2 DEF Pending
<1>3. CASE events # <<>> /\ events[Len(events)] = op /\ UNCHANGED events
  <2>1. Len(events) \in 1 .. Len(events)
    BY <1>1, <1>3, EmptySeq
  <2> QED BY <1>3, <2>1 DEF Pending
<1>4. CASE missed' = missed \union {"overflow"}
  BY <1>4
<1> QED BY <1>2, <1>3, <1>4 DEF Emit

(* Events already pending stay so.                                           *)
LEMMA EmitKeepsPending ==
  ASSUME TypeOK, NEW op \in Ops, Emit(op), Pending
  PROVE  Pending'
<1>1. events \in Seq(Ops) /\ Len(events) \in Nat
  BY LenProperties DEF TypeOK
<1>2. CASE events' = Append(events, op)
  <2>1. /\ Len(events') = Len(events) + 1
        /\ \A i \in 1 .. Len(events) : events'[i] = events[i]
    BY <1>1, <1>2, AppendProperties
  <2>2. \A i \in 1 .. Len(events) : i \in 1 .. Len(events')
    BY <1>1, <2>1
  <2> QED BY <2>1, <2>2 DEF Pending
<1>3. CASE UNCHANGED events
  BY <1>3 DEF Pending
<1> QED BY <1>2, <1>3 DEF Emit

-----------------------------------------------------------------------------
(* Type correctness.                                                        *)

(* The steps of a save are edits, and only with an event that counts do they *)
(* leave a version in the file.                                              *)
Saves ==
  \/ \E c \in Versions \union {"broken"} : RenameOver(c) \/ Truncate(c) \/ MoveAway(c)
  \/ CreateEmpty \/ WriteAll

LEMMA SavesAreEdits ==
  ASSUME TypeOK, Saves
  PROVE  /\ \E c \in Contents, op \in Ops :
              Edit(c, op) /\ (c \in Versions => Relevant(op))
         /\ saving' \in Contents \union {Nothing}
         /\ edits' \in 0 .. MaxEdits
<1>1. /\ Versions \union {"broken", "empty", "absent"} \subseteq Contents
      /\ {"write", "create", "other"} \subseteq Ops
      /\ Relevant("write") /\ Relevant("create") /\ "absent" \notin Versions
  BY VersionsAssumption DEF Contents, Faulty, Ops, Relevant
<1>2. edits \in 0 .. MaxEdits /\ saving \in Contents \union {Nothing} /\ MaxEdits \in Nat
  BY MaxEditsAssumption DEF TypeOK
<1>3. ASSUME NEW c \in Versions \union {"broken"}, BeginSave(c)
      PROVE  saving' \in Contents \union {Nothing} /\ edits' \in 0 .. MaxEdits
  BY <1>1, <1>2, <1>3 DEF BeginSave
<1>4. ASSUME NEW c \in Versions \union {"broken"}, RenameOver(c)
      PROVE  /\ Edit(c, "create") /\ UNCHANGED saving /\ edits' \in 0 .. MaxEdits
  BY <1>2, <1>4 DEF RenameOver
<1>5. ASSUME NEW c \in Versions \union {"broken"}, Truncate(c)
      PROVE  BeginSave(c) /\ Edit("empty", "write")
  BY <1>5 DEF Truncate
<1>6. ASSUME NEW c \in Versions \union {"broken"}, MoveAway(c)
      PROVE  BeginSave(c) /\ Edit("absent", "other")
  BY <1>6 DEF MoveAway
<1>7. ASSUME CreateEmpty PROVE Edit("empty", "create") /\ UNCHANGED <<saving, edits>>
  BY <1>7 DEF CreateEmpty
<1>8. ASSUME WriteAll
      PROVE  saving \in Contents /\ Edit(saving, "write") /\ saving' = Nothing /\ UNCHANGED edits
  BY <1>2, <1>8 DEF WriteAll
<1>9. CASE \E c \in Versions \union {"broken"} : RenameOver(c)
  BY <1>1, <1>2, <1>4, <1>9
<1>10. CASE \E c \in Versions \union {"broken"} : Truncate(c)
  BY <1>1, <1>3, <1>5, <1>10
<1>11. CASE \E c \in Versions \union {"broken"} : MoveAway(c)
  BY <1>1, <1>3, <1>6, <1>11
<1>12. CASE CreateEmpty
  BY <1>1, <1>2, <1>7, <1>12
<1>13. CASE WriteAll
  BY <1>1, <1>2, <1>8, <1>13
<1> QED BY <1>9, <1>10, <1>11, <1>12, <1>13 DEF Saves

LEMMA TypeInit == Init => TypeOK
<1> SUFFICES ASSUME Init PROVE TypeOK
  OBVIOUS
<1>1. <<>> \in Seq(Ops) /\ Len(<<>>) <= QueueCap
  BY EmptySeq, QueueCapAssumption
<1>2. 0 \in 0 .. MaxEdits
  BY MaxEditsAssumption
<1> QED BY <1>1, <1>2 DEF Init, TypeOK

LEMMA TypeNext == TypeOK /\ [Next]_vars => TypeOK'
<1> SUFFICES ASSUME TypeOK, [Next]_vars PROVE TypeOK'
  OBVIOUS
<1>1. ASSUME Saves PROVE TypeOK'
  <2>1. PICK c \in Contents, op \in Ops : Edit(c, op)
    BY <1>1, SavesAreEdits
  <2>2. saving' \in Contents \union {Nothing} /\ edits' \in 0 .. MaxEdits
    BY <1>1, SavesAreEdits
  <2>3. UNCHANGED <<pc, loaded, list>>
    BY <2>1 DEF Edit
  <2>4. /\ file' \in Contents /\ events' \in Seq(Ops) /\ Len(events') <= QueueCap
        /\ missed' \subseteq {"gap", "overflow", "sync", "watcher"}
    BY <2>1, EditType
  <2> QED BY <2>2, <2>3, <2>4 DEF TypeOK
<1>2. CASE LoadConfig
  BY <1>2 DEF LoadConfig, Accepts, fileVars, TypeOK
<1>3. CASE Seed
  BY <1>3 DEF Seed, fileVars, TypeOK
<1>4. CASE AddWatch
  BY <1>4 DEF AddWatch, fileVars, TypeOK
<1>5. CASE Receive
  <2>1. Tail(events) \in Seq(Ops) /\ Len(Tail(events)) <= QueueCap
    <3>1. events \in Seq(Ops) /\ events # <<>> /\ Len(events) \in Nat /\ Len(events) <= QueueCap
      BY <1>5, LenProperties DEF Receive, TypeOK
    <3>2. Tail(events) \in Seq(Ops) /\ Len(Tail(events)) = Len(events) - 1
      BY <3>1, HeadTailProperties
    <3> QED BY <3>1, <3>2, QueueCapAssumption
  <2>2. pc' \in {"reading", "idle"} /\ events' = Tail(events)
    BY <1>5 DEF Receive
  <2>3. UNCHANGED <<file, saving, edits, loaded, list, missed>>
    BY <1>5 DEF Receive, fileVars
  <2> QED BY <2>1, <2>2, <2>3 DEF TypeOK
<1>6. CASE Reload
  BY <1>6 DEF Reload, Accepts, fileVars, TypeOK
<1>7. CASE Sync
  BY <1>7 DEF Sync, fileVars, TypeOK
<1>8. CASE SyncFails
  BY <1>8 DEF SyncFails, fileVars, TypeOK
<1>9. CASE WatcherStops \/ GoDown
  <2>1. <<>> \in Seq(Ops) /\ Len(<<>>) <= QueueCap
    BY EmptySeq, QueueCapAssumption
  <2> QED BY <1>9, <2>1 DEF WatcherStops, GoDown, fileVars, TypeOK
<1>10. CASE Restart
  BY <1>10 DEF Restart, fileVars, TypeOK
<1>11. CASE UNCHANGED vars
  BY <1>11 DEF vars, fileVars, TypeOK
<1> QED BY <1>1, <1>2, <1>3, <1>4, <1>5, <1>6, <1>7, <1>8, <1>9, <1>10, <1>11
        DEF Next, WatcherStep, Saves

(* The store only ever holds a version that was saved as a whole.            *)
THEOREM TypeCorrect == Spec => []TypeOK
BY TypeInit, TypeNext, PTL DEF Spec

-----------------------------------------------------------------------------
(* What the daemon knows.  CaughtUp speaks of a watcher at rest; News says   *)
(* what stands in for it elsewhere: in front of the watch nothing has been   *)
(* edited since the load, and behind it the version in the file has been     *)
(* synced, or is about to be, or an event will make the watcher read it.     *)

News ==
  missed = {} /\ file \in Versions =>
    /\ pc = "seed" => loaded = file
    /\ pc = "add" => list = file
    /\ pc = "idle" => list = file \/ Pending
    /\ pc = "syncing" => loaded = file \/ Pending

NewsInv == TypeOK /\ News

LEMMA NewsInit == Init => NewsInv
BY TypeInit DEF Init, NewsInv, News

LEMMA NewsNext == NewsInv /\ [Next]_vars => NewsInv'
<1> SUFFICES ASSUME TypeOK, News, [Next]_vars PROVE News'
  BY TypeNext DEF NewsInv
<1>1. ASSUME Saves PROVE News'
  <2>1. PICK c \in Contents, op \in Ops : Edit(c, op) /\ (c \in Versions => Relevant(op))
    BY <1>1, SavesAreEdits
  <2>2. file' = c /\ Emit(op) /\ UNCHANGED <<pc, loaded, list>>
    BY <2>1 DEF Edit
  <2>3. CASE pc \in {"seed", "add"}
    <3>1. missed' # {}
      BY <2>2, <2>3 DEF Emit, Watching
    <3> QED BY <3>1 DEF News
  <2>4. CASE Watching
    <3>1. file' \in Versions => Pending' \/ missed' # {}
      BY <2>1, <2>2, <2>4, EmitLeavesPending
    <3> QED BY <2>2, <2>4, <3>1 DEF News, Watching
  <2>5. CASE pc \notin {"seed", "add", "idle", "syncing"}
    BY <2>2, <2>5 DEF News
  <2> QED BY <2>3, <2>4, <2>5 DEF Watching
<1>2. CASE LoadConfig
  BY <1>2 DEF LoadConfig, Accepts, fileVars, News
<1>3. CASE Seed
  BY <1>3 DEF Seed, fileVars, News
<1>4. CASE AddWatch
  BY <1>4 DEF AddWatch, fileVars, News
<1>5. CASE Receive
  <2>1. /\ pc = "idle" /\ events # <<>> /\ events' = Tail(events)
        /\ pc' = IF Relevant(Head(events)) THEN "reading" ELSE "idle"
        /\ UNCHANGED <<file, loaded, list, missed>>
    BY <1>5 DEF Receive, fileVars
  <2>2. ASSUME Pending, ~Relevant(Head(events)) PROVE Pending'
    <3>1. events \in Seq(Ops) /\ events # <<>> /\ Len(events) \in Nat
      BY <2>1, LenProperties DEF TypeOK
    <3>2. /\ Len(events') = Len(events) - 1 /\ Head(events) = events[1]
          /\ \A i \in 1 .. Len(events') : events'[i] = events[i + 1]
      BY <2>1, <3>1, HeadTailProperties
    <3>3. PICK i \in 1 .. Len(events) : Relevant(events[i])
      BY <2>2 DEF Pending
    <3>4. i # 1
      BY <2>2, <3>2, <3>3
    <3>5. i - 1 \in 1 .. Len(events') /\ (i - 1) + 1 = i
      BY <3>1, <3>2, <3>4
    <3> QED BY <3>2, <3>3, <3>5 DEF Pending
  <2> QED BY <2>1, <2>2 DEF News
<1>6. CASE Reload
  BY <1>6 DEF Reload, Accepts, fileVars, News
<1>7. CASE Sync
  BY <1>7 DEF Sync, fileVars, News, Pending
<1>8. CASE SyncFails \/ WatcherStops
  <2>1. missed' # {}
    BY <1>8 DEF SyncFails, WatcherStops
  <2> QED BY <2>1 DEF News
<1>9. CASE GoDown \/ Restart
  BY <1>9 DEF GoDown, Restart, News
<1>10. CASE UNCHANGED vars
  BY <1>10 DEF vars, fileVars, News, Pending
<1> QED BY <1>1, <1>2, <1>3, <1>4, <1>5, <1>6, <1>7, <1>8, <1>9, <1>10
        DEF Next, WatcherStep, Saves

(* A watcher at rest is up to date, however the file was saved and whatever  *)
(* the queue merged, unless one of the named failures has happened.          *)
THEOREM CaughtUpHolds == Spec => []CaughtUp
<1>1. NewsInv => CaughtUp
  <2> SUFFICES ASSUME News, events = <<>> PROVE CaughtUp
    BY DEF NewsInv, CaughtUp
  <2>1. ~Pending
    <3>1. Len(events) = 0
      BY EmptySeq
    <3> QED BY <3>1 DEF Pending
  <2> QED BY <2>1 DEF News, CaughtUp
<1> QED BY NewsInit, NewsNext, <1>1, PTL DEF Spec
=============================================================================
