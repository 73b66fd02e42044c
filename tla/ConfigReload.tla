----------------------------- MODULE ConfigReload -----------------------------
(***************************************************************************)
(* How an edit of config.yaml reaches the store: server.Start loads the file *)
(* and seeds the store; config.Watch, started later, watches the directory   *)
(* and reloads the file on events that name it.                             *)
(*                                                                          *)
(* The editor and the kernel's event queue are the environment.  A save is   *)
(* a rename over the file, a truncation and a write, or, as vim does it, the *)
(* old file moved away and a new one written.  A write is one step: a save   *)
(* caught between two writes of one file is not modelled.                   *)
(***************************************************************************)
EXTENDS Naturals, Sequences

CONSTANTS Versions,  \* the contents that parse and validate
          QueueCap,  \* the events the kernel keeps for a watcher
          MaxEdits   \* bound: the saves of a behaviour

ASSUME QueueCapAssumption == QueueCap \in Nat \ {0}
ASSUME MaxEditsAssumption == MaxEdits \in Nat

VARIABLES
  file,    \* the content of config.yaml
  saving,  \* the content a save in several steps will end with, or Nothing
  edits,   \* the saves so far
  pc,      \* where Start, then the watcher is
  loaded,  \* the version last parsed
  events,  \* what the watcher has not received yet
  list,    \* the version the store was last synced with
  missed   \* why the store may be behind the file, since the last load

fileVars == <<file, saving, edits>>
vars == <<fileVars, pc, loaded, events, list, missed>>

Nothing == "nothing"
Faulty == {"absent", "empty", "broken"}   \* contents Load refuses
Contents == Versions \union Faulty
Ops == {"write", "create", "other"}       \* other: chmod, remove, rename

ASSUME VersionsAssumption == Versions \intersect Faulty = {}

Watching == pc \in {"idle", "reading", "syncing"}
Booting == pc \in {"load", "seed", "add"}
Up == ~Booting /\ pc # "down"

\* A plausible slip: the check for an empty list of monitors is gone.
LenientAccepts(c) == c \in Versions \union {"empty"}

\* Load succeeds: the file is there, parses, and validates.
Accepts(c) == c \in Versions

\* A plausible slip: only writes count.
WritesOnly(op) == op = "write"

Relevant(op) == op \in {"write", "create"}

Init ==
  /\ file \in Contents
  /\ saving = Nothing
  /\ edits = 0
  /\ pc = "load"
  /\ loaded = Nothing
  /\ events = <<>>
  /\ list = Nothing
  /\ missed = {}

-----------------------------------------------------------------------------
(* The editor.                                                              *)

\* The kernel drops an event that equals the one before it, and, with an
\* error the watcher only logs, the events that find the queue full.
Emit(op) ==
  \/ /\ ~Watching
     /\ missed' = IF pc \in {"seed", "add"} THEN missed \union {"gap"} ELSE missed
     /\ UNCHANGED events
  \/ /\ Watching /\ Len(events) < QueueCap
     /\ events' = Append(events, op)
     /\ UNCHANGED missed
  \/ /\ Watching /\ events # <<>> /\ events[Len(events)] = op
     /\ UNCHANGED <<events, missed>>
  \/ /\ Watching /\ Len(events) = QueueCap
     /\ missed' = missed \union {"overflow"}
     /\ UNCHANGED events

Edit(content, op) ==
  /\ file' = content
  /\ Emit(op)
  /\ UNCHANGED <<pc, loaded, list>>

BeginSave(c) ==
  /\ saving = Nothing /\ edits < MaxEdits
  /\ edits' = edits + 1
  /\ saving' = c

\* One step of a save, or all of it.
RenameOver(c) ==
  /\ saving = Nothing /\ edits < MaxEdits
  /\ edits' = edits + 1
  /\ Edit(c, "create")
  /\ UNCHANGED saving

Truncate(c) == BeginSave(c) /\ file # "absent" /\ Edit("empty", "write")
MoveAway(c) == BeginSave(c) /\ file # "absent" /\ Edit("absent", "other")

CreateEmpty ==
  /\ saving # Nothing /\ file = "absent"
  /\ Edit("empty", "create")
  /\ UNCHANGED <<saving, edits>>

WriteAll ==
  /\ saving # Nothing /\ file = "empty"
  /\ saving' = Nothing
  /\ Edit(saving, "write")
  /\ UNCHANGED edits

-----------------------------------------------------------------------------
(* server.Start.  An error is fatal.                                        *)

LoadConfig ==
  /\ pc = "load"
  /\ IF Accepts(file) THEN loaded' = file /\ pc' = "seed"
                      ELSE pc' = "down" /\ UNCHANGED loaded
  /\ missed' = {}
  /\ UNCHANGED <<fileVars, events, list>>

Seed ==
  /\ pc = "seed"
  /\ list' = loaded
  /\ pc' = "add"
  /\ UNCHANGED <<fileVars, loaded, events, missed>>

\* fsnotify takes no event before this.
AddWatch ==
  /\ pc = "add"
  /\ pc' = "idle"
  /\ UNCHANGED <<fileVars, loaded, events, list, missed>>

-----------------------------------------------------------------------------
(* config.Watch and its callbacks.                                          *)

Receive ==
  /\ pc = "idle" /\ events # <<>>
  /\ events' = Tail(events)
  /\ pc' = IF Relevant(Head(events)) THEN "reading" ELSE "idle"
  /\ UNCHANGED <<fileVars, loaded, list, missed>>

\* A plausible slip: the watcher returns the error of a broken edit.
FragileReload ==
  /\ pc = "reading"
  /\ IF Accepts(file) THEN loaded' = file /\ pc' = "syncing"
                      ELSE pc' = "stopped" /\ UNCHANGED loaded
  /\ missed' = {}
  /\ UNCHANGED <<fileVars, events, list>>

\* The file as it is now, not as it was at the event; onError only logs.
Reload ==
  /\ pc = "reading"
  /\ IF Accepts(file) THEN loaded' = file /\ pc' = "syncing"
                      ELSE pc' = "idle" /\ UNCHANGED loaded
  /\ missed' = {}
  /\ UNCHANGED <<fileVars, events, list>>

Sync ==
  /\ pc = "syncing"
  /\ list' = loaded
  /\ pc' = "idle"
  /\ UNCHANGED <<fileVars, loaded, events, missed>>

\* Logged, and not tried again.
SyncFails ==
  /\ pc = "syncing"
  /\ pc' = "idle"
  /\ missed' = missed \union {"sync"}
  /\ UNCHANGED <<fileVars, loaded, events, list>>

\* NewWatcher or Add fails, or fsnotify closes a channel: the daemon goes on
\* without a watcher.
WatcherStops ==
  /\ pc \in {"add", "idle"}
  /\ pc' = "stopped"
  /\ missed' = missed \union {"watcher"}
  /\ events' = <<>>
  /\ UNCHANGED <<fileVars, loaded, list>>

\* A fatal error, a crash or a shutdown; the store keeps its list.
GoDown ==
  /\ pc # "down"
  /\ pc' = "down"
  /\ loaded' = Nothing
  /\ events' = <<>>
  /\ UNCHANGED <<fileVars, list, missed>>

Restart ==
  /\ pc = "down"
  /\ pc' = "load"
  /\ UNCHANGED <<fileVars, loaded, events, list, missed>>

WatcherStep == Receive \/ Reload \/ Sync \/ SyncFails

Next ==
  \/ \E c \in Versions \union {"broken"} : RenameOver(c) \/ Truncate(c) \/ MoveAway(c)
  \/ CreateEmpty \/ WriteAll
  \/ LoadConfig \/ Seed \/ AddWatch
  \/ WatcherStep
  \/ WatcherStops \/ GoDown \/ Restart

Spec == Init /\ [][Next]_vars

(* The watcher's goroutine runs; nothing obliges the editor to finish.       *)
FairSpec == Spec /\ WF_vars(WatcherStep)

-----------------------------------------------------------------------------
(* Type correctness; in particular the store only ever holds a version that  *)
(* was saved as a whole, so that a file caught between truncation and write, *)
(* or a broken edit, never empties the list nor the histories behind it.     *)
TypeOK ==
  /\ file \in Contents
  /\ saving \in Contents \union {Nothing}
  /\ edits \in 0 .. MaxEdits
  /\ pc \in {"load", "seed", "add", "idle", "reading", "syncing", "stopped", "down"}
  /\ loaded \in Versions \union {Nothing}
  /\ events \in Seq(Ops) /\ Len(events) <= QueueCap
  /\ list \in Versions \union {Nothing}
  /\ missed \subseteq {"gap", "overflow", "sync", "watcher"}

(* A watcher with nothing to do is up to date: unless one of the named       *)
(* failures has happened since it last looked, the store holds what the file *)
(* holds, however the file was saved and whatever it held in between.        *)
CaughtUp ==
  pc = "idle" /\ events = <<>> /\ missed = {} /\ file \in Versions => list = file

(* An edit that stays is applied, and a broken edit in between does not end  *)
(* the watching (watch_test.go: "the watcher must keep running").            *)
EventuallyApplied ==
  \A v \in Versions :
    <>[](file = v /\ Up) => <>[](list = v \/ missed # {})

(* The same promise as the README makes it: if the store, the watcher and    *)
(* the kernel's queue do not fail, a saved file is applied.  An edit between *)
(* loadConfig (server.go:54) and w.Add (watch.go:18) is not.                 *)
NothingMissed ==
  pc = "idle" /\ events = <<>> /\ missed \subseteq {"gap"} /\ file \in Versions
    => list = file
=============================================================================
