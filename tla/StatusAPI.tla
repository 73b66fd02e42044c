------------------------------ MODULE StatusAPI ------------------------------
(***************************************************************************)
(* The dashboard request (api/handlers.go) among the writers of what it     *)
(* reads.  It reads the list once, then monitor by monitor the history,     *)
(* from the store, and the state, from the machine.  The scheduler's        *)
(* workers save a result before the machine observes it and save it or not; *)
(* the config watcher replaces the list and prunes; a restart empties the   *)
(* machine and not the store.  Nothing but single calls is atomic.          *)
(*                                                                          *)
(* The pool is taken as Scheduler proves it: batches do not overlap, one    *)
(* worker holds a monitor.  A result is whether the target was up.          *)
(***************************************************************************)
EXTENDS Trackers

CONSTANTS Monitors,  \* the names followed; a list may hold others beside them
          Limit      \* the results History returns, historyLimit

\* 60 > 3: the bars go back to what the machine decided on, and one more.
ASSUME HistoryCoversStreak == Limit \in Nat /\ Limit > FailThreshold

VARIABLES
  listed,   \* the store: which of Monitors are in the list
  history,  \* the store: the last results of each name, oldest first
  due,      \* the monitors of the batch not yet probed
  stage,    \* how far the current result of each monitor has got
  result,   \* that result
  track,    \* Machine.track
  todo,     \* the monitors the request has still to make cards of
  card,     \* its latest card: monitor, bars and state, or NoCard
  owed,     \* nothing excuses a state that the card's bars do not explain
  kept,     \* the result in hand is in the history
  agree     \* how many newest results observed are also in the history

storeVars == <<listed, history>>
workerVars == <<due, stage, result>>
requestVars == <<todo, card>>
ghostVars == <<owed, kept, agree>>
vars == <<storeVars, workerVars, track, requestVars, ghostVars>>

NoCard == [mon |-> "none", bars |-> <<>>, state |-> "unknown"]
HalfDone == card.state = "unread"   \* the bars are read, the state is not

Init ==
  /\ listed \in SUBSET Monitors
  /\ history = [m \in Monitors |-> <<>>]
  /\ due = {}
  /\ stage = [m \in Monitors |-> "idle"]
  /\ result = [m \in Monitors |-> FALSE]
  /\ track = [m \in Monitors |-> FreshTracker]
  /\ todo = {}
  /\ card = NoCard
  /\ owed = FALSE
  /\ kept = [m \in Monitors |-> FALSE]
  /\ agree = [m \in Monitors |-> 0]

-----------------------------------------------------------------------------
(* The scheduler.                                                           *)

\* A plausible slip: the next batch does not wait for the workers.
OverlappingBatch ==
  /\ due = {}
  /\ due' = listed
  /\ UNCHANGED <<storeVars, stage, result, track, requestVars, ghostVars>>

StartBatch ==
  /\ due = {} /\ \A m \in Monitors : stage[m] = "idle"
  /\ due' = listed
  /\ UNCHANGED <<storeVars, stage, result, track, requestVars, ghostVars>>

Probe(m) ==
  /\ m \in due /\ stage[m] = "idle"
  /\ due' = due \ {m}
  /\ \E up \in BOOLEAN : result' = [result EXCEPT ![m] = up]
  /\ stage' = [stage EXCEPT ![m] = "save"]
  /\ UNCHANGED <<storeVars, track, requestVars, ghostVars>>

\* A failed Save is logged, and the result observed all the same.
Save(m) ==
  /\ stage[m] = "save"
  /\ stage' = [stage EXCEPT ![m] = "observe"]
  /\ \E stored \in BOOLEAN :
       /\ history' = IF stored
                     THEN [history EXCEPT ![m] = LastN(Append(@, result[m]), Limit)]
                     ELSE history
       /\ kept' = [kept EXCEPT ![m] = stored]
  /\ UNCHANGED <<listed, due, result, track, requestVars, owed, agree>>

Observe(m) ==
  /\ stage[m] = "observe"
  /\ stage' = [stage EXCEPT ![m] = "idle"]
  /\ result' = [result EXCEPT ![m] = FALSE]
  /\ track' = [track EXCEPT ![m] = MachineObserve(@, result[m])]
  /\ owed' = (owed /\ ~(HalfDone /\ card.mon = m))
  /\ kept' = [kept EXCEPT ![m] = FALSE]
  /\ agree' = [agree EXCEPT ![m] = IF ~kept[m] THEN 0
                                   ELSE IF @ < FailThreshold THEN @ + 1 ELSE @]
  /\ UNCHANGED <<storeVars, due, requestVars>>

-----------------------------------------------------------------------------
(* The config watcher and the end of the process.                           *)

\* store.Sync: one transaction for its readers (module SQLiteStore).
SyncTo(new) ==
  /\ listed' = new
  /\ history' = [m \in Monitors |-> IF m \in new THEN history[m] ELSE <<>>]

\* The trackers of a removed monitor stay, as does its probe in flight.
Reload ==
  /\ \E new \in SUBSET Monitors : SyncTo(new)
  /\ kept' = [m \in Monitors |-> kept[m] /\ m \in listed']
  /\ agree' = [m \in Monitors |-> IF m \in listed' THEN agree[m] ELSE 0]
  /\ UNCHANGED <<workerVars, track, requestVars, owed>>

Restart ==
  /\ \E new \in SUBSET Monitors : SyncTo(new)
  /\ due' = {}
  /\ stage' = [m \in Monitors |-> "idle"]
  /\ result' = [m \in Monitors |-> FALSE]
  /\ track' = [m \in Monitors |-> FreshTracker]
  /\ todo' = {}
  /\ card' = NoCard
  /\ owed' = FALSE
  /\ kept' = [m \in Monitors |-> FALSE]
  /\ agree' = [m \in Monitors |-> 0]

-----------------------------------------------------------------------------
(* DashboardHandler.Handle.                                                 *)

\* The bars are the results as they came, the state is the debounced one;
\* latency, uptime and certificate are read off the same bars.
BuildHealth(m, hist, state) == [mon |-> m, bars |-> hist, state |-> state]

ReadList ==
  /\ todo = {} /\ ~HalfDone
  /\ todo' = listed
  /\ card' = NoCard
  /\ owed' = FALSE
  /\ UNCHANGED <<storeVars, workerVars, track, kept, agree>>

ReadHistory(m) ==
  /\ m \in todo /\ ~HalfDone
  /\ todo' = todo \ {m}
  /\ card' = BuildHealth(m, history[m], "unread")
  /\ owed' = TRUE
  /\ UNCHANGED <<storeVars, workerVars, track, kept, agree>>

\* The store fails: the request is answered with an error and no cards.
ReadFails ==
  /\ todo # {} /\ ~HalfDone
  /\ todo' = {}
  /\ card' = NoCard
  /\ owed' = FALSE
  /\ UNCHANGED <<storeVars, workerVars, track, kept, agree>>

\* A plausible slip: the state is that of the newest bar, as it once was
\* (handlers.go:14-15, "the raw last-result derivation").
RawState(m) ==
  IF history[m] = <<>> THEN "unknown"
  ELSE IF history[m][Len(history[m])] THEN "up" ELSE "down"

\* Machine.State: unknown for a name the machine has not seen.
StateOf(m) == track[m].state

ReadState ==
  /\ HalfDone
  /\ card' = BuildHealth(card.mon, card.bars, StateOf(card.mon))
  /\ owed' = (owed /\ agree[card.mon] = FailThreshold)
  /\ UNCHANGED <<storeVars, workerVars, track, todo, kept, agree>>

-----------------------------------------------------------------------------
Next ==
  \/ StartBatch
  \/ \E m \in Monitors : Probe(m) \/ Save(m) \/ Observe(m) \/ ReadHistory(m)
  \/ Reload \/ Restart
  \/ ReadList \/ ReadFails \/ ReadState

Spec == Init /\ [][Next]_vars

-----------------------------------------------------------------------------
(* Type correctness.                                                        *)
TypeOK ==
  /\ listed \subseteq Monitors /\ due \subseteq Monitors /\ todo \subseteq Monitors
  /\ history \in [Monitors -> Seq(BOOLEAN)]
  /\ \A m \in Monitors : Len(history[m]) <= Limit
  /\ stage \in [Monitors -> {"idle", "save", "observe"}]
  /\ result \in [Monitors -> BOOLEAN] /\ kept \in [Monitors -> BOOLEAN]
  /\ track \in [Monitors -> Tracker]
  /\ card = NoCard \/ card \in [mon : Monitors, bars : Seq(BOOLEAN),
                               state : State \union {"unread"}]
  /\ owed \in BOOLEAN
  /\ agree \in [Monitors -> 0 .. FailThreshold]

WithoutLast(w) == SubSeq(w, 1, Len(w) - 1)

(* A card does not contradict itself, although its bars and its state are    *)
(* read at two moments and a result reaches the store before the machine:    *)
(* if nothing was observed between the two reads, and the store kept the     *)
(* last FailThreshold results the machine observed, the state is the verdict *)
(* of the bars or of the bars without the newest.  A restart, a failed Save  *)
(* and a removal from the config each excuse the FailThreshold results that  *)
(* follow, no more.                                                          *)
CardIsExplained ==
  owed /\ ~HalfDone => card.state \in {Verdict(card.bars), Verdict(WithoutLast(card.bars))}

(* Of a monitor that is no longer in the config the store keeps at most the  *)
(* result of the probe that was under way when it was removed (sqlite.go:173 *)
(* prunes "monitors (and their results) that are no longer in config"):      *)
(* added again, it shows at most one bar of its former life.                 *)
OneOrphanAtMost ==
  \A m \in Monitors : m \notin listed => Len(history[m]) <= 1
=============================================================================
