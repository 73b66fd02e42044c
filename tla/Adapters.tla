------------------------------- MODULE Adapters -------------------------------
(***************************************************************************)
(* The two adapters of storage.Store behind the same calls, in the same      *)
(* order, with the same outcome: what one returns of a Sync that fails, the  *)
(* other has not been asked.  The tests run the daemon's parts on Memory,    *)
(* the daemon runs on SQLite: this module relates what they answer.          *)
(***************************************************************************)
EXTENDS StoreTypes

CONSTANT MaxRows   \* bound, of SQLiteStore

VARIABLES
  stamp, clock,                               \* the callers, common to both
  monitors, results, tx, step, config,        \* SQLite
  memMonitors, memHistory,                    \* Memory
  swept                                       \* the second of the latest cut-off, or Unswept

memVars == <<memMonitors, memHistory>>
vars == <<stamp, clock, monitors, results, tx, step, config, memVars, swept>>

Unswept == -1

SQL == INSTANCE SQLiteStore
Mem == INSTANCE MemoryStore WITH monitors <- memMonitors, history <- memHistory

Init == SQL!Init /\ Mem!Init /\ swept = Unswept

Stamp(n) == SQL!Stamp(n) /\ UNCHANGED <<memVars, swept>>
Save(n) == SQL!Save(n) /\ Mem!Save(n) /\ UNCHANGED swept

\* One loop sweeps, and its cut-off is a constant age before the clock: it is
\* never ahead of the clock and does not go back, to the second at least.
Prune(before) ==
  /\ swept <= Second(before) /\ before <= clock
  /\ SQL!Prune(before) /\ Mem!Prune(before)
  /\ swept' = Second(before)

\* Until a Sync commits, Memory has not been called.
SyncBegins(l) == SQL!Begin(l) /\ UNCHANGED <<memVars, swept>>
SyncGoesOn ==
  /\ SQL!UpsertOne \/ SQL!PruneMonitors \/ SQL!PruneResults
  /\ UNCHANGED <<memVars, swept>>
SyncFails == SQL!Abort /\ UNCHANGED <<memVars, swept>>
SyncSucceeds == SQL!Commit /\ Mem!Sync(config) /\ UNCHANGED swept

ClockTick == SQL!ClockTick /\ UNCHANGED <<memVars, swept>>

Next ==
  \/ \E n \in Names : Stamp(n) \/ Save(n)
  \/ \E before \in Times : Prune(before)
  \/ \E l \in Configs : SyncBegins(l)
  \/ SyncGoesOn \/ SyncFails \/ SyncSucceeds
  \/ ClockTick

Spec == Init /\ [][Next]_vars

-----------------------------------------------------------------------------
(* Type correctness of both.                                                *)
TypeOK == SQL!TypeOK /\ Mem!TypeOK /\ swept \in Nat \union {Unswept}

(* The SQLite adapter is a Store: a reader never sees half a Sync, whichever *)
(* statement failed and wherever the process died; the list comes back in    *)
(* config order; the sweep removes no result newer than the cut-off.         *)
SQLiteIsStore == SQL!IsStore

(* The in-memory adapter is a Store, although it forgets at another moment   *)
(* (when it saves, not when it reads) and keeps an empty history as none.    *)
MemoryIsStore == Mem!IsStore

(* They can be exchanged: the lists are the same, and of every monitor the   *)
(* in-memory history is the newest part of SQLite's, second for second.  All *)
(* it may lack is results of the very second of the latest cut-off, which    *)
(* SQLite, comparing seconds, keeps until a later sweep; before the first    *)
(* sweep, and of any other second, it lacks nothing that SQLite shows.       *)
Interchangeable ==
  /\ SQL!List(monitors) = memMonitors
  /\ \A n \in Names :
       LET sql == SQL!History(results, n)
           mem == Mem!HistoryOf(n)
       IN  /\ Len(mem) <= Len(sql)
           /\ \A i \in DOMAIN mem : Second(mem[i]) = sql[Len(sql) - Len(mem) + i]
           /\ \A i \in 1 .. Len(sql) - Len(mem) : sql[i] = swept
=============================================================================
