----------------------------- MODULE SQLiteStore -----------------------------
(***************************************************************************)
(* storage.SQLite: two tables behind one connection (SetMaxOpenConns(1)).    *)
(* Save and Prune are one statement each; Sync is a transaction of several,  *)
(* and any of them may be its last: a statement fails, or the process dies.  *)
(* Whoever finds the connection taken waits for it.                         *)
(***************************************************************************)
EXTENDS StoreTypes

CONSTANT MaxRows   \* bound: the rows of table results

VARIABLES
  monitors,  \* table monitors: name -> url and pos
  results,   \* table results: name and checked_at, in the order of the ids
  tx,        \* the tables as the open transaction of Sync sees them
  step,      \* its next statement, 0 if there is none
  config,    \* the list it writes
  stamp,     \* per name, when the result being saved was checked, or Unsaved
  clock

tables == <<monitors, results>>
txVars == <<tx, step, config>>
vars == <<tables, txVars, stamp, clock>>

Unsaved == -1
Free == step = 0       \* the one connection can be had
NoMonitors == [n \in {} |-> [url |-> "", pos |-> 0]]
NoTx == [monitors |-> NoMonitors, results |-> <<>>]

Init ==
  /\ monitors = NoMonitors
  /\ results = <<>>
  /\ tx = NoTx
  /\ step = 0
  /\ config = <<>>
  /\ stamp = [n \in Names |-> Unsaved]
  /\ clock \in Times /\ \A t \in Times : clock <= t

-----------------------------------------------------------------------------
(* Statements, as functions of the tables.                                  *)

\* A plausible slip: the conflict clause of the upsert leaves pos alone.
UpsertUrlOnly(t, i, e) ==
  [n \in DOMAIN t \union {e.name} |->
     IF n # e.name THEN t[n]
     ELSE [url |-> e.url, pos |-> IF n \in DOMAIN t THEN t[n].pos ELSE i]]

\* INSERT ... ON CONFLICT(name) DO UPDATE SET url, pos
Upsert(t, i, e) ==
  [n \in DOMAIN t \union {e.name} |->
     IF n = e.name THEN [url |-> e.url, pos |-> i] ELSE t[n]]

\* DELETE FROM monitors WHERE name NOT IN ...
KeepMonitors(t, names) == [n \in DOMAIN t \intersect names |-> t[n]]

\* DELETE FROM results WHERE monitor_name NOT IN ...
KeepRows(rows, names) == Pick(rows, {i \in DOMAIN rows : rows[i].name \in names})

\* DELETE FROM results WHERE checked_at < ?
DropBefore(rows, before) ==
  Pick(rows, {i \in DOMAIN rows : rows[i].checked_at >= Second(before)})

\* WHERE monitor_name = ?
RowsOf(rows, n) == {i \in DOMAIN rows : rows[i].name = n}

\* The last historyLimit rows of n by id, oldest first.
History(rows, n) ==
  LET shown == LastN(Pick(rows, RowsOf(rows, n)), Limit)
  IN  [i \in DOMAIN shown |-> shown[i].checked_at]

\* SELECT name, url FROM monitors ORDER BY pos
List(t) ==
  LET Place(n) == Cardinality({k \in DOMAIN t : t[k].pos <= t[n].pos})
      At(i) == CHOOSE n \in DOMAIN t : Place(n) = i
  IN  [i \in 1 .. Cardinality(DOMAIN t) |-> [name |-> At(i), url |-> t[At(i)].url]]

Store == INSTANCE ResultStore WITH
  list <- List(monitors), recent <- [n \in Names |-> History(results, n)]

-----------------------------------------------------------------------------
(* Operations.  One that fails before its effect leaves nothing to model.   *)

\* probeOne dates a result, then saves it; one at a time for each monitor.
Stamp(n) ==
  /\ stamp[n] = Unsaved
  /\ stamp' = [stamp EXCEPT ![n] = clock]
  /\ UNCHANGED <<tables, txVars, clock>>

\* The INSERT may have waited for the connection, through a Sync or a Prune.
Save(n) ==
  /\ Free
  /\ stamp[n] # Unsaved
  /\ Len(results) < MaxRows
  /\ results' = Append(results, [name |-> n, checked_at |-> Second(stamp[n])])
  /\ stamp' = [stamp EXCEPT ![n] = Unsaved]
  /\ UNCHANGED <<monitors, txVars, clock>>

Prune(before) ==
  /\ Free
  /\ results' = DropBefore(results, before)
  /\ UNCHANGED <<monitors, txVars, stamp, clock>>

\* BEGIN; from here to the end of the transaction the connection is taken.
Begin(l) ==
  /\ Free
  /\ tx' = [monitors |-> monitors, results |-> results]
  /\ step' = 1
  /\ config' = l
  /\ UNCHANGED <<tables, stamp, clock>>

UpsertOne ==
  /\ step \in 1 .. Len(config)
  /\ tx' = [tx EXCEPT !.monitors = Upsert(@, step - 1, config[step])]
  /\ step' = step + 1
  /\ UNCHANGED <<tables, config, stamp, clock>>

PruneMonitors ==
  /\ ~Free /\ step = Len(config) + 1
  /\ tx' = [tx EXCEPT !.monitors = KeepMonitors(@, Listed(config))]
  /\ step' = step + 1
  /\ UNCHANGED <<tables, config, stamp, clock>>

PruneResults ==
  /\ ~Free /\ step = Len(config) + 2
  /\ tx' = [tx EXCEPT !.results = KeepRows(@, Listed(config))]
  /\ step' = step + 1
  /\ UNCHANGED <<tables, config, stamp, clock>>

EndTx == tx' = NoTx /\ step' = 0 /\ config' = <<>> /\ UNCHANGED <<stamp, clock>>

Commit ==
  /\ ~Free /\ step = Len(config) + 3
  /\ monitors' = tx.monitors
  /\ results' = tx.results
  /\ EndTx

\* A plausible slip: an error commits what has been done so far.
CommitOnError ==
  /\ ~Free
  /\ monitors' = tx.monitors
  /\ results' = tx.results
  /\ EndTx

\* A statement fails and the deferred Rollback runs, or the process dies and
\* the next one rolls the journal back: the tables are as before the BEGIN.
Abort ==
  /\ ~Free
  /\ EndTx
  /\ UNCHANGED tables

\* The wall clock, which does not go back.
ClockTick ==
  /\ clock' \in Times /\ clock' > clock
  /\ UNCHANGED <<tables, txVars, stamp>>

Next ==
  \/ \E n \in Names : Stamp(n) \/ Save(n)
  \/ \E before \in Times : Prune(before)
  \/ \E l \in Configs : Begin(l)
  \/ UpsertOne \/ PruneMonitors \/ PruneResults \/ Commit \/ Abort
  \/ ClockTick

Spec == Init /\ [][Next]_vars

-----------------------------------------------------------------------------
(* Type correctness; positions are distinct outside a transaction, so that   *)
(* ORDER BY pos is an order.                                                 *)
TypeOK ==
  /\ DOMAIN monitors \subseteq Names
  /\ \A n \in DOMAIN monitors :
       monitors[n] \in [url : URLs, pos : 0 .. Cardinality(Names) - 1]
  /\ \A n, k \in DOMAIN monitors : monitors[n].pos = monitors[k].pos => n = k
  /\ results \in Seq([name : Names, checked_at : Nat])
  /\ step \in 0 .. Cardinality(Names) + 3
  /\ Free => tx = NoTx /\ config = <<>>
  /\ stamp \in [Names -> Times \union {Unsaved}]
  /\ clock \in Times

(* The adapter is a Store: a reader never sees half a Sync, whichever        *)
(* statement failed and wherever the process died; the list comes back in    *)
(* config order; and what the sweep removes is never a result newer than the *)
(* cut-off nor, by way of the limit, one that History still owed.            *)
IsStore == Store!Spec
=============================================================================
