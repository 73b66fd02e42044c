----------------------------- MODULE MemoryStore -----------------------------
(***************************************************************************)
(* storage.Memory: the same port over a slice and a map behind one mutex.    *)
(* It cuts a monitor's history when it saves, where SQLite cuts when it      *)
(* reads, and compares a result's time with the cut-off to the nanosecond,   *)
(* where SQLite compares seconds.                                           *)
(***************************************************************************)
EXTENDS StoreTypes

VARIABLES
  monitors,  \* the seed, or the list of the last Sync
  history,   \* name -> the moments of its results; no entry, no results
  stamp,     \* per name, when the result being saved was checked, or Unsaved
  clock

vars == <<monitors, history, stamp, clock>>

Unsaved == -1
HistoryOf(n) == IF n \in DOMAIN history THEN history[n] ELSE <<>>

Init ==
  /\ monitors = <<>>
  /\ history = [n \in {} |-> <<>>]
  /\ stamp = [n \in Names |-> Unsaved]
  /\ clock \in Times /\ \A t \in Times : clock <= t

-----------------------------------------------------------------------------
\* The scheduler's side, as in SQLiteStore.
Stamp(n) ==
  /\ stamp[n] = Unsaved
  /\ stamp' = [stamp EXCEPT ![n] = clock]
  /\ UNCHANGED <<monitors, history, clock>>

\* A plausible slip: the ring is cut one short.
ShortRingSave(n) ==
  /\ stamp[n] # Unsaved
  /\ history' = [k \in DOMAIN history \union {n} |->
                   IF k = n THEN LastN(Append(HistoryOf(n), stamp[n]), Limit - 1)
                   ELSE history[k]]
  /\ stamp' = [stamp EXCEPT ![n] = Unsaved]
  /\ UNCHANGED <<monitors, clock>>

Save(n) ==
  /\ stamp[n] # Unsaved
  /\ history' = [k \in DOMAIN history \union {n} |->
                   IF k = n THEN LastN(Append(HistoryOf(n), stamp[n]), Limit)
                   ELSE history[k]]
  /\ stamp' = [stamp EXCEPT ![n] = Unsaved]
  /\ UNCHANGED <<monitors, clock>>

Prune(before) ==
  LET Kept(n) == Pick(history[n], {i \in DOMAIN history[n] : history[n][i] >= before})
  IN  /\ history' = [n \in {k \in DOMAIN history : Kept(k) # <<>>} |-> Kept(n)]
      /\ UNCHANGED <<monitors, stamp, clock>>

\* A plausible slip: the histories of removed monitors stay.
HoardingSync(l) ==
  /\ monitors' = l
  /\ UNCHANGED <<history, stamp, clock>>

Sync(l) ==
  /\ monitors' = l
  /\ history' = [n \in DOMAIN history \intersect Listed(l) |-> history[n]]
  /\ UNCHANGED <<stamp, clock>>

ClockTick ==
  /\ clock' \in Times /\ clock' > clock
  /\ UNCHANGED <<monitors, history, stamp>>

Next ==
  \/ \E n \in Names : Stamp(n) \/ Save(n)
  \/ \E before \in Times : Prune(before)
  \/ \E l \in Configs : Sync(l)
  \/ ClockTick

Spec == Init /\ [][Next]_vars

-----------------------------------------------------------------------------
Store == INSTANCE ResultStore WITH
  list <- monitors,
  recent <- [n \in Names |-> [i \in 1 .. Len(HistoryOf(n)) |-> Second(HistoryOf(n)[i])]]

(* Type correctness; a history is never empty nor longer than the ring.      *)
TypeOK ==
  /\ monitors \in Configs \union {<<>>}
  /\ DOMAIN history \subseteq Names
  /\ \A n \in DOMAIN history :
       history[n] \in Seq(Times) /\ Len(history[n]) \in 1 .. Limit
  /\ stamp \in [Names -> Times \union {Unsaved}]
  /\ clock \in Times

(* The in-memory adapter is a Store: although it forgets at another moment   *)
(* than SQLite and draws the retention line elsewhere, every reader is told  *)
(* what the port promises.                                                  *)
IsStore == Store!Spec
=============================================================================
