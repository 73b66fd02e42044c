----------------------------- MODULE ResultStore -----------------------------
(***************************************************************************)
(* What a storage.Store promises, whichever adapter is behind it: a list of  *)
(* monitors that is replaced as a whole, in config order, and per monitor    *)
(* the most recent results, oldest first, each known by the second in which  *)
(* it was checked.  Modules SQLiteStore and MemoryStore implement it.        *)
(***************************************************************************)
EXTENDS StoreTypes

VARIABLES list,    \* the monitors, a sequence of name and url
          recent   \* the seconds of the last Limit results of each name

vars == <<list, recent>>

Init ==
  /\ list = <<>>
  /\ recent = [n \in Names |-> <<>>]

Save(n, at) ==
  /\ recent' = [recent EXCEPT ![n] = LastN(Append(@, Second(at)), Limit)]
  /\ UNCHANGED list

\* Of every name a first part of its results goes: all of what is older than
\* the second of the cut-off, nothing of what is newer.  Within that second
\* an adapter may draw the line anywhere.
Prune(before) ==
  /\ UNCHANGED list
  /\ DOMAIN recent' = Names
  /\ \A n \in Names :
       LET past == recent[n]
       IN  \E cut \in 0 .. Len(past) :
             /\ \A i \in 1 .. cut : past[i] <= Second(before)
             /\ \A i \in cut + 1 .. Len(past) : past[i] >= Second(before)
             /\ recent'[n] = SubSeq(past, cut + 1, Len(past))

\* The list and the removal of the results of unlisted monitors: one step.
Sync(l) ==
  /\ list' = l
  /\ recent' = [n \in Names |-> IF n \in Listed(l) THEN recent[n] ELSE <<>>]

Next ==
  \/ \E before \in Times : Prune(before)
  \/ \E n \in Names, at \in Times : Save(n, at)
  \/ \E l \in Configs : Sync(l)

Spec == Init /\ [][Next]_vars
=============================================================================
