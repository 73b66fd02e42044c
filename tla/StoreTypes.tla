------------------------------ MODULE StoreTypes ------------------------------
(* What the storage port speaks of: monitors, lists of them, moments, and    *)
(* the seconds results are known by.                                        *)
EXTENDS Subsequences

CONSTANTS Names,   \* the monitors' names
          URLs,    \* their targets
          Limit,   \* the results History returns
          Times    \* the moments of the clock, in half seconds

\* The names that ever stand in the config, of which there is an end.
ASSUME NamesAssumption == IsFiniteSet(Names)
ASSUME LimitAssumption == Limit \in Nat \ {0}
ASSUME TimesAssumption == Times \subseteq Nat

\* Two moments may share a second: results are kept to the second, the
\* retention cut-off is not.
Second(t) == t \div 2

LastN(s, n) == IF Len(s) > n THEN SubSeq(s, Len(s) - n + 1, Len(s)) ELSE s

Entries == [name : Names, url : URLs]

\* The lists a config may hold: not empty, names unique (config.validate).
Configs ==
  {l \in UNION {[1 .. k -> Entries] : k \in 1 .. Cardinality(Names)} :
     \A i, j \in DOMAIN l : l[i].name = l[j].name => i = j}

Listed(l) == {l[i].name : i \in DOMAIN l}
=============================================================================
