----------------------------- MODULE Subsequences -----------------------------
(* The part of a sequence that stands at some of its places, in order: what  *)
(* a WHERE clause or a filtering loop keeps.  SelectSeq says the same, but   *)
(* by a recursion that cannot be reasoned about.                             *)
EXTENDS Integers, Sequences, FiniteSets

Rank(I, i) == Cardinality({j \in I : j <= i})
Nth(I, k) == CHOOSE i \in I : Rank(I, i) = k
Pick(s, I) == [k \in 1 .. Cardinality(I) |-> s[Nth(I, k)]]
=============================================================================
