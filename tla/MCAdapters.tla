------------------------------ MODULE MCAdapters ------------------------------
(* A small instance of Adapters.  Names are interchangeable, as are the      *)
(* targets; moments are not.                                                *)
EXTENDS Adapters, TLC

Symmetry == Permutations(Names) \union Permutations(URLs)
MCTimes == 0 .. 2
=============================================================================
