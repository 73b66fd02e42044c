---------------------------- MODULE MCScheduler ----------------------------
(* Small instances of Scheduler.  Monitors and workers are interchangeable: *)
(* nothing orders or names them, so both are symmetry sets of safety runs.  *)
EXTENDS Scheduler, TLC

Symmetry == Permutations(Monitors) \union Permutations(Workers)

NoHours == {}
LowHour == {24 * CertWarnDays - 1}
=============================================================================
