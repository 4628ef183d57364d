--------------------------- MODULE MCCycleGovernor ---------------------------
(* Instances of CycleGovernor for TLC: the .cfg files give the constants.   *)
EXTENDS CycleGovernor, TLC

Symmetry == Permutations(Workers) \cup Permutations(Probers) \cup Permutations(Failures)
=============================================================================
