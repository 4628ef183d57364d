-------------------------- MODULE MCTriageExecution --------------------------
(* Instances of TriageExecution for TLC: the .cfg files give the constants. *)
EXTENDS TriageExecution, TLC

Symmetry == Permutations(Workers) \cup Permutations(Requests)
               \cup Permutations(Evidence) \cup Permutations(Decisions)
=============================================================================
