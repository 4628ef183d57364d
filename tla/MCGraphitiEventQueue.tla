------------------------ MODULE MCGraphitiEventQueue ------------------------
(* Instances of GraphitiEventQueue for TLC: the .cfg files give the         *)
(* constants.                                                               *)
EXTENDS GraphitiEventQueue, TLC

Symmetry == Permutations(Workers)
=============================================================================
