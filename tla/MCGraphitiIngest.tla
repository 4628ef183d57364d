-------------------------- MODULE MCGraphitiIngest --------------------------
(* Two chunks of one revision, the second behind the first. *)
EXTENDS GraphitiIngest, TLC

CONSTANTS u1, u2
MCUnits == {u1, u2}
MCPred == [u \in MCUnits |-> IF u = u2 THEN u1 ELSE None]
MCMaxAttempt == [u \in MCUnits |-> IF u = u2 THEN 1 ELSE 2]
WorkerSymmetry == Permutations(Workers)
=============================================================================
