--------------------------- MODULE MCMutationGuard ---------------------------
(* A small generation: two processes, two episodes, one object before them.  *)
EXTENDS MutationGuard
=============================================================================
