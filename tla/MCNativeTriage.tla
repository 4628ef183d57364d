---------------------------- MODULE MCNativeTriage ----------------------------
(* Instances of NativeTriage for TLC: the .cfg files give the constants.   *)
EXTENDS NativeTriage
=============================================================================
