---------------------------- MODULE MCLifecycle ----------------------------
(* Instances of Lifecycle for TLC: the configurations give NumIps and       *)
(* MaxFrames.                                                               *)
EXTENDS Lifecycle
=============================================================================
