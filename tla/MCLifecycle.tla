----------------------------- MODULE MCLifecycle -----------------------------
(* Instances of Lifecycle for TLC.  No symmetry: the run has liveness properties. *)
EXTENDS Lifecycle
===============================================================================
