---------------------------- MODULE MCLifecycle -----------------------------
(* Values for the constants of Lifecycle. *)
EXTENDS Lifecycle

CONSTANTS c1, c2
=============================================================================
