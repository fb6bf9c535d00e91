---------------------------- MODULE MCLifecycle ----------------------------
(* An instance of Lifecycle for TLC. *)
EXTENDS Lifecycle

=============================================================================
