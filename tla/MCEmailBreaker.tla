--------------------------- MODULE MCEmailBreaker ---------------------------
(* An instance of EmailBreaker for TLC. *)
EXTENDS EmailBreaker

=============================================================================
