---------------------------- MODULE MCTaskCache ----------------------------
(* Instances of TaskCache for TLC. *)
EXTENDS TaskCache, TLC

MCNoRetry == [w \in Writers |-> 0]

Symmetry == Permutations(Writers) \cup Permutations(Listers)

=============================================================================
