---------------------------- MODULE MCTaskPages ----------------------------
(* An instance of TaskPages for TLC, with integers of four bits. *)
EXTENDS TaskPages

\* The first page and the last whose number is an int, and both sizes.
MCRawInts == {-8, 0, 7}

=============================================================================
