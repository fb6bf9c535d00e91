----------------------------- MODULE MCTaskApi -----------------------------
(* An instance of TaskApi for TLC, with the bodies of MCTaskService. *)
EXTENDS TaskApi, MCTaskService

MCOneDraft == {Draft(x1, "todo", NoUser)}

\* Of a task that is to do: a change, and a patch that changes nothing.
MCTwoPatches == {"status" :> "done", "status" :> "todo"}

\* The client may send the INCR of a POST twice.
MCOneRetry == [r \in Reqs |-> IF r \in CreateReqs THEN 1 ELSE 0]

=============================================================================
