--------------------------- MODULE MCTaskService ---------------------------
(***************************************************************************)
(* Instances of TaskService for TLC: one POST and concurrent PUT requests *)
(* on one task.                                                            *)
(***************************************************************************)
EXTENDS TaskService, TLC

CONSTANTS u1, u2,                \* users
          x1, blank, padded,     \* titles; padded is x1 between spaces
          d1, d1b                \* descriptions; d1b is d1 beyond 500 runes

MCTrim == x1 :> x1 @@ blank :> blank @@ padded :> x1
MCTruncate == d1 :> d1 @@ d1b :> d1

Draft(x, s, a) ==
  "title" :> x @@ "description" :> d1 @@ "status" :> s @@ "assignee_id" :> a

\* With the default status, and one that is rejected.
MCDrafts ==
  {"title" :> padded @@ "description" :> d1 @@ "assignee_id" :> NoUser,
   Draft(blank, "todo", NoUser)}

MCRawPatches ==
  {"status" :> "done" @@ "assignee_id" :> u2,
   "status" :> "todo" @@ "description" :> d1b,
   "status" :> OtherStatus}

MCNoRetry == [r \in Reqs |-> 0]

=============================================================================
