---------------------------- MODULE MCAnalytics ----------------------------
(* Instances of Analytics for TLC: three users, three tasks of one team. *)
EXTENDS Analytics, TLC

CONSTANTS u1, u2, u3, x1, d1, d2

MCUserId == u1 :> 1 @@ u2 :> 2 @@ u3 :> 3

MCTruncate == d1 :> d1 @@ d2 :> d2

Post(s, a) == "title" :> x1 @@ "description" :> d1 @@ "status" :> s @@ "assignee_id" :> a

MCPosts == {Post("todo", NoUser), Post("done", u2)}

MCEdits == {"status" :> "done", "status" :> "todo", "description" :> d2}

Symmetry == Permutations(TaskIds)

=============================================================================
