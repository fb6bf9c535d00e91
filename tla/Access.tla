------------------------------- MODULE Access -------------------------------
(***************************************************************************)
(* Who may do what: the role predicates of internal/domain/models.go and  *)
(* the two decision functions of internal/service/authorization.go.       *)
(***************************************************************************)

Roles == {"owner", "admin", "member"}

\* What GetMemberRole returns for a user with no row in team_members.
NoRole == "none"

IsOwnerOrAdmin(role) == role \in {"owner", "admin"}

CanInvite(role) == role \in {"owner", "admin"}

\* Faulty variant: without the test that nobody is invited as owner.
CanInviteAnyRole(actorRole, targetRole) ==
  CASE ~CanInvite(actorRole) -> "forbidden"
    [] CanInvite(actorRole) /\ targetRole = "admin" /\ actorRole # "owner" -> "forbidden"
    [] OTHER -> "ok"

\* CanInviteWithRole: "ok", or the error it returns. Nobody is invited as
\* owner, and only the owner may hand out the admin role.
CanInviteWithRole(actorRole, targetRole) ==
  CASE ~CanInvite(actorRole) -> "forbidden"
    [] CanInvite(actorRole) /\ targetRole = "owner" -> "validation"
    [] CanInvite(actorRole) /\ targetRole = "admin" /\ actorRole # "owner" -> "forbidden"
    [] OTHER -> "ok"

\* CanUpdateTask: owner, admin and creator may change every field; the assignee
\* everything but the title and the assignee.
CanUpdateTask(fields, info) ==
  \/ IsOwnerOrAdmin(info.teamRole)
  \/ info.isCreator
  \/ info.isAssignee /\ fields \cap {"title", "assignee_id"} = {}

=============================================================================
