---------------------------- MODULE TeamService ----------------------------
(***************************************************************************)
(* TeamService.CreateTeam and TeamService.Invite, one action per database *)
(* or mail call. Invite reads the inviter's role and the invitee's        *)
(* membership in statements of their own, with no transaction round them, *)
(* and inserts the row later: only the primary key of team_members stops  *)
(* a second invitation of the same user. Any call may fail.               *)
(***************************************************************************)
EXTENDS TeamMembers

CONSTANTS
  CreateReqs,     \* POST /teams requests, each served once
  InviteReqs,     \* POST /teams/{id}/invite requests, each served once
  NoUser,         \* no user_id or no email in a body; invited_by NULL
  OtherRole,      \* a role text that is not Valid()
  NoReq           \* unset local

Reqs == CreateReqs \cup InviteReqs

ASSUME NoUserAssumption == NoUser \notin Users
ASSUME ReqsAssumption == CreateReqs \cap InviteReqs = {}
ASSUME OtherRoleAssumption == OtherRole \notin Roles \cup {NoRole}

VARIABLES
  pc,             \* pc[r]: the call r makes next, or how it ended
  req,            \* req[r]: the invitation r is about to insert
  invitedBy,      \* invitedBy[tm][u]: column invited_by of the row (tm, u)
  mailed          \* the mails sent: by which request, whom to which team, in whose name

vars == <<members, pc, req, invitedBy, mailed>>

Steps == {"reread", "resolve", "ismember", "context", "add", "notify"}

Done == {"ok", "denied", "conflict", "failed"}

Mails == [request : Reqs, team : Teams, user : Users, by : Users]

Invitations == [team : Teams, by : Users, user : Users, role : Roles]

\* InviteInput: an omitted role is "", here NoRole; a user is named by the id or
\* by the address.
Inputs == [id : Users \cup {NoUser}, email : Users \cup {NoUser},
           role : Roles \cup {NoRole, OtherRole}]

NormalRole(in) == IF in.role = NoRole THEN "member" ELSE in.role

ValidInput(in) ==
  /\ (in.id # NoUser) # (in.email # NoUser)
  /\ NormalRole(in) \in Roles

Invitee(in) == IF in.email # NoUser THEN in.email ELSE in.id

Finish(r, outcome) ==
  /\ pc' = [pc EXCEPT ![r] = outcome]
  /\ req' = [req EXCEPT ![r] = NoReq]

Goto(r, label) == pc' = [pc EXCEPT ![r] = label] /\ UNCHANGED req

-----------------------------------------------------------------------------
(* CreateTeam: validate the name, commit team and owner, read the team back *)

RefuseTeam(r) ==
  /\ pc[r] = "idle" /\ r \in CreateReqs
  /\ Finish(r, "denied")
  /\ UNCHANGED <<members, invitedBy, mailed>>

InsertTeam(r) ==
  /\ pc[r] = "idle" /\ r \in CreateReqs
  /\ \E tm \in Teams, u \in Users : CreateTeam(tm, u)
  /\ Goto(r, "reread")
  /\ UNCHANGED <<invitedBy, mailed>>

RereadTeam(r) ==
  /\ pc[r] = "reread"
  /\ Finish(r, "ok")
  /\ UNCHANGED <<members, invitedBy, mailed>>

-----------------------------------------------------------------------------
(* Invite *)

\* Faulty variant: every member may invite.
AdmittedAnyMember(tm, u, in) == IsMember(tm, u) /\ ValidInput(in)

\* GetMemberRole, then everything that is decided from its answer.
Admitted(tm, u, in) ==
  /\ IsMember(tm, u)
  /\ ValidInput(in)
  /\ CanInviteWithRole(Role(tm, u), NormalRole(in)) = "ok"

StartInvite(r) ==
  /\ pc[r] = "idle" /\ r \in InviteReqs
  /\ \E tm \in Teams, u \in Users, in \in Inputs :
       \/ /\ Admitted(tm, u, in)
          /\ pc' = [pc EXCEPT ![r] = "resolve"]
          /\ req' = [req EXCEPT ![r] = [team |-> tm, by |-> u, user |-> Invitee(in),
                                        role |-> NormalRole(in)]]
       \/ ~Admitted(tm, u, in) /\ Finish(r, "denied")
  /\ UNCHANGED <<members, invitedBy, mailed>>

\* resolveInvitee: the account may not exist; nobody invites himself.
ResolveInvitee(r) ==
  /\ pc[r] = "resolve"
  /\ \/ req[r].user # req[r].by /\ Goto(r, "ismember")
     \/ Finish(r, "denied")
  /\ UNCHANGED <<members, invitedBy, mailed>>

CheckMember(r) ==
  /\ pc[r] = "ismember"
  /\ \/ ~IsMember(req[r].team, req[r].user) /\ Goto(r, "context")
     \/ IsMember(req[r].team, req[r].user) /\ Finish(r, "conflict")
  /\ UNCHANGED <<members, invitedBy, mailed>>

LoadInviteContext(r) ==
  /\ pc[r] = "context"
  /\ Goto(r, "add")
  /\ UNCHANGED <<members, invitedBy, mailed>>

\* Faulty variant: ON DUPLICATE KEY UPDATE.
UpsertMember(q) ==
  /\ members' = [members EXCEPT ![q.team][q.user] = q.role]
  /\ invitedBy' = [invitedBy EXCEPT ![q.team][q.user] = q.by]

\* INSERT INTO team_members, unless the primary key (team_id, user_id) is taken.
InsertMember(q) ==
  /\ ~IsMember(q.team, q.user)
  /\ members' = [members EXCEPT ![q.team][q.user] = q.role]
  /\ invitedBy' = [invitedBy EXCEPT ![q.team][q.user] = q.by]

\* Faulty variant: a duplicate key counts as success.
InviteMemberIgnoringDuplicate(r) ==
  /\ pc[r] = "add"
  /\ \/ InsertMember(req[r])
     \/ IsMember(req[r].team, req[r].user) /\ UNCHANGED <<members, invitedBy>>
  /\ Goto(r, "notify")
  /\ UNCHANGED mailed

InviteMember(r) ==
  /\ pc[r] = "add"
  /\ \/ InsertMember(req[r]) /\ Goto(r, "notify")
     \/ /\ IsMember(req[r].team, req[r].user)
        /\ Finish(r, "conflict")
        /\ UNCHANGED <<members, invitedBy>>
  /\ UNCHANGED mailed

Mail(r) == [request |-> r, team |-> req[r].team, user |-> req[r].user, by |-> req[r].by]

\* notifyInvitation: the mail may not go out, which only the answer tells.
NotifyInvitation(r) ==
  /\ pc[r] = "notify"
  /\ \/ mailed' = mailed \cup {Mail(r)}
     \/ UNCHANGED mailed
  /\ Finish(r, "ok")
  /\ UNCHANGED <<members, invitedBy>>

-----------------------------------------------------------------------------
\* The INSERT took effect but its answer was lost: no mail, and a 5xx.
InsertUnacked(r) ==
  /\ \/ pc[r] = "add" /\ InsertMember(req[r])
     \/ /\ pc[r] = "idle" /\ r \in CreateReqs
        /\ \E tm \in Teams, u \in Users : CreateTeam(tm, u)
        /\ UNCHANGED invitedBy
  /\ Finish(r, "failed")
  /\ UNCHANGED mailed

\* Any other call returns an error. A failing mail does not fail the request.
Fail(r) ==
  /\ pc[r] \in {"idle"} \cup (Steps \ {"notify"})
  /\ Finish(r, "failed")
  /\ UNCHANGED <<members, invitedBy, mailed>>

Init ==
  /\ MembersInit
  /\ pc = [r \in Reqs |-> "idle"]
  /\ req = [r \in Reqs |-> NoReq]
  /\ invitedBy = [tm \in Teams |-> [u \in Users |-> NoUser]]
  /\ mailed = {}

Serve(r) ==
  \/ RefuseTeam(r) \/ InsertTeam(r) \/ RereadTeam(r)
  \/ StartInvite(r) \/ ResolveInvitee(r) \/ CheckMember(r) \/ LoadInviteContext(r)
  \/ InviteMember(r) \/ NotifyInvitation(r)
  \/ InsertUnacked(r) \/ Fail(r)

Next == \E r \in Reqs : Serve(r)

Spec == Init /\ [][Next]_vars

-----------------------------------------------------------------------------
TypeOK ==
  /\ MembersTypeOK
  /\ pc \in [Reqs -> {"idle"} \cup Steps \cup Done]
  /\ req \in [Reqs -> Invitations \cup {NoReq}]
  /\ invitedBy \in [Teams -> [Users -> Users \cup {NoUser}]]
  /\ mailed \subseteq Mails

(* Whoever is in a team got the role from somebody who may grant it: the     *)
(* inviter named in invited_by is an owner or admin, only the owner made     *)
(* admins, and the one member nobody invited is the owner. Invite reads the  *)
(* inviter's role several statements before it inserts the row.              *)
RolesAreGranted ==
  \A tm \in Teams, u \in Users : IsMember(tm, u) =>
    IF invitedBy[tm][u] = NoUser
      THEN Role(tm, u) = "owner"
      ELSE CanInviteWithRole(Role(tm, invitedBy[tm][u]), Role(tm, u)) = "ok"

(* A mail goes out only to somebody who is in the team, and only from the    *)
(* inviter the row names: of several invitations of one user at once, one    *)
(* inserts the row and mails, the others end in a conflict and stay silent.  *)
MailedOncePerMember ==
  /\ \A m \in mailed : IsMember(m.team, m.user) /\ invitedBy[m.team][m.user] = m.by
  /\ \A m, n \in mailed : m.team = n.team /\ m.user = n.user => m = n

=============================================================================
