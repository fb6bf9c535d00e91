---------------------------- MODULE TeamMembers ----------------------------
(***************************************************************************)
(* The team_members table as the rest of the program sees it: one atomic  *)
(* step per committed INSERT. Rows are inserted by team creation and by   *)
(* AddMember; no statement of the program updates or deletes one, which   *)
(* is what makes a role or a membership read before a transaction still   *)
(* true inside it.                                                        *)
(***************************************************************************)
EXTENDS Access

CONSTANTS Users, Teams

VARIABLE members      \* members[tm][u]: the role of u in tm, or NoRole

MembersTypeOK == members \in [Teams -> [Users -> Roles \cup {NoRole}]]

MembersInit == members = [tm \in Teams |-> [u \in Users |-> NoRole]]

Role(tm, u) == members[tm][u]

IsMember(tm, u) == members[tm][u] # NoRole

\* A team id is in use exactly when it has a member: TeamRepository.Create
\* inserts the team and its owner in one transaction.
TeamExists(tm) == \E u \in Users : IsMember(tm, u)

CreateTeam(tm, u) ==
  /\ ~TeamExists(tm)
  /\ members' = [members EXCEPT ![tm][u] = "owner"]

\* AddMember at the moment its INSERT commits: the primary key rejects a second
\* row for (team, user), and the inviter was entitled to grant the role.
AddMember(tm, by, u, role) ==
  /\ CanInviteWithRole(Role(tm, by), role) = "ok"
  /\ ~IsMember(tm, u)
  /\ members' = [members EXCEPT ![tm][u] = role]

MembersNext ==
  \E tm \in Teams, u \in Users :
    \/ CreateTeam(tm, u)
    \/ \E by \in Users, role \in Roles : AddMember(tm, by, u, role)

MembersSpec == MembersInit /\ [][MembersNext]_members

-----------------------------------------------------------------------------
(* A team in use has exactly one owner, its creator: Create inserts one and  *)
(* CanInviteWithRole refuses to hand the role out.                           *)
OneOwner ==
  \A tm \in Teams :
    TeamExists(tm) => \E u \in Users : \A w \in Users : Role(tm, w) = "owner" <=> w = u

(* A row of team_members, once inserted, keeps its role for ever. *)
RolesArePermanent ==
  [][\A tm \in Teams, u \in Users : IsMember(tm, u) => Role(tm, u)' = Role(tm, u)]_members

=============================================================================
