------------------------- MODULE TeamServiceProofs -------------------------
(***************************************************************************)
(* TeamService implements TeamMembers for any users, teams and requests,   *)
(* hands out roles and mails as promised, and tells the truth about it.    *)
(* What Invite has read of the inviter stays true until it inserts, because *)
(* no statement changes or deletes a row of team_members: TInv carries it  *)
(* from call to call.                                                      *)
(***************************************************************************)
EXTENDS TeamService, TLAPS

Admissible(q) ==
  /\ q \in Invitations
  /\ CanInviteWithRole(Role(q.team, q.by), q.role) = "ok"

\* What holds of request r while it is being served.
Carried(r) ==
  /\ pc[r] \in {"resolve", "ismember", "context", "add"} => Admissible(req[r])
  /\ pc[r] = "notify" =>
       /\ req[r] \in Invitations
       /\ IsMember(req[r].team, req[r].user)
       /\ invitedBy[req[r].team][req[r].user] = req[r].by

InviterOfNobody ==
  \A tm \in Teams, u \in Users : ~IsMember(tm, u) => invitedBy[tm][u] = NoUser

SameRow(a, b) == a.team = b.team /\ a.user = b.user

\* One request, at most, is about to mail, or has mailed, the member of a row.
OneNotice ==
  /\ \A r, s \in Reqs :
       pc[r] = "notify" /\ pc[s] = "notify" /\ SameRow(req[r], req[s]) => r = s
  /\ \A r \in Reqs, m \in mailed : pc[r] = "notify" => ~SameRow(req[r], m)

TInv ==
  /\ TypeOK
  /\ OneNotice
  /\ OneOwner
  /\ RolesAreGranted
  /\ MailedOncePerMember
  /\ InviterOfNobody
  /\ \A r \in Reqs : Carried(r)

-----------------------------------------------------------------------------
\* CanInviteWithRole hands out no ownership, and nothing for an outsider.
LEMMA GrantableRoles ==
  ASSUME NEW a, NEW b, CanInviteWithRole(a, b) = "ok"
  PROVE  a \in {"owner", "admin"} /\ b # "owner" /\ a # NoRole
  BY DEF CanInviteWithRole, CanInvite, NoRole

\* The tables grow by a row, or by a team with its owner, or stay.
Adds(q) ==
  /\ Admissible(q)
  /\ InsertMember(q)
  /\ UNCHANGED mailed

Creates(tm, u) == CreateTeam(tm, u) /\ UNCHANGED <<invitedBy, mailed>>

Notifies(r) ==
  /\ pc[r] = "notify"
  /\ mailed' = mailed \cup {Mail(r)}
  /\ UNCHANGED <<members, invitedBy>>

LEMMA StepCases ==
  ASSUME TInv, [Next]_vars
  PROVE  \/ UNCHANGED <<members, invitedBy, mailed>>
         \/ \E q \in Invitations : Adds(q)
         \/ \E tm \in Teams, u \in Users : Creates(tm, u)
         \/ \E r \in Reqs : Notifies(r)
<1>1. CASE UNCHANGED vars
  BY <1>1 DEF vars
<1>2. ASSUME NEW r \in Reqs, InviteMember(r)
      PROVE  UNCHANGED <<members, invitedBy, mailed>> \/ \E q \in Invitations : Adds(q)
  <2>1. Admissible(req[r])
    BY <1>2 DEF InviteMember, TInv, Carried
  <2>2. req[r] \in Invitations
    BY <2>1 DEF Admissible
  <2> QED  BY <1>2, <2>1, <2>2 DEF InviteMember, Adds
<1>3. ASSUME NEW r \in Reqs, InsertUnacked(r)
      PROVE  \/ \E q \in Invitations : Adds(q)
             \/ \E tm \in Teams, u \in Users : Creates(tm, u)
  <2>1. CASE pc[r] = "add" /\ InsertMember(req[r])
    <3>1. Admissible(req[r])
      BY <2>1 DEF TInv, Carried
    <3>2. req[r] \in Invitations
      BY <3>1 DEF Admissible
    <3> QED  BY <1>3, <2>1, <3>1, <3>2 DEF InsertUnacked, Adds
  <2>2. CASE pc[r] = "idle"
    BY <1>3, <2>2 DEF InsertUnacked, Creates
  <2> QED  BY <1>3, <2>1, <2>2 DEF InsertUnacked
<1>4. ASSUME NEW r \in Reqs,
             \/ RefuseTeam(r) \/ InsertTeam(r) \/ RereadTeam(r) \/ StartInvite(r)
             \/ ResolveInvitee(r) \/ CheckMember(r) \/ LoadInviteContext(r)
             \/ NotifyInvitation(r) \/ Fail(r)
      PROVE  \/ UNCHANGED <<members, invitedBy, mailed>>
             \/ \E tm \in Teams, u \in Users : Creates(tm, u)
             \/ Notifies(r)
  BY <1>4 DEF RefuseTeam, InsertTeam, RereadTeam, StartInvite, ResolveInvitee, CheckMember,
              LoadInviteContext, NotifyInvitation, Fail, Creates, Notifies
<1> QED  BY <1>1, <1>2, <1>3, <1>4 DEF Next, Serve

-----------------------------------------------------------------------------
(* The tables *)

Tables ==
  /\ MembersTypeOK
  /\ invitedBy \in [Teams -> [Users -> Users \cup {NoUser}]]
  /\ mailed \subseteq Mails
  /\ OneOwner /\ RolesAreGranted /\ MailedOncePerMember /\ InviterOfNobody

\* What no step undoes: rows, their roles and their inviters.
RowsStay ==
  \A tm \in Teams, u \in Users : IsMember(tm, u) =>
    members'[tm][u] = members[tm][u] /\ invitedBy'[tm][u] = invitedBy[tm][u]

LEMMA AddsKeeps ==
  ASSUME TInv, NEW q \in Invitations, Adds(q)
  PROVE  Tables' /\ RowsStay
<1>1. PICK tm \in Teams, u \in Users, by \in Users, role \in Roles :
        tm = q.team /\ u = q.user /\ by = q.by /\ role = q.role
  BY DEF Invitations
<1>2. /\ CanInviteWithRole(Role(tm, by), role) = "ok"
      /\ IsMember(tm, by) /\ role # "owner" /\ role # NoRole
      /\ ~IsMember(tm, u) /\ by # u /\ by # NoUser
  BY <1>1, GrantableRoles, NoUserAssumption
     DEF Adds, Admissible, InsertMember, IsMember, Role, Roles, NoRole
<1>3. /\ members'[tm][u] = role /\ invitedBy'[tm][u] = by
      /\ \A k \in Teams, w \in Users : k # tm \/ w # u =>
           members'[k][w] = members[k][w] /\ invitedBy'[k][w] = invitedBy[k][w]
      /\ MembersTypeOK' /\ invitedBy' \in [Teams -> [Users -> Users \cup {NoUser}]]
  BY <1>1 DEF Adds, InsertMember, TInv, TypeOK, MembersTypeOK
<1>4. RowsStay
  BY <1>2, <1>3 DEF RowsStay, IsMember
<1>5. OneOwner'
  <2> SUFFICES ASSUME NEW k \in Teams, TeamExists(k)'
               PROVE  \E v \in Users : \A w \in Users : Role(k, w)' = "owner" <=> w = v
    BY DEF OneOwner
  <2>1. TeamExists(k)
    BY <1>2, <1>3 DEF TeamExists, IsMember
  <2>2. PICK v \in Users : \A w \in Users : Role(k, w) = "owner" <=> w = v
    BY <2>1 DEF TInv, OneOwner
  <2>3. \A w \in Users : Role(k, w)' = "owner" <=> Role(k, w) = "owner"
    BY <1>2, <1>3 DEF Role, IsMember, NoRole
  <2> QED  BY <2>2, <2>3
<1>6. RolesAreGranted'
  <2> SUFFICES ASSUME NEW k \in Teams, NEW w \in Users, IsMember(k, w)'
               PROVE  IF invitedBy'[k][w] = NoUser THEN members'[k][w] = "owner"
                      ELSE CanInviteWithRole(members'[k][invitedBy'[k][w]], members'[k][w]) = "ok"
    BY DEF RolesAreGranted, Role
  <2>1. CASE k = tm /\ w = u
    BY <2>1, <1>2, <1>3 DEF Role
  <2>2. CASE ~(k = tm /\ w = u)
    <3>1. IsMember(k, w)
      BY <2>2, <1>3 DEF IsMember
    <3>2. CASE invitedBy[k][w] = NoUser
      BY <2>2, <3>1, <3>2, <1>3 DEF TInv, RolesAreGranted, Role
    <3>3. CASE invitedBy[k][w] # NoUser
      <4>1. PICK v \in Users : v = invitedBy[k][w]
        BY <3>3 DEF TInv, TypeOK
      <4>2. CanInviteWithRole(members[k][v], members[k][w]) = "ok"
        BY <3>1, <3>3, <4>1 DEF TInv, RolesAreGranted, Role
      <4>3. members'[k][v] = members[k][v]
        BY <4>2, GrantableRoles, <1>4 DEF RowsStay, IsMember
      <4> QED  BY <2>2, <3>3, <4>1, <4>2, <4>3, <1>3
    <3> QED  BY <3>2, <3>3
  <2> QED  BY <2>1, <2>2
<1>7. mailed' = mailed /\ mailed \subseteq Mails
  BY DEF Adds, TInv, TypeOK
<1>8. MailedOncePerMember'
  <2> SUFFICES ASSUME NEW m \in mailed
               PROVE  members'[m.team][m.user] # NoRole /\ invitedBy'[m.team][m.user] = m.by
    BY <1>7 DEF MailedOncePerMember, IsMember, TInv
  <2>1. m.team \in Teams /\ m.user \in Users
    BY <1>7 DEF Mails
  <2>2. IsMember(m.team, m.user) /\ invitedBy[m.team][m.user] = m.by
    BY DEF TInv, MailedOncePerMember
  <2> QED  BY <2>1, <2>2, <1>4 DEF RowsStay, IsMember
<1>9. InviterOfNobody'
  <2> SUFFICES ASSUME NEW k \in Teams, NEW w \in Users, members'[k][w] = NoRole
               PROVE  invitedBy'[k][w] = NoUser
    BY DEF InviterOfNobody, IsMember
  <2>1. ~(k = tm /\ w = u)
    BY <1>2, <1>3
  <2> QED  BY <2>1, <1>3 DEF TInv, InviterOfNobody, IsMember
<1> QED  BY <1>3, <1>4, <1>5, <1>6, <1>7, <1>8, <1>9 DEF Tables

LEMMA CreatesKeeps ==
  ASSUME TInv, NEW tm \in Teams, NEW u \in Users, Creates(tm, u)
  PROVE  Tables' /\ RowsStay
<1>1. \A w \in Users : ~IsMember(tm, w) /\ invitedBy[tm][w] = NoUser
  BY DEF Creates, CreateTeam, TeamExists, TInv, InviterOfNobody
<1>2. /\ members'[tm][u] = "owner" /\ UNCHANGED <<invitedBy, mailed>>
      /\ \A k \in Teams, w \in Users : k # tm \/ w # u => members'[k][w] = members[k][w]
      /\ MembersTypeOK'
  BY DEF Creates, CreateTeam, TInv, TypeOK, MembersTypeOK, Roles
<1>3. RowsStay
  BY <1>1, <1>2 DEF RowsStay
<1>4. OneOwner'
  <2> SUFFICES ASSUME NEW k \in Teams, TeamExists(k)'
               PROVE  \E v \in Users : \A w \in Users : Role(k, w)' = "owner" <=> w = v
    BY DEF OneOwner
  <2>1. CASE k = tm
    BY <2>1, <1>1, <1>2 DEF Role, IsMember, NoRole
  <2>2. CASE k # tm
    <3>1. TeamExists(k)
      BY <2>2, <1>2 DEF TeamExists, IsMember
    <3> QED  BY <2>2, <3>1, <1>2 DEF TInv, OneOwner, Role
  <2> QED  BY <2>1, <2>2
<1>5. RolesAreGranted'
  <2> SUFFICES ASSUME NEW k \in Teams, NEW w \in Users, IsMember(k, w)'
               PROVE  IF invitedBy'[k][w] = NoUser THEN members'[k][w] = "owner"
                      ELSE CanInviteWithRole(members'[k][invitedBy'[k][w]], members'[k][w]) = "ok"
    BY DEF RolesAreGranted, Role
  <2>1. CASE k = tm
    BY <2>1, <1>1, <1>2 DEF IsMember
  <2>2. CASE k # tm
    <3>1. IsMember(k, w)
      BY <2>2, <1>2 DEF IsMember
    <3> QED  BY <2>2, <3>1, <1>2 DEF TInv, TypeOK, RolesAreGranted, Role
  <2> QED  BY <2>1, <2>2
<1>6. MailedOncePerMember' /\ InviterOfNobody'
  BY <1>1, <1>2, <1>3
     DEF TInv, TypeOK, MailedOncePerMember, InviterOfNobody, RowsStay, IsMember, Mails
<1> QED  BY <1>2, <1>3, <1>4, <1>5, <1>6 DEF Tables, TInv, TypeOK

LEMMA NotifiesKeeps ==
  ASSUME TInv, NEW r \in Reqs, Notifies(r)
  PROVE  Tables' /\ RowsStay
<1>1. /\ req[r] \in Invitations
      /\ IsMember(req[r].team, req[r].user)
      /\ invitedBy[req[r].team][req[r].user] = req[r].by
  BY DEF Notifies, TInv, Carried
<1>2. /\ Mail(r) \in Mails
      /\ Mail(r).team = req[r].team /\ Mail(r).user = req[r].user /\ Mail(r).by = req[r].by
  BY <1>1 DEF Mail, Mails, Invitations
<1>3. UNCHANGED <<members, invitedBy>>
  BY DEF Notifies
<1>4. /\ mailed' = mailed \cup {Mail(r)}
      /\ \A m \in mailed : ~(m.team = Mail(r).team /\ m.user = Mail(r).user)
  BY <1>2 DEF Notifies, TInv, OneNotice, SameRow
<1>5. MailedOncePerMember'
  BY <1>1, <1>2, <1>3, <1>4 DEF TInv, MailedOncePerMember, IsMember
<1>6. mailed' \subseteq Mails
  BY <1>2, <1>4 DEF TInv, TypeOK
<1> QED
  BY <1>3, <1>5, <1>6
     DEF Tables, RowsStay, TInv, TypeOK, MembersTypeOK, OneOwner, TeamExists,
                    IsMember, Role, RolesAreGranted, InviterOfNobody

LEMMA TablesStep ==
  ASSUME TInv, [Next]_vars
  PROVE  Tables' /\ RowsStay
<1>1. CASE UNCHANGED <<members, invitedBy, mailed>>
  BY <1>1 DEF Tables, RowsStay, TInv, TypeOK, MembersTypeOK, OneOwner, TeamExists,
              IsMember, Role, RolesAreGranted, InviterOfNobody, MailedOncePerMember
<1> QED  BY <1>1, StepCases, AddsKeeps, CreatesKeeps, NotifiesKeeps

-----------------------------------------------------------------------------
(* The requests *)

\* Rows that stay keep what has been decided from them.
LEMMA AdmissibleStays ==
  ASSUME RowsStay, NEW q, Admissible(q)
  PROVE  Admissible(q)'
<1>1. IsMember(q.team, q.by) /\ q.team \in Teams /\ q.by \in Users
  BY GrantableRoles DEF Admissible, Invitations, IsMember, Role
<1> QED  BY <1>1 DEF Admissible, RowsStay, Role

LEMMA OthersKeep ==
  ASSUME TInv, RowsStay, NEW s \in Reqs, pc'[s] = pc[s], req'[s] = req[s]
  PROVE  Carried(s)'
<1>1. pc'[s] \in {"resolve", "ismember", "context", "add"} => Admissible(req[s])'
  BY AdmissibleStays DEF TInv, Carried
<1>2. pc'[s] = "notify" =>
        /\ req[s] \in Invitations
        /\ members'[req[s].team][req[s].user] # NoRole
        /\ invitedBy'[req[s].team][req[s].user] = req[s].by
  BY DEF TInv, Carried, RowsStay, Invitations, IsMember
<1> QED  BY <1>1, <1>2 DEF Carried, Admissible, IsMember

\* The control state after a step of r, whatever it was.
Moved(r) ==
  /\ pc' \in [Reqs -> {"idle"} \cup Steps \cup Done]
  /\ req' \in [Reqs -> Invitations \cup {NoReq}]
  /\ \A s \in Reqs \ {r} : pc'[s] = pc[s] /\ req'[s] = req[s]
  /\ Carried(r)'

LEMMA FinishMoves ==
  ASSUME TInv, NEW r \in Reqs, NEW outcome \in Done, Finish(r, outcome)
  PROVE  Moved(r)
<1>1. pc'[r] = outcome
  BY DEF Finish, TInv, TypeOK
<1>2. Carried(r)'
  BY <1>1 DEF Carried, Done
<1> QED  BY <1>1, <1>2 DEF Finish, Moved, TInv, TypeOK

LEMMA GotoMoves ==
  ASSUME TInv, RowsStay, NEW r \in Reqs, pc[r] \in {"resolve", "ismember", "context", "add"},
         NEW label \in {"ismember", "context", "add"}, Goto(r, label)
  PROVE  Moved(r)
<1>1. pc'[r] = label /\ UNCHANGED req
  BY DEF Goto, TInv, TypeOK
<1>2. Admissible(req[r])'
  BY <1>1, AdmissibleStays DEF TInv, Carried
<1>3. Carried(r)'
  BY <1>1, <1>2 DEF Carried, Admissible
<1> QED  BY <1>1, <1>3 DEF Goto, Moved, TInv, TypeOK, Steps

LEMMA StartInviteMoves ==
  ASSUME TInv, RowsStay, NEW r \in Reqs, StartInvite(r)
  PROVE  Moved(r)
<1>1. PICK tm \in Teams, u \in Users, in \in Inputs :
        \/ /\ Admitted(tm, u, in)
           /\ pc' = [pc EXCEPT ![r] = "resolve"]
           /\ req' = [req EXCEPT ![r] = [team |-> tm, by |-> u, user |-> Invitee(in),
                                         role |-> NormalRole(in)]]
        \/ Finish(r, "denied")
  BY DEF StartInvite
<1>2. CASE Finish(r, "denied")
  BY <1>2, FinishMoves DEF Done
<1>3. CASE /\ Admitted(tm, u, in)
           /\ pc' = [pc EXCEPT ![r] = "resolve"]
           /\ req' = [req EXCEPT ![r] = [team |-> tm, by |-> u, user |-> Invitee(in),
                                         role |-> NormalRole(in)]]
  <2>1. PICK q : q = [team |-> tm, by |-> u, user |-> Invitee(in), role |-> NormalRole(in)]
    OBVIOUS
  <2>2. Invitee(in) \in Users /\ NormalRole(in) \in Roles
    BY <1>3 DEF Admitted, ValidInput, Invitee, Inputs
  <2>3. q \in Invitations
    BY <2>1, <2>2 DEF Invitations
  <2>4. Admissible(q)
    BY <1>3, <2>1, <2>3 DEF Admissible, Admitted
  <2>5. pc'[r] = "resolve" /\ req'[r] = q
    BY <1>3, <2>1 DEF TInv, TypeOK
  <2>6. Admissible(q)'
    BY <2>4, AdmissibleStays
  <2>7. Carried(r)'
    BY <2>5, <2>6 DEF Carried, Admissible
  <2> QED  BY <1>3, <2>1, <2>3, <2>7 DEF Moved, TInv, TypeOK, Steps
<1> QED  BY <1>1, <1>2, <1>3

LEMMA InviteMemberMoves ==
  ASSUME TInv, RowsStay, NEW r \in Reqs, InviteMember(r)
  PROVE  Moved(r)
<1>1. CASE Finish(r, "conflict")
  BY <1>1, FinishMoves DEF Done
<1>2. CASE InsertMember(req[r]) /\ Goto(r, "notify")
  <2>1. Admissible(req[r])
    BY DEF InviteMember, TInv, Carried
  <2>2. PICK q \in Invitations : q = req[r]
    BY <2>1 DEF Admissible
  <2>3. q.team \in Teams /\ q.user \in Users /\ q.role # NoRole
    BY <2>2 DEF Invitations, Roles, NoRole
  <2>4. members'[q.team][q.user] = q.role /\ invitedBy'[q.team][q.user] = q.by
    BY <1>2, <2>2, <2>3 DEF InsertMember, TInv, TypeOK, MembersTypeOK
  <2>5. pc'[r] = "notify" /\ req' = req
    BY <1>2 DEF Goto, TInv, TypeOK
  <2>6. Carried(r)'
    BY <2>2, <2>3, <2>4, <2>5 DEF Carried, IsMember
  <2> QED  BY <1>2, <2>5, <2>6 DEF Goto, Moved, TInv, TypeOK, Steps
<1> QED  BY <1>1, <1>2 DEF InviteMember

LEMMA InsertTeamMoves ==
  ASSUME TInv, NEW r \in Reqs, InsertTeam(r)
  PROVE  Moved(r)
<1>1. pc'[r] = "reread" /\ req' = req
  BY DEF InsertTeam, Goto, TInv, TypeOK
<1>2. Carried(r)'
  BY <1>1 DEF Carried
<1> QED  BY <1>1, <1>2 DEF InsertTeam, Goto, Moved, TInv, TypeOK, Steps

LEMMA ServeMoves ==
  ASSUME TInv, RowsStay, NEW r \in Reqs, Serve(r)
  PROVE  Moved(r)
<1>1. CASE RefuseTeam(r) \/ RereadTeam(r) \/ NotifyInvitation(r) \/ InsertUnacked(r) \/ Fail(r)
  BY <1>1, FinishMoves
     DEF RefuseTeam, RereadTeam, NotifyInvitation, InsertUnacked, Fail, Done
<1>2. CASE ResolveInvitee(r)
  BY <1>2, FinishMoves, GotoMoves DEF ResolveInvitee, Done
<1>3. CASE CheckMember(r)
  BY <1>3, FinishMoves, GotoMoves DEF CheckMember, Done
<1>4. CASE LoadInviteContext(r)
  BY <1>4, GotoMoves DEF LoadInviteContext
<1> QED
  BY <1>1, <1>2, <1>3, <1>4, StartInviteMoves, InviteMemberMoves, InsertTeamMoves DEF Serve

\* A row that has just been inserted has no mail and nobody about to mail.
LEMMA NoticeStep ==
  ASSUME TInv, RowsStay, NEW r \in Reqs, Serve(r), Moved(r)
  PROVE  OneNotice'
<1>1. \A s \in Reqs \ {r} : pc'[s] = pc[s] /\ req'[s] = req[s]
  BY DEF Moved
<1>2. CASE pc'[r] # "notify" /\ mailed' = mailed
  BY <1>1, <1>2 DEF TInv, OneNotice, SameRow
<1>3. CASE Notifies(r) /\ pc'[r] # "notify"
  <2>1. Mail(r).team = req[r].team /\ Mail(r).user = req[r].user
    BY DEF Mail
  <2>2. mailed' = mailed \cup {Mail(r)} /\ pc[r] = "notify"
    BY <1>3 DEF Notifies
  <2> QED  BY <1>1, <1>3, <2>1, <2>2 DEF TInv, OneNotice, SameRow
<1>4. CASE InviteMember(r) /\ pc'[r] = "notify"
  <2>1. /\ ~IsMember(req[r].team, req[r].user)
        /\ req'[r] = req[r] /\ mailed' = mailed
    BY <1>4 DEF InviteMember, InsertMember, Goto, Finish, TInv, TypeOK
  <2>2. \A s \in Reqs : pc[s] = "notify" => ~SameRow(req[s], req[r]) /\ ~SameRow(req[r], req[s])
    BY <2>1 DEF TInv, Carried, SameRow
  <2>3. \A m \in mailed : ~SameRow(req[r], m)
    BY <2>1 DEF TInv, MailedOncePerMember, SameRow
  <2> QED  BY <1>1, <2>1, <2>2, <2>3 DEF TInv, OneNotice, SameRow
<1>5. CASE NotifyInvitation(r)
  <2>1. pc'[r] # "notify"
    BY <1>5 DEF NotifyInvitation, Finish, TInv, TypeOK
  <2> QED  BY <1>2, <1>3, <1>5, <2>1 DEF NotifyInvitation, Notifies
<1>6. CASE InviteMember(r)
  BY <1>2, <1>4, <1>6 DEF InviteMember
<1>7. CASE \/ RefuseTeam(r) \/ InsertTeam(r) \/ RereadTeam(r) \/ StartInvite(r)
           \/ ResolveInvitee(r) \/ CheckMember(r) \/ LoadInviteContext(r)
           \/ InsertUnacked(r) \/ Fail(r)
  <2>1. pc'[r] # "notify" /\ mailed' = mailed
    BY <1>7 DEF RefuseTeam, InsertTeam, RereadTeam, StartInvite, ResolveInvitee, CheckMember,
                LoadInviteContext, InsertUnacked, Fail, Goto, Finish, TInv, TypeOK
  <2> QED  BY <1>2, <2>1
<1> QED  BY <1>5, <1>6, <1>7 DEF Serve

LEMMA InitInv == Init => TInv
  BY DEF Init, MembersInit, TInv, TypeOK, MembersTypeOK, OneOwner, TeamExists, IsMember,
         RolesAreGranted, MailedOncePerMember, InviterOfNobody, Carried, OneNotice

LEMMA NextInv == TInv /\ [Next]_vars => TInv'
<1> SUFFICES ASSUME TInv, [Next]_vars PROVE TInv'
  OBVIOUS
<1>1. Tables' /\ RowsStay
  BY TablesStep
<1>2. CASE UNCHANGED vars
  <2>1. \A s \in Reqs : Carried(s)'
    BY <1>1, <1>2, OthersKeep DEF vars
  <2>2. OneNotice'
    BY <1>2 DEF vars, TInv, OneNotice
  <2> QED  BY <1>1, <1>2, <2>1, <2>2 DEF vars, Tables, TInv, TypeOK
<1>3. ASSUME NEW r \in Reqs, Serve(r) PROVE TInv'
  <2>1. Moved(r)
    BY <1>1, <1>3, ServeMoves
  <2>2. \A s \in Reqs : Carried(s)'
    BY <1>1, <2>1, OthersKeep DEF Moved
  <2>3. OneNotice'
    BY <1>1, <1>3, <2>1, NoticeStep
  <2> QED  BY <1>1, <2>1, <2>2, <2>3 DEF Moved, Tables, TInv, TypeOK
<1> QED  BY <1>2, <1>3 DEF Next

LEMMA TInvHolds == Spec => []TInv
  BY InitInv, NextInv, PTL DEF Spec

-----------------------------------------------------------------------------
(* Requests and tables of the team service are always well formed. *)
THEOREM TypeCorrect == Spec => []TypeOK
<1>1. TInv => TypeOK
  BY DEF TInv
<1> QED  BY <1>1, TInvHolds, PTL

(* A team never has two owners, nor none, whoever invites whom at once. *)
THEOREM TeamsHaveOneOwner == Spec => []OneOwner
<1>1. TInv => OneOwner
  BY DEF TInv
<1> QED  BY <1>1, TInvHolds, PTL

(* Every role was granted by an inviter who may grant it, although Invite     *)
(* decides several statements before it inserts.                              *)
THEOREM RolesComeFromEntitled == Spec => []RolesAreGranted
<1>1. TInv => RolesAreGranted
  BY DEF TInv
<1> QED  BY <1>1, TInvHolds, PTL

(* Of several invitations of one user, only the one that inserted the row mails. *)
THEOREM OneMailPerMember == Spec => []MailedOncePerMember
<1>1. TInv => MailedOncePerMember
  BY DEF TInv
<1> QED  BY <1>1, TInvHolds, PTL

(* Nothing the team service does changes or removes a role.                  *)
THEOREM RolesStay == Spec => RolesArePermanent
<1>1. TInv /\ [Next]_vars =>
        [\A tm \in Teams, u \in Users : IsMember(tm, u) => Role(tm, u)' = Role(tm, u)]_members
  BY TablesStep DEF RowsStay, Role
<1> QED  BY <1>1, TInvHolds, PTL DEF Spec, RolesArePermanent

(* The team service implements TeamMembers, which is all the task service     *)
(* relies on.                                                                 *)
THEOREM ImplementsMembers == Spec => MembersSpec
<1>1. Init => MembersInit
  BY DEF Init
<1>2. TInv /\ [Next]_vars => [MembersNext]_members
  <2> SUFFICES ASSUME TInv, [Next]_vars PROVE [MembersNext]_members
    OBVIOUS
  <2>1. ASSUME NEW q \in Invitations, Adds(q) PROVE MembersNext
    <3>1. q.team \in Teams /\ q.by \in Users /\ q.user \in Users /\ q.role \in Roles
      BY DEF Invitations
    <3>2. AddMember(q.team, q.by, q.user, q.role)
      BY <2>1 DEF Adds, Admissible, InsertMember, AddMember
    <3> QED  BY <3>1, <3>2 DEF MembersNext
  <2>2. ASSUME NEW tm \in Teams, NEW u \in Users, Creates(tm, u) PROVE MembersNext
    BY <2>2 DEF Creates, MembersNext
  <2> QED  BY <2>1, <2>2, StepCases DEF Notifies
<1> QED  BY <1>1, <1>2, TInvHolds, PTL DEF Spec, MembersSpec

-----------------------------------------------------------------------------
(* The answers *)

\* The row that invitation q asked for.
RowAsAsked(q) == Role(q.team, q.user) = q.role /\ invitedBy[q.team][q.user] = q.by

\* A request ends once. Its INSERT, if any, is followed by a 2xx or a 5xx, a 4xx
\* leaves no row of it, and a 2xx comes after its INSERT alone: the row it asked
\* for is in the table then, while a conflict tells of the row of another.
AnswersAreTrue ==
  [][\A r \in Reqs : pc'[r] # pc[r] =>
       /\ pc[r] \notin Done
       /\ members' # members =>
            pc[r] \in {"idle", "add"} /\ pc'[r] \in {"reread", "notify", "failed"}
       /\ pc[r] \in {"reread", "notify"} => pc'[r] \in {"ok", "failed"}
       /\ pc'[r] = "ok" =>
            /\ pc[r] \in {"reread", "notify"}
            /\ r \in InviteReqs => pc[r] = "notify" /\ RowAsAsked(req[r])
       /\ pc'[r] = "conflict" => IsMember(req[r].team, req[r].user)]_vars

\* Whoever has a role got it from the owner, or from an admin whom the owner made
\* one, or founded the team.
GrantsComeFromOwner ==
  \A tm \in Teams, u \in Users : IsMember(tm, u) =>
    LET by(w) == invitedBy[tm][w] IN
    \/ Role(tm, u) = "owner" /\ by(u) = NoUser
    \/ by(u) \in Users /\ Role(tm, by(u)) = "owner"
    \/ /\ by(u) \in Users /\ Role(tm, by(u)) = "admin" /\ Role(tm, u) = "member"
       /\ by(by(u)) \in Users /\ Role(tm, by(by(u))) = "owner"

\* A request that still has to mail has inserted what it was asked for; one that
\* reads its team back has founded it.
Asked ==
  \A r \in Reqs : /\ pc[r] = "notify" => RowAsAsked(req[r])
                  /\ pc[r] = "reread" => r \in CreateReqs

LEMMA AskedStep == TInv /\ Asked /\ [Next]_vars => Asked'
<1> SUFFICES ASSUME TInv, Asked, [Next]_vars, NEW s \in Reqs
             PROVE  /\ pc'[s] = "notify" =>
                         /\ members'[req'[s].team][req'[s].user] = req'[s].role
                         /\ invitedBy'[req'[s].team][req'[s].user] = req'[s].by
                    /\ pc'[s] = "reread" => s \in CreateReqs
  BY DEF Asked, RowAsAsked, Role
<1>1. RowsStay
  BY TablesStep
<1>2. CASE pc'[s] = pc[s] /\ req'[s] = req[s]
  BY <1>1, <1>2 DEF TInv, Carried, Asked, RowAsAsked, Role, RowsStay, Invitations
<1>3. ASSUME Serve(s), pc'[s] \in {"notify", "reread"}
      PROVE  InviteMember(s) \/ InsertTeam(s)
  BY <1>3
     DEF Serve, RefuseTeam, RereadTeam, StartInvite, ResolveInvitee, CheckMember, Fail,
         LoadInviteContext, NotifyInvitation, InsertUnacked, Finish, Goto, TInv, TypeOK
<1>4. CASE InviteMember(s) /\ pc'[s] \in {"notify", "reread"}
  <2>1. pc'[s] = "notify" /\ req' = req /\ InsertMember(req[s])
    BY <1>4 DEF InviteMember, Finish, Goto, TInv, TypeOK
  <2>2. req[s] \in Invitations
    BY <1>4 DEF InviteMember, TInv, Carried, Admissible
  <2>3. req[s].team \in Teams /\ req[s].user \in Users
    BY <2>2 DEF Invitations
  <2> QED  BY <2>1, <2>3 DEF InsertMember, TInv, TypeOK, MembersTypeOK
<1>5. CASE InsertTeam(s)
  BY <1>5 DEF InsertTeam, Goto, TInv, TypeOK
<1>6. ASSUME NEW r \in Reqs \ {s}, Serve(r) PROVE pc'[s] = pc[s] /\ req'[s] = req[s]
  BY <1>1, <1>6, ServeMoves DEF Moved
<1> QED  BY <1>2, <1>3, <1>4, <1>5, <1>6 DEF Next, vars

LEMMA AnswersStep ==
  ASSUME TInv, Asked, [Next]_vars, NEW r \in Reqs, pc'[r] # pc[r]
  PROVE  /\ pc[r] \notin Done
         /\ members' # members =>
              pc[r] \in {"idle", "add"} /\ pc'[r] \in {"reread", "notify", "failed"}
         /\ pc[r] \in {"reread", "notify"} => pc'[r] \in {"ok", "failed"}
         /\ pc'[r] = "ok" =>
              /\ pc[r] \in {"reread", "notify"}
              /\ r \in InviteReqs => pc[r] = "notify" /\ RowAsAsked(req[r])
         /\ pc'[r] = "conflict" => IsMember(req[r].team, req[r].user)
<1>1. Serve(r)
  <2>1. PICK s \in Reqs : Serve(s)
    BY DEF Next, vars
  <2>2. Moved(s)
    BY <2>1, TablesStep, ServeMoves
  <2> QED  BY <2>1, <2>2 DEF Moved
<1>2. \A label : Goto(r, label) \/ Finish(r, label) => pc'[r] = label
  BY DEF Goto, Finish, TInv, TypeOK
<1>3. CASE RefuseTeam(r) \/ StartInvite(r) \/ ResolveInvitee(r) \/ LoadInviteContext(r)
  <2>1. /\ pc[r] \in {"idle", "resolve", "context"} /\ UNCHANGED members
        /\ pc'[r] \in {"denied", "resolve", "ismember", "add"}
    BY <1>2, <1>3
       DEF RefuseTeam, StartInvite, ResolveInvitee, LoadInviteContext, TInv, TypeOK
  <2> QED  BY <2>1 DEF Done
<1>4. CASE InsertTeam(r)
  BY <1>2, <1>4 DEF InsertTeam, Done
<1>5. CASE RereadTeam(r) \/ NotifyInvitation(r)
  <2>1. /\ pc[r] \in {"reread", "notify"} /\ UNCHANGED members /\ pc'[r] = "ok"
    BY <1>2, <1>5 DEF RereadTeam, NotifyInvitation
  <2>2. r \in InviteReqs => pc[r] = "notify" /\ RowAsAsked(req[r])
    BY <2>1, ReqsAssumption DEF Asked
  <2> QED  BY <2>1, <2>2 DEF Done
<1>6. CASE CheckMember(r)
  BY <1>2, <1>6 DEF CheckMember, Done
<1>7. CASE InviteMember(r)
  BY <1>2, <1>7 DEF InviteMember, InsertMember, Done
<1>8. CASE InsertUnacked(r) \/ Fail(r)
  BY <1>2, <1>8 DEF InsertUnacked, Fail, Steps, Done
<1> QED  BY <1>1, <1>3, <1>4, <1>5, <1>6, <1>7, <1>8 DEF Serve

(* Clients of both endpoints are told the truth: an invitation answered with  *)
(* a 2xx has given the role asked for, in the name of who asked; one answered *)
(* with a 4xx has inserted nothing, and a conflict was due to a member.       *)
THEOREM AnswersAreTrueHolds == Spec => AnswersAreTrue
<1>1. Init => Asked
  BY DEF Init, Asked
<1>2. TInv /\ Asked /\ [Next]_vars =>
        [\A r \in Reqs : pc'[r] # pc[r] =>
           /\ pc[r] \notin Done
           /\ members' # members =>
                pc[r] \in {"idle", "add"} /\ pc'[r] \in {"reread", "notify", "failed"}
           /\ pc[r] \in {"reread", "notify"} => pc'[r] \in {"ok", "failed"}
           /\ pc'[r] = "ok" =>
                /\ pc[r] \in {"reread", "notify"}
                /\ r \in InviteReqs => pc[r] = "notify" /\ RowAsAsked(req[r])
           /\ pc'[r] = "conflict" => IsMember(req[r].team, req[r].user)]_vars
  BY AnswersStep
<1> QED  BY <1>1, <1>2, AskedStep, TInvHolds, PTL DEF Spec, AnswersAreTrue

(* No chain of invitations goes round in circles or starts with an outsider: *)
(* it leads to the owner in two steps at most, in every team of every size.   *)
THEOREM GrantsComeFromOwnerHolds == Spec => []GrantsComeFromOwner
<1>1. TInv => GrantsComeFromOwner
  <2> SUFFICES ASSUME TInv, NEW tm \in Teams, NEW u \in Users, IsMember(tm, u)
               PROVE  GrantsComeFromOwner!(tm, u)!2
    BY DEF GrantsComeFromOwner
  <2> DEFINE by(w) == invitedBy[tm][w]
  <2>1. ASSUME NEW w \in Users, IsMember(tm, w), by(w) # NoUser
        PROVE  /\ by(w) \in Users /\ IsMember(tm, by(w))
               /\ \/ Role(tm, by(w)) = "owner"
                  \/ Role(tm, by(w)) = "admin" /\ Role(tm, w) = "member"
    <3>1. by(w) \in Users /\ CanInviteWithRole(Role(tm, by(w)), Role(tm, w)) = "ok"
      BY <2>1 DEF TInv, TypeOK, RolesAreGranted
    <3>2. Role(tm, w) \in Roles
      BY <2>1 DEF TInv, TypeOK, MembersTypeOK, IsMember, Role
    <3>3. /\ Role(tm, by(w)) \in {"owner", "admin"} /\ Role(tm, w) # "owner"
          /\ Role(tm, w) = "admin" => Role(tm, by(w)) = "owner"
      BY <3>1 DEF CanInviteWithRole, CanInvite
    <3> QED  BY <3>1, <3>2, <3>3 DEF Roles, IsMember, Role, NoRole
  <2>2. ASSUME NEW w \in Users, IsMember(tm, w), by(w) = NoUser PROVE Role(tm, w) = "owner"
    BY <2>2 DEF TInv, RolesAreGranted
  <2>3. CASE by(u) = NoUser
    BY <2>2, <2>3
  <2>4. CASE by(u) # NoUser /\ Role(tm, by(u)) = "owner"
    BY <2>1, <2>4
  <2>5. CASE by(u) # NoUser /\ Role(tm, by(u)) # "owner"
    <3>1. /\ by(u) \in Users /\ IsMember(tm, by(u))
          /\ Role(tm, by(u)) = "admin" /\ Role(tm, u) = "member"
      BY <2>1, <2>5
    <3>2. by(by(u)) # NoUser
      BY <2>2, <3>1
    <3>3. by(by(u)) \in Users /\ Role(tm, by(by(u))) = "owner"
      BY <2>1, <3>1, <3>2
    <3> QED  BY <3>1, <3>3
  <2> QED  BY <2>3, <2>4, <2>5
<1> QED  BY <1>1, TInvHolds, PTL

=============================================================================
