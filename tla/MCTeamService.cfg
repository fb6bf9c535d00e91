SPECIFICATION Spec
CONSTANTS
  Users = {u1, u2, u3, u4}
  Teams = {team1}
  CreateReqs = {c1}
  InviteReqs = {i1, i2, i3}
  NoUser = NoUser
  OtherRole = "boss"
  NoReq = NoReq
INVARIANTS OneOwner RolesAreGranted MailedOncePerMember
PROPERTIES RolesArePermanent MembersSpec
SYMMETRY Symmetry
CHECK_DEADLOCK FALSE
