------------------------- MODULE TaskServiceProofs -------------------------
(***************************************************************************)
(* TaskService implements TaskLedger, for any requests, users and teams.   *)
(* The argument is the inductive invariant SInv: what a request has read   *)
(* outside its transaction (team, role, membership of the assignee) never  *)
(* changes, and what does change, the row, it reads again under the lock.  *)
(* Every invariant of TaskLedgerProofs then holds of the program, and      *)
(* every step that writes is one of a request and writes what it asked.    *)
(* And beside the list cache it is what TaskCache takes it for (TaskApi):  *)
(* the writers of a team, so that the bound on staleness of                *)
(* TaskCacheProofs holds of the stepwise service.                          *)
(***************************************************************************)
EXTENDS TaskApi, TaskLedgerProofs

UpdateSteps == {"get", "role", "assignee", "lock", "authorize", "write", "invalidate"}

CreateSteps == {"role", "assignee", "stamp", "insert", "invalidate"}

Checked == {"lock", "authorize", "write", "stamp", "insert"}

\* What holds of request r while it is being served.
RInv(r) ==
  /\ pc[r] \in Steps =>
       /\ req[r] \in Requests(r)
       /\ pc[r] \in (IF r \in CreateReqs THEN CreateSteps ELSE UpdateSteps)
  /\ pc[r] \in UpdateSteps \ {"get"} /\ r \notin CreateReqs =>
       /\ row[r] \in Rows
       /\ Exists(req[r].task)
       /\ row[r].team = tasks[req[r].task].team
  /\ pc[r] \in Checked \cup {"assignee"} =>
       /\ IsMember(TeamOf(r), req[r].actor)
       /\ role[r] = Role(TeamOf(r), req[r].actor)
  /\ pc[r] \in Checked => AssigneeAllowed(TeamOf(r), req[r].body)
  /\ pc[r] \in {"authorize", "write"} => row[r] = tasks[req[r].task]
  /\ pc[r] = "insert" => now[r] \in Nat /\ now[r] <= clock
  /\ pc[r] = "write" =>
       /\ MayUpdate(role[r], row[r], req[r].actor, req[r].body)
       /\ Changed(row[r].val, req[r].body) # {}
       /\ now[r] \in Nat /\ row[r].updatedAt <= now[r] /\ now[r] <= clock

StampInv == \A t \in TaskIds : Exists(t) => tasks[t].updatedAt <= clock

SInv ==
  /\ TypeOK
  /\ HistoryTimeOrdered
  /\ StampInv
  /\ LocksAreHeldInTransactions
  /\ \A r \in Reqs : RInv(r)

-----------------------------------------------------------------------------
(* Validation and normalisation *)

LEMMA NormalDraftType ==
  ASSUME NEW d \in Drafts, ValidBody(d)
  PROVE  NormalDraft(d) \in Contents
<1>1. IsBody(d) /\ Fields \ {"status"} \subseteq DOMAIN d
  BY DraftsAssumption
<1>2. ASSUME NEW f \in Fields PROVE NormalDraft(d)[f] \in ValuesOf(f)
  <2>1. CASE f = "title"
    BY <2>1, <1>1 DEF NormalDraft, ValidBody, ValuesOf, Fields
  <2>2. CASE f = "status"
    BY <2>2, <1>1 DEF NormalDraft, ValidBody, ValuesOf, Fields, Statuses
  <2>3. CASE f \in {"description", "assignee_id"}
    <3>1. f \in DOMAIN d /\ d[f] \in RawValuesOf(f)
      BY <2>3, <1>1 DEF IsBody, Fields
    <3>2. RawValuesOf(f) = ValuesOf(f) /\ NormalDraft(d)[f] = d[f]
      BY <2>3, <3>1 DEF RawValuesOf, NormalDraft
    <3> QED  BY <3>1, <3>2
  <2> QED  BY <2>1, <2>2, <2>3 DEF Fields
<1>3. \A f \in Fields : ValuesOf(f) \subseteq Values
  BY DEF Values
<1>4. NormalDraft(d) = [f \in Fields |-> NormalDraft(d)[f]]
  BY DEF NormalDraft
<1> QED  BY <1>2, <1>3, <1>4 DEF Contents

LEMMA NormalPatchType ==
  ASSUME NEW p \in RawPatches, DOMAIN p # {}, ValidBody(p)
  PROVE  NormalPatch(p) \in Patches
<1>1. IsBody(p)
  BY RawPatchesAssumption
<1>2. DOMAIN NormalPatch(p) = DOMAIN p /\ DOMAIN p \in (SUBSET Fields) \ {{}}
  BY <1>1 DEF NormalPatch, IsBody
<1>3. ASSUME NEW f \in DOMAIN p PROVE NormalPatch(p)[f] \in ValuesOf(f)
  <2>1. f \in Fields /\ p[f] \in RawValuesOf(f)
    BY <1>1 DEF IsBody
  <2>2. CASE f = "title"
    BY <2>2 DEF NormalPatch, ValidBody, ValuesOf
  <2>3. CASE f = "status"
    BY <2>3 DEF NormalPatch, ValidBody, ValuesOf
  <2>4. CASE f \notin {"title", "status"}
    BY <2>1, <2>4 DEF NormalPatch, RawValuesOf
  <2> QED  BY <2>2, <2>3, <2>4
<1>4. \A f \in DOMAIN p : f \in Fields /\ ValuesOf(f) \subseteq Values
  BY <1>2 DEF Values
<1>5. NormalPatch(p) \in [DOMAIN p -> Values]
  BY <1>3, <1>4 DEF NormalPatch
<1> QED  BY <1>2, <1>3, <1>5 DEF Patches

-----------------------------------------------------------------------------
(* Every step is a ledger step or leaves the ledger alone *)

LEMMA InsertedRefines ==
  ASSUME SInv, NEW r \in Reqs, pc[r] = "insert", Inserted(r), UNCHANGED <<members, clock>>
  PROVE  LedgerWrite
<1>1. /\ RInv(r) /\ r \in CreateReqs /\ req[r] \in Requests(r)
  BY DEF SInv, RInv, Steps, UpdateSteps, CreateSteps
<1>2. /\ req[r].actor \in Users /\ req[r].team \in Teams /\ req[r].body \in Contents
      /\ TeamOf(r) = req[r].team
  BY <1>1 DEF Requests, TeamOf
<1>3. /\ IsMember(req[r].team, req[r].actor) /\ AssigneeAllowed(req[r].team, req[r].body)
      /\ now[r] \in Nat /\ now[r] <= clock
  BY <1>1, <1>2 DEF RInv, Checked
<1>4. PICK t \in TaskIds :
        ~Exists(t) /\ WriteCreate(t, req[r].team, req[r].actor, req[r].body, now[r])
  BY DEF Inserted
<1>5. now[r] \in 0 .. clock
  BY <1>3 DEF SInv, TypeOK, LedgerTypeOK, Times
<1>6. LedgerCreate(t, req[r].team, req[r].actor, req[r].body)
  BY <1>3, <1>4, <1>5 DEF LedgerCreate
<1>7. history'[t] # history[t]
  <2>1. history[t] = <<>>
    BY <1>4 DEF SInv, HistoryTimeOrdered
  <2>2. history'[t] = <<CreatedEntry(req[r].actor, now[r])>>
    BY <1>4 DEF SInv, TypeOK, LedgerTypeOK, WriteCreate
  <2> QED  BY <2>1, <2>2
<1>8. tasks'[t].val = req[r].body
  BY <1>4 DEF SInv, TypeOK, LedgerTypeOK, WriteCreate, NewRow
<1> QED  BY <1>2, <1>6, <1>7, <1>8 DEF LedgerWrite

LEMMA WrittenRefines ==
  ASSUME SInv, NEW r \in Reqs, pc[r] = "write", Written(r), UNCHANGED <<members, clock>>
  PROVE  LedgerWrite
<1>1. RInv(r) /\ r \notin CreateReqs /\ req[r] \in Requests(r)
  BY DEF SInv, RInv, Steps, UpdateSteps, CreateSteps
<1> DEFINE t == req[r].task
           u == req[r].actor
           p == req[r].body
<1>2. t \in TaskIds /\ u \in Users /\ p \in Patches /\ TeamOf(r) = row[r].team
  BY <1>1 DEF Requests, TeamOf
<1>3. /\ Exists(t) /\ row[r] = tasks[t] /\ row[r] \in Rows
      /\ IsMember(tasks[t].team, u) /\ role[r] = Role(tasks[t].team, u)
      /\ AssigneeAllowed(tasks[t].team, p)
      /\ MayUpdate(role[r], row[r], u, p) /\ Changed(row[r].val, p) # {}
      /\ now[r] \in Nat /\ row[r].updatedAt <= now[r] /\ now[r] <= clock
  BY <1>1, <1>2 DEF RInv, Checked, UpdateSteps
<1>4. now[r] \in tasks[t].updatedAt .. clock
  BY <1>3 DEF Rows, Times, SInv, TypeOK, LedgerTypeOK
<1>5. WriteUpdate(t, tasks[t], u, p, now[r])
  BY <1>3 DEF Written
<1>6. LedgerUpdate(t, u, p)
  BY <1>3, <1>4, <1>5 DEF LedgerUpdate
<1>7. history'[t] # history[t]
  <2>1. history[t] \in Seq(Entries)
    BY <1>2 DEF SInv, TypeOK, LedgerTypeOK
  <2>2. \A e : Append(history[t], e) # history[t]
    BY <2>1
  <2>3. history'[t] = Append(history[t], UpdatedEntry(tasks[t], p, u, now[r]))
    BY <1>2, <1>5 DEF WriteUpdate, SInv, TypeOK, LedgerTypeOK
  <2> QED  BY <2>2, <2>3
<1>8. p = NewValues(t, DOMAIN p) /\ DOMAIN p \in SUBSET Fields
  <2>1. tasks'[t] = PatchedRow(tasks[t], p, now[r])
    BY <1>2, <1>5 DEF WriteUpdate, SInv, TypeOK, LedgerTypeOK
  <2>2. \A f \in DOMAIN p : f \in Fields
    BY <1>2, PatchField
  <2>3. \A f \in DOMAIN p : PatchedRow(tasks[t], p, now[r]).val[f] = p[f]
    BY <1>2, <1>3, <2>2, PatchedRowType
  <2>4. p = [f \in DOMAIN p |-> p[f]]
    BY <1>2 DEF Patches
  <2> QED  BY <2>1, <2>2, <2>3, <2>4 DEF NewValues
<1> QED  BY <1>2, <1>6, <1>7, <1>8 DEF LedgerWrite

LEMMA StepRefines == SInv /\ [Next]_vars => [LedgerNext]_ledgerVars
<1> SUFFICES ASSUME SInv, [Next]_vars PROVE [LedgerNext]_ledgerVars
  OBVIOUS
<1>1. CASE Environment \/ UNCHANGED vars
  BY <1>1 DEF Environment, LateIncr, LedgerNext, vars
<1>2. ASSUME NEW r \in Reqs, Serve(r) PROVE [LedgerNext]_ledgerVars
  <2>1. CASE Insert(r)
    BY <2>1, InsertedRefines DEF Insert, LedgerNext
  <2>2. CASE Commit(r)
    BY <2>2, WrittenRefines DEF Commit, LedgerNext
  <2>3. CASE CommitUnacked(r)
    BY <2>3, InsertedRefines, WrittenRefines DEF CommitUnacked, LedgerNext
  <2>4. CASE \/ StartCreate(r) \/ StartUpdate(r) \/ Get(r) \/ MemberRole(r)
             \/ CheckAssignee(r) \/ Stamp(r) \/ LockRow(r) \/ Authorize(r)
             \/ InvalidateTeam(r) \/ Fail(r)
    BY <2>4 DEF StartCreate, StartUpdate, Get, MemberRole, CheckAssignee, Stamp, LockRow,
                Authorize, InvalidateTeam, Fail
  <2> QED  BY <1>2, <2>1, <2>2, <2>3, <2>4 DEF Serve, Proceed
<1> QED  BY <1>1, <1>2 DEF Next

-----------------------------------------------------------------------------
(* The ledger part of SInv' *)

LEMMA LedgerPart ==
  ASSUME SInv, [Next]_vars
  PROVE  /\ LedgerTypeOK' /\ HistoryTimeOrdered'
         /\ [LedgerNext]_ledgerVars
  BY StepRefines, LedgerTypeStep, TimeStep DEF SInv, TypeOK

\* What no ledger step undoes.
Grows ==
  /\ clock \in Nat /\ clock' \in Nat /\ clock <= clock'
  /\ \A tm \in Teams, u \in Users :
       IsMember(tm, u) => IsMember(tm, u)' /\ Role(tm, u)' = Role(tm, u)
  /\ \A t \in TaskIds : Exists(t) => Exists(t)' /\ tasks'[t].team = tasks[t].team

LEMMA LedgerGrows ==
  ASSUME LedgerTypeOK, [LedgerNext]_ledgerVars
  PROVE  Grows /\ (StampInv => StampInv')
<1>0. clock \in Nat
  BY DEF LedgerTypeOK, Times
<1>1. CASE ChangeTeams
  BY <1>0, <1>1, MembersStay DEF ChangeTeams, LedgerTypeOK, Grows, StampInv, Exists
<1>2. CASE Tick
  <2>1. \A t \in TaskIds : Exists(t) => tasks[t].updatedAt \in Nat
    BY DEF LedgerTypeOK, Exists, Rows, Times
  <2> QED
    BY <1>0, <1>2, <2>1 DEF Tick, Grows, StampInv, Exists, IsMember, Role
<1>3. CASE UNCHANGED ledgerVars
  BY <1>0, <1>3 DEF ledgerVars, Grows, StampInv, Exists, IsMember, Role
<1>4. ASSUME NEW t \in TaskIds, NEW u \in Users, NEW tm \in Teams, NEW v \in Contents,
             NEW now_ \in Nat, CreateStep(t, tm, u, v, now_)
      PROVE  Grows /\ (StampInv => StampInv')
  <2>1. tasks'[t].updatedAt = now_ /\ now_ <= clock
    <3>1. now_ <= clock
      BY <1>4 DEF CreateStep
    <3>2. tasks'[t] = NewRow(tm, u, v, now_)
      BY <1>4, CreateEffect
    <3>3. NewRow(tm, u, v, now_).updatedAt = now_
      BY DEF NewRow
    <3> QED  BY <3>1, <3>2, <3>3
  <2>2. ~Exists(t)
    BY <1>4 DEF CreateStep
  <2> QED
    BY <1>0, <1>4, <2>1, <2>2, CreateEffect DEF Grows, StampInv, Exists, IsMember, Role
<1>5. ASSUME NEW t \in TaskIds, NEW u \in Users, NEW p \in Patches, NEW now_ \in Nat,
             UpdateStep(t, u, p, now_)
      PROVE  Grows /\ (StampInv => StampInv')
  <2>1. tasks[t] \in Rows /\ tasks'[t] = PatchedRow(tasks[t], p, now_)
    BY <1>5, UpdateEffect
  <2>2. tasks'[t].updatedAt = now_ /\ tasks'[t].team = tasks[t].team
    BY <2>1, PatchedRowType
  <2>3. now_ <= clock
    BY <1>5 DEF UpdateStep
  <2> QED
    BY <1>0, <1>5, <2>2, <2>3, UpdateEffect DEF Grows, StampInv, Exists, IsMember, Role
<1> QED  BY <1>1, <1>2, <1>3, <1>4, <1>5, StepCases

\* A request that does not move keeps its invariant through steps of others that
\* leave the row alone that it has locked.
LEMMA OthersKeep ==
  ASSUME SInv, Grows, LedgerTypeOK', NEW s \in Reqs,
         pc'[s] = pc[s], req'[s] = req[s], role'[s] = role[s], row'[s] = row[s],
         now'[s] = now[s],
         pc[s] \in {"authorize", "write"} =>
           tasks'[req[s].task] = tasks[req[s].task]
  PROVE  RInv(s)'
<1>1. RInv(s)
  BY DEF SInv
<1>2. s \in CreateReqs /\ pc[s] \in Steps =>
        TeamOf(s) \in Teams /\ req[s].actor \in Users /\ req[s].body \in Contents
  BY <1>1 DEF RInv, Requests, TeamOf
<1>3. s \notin CreateReqs /\ pc[s] \in UpdateSteps \ {"get"} =>
        /\ TeamOf(s) \in Teams /\ req[s].actor \in Users /\ req[s].body \in Patches
        /\ req[s].task \in TaskIds
  BY <1>1 DEF RInv, Requests, TeamOf, Rows, UpdateSteps, Steps
<1>4. PICK tm : tm = TeamOf(s) /\ tm = TeamOf(s)'
  BY DEF TeamOf
<1>5. pc[s] \in Checked => AssigneeAllowed(TeamOf(s), req[s].body)'
  <2> SUFFICES ASSUME pc[s] \in Checked,
                      "assignee_id" \in DOMAIN req[s].body,
                      req[s].body["assignee_id"] # NoUser
               PROVE  IsMember(tm, req[s].body["assignee_id"])'
    BY <1>4 DEF AssigneeAllowed, IsMember
  <2>1. tm \in Teams /\ req[s].body["assignee_id"] \in Users
    <3>1. pc[s] \in Steps /\ pc[s] # "get"
      BY DEF Checked, Steps
    <3>2. CASE s \in CreateReqs
      BY <3>1, <3>2, <1>2, <1>4 DEF Contents, ValuesOf, Fields
    <3>3. CASE s \notin CreateReqs
      <4>1. pc[s] \in UpdateSteps \ {"get"}
        BY <3>1, <3>3, <1>1 DEF RInv
      <4>2. req[s].body["assignee_id"] \in ValuesOf("assignee_id")
        BY <4>1, <3>3, <1>3, PatchField
      <4> QED  BY <4>1, <4>2, <3>3, <1>3, <1>4 DEF ValuesOf
    <3> QED  BY <3>2, <3>3
  <2>2. IsMember(tm, req[s].body["assignee_id"])
    BY <1>1, <1>4 DEF RInv, AssigneeAllowed
  <2> QED  BY <2>1, <2>2 DEF Grows, IsMember
<1>6. pc[s] \in Checked \cup {"assignee"} =>
        /\ IsMember(TeamOf(s), req[s].actor)'
        /\ role'[s] = Role(TeamOf(s), req[s].actor)'
  <2> SUFFICES ASSUME pc[s] \in Checked \cup {"assignee"}
               PROVE  IsMember(tm, req[s].actor)' /\ role'[s] = Role(tm, req[s].actor)'
    BY <1>4 DEF IsMember, Role
  <2>1. tm \in Teams /\ req[s].actor \in Users
    BY <1>1, <1>2, <1>3, <1>4 DEF RInv, Checked, Steps, UpdateSteps, CreateSteps
  <2>2. IsMember(tm, req[s].actor) /\ role[s] = Role(tm, req[s].actor)
    BY <1>1, <1>4 DEF RInv
  <2> QED  BY <2>1, <2>2 DEF Grows, IsMember, Role
<1>7. pc[s] \in UpdateSteps \ {"get"} /\ s \notin CreateReqs =>
        /\ row'[s] \in Rows /\ Exists(req[s].task)'
        /\ row'[s].team = tasks'[req[s].task].team
  BY <1>1, <1>3 DEF RInv, Grows, Exists
<1>8. pc[s] \in {"authorize", "write"} => row'[s] = tasks'[req[s].task]
  BY <1>1 DEF RInv
<1>9. pc[s] = "insert" => now[s] \in Nat /\ now[s] <= clock'
  BY <1>1 DEF RInv, Grows
<1>10. pc[s] = "write" =>
         /\ MayUpdate(role[s], row[s], req[s].actor, req[s].body)
         /\ Changed(row[s].val, req[s].body) # {}
         /\ now[s] \in Nat /\ row[s].updatedAt <= now[s] /\ now[s] <= clock'
  BY <1>1 DEF RInv, Grows
<1>11. pc[s] \in Steps =>
         /\ req[s] \in Requests(s)
         /\ pc[s] \in (IF s \in CreateReqs THEN CreateSteps ELSE UpdateSteps)
  BY <1>1 DEF RInv
<1> QED  BY <1>5, <1>6, <1>7, <1>8, <1>9, <1>10, <1>11 DEF RInv

-----------------------------------------------------------------------------
(* One request moves *)

LocalTypeOK ==
  /\ pc \in [Reqs -> {"idle"} \cup Steps \cup Done]
  /\ DOMAIN req = Reqs /\ \A r \in Reqs : req[r] \in Requests(r) \cup {NoReq}
  /\ role \in [Reqs -> Roles \cup {NoRole}]
  /\ row \in [Reqs -> Rows \cup {NoTask}]
  /\ now \in [Reqs -> Times \cup {NoTime}]
  /\ lock \in [TaskIds -> Reqs \cup {NoReq}]

IncrsTypeOK ==
  /\ version \in [Teams -> Nat]
  /\ tries \in [Reqs -> Nat] /\ \A r \in Reqs : tries[r] <= MaxRetries[r]
  /\ strays \in [Teams -> Nat]

InTransaction(r) == pc[r] \in {"authorize", "write"}

\* Requests other than r keep their locals, their locks and the rows they lock.
OthersStay(r) ==
  \A s \in Reqs \ {r} :
    /\ pc'[s] = pc[s] /\ req'[s] = req[s] /\ role'[s] = role[s]
    /\ row'[s] = row[s] /\ now'[s] = now[s]
    /\ \A t \in TaskIds : lock'[t] = s <=> lock[t] = s
    /\ InTransaction(s) => tasks'[req[s].task] = tasks[req[s].task]

\* Only the attempts of INCR touch what IncrsTypeOK speaks of.
LEMMA IncrsTypes == IncrsTypeOK /\ [Next]_vars => IncrsTypeOK'
<1> SUFFICES ASSUME IncrsTypeOK, [Next]_vars PROVE IncrsTypeOK'
  OBVIOUS
<1>1. CASE UNCHANGED incrs
  BY <1>1 DEF incrs, IncrsTypeOK
<1>2. ASSUME NEW tm \in Teams, LateIncr(tm) PROVE IncrsTypeOK'
  BY <1>2 DEF LateIncr, IncrsTypeOK
<1>3. ASSUME NEW r \in Reqs, InvalidateTeam(r) PROVE IncrsTypeOK'
  <2>1. version' \in [Teams -> Nat] /\ strays' \in [Teams -> Nat]
    BY <1>3 DEF InvalidateTeam, IncrsTypeOK
  <2>2. tries' \in [Reqs -> Nat] /\ \A s \in Reqs : tries'[s] <= MaxRetries[s]
    BY <1>3, MaxRetriesAssumption DEF InvalidateTeam, IncrsTypeOK
  <2> QED  BY <2>1, <2>2 DEF IncrsTypeOK
<1> QED
  BY <1>1, <1>2, <1>3
     DEF Next, Environment, Serve, Proceed, StartCreate, StartUpdate, Get, MemberRole,
         CheckAssignee, Stamp, Insert, LockRow, Authorize, Commit, CommitUnacked, Fail, vars

LEMMA OneMoves ==
  ASSUME SInv, [Next]_vars, NEW r \in Reqs,
         LocalTypeOK', OthersStay(r), RInv(r)',
         \A t \in TaskIds : lock'[t] = r <=> InTransaction(r)' /\ req'[r].task = t
  PROVE  SInv'
<1>1. LedgerTypeOK' /\ HistoryTimeOrdered' /\ Grows /\ StampInv'
  BY LedgerPart, LedgerGrows DEF SInv, TypeOK
<1>2. TypeOK'
  BY <1>1, IncrsTypes DEF SInv, TypeOK, LocalTypeOK, IncrsTypeOK
<1>3. \A s \in Reqs : RInv(s)'
  <2> SUFFICES ASSUME NEW s \in Reqs \ {r} PROVE RInv(s)'
    OBVIOUS
  <2> QED  BY <1>1, OthersKeep DEF OthersStay, InTransaction
<1>4. LocksAreHeldInTransactions'
  <2> SUFFICES ASSUME NEW t \in TaskIds, NEW s \in Reqs \ {r}
               PROVE  lock'[t] = s <=> pc'[s] \in {"authorize", "write"} /\ req'[s].task = t
    BY DEF LocksAreHeldInTransactions, InTransaction
  <2> QED  BY DEF OthersStay, SInv, LocksAreHeldInTransactions
<1> QED  BY <1>1, <1>2, <1>3, <1>4 DEF SInv

LEMMA FinishKeeps ==
  ASSUME SInv, [Next]_vars, NEW r \in Reqs, NEW outcome \in Done, Finish(r, outcome),
         \A s \in Reqs \ {r} : InTransaction(s) => tasks'[req[s].task] = tasks[req[s].task]
  PROVE  SInv'
<1>1. pc'[r] = outcome /\ outcome \notin Steps /\ ~InTransaction(r)'
  BY DEF Finish, SInv, TypeOK, Done, Steps, InTransaction
<1>2. RInv(r)'
  BY <1>1 DEF RInv, Done, Steps, UpdateSteps, Checked
<1>3. LocalTypeOK'
  BY DEF Finish, SInv, TypeOK, LocalTypeOK, Requests
<1>4. OthersStay(r) /\ \A t \in TaskIds : lock'[t] # r
  BY ReqsAssumption DEF Finish, SInv, TypeOK, OthersStay
<1> QED  BY <1>1, <1>2, <1>3, <1>4, OneMoves

-----------------------------------------------------------------------------
(* One lemma per action *)

\* What SInv says of a request at a step of the update or of the creation.
LEMMA ServedRequest ==
  ASSUME SInv, NEW r \in Reqs, pc[r] \in Steps
  PROVE  /\ RInv(r)
         /\ req[r] \in Requests(r)
         /\ pc[r] \in (IF r \in CreateReqs THEN CreateSteps ELSE UpdateSteps)
         /\ r \in CreateReqs => /\ req[r].actor \in Users /\ req[r].body \in Contents
                                /\ req[r].team \in Teams
         /\ r \notin CreateReqs => /\ req[r].actor \in Users /\ req[r].body \in Patches
                                   /\ req[r].task \in TaskIds
         /\ pc[r] # "get" => TeamOf(r) \in Teams
<1>1. RInv(r)
  BY DEF SInv
<1>2. req[r] \in Requests(r) /\ pc[r] \in (IF r \in CreateReqs THEN CreateSteps ELSE UpdateSteps)
  BY <1>1 DEF RInv
<1>3. r \notin CreateReqs /\ pc[r] # "get" => row[r] \in Rows
  BY <1>1, <1>2 DEF RInv
<1> QED  BY <1>1, <1>2, <1>3 DEF Requests, TeamOf, Rows

LEMMA StartCreateKeeps ==
  ASSUME SInv, [Next]_vars, NEW r \in Reqs, StartCreate(r)
  PROVE  SInv'
<1>1. PICK u \in Users, tm \in Teams, d \in Drafts :
        \/ /\ ValidBody(d)
           /\ Goto(r, "role")
           /\ req' = [req EXCEPT ![r] = [actor |-> u, team |-> tm, body |-> NormalDraft(d)]]
           /\ UNCHANGED <<role, row, now, lock>>
        \/ Finish(r, "denied")
  BY DEF StartCreate
<1>2. r \in CreateReqs /\ pc[r] = "idle" /\ UNCHANGED <<ledgerVars>>
  BY DEF StartCreate
<1>3. CASE Finish(r, "denied")
  BY <1>2, <1>3, FinishKeeps DEF SInv, TypeOK, Done, ledgerVars
<1>4. CASE /\ ValidBody(d)
           /\ Goto(r, "role")
           /\ req' = [req EXCEPT ![r] = [actor |-> u, team |-> tm, body |-> NormalDraft(d)]]
           /\ UNCHANGED <<role, row, now, lock>>
  <2>1. [actor |-> u, team |-> tm, body |-> NormalDraft(d)] \in Requests(r)
    BY <1>2, <1>4, NormalDraftType DEF Requests
  <2>2. /\ pc' = [pc EXCEPT ![r] = "role"] /\ pc'[r] = "role" /\ req'[r] \in Requests(r)
        /\ DOMAIN req' = Reqs /\ \A s \in Reqs \ {r} : req'[s] = req[s]
    BY <1>4, <2>1 DEF Goto, SInv, TypeOK
  <2>3. LocalTypeOK'
    BY <1>2, <1>4, <2>2 DEF SInv, TypeOK, LocalTypeOK, Steps, Requests
  <2>4. RInv(r)'
    BY <1>2, <2>2 DEF RInv, Steps, CreateSteps, Checked, Requests
  <2>5. OthersStay(r)
    BY <1>2, <1>4, <2>2 DEF OthersStay, SInv, TypeOK, ledgerVars
  <2>6. \A t \in TaskIds : lock'[t] # r
    BY <1>2, <1>4 DEF SInv, LocksAreHeldInTransactions
  <2>7. ~InTransaction(r)'
    BY <2>2 DEF InTransaction
  <2> QED  BY <2>3, <2>4, <2>5, <2>6, <2>7, OneMoves
<1> QED  BY <1>1, <1>3, <1>4

LEMMA StartUpdateKeeps ==
  ASSUME SInv, [Next]_vars, NEW r \in Reqs, StartUpdate(r)
  PROVE  SInv'
<1>1. PICK u \in Users, t \in TaskIds, p \in RawPatches :
        \/ /\ DOMAIN p # {} /\ ValidBody(p)
           /\ Goto(r, "get")
           /\ req' = [req EXCEPT ![r] = [actor |-> u, task |-> t, body |-> NormalPatch(p)]]
           /\ UNCHANGED <<role, row, now, lock>>
        \/ Finish(r, "denied")
  BY DEF StartUpdate
<1>2. r \notin CreateReqs /\ pc[r] = "idle" /\ UNCHANGED <<ledgerVars>>
  BY ReqsAssumption DEF StartUpdate
<1>3. CASE Finish(r, "denied")
  BY <1>2, <1>3, FinishKeeps DEF SInv, TypeOK, Done, ledgerVars
<1>4. CASE /\ DOMAIN p # {} /\ ValidBody(p)
           /\ Goto(r, "get")
           /\ req' = [req EXCEPT ![r] = [actor |-> u, task |-> t, body |-> NormalPatch(p)]]
           /\ UNCHANGED <<role, row, now, lock>>
  <2>1. [actor |-> u, task |-> t, body |-> NormalPatch(p)] \in Requests(r)
    BY <1>2, <1>4, NormalPatchType DEF Requests
  <2>2. /\ pc' = [pc EXCEPT ![r] = "get"] /\ pc'[r] = "get" /\ req'[r] \in Requests(r)
        /\ DOMAIN req' = Reqs /\ \A s \in Reqs \ {r} : req'[s] = req[s]
    BY <1>4, <2>1 DEF Goto, SInv, TypeOK
  <2>3. LocalTypeOK'
    BY <1>2, <1>4, <2>2 DEF SInv, TypeOK, LocalTypeOK, Steps, Requests
  <2>4. RInv(r)'
    BY <1>2, <2>2 DEF RInv, Steps, UpdateSteps, Checked, Requests
  <2>5. OthersStay(r)
    BY <1>2, <1>4, <2>2 DEF OthersStay, SInv, TypeOK, ledgerVars
  <2>6. \A s \in TaskIds : lock'[s] # r
    BY <1>2, <1>4 DEF SInv, LocksAreHeldInTransactions
  <2>7. ~InTransaction(r)'
    BY <2>2 DEF InTransaction
  <2> QED  BY <2>3, <2>4, <2>5, <2>6, <2>7, OneMoves
<1> QED  BY <1>1, <1>3, <1>4

LEMMA GetKeeps ==
  ASSUME SInv, [Next]_vars, NEW r \in Reqs, Get(r)
  PROVE  SInv'
<1>1. /\ pc[r] = "get" /\ UNCHANGED <<ledgerVars>>
      /\ r \notin CreateReqs /\ req[r] \in Requests(r) /\ req[r].task \in TaskIds
  BY ServedRequest DEF Get, Steps, CreateSteps
<1>2. CASE Finish(r, "denied")
  BY <1>1, <1>2, FinishKeeps DEF SInv, TypeOK, Done, ledgerVars
<1>3. CASE /\ Exists(req[r].task) /\ Goto(r, "role")
           /\ row' = [row EXCEPT ![r] = tasks[req[r].task]]
           /\ UNCHANGED <<req, role, now, lock>>
  <2>1. tasks[req[r].task] \in Rows
    BY <1>1, <1>3 DEF Exists, SInv, TypeOK, LedgerTypeOK
  <2>2. /\ pc' = [pc EXCEPT ![r] = "role"] /\ pc'[r] = "role"
        /\ row'[r] = tasks[req[r].task]
    BY <1>3 DEF Goto, SInv, TypeOK
  <2>3. LocalTypeOK'
    BY <1>1, <1>3, <2>1, <2>2 DEF SInv, TypeOK, LocalTypeOK, Steps, Requests
  <2>4. RInv(r)'
    BY <1>1, <1>3, <2>1, <2>2 DEF RInv, Steps, UpdateSteps, Checked, Requests, Exists, ledgerVars
  <2>5. OthersStay(r)
    BY <1>1, <1>3, <2>2 DEF OthersStay, SInv, TypeOK, ledgerVars
  <2>6. ~InTransaction(r)' /\ \A s \in TaskIds : lock'[s] # r
    BY <1>1, <1>3, <2>2 DEF SInv, LocksAreHeldInTransactions, InTransaction
  <2> QED  BY <2>3, <2>4, <2>5, <2>6, OneMoves
<1> QED  BY <1>2, <1>3 DEF Get

LEMMA MemberRoleKeeps ==
  ASSUME SInv, [Next]_vars, NEW r \in Reqs, MemberRole(r)
  PROVE  SInv'
<1>1. /\ pc[r] = "role" /\ UNCHANGED <<ledgerVars>>
      /\ RInv(r) /\ req[r] \in Requests(r)
      /\ req[r].actor \in Users /\ TeamOf(r) \in Teams
  BY ServedRequest DEF MemberRole, Steps
<1>2. CASE Finish(r, "denied")
  BY <1>1, <1>2, FinishKeeps DEF SInv, TypeOK, Done, ledgerVars
<1>3. CASE /\ IsMember(TeamOf(r), req[r].actor)
           /\ Goto(r, IF AssigneeGiven(r) THEN "assignee" ELSE FirstRepoCall(r))
           /\ role' = [role EXCEPT ![r] = Role(TeamOf(r), req[r].actor)]
           /\ UNCHANGED <<req, row, now, lock>>
  <2>1. PICK label \in {"assignee", "stamp", "lock"} :
          /\ label = IF AssigneeGiven(r) THEN "assignee" ELSE FirstRepoCall(r)
          /\ label = "stamp" => r \in CreateReqs
          /\ label = "lock" => r \notin CreateReqs
          /\ label # "assignee" => AssigneeAllowed(TeamOf(r), req[r].body)
    BY DEF FirstRepoCall, AssigneeGiven, AssigneeAllowed
  <2>2. pc' = [pc EXCEPT ![r] = label] /\ pc'[r] = label
    BY <1>3, <2>1 DEF Goto, SInv, TypeOK
  <2>3. Role(TeamOf(r), req[r].actor) \in Roles \cup {NoRole}
    BY <1>1 DEF SInv, TypeOK, LedgerTypeOK, MembersTypeOK, Role
  <2>4. role'[r] = Role(TeamOf(r), req[r].actor) /\ TeamOf(r)' = TeamOf(r)
    BY <1>3 DEF SInv, TypeOK, TeamOf
  <2>5. LocalTypeOK'
    BY <1>1, <1>3, <2>2, <2>3 DEF SInv, TypeOK, LocalTypeOK, Steps, Requests
  <2>6. RInv(r)'
    <3>1. pc'[r] \in Steps =>
            /\ req'[r] \in Requests(r)
            /\ pc'[r] \in (IF r \in CreateReqs THEN CreateSteps ELSE UpdateSteps)
      BY <1>1, <1>3, <2>1, <2>2 DEF CreateSteps, UpdateSteps
    <3>2. r \notin CreateReqs =>
            row'[r] \in Rows /\ Exists(req[r].task)' /\ row'[r].team = tasks'[req[r].task].team
      BY <1>1, <1>3 DEF RInv, UpdateSteps, Exists, ledgerVars
    <3>3. /\ IsMember(TeamOf(r), req[r].actor)'
          /\ role'[r] = Role(TeamOf(r), req[r].actor)'
      BY <1>1, <1>3, <2>4 DEF IsMember, Role, ledgerVars
    <3>4. pc'[r] \in Checked => AssigneeAllowed(TeamOf(r), req[r].body)'
      BY <1>1, <1>3, <2>1, <2>2, <2>4 DEF Checked, AssigneeAllowed, IsMember, ledgerVars
    <3> QED  BY <1>3, <2>1, <2>2, <3>1, <3>2, <3>3, <3>4 DEF RInv
  <2>7. OthersStay(r)
    BY <1>1, <1>3, <2>2 DEF OthersStay, SInv, TypeOK, ledgerVars
  <2>8. ~InTransaction(r)' /\ \A s \in TaskIds : lock'[s] # r
    BY <1>1, <1>3, <2>1, <2>2 DEF SInv, LocksAreHeldInTransactions, InTransaction
  <2> QED  BY <2>5, <2>6, <2>7, <2>8, OneMoves
<1> QED  BY <1>2, <1>3 DEF MemberRole

LEMMA CheckAssigneeKeeps ==
  ASSUME SInv, [Next]_vars, NEW r \in Reqs, CheckAssignee(r)
  PROVE  SInv'
<1>1. /\ pc[r] = "assignee" /\ UNCHANGED <<ledgerVars>>
      /\ RInv(r) /\ req[r] \in Requests(r)
  BY ServedRequest DEF CheckAssignee, Steps
<1>2. CASE Finish(r, "denied")
  BY <1>1, <1>2, FinishKeeps DEF SInv, TypeOK, Done, ledgerVars
<1>3. CASE /\ IsMember(TeamOf(r), req[r].body["assignee_id"])
           /\ Goto(r, FirstRepoCall(r))
           /\ UNCHANGED <<locals, lock>>
  <2>1. PICK label \in {"stamp", "lock"} :
          /\ label = FirstRepoCall(r)
          /\ label = "stamp" => r \in CreateReqs
          /\ label = "lock" => r \notin CreateReqs
    BY DEF FirstRepoCall
  <2>2. pc' = [pc EXCEPT ![r] = label] /\ pc'[r] = label
    BY <1>3, <2>1 DEF Goto, SInv, TypeOK
  <2>3. UNCHANGED <<req, role, row, now, lock, members, tasks, clock>> /\ TeamOf(r)' = TeamOf(r)
    BY <1>1, <1>3 DEF locals, ledgerVars, TeamOf
  <2>4. LocalTypeOK'
    BY <1>1, <2>2, <2>3 DEF SInv, TypeOK, LocalTypeOK, Steps, Requests
  <2>5. RInv(r)'
    <3>1. pc'[r] \in Steps =>
            /\ req'[r] \in Requests(r)
            /\ pc'[r] \in (IF r \in CreateReqs THEN CreateSteps ELSE UpdateSteps)
      BY <1>1, <2>1, <2>2, <2>3 DEF CreateSteps, UpdateSteps
    <3>2. r \notin CreateReqs =>
            row'[r] \in Rows /\ Exists(req[r].task)' /\ row'[r].team = tasks'[req[r].task].team
      BY <1>1, <2>3 DEF RInv, UpdateSteps, Exists
    <3>3. /\ IsMember(TeamOf(r), req[r].actor)'
          /\ role'[r] = Role(TeamOf(r), req[r].actor)'
      BY <1>1, <2>3 DEF RInv, IsMember, Role
    <3>4. AssigneeAllowed(TeamOf(r), req[r].body)'
      BY <1>3, <2>3 DEF AssigneeAllowed, IsMember
    <3> QED  BY <2>1, <2>2, <2>3, <3>1, <3>2, <3>3, <3>4 DEF RInv
  <2>6. OthersStay(r)
    BY <1>1, <2>2, <2>3 DEF OthersStay, SInv, TypeOK
  <2>7. ~InTransaction(r)' /\ \A s \in TaskIds : lock'[s] # r
    BY <1>1, <2>2, <2>3 DEF SInv, LocksAreHeldInTransactions, InTransaction
  <2> QED  BY <2>4, <2>5, <2>6, <2>7, OneMoves
<1> QED  BY <1>2, <1>3 DEF CheckAssignee

LEMMA StampKeeps ==
  ASSUME SInv, [Next]_vars, NEW r \in Reqs, Stamp(r)
  PROVE  SInv'
<1>1. /\ pc[r] = "stamp" /\ RInv(r) /\ req[r] \in Requests(r) /\ r \in CreateReqs
      /\ UNCHANGED <<members, tasks, clock, req, role, row, lock>>
  BY ServedRequest DEF Stamp, Steps, UpdateSteps, ledgerVars
<1>2. /\ pc' = [pc EXCEPT ![r] = "insert"] /\ pc'[r] = "insert"
      /\ now' = [now EXCEPT ![r] = clock] /\ now'[r] = clock
      /\ clock \in Nat /\ TeamOf(r)' = TeamOf(r)
  BY <1>1 DEF Stamp, Goto, SInv, TypeOK, LedgerTypeOK, Times, TeamOf
<1>3. LocalTypeOK'
  BY <1>1, <1>2 DEF SInv, TypeOK, LocalTypeOK, Steps, Requests, Times
<1>4. RInv(r)'
  BY <1>1, <1>2 DEF RInv, Checked, IsMember, Role, AssigneeAllowed, CreateSteps
<1>5. OthersStay(r)
  BY <1>1, <1>2 DEF OthersStay, SInv, TypeOK
<1>6. ~InTransaction(r)' /\ \A s \in TaskIds : lock'[s] # r
  BY <1>1, <1>2 DEF SInv, LocksAreHeldInTransactions, InTransaction
<1> QED  BY <1>3, <1>4, <1>5, <1>6, OneMoves

\* An INSERT takes an id that no request can have locked.
LEMMA InsertedSparesLocked ==
  ASSUME SInv, NEW r \in Reqs, Inserted(r), NEW s \in Reqs, InTransaction(s)
  PROVE  tasks'[req[s].task] = tasks[req[s].task]
<1>1. PICK t \in TaskIds :
        ~Exists(t) /\ tasks' = [tasks EXCEPT ![t] = NewRow(req[r].team, req[r].actor,
                                                           req[r].body, now[r])]
  BY DEF Inserted, WriteCreate
<1>2. s \notin CreateReqs /\ Exists(req[s].task) /\ req[s].task \in TaskIds
  BY ServedRequest DEF InTransaction, Steps, UpdateSteps, CreateSteps, RInv
<1> QED  BY <1>1, <1>2 DEF SInv, TypeOK, LedgerTypeOK

\* An update writes the row it has locked itself.
LEMMA WrittenSparesLocked ==
  ASSUME SInv, NEW r \in Reqs, pc[r] = "write", Written(r),
         NEW s \in Reqs \ {r}, InTransaction(s)
  PROVE  tasks'[req[s].task] = tasks[req[s].task]
<1>1. req[r].task \in TaskIds /\ req[s].task \in TaskIds
  BY ServedRequest DEF InTransaction, Steps, UpdateSteps, CreateSteps
<1>2. lock[req[r].task] = r /\ lock[req[s].task] = s
  BY <1>1 DEF SInv, LocksAreHeldInTransactions, InTransaction
<1> QED  BY <1>1, <1>2 DEF Written, WriteUpdate, SInv, TypeOK, LedgerTypeOK

LEMMA InsertKeeps ==
  ASSUME SInv, [Next]_vars, NEW r \in Reqs, Insert(r)
  PROVE  SInv'
<1>1. /\ pc[r] = "insert" /\ req[r] \in Requests(r) /\ r \in CreateReqs
      /\ Inserted(r)
      /\ UNCHANGED <<req, role, row, now, lock>>
  BY ServedRequest DEF Insert, Steps, UpdateSteps, locals
<1>2. pc' = [pc EXCEPT ![r] = "invalidate"] /\ pc'[r] = "invalidate"
  BY DEF Insert, Goto, SInv, TypeOK
<1>3. LocalTypeOK'
  BY <1>1, <1>2 DEF SInv, TypeOK, LocalTypeOK, Steps, Requests
<1>4. RInv(r)'
  BY <1>1, <1>2 DEF RInv, Checked, CreateSteps
<1>5. OthersStay(r)
  BY <1>1, <1>2, InsertedSparesLocked DEF OthersStay, SInv, TypeOK
<1>6. ~InTransaction(r)' /\ \A s \in TaskIds : lock'[s] # r
  BY <1>1, <1>2 DEF SInv, LocksAreHeldInTransactions, InTransaction
<1> QED  BY <1>3, <1>4, <1>5, <1>6, OneMoves

LEMMA LockRowKeeps ==
  ASSUME SInv, [Next]_vars, NEW r \in Reqs, LockRow(r)
  PROVE  SInv'
<1>1. /\ pc[r] = "lock" /\ RInv(r) /\ req[r] \in Requests(r) /\ r \notin CreateReqs
      /\ req[r].task \in TaskIds
      /\ UNCHANGED <<members, tasks, clock, req, role, now>>
  BY ServedRequest DEF LockRow, Steps, CreateSteps, ledgerVars
<1>2. PICK t \in TaskIds : t = req[r].task
  BY <1>1
<1>3. /\ Exists(t) /\ tasks[t] \in Rows /\ row[r].team = tasks[t].team
  BY <1>1, <1>2 DEF RInv, UpdateSteps, Exists, SInv, TypeOK, LedgerTypeOK
<1>4. /\ pc' = [pc EXCEPT ![r] = "authorize"] /\ pc'[r] = "authorize"
      /\ row' = [row EXCEPT ![r] = tasks[t]] /\ row'[r] = tasks[t]
      /\ lock[t] = NoReq /\ lock' = [lock EXCEPT ![t] = r]
  BY <1>2 DEF LockRow, Goto, SInv, TypeOK
<1>5. TeamOf(r)' = TeamOf(r)
  BY <1>1, <1>3, <1>4 DEF TeamOf
<1>6. LocalTypeOK'
  BY <1>1, <1>3, <1>4 DEF SInv, TypeOK, LocalTypeOK, Steps, Requests
<1>7. RInv(r)'
  BY <1>1, <1>2, <1>3, <1>4, <1>5
     DEF RInv, Checked, IsMember, Role, AssigneeAllowed, UpdateSteps, Exists
<1>8. OthersStay(r)
  BY <1>1, <1>4, ReqsAssumption DEF OthersStay, SInv, TypeOK
<1>9. \A s \in TaskIds : lock'[s] = r <=> InTransaction(r)' /\ req'[r].task = s
  BY <1>1, <1>2, <1>4 DEF SInv, TypeOK, LocksAreHeldInTransactions, InTransaction
<1> QED  BY <1>6, <1>7, <1>8, <1>9, OneMoves

LEMMA AuthorizeKeeps ==
  ASSUME SInv, [Next]_vars, NEW r \in Reqs, Authorize(r)
  PROVE  SInv'
<1>1. /\ pc[r] = "authorize" /\ RInv(r) /\ req[r] \in Requests(r) /\ r \notin CreateReqs
      /\ req[r].task \in TaskIds
      /\ UNCHANGED <<members, tasks, clock>>
  BY ServedRequest DEF Authorize, Steps, CreateSteps, ledgerVars
<1>2. PICK t \in TaskIds : t = req[r].task
  BY <1>1
<1>3. \A s \in TaskIds : lock[s] = r <=> s = t
  BY <1>1, <1>2 DEF SInv, LocksAreHeldInTransactions
<1>4. CASE Finish(r, "denied")
  BY <1>1, <1>4, FinishKeeps DEF SInv, TypeOK, Done
<1>5. CASE /\ MayUpdate(role[r], row[r], req[r].actor, req[r].body)
           /\ Changed(row[r].val, req[r].body) # {}
           /\ Goto(r, "write")
           /\ now' = [now EXCEPT ![r] = clock]
           /\ UNCHANGED <<req, role, row, lock>>
  <2>1. /\ pc' = [pc EXCEPT ![r] = "write"] /\ pc'[r] = "write"
        /\ now'[r] = clock /\ clock \in Nat
        /\ TeamOf(r)' = TeamOf(r)
    BY <1>5 DEF Goto, SInv, TypeOK, LedgerTypeOK, Times, TeamOf
  <2>2. LocalTypeOK'
    BY <1>1, <1>5, <2>1 DEF SInv, TypeOK, LocalTypeOK, Steps, Requests, Times
  <2>3. row[r] = tasks[t] /\ Exists(t) /\ row[r].updatedAt <= clock
    BY <1>1, <1>2 DEF RInv, UpdateSteps, SInv, StampInv
  <2>4. RInv(r)'
    <3>1. /\ IsMember(TeamOf(r), req[r].actor)'
          /\ role'[r] = Role(TeamOf(r), req[r].actor)'
          /\ AssigneeAllowed(TeamOf(r), req[r].body)'
      BY <1>1, <1>5, <2>1 DEF RInv, Checked, IsMember, Role, AssigneeAllowed
    <3>2. row'[r] \in Rows /\ Exists(req[r].task)' /\ row'[r].team = tasks'[req[r].task].team
      BY <1>1, <1>5 DEF RInv, UpdateSteps, Exists
    <3>3. /\ MayUpdate(role[r], row[r], req[r].actor, req[r].body)'
          /\ (Changed(row[r].val, req[r].body) # {})'
      BY <1>5 DEF MayUpdate, Changed
    <3> QED  BY <1>1, <1>2, <1>5, <2>1, <2>3, <3>1, <3>2, <3>3 DEF RInv, UpdateSteps
  <2>5. OthersStay(r)
    BY <1>1, <1>5, <2>1 DEF OthersStay, SInv, TypeOK
  <2>6. \A s \in TaskIds : lock'[s] = r <=> InTransaction(r)' /\ req'[r].task = s
    BY <1>2, <1>3, <1>5, <2>1 DEF InTransaction
  <2> QED  BY <2>2, <2>4, <2>5, <2>6, OneMoves
<1>6. CASE /\ Goto(r, "invalidate")
           /\ lock' = [lock EXCEPT ![req[r].task] = NoReq]
           /\ UNCHANGED locals
  <2>1. /\ pc' = [pc EXCEPT ![r] = "invalidate"] /\ pc'[r] = "invalidate"
        /\ UNCHANGED <<req, role, row, now>> /\ lock' = [lock EXCEPT ![t] = NoReq]
    BY <1>2, <1>6 DEF Goto, SInv, TypeOK, locals
  <2>2. LocalTypeOK'
    BY <1>1, <2>1 DEF SInv, TypeOK, LocalTypeOK, Steps, Requests
  <2>3. RInv(r)'
    BY <1>1, <2>1 DEF RInv, Checked, UpdateSteps, Exists
  <2>4. OthersStay(r)
    BY <1>1, <1>3, <2>1, ReqsAssumption DEF OthersStay, SInv, TypeOK
  <2>5. ~InTransaction(r)' /\ \A s \in TaskIds : lock'[s] # r
    BY <1>3, <2>1, ReqsAssumption DEF SInv, TypeOK, InTransaction
  <2> QED  BY <2>2, <2>3, <2>4, <2>5, OneMoves
<1> QED  BY <1>4, <1>5, <1>6 DEF Authorize

LEMMA CommitKeeps ==
  ASSUME SInv, [Next]_vars, NEW r \in Reqs, Commit(r)
  PROVE  SInv'
<1>1. /\ pc[r] = "write" /\ RInv(r) /\ req[r] \in Requests(r) /\ r \notin CreateReqs
      /\ req[r].task \in TaskIds /\ Written(r)
      /\ UNCHANGED <<members, clock, req, role, row, now>>
  BY ServedRequest DEF Commit, Steps, CreateSteps, locals
<1>2. PICK t \in TaskIds : t = req[r].task
  BY <1>1
<1>3. \A s \in TaskIds : lock[s] = r <=> s = t
  BY <1>1, <1>2 DEF SInv, LocksAreHeldInTransactions
<1>4. /\ pc' = [pc EXCEPT ![r] = "invalidate"] /\ pc'[r] = "invalidate"
      /\ lock' = [lock EXCEPT ![t] = NoReq]
  BY <1>2 DEF Commit, Goto, SInv, TypeOK
<1>5. LocalTypeOK'
  BY <1>1, <1>4 DEF SInv, TypeOK, LocalTypeOK, Steps, Requests
<1>6. RInv(r)'
  <2>1. Grows
    BY LedgerPart, LedgerGrows DEF SInv, TypeOK
  <2>2. row'[r] \in Rows /\ Exists(t)' /\ row'[r].team = tasks'[t].team
    BY <1>1, <1>2, <2>1 DEF RInv, UpdateSteps, Grows
  <2> QED  BY <1>1, <1>2, <1>4, <2>2 DEF RInv, Checked, UpdateSteps, Exists
<1>7. OthersStay(r)
  BY <1>1, <1>3, <1>4, WrittenSparesLocked, ReqsAssumption DEF OthersStay, SInv, TypeOK
<1>8. ~InTransaction(r)' /\ \A s \in TaskIds : lock'[s] # r
  BY <1>3, <1>4, ReqsAssumption DEF SInv, TypeOK, InTransaction
<1> QED  BY <1>5, <1>6, <1>7, <1>8, OneMoves

LEMMA CommitUnackedKeeps ==
  ASSUME SInv, [Next]_vars, NEW r \in Reqs, CommitUnacked(r)
  PROVE  SInv'
<1>1. Finish(r, "failed") /\ "failed" \in Done
  BY DEF CommitUnacked, Done
<1>2. \A s \in Reqs \ {r} : InTransaction(s) => tasks'[req[s].task] = tasks[req[s].task]
  BY InsertedSparesLocked, WrittenSparesLocked DEF CommitUnacked
<1> QED  BY <1>1, <1>2, FinishKeeps DEF SInv, TypeOK

LEMMA FailKeeps ==
  ASSUME SInv, [Next]_vars, NEW r \in Reqs, Fail(r)
  PROVE  SInv'
  BY FinishKeeps DEF Fail, SInv, TypeOK, ledgerVars, Done

\* Nobody moves: teams change, the clock ticks, an INCR is run late or again, or
\* nothing happens.
LEMMA EnvironmentKeeps ==
  ASSUME SInv, [Next]_vars, UNCHANGED <<tasks, pc, req, role, row, now, lock>>
  PROVE  SInv'
<1>1. LedgerTypeOK' /\ HistoryTimeOrdered' /\ Grows /\ StampInv'
  BY LedgerPart, LedgerGrows DEF SInv, TypeOK
<1>2. TypeOK'
  BY <1>1, IncrsTypes DEF SInv, TypeOK, IncrsTypeOK, Requests
<1>3. \A s \in Reqs : RInv(s)'
  BY <1>1, OthersKeep
<1>4. LocksAreHeldInTransactions'
  BY DEF SInv, LocksAreHeldInTransactions
<1> QED  BY <1>1, <1>2, <1>3, <1>4 DEF SInv

LEMMA InvalidateTeamKeeps ==
  ASSUME SInv, [Next]_vars, NEW r \in Reqs, InvalidateTeam(r)
  PROVE  SInv'
<1>1. CASE Finish(r, "ok")
  BY <1>1, FinishKeeps DEF InvalidateTeam, ledgerVars, Done
<1>2. CASE UNCHANGED <<pc, locals, lock>>
  BY <1>2, EnvironmentKeeps DEF InvalidateTeam, ledgerVars, locals
<1> QED  BY <1>1, <1>2 DEF InvalidateTeam

-----------------------------------------------------------------------------
(* The theorems *)

LEMMA InitInv == Init => SInv
<1> SUFFICES ASSUME Init PROVE SInv
  OBVIOUS
<1>1. LedgerTypeOK /\ HistoryTimeOrdered /\ StampInv
  BY LedgerTypeInit DEF Init, LedgerInit, HistoryTimeOrdered, StampInv, Exists
<1>2. TypeOK
  BY <1>1, MaxRetriesAssumption DEF Init, TypeOK
<1>3. LocksAreHeldInTransactions
  BY ReqsAssumption DEF Init, LocksAreHeldInTransactions
<1>4. \A r \in Reqs : RInv(r)
  BY DEF Init, RInv, Steps, UpdateSteps, Checked
<1> QED  BY <1>1, <1>2, <1>3, <1>4 DEF SInv

LEMMA NextInv == SInv /\ [Next]_vars => SInv'
<1> SUFFICES ASSUME SInv, [Next]_vars PROVE SInv'
  OBVIOUS
<1>1. CASE Environment
  BY <1>1, EnvironmentKeeps DEF Environment, ChangeTeams, Tick, LateIncr, ledgerVars, locals
<1>2. CASE UNCHANGED vars
  BY <1>2, EnvironmentKeeps DEF vars, ledgerVars, locals
<1>3. ASSUME NEW r \in Reqs, Serve(r) PROVE SInv'
  <2>1. CASE StartCreate(r)
    BY <2>1, StartCreateKeeps
  <2>2. CASE StartUpdate(r)
    BY <2>2, StartUpdateKeeps
  <2>3. CASE Get(r)
    BY <2>3, GetKeeps
  <2>4. CASE MemberRole(r)
    BY <2>4, MemberRoleKeeps
  <2>5. CASE CheckAssignee(r)
    BY <2>5, CheckAssigneeKeeps
  <2>6. CASE Stamp(r)
    BY <2>6, StampKeeps
  <2>7. CASE Insert(r)
    BY <2>7, InsertKeeps
  <2>8. CASE LockRow(r)
    BY <2>8, LockRowKeeps
  <2>9. CASE Authorize(r)
    BY <2>9, AuthorizeKeeps
  <2>10. CASE Commit(r)
    BY <2>10, CommitKeeps
  <2>11. CASE InvalidateTeam(r)
    BY <2>11, InvalidateTeamKeeps
  <2>12. CASE CommitUnacked(r)
    BY <2>12, CommitUnackedKeeps
  <2>13. CASE Fail(r)
    BY <2>13, FailKeeps
  <2> QED
    BY <1>3, <2>1, <2>2, <2>3, <2>4, <2>5, <2>6, <2>7, <2>8, <2>9, <2>10, <2>11, <2>12,
       <2>13 DEF Serve, Proceed
<1> QED  BY <1>1, <1>2, <1>3 DEF Next

LEMMA SInvHolds == Spec => []SInv
  BY InitInv, NextInv, PTL DEF Spec

(* The program's state is always well formed, locals of requests included:   *)
(* what NormalDraft and NormalPatch let through is what the tables hold.     *)
THEOREM TypeCorrect == Spec => []TypeOK
<1>1. SInv => TypeOK
  BY DEF SInv
<1> QED  BY <1>1, SInvHolds, PTL

(* A row lock is held exactly by the request whose transaction has taken it, *)
(* however the requests end.                                                 *)
THEOREM LocksEndWithTransactions == Spec => []LocksAreHeldInTransactions
<1>1. SInv => LocksAreHeldInTransactions
  BY DEF SInv
<1> QED  BY <1>1, SInvHolds, PTL

(* Whatever requests run at once and whichever fail, the tables change as if *)
(* each write were one atomic, authorised and audited transaction.           *)
THEOREM ImplementsLedger == Spec => LedgerSpec
<1>1. Init => LedgerInit
  BY DEF Init
<1> QED  BY <1>1, StepRefines, SInvHolds, PTL DEF Spec, LedgerSpec

(* The audit trail of every task is a chain that ends in its current row.    *)
THEOREM ServiceKeepsAuditChain == Spec => []AuditChain
  BY ImplementsLedger, AuditTrailIsAChain, PTL

(* completed_at is the time of the audited transaction that made the task done. *)
THEOREM ServiceKeepsCompletion == Spec => []CompletedAtIsAudited
  BY ImplementsLedger, CompletionIsAudited, PTL

(* No task is assigned to somebody outside its team, although the membership *)
(* is read before the transaction that writes the assignee.                  *)
THEOREM ServiceKeepsAssignees == Spec => []AssigneeIsMember
  BY ImplementsLedger, AssigneesAreMembers, PTL

(* The trail of every task is in time order and dates its row.               *)
THEOREM ServiceKeepsTimeOrder == Spec => []HistoryTimeOrdered
  BY ImplementsLedger, HistoryIsTimeOrdered, PTL

(* The three reports are true of what the requests have left in the tables:   *)
(* counts, ranks and dates are those of the audit trail, and the assignees    *)
(* reported as foreign those whose membership was deleted by hand.            *)
THEOREM ServiceReportsAreTrue ==
  Spec => [](SummaryAgreesWithTrail /\ RankingIsFair /\ ForeignAssigneesAreReported)
  BY ImplementsLedger, SummaryOfLedger, RankingOfLedger, ForeignAssigneesOfLedger, PTL

-----------------------------------------------------------------------------
(* The service beside the list cache (TaskApi). WInv says how the history      *)
(* variables follow a request: it has written from its COMMIT on, to the team  *)
(* whose version key it is about to increment, and only an attempt of its INCR *)
(* gives it a number.                                                          *)

\* r has neither committed nor found that there is nothing to change.
Unwritten(r) == pc[r] \in ({"idle", "denied"} \cup Steps) \ {"invalidate"}

WInv ==
  /\ wrote \in [Reqs -> Teams \cup {NoTeam}]
  /\ slot \in [Reqs -> Nat]
  /\ \A r \in Reqs :
       /\ Unwritten(r) => wrote[r] = NoTeam
       /\ pc[r] = "invalidate" => wrote[r] = TeamOf(r)
       /\ pc[r] = "ok" => wrote[r] # NoTeam
       /\ pc[r] \notin {"invalidate", "ok"} => slot[r] = 0
       /\ pc[r] # "invalidate" => tries[r] = 0

ApiInv == SInv /\ WInv

-----------------------------------------------------------------------------
\* The lists touch nothing of the service.
LEMMA ApiStep == [ApiNext]_apiVars => [Next]_vars
<1> SUFFICES ASSUME [ApiNext]_apiVars PROVE [Next]_vars
  OBVIOUS
<1>1. CASE Environment \/ \E r \in Reqs : ServeWrite(r)
  BY <1>1 DEF Next, ServeWrite
<1>2. CASE ServeList \/ UNCHANGED apiVars
  BY <1>2 DEF ServeList, apiVars
<1> QED  BY <1>1, <1>2 DEF ApiNext

LEMMA WritesLeaveATrace ==
  ASSUME SInv, NEW r \in Reqs, Serve(r)
  PROVE  /\ pc[r] = "insert" /\ Inserted(r) => history' # history
         /\ pc[r] = "write" /\ Written(r) => history' # history
<1>1. pc[r] = "insert" /\ Inserted(r) => UNCHANGED <<members, clock>>
  BY DEF Serve, Proceed, StartCreate, StartUpdate, Get, MemberRole, CheckAssignee, Stamp,
         Insert, LockRow, Authorize, Commit, InvalidateTeam, CommitUnacked, Fail, ledgerVars
<1>2. pc[r] = "write" /\ Written(r) => UNCHANGED <<members, clock>>
  BY DEF Serve, Proceed, StartCreate, StartUpdate, Get, MemberRole, CheckAssignee, Stamp,
         Insert, LockRow, Authorize, Commit, InvalidateTeam, CommitUnacked, Fail, ledgerVars
<1> QED  BY <1>1, <1>2, InsertedRefines, WrittenRefines DEF LedgerWrite

\* The client sends the INCR of r again, and how an attempt of it ends.
Resent(r) ==
  /\ pc[r] = "invalidate" /\ tries[r] < MaxRetries[r]
  /\ tries' = [tries EXCEPT ![r] = @ + 1]

Attempted(r) ==
  /\ \/ version' = [version EXCEPT ![TeamOf(r)] = @ + 1] /\ UNCHANGED strays
     \/ strays' \in {strays, [strays EXCEPT ![TeamOf(r)] = @ + 1]} /\ UNCHANGED version
  /\ \/ Resent(r) /\ pc'[r] = "invalidate" /\ TeamOf(r)' = TeamOf(r)
     \/ pc'[r] = "ok" /\ tries' = [tries EXCEPT ![r] = 0]

\* How one step of the service moves a request and the version keys.
Moves(r) ==
  /\ pc' = [pc EXCEPT ![r] = pc'[r]]
  /\ \A s \in Reqs \ {r} : TeamOf(s)' = TeamOf(s)
  /\ \/ /\ Unwritten(r) /\ Unwritten(r)' /\ ~TakesHold(r)
        /\ UNCHANGED incrs
     \/ /\ Unwritten(r) /\ pc'[r] = "failed"
        /\ UNCHANGED incrs
     \/ /\ Unwritten(r) /\ pc'[r] = "invalidate" /\ TakesHold(r)
        /\ TeamOf(r)' = TeamOf(r)
        /\ UNCHANGED incrs
     \/ pc[r] = "invalidate" /\ ~TakesHold(r) /\ Attempted(r)

LEMMA FinishMoves ==
  ASSUME SInv, NEW r \in Reqs, NEW outcome, Finish(r, outcome)
  PROVE  /\ pc'[r] = outcome /\ pc' = [pc EXCEPT ![r] = pc'[r]]
         /\ \A s \in Reqs \ {r} : TeamOf(s)' = TeamOf(s)
<1>1. /\ pc \in [Reqs -> {"idle"} \cup Steps \cup Done]
      /\ DOMAIN req = Reqs /\ row \in [Reqs -> Rows \cup {NoTask}]
  BY DEF SInv, TypeOK
<1> QED  BY <1>1 DEF Finish, TeamOf

LEMMA GotoMoves ==
  ASSUME SInv, NEW r \in Reqs, NEW label, Goto(r, label)
  PROVE  pc'[r] = label /\ pc' = [pc EXCEPT ![r] = pc'[r]]
  BY DEF SInv, TypeOK, Goto

LEMMA TeamsMove ==
  ASSUME SInv, NEW r \in Reqs, Serve(r)
  PROVE  /\ \A s \in Reqs \ {r} : TeamOf(s)' = TeamOf(s)
         /\ pc[r] \in {"insert", "authorize", "write"} /\ pc'[r] = "invalidate"
              => TeamOf(r)' = TeamOf(r)
<1>1. /\ pc \in [Reqs -> {"idle"} \cup Steps \cup Done]
      /\ DOMAIN req = Reqs /\ row \in [Reqs -> Rows \cup {NoTask}]
  BY DEF SInv, TypeOK
<1>2. ASSUME NEW outcome \in Done, Finish(r, outcome)
      PROVE  /\ \A s \in Reqs \ {r} : TeamOf(s)' = TeamOf(s)
             /\ pc'[r] # "invalidate"
  BY <1>1, <1>2, FinishMoves DEF Done
<1>3. CASE UNCHANGED <<req, row>>
  BY <1>3 DEF TeamOf
<1>4. CASE StartCreate(r) \/ StartUpdate(r)
  BY <1>1, <1>2, <1>4 DEF StartCreate, StartUpdate, TeamOf, Done
<1>5. CASE Get(r) \/ LockRow(r)
  BY <1>1, <1>2, <1>5 DEF Get, LockRow, TeamOf, Done
<1> QED
  BY <1>1, <1>2, <1>3, <1>4, <1>5
     DEF Serve, Proceed, MemberRole, CheckAssignee, Stamp, Insert, Authorize, Commit,
         InvalidateTeam, CommitUnacked, Fail, locals, Done

LEMMA ServeMoves ==
  ASSUME SInv, NEW r \in Reqs, Serve(r)
  PROVE  Moves(r)
<1> DEFINE Quiet == Unwritten(r) /\ Unwritten(r)' /\ ~TakesHold(r) /\ UNCHANGED incrs
           Labels == ({"idle", "denied"} \cup Steps) \ {"invalidate"}
<1>0. pc \in [Reqs -> {"idle"} \cup Steps \cup Done]
  BY DEF SInv, TypeOK
<1>1. ASSUME NEW label \in Labels, pc' = [pc EXCEPT ![r] = label],
             pc[r] \in Labels, UNCHANGED <<history, incrs>>
      PROVE  Quiet /\ pc' = [pc EXCEPT ![r] = pc'[r]]
  BY <1>0, <1>1 DEF Unwritten, TakesHold
<1>2. CASE StartCreate(r) \/ StartUpdate(r) \/ Get(r) \/ MemberRole(r) \/ CheckAssignee(r)
  <2>1. pc[r] \in Labels /\ UNCHANGED <<history, incrs>>
    BY <1>2 DEF StartCreate, StartUpdate, Get, MemberRole, CheckAssignee, ledgerVars, Steps
  <2>2. \E label \in Labels : pc' = [pc EXCEPT ![r] = label]
    BY <1>2
       DEF StartCreate, StartUpdate, Get, MemberRole, CheckAssignee, Goto, Finish, FirstRepoCall,
           Steps
  <2> QED  BY <1>1, <2>1, <2>2, TeamsMove DEF Moves
<1>3. CASE Stamp(r) \/ LockRow(r)
  <2>1. pc[r] \in Labels /\ UNCHANGED <<history, incrs>>
    BY <1>3 DEF Stamp, LockRow, ledgerVars, Steps
  <2>2. \E label \in Labels : pc' = [pc EXCEPT ![r] = label]
    BY <1>3 DEF Stamp, LockRow, Goto, Steps
  <2> QED  BY <1>1, <2>1, <2>2, TeamsMove DEF Moves
<1>4. CASE Authorize(r)
  <2>1. pc[r] = "authorize" /\ UNCHANGED <<history, incrs>>
    BY <1>4 DEF Authorize, ledgerVars
  <2>2. CASE \E label \in {"denied", "write"} : pc' = [pc EXCEPT ![r] = label]
    BY <1>1, <2>1, <2>2, TeamsMove DEF Moves, Steps
  <2>3. CASE Goto(r, "invalidate")
    BY <2>1, <2>3, GotoMoves, TeamsMove DEF Moves, Unwritten, TakesHold, Steps
  <2> QED  BY <1>4, <2>2, <2>3 DEF Authorize, Finish, Goto
<1>5. CASE Insert(r) \/ Commit(r)
  <2>1. /\ pc[r] \in {"insert", "write"} /\ Goto(r, "invalidate") /\ UNCHANGED incrs
        /\ history' # history
    BY <1>5, WritesLeaveATrace DEF Insert, Commit
  <2> QED  BY <2>1, GotoMoves, TeamsMove DEF Moves, Unwritten, TakesHold, Steps
<1>6. CASE CommitUnacked(r) \/ Fail(r)
  <2>1. Unwritten(r) /\ UNCHANGED incrs /\ Finish(r, "failed")
    BY <1>6 DEF CommitUnacked, Fail, Unwritten, Steps
  <2> QED  BY <2>1, FinishMoves, TeamsMove DEF Moves
<1>7. CASE InvalidateTeam(r)
  <2>1. pc[r] = "invalidate" /\ ~TakesHold(r)
    BY <1>7 DEF InvalidateTeam, TakesHold
  <2>2. CASE Finish(r, "ok") /\ tries' = [tries EXCEPT ![r] = 0]
    BY <1>7, <2>1, <2>2, FinishMoves DEF InvalidateTeam, Moves, Attempted
  <2>3. CASE /\ tries[r] < MaxRetries[r] /\ tries' = [tries EXCEPT ![r] = @ + 1]
             /\ UNCHANGED <<pc, locals, lock>>
    <3>1. pc' = [pc EXCEPT ![r] = pc'[r]] /\ pc'[r] = pc[r]
      BY <1>0, <2>3
    <3>2. \A s \in Reqs : TeamOf(s)' = TeamOf(s)
      BY <2>3 DEF TeamOf, locals
    <3> QED  BY <1>7, <2>1, <2>3, <3>1, <3>2 DEF InvalidateTeam, Moves, Attempted, Resent
  <2> QED  BY <1>7, <2>2, <2>3 DEF InvalidateTeam
<1> QED  BY <1>2, <1>3, <1>4, <1>5, <1>6, <1>7 DEF Serve, Proceed

-----------------------------------------------------------------------------
(* What one step of the service may do to the tables and to a request *)

\* What r writes to t when it commits, from what the tables hold at that moment.
WritesCreation(r, t) ==
  /\ r \in CreateReqs /\ pc[r] = "insert"
  /\ ~Exists(t)
  /\ IsMember(req[r].team, req[r].actor)
  /\ AssigneeAllowed(req[r].team, req[r].body)
  /\ tasks'[t] = NewRow(req[r].team, req[r].actor, req[r].body, now[r])
  /\ history'[t] = <<CreatedEntry(req[r].actor, now[r])>>

WritesChange(r, t) ==
  /\ r \in UpdateReqs /\ pc[r] = "write"
  /\ req[r].task = t /\ Exists(t) /\ lock[t] = r
  /\ IsMember(tasks[t].team, req[r].actor)
  /\ AssigneeAllowed(tasks[t].team, req[r].body)
  /\ MayUpdate(Role(tasks[t].team, req[r].actor), tasks[t], req[r].actor, req[r].body)
  /\ tasks'[t] = PatchedRow(tasks[t], req[r].body, now[r])
  /\ history'[t] = Append(history[t], UpdatedEntry(tasks[t], req[r].body, req[r].actor, now[r]))

\* A task changes only when a request that has not written yet commits: the row
\* and the trail become what that request asked for, and no other task changes.
EveryWriteIsOfARequest ==
  [][\A t \in TaskIds : tasks'[t] # tasks[t] \/ history'[t] # history[t] =>
       /\ \E r \in Reqs : /\ WritesCreation(r, t) \/ WritesChange(r, t)
                          /\ pc'[r] \in {"invalidate", "failed"}
       /\ \A s \in TaskIds \ {t} : tasks'[s] = tasks[s] /\ history'[s] = history[s]]_vars

\* How far a request has come.
Turn(label) ==
  CASE label = "idle" -> 0
    [] label = "get" -> 1
    [] label = "role" -> 2
    [] label = "assignee" -> 3
    [] label \in {"stamp", "lock"} -> 4
    [] label \in {"insert", "authorize"} -> 5
    [] label = "write" -> 6
    [] label = "invalidate" -> 7
    [] label \in Done -> 8

\* A request never goes back, so it commits once at most; it makes at most seven
\* different calls, and only its INCR again, as often as the client may; and nothing
\* of the program moves but by a request that does one or the other.
Advances ==
  /\ \A r \in Reqs : pc'[r] # pc[r] => Turn(pc[r]) < Turn(pc'[r])
  /\ pc' = pc => /\ UNCHANGED <<tasks, history, locals, lock>>
                 /\ UNCHANGED tries \/ \E r \in Reqs : Resent(r)

RequestsAdvance == [][Advances]_vars

LEMMA InsertedWrites ==
  ASSUME SInv, NEW r \in Reqs, pc[r] = "insert", Inserted(r)
  PROVE  \E t \in TaskIds :
           /\ WritesCreation(r, t)
           /\ \A s \in TaskIds \ {t} : tasks'[s] = tasks[s] /\ history'[s] = history[s]
<1>1. /\ RInv(r) /\ r \in CreateReqs /\ TeamOf(r) = req[r].team
  BY ServedRequest DEF Steps, UpdateSteps, TeamOf
<1>2. PICK t \in TaskIds :
        ~Exists(t) /\ WriteCreate(t, req[r].team, req[r].actor, req[r].body, now[r])
  BY DEF Inserted
<1>3. IsMember(req[r].team, req[r].actor) /\ AssigneeAllowed(req[r].team, req[r].body)
  BY <1>1 DEF RInv, Checked
<1>4. /\ tasks'[t] = NewRow(req[r].team, req[r].actor, req[r].body, now[r])
      /\ history'[t] = <<CreatedEntry(req[r].actor, now[r])>>
      /\ \A s \in TaskIds \ {t} : tasks'[s] = tasks[s] /\ history'[s] = history[s]
  BY <1>2 DEF WriteCreate, SInv, TypeOK, LedgerTypeOK
<1> QED  BY <1>1, <1>2, <1>3, <1>4 DEF WritesCreation

LEMMA WrittenWrites ==
  ASSUME SInv, NEW r \in Reqs, pc[r] = "write", Written(r)
  PROVE  /\ req[r].task \in TaskIds /\ WritesChange(r, req[r].task)
         /\ \A s \in TaskIds \ {req[r].task} : tasks'[s] = tasks[s] /\ history'[s] = history[s]
<1> DEFINE t == req[r].task
<1>1. /\ RInv(r) /\ r \notin CreateReqs /\ t \in TaskIds /\ TeamOf(r) = row[r].team
  BY ServedRequest DEF Steps, CreateSteps, TeamOf
<1>2. /\ Exists(t) /\ row[r] = tasks[t] /\ lock[t] = r
      /\ IsMember(tasks[t].team, req[r].actor) /\ AssigneeAllowed(tasks[t].team, req[r].body)
      /\ role[r] = Role(tasks[t].team, req[r].actor)
      /\ MayUpdate(role[r], row[r], req[r].actor, req[r].body)
  BY <1>1 DEF RInv, Checked, UpdateSteps, SInv, LocksAreHeldInTransactions
<1>3. /\ tasks'[t] = PatchedRow(tasks[t], req[r].body, now[r])
      /\ history'[t] = Append(history[t],
                              UpdatedEntry(tasks[t], req[r].body, req[r].actor, now[r]))
      /\ \A s \in TaskIds \ {t} : tasks'[s] = tasks[s] /\ history'[s] = history[s]
  BY <1>1, <1>2 DEF Written, WriteUpdate, SInv, TypeOK, LedgerTypeOK
<1> QED  BY <1>1, <1>2, <1>3 DEF WritesChange, Reqs

LEMMA WriteIsOfARequest ==
  ASSUME SInv, [Next]_vars,
         NEW t \in TaskIds, tasks'[t] # tasks[t] \/ history'[t] # history[t]
  PROVE  /\ \E r \in Reqs : /\ WritesCreation(r, t) \/ WritesChange(r, t)
                            /\ pc'[r] \in {"invalidate", "failed"}
         /\ \A s \in TaskIds \ {t} : tasks'[s] = tasks[s] /\ history'[s] = history[s]
<1>1. PICK r \in Reqs : Insert(r) \/ Commit(r) \/ CommitUnacked(r)
  BY DEF Next, Environment, ChangeTeams, Tick, LateIncr, Serve, Proceed, StartCreate,
         StartUpdate, Get, MemberRole, CheckAssignee, Stamp, LockRow, Authorize, InvalidateTeam,
         Fail, vars, ledgerVars
<1>2. pc'[r] \in {"invalidate", "failed"}
  BY <1>1, GotoMoves, FinishMoves DEF Insert, Commit, CommitUnacked
<1>3. CASE pc[r] = "insert" /\ Inserted(r)
  BY <1>2, <1>3, InsertedWrites
<1>4. CASE pc[r] = "write" /\ Written(r)
  BY <1>2, <1>4, WrittenWrites
<1> QED  BY <1>1, <1>3, <1>4 DEF Insert, Commit, CommitUnacked

(* No update is lost and none is made up: whatever requests race, a task only *)
(* changes when one of them commits, from the row the tables hold then, by    *)
(* what its body asks for, with the rights that the tables give it then, with *)
(* the row and the audit entry together, and in a transaction of its own.     *)
THEOREM EveryWriteIsOfARequestHolds == Spec => EveryWriteIsOfARequest
<1>1. SInv /\ [Next]_vars =>
        [\A t \in TaskIds : tasks'[t] # tasks[t] \/ history'[t] # history[t] =>
           /\ \E r \in Reqs : /\ WritesCreation(r, t) \/ WritesChange(r, t)
                              /\ pc'[r] \in {"invalidate", "failed"}
           /\ \A s \in TaskIds \ {t} : tasks'[s] = tasks[s] /\ history'[s] = history[s]]_vars
  BY WriteIsOfARequest
<1> QED  BY <1>1, SInvHolds, PTL DEF Spec, EveryWriteIsOfARequest

LEMMA ServedAdvances ==
  ASSUME SInv, NEW r \in Reqs, Serve(r)
  PROVE  /\ \A s \in Reqs \ {r} : pc'[s] = pc[s]
         /\ \/ pc'[r] # pc[r] /\ Turn(pc[r]) < Turn(pc'[r])
            \/ UNCHANGED <<pc, tasks, history, locals, lock>> /\ Resent(r)
<1>1. pc' = [pc EXCEPT ![r] = pc'[r]] /\ pc \in [Reqs -> {"idle"} \cup Steps \cup Done]
  BY ServeMoves DEF Moves, SInv, TypeOK
<1>2. \A label : Goto(r, label) => pc'[r] = label
  BY GotoMoves
<1>3. \A outcome : Finish(r, outcome) => pc'[r] = outcome
  BY FinishMoves
<1>4. pc[r] \in {"idle"} \cup Steps /\ pc'[r] \in Done => Turn(pc[r]) < Turn(pc'[r])
  BY DEF Turn, Steps, Done
<1>5. CASE StartCreate(r) \/ StartUpdate(r)
  <2>1. pc[r] = "idle" /\ pc'[r] \in {"role", "get", "denied"}
    BY <1>2, <1>3, <1>5 DEF StartCreate, StartUpdate
  <2> QED  BY <1>1, <2>1 DEF Turn, Done
<1>6. CASE Get(r) \/ MemberRole(r) \/ CheckAssignee(r)
  <2>1. \/ pc[r] = "get" /\ pc'[r] \in {"role", "denied"}
        \/ pc[r] = "role" /\ pc'[r] \in {"assignee", "stamp", "lock", "denied"}
        \/ pc[r] = "assignee" /\ pc'[r] \in {"stamp", "lock", "denied"}
    BY <1>2, <1>3, <1>6 DEF Get, MemberRole, CheckAssignee, FirstRepoCall
  <2> QED  BY <1>1, <2>1 DEF Turn, Done
<1>7. CASE Stamp(r) \/ Insert(r) \/ LockRow(r) \/ Authorize(r) \/ Commit(r)
  <2>1. \/ pc[r] = "stamp" /\ pc'[r] = "insert"
        \/ pc[r] = "insert" /\ pc'[r] = "invalidate"
        \/ pc[r] = "lock" /\ pc'[r] = "authorize"
        \/ pc[r] = "authorize" /\ pc'[r] \in {"write", "invalidate", "denied"}
        \/ pc[r] = "write" /\ pc'[r] = "invalidate"
    BY <1>2, <1>3, <1>7 DEF Stamp, Insert, LockRow, Authorize, Commit
  <2> QED  BY <1>1, <2>1 DEF Turn, Done
<1>8. CASE CommitUnacked(r) \/ Fail(r)
  <2>1. pc[r] \in Steps /\ pc'[r] = "failed"
    BY <1>3, <1>8 DEF CommitUnacked, Fail, Steps
  <2> QED  BY <1>1, <1>4, <2>1 DEF Steps, Done
<1>9. CASE InvalidateTeam(r)
  <2>1. CASE Finish(r, "ok")
    BY <1>1, <1>3, <1>9, <2>1 DEF InvalidateTeam, Turn, Done
  <2> QED  BY <1>1, <1>9, <2>1 DEF InvalidateTeam, Resent, ledgerVars
<1> QED  BY <1>5, <1>6, <1>7, <1>8, <1>9 DEF Serve, Proceed

(* Every call of a request brings it nearer to its answer: it commits once at *)
(* most, comes back to no call but to its INCR, which the client sends so     *)
(* often and no more, and holds a row lock, if any, for two calls. With       *)
(* LocksEndWithTransactions this is the safety half of EveryRequestAnswered.  *)
THEOREM RequestsAdvanceHolds == Spec => RequestsAdvance
<1>1. SInv /\ [Next]_vars => [Advances]_vars
  <2> SUFFICES ASSUME SInv, [Next]_vars PROVE Advances
    OBVIOUS
  <2>1. CASE Environment \/ UNCHANGED vars
    BY <2>1 DEF Environment, ChangeTeams, Tick, LateIncr, incrs, vars, ledgerVars, Advances
  <2>2. CASE \E r \in Reqs : Serve(r)
    BY <2>2, ServedAdvances DEF Advances
  <2> QED  BY <2>1, <2>2 DEF Next
<1> QED  BY <1>1, SInvHolds, PTL DEF Spec, RequestsAdvance

-----------------------------------------------------------------------------
(* The history variables *)

LEMMA InitWInv == ApiInit => WInv
  BY CacheTeamAssumption DEF ApiInit, Init, WInv, Unwritten

\* The number r has once a step of it is over.
Number(r) == IF version' # version /\ slot[r] = 0 THEN version'[TeamOf(r)] ELSE slot[r]

\* Which of the cases of Moves it is decides what is written down.
LEMMA ServeWriteEffect ==
  ASSUME ApiInv, NEW r \in Reqs, ServeWrite(r)
  PROVE  /\ Moves(r) /\ IncrsTypeOK
         /\ pc[r] \in Steps \ {"get"} => TeamOf(r) \in Teams
         /\ version' # version => pc[r] = "invalidate" /\ version'[TeamOf(r)] \in Nat
         /\ wrote' = [wrote EXCEPT ![r] = IF TakesHold(r) THEN TeamOf(r) ELSE @]
         /\ slot' = [slot EXCEPT ![r] = Number(r)]
         /\ TakesHold(r) => pc[r] \in {"insert", "write", "authorize"}
<1>1. Serve(r) /\ SInv /\ IncrsTypeOK
  BY DEF ServeWrite, ApiInv, SInv, TypeOK, IncrsTypeOK
<1>2. Moves(r)
  BY <1>1, ServeMoves
<1>3. pc[r] \in Steps \ {"get"} => TeamOf(r) \in Teams
  BY <1>1, ServedRequest
<1>4. version' # version => pc[r] = "invalidate" /\ version'[TeamOf(r)] \in Nat
  <2> SUFFICES ASSUME version' # version
               PROVE  pc[r] = "invalidate" /\ version'[TeamOf(r)] \in Nat
    OBVIOUS
  <2>1. pc[r] = "invalidate" /\ version' = [version EXCEPT ![TeamOf(r)] = @ + 1]
    BY <1>2 DEF Moves, Attempted, incrs
  <2> QED  BY <1>1, <1>3, <2>1 DEF IncrsTypeOK, Steps
<1>5. slot' = [slot EXCEPT ![r] = Number(r)]
  BY DEF ServeWrite, Number
<1> QED  BY <1>1, <1>2, <1>3, <1>4, <1>5 DEF ServeWrite, TakesHold

LEMMA WInvStep == ApiInv /\ [ApiNext]_apiVars => WInv'
<1> SUFFICES ASSUME ApiInv, [ApiNext]_apiVars PROVE WInv'
  OBVIOUS
<1>1. CASE UNCHANGED <<pc, req, row, wrote, slot, tries>>
  BY <1>1 DEF ApiInv, WInv, Unwritten, TeamOf
<1>2. CASE Environment /\ UNCHANGED <<wrote, slot, listVars>>
  BY <1>1, <1>2 DEF Environment, LateIncr, locals, incrs
<1>3. CASE ServeList \/ UNCHANGED apiVars
  BY <1>1, <1>3 DEF ServeList, apiVars, vars, locals, incrs
<1>4. ASSUME NEW r \in Reqs, ServeWrite(r) PROVE WInv'
  <2>1. /\ wrote \in [Reqs -> Teams \cup {NoTeam}] /\ slot \in [Reqs -> Nat]
        /\ pc \in [Reqs -> {"idle"} \cup Steps \cup Done] /\ tries \in [Reqs -> Nat]
    BY DEF ApiInv, WInv, SInv, TypeOK
  <2>2. /\ pc' = [pc EXCEPT ![r] = pc'[r]]
        /\ \A s \in Reqs \ {r} : TeamOf(s)' = TeamOf(s)
        /\ wrote' = [wrote EXCEPT ![r] = IF TakesHold(r) THEN TeamOf(r) ELSE @]
        /\ slot' = [slot EXCEPT ![r] = Number(r)]
        /\ pc[r] \in Steps \ {"get"} => TeamOf(r) \in Teams
        /\ version' # version => pc[r] = "invalidate" /\ version'[TeamOf(r)] \in Nat
        /\ TakesHold(r) => pc[r] \in {"insert", "write", "authorize"}
    BY <1>4, ServeWriteEffect DEF Moves
  <2>3. wrote' \in [Reqs -> Teams \cup {NoTeam}]
    BY <2>1, <2>2 DEF Steps
  <2>4. \A s \in Reqs \ {r} : tries'[s] = tries[s]
    BY <1>4, <2>1, ServeWriteEffect DEF Moves, Attempted, Resent, incrs
  <2>5. slot' \in [Reqs -> Nat]
    BY <2>1, <2>2 DEF Number
  <2>6. ASSUME NEW s \in Reqs \ {r}
        PROVE  /\ Unwritten(s)' => wrote'[s] = NoTeam
               /\ pc'[s] = "invalidate" => wrote'[s] = TeamOf(s)'
               /\ pc'[s] = "ok" => wrote'[s] # NoTeam
               /\ pc'[s] \notin {"invalidate", "ok"} => slot'[s] = 0
               /\ pc'[s] # "invalidate" => tries'[s] = 0
    <3>1. /\ pc'[s] = pc[s] /\ wrote'[s] = wrote[s] /\ slot'[s] = slot[s]
          /\ TeamOf(s)' = TeamOf(s) /\ tries'[s] = tries[s]
      BY <2>1, <2>2, <2>4
    <3> QED  BY <3>1 DEF ApiInv, WInv, Unwritten
  <2>7. /\ Unwritten(r)' => wrote'[r] = NoTeam
        /\ pc'[r] = "invalidate" => wrote'[r] = TeamOf(r)'
        /\ pc'[r] = "ok" => wrote'[r] # NoTeam
        /\ pc'[r] \notin {"invalidate", "ok"} => slot'[r] = 0
        /\ pc'[r] # "invalidate" => tries'[r] = 0
    <3>1. /\ wrote'[r] = IF TakesHold(r) THEN TeamOf(r) ELSE wrote[r]
          /\ version' = version => slot'[r] = slot[r]
      BY <2>1, <2>2 DEF Number
    <3>2. /\ Unwritten(r) => wrote[r] = NoTeam /\ slot[r] = 0 /\ tries[r] = 0
          /\ pc[r] = "invalidate" => wrote[r] = TeamOf(r) /\ TeamOf(r) # NoTeam
      BY <2>2, CacheTeamAssumption DEF ApiInv, WInv, Unwritten, Steps
    <3>3. CASE Unwritten(r) /\ UNCHANGED incrs
      BY <1>4, <2>2, <3>1, <3>2, <3>3, ServeWriteEffect DEF Moves, Unwritten, Steps, incrs
    <3>4. CASE pc[r] = "invalidate" /\ ~TakesHold(r) /\ Attempted(r)
      BY <2>1, <3>1, <3>2, <3>4 DEF Attempted, Unwritten, Steps
    <3> QED  BY <1>4, <3>3, <3>4, ServeWriteEffect DEF Moves
  <2> QED  BY <2>3, <2>5, <2>6, <2>7 DEF WInv
<1> QED  BY <1>2, <1>3, <1>4 DEF ApiNext

LEMMA ApiInvHolds == ApiSpec => []ApiInv
<1>1. ApiInit => ApiInv
  BY InitInv, InitWInv DEF ApiInit, ApiInv
<1>2. ApiInv /\ [ApiNext]_apiVars => ApiInv'
  BY ApiStep, NextInv, WInvStep DEF ApiInv
<1> QED  BY <1>1, <1>2, PTL DEF ApiSpec

(* After a 2xx the write is in the tables, after a 4xx nothing of it is,      *)
(* whatever fails and whichever requests race, for any number of them.        *)
THEOREM AnswersAreTrueHolds == ApiSpec => []AnswersAreTrue
<1>1. ApiInv => AnswersAreTrue
  BY DEF ApiInv, WInv, AnswersAreTrue, Unwritten
<1> QED  BY <1>1, ApiInvHolds, PTL

-----------------------------------------------------------------------------
(* The refinement of TaskCache *)

\* What the cache sees of its writers.
Progress ==
  [r \in Reqs |-> IF wrote[r] # CacheTeam THEN "idle"
                  ELSE IF pc[r] = "ok" THEN "acked"
                  ELSE "committed"]

Tickets == [r \in Reqs |-> IF wrote[r] = CacheTeam THEN slot[r] ELSE 0]

Retries == [r \in Reqs |-> IF wrote[r] = CacheTeam THEN tries[r] ELSE 0]

WriterView ==
  <<WritersOf(CacheTeam), Progress, version[CacheTeam], Tickets, Retries, strays[CacheTeam]>>

LEMMA ViewIsKept ==
  ASSUME UNCHANGED <<WriterView, listVars>>
  PROVE  UNCHANGED Cache!vars
  BY DEF WriterView, Progress, Tickets, Retries, listVars, Cache!vars, Cache!incrs,
         Cache!lister, WritersOf

LEMMA OnePointChanges ==
  ASSUME NEW S, NEW f, NEW g, f = [x \in S |-> f[x]], g = [x \in S |-> g[x]],
         NEW a \in S, \A x \in S \ {a} : g[x] = f[x]
  PROVE  g = [f EXCEPT ![a] = g[a]]
  OBVIOUS

LEMMA ServeWriteRefines ==
  ASSUME ApiInv, NEW r \in Reqs, ServeWrite(r)
  PROVE  [Cache!Next]_Cache!vars
<1>1. /\ pc \in [Reqs -> {"idle"} \cup Steps \cup Done]
      /\ wrote \in [Reqs -> Teams \cup {NoTeam}] /\ slot \in [Reqs -> Nat]
      /\ version \in [Teams -> Nat] /\ strays \in [Teams -> Nat] /\ tries \in [Reqs -> Nat]
      /\ CacheTeam \in Teams /\ NoTeam \notin Teams
  BY CacheTeamAssumption DEF ApiInv, SInv, TypeOK, WInv
<1>2. /\ pc' = [pc EXCEPT ![r] = pc'[r]]
      /\ wrote' = [wrote EXCEPT ![r] = IF TakesHold(r) THEN TeamOf(r) ELSE @]
      /\ slot' = [slot EXCEPT ![r] = Number(r)]
      /\ Unwritten(r) => wrote[r] = NoTeam
      /\ pc[r] = "invalidate" => wrote[r] = TeamOf(r)
      /\ UNCHANGED listVars
  BY ServeWriteEffect DEF Moves, ApiInv, WInv, ServeWrite
<1>3. CASE Unwritten(r) /\ TakesHold(r) /\ TeamOf(r) = CacheTeam
  <2>1. UNCHANGED <<version, slot, tries, strays>> /\ pc'[r] # "ok"
    BY <1>1, <1>2, <1>3, ServeWriteEffect DEF Moves, Number, Unwritten, incrs
  <2>2. wrote[r] # CacheTeam /\ wrote' = [wrote EXCEPT ![r] = CacheTeam]
    BY <1>1, <1>2, <1>3
  <2>3. WritersOf(CacheTeam)' = WritersOf(CacheTeam) \cup {r}
    BY <1>1, <2>2 DEF WritersOf
  <2>4. Progress[r] = "idle" /\ Progress' = [Progress EXCEPT ![r] = "committed"]
    <3>1. Progress[r] = "idle" /\ Progress'[r] = "committed"
      BY <1>1, <2>1, <2>2 DEF Progress
    <3>2. \A s \in Reqs \ {r} : Progress'[s] = Progress[s]
      BY <1>1, <1>2, <2>2 DEF Progress
    <3> QED  BY <3>1, <3>2 DEF Progress
  <2>5. Tickets' = Tickets /\ Retries' = Retries
    <3>1. slot[r] = 0 /\ tries[r] = 0
      BY <1>3 DEF ApiInv, WInv, Unwritten, Steps
    <3> QED  BY <1>1, <2>1, <2>2, <3>1 DEF Tickets, Retries
  <2>6. Cache!Commit(r)
    BY <1>2, <2>1, <2>3, <2>4, <2>5
       DEF Cache!Commit, Cache!incrs, Cache!lister, Progress, Tickets, Retries, listVars
  <2> QED  BY <2>6 DEF Cache!Next, Cache!WriterStep
<1>4. CASE Unwritten(r) /\ ~(TakesHold(r) /\ TeamOf(r) = CacheTeam)
  <2>1. UNCHANGED <<version, slot, tries, strays>>
    BY <1>1, <1>2, <1>4, ServeWriteEffect DEF Moves, Number, Unwritten, incrs
  <2>2. wrote[r] # CacheTeam /\ wrote'[r] # CacheTeam
    BY <1>1, <1>2, <1>4
  <2>3. \A s \in Reqs \ {r} : wrote'[s] = wrote[s] /\ pc'[s] = pc[s]
    BY <1>1, <1>2
  <2>4. UNCHANGED WriterView
    BY <2>1, <2>2, <2>3 DEF WriterView, WritersOf, Progress, Tickets, Retries
  <2> QED  BY <1>2, <2>4, ViewIsKept
<1>5. CASE pc[r] = "invalidate"
  <2>1. /\ UNCHANGED wrote /\ wrote[r] = TeamOf(r) /\ TeamOf(r) \in Teams /\ Attempted(r)
        /\ \A s \in Reqs \ {r} : pc'[s] = pc[s] /\ slot'[s] = slot[s] /\ tries'[s] = tries[s]
    <3>1. ~TakesHold(r) /\ TeamOf(r) \in Teams /\ Attempted(r)
      BY <1>5, ServeWriteEffect DEF Moves, Unwritten, Steps
    <3>2. wrote' = wrote
      BY <1>1, <1>2, <3>1
    <3>3. \A s \in Reqs \ {r} : pc'[s] = pc[s] /\ slot'[s] = slot[s] /\ tries'[s] = tries[s]
      BY <1>1, <1>2, <3>1 DEF Attempted, Resent
    <3> QED  BY <1>2, <1>5, <3>1, <3>2, <3>3
  <2>2. UNCHANGED WritersOf(CacheTeam)
    BY <2>1 DEF WritersOf
  <2>3. CASE TeamOf(r) = CacheTeam
    <3>1. Progress[r] = "committed" /\ Retries[r] = tries[r] /\ Tickets[r] = slot[r]
      BY <1>5, <2>1, <2>3 DEF Progress, Retries, Tickets
    <3>2. \/ /\ version'[CacheTeam] = version[CacheTeam] + 1
             /\ Tickets' = [Tickets EXCEPT ![r] = IF @ = 0 THEN version[CacheTeam] + 1 ELSE @]
             /\ strays'[CacheTeam] = strays[CacheTeam]
          \/ /\ strays'[CacheTeam] \in {strays[CacheTeam], strays[CacheTeam] + 1}
             /\ UNCHANGED <<version[CacheTeam], Tickets>>
      <4>1. CASE version' = [version EXCEPT ![CacheTeam] = @ + 1] /\ UNCHANGED strays
        <5>1. version'[CacheTeam] = version[CacheTeam] + 1 /\ version' # version
          BY <1>1, <4>1
        <5>2. Tickets'[r] = IF Tickets[r] = 0 THEN version[CacheTeam] + 1 ELSE Tickets[r]
          BY <1>1, <1>2, <2>1, <2>3, <3>1, <5>1 DEF Tickets, Number
        <5>3. \A s \in Reqs \ {r} : Tickets'[s] = Tickets[s]
          BY <2>1 DEF Tickets
        <5> QED  BY <4>1, <5>1, <5>2, <5>3 DEF Tickets
      <4>2. CASE /\ strays' \in {strays, [strays EXCEPT ![CacheTeam] = @ + 1]}
                 /\ UNCHANGED version
        <5>1. slot' = slot
          BY <1>1, <1>2, <4>2 DEF Number
        <5> QED  BY <1>1, <2>1, <4>2, <5>1 DEF Tickets
      <4> QED  BY <2>1, <2>3, <4>1, <4>2 DEF Attempted
    <3>3. \/ /\ Retries[r] < MaxRetries[r]
             /\ Retries' = [Retries EXCEPT ![r] = @ + 1] /\ UNCHANGED Progress
          \/ /\ Progress' = [Progress EXCEPT ![r] = "acked"]
             /\ Retries' = [Retries EXCEPT ![r] = 0]
      <4>1. \A s \in Reqs \ {r} : Progress'[s] = Progress[s] /\ Retries'[s] = Retries[s]
        BY <2>1 DEF Progress, Retries
      <4>4. /\ Retries = [x \in Reqs |-> Retries[x]] /\ Retries' = [x \in Reqs |-> Retries'[x]]
            /\ Progress = [x \in Reqs |-> Progress[x]] /\ Progress' = [x \in Reqs |-> Progress'[x]]
        BY DEF Retries, Progress
      <4>2. CASE Resent(r) /\ pc'[r] = "invalidate"
        <5>1. Progress'[r] = Progress[r] /\ Retries'[r] = Retries[r] + 1
          BY <1>1, <2>1, <2>3, <3>1, <4>2 DEF Progress, Retries, Resent
        <5>2. UNCHANGED Progress
          BY <4>1, <5>1 DEF Progress
        <5>3. Retries' = [Retries EXCEPT ![r] = @ + 1]
          BY <4>1, <4>4, <5>1, OnePointChanges
        <5> QED  BY <3>1, <4>2, <5>2, <5>3 DEF Resent
      <4>3. CASE pc'[r] = "ok" /\ tries' = [tries EXCEPT ![r] = 0]
        <5>1. Progress'[r] = "acked" /\ Retries'[r] = 0
          BY <1>1, <2>1, <2>3, <4>3 DEF Progress, Retries
        <5> QED  BY <4>1, <4>4, <5>1, OnePointChanges
      <4> QED  BY <2>1, <4>2, <4>3 DEF Attempted
    <3>4. Cache!Incr(r)
      BY <3>2 DEF Cache!Incr, Tickets
    <3>5. Cache!RetryOrReturn(r)
      BY <3>3 DEF Cache!RetryOrReturn, Progress, Retries
    <3>6. Cache!InvalidateTeam(r)
      BY <1>2, <2>2, <3>1, <3>4, <3>5
         DEF Cache!InvalidateTeam, Cache!lister, Progress, listVars
    <3> QED  BY <3>6 DEF Cache!Next, Cache!WriterStep
  <2>4. CASE TeamOf(r) # CacheTeam
    <3>1. version'[CacheTeam] = version[CacheTeam] /\ strays'[CacheTeam] = strays[CacheTeam]
      BY <1>1, <2>1, <2>4 DEF Attempted
    <3>2. UNCHANGED WriterView
      BY <2>1, <2>2, <2>4, <3>1 DEF WriterView, Progress, Tickets, Retries
    <3> QED  BY <1>2, <3>2, ViewIsKept
  <2> QED  BY <2>3, <2>4
<1> QED  BY <1>3, <1>4, <1>5, ServeWriteEffect DEF Moves

LEMMA LateIncrRefines ==
  ASSUME ApiInv, NEW tm \in Teams, LateIncr(tm), UNCHANGED <<wrote, slot, listVars>>
  PROVE  [Cache!Next]_Cache!vars
<1>1. /\ version \in [Teams -> Nat] /\ strays \in [Teams -> Nat] /\ CacheTeam \in Teams
      /\ UNCHANGED <<WritersOf(CacheTeam), Progress, Tickets, Retries>>
  BY CacheTeamAssumption
     DEF ApiInv, SInv, TypeOK, LateIncr, WritersOf, Progress, Tickets, Retries
<1>2. CASE tm = CacheTeam
  <2>1. Cache!LateIncr
    BY <1>1, <1>2
       DEF LateIncr, Cache!LateIncr, Cache!lister, Progress, Tickets, Retries, listVars
  <2> QED  BY <2>1 DEF Cache!Next
<1>3. CASE tm # CacheTeam
  <2>1. UNCHANGED WriterView
    BY <1>1, <1>3 DEF LateIncr, WriterView
  <2> QED  BY <2>1, ViewIsKept
<1> QED  BY <1>2, <1>3

LEMMA ApiRefines == ApiInv /\ [ApiNext]_apiVars => [Cache!Next]_Cache!vars
<1> SUFFICES ASSUME ApiInv, [ApiNext]_apiVars PROVE [Cache!Next]_Cache!vars
  OBVIOUS
<1>1. CASE UNCHANGED <<pc, wrote, slot, incrs, listVars>>
  BY <1>1, ViewIsKept DEF WriterView, Progress, Tickets, Retries, WritersOf, incrs
<1>2. CASE Environment /\ UNCHANGED <<wrote, slot, listVars>>
  BY <1>1, <1>2, LateIncrRefines DEF Environment
<1>3. CASE UNCHANGED apiVars
  BY <1>1, <1>3 DEF apiVars, vars
<1>4. CASE ServeList
  BY <1>4 DEF ServeList, Cache!Next
<1>5. ASSUME NEW r \in Reqs, ServeWrite(r) PROVE [Cache!Next]_Cache!vars
  BY <1>5, ServeWriteRefines
<1> QED  BY <1>2, <1>3, <1>4, <1>5 DEF ApiNext

(* To the list cache of a team the service is a set of writers that commit   *)
(* and increment the version of their own team only after that, run again or *)
(* late as their INCRs may be; no other request and no transaction that      *)
(* rolls back moves it. For any requests, teams, tasks and listers.          *)
THEOREM ApiImplementsCache == ApiSpec => CacheSpec
<1>1. ApiInit => Cache!Init
  BY DEF ApiInit
<1> QED  BY <1>1, ApiRefines, ApiInvHolds, PTL DEF ApiSpec, CacheSpec, Cache!Spec

\* The proofs about TaskCache, for the cache as TaskApi has it, without crashes of
\* Redis.
Proved ==
  INSTANCE TaskCacheProofs WITH
    Writers <- Reqs,
    RedisMayFail <- TRUE,
    db <- WritersOf(CacheTeam),
    wpc <- Progress,
    version <- version[CacheTeam],
    slot <- Tickets,
    tries <- Retries,
    strays <- strays[CacheTeam],
    MaxCrashes <- 0,
    disk <- [version |-> version[CacheTeam], cache |-> cache],
    crashes <- 0

\* The two instances are of one module and substitute the same.
LEMMA SameCache ==
  /\ Cache!Init => Proved!Init
  /\ [Cache!Next]_Cache!vars => [Proved!Next]_Proved!vars
  /\ Proved!StaleOnlyIfRacedOrDegraded => Cache!StaleOnlyIfRacedOrDegraded
<1> USE DEF Progress, Tickets, Retries, Cache!lister, Proved!lister, Cache!incrs, Proved!incrs
<1>1. ASSUME Cache!Init PROVE Proved!Init
  BY <1>1 DEF Cache!Init, Proved!Init, Cache!NoPage, Proved!NoPage
<1>2. ASSUME NEW w \in Reqs, Cache!WriterStep(w) PROVE Proved!WriterStep(w)
  BY <1>2 DEF Cache!WriterStep, Proved!WriterStep, Cache!Commit, Proved!Commit,
              Cache!InvalidateTeam, Proved!InvalidateTeam, Cache!Incr, Proved!Incr,
              Cache!RetryOrReturn, Proved!RetryOrReturn
<1>9. ASSUME Cache!LateIncr PROVE Proved!LateIncr
  BY <1>9 DEF Cache!LateIncr, Proved!LateIncr
<1>3. ASSUME NEW l \in Listers, Cache!ReadVersion(l) PROVE Proved!ReadVersion(l)
  BY <1>3 DEF Cache!ReadVersion, Proved!ReadVersion, Cache!VersionRead, Proved!VersionRead
<1>4. ASSUME NEW l \in Listers, Cache!ListerStep(l) PROVE Proved!ListerStep(l)
  BY <1>4 DEF Cache!ListerStep, Proved!ListerStep, Cache!Get, Proved!Get,
              Cache!Count, Proved!Count, Cache!Select, Proved!Select,
              Cache!RereadVersion, Proved!RereadVersion, Cache!VersionRead,
              Proved!VersionRead, Cache!Set, Proved!Set, Cache!Return, Proved!Return,
              Cache!KeyOf, Proved!KeyOf, Cache!Store, Proved!Store,
              Cache!NoPage, Proved!NoPage
<1>5. ASSUME NEW k \in DOMAIN cache, Cache!Expire(k) PROVE Proved!Expire(k)
  BY <1>5 DEF Cache!Expire, Proved!Expire
<1>6. UNCHANGED Cache!vars => UNCHANGED Proved!vars
  BY DEF Cache!vars, Proved!vars
<1>7. [Cache!Next]_Cache!vars => [Proved!Next]_Proved!vars
  BY <1>2, <1>3, <1>4, <1>5, <1>6, <1>9 DEF Cache!Next, Proved!Next
<1>8. Proved!StaleOnlyIfRacedOrDegraded => Cache!StaleOnlyIfRacedOrDegraded
  BY DEF Cache!StaleOnlyIfRacedOrDegraded, Proved!StaleOnlyIfRacedOrDegraded,
         Cache!InvalidatedBefore, Proved!InvalidatedBefore
<1> QED  BY <1>1, <1>7, <1>8

(* Over the stepwise service too, with its row locks and its failures, a list *)
(* misses an invalidated write only when it looked under the fallback version *)
(* or was filled by a request that the invalidation overtook.                 *)
THEOREM ListsMissOnlyWhatRaces == ApiSpec => []Cache!StaleOnlyIfRacedOrDegraded
<1>1. NoFilter \notin Filters /\ MaxRetries \in [Reqs -> Nat]
        => (Proved!Spec => []Proved!StaleOnlyIfRacedOrDegraded)
  BY Proved!StalenessExplained
<1>2. Proved!Spec => []Proved!StaleOnlyIfRacedOrDegraded
  BY <1>1, NoFilterIsNoFilter, MaxRetriesAssumption
<1> QED
  BY <1>2, SameCache, ApiImplementsCache, PTL DEF CacheSpec, Cache!Spec, Proved!Spec

=============================================================================
