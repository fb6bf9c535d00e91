-------------------------- MODULE TaskLedgerProofs --------------------------
(***************************************************************************)
(* The invariants of TaskLedger, for any users, teams, tasks and texts.   *)
(* LedgerTypeOK is inductive by itself and each of the others is          *)
(* inductive relative to it: a write appends one entry that continues the *)
(* chain of every field it changes and leaves the other fields alone.     *)
(* And what the reports of Analytics say of these tables, which is what   *)
(* the audit trail tells of a row.                                        *)
(***************************************************************************)
EXTENDS Analytics, FiniteSetTheorems, FunctionTheorems, TLAPS

\* What a ledger step does to tasks and history, in the form the proofs use.
CreateStep(t, tm, u, v, now) ==
  /\ ~Exists(t)
  /\ IsMember(tm, u) /\ AssigneeAllowed(tm, v)
  /\ now \in Nat /\ now <= clock
  /\ WriteCreate(t, tm, u, v, now)
  /\ UNCHANGED <<members, clock>>

UpdateStep(t, u, p, now) ==
  /\ Exists(t)
  /\ AssigneeAllowed(tasks[t].team, p)
  /\ now \in Nat /\ tasks[t].updatedAt <= now /\ now <= clock
  /\ WriteUpdate(t, tasks[t], u, p, now)
  /\ UNCHANGED <<members, clock>>

LEMMA StepCases ==
  ASSUME LedgerTypeOK, [LedgerNext]_ledgerVars
  PROVE  \/ ChangeTeams
         \/ Tick
         \/ UNCHANGED ledgerVars
         \/ \E t \in TaskIds, u \in Users, tm \in Teams, v \in Contents, now \in Nat :
              CreateStep(t, tm, u, v, now)
         \/ \E t \in TaskIds, u \in Users, p \in Patches, now \in Nat :
              UpdateStep(t, u, p, now)
<1>1. ASSUME NEW t \in TaskIds, NEW u \in Users, NEW tm \in Teams, NEW v \in Contents,
             LedgerCreate(t, tm, u, v)
      PROVE  \E now \in Nat : CreateStep(t, tm, u, v, now)
  BY <1>1 DEF LedgerCreate, CreateStep, LedgerTypeOK, Times
<1>2. ASSUME NEW t \in TaskIds, NEW u \in Users, NEW p \in Patches, LedgerUpdate(t, u, p)
      PROVE  \E now \in Nat : UpdateStep(t, u, p, now)
  <2>1. tasks[t].updatedAt \in Nat /\ clock \in Nat
    BY <1>2 DEF LedgerUpdate, Exists, LedgerTypeOK, Rows, Times
  <2> QED  BY <1>2, <2>1 DEF LedgerUpdate, UpdateStep
<1> QED  BY <1>1, <1>2 DEF LedgerNext, LedgerWrite

-----------------------------------------------------------------------------
(* Lemmas about the operators *)

LEMMA PatchField ==
  ASSUME NEW p \in Patches, NEW f \in DOMAIN p
  PROVE  f \in Fields /\ p[f] \in ValuesOf(f)
  BY DEF Patches

LEMMA PatchedRowType ==
  ASSUME NEW row \in Rows, NEW p \in Patches, NEW now \in Nat
  PROVE  /\ PatchedRow(row, p, now) \in Rows
         /\ PatchedRow(row, p, now).team = row.team
         /\ PatchedRow(row, p, now).creator = row.creator
         /\ PatchedRow(row, p, now).createdAt = row.createdAt
         /\ PatchedRow(row, p, now).updatedAt = now
         /\ \A f \in Fields : PatchedRow(row, p, now).val[f] =
                                IF f \in DOMAIN p THEN p[f] ELSE row.val[f]
         /\ PatchedRow(row, p, now).completedAt =
              IF "status" \in Changed(row.val, p)
                THEN CompletionTime(p["status"], now) ELSE row.completedAt
<1> DEFINE newVal == [f \in Fields |-> IF f \in DOMAIN p THEN p[f] ELSE row.val[f]]
<1>1. newVal \in Contents
  <2>1. \A f \in Fields : newVal[f] \in ValuesOf(f)
    BY PatchField DEF Rows, Contents
  <2>2. \A f \in Fields : ValuesOf(f) \subseteq Values
    BY DEF Values
  <2> QED  BY <2>1, <2>2 DEF Contents
<1>2. \A s : CompletionTime(s, now) \in Times \cup {NoTime}
  BY DEF CompletionTime, Times
<1> QED  BY <1>1, <1>2 DEF PatchedRow, Rows, Times

LEMMA NewRowType ==
  ASSUME NEW tm \in Teams, NEW u \in Users, NEW v \in Contents, NEW now \in Nat
  PROVE  NewRow(tm, u, v, now) \in Rows
  BY DEF NewRow, Rows, CompletionTime, Times

LEMMA CreatedEntryType ==
  ASSUME NEW u \in Users, NEW now \in Nat
  PROVE  CreatedEntry(u, now) \in Entries
  BY DEF CreatedEntry, Entries, Times

LEMMA UpdatedEntryType ==
  ASSUME NEW row \in Rows, NEW p \in Patches, NEW u \in Users, NEW now \in Nat
  PROVE  UpdatedEntry(row, p, u, now) \in Entries
<1>1. ASSUME NEW f \in Changed(row.val, p)
      PROVE  [field |-> f, old |-> Shown(f, row.val[f]), new |-> Shown(f, p[f])] \in Changes
  <2>1. f \in Fields /\ p[f] \in ValuesOf(f) /\ row.val[f] \in ValuesOf(f)
    BY PatchField DEF Changed, Rows, Contents
  <2>2. Shown(f, row.val[f]) \in ShownValues /\ Shown(f, p[f]) \in ShownValues
    BY <2>1 DEF ShownValues
  <2> QED  BY <2>1, <2>2 DEF Changes
<1> QED  BY <1>1 DEF UpdatedEntry, Entries, Times

-----------------------------------------------------------------------------
(* Types, and what a step does in terms of the functions' values *)

LEMMA MembersKeepType ==
  ASSUME MembersTypeOK, MembersNext
  PROVE  MembersTypeOK'
<1>1. ASSUME NEW tm \in Teams, NEW u \in Users, CreateTeam(tm, u)
      PROVE  MembersTypeOK'
  BY <1>1 DEF CreateTeam, MembersTypeOK, Roles
<1>2. ASSUME NEW tm \in Teams, NEW u \in Users, NEW by \in Users, NEW role \in Roles,
             AddMember(tm, by, u, role)
      PROVE  MembersTypeOK'
  BY <1>2 DEF AddMember, MembersTypeOK
<1> QED  BY <1>1, <1>2 DEF MembersNext

LEMMA LedgerTypeInit == LedgerInit => LedgerTypeOK
  BY DEF LedgerInit, MembersInit, LedgerTypeOK, MembersTypeOK, Times

LEMMA LedgerTypeStep == LedgerTypeOK /\ [LedgerNext]_ledgerVars => LedgerTypeOK'
<1> SUFFICES ASSUME LedgerTypeOK, [LedgerNext]_ledgerVars PROVE LedgerTypeOK'
  OBVIOUS
<1>1. CASE ChangeTeams
  BY <1>1, MembersKeepType DEF ChangeTeams, LedgerTypeOK
<1>2. CASE Tick
  BY <1>2 DEF Tick, LedgerTypeOK, MembersTypeOK, Times
<1>3. CASE UNCHANGED ledgerVars
  BY <1>3 DEF ledgerVars, LedgerTypeOK, MembersTypeOK
<1>4. ASSUME NEW t \in TaskIds, NEW u \in Users, NEW tm \in Teams, NEW v \in Contents,
             NEW now \in Nat, CreateStep(t, tm, u, v, now)
      PROVE  LedgerTypeOK'
  <2>1. NewRow(tm, u, v, now) \in Rows /\ <<CreatedEntry(u, now)>> \in Seq(Entries)
    BY NewRowType, CreatedEntryType
  <2> QED  BY <1>4, <2>1 DEF CreateStep, WriteCreate, LedgerTypeOK, MembersTypeOK
<1>5. ASSUME NEW t \in TaskIds, NEW u \in Users, NEW p \in Patches, NEW now \in Nat,
             UpdateStep(t, u, p, now)
      PROVE  LedgerTypeOK'
  <2>1. tasks[t] \in Rows
    BY <1>5 DEF UpdateStep, Exists, LedgerTypeOK
  <2>2. PatchedRow(tasks[t], p, now) \in Rows /\ UpdatedEntry(tasks[t], p, u, now) \in Entries
    BY <2>1, PatchedRowType, UpdatedEntryType
  <2>3. Append(history[t], UpdatedEntry(tasks[t], p, u, now)) \in Seq(Entries)
    BY <2>2 DEF LedgerTypeOK
  <2> QED  BY <1>5, <2>2, <2>3 DEF UpdateStep, WriteUpdate, LedgerTypeOK, MembersTypeOK
<1> QED  BY <1>1, <1>2, <1>3, <1>4, <1>5, StepCases

(* A ledger step keeps every table well typed. *)
THEOREM LedgerTypeCorrect == LedgerSpec => []LedgerTypeOK
  BY LedgerTypeInit, LedgerTypeStep, PTL DEF LedgerSpec

\* The tables after a creation of t.
LEMMA CreateEffect ==
  ASSUME LedgerTypeOK, NEW t \in TaskIds, NEW u \in Users, NEW tm \in Teams,
         NEW v \in Contents, NEW now \in Nat, CreateStep(t, tm, u, v, now)
  PROVE  /\ \A s \in TaskIds \ {t} : tasks'[s] = tasks[s] /\ history'[s] = history[s]
         /\ tasks'[t] = NewRow(tm, u, v, now)
         /\ Exists(t)'
         /\ history'[t] = <<CreatedEntry(u, now)>>
         /\ DOMAIN history'[t] = {1}
         /\ history'[t][1] = CreatedEntry(u, now)
         /\ UNCHANGED <<members, clock>>
<1>1. NewRow(tm, u, v, now) # NoTask
  BY NewRowType, NoTaskAssumption
<1> QED  BY <1>1 DEF CreateStep, WriteCreate, LedgerTypeOK, Exists

\* The tables after an update of t: a row and one more entry.
LEMMA UpdateEffect ==
  ASSUME LedgerTypeOK, NEW t \in TaskIds, NEW u \in Users, NEW p \in Patches,
         NEW now \in Nat, UpdateStep(t, u, p, now)
  PROVE  /\ \A s \in TaskIds \ {t} : tasks'[s] = tasks[s] /\ history'[s] = history[s]
         /\ tasks[t] \in Rows
         /\ tasks'[t] = PatchedRow(tasks[t], p, now)
         /\ Exists(t) /\ Exists(t)'
         /\ Len(history[t]) \in Nat
         /\ DOMAIN history[t] = 1 .. Len(history[t])
         /\ DOMAIN history'[t] = 1 .. (Len(history[t]) + 1)
         /\ Len(history'[t]) = Len(history[t]) + 1
         /\ \A i \in DOMAIN history[t] : history'[t][i] = history[t][i]
         /\ history'[t][Len(history[t]) + 1] = UpdatedEntry(tasks[t], p, u, now)
         /\ UNCHANGED <<members, clock>>
<1>1. tasks[t] \in Rows
  BY DEF UpdateStep, Exists, LedgerTypeOK
<1>2. PatchedRow(tasks[t], p, now) # NoTask
  BY <1>1, PatchedRowType, NoTaskAssumption
<1>3. history[t] \in Seq(Entries) /\ UpdatedEntry(tasks[t], p, u, now) \in Entries
  BY <1>1, UpdatedEntryType DEF LedgerTypeOK
<1>4. tasks'[t] = PatchedRow(tasks[t], p, now)
  BY DEF UpdateStep, WriteUpdate, LedgerTypeOK
<1>5. history'[t] = Append(history[t], UpdatedEntry(tasks[t], p, u, now))
  BY DEF UpdateStep, WriteUpdate, LedgerTypeOK
<1>6. \A s \in TaskIds \ {t} : tasks'[s] = tasks[s] /\ history'[s] = history[s]
  BY DEF UpdateStep, WriteUpdate, LedgerTypeOK
<1>7. UNCHANGED <<members, clock>> /\ Exists(t)
  BY DEF UpdateStep
<1> QED  BY <1>1, <1>2, <1>3, <1>4, <1>5, <1>6, <1>7 DEF Exists

-----------------------------------------------------------------------------
(* Membership is permanent *)

LEMMA MembersStay ==
  ASSUME MembersTypeOK, MembersNext, NEW tm \in Teams, NEW u \in Users, IsMember(tm, u)
  PROVE  IsMember(tm, u)' /\ Role(tm, u)' = Role(tm, u)
<1>1. ASSUME NEW tn \in Teams, NEW w \in Users, CreateTeam(tn, w)
      PROVE  Role(tm, u)' = Role(tm, u)
  BY <1>1 DEF CreateTeam, TeamExists, IsMember, Role, MembersTypeOK
<1>2. ASSUME NEW tn \in Teams, NEW w \in Users, NEW by \in Users, NEW role \in Roles,
             AddMember(tn, by, w, role)
      PROVE  Role(tm, u)' = Role(tm, u)
  BY <1>2 DEF AddMember, IsMember, Role, MembersTypeOK
<1> QED  BY <1>1, <1>2 DEF MembersNext, IsMember, Role

LEMMA AssigneeStep ==
  LedgerTypeOK /\ AssigneeIsMember /\ [LedgerNext]_ledgerVars => AssigneeIsMember'
<1> SUFFICES ASSUME LedgerTypeOK, AssigneeIsMember, [LedgerNext]_ledgerVars
             PROVE  AssigneeIsMember'
  OBVIOUS
<1> USE DEF AssigneeIsMember
<1>1. CASE ChangeTeams
  <2> SUFFICES ASSUME NEW t \in TaskIds, Exists(t)
               PROVE  \/ tasks[t].val["assignee_id"] = NoUser
                      \/ IsMember(tasks[t].team, tasks[t].val["assignee_id"])'
    BY <1>1 DEF ChangeTeams, Exists, IsMember
  <2>1. tasks[t] \in Rows
    BY DEF Exists, LedgerTypeOK
  <2>2. tasks[t].team \in Teams /\ tasks[t].val["assignee_id"] \in Users \cup {NoUser}
    BY <2>1 DEF Rows, Contents, Fields, ValuesOf
  <2> QED  BY <1>1, <2>2, MembersStay DEF ChangeTeams, LedgerTypeOK, IsMember
<1>2. CASE Tick \/ UNCHANGED ledgerVars
  BY <1>2 DEF Tick, ledgerVars, Exists, IsMember
<1>3. ASSUME NEW t \in TaskIds, NEW u \in Users, NEW tm \in Teams, NEW v \in Contents,
             NEW now \in Nat, CreateStep(t, tm, u, v, now)
      PROVE  AssigneeIsMember'
  <2>1. NewRow(tm, u, v, now).team = tm /\ NewRow(tm, u, v, now).val = v
    BY DEF NewRow
  <2>2. "assignee_id" \in DOMAIN v
    BY DEF Contents, Fields
  <2>3. v["assignee_id"] = NoUser \/ IsMember(tm, v["assignee_id"])
    BY <1>3, <2>2 DEF CreateStep, AssigneeAllowed
  <2> QED  BY <1>3, <2>1, <2>3, CreateEffect DEF Exists, IsMember
<1>4. ASSUME NEW t \in TaskIds, NEW u \in Users, NEW p \in Patches, NEW now \in Nat,
             UpdateStep(t, u, p, now)
      PROVE  AssigneeIsMember'
  <2>1. /\ tasks[t] \in Rows /\ Exists(t) /\ tasks'[t] = PatchedRow(tasks[t], p, now)
        /\ \A s \in TaskIds \ {t} : tasks'[s] = tasks[s]
        /\ UNCHANGED members
    BY <1>4, UpdateEffect
  <2>2. /\ tasks'[t].team = tasks[t].team
        /\ tasks'[t].val["assignee_id"] = IF "assignee_id" \in DOMAIN p
                                            THEN p["assignee_id"]
                                            ELSE tasks[t].val["assignee_id"]
    BY <2>1, PatchedRowType DEF Fields
  <2>3. AssigneeAllowed(tasks[t].team, p)
    BY <1>4 DEF UpdateStep
  <2> QED  BY <2>1, <2>2, <2>3 DEF AssigneeAllowed, Exists, IsMember
<1> QED  BY <1>1, <1>2, <1>3, <1>4, StepCases

(* No sequence of creations, reassignments and invitations assigns a task to  *)
(* a user outside its team.                                                   *)
THEOREM AssigneesAreMembers == LedgerSpec => []AssigneeIsMember
<1>1. LedgerInit => AssigneeIsMember
  BY DEF LedgerInit, AssigneeIsMember, Exists
<1> QED  BY <1>1, AssigneeStep, LedgerTypeCorrect, PTL DEF LedgerSpec

-----------------------------------------------------------------------------
(* The audit trail *)

LEMMA TimeStep ==
  LedgerTypeOK /\ HistoryTimeOrdered /\ [LedgerNext]_ledgerVars => HistoryTimeOrdered'
<1> SUFFICES ASSUME LedgerTypeOK, HistoryTimeOrdered, [LedgerNext]_ledgerVars
             PROVE  HistoryTimeOrdered'
  OBVIOUS
<1>1. CASE ChangeTeams \/ Tick \/ UNCHANGED ledgerVars
  BY <1>1 DEF ChangeTeams, Tick, ledgerVars, HistoryTimeOrdered, Exists
<1>2. ASSUME NEW t \in TaskIds, NEW u \in Users, NEW tm \in Teams, NEW v \in Contents,
             NEW now \in Nat, CreateStep(t, tm, u, v, now)
      PROVE  HistoryTimeOrdered'
  <2>1. /\ NewRow(tm, u, v, now).createdAt = now /\ NewRow(tm, u, v, now).updatedAt = now
        /\ CreatedEntry(u, now).at = now /\ CreatedEntry(u, now).action = "created"
    BY DEF NewRow, CreatedEntry
  <2>2. now <= now
    OBVIOUS
  <2> QED  BY <1>2, <2>1, <2>2, CreateEffect DEF HistoryTimeOrdered, Exists
<1>3. ASSUME NEW t \in TaskIds, NEW u \in Users, NEW p \in Patches, NEW now \in Nat,
             UpdateStep(t, u, p, now)
      PROVE  HistoryTimeOrdered'
  <2> DEFINE n == Len(history[t])
  <2>1. /\ \A s \in TaskIds \ {t} : tasks'[s] = tasks[s] /\ history'[s] = history[s]
        /\ tasks[t] \in Rows /\ tasks'[t] = PatchedRow(tasks[t], p, now)
        /\ Exists(t) /\ Exists(t)' /\ n \in Nat
        /\ DOMAIN history[t] = 1 .. n /\ DOMAIN history'[t] = 1 .. (n + 1)
        /\ Len(history'[t]) = n + 1
        /\ \A i \in DOMAIN history[t] : history'[t][i] = history[t][i]
        /\ history'[t][n + 1] = UpdatedEntry(tasks[t], p, u, now)
    BY <1>3, UpdateEffect
  <2>2. n > 0
    BY <2>1 DEF HistoryTimeOrdered, LedgerTypeOK
  <2>3. \A i \in 1 .. n : history[t][i].at \in Nat /\ history[t][i].at <= now
    <3> SUFFICES ASSUME NEW i \in 1 .. n
                 PROVE  history[t][i].at \in Nat /\ history[t][i].at <= now
      OBVIOUS
    <3>1. history[t] \in Seq(Entries) /\ i \in DOMAIN history[t] /\ n \in DOMAIN history[t]
      BY <2>1, <2>2 DEF LedgerTypeOK
    <3>2. history[t][i] \in Entries /\ history[t][n] \in Entries
      BY <3>1
    <3>3. history[t][i].at \in Nat /\ history[t][n].at \in Nat
      BY <3>2 DEF Entries, Times
    <3>4. history[t][n].at = tasks[t].updatedAt /\ (i < n => history[t][i].at <= history[t][n].at)
      BY <2>1, <3>1 DEF HistoryTimeOrdered
    <3>5. tasks[t].updatedAt <= now
      BY <1>3 DEF UpdateStep
    <3> QED  BY <2>1, <3>3, <3>4, <3>5
  <2>4. /\ UpdatedEntry(tasks[t], p, u, now).at = now
        /\ tasks'[t].updatedAt = now /\ tasks'[t].createdAt = tasks[t].createdAt
    <3>1. /\ PatchedRow(tasks[t], p, now).updatedAt = now
          /\ PatchedRow(tasks[t], p, now).createdAt = tasks[t].createdAt
      BY <2>1, PatchedRowType
    <3>2. UpdatedEntry(tasks[t], p, u, now).at = now
      BY DEF UpdatedEntry
    <3> QED  BY <2>1, <3>1, <3>2
  <2>5. \A i, j \in DOMAIN history'[t] : i < j => history'[t][i].at <= history'[t][j].at
    <3> SUFFICES ASSUME NEW i \in 1 .. (n + 1), NEW j \in 1 .. (n + 1), i < j
                 PROVE  history'[t][i].at <= history'[t][j].at
      BY <2>1
    <3>1. CASE j = n + 1
      <4>1. i \in 1 .. n /\ history'[t][j].at = now
        BY <3>1, <2>1, <2>4
      <4>2. history'[t][i] = history[t][i]
        BY <4>1, <2>1
      <4> QED  BY <4>1, <4>2, <2>3
    <3>2. CASE j # n + 1
      <4>1. i \in DOMAIN history[t] /\ j \in DOMAIN history[t]
        BY <3>2, <2>1
      <4>2. history[t][i].at <= history[t][j].at
        BY <4>1 DEF HistoryTimeOrdered
      <4> QED  BY <4>1, <4>2, <2>1
    <3> QED  BY <3>1, <3>2
  <2>6. history'[t] # <<>>
    BY <2>1
  <2>7. history'[t][1] = history[t][1] /\ history'[t][Len(history'[t])].at = now
    BY <2>1, <2>2, <2>4
  <2> SUFFICES ASSUME NEW s \in TaskIds PROVE HistoryTimeOrdered!(s)'
    BY DEF HistoryTimeOrdered
  <2>8. CASE s = t
    <3>1. history[t][1].action = "created" /\ history[t][1].at = tasks[t].createdAt
      BY <2>1 DEF HistoryTimeOrdered
    <3> QED  BY <2>8, <3>1, <2>1, <2>4, <2>5, <2>6, <2>7
  <2>9. CASE s # t
    <3>1. tasks'[s] = tasks[s] /\ history'[s] = history[s]
      BY <2>9, <2>1
    <3>2. HistoryTimeOrdered!(s)
      BY DEF HistoryTimeOrdered
    <3> QED  BY <3>1, <3>2 DEF Exists
  <2> QED  BY <2>8, <2>9
<1> QED  BY <1>1, <1>2, <1>3, StepCases

(* For every task the audit entries are in time order, from its creation to   *)
(* its last update.                                                           *)
THEOREM HistoryIsTimeOrdered == LedgerSpec => []HistoryTimeOrdered
<1>1. LedgerInit => HistoryTimeOrdered
  BY DEF LedgerInit, HistoryTimeOrdered, Exists
<1> QED  BY <1>1, TimeStep, LedgerTypeCorrect, PTL DEF LedgerSpec

\* The rows an update adds to the trail of field f.
LEMMA UpdatedEntryRewrites ==
  ASSUME NEW row \in Rows, NEW p \in Patches, NEW u \in Users, NEW now \in Nat,
         NEW f \in Fields
  PROVE  /\ f \in Changed(row.val, p) =>
              {c \in UpdatedEntry(row, p, u, now).changes : c.field = f} =
                {[field |-> f, old |-> Shown(f, row.val[f]), new |-> Shown(f, p[f])]}
         /\ f \notin Changed(row.val, p) =>
              /\ {c \in UpdatedEntry(row, p, u, now).changes : c.field = f} = {}
              /\ PatchedRow(row, p, now).val[f] = row.val[f]
<1>1. {c \in UpdatedEntry(row, p, u, now).changes : c.field = f} =
        {[field |-> g, old |-> Shown(g, row.val[g]), new |-> Shown(g, p[g])] :
           g \in Changed(row.val, p) \cap {f}}
  BY DEF UpdatedEntry
<1>2. f \notin Changed(row.val, p) => PatchedRow(row, p, now).val[f] = row.val[f]
  BY PatchedRowType DEF Changed
<1> QED  BY <1>1, <1>2

LEMMA AuditStep ==
  LedgerTypeOK /\ AuditChain /\ [LedgerNext]_ledgerVars => AuditChain'
<1> SUFFICES ASSUME LedgerTypeOK, AuditChain, [LedgerNext]_ledgerVars
             PROVE  AuditChain'
  OBVIOUS
<1>1. CASE ChangeTeams \/ Tick \/ UNCHANGED ledgerVars
  BY <1>1 DEF ChangeTeams, Tick, ledgerVars, AuditChain, Exists, Rewrites, LastRewrite
<1>2. ASSUME NEW t \in TaskIds, NEW s \in TaskIds, NEW f \in Fields, s # t,
             tasks'[s] = tasks[s], history'[s] = history[s]
      PROVE  AuditChain!(s, f)'
  <2>1. AuditChain!(s, f)
    BY DEF AuditChain
  <2> QED  BY <2>1, <1>2 DEF Exists, Rewrites, LastRewrite
<1>3. ASSUME NEW t \in TaskIds, NEW u \in Users, NEW tm \in Teams, NEW v \in Contents,
             NEW now \in Nat, CreateStep(t, tm, u, v, now)
      PROVE  AuditChain'
  <2>1. /\ \A s \in TaskIds \ {t} : tasks'[s] = tasks[s] /\ history'[s] = history[s]
        /\ DOMAIN history'[t] = {1} /\ history'[t][1] = CreatedEntry(u, now)
    BY <1>3, CreateEffect
  <2>2. \A f \in Fields : \A i \in DOMAIN history'[t] : Rewrites(t, i, f)' = {}
    BY <2>1 DEF Rewrites, CreatedEntry
  <2>3. \A f \in Fields : AuditChain!(t, f)'
    BY <2>2
  <2> QED  BY <2>1, <2>3, <1>2 DEF AuditChain
<1>4. ASSUME NEW t \in TaskIds, NEW u \in Users, NEW p \in Patches, NEW now \in Nat,
             UpdateStep(t, u, p, now)
      PROVE  AuditChain'
  <2>a. PICK n \in Nat, row \in Rows : n = Len(history[t]) /\ row = tasks[t]
    BY <1>4, UpdateEffect
  <2>1. /\ \A s \in TaskIds \ {t} : tasks'[s] = tasks[s] /\ history'[s] = history[s]
        /\ row = tasks[t] /\ tasks'[t] = PatchedRow(row, p, now)
        /\ Exists(t) /\ Exists(t)'
        /\ DOMAIN history[t] = 1 .. n /\ DOMAIN history'[t] = 1 .. (n + 1)
        /\ \A i \in DOMAIN history[t] : history'[t][i] = history[t][i]
        /\ history'[t][n + 1] = UpdatedEntry(row, p, u, now)
    BY <1>4, <2>a, UpdateEffect
  <2>2. \A f \in Fields : \A i \in 1 .. n : Rewrites(t, i, f)' = Rewrites(t, i, f)
    BY <2>1 DEF Rewrites
  <2>3. ASSUME NEW f \in Fields PROVE AuditChain!(t, f)'
    <3>1. CASE f \in Changed(row.val, p)
      <4> DEFINE d == [field |-> f, old |-> Shown(f, row.val[f]), new |-> Shown(f, p[f])]
      <4>1. Rewrites(t, n + 1, f)' = {d}
        BY <3>1, <2>1, UpdatedEntryRewrites DEF Rewrites
      <4>2. PatchedRow(row, p, now).val[f] = p[f]
        <5>1. f \in DOMAIN p
          BY <3>1 DEF Changed
        <5> QED  BY <5>1, PatchedRowType
      <4> SUFFICES ASSUME NEW i \in 1 .. (n + 1), NEW c \in Rewrites(t, i, f)'
                   PROVE  AuditChain!(t, f)!(i)!(c)'
        BY <2>1
      <4>3. CASE i = n + 1
        <5>1. c = d
          BY <4>1, <4>3
        <5> QED  BY <5>1, <4>2, <4>3, <2>1
      <4>4. CASE i # n + 1
        <5>1. i \in 1 .. n /\ c \in Rewrites(t, i, f)
          BY <4>4, <2>1, <2>2
        <5>2. AuditChain!(t, f)!(i)!(c)
          <6>1. i \in DOMAIN history[t]
            BY <5>1, <2>1
          <6> QED  BY <6>1, <5>1, Zenon DEF AuditChain
        <5>3. ~LastRewrite(t, i, f)'
          <6>1. n + 1 \in DOMAIN history'[t] /\ i < n + 1
            BY <5>1, <2>1
          <6>2. Rewrites(t, n + 1, f)' # {}
            BY <4>1
          <6> QED  BY <6>1, <6>2 DEF LastRewrite
        <5>4. ASSUME NEW j \in 1 .. (n + 1), NEW e \in Rewrites(t, j, f)', i < j,
                     \A k \in 1 .. (n + 1) : i < k /\ k < j => Rewrites(t, k, f)' = {}
              PROVE  c.new = e.old
          <6>1. CASE j \in 1 .. n
            <7>1. e \in Rewrites(t, j, f) /\ j \in DOMAIN history[t]
              BY <6>1, <2>1, <2>2
            <7>2. \A k \in DOMAIN history[t] : i < k /\ k < j => Rewrites(t, k, f) = {}
              <8> SUFFICES ASSUME NEW k \in 1 .. n, i < k, k < j
                           PROVE  Rewrites(t, k, f) = {}
                BY <2>1
              <8>1. Rewrites(t, k, f)' = {}
                BY <5>4
              <8> QED  BY <8>1, <2>2
            <7> QED  BY <7>1, <7>2, <5>2, <5>4
          <6>2. CASE j = n + 1
            <7>1. e = d
              BY <6>2, <4>1
            <7>2. LastRewrite(t, i, f)
              <8> SUFFICES ASSUME NEW k \in 1 .. n, i < k PROVE Rewrites(t, k, f) = {}
                BY <2>1 DEF LastRewrite
              <8>1. k \in 1 .. (n + 1) /\ k < j
                BY <6>2
              <8>2. Rewrites(t, k, f)' = {}
                BY <8>1, <5>4
              <8> QED  BY <8>2, <2>2
            <7>3. c.new = Shown(f, row.val[f])
              BY <7>2, <5>2, <2>1
            <7> QED  BY <7>1, <7>3
          <6> QED  BY <6>1, <6>2
        <5> QED  BY <5>3, <5>4, <2>1
      <4> QED  BY <4>3, <4>4
    <3>2. CASE f \notin Changed(row.val, p)
      <4>1. Rewrites(t, n + 1, f)' = {} /\ PatchedRow(row, p, now).val[f] = row.val[f]
        BY <3>2, <2>1, UpdatedEntryRewrites DEF Rewrites
      <4> SUFFICES ASSUME NEW i \in 1 .. n, NEW c \in Rewrites(t, i, f)
                   PROVE  AuditChain!(t, f)!(i)!(c)'
        BY <2>1, <2>2, <4>1
      <4>2. AuditChain!(t, f)!(i)!(c)
        BY <2>1 DEF AuditChain
      <4>3. LastRewrite(t, i, f)' => LastRewrite(t, i, f)
        BY <2>1, <2>2 DEF LastRewrite
      <4>4. ASSUME NEW j \in 1 .. (n + 1), NEW e \in Rewrites(t, j, f)', i < j,
                   \A k \in 1 .. (n + 1) : i < k /\ k < j => Rewrites(t, k, f)' = {}
            PROVE  c.new = e.old
        <5>1. j \in 1 .. n /\ e \in Rewrites(t, j, f)
          BY <4>1, <2>2
        <5> QED  BY <5>1, <4>2, <4>4, <2>1, <2>2
      <4> QED  BY <2>1, <4>1, <4>2, <4>3, <4>4
    <3> QED  BY <3>1, <3>2
  <2>4. ASSUME NEW s \in TaskIds, NEW f \in Fields PROVE AuditChain!(s, f)'
    <3>1. s # t => tasks'[s] = tasks[s] /\ history'[s] = history[s]
      BY <2>1
    <3>2. CASE s = t
      BY <3>2, <2>3
    <3>3. CASE s # t
      BY <3>1, <3>3, <1>2
    <3> QED  BY <3>2, <3>3
  <2> QED  BY <2>4, Zenon DEF AuditChain
<1> QED  BY <1>1, <1>3, <1>4, StepCases

(* The audit trail of every task is an unbroken chain that ends in the row:   *)
(* no transaction overwrites a change it has not seen.                        *)
THEOREM AuditTrailIsAChain == LedgerSpec => []AuditChain
<1>1. LedgerInit => AuditChain
  BY DEF LedgerInit, AuditChain, Rewrites
<1> QED  BY <1>1, AuditStep, LedgerTypeCorrect, PTL DEF LedgerSpec

LEMMA CompletionTimeMeans ==
  ASSUME NEW s, NEW now \in Nat
  PROVE  /\ CompletionTime(s, now) # NoTime <=> s = "done"
         /\ CompletionTime(s, now) # NoTime => CompletionTime(s, now) = now
  BY NoTimeAssumption DEF CompletionTime, Times

LEMMA CompletedStep ==
  LedgerTypeOK /\ HistoryTimeOrdered /\ CompletedAtIsAudited /\ [LedgerNext]_ledgerVars
    => CompletedAtIsAudited'
<1> SUFFICES ASSUME LedgerTypeOK, HistoryTimeOrdered, CompletedAtIsAudited,
                    [LedgerNext]_ledgerVars
             PROVE  CompletedAtIsAudited'
  OBVIOUS
<1>1. CASE ChangeTeams \/ Tick \/ UNCHANGED ledgerVars
  BY <1>1
     DEF ChangeTeams, Tick, ledgerVars, CompletedAtIsAudited, Exists, Rewrites, LastRewrite
<1>2. ASSUME NEW t \in TaskIds, NEW s \in TaskIds, s # t,
             tasks'[s] = tasks[s], history'[s] = history[s]
      PROVE  CompletedAtIsAudited!(s)'
  <2>1. CompletedAtIsAudited!(s)
    BY DEF CompletedAtIsAudited
  <2> QED  BY <2>1, <1>2 DEF Exists, Rewrites, LastRewrite
<1>3. ASSUME NEW t \in TaskIds, NEW u \in Users, NEW tm \in Teams, NEW v \in Contents,
             NEW now \in Nat, CreateStep(t, tm, u, v, now)
      PROVE  CompletedAtIsAudited'
  <2>1. /\ \A s \in TaskIds \ {t} : tasks'[s] = tasks[s] /\ history'[s] = history[s]
        /\ tasks'[t] = NewRow(tm, u, v, now)
        /\ DOMAIN history'[t] = {1} /\ history'[t][1] = CreatedEntry(u, now)
    BY <1>3, CreateEffect
  <2>2. /\ tasks'[t].val = v /\ tasks'[t].completedAt = CompletionTime(v["status"], now)
        /\ history'[t][1].at = now
    BY <2>1 DEF NewRow, CreatedEntry
  <2>3. CompletedAtIsAudited!(t)'
    BY <2>1, <2>2, CompletionTimeMeans
  <2> QED  BY <2>1, <2>3, <1>2 DEF CompletedAtIsAudited
<1>4. ASSUME NEW t \in TaskIds, NEW u \in Users, NEW p \in Patches, NEW now \in Nat,
             UpdateStep(t, u, p, now)
      PROVE  CompletedAtIsAudited'
  <2>a. PICK n \in Nat, row \in Rows : n = Len(history[t]) /\ row = tasks[t]
    BY <1>4, UpdateEffect
  <2>1. /\ \A s \in TaskIds \ {t} : tasks'[s] = tasks[s] /\ history'[s] = history[s]
        /\ row = tasks[t] /\ tasks'[t] = PatchedRow(row, p, now)
        /\ Exists(t)
        /\ DOMAIN history[t] = 1 .. n /\ DOMAIN history'[t] = 1 .. (n + 1)
        /\ \A i \in DOMAIN history[t] : history'[t][i] = history[t][i]
        /\ history'[t][n + 1] = UpdatedEntry(row, p, u, now)
    BY <1>4, <2>a, UpdateEffect
  <2>2. \A i \in 1 .. n : Rewrites(t, i, "status")' = Rewrites(t, i, "status")
    BY <2>1 DEF Rewrites
  <2>3. "status" \in Fields /\ history'[t][n + 1].at = now
    BY <2>1 DEF Fields, UpdatedEntry
  <2>4. CASE "status" \in Changed(row.val, p)
    <3>1. Rewrites(t, n + 1, "status")' # {}
      <4> DEFINE d == [field |-> "status", old |-> Shown("status", row.val["status"]),
                       new |-> Shown("status", p["status"])]
      <4>1. {c \in UpdatedEntry(row, p, u, now).changes : c.field = "status"} = {d}
        BY <2>4, <2>3, UpdatedEntryRewrites
      <4> HIDE DEF d
      <4> QED  BY <4>1, <2>1 DEF Rewrites
    <3>2. \A i \in 1 .. (n + 1) : LastRewrite(t, i, "status")' => i = n + 1
      BY <3>1, <2>1 DEF LastRewrite
    <3>3. "status" \in DOMAIN p
      BY <2>4 DEF Changed
    <3>4. /\ tasks'[t].completedAt = CompletionTime(p["status"], now)
          /\ tasks'[t].val["status"] = p["status"]
      BY <2>1, <2>3, <2>4, <3>3, PatchedRowType
    <3>5. CompletedAtIsAudited!(t)'
      BY <2>1, <2>3, <3>2, <3>4, CompletionTimeMeans
    <3> QED  BY <2>1, <3>5, <1>2 DEF CompletedAtIsAudited
  <2>5. CASE "status" \notin Changed(row.val, p)
    <3>1. Rewrites(t, n + 1, "status")' = {}
      BY <2>5, <2>1, <2>3, UpdatedEntryRewrites DEF Rewrites
    <3>2. n > 0
      BY <2>1, <2>a DEF HistoryTimeOrdered, LedgerTypeOK
    <3>3. /\ tasks'[t].completedAt = row.completedAt
          /\ tasks'[t].val["status"] = row.val["status"]
      <4>1. /\ PatchedRow(row, p, now).val["status"] = row.val["status"]
            /\ PatchedRow(row, p, now).completedAt = row.completedAt
        BY <2>3, <2>5, PatchedRowType DEF Changed
      <4> QED  BY <2>1, <4>1
    <3>4. CompletedAtIsAudited!(t)
      BY DEF CompletedAtIsAudited
    <3>5. ASSUME NEW i \in 1 .. (n + 1), i = 1 \/ Rewrites(t, i, "status")' # {},
                 LastRewrite(t, i, "status")'
          PROVE  i \in 1 .. n /\ (i = 1 \/ Rewrites(t, i, "status") # {})
                 /\ LastRewrite(t, i, "status") /\ history'[t][i] = history[t][i]
      <4>1. i \in 1 .. n
        BY <3>1, <3>2, <3>5
      <4>2. LastRewrite(t, i, "status")
        BY <3>5, <2>1, <2>2 DEF LastRewrite
      <4> QED  BY <4>1, <4>2, <3>5, <2>1, <2>2
    <3>6. CompletedAtIsAudited!(t)'
      BY <2>1, <3>3, <3>4, <3>5
    <3> QED  BY <2>1, <3>6, <1>2 DEF CompletedAtIsAudited
  <2> QED  BY <2>4, <2>5
<1> QED  BY <1>1, <1>3, <1>4, StepCases

(* A task's completed_at is always the time of the audited transaction that   *)
(* made it done, and is NULL exactly while it is not.                         *)
THEOREM CompletionIsAudited == LedgerSpec => []CompletedAtIsAudited
<1>1. LedgerInit => CompletedAtIsAudited
  BY DEF LedgerInit, CompletedAtIsAudited, Exists
<1> QED  BY <1>1, CompletedStep, LedgerTypeCorrect, HistoryIsTimeOrdered, PTL DEF LedgerSpec

-----------------------------------------------------------------------------
(* Reports. Counting by ROW_NUMBER, as by OFFSET, is counting how many come    *)
(* before: in a finite set every place is taken, once.                         *)

\* B is a strict total order of the elements of S.
Orders(B, S) ==
  /\ \A x \in S : <<x, x>> \notin B
  /\ \A x, y \in S : x # y => <<x, y>> \in B \/ <<y, x>> \in B
  /\ \A x, y, z \in S : <<x, y>> \in B /\ <<y, z>> \in B => <<x, z>> \in B

Ahead(S, B, x) == {y \in S : <<y, x>> \in B}

\* How many come before x.
Place(S, B, x) == Cardinality(Ahead(S, B, x))

LEMMA PlacesFollowOrder ==
  ASSUME NEW S, IsFiniteSet(S), NEW B, Orders(B, S), NEW x \in S
  PROVE  /\ Place(S, B, x) \in 0 .. Cardinality(S) - 1
         /\ \A y \in S : <<y, x>> \in B => Place(S, B, y) < Place(S, B, x)
<1>1. /\ IsFiniteSet(Ahead(S, B, x)) /\ IsFiniteSet(S \ {x})
      /\ Cardinality(S) \in Nat /\ Cardinality(Ahead(S, B, x)) \in Nat
      /\ Cardinality(S \ {x}) = Cardinality(S) - 1
  BY FS_Subset, FS_CardinalityType, FS_RemoveElement DEF Ahead
<1>2. Ahead(S, B, x) \subseteq S \ {x}
  BY DEF Ahead, Orders
<1>3. Cardinality(Ahead(S, B, x)) <= Cardinality(S) - 1
  BY <1>1, <1>2, FS_Subset
<1>4. ASSUME NEW y \in S, <<y, x>> \in B
      PROVE  Place(S, B, y) < Place(S, B, x)
  <2>1. Ahead(S, B, y) \subseteq Ahead(S, B, x) /\ y \in Ahead(S, B, x) \ Ahead(S, B, y)
    BY <1>4 DEF Ahead, Orders
  <2>2. /\ IsFiniteSet(Ahead(S, B, y))
        /\ Cardinality(Ahead(S, B, y)) <= Cardinality(Ahead(S, B, x))
        /\ Cardinality(Ahead(S, B, y)) # Cardinality(Ahead(S, B, x))
    BY <1>1, <2>1, FS_Subset
  <2>3. Cardinality(Ahead(S, B, y)) \in Nat
    BY <2>2, FS_CardinalityType
  <2> QED  BY <1>1, <2>2, <2>3 DEF Place
<1> QED  BY <1>1, <1>3, <1>4 DEF Place

\* Every place is taken by exactly one element.
LEMMA PlacesAreTaken ==
  ASSUME NEW S, IsFiniteSet(S), NEW B, Orders(B, S)
  PROVE  /\ \A x, y \in S : Place(S, B, x) = Place(S, B, y) => x = y
         /\ \A n \in 0 .. Cardinality(S) - 1 : \E x \in S : Place(S, B, x) = n
<1> DEFINE N == 0 .. Cardinality(S) - 1
           f == [x \in S |-> Place(S, B, x)]
<1>1. f \in [S -> N]
  BY PlacesFollowOrder
<1>2. ASSUME NEW x \in S, NEW y \in S, x # y PROVE Place(S, B, x) # Place(S, B, y)
  <2>1. Place(S, B, x) \in Int /\ Place(S, B, y) \in Int
    BY PlacesFollowOrder
  <2>2. <<x, y>> \in B \/ <<y, x>> \in B
    BY <1>2 DEF Orders
  <2> QED  BY <2>1, <2>2, PlacesFollowOrder
<1>3. f \in Injection(S, N)
  <2>1. \A x, y \in S : f[x] = f[y] => x = y
    BY <1>2
  <2> HIDE DEF f, N
  <2>2. IsInjective(f)
    BY <1>1, <2>1 DEF IsInjective
  <2> QED  BY <1>1, <2>2 DEF Injection
<1>4. Cardinality(S) \in Nat /\ IsFiniteSet(N) /\ Cardinality(N) = Cardinality(S)
  <2>1. Cardinality(S) \in Nat
    BY FS_CardinalityType
  <2> QED  BY <2>1, FS_Interval
<1>5. f \in Surjection(S, N)
  <2> HIDE DEF f, N
  <2> QED  BY <1>3, <1>4, FS_Injection
<1>6. \A n \in N : \E x \in S : f[x] = n
  BY <1>5 DEF Surjection
<1> QED  BY <1>2, <1>6

\* As many elements as places.
LEMMA PlacesCount ==
  ASSUME NEW S, IsFiniteSet(S), NEW B, Orders(B, S), NEW P, P \subseteq 0 .. Cardinality(S) - 1
  PROVE  Cardinality({x \in S : Place(S, B, x) \in P}) = Cardinality(P)
<1> DEFINE T == {x \in S : Place(S, B, x) \in P}
           f == [x \in T |-> Place(S, B, x)]
<1>1. f \in [T -> P]
  OBVIOUS
<1>2. \A x, y \in T : f[x] = f[y] => x = y
  BY PlacesAreTaken
<1>3. \A n \in P : \E x \in T : f[x] = n
  BY PlacesAreTaken
<1>4. f \in Bijection(T, P)
  BY <1>1, <1>2, <1>3 DEF Bijection, Injection, Surjection, IsInjective
<1>5. IsFiniteSet(T)
  BY FS_Subset
<1> QED  BY <1>4, <1>5, FS_Bijection DEF ExistsBijection

-----------------------------------------------------------------------------
(* The reports run over the histories of the ledger *)

LEMMA CreateIsWrite ==
  ASSUME LedgerTypeOK, HistoryTimeOrdered, NEW t \in TaskIds, NEW u \in Users,
         NEW tm \in Teams, NEW v \in Contents, LedgerCreate(t, tm, u, v)
  PROVE  LedgerWrite
<1>1. PICK now \in Nat : CreateStep(t, tm, u, v, now)
  BY DEF LedgerCreate, CreateStep, LedgerTypeOK, Times
<1>2. history[t] = <<>>
  BY DEF LedgerCreate, HistoryTimeOrdered
<1>3. history'[t] = <<CreatedEntry(u, now)>> /\ tasks'[t] = NewRow(tm, u, v, now)
  BY <1>1, CreateEffect
<1>4. history'[t] # history[t]
  BY <1>2, <1>3
<1>5. tasks'[t].val = v
  BY <1>3 DEF NewRow
<1>6. v \in {tasks'[t].val} \cap Contents
  BY <1>5
<1> QED  BY <1>4, <1>6 DEF LedgerWrite

LEMMA UpdateIsWrite ==
  ASSUME LedgerTypeOK, NEW t \in TaskIds, NEW u \in Users, NEW p \in Patches,
         LedgerUpdate(t, u, p)
  PROVE  LedgerWrite
<1>1. PICK now \in Nat : UpdateStep(t, u, p, now)
  <2>1. tasks[t].updatedAt \in Nat /\ clock \in Nat
    BY DEF LedgerUpdate, Exists, LedgerTypeOK, Rows, Times
  <2> QED  BY <2>1 DEF LedgerUpdate, UpdateStep
<1>2. /\ tasks[t] \in Rows /\ tasks'[t] = PatchedRow(tasks[t], p, now)
      /\ Len(history'[t]) = Len(history[t]) + 1 /\ Len(history[t]) \in Nat
  BY <1>1, UpdateEffect
<1>3. history'[t] # history[t]
  BY <1>2
<1>4. p = NewValues(t, DOMAIN p) /\ DOMAIN p \in SUBSET Fields
  <2>1. \A f \in DOMAIN p : f \in Fields
    BY PatchField
  <2>2. ASSUME NEW f \in DOMAIN p PROVE PatchedRow(tasks[t], p, now).val[f] = p[f]
    <3>1. f \in Fields /\ tasks[t] \in Rows
      BY <1>2, <2>1
    <3>2. \A g \in Fields : PatchedRow(tasks[t], p, now).val[g] =
                              IF g \in DOMAIN p THEN p[g] ELSE tasks[t].val[g]
      BY <3>1, PatchedRowType
    <3> QED  BY <3>1, <3>2
  <2>3. p = [f \in DOMAIN p |-> p[f]]
    BY DEF Patches
  <2> QED  BY <1>2, <2>1, <2>2, <2>3 DEF NewValues
<1> QED  BY <1>3, <1>4 DEF LedgerWrite

LEMMA ReportsStep ==
  ASSUME LedgerTypeOK, HistoryTimeOrdered, [ReportsNext]_ledgerVars
  PROVE  [LedgerNext]_ledgerVars
<1>1. CASE Write
  BY <1>1, CreateIsWrite, UpdateIsWrite, BodiesAssumption DEF Write, LedgerNext
<1> QED  BY <1>1 DEF ReportsNext, LedgerNext

\* What the histories are when the reports read them, by the same steps.
ReportsInv == LedgerTypeOK /\ HistoryTimeOrdered

LEMMA ReportsInvHolds == ReportsSpec => []ReportsInv
<1>1. LedgerInit => ReportsInv
  BY LedgerTypeInit DEF ReportsInv, LedgerInit, HistoryTimeOrdered, Exists
<1>2. ReportsInv /\ [ReportsNext]_ledgerVars => ReportsInv'
  BY ReportsStep, LedgerTypeStep, TimeStep DEF ReportsInv
<1> QED  BY <1>1, <1>2, PTL DEF ReportsSpec

(* The reports see only tables that the ledger allows: all that is proved of  *)
(* the audit trail holds when they read.                                      *)
THEOREM ReportsReadTheLedger == ReportsSpec => LedgerSpec
<1>1. ReportsInv /\ [ReportsNext]_ledgerVars => [LedgerNext]_ledgerVars
  BY ReportsStep DEF ReportsInv
<1> QED  BY <1>1, ReportsInvHolds, PTL DEF ReportsSpec, LedgerSpec

\* The first entry names the creator, and some entry is the last to give a status.
TrailTells ==
  \A t \in TaskIds : Exists(t) =>
    /\ history[t][1].by = tasks[t].creator
    /\ \E i \in StatusEntries(t) : LastRewrite(t, i, "status")

LEMMA TrailTellsStep ==
  LedgerTypeOK /\ HistoryTimeOrdered /\ TrailTells /\ [LedgerNext]_ledgerVars => TrailTells'
<1> SUFFICES ASSUME LedgerTypeOK, HistoryTimeOrdered, TrailTells, [LedgerNext]_ledgerVars
             PROVE  TrailTells'
  OBVIOUS
<1>1. CASE ChangeTeams \/ Tick \/ UNCHANGED ledgerVars
  BY <1>1 DEF ChangeTeams, Tick, ledgerVars, TrailTells, Exists, StatusEntries, Rewrites,
              LastRewrite
<1>2. ASSUME NEW s \in TaskIds, tasks'[s] = tasks[s], history'[s] = history[s]
      PROVE  TrailTells!(s)'
  <2>1. TrailTells!(s)
    BY DEF TrailTells
  <2> QED  BY <2>1, <1>2 DEF Exists, StatusEntries, Rewrites, LastRewrite
<1>3. ASSUME NEW t \in TaskIds, NEW u \in Users, NEW tm \in Teams, NEW v \in Contents,
             NEW now \in Nat, CreateStep(t, tm, u, v, now)
      PROVE  TrailTells'
  <2>1. /\ \A s \in TaskIds \ {t} : tasks'[s] = tasks[s] /\ history'[s] = history[s]
        /\ tasks'[t] = NewRow(tm, u, v, now)
        /\ DOMAIN history'[t] = {1} /\ history'[t][1] = CreatedEntry(u, now)
    BY <1>3, CreateEffect
  <2>2. history'[t][1].by = tasks'[t].creator
    BY <2>1 DEF NewRow, CreatedEntry
  <2>3. 1 \in StatusEntries(t)' /\ LastRewrite(t, 1, "status")'
    BY <2>1 DEF StatusEntries, LastRewrite
  <2> QED  BY <2>1, <2>2, <2>3, <1>2 DEF TrailTells
<1>4. ASSUME NEW t \in TaskIds, NEW u \in Users, NEW p \in Patches, NEW now \in Nat,
             UpdateStep(t, u, p, now)
      PROVE  TrailTells'
  <2>a. PICK n \in Nat, row \in Rows : n = Len(history[t]) /\ row = tasks[t]
    BY <1>4, UpdateEffect
  <2>1. /\ \A s \in TaskIds \ {t} : tasks'[s] = tasks[s] /\ history'[s] = history[s]
        /\ row = tasks[t] /\ tasks'[t] = PatchedRow(row, p, now)
        /\ Exists(t)
        /\ DOMAIN history[t] = 1 .. n /\ DOMAIN history'[t] = 1 .. (n + 1)
        /\ \A i \in DOMAIN history[t] : history'[t][i] = history[t][i]
        /\ history'[t][n + 1] = UpdatedEntry(row, p, u, now)
    BY <1>4, <2>a, UpdateEffect
  <2>2. \A i \in 1 .. n : Rewrites(t, i, "status")' = Rewrites(t, i, "status")
    BY <2>1 DEF Rewrites
  <2>3. n > 0
    BY <2>1, <2>a DEF HistoryTimeOrdered, LedgerTypeOK
  <2>4. history'[t][1].by = tasks'[t].creator
    <3>1. 1 \in DOMAIN history[t] /\ history[t][1].by = row.creator
      BY <2>1, <2>3 DEF TrailTells
    <3>2. PatchedRow(row, p, now).creator = row.creator
      BY PatchedRowType
    <3> QED  BY <3>1, <3>2, <2>1
  <2>5. \E i \in StatusEntries(t)' : LastRewrite(t, i, "status")'
    <3>1. CASE Rewrites(t, n + 1, "status")' # {}
      BY <3>1, <2>1 DEF StatusEntries, LastRewrite
    <3>2. CASE Rewrites(t, n + 1, "status")' = {}
      <4>1. PICK i \in StatusEntries(t) : LastRewrite(t, i, "status")
        BY <2>1 DEF TrailTells
      <4>2. i \in 1 .. n /\ (i = 1 \/ Rewrites(t, i, "status") # {})
        BY <4>1, <2>1 DEF StatusEntries
      <4>3. i \in StatusEntries(t)'
        BY <4>2, <2>1, <2>2 DEF StatusEntries
      <4>4. LastRewrite(t, i, "status")'
        BY <3>2, <4>1, <2>1, <2>2 DEF LastRewrite
      <4> QED  BY <4>3, <4>4
    <3> QED  BY <3>1, <3>2
  <2>6. TrailTells!(t)'
    BY <2>4, <2>5
  <2> QED  BY <2>1, <2>6, <1>2 DEF TrailTells
<1> QED  BY <1>1, <1>3, <1>4, StepCases

LEMMA TrailTellsHolds == LedgerSpec => []TrailTells
<1>1. LedgerInit => TrailTells
  BY DEF LedgerInit, TrailTells, Exists
<1> QED  BY <1>1, TrailTellsStep, LedgerTypeCorrect, HistoryIsTimeOrdered, PTL DEF LedgerSpec

\* The reports are true of every ledger, however its writes come about: the
\* theorems below are about the writes of Analytics, those of TaskServiceProofs
\* about the requests.
LEMMA ForeignAssigneesOfLedger == LedgerSpec => []ForeignAssigneesAreReported
<1>1. ASSUME LedgerTypeOK, AssigneeIsMember
      PROVE  ForeignAssigneesAreReported
  <2>1. ASSUME NEW u \in Users
        PROVE  InvalidAssignees(members, u) = {}
    BY <1>1 DEF AssigneeIsMember, InvalidAssignees, IsMember
  <2>2. ASSUME NEW u \in Users, NEW tm \in TeamsOf(u), NEW w \in Users \ {u}
        PROVE  InvalidAssignees([members EXCEPT ![tm][w] = NoRole], u) =
                 {t \in TasksOf(tm) : tasks[t].val["assignee_id"] = w}
    <3> DEFINE rows == [members EXCEPT ![tm][w] = NoRole]
    <3>1. /\ tm \in Teams /\ members[tm][u] # NoRole
          /\ members \in [Teams -> [Users -> Roles \cup {NoRole}]]
      BY <1>1 DEF TeamsOf, IsMember, LedgerTypeOK, MembersTypeOK
    <3>2. \A x \in Teams, y \in Users :
            rows[x][y] = IF x = tm /\ y = w THEN NoRole ELSE members[x][y]
      BY <3>1
    <3>3. ASSUME NEW t \in TaskIds, Exists(t)
          PROVE  /\ tasks[t].team \in Teams
                 /\ tasks[t].val["assignee_id"] \in Users \cup {NoUser}
                 /\ \/ tasks[t].val["assignee_id"] = NoUser
                    \/ members[tasks[t].team][tasks[t].val["assignee_id"]] # NoRole
      BY <1>1, <3>3
         DEF LedgerTypeOK, Exists, Rows, Contents, Fields, ValuesOf, AssigneeIsMember, IsMember
    <3> HIDE DEF rows
    <3>4. ASSUME NEW t \in TaskIds, Exists(t)
          PROVE  t \in InvalidAssignees(rows, u) <=>
                   tasks[t].team = tm /\ tasks[t].val["assignee_id"] = w
      BY <3>1, <3>2, <3>3, <3>4, NoUserAssumption DEF InvalidAssignees
    <3>5. InvalidAssignees(rows, u) \subseteq {t \in TaskIds : Exists(t)}
      BY DEF InvalidAssignees
    <3> QED  BY <3>4, <3>5 DEF TasksOf, rows
  <2> QED  BY <2>1, <2>2 DEF ForeignAssigneesAreReported
<1> QED  BY <1>1, LedgerTypeCorrect, AssigneesAreMembers, PTL

(* The third report is empty, and were a member's row deleted by hand it      *)
(* would list that member's tasks in the team, all of them and no others.     *)
THEOREM ForeignAssigneesAreReportedHolds == ReportsSpec => []ForeignAssigneesAreReported
  BY ReportsReadTheLedger, ForeignAssigneesOfLedger, PTL

LEMMA SummaryOfLedger == LedgerSpec => []SummaryAgreesWithTrail
<1>1. TrailTells /\ CompletedAtIsAudited => SummaryAgreesWithTrail
  <2> SUFFICES ASSUME TrailTells, CompletedAtIsAudited,
                      NEW u \in Users, NEW s \in TeamSummary(u)
               PROVE  SummaryAgreesWithTrail!(u)!(s)
    BY DEF SummaryAgreesWithTrail
  <2>1. PICK tm \in TeamsOf(u) :
          s = [team |-> tm,
               members |-> Cardinality({w \in Users : IsMember(tm, w)}),
               done |-> Cardinality({t \in TasksOf(tm) : DoneRecently(t)})]
    BY DEF TeamSummary
  <2>2. s.team = tm /\ s.done = Cardinality({t \in TasksOf(tm) : DoneRecently(t)})
    BY <2>1
  <2>3. ASSUME NEW t \in TasksOf(tm), tasks[t].val["status"] = "done"
        PROVE  history[t][LastStatusEntry(t)].at = tasks[t].completedAt
    <3> DEFINE i == LastStatusEntry(t)
    <3>1. t \in TaskIds /\ Exists(t)
      BY DEF TasksOf
    <3>2. i \in StatusEntries(t) /\ LastRewrite(t, i, "status")
      <4>1. \E j \in StatusEntries(t) : LastRewrite(t, j, "status")
        BY <3>1 DEF TrailTells
      <4> QED  BY <4>1 DEF LastStatusEntry
    <3>3. i \in DOMAIN history[t] /\ (i = 1 \/ Rewrites(t, i, "status") # {})
      BY <3>2 DEF StatusEntries
    <3> HIDE DEF i
    <3>4. tasks[t].completedAt # NoTime
      BY <3>1, <2>3 DEF CompletedAtIsAudited
    <3>5. history[t][i].at = tasks[t].completedAt
      BY <3>1, <3>2, <3>3, <3>4 DEF CompletedAtIsAudited
    <3> QED  BY <3>5 DEF i
  <2>4. {t \in TasksOf(tm) : DoneRecently(t)} =
          {t \in TasksOf(tm) : /\ tasks[t].val["status"] = "done"
                               /\ history[t][LastStatusEntry(t)].at >= clock - DoneDays}
    BY <2>3 DEF DoneRecently
  <2> QED  BY <2>2, <2>4
<1> QED  BY <1>1, TrailTellsHolds, CompletionIsAudited, PTL

(* In every team the number of tasks done in the window is the number that    *)
(* the audit trail shows done since then.                                     *)
THEOREM SummaryAgreesWithTrailHolds == ReportsSpec => []SummaryAgreesWithTrail
  BY ReportsReadTheLedger, SummaryOfLedger, PTL

-----------------------------------------------------------------------------
(* The ranking of a team *)

LEMMA CreatedCounts ==
  ASSUME NEW tm, NEW w
  PROVE  TasksCreated(tm, w) \in Nat /\ (TasksCreated(tm, w) = 0 <=> Created(tm, w) = {})
<1>1. IsFiniteSet(Created(tm, w))
  BY FiniteAssumption, FS_Subset DEF Created, TasksOf
<1> QED  BY <1>1, FS_CardinalityType, FS_EmptySet DEF TasksCreated

LEMMA CreatorsAreFew ==
  ASSUME LedgerTypeOK, NEW tm
  PROVE  Creators(tm) \subseteq Users /\ IsFiniteSet(Creators(tm))
<1> DEFINE all == {tasks[t].creator : t \in TaskIds}
           f == [t \in TaskIds |-> tasks[t].creator]
<1>1. Creators(tm) \subseteq all
  BY DEF Creators, Created, TasksOf
<1>2. f \in Surjection(TaskIds, all)
  BY DEF Surjection
<1>3. IsFiniteSet(all)
  BY <1>2, FiniteAssumption, FS_Surjection
<1> QED  BY <1>1, <1>3, FS_Subset DEF Creators

\* Who comes before whom in the ranking of tm.
Outranks(tm) ==
  {b \in Creators(tm) \X Creators(tm) :
     \/ TasksCreated(tm, b[1]) > TasksCreated(tm, b[2])
     \/ TasksCreated(tm, b[1]) = TasksCreated(tm, b[2]) /\ UserId[b[1]] < UserId[b[2]]}

LEMMA OutranksOrders ==
  ASSUME LedgerTypeOK, NEW tm
  PROVE  /\ Orders(Outranks(tm), Creators(tm))
         /\ \A w \in Creators(tm) : RowNumber(tm, w) = 1 + Place(Creators(tm), Outranks(tm), w)
<1>1. \A x, y \in Creators(tm) :
        <<x, y>> \in Outranks(tm) <=>
          \/ TasksCreated(tm, x) > TasksCreated(tm, y)
          \/ TasksCreated(tm, x) = TasksCreated(tm, y) /\ UserId[x] < UserId[y]
  BY DEF Outranks
<1>2. \A x \in Creators(tm) : TasksCreated(tm, x) \in Nat /\ UserId[x] \in Nat
  BY CreatedCounts, UserIdAssumption DEF Creators
<1>3. \A x, y \in Creators(tm) : UserId[x] = UserId[y] => x = y
  BY UserIdAssumption DEF Creators
<1>4. Orders(Outranks(tm), Creators(tm))
  BY <1>1, <1>2, <1>3 DEF Orders
<1>5. ASSUME NEW w \in Creators(tm)
      PROVE  RowNumber(tm, w) = 1 + Place(Creators(tm), Outranks(tm), w)
  BY <1>1 DEF RowNumber, Place, Ahead
<1> QED  BY <1>4, <1>5

\* Those of tm that the report lists: as many as there are, up to TopRanks.
Listed(tm) == {w \in Creators(tm) : RowNumber(tm, w) <= TopRanks}

LEMMA ListedRanks ==
  ASSUME LedgerTypeOK, NEW tm
  PROVE  /\ IsFiniteSet(Listed(tm)) /\ Cardinality(Listed(tm)) \in Nat
         /\ Cardinality(Listed(tm)) <= TopRanks
         /\ {RowNumber(tm, w) : w \in Listed(tm)} = 1 .. Cardinality(Listed(tm))
         /\ \A w \in Creators(tm) \ Listed(tm) :
              /\ Cardinality(Listed(tm)) = TopRanks
              /\ \A x \in Listed(tm) : TasksCreated(tm, w) <= TasksCreated(tm, x)
<1> DEFINE C == Creators(tm)
           B == Outranks(tm)
           N == Cardinality(C)
           K == IF TopRanks <= N THEN TopRanks ELSE N
           P == 0 .. K - 1
<1>1. IsFiniteSet(C) /\ Orders(B, C) /\ (\A w \in C : RowNumber(tm, w) = 1 + Place(C, B, w))
  BY CreatorsAreFew, OutranksOrders
<1>2. N \in Nat /\ TopRanks \in Nat \ {0}
  BY <1>1, FS_CardinalityType, WindowsAssumption
<1>3. \A w \in C : Place(C, B, w) \in 0 .. N - 1
  BY <1>1, PlacesFollowOrder
<1> HIDE DEF C, B, N
<1>4. K \in Nat /\ K <= N /\ K <= TopRanks /\ P \subseteq 0 .. N - 1
  BY <1>2
<1>5. \A w \in C : RowNumber(tm, w) <= TopRanks <=> Place(C, B, w) \in P
  BY <1>1, <1>2, <1>3
<1>6. Listed(tm) = {w \in C : Place(C, B, w) \in P}
  BY <1>5 DEF Listed, C
<1>7. Cardinality(Listed(tm)) = Cardinality(P)
  BY <1>1, <1>4, <1>6, PlacesCount DEF N
<1>8. Cardinality(P) = K
  BY <1>4, FS_Interval
<1>9. IsFiniteSet(Listed(tm)) /\ Cardinality(Listed(tm)) = K
  BY <1>1, <1>6, <1>7, <1>8, FS_Subset
<1>10. {RowNumber(tm, w) : w \in Listed(tm)} = 1 .. K
  <2>1. ASSUME NEW w \in Listed(tm) PROVE RowNumber(tm, w) \in 1 .. K
    BY <1>1, <1>3, <1>4, <1>6
  <2>2. ASSUME NEW r \in 1 .. K PROVE \E w \in Listed(tm) : RowNumber(tm, w) = r
    <3>1. r - 1 \in 0 .. N - 1 /\ r - 1 \in P
      BY <1>2, <1>4
    <3>2. PICK w \in C : Place(C, B, w) = r - 1
      BY <1>1, <3>1, PlacesAreTaken DEF N
    <3> QED  BY <1>1, <1>6, <3>1, <3>2
  <2> QED  BY <2>1, <2>2
<1>11. ASSUME NEW w \in C \ Listed(tm)
       PROVE  K = TopRanks
              /\ \A x \in Listed(tm) : TasksCreated(tm, w) <= TasksCreated(tm, x)
  <2>1. Place(C, B, w) \in 0 .. N - 1 /\ Place(C, B, w) \notin P
    BY <1>3, <1>6
  <2>2. K = TopRanks
    BY <2>1, <1>2
  <2>3. ASSUME NEW x \in Listed(tm) PROVE TasksCreated(tm, w) <= TasksCreated(tm, x)
    <3>1. x \in C /\ Place(C, B, x) \in P /\ x # w
      BY <1>6
    <3>2. Place(C, B, x) < Place(C, B, w)
      BY <2>1, <3>1, <1>4
    <3>3. <<w, x>> \notin B
      <4>1. <<w, x>> \in B => Place(C, B, w) < Place(C, B, x)
        BY <1>1, <3>1, PlacesFollowOrder
      <4> QED  BY <4>1, <3>2, <3>1, <2>1, <1>4
    <3>4. <<x, w>> \in B
      BY <1>1, <3>1, <3>3 DEF Orders
    <3> QED  BY <3>4, CreatedCounts DEF B, Outranks
  <2> QED  BY <2>2, <2>3
<1> QED  BY <1>4, <1>9, <1>10, <1>11 DEF C

\* The rows that the report has for tm.
LEMMA ListedRows ==
  ASSUME LedgerTypeOK, NEW u, NEW tm \in TeamsOf(u)
  PROVE  LET row(w) == [team |-> tm, user |-> w, created |-> TasksCreated(tm, w),
                        rank |-> RowNumber(tm, w)]
             listed == {x \in TopCreators(u) : x.team = tm}
         IN  /\ listed = {row(w) : w \in Listed(tm)}
             /\ Cardinality(listed) = Cardinality(Listed(tm))
<1> DEFINE row(w) == [team |-> tm, user |-> w, created |-> TasksCreated(tm, w),
                      rank |-> RowNumber(tm, w)]
           listed == {x \in TopCreators(u) : x.team = tm}
           f == [w \in Listed(tm) |-> row(w)]
<1>1. listed = {row(w) : w \in Listed(tm)}
  BY DEF TopCreators, Listed
<1>2. f \in Bijection(Listed(tm), listed)
  <2>1. f \in [Listed(tm) -> listed] /\ \A x \in listed : \E w \in Listed(tm) : f[w] = x
    BY <1>1
  <2>2. \A w, x \in Listed(tm) : f[w] = f[x] => w = x
    <3>1. \A w \in Listed(tm) : f[w].user = w
      OBVIOUS
    <3> QED  BY <3>1
  <2> QED  BY <2>1, <2>2 DEF Bijection, Injection, Surjection, IsInjective
<1>3. IsFiniteSet(Listed(tm))
  BY ListedRanks
<1>4. Cardinality(listed) = Cardinality(Listed(tm))
  BY <1>2, <1>3, FS_Bijection DEF ExistsBijection
<1> QED  BY <1>1, <1>4

LEMMA RankingOfLedger == LedgerSpec => []RankingIsFair
<1>1. LedgerTypeOK /\ HistoryTimeOrdered /\ TrailTells => RankingIsFair
  <2> SUFFICES ASSUME LedgerTypeOK, HistoryTimeOrdered, TrailTells,
                      NEW u \in Users, NEW tm \in TeamsOf(u)
               PROVE  RankingIsFair!(u)!(tm)
    BY DEF RankingIsFair
  <2> DEFINE row(w) == [team |-> tm, user |-> w, created |-> TasksCreated(tm, w),
                        rank |-> RowNumber(tm, w)]
             listed == {x \in TopCreators(u) : x.team = tm}
             logged(w) == Cardinality({t \in TasksOf(tm) :
                            history[t][1].by = w /\ history[t][1].at >= clock - CreatedDays})
  <2>1. /\ listed = {row(w) : w \in Listed(tm)}
        /\ Cardinality(listed) = Cardinality(Listed(tm))
    BY ListedRows
  <2>2. \A w : logged(w) = TasksCreated(tm, w)
    <3>1. \A t \in TasksOf(tm) : /\ history[t][1].by = tasks[t].creator
                                 /\ history[t][1].at = tasks[t].createdAt
      BY DEF TasksOf, TrailTells, HistoryTimeOrdered
    <3> SUFFICES ASSUME NEW w
                 PROVE  {t \in TasksOf(tm) :
                           history[t][1].by = w /\ history[t][1].at >= clock - CreatedDays}
                          = Created(tm, w)
      BY DEF TasksCreated
    <3> QED  BY <3>1 DEF Created
  <2> HIDE DEF logged, listed
  <2>a. /\ \A w : row(w).user = w /\ row(w).created = TasksCreated(tm, w)
                  /\ row(w).rank = RowNumber(tm, w)
        /\ \A w \in Listed(tm) : row(w) \in listed
        /\ \A x \in listed : \E w \in Listed(tm) : x = row(w)
    BY <2>1
  <2> HIDE DEF row
  <2>b. ASSUME NEW x \in listed
        PROVE  /\ x.user \in Listed(tm)
               /\ x.created = TasksCreated(tm, x.user) /\ x.rank = RowNumber(tm, x.user)
    BY <2>a
  <2>3. {x.rank : x \in listed} = 1 .. Cardinality(listed)
    <3>1. {x.rank : x \in listed} = {RowNumber(tm, w) : w \in Listed(tm)}
      BY <2>a, <2>b
    <3> QED  BY <3>1, <2>1, ListedRanks
  <2>4. Cardinality(listed) <= TopRanks
    BY <2>1, ListedRanks
  <2>5. \A x \in listed : x.created = logged(x.user) /\ x.created > 0
    BY <2>b, <2>2, CreatedCounts DEF Listed, Creators
  <2>6. ASSUME NEW w \in Users \ {x.user : x \in listed}
        PROVE  /\ \A x \in listed : logged(w) <= x.created
               /\ logged(w) > 0 => Cardinality(listed) = TopRanks
    <3>1. w \notin Listed(tm)
      BY <2>a
    <3>2. CASE w \in Creators(tm)
      <4>1. /\ Cardinality(Listed(tm)) = TopRanks
            /\ \A x \in Listed(tm) : TasksCreated(tm, w) <= TasksCreated(tm, x)
        BY <3>1, <3>2, ListedRanks
      <4> QED  BY <4>1, <2>1, <2>2, <2>b
    <3>3. CASE w \notin Creators(tm)
      <4>1. TasksCreated(tm, w) = 0
        BY <3>3, CreatedCounts DEF Creators
      <4>2. \A x \in listed : x.created > 0 /\ x.created \in Nat
        BY <2>b, <2>5, CreatedCounts
      <4> QED  BY <4>1, <4>2, <2>2
    <3> QED  BY <3>2, <3>3
  <2> QED  BY <2>3, <2>4, <2>5, <2>6 DEF listed, logged
<1> QED  BY <1>1, LedgerTypeCorrect, HistoryIsTimeOrdered, TrailTellsHolds, PTL

(* Every member of a team sees its ranks from 1 on without gap or tie, with   *)
(* the counts that the audit trail gives, and nobody who created more, or     *)
(* anything while there is a free rank, is left out.                          *)
THEOREM RankingIsFairHolds == ReportsSpec => []RankingIsFair
  BY ReportsReadTheLedger, RankingOfLedger, PTL

=============================================================================
