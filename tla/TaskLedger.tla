----------------------------- MODULE TaskLedger -----------------------------
(***************************************************************************)
(* What the task API promises about MySQL: a task changes only by a step  *)
(* that checks every permission against the current tables and writes the *)
(* row and its audit trail together. One atomic step per committed        *)
(* transaction of TaskRepository.Create and TaskRepository.Update, with   *)
(* the checks TaskService makes before them folded into the same instant. *)
(* TaskService.tla is the stepwise program that implements this.          *)
(***************************************************************************)
EXTENDS TeamMembers, Naturals, Sequences

CONSTANTS
  TaskIds,
  Titles,         \* trimmed, non-empty titles of at most 200 runes
  Descriptions,
  Truncate,       \* Truncate[d]: the first 500 runes of d
  NoUser,         \* assignee_id NULL
  NoTask,         \* no row with this id
  NoTime,         \* completed_at NULL
  MaxTime         \* bound on the clock

Statuses == {"todo", "in_progress", "done"}

Fields == {"title", "description", "status", "assignee_id"}

ValuesOf(f) ==
  CASE f = "title" -> Titles
    [] f = "description" -> Descriptions
    [] f = "status" -> Statuses
    [] f = "assignee_id" -> Users \cup {NoUser}

Values == UNION {ValuesOf(f) : f \in Fields}

\* The mutable columns of a row, by field name.
Contents == {v \in [Fields -> Values] : \A f \in Fields : v[f] \in ValuesOf(f)}

\* A TaskPatch: the fields it sets, with their values; never Empty().
Patches ==
  {p \in UNION {[D -> Values] : D \in (SUBSET Fields) \ {{}}} :
     \A f \in DOMAIN p : p[f] \in ValuesOf(f)}

Times == Nat

Rows == [team : Teams, creator : Users, val : Contents,
         createdAt : Times, updatedAt : Times, completedAt : Times \cup {NoTime}]

\* What one committed transaction leaves in task_history: all its rows share
\* changed_by, action and created_at, and there is one row per changed field.
Shown(f, v) == IF f = "description" THEN Truncate[v] ELSE v

ShownValues == UNION {{Shown(f, v) : v \in ValuesOf(f)} : f \in Fields}

Changes == [field : Fields, old : ShownValues, new : ShownValues]

Entries == [by : Users, action : {"created", "updated"}, at : Times, changes : SUBSET Changes]

ASSUME NoUserAssumption == NoUser \notin Users
ASSUME NoTaskAssumption == NoTask \notin Rows
ASSUME NoTimeAssumption == NoTime \notin Times

-----------------------------------------------------------------------------
VARIABLES
  tasks,          \* tasks[t]: the committed row, or NoTask
  history,        \* history[t]: the committed audit entries, in insertion order
  clock           \* time.Now() truncated to the second

ledgerVars == <<members, tasks, history, clock>>

Exists(t) == tasks[t] # NoTask

\* The task CompletedAt of a row whose status is s at time now.
CompletionTime(s, now) == IF s = "done" THEN now ELSE NoTime

NewRow(tm, u, v, now) ==
  [team |-> tm, creator |-> u, val |-> v, createdAt |-> now, updatedAt |-> now,
   completedAt |-> CompletionTime(v["status"], now)]

CreatedEntry(u, now) == [by |-> u, action |-> "created", at |-> now, changes |-> {}]

\* The fields buildHistory records: those the patch sets to another value.
Changed(val, p) == {f \in DOMAIN p : p[f] # val[f]}

\* Faulty variant: leaving "done" does not clear completed_at.
PatchedRowKeepsCompletion(row, p, now) ==
  [row EXCEPT
     !.val = [f \in Fields |-> IF f \in DOMAIN p THEN p[f] ELSE row.val[f]],
     !.updatedAt = now,
     !.completedAt = IF "status" \in Changed(row.val, p) /\ p["status"] = "done"
                       THEN now
                       ELSE row.completedAt]

\* Faulty variant: updated_at is not set.
PatchedRowUnstamped(row, p, now) ==
  [row EXCEPT
     !.val = [f \in Fields |-> IF f \in DOMAIN p THEN p[f] ELSE row.val[f]],
     !.completedAt = IF "status" \in Changed(row.val, p)
                       THEN CompletionTime(p["status"], now)
                       ELSE row.completedAt]

PatchedRow(row, p, now) ==
  [row EXCEPT
     !.val = [f \in Fields |-> IF f \in DOMAIN p THEN p[f] ELSE row.val[f]],
     !.updatedAt = now,
     !.completedAt = IF "status" \in Changed(row.val, p)
                       THEN CompletionTime(p["status"], now)
                       ELSE row.completedAt]

UpdatedEntry(row, p, u, now) ==
  [by |-> u, action |-> "updated", at |-> now,
   changes |-> {[field |-> f, old |-> Shown(f, row.val[f]), new |-> Shown(f, p[f])] :
                  f \in Changed(row.val, p)}]

\* The closure TaskService.Update hands to the repository.
MayUpdate(role, row, u, p) ==
  CanUpdateTask(DOMAIN p,
                [teamRole |-> role,
                 isCreator |-> row.creator = u,
                 isAssignee |-> row.val["assignee_id"] = u])

\* The assignee a body sets, if it sets one that is not null, is in the team.
AssigneeAllowed(tm, body) ==
  "assignee_id" \in DOMAIN body /\ body["assignee_id"] # NoUser
    => IsMember(tm, body["assignee_id"])

WriteCreate(t, tm, u, v, now) ==
  /\ tasks' = [tasks EXCEPT ![t] = NewRow(tm, u, v, now)]
  /\ history' = [history EXCEPT ![t] = <<CreatedEntry(u, now)>>]

WriteUpdate(t, row, u, p, now) ==
  /\ tasks' = [tasks EXCEPT ![t] = PatchedRow(row, p, now)]
  /\ history' = [history EXCEPT ![t] = Append(@, UpdatedEntry(row, p, u, now))]

-----------------------------------------------------------------------------
LedgerInit ==
  /\ MembersInit
  /\ tasks = [t \in TaskIds |-> NoTask]
  /\ history = [t \in TaskIds |-> <<>>]
  /\ clock = 0

ChangeTeams == MembersNext /\ UNCHANGED <<tasks, history, clock>>

Tick == clock < MaxTime /\ clock' = clock + 1 /\ UNCHANGED <<members, tasks, history>>

\* The stamp is a clock reading of the writing transaction, so at most clock; an
\* update's is taken under the row lock, so it is no older than the row's.
LedgerCreate(t, tm, u, v) ==
  /\ ~Exists(t)
  /\ IsMember(tm, u)
  /\ AssigneeAllowed(tm, v)
  /\ \E now \in 0 .. clock : WriteCreate(t, tm, u, v, now)
  /\ UNCHANGED <<members, clock>>

LedgerUpdate(t, u, p) ==
  /\ Exists(t)
  /\ IsMember(tasks[t].team, u)
  /\ AssigneeAllowed(tasks[t].team, p)
  /\ MayUpdate(Role(tasks[t].team, u), tasks[t], u, p)
  /\ Changed(tasks[t].val, p) # {}
  /\ \E now \in tasks[t].updatedAt .. clock : WriteUpdate(t, tasks[t], u, p, now)
  /\ UNCHANGED <<members, clock>>

\* The part of the row that fields D of a body have made.
NewValues(t, D) == [f \in D |-> tasks'[t].val[f]]

\* A write leaves a trace in the history and the row as the body says; so the
\* body is found in the row, and TLC need not try all bodies.
LedgerWrite ==
  \E t \in TaskIds :
    /\ history'[t] # history[t]
    /\ \E u \in Users :
         \/ \E tm \in Teams, v \in {tasks'[t].val} \cap Contents : LedgerCreate(t, tm, u, v)
         \/ \E p \in {NewValues(t, D) : D \in SUBSET Fields} \cap Patches : LedgerUpdate(t, u, p)

LedgerNext == ChangeTeams \/ Tick \/ LedgerWrite

(* Every committed write to tasks and task_history is one authorised,        *)
(* fully audited transaction: what TaskService and TaskRepository together   *)
(* promise, whatever requests run at once and whichever of them fail.        *)
LedgerSpec == LedgerInit /\ [][LedgerNext]_ledgerVars

-----------------------------------------------------------------------------
LedgerTypeOK ==
  /\ MembersTypeOK
  /\ tasks \in [TaskIds -> Rows \cup {NoTask}]
  /\ history \in [TaskIds -> Seq(Entries)]
  /\ clock \in Times

\* The rows of entry i of task t about field f: one if it changed f, else none.
Rewrites(t, i, f) == {c \in history[t][i].changes : c.field = f}

\* Field f is not touched by the entries of task t after entry i.
LastRewrite(t, i, f) ==
  \A k \in DOMAIN history[t] : i < k => Rewrites(t, k, f) = {}

(* The audit trail tells one story of the row: the new value of a change of  *)
(* a field is the old value of the next change of it, and the last new value *)
(* is what the row holds now (up to the 500 runes the trail keeps). A lost   *)
(* update between two transactions of TaskRepository.Update breaks it.       *)
AuditChain ==
  \A t \in TaskIds, f \in Fields :
    \A i \in DOMAIN history[t] : \A c \in Rewrites(t, i, f) :
      /\ \A j \in DOMAIN history[t] : \A d \in Rewrites(t, j, f) :
           /\ i < j
           /\ \A k \in DOMAIN history[t] : i < k /\ k < j => Rewrites(t, k, f) = {}
           => c.new = d.old
      /\ LastRewrite(t, i, f) => Exists(t) /\ c.new = Shown(f, tasks[t].val[f])

(* completed_at is the time of the transaction that last made the task done, *)
(* as the audit trail dates it, and NULL while the task is not done: leaving *)
(* done clears it, and other edits of a done task leave it alone.            *)
CompletedAtIsAudited ==
  \A t \in TaskIds : Exists(t) =>
    /\ tasks[t].completedAt # NoTime <=> tasks[t].val["status"] = "done"
    /\ tasks[t].completedAt # NoTime =>
         \A i \in DOMAIN history[t] :
           /\ i = 1 \/ Rewrites(t, i, "status") # {}
           /\ LastRewrite(t, i, "status")
           => history[t][i].at = tasks[t].completedAt

(* A task is never assigned to somebody outside its team, although the       *)
(* membership is checked before the transaction that writes assignee_id.     *)
AssigneeIsMember ==
  \A t \in TaskIds : Exists(t) =>
    \/ tasks[t].val["assignee_id"] = NoUser
    \/ IsMember(tasks[t].team, tasks[t].val["assignee_id"])

(* The trail of a task is in time order, its first entry is the creation and *)
(* its last one dates updated_at, although time.Now() is read well before    *)
(* COMMIT: it is read under the row lock.                                    *)
HistoryTimeOrdered ==
  \A t \in TaskIds :
    /\ Exists(t) <=> history[t] # <<>>
    /\ \A i, j \in DOMAIN history[t] : i < j => history[t][i].at <= history[t][j].at
    /\ Exists(t) => /\ history[t][1].action = "created"
                    /\ history[t][1].at = tasks[t].createdAt
                    /\ history[t][Len(history[t])].at = tasks[t].updatedAt

=============================================================================
