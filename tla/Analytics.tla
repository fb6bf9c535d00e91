----------------------------- MODULE Analytics -----------------------------
(***************************************************************************)
(* The three reports of AnalyticsRepository, each a single SELECT and so a *)
(* function of the committed tables, over the tables that TaskLedger lets  *)
(* change. They read the rows of tasks; what they are to say is told by    *)
(* the audit trail. A day is one tick of the clock.                        *)
(***************************************************************************)
EXTENDS TaskLedger, FiniteSets

CONSTANTS
  UserId,         \* UserId[u]: the number by which users are ordered
  DoneDays,       \* 7 days
  CreatedDays,    \* 30 days
  TopRanks,       \* 3 ranks
  Posts, Edits,   \* the bodies of the writes
  MaxEntries      \* bound on the audit entries of all tasks together

ASSUME UserIdAssumption ==
  UserId \in [Users -> Nat] /\ \A u, w \in Users : UserId[u] = UserId[w] => u = w
ASSUME BodiesAssumption == Posts \subseteq Contents /\ Edits \subseteq Patches
ASSUME FiniteAssumption == IsFiniteSet(TaskIds)
ASSUME WindowsAssumption == DoneDays \in Nat /\ CreatedDays \in Nat /\ TopRanks \in Nat \ {0}

TasksOf(tm) == {t \in TaskIds : Exists(t) /\ tasks[t].team = tm}

TeamsOf(u) == {tm \in Teams : IsMember(tm, u)}

-----------------------------------------------------------------------------
\* Faulty variant: an edit of a done task makes it count anew.
DoneRecentlyByUpdate(t) ==
  tasks[t].val["status"] = "done" /\ tasks[t].updatedAt >= clock - DoneDays

DoneRecently(t) ==
  tasks[t].val["status"] = "done" /\ tasks[t].completedAt >= clock - DoneDays

TeamSummary(u) ==
  {[team |-> tm,
    members |-> Cardinality({w \in Users : IsMember(tm, w)}),
    done |-> Cardinality({t \in TasksOf(tm) : DoneRecently(t)})] : tm \in TeamsOf(u)}

\* created_stats: the tasks that w created in tm within the window.
Created(tm, w) ==
  {t \in TasksOf(tm) : tasks[t].creator = w /\ tasks[t].createdAt >= clock - CreatedDays}

TasksCreated(tm, w) == Cardinality(Created(tm, w))

Creators(tm) == {w \in Users : Created(tm, w) # {}}

\* Faulty variant: RANK() in place of ROW_NUMBER(): equals share a rank.
RowNumberShared(tm, w) ==
  1 + Cardinality({x \in Creators(tm) : TasksCreated(tm, x) > TasksCreated(tm, w)})

\* ROW_NUMBER() OVER (ORDER BY tasks_created DESC, user_id ASC) in a team.
RowNumber(tm, w) ==
  1 + Cardinality({x \in Creators(tm) :
        \/ TasksCreated(tm, x) > TasksCreated(tm, w)
        \/ TasksCreated(tm, x) = TasksCreated(tm, w) /\ UserId[x] < UserId[w]})

TopCreators(u) ==
  UNION {{[team |-> tm, user |-> w, created |-> TasksCreated(tm, w), rank |-> RowNumber(tm, w)] :
            w \in {x \in Creators(tm) : RowNumber(tm, x) <= TopRanks}} : tm \in TeamsOf(u)}

\* Faulty variant: the LEFT JOIN looks the assignee up among all users.
InvalidAssigneesUnknown(rows, u) ==
  {t \in TaskIds :
     /\ Exists(t) /\ rows[tasks[t].team][u] # NoRole
     /\ tasks[t].val["assignee_id"] # NoUser
     /\ tasks[t].val["assignee_id"] \notin Users}

\* Faulty variant: NULL is not left out, and has no partner in the LEFT JOIN.
InvalidAssigneesOrNone(rows, u) ==
  {t \in TaskIds :
     /\ Exists(t) /\ rows[tasks[t].team][u] # NoRole
     /\ \/ tasks[t].val["assignee_id"] = NoUser
        \/ rows[tasks[t].team][tasks[t].val["assignee_id"]] = NoRole}

\* Over a member table, which may have been edited by hand: the LEFT JOIN finds
\* no row for the assignee, and NULL is no assignee.
InvalidAssignees(rows, u) ==
  {t \in TaskIds :
     /\ Exists(t) /\ rows[tasks[t].team][u] # NoRole
     /\ tasks[t].val["assignee_id"] # NoUser
     /\ rows[tasks[t].team][tasks[t].val["assignee_id"]] = NoRole}

-----------------------------------------------------------------------------
Write ==
  /\ \E t \in TaskIds, u \in Users :
       \/ \E tm \in Teams, d \in Posts : LedgerCreate(t, tm, u, d)
       \/ \E p \in Edits : LedgerUpdate(t, u, p)
  /\ Cardinality(UNION {{t} \X DOMAIN history'[t] : t \in TaskIds}) <= MaxEntries

ReportsNext == ChangeTeams \/ Tick \/ Write

ReportsSpec == LedgerInit /\ [][ReportsNext]_ledgerVars

-----------------------------------------------------------------------------
\* The audit entries that gave t a status: its creation and the changes of it.
StatusEntries(t) == {i \in DOMAIN history[t] : i = 1 \/ Rewrites(t, i, "status") # {}}

LastStatusEntry(t) == CHOOSE i \in StatusEntries(t) : LastRewrite(t, i, "status")

(* done_last_7_days counts the tasks of the team that the audit trail shows  *)
(* done for at most that long: an edit of a done task does not make it young *)
(* again, and one that was reopened and finished anew counts from the second *)
(* time.                                                                     *)
SummaryAgreesWithTrail ==
  \A u \in Users : \A s \in TeamSummary(u) :
    s.done = Cardinality({t \in TasksOf(s.team) :
               /\ tasks[t].val["status"] = "done"
               /\ history[t][LastStatusEntry(t)].at >= clock - DoneDays})

(* The members of a team see its ranks 1, 2, 3 without gap or tie, with the  *)
(* numbers of creations the trail dates within the window, and nobody who is *)
(* left out created more than somebody listed.                               *)
RankingIsFair ==
  \A u \in Users : \A tm \in TeamsOf(u) :
    LET listed == {x \in TopCreators(u) : x.team = tm}
        logged(w) == Cardinality({t \in TasksOf(tm) :
                       history[t][1].by = w /\ history[t][1].at >= clock - CreatedDays})
    IN
    /\ {x.rank : x \in listed} = 1 .. Cardinality(listed)
    /\ Cardinality(listed) <= TopRanks
    /\ \A x \in listed : x.created = logged(x.user) /\ x.created > 0
    /\ \A w \in Users \ {x.user : x \in listed} :
         /\ \A x \in listed : logged(w) <= x.created
         /\ logged(w) > 0 => Cardinality(listed) = TopRanks

(* The third report is about what only an edit by hand can bring about: as   *)
(* the API writes the tables it is empty, and if the row of one member were  *)
(* deleted it would list, for whoever else is in that team, that member's    *)
(* tasks there and no others: none of another team, none without an assignee *)
(* and none of another member.                                               *)
ForeignAssigneesAreReported ==
  \A u \in Users :
    /\ InvalidAssignees(members, u) = {}
    /\ \A tm \in TeamsOf(u), w \in Users \ {u} :
         InvalidAssignees([members EXCEPT ![tm][w] = NoRole], u) =
           {t \in TasksOf(tm) : tasks[t].val["assignee_id"] = w}

=============================================================================
