----------------------------- MODULE TaskPages -----------------------------
(***************************************************************************)
(* Offset pages, newest first: GET /tasks, with its COUNT, its SELECT and  *)
(* the cache of pages, and GET /tasks/{id}/history, which has neither      *)
(* COUNT nor cache.  A client walks from the first page on while others    *)
(* add rows, and rows leave a filtered list; or it asks for any page at    *)
(* all.  Rows are their ids; integers are Go ints of Bits bits.            *)
(***************************************************************************)
EXTENDS Integers, FiniteSets

CONSTANTS
  Ids,            \* row ids, in AUTO_INCREMENT order
  Filtered,       \* tasks may leave the list: it is filtered by status or assignee
  RawInts,        \* page and per_page as they arrive, 0 when absent
  Bits,           \* width of an int, 64 in the code
  DefaultPageSize, MaxPageSize,
  MaxCached,      \* bound on the cached pages
  NoPage

MaxInt == 2 ^ (Bits - 1) - 1

ASSUME IdsAssumption == Ids \subseteq Nat /\ IsFiniteSet(Ids)
ASSUME FilteredAssumption == Filtered \in BOOLEAN
ASSUME BitsAssumption == Bits \in Nat \ {0, 1}
ASSUME RawIntsAssumption == RawInts \subseteq -MaxInt - 1 .. MaxInt
ASSUME PageSizeAssumption ==
  /\ MaxPageSize \in 1 .. MaxInt
  /\ DefaultPageSize \in 1 .. MaxPageSize

VARIABLES
  listing,        \* what is listed, "tasks" or "history"; it never changes
  rows,           \* the rows that match now
  cache,          \* the pages under the current version, by page and per_page
  pc, page, size, \* the request being served
  answer,         \* the page it is building, or has answered with
  first, last,    \* history: the rows behind the first and the last page read
  seen,           \* history: the rows the walk has shown
  grew,           \* history: no page was older than the one before
  agreed          \* history: the COUNT of every page agreed with its SELECT

request == <<pc, page, size, answer>>
walk == <<first, last, seen, grew, agreed>>
table == <<listing, rows>>
vars == <<table, cache, request, walk>>

-----------------------------------------------------------------------------
Wrap(x) == ((x + MaxInt + 1) % (2 * (MaxInt + 1))) - (MaxInt + 1)

\* Faulty variant: a negative page is left as it is.
NormalPageNonzero(p) == IF p = 0 THEN 1 ELSE p

NormalPage(p) == IF p < 1 THEN 1 ELSE p

NormalSize(n) ==
  CASE n <= 0 -> DefaultPageSize
    [] n > MaxPageSize -> MaxPageSize
    [] OTHER -> n

\* Faulty variant: pages counted from 0.
OffsetFromZero == Wrap(page * size)

Offset == Wrap(Wrap(page - 1) * size)

\* ORDER BY id DESC LIMIT size OFFSET Offset.
Slice(from) == {t \in from : Cardinality({u \in from : u > t}) \in Offset .. Offset + size - 1}

\* A page is what its two statements saw: how many rows, and which.
Answers == [counted : 0 .. Cardinality(Ids), rows : SUBSET Ids]

Items == Slice(answer.rows)

\* Faulty variant: a full last page announces another one.
HasNextInclusive ==
  IF listing = "tasks" THEN Wrap(page * size) <= answer.counted
                       ELSE Cardinality(Items) = size

\* TaskPage.HasNext; a history says nothing, its client goes on to a short page.
HasNext ==
  IF listing = "tasks" THEN Wrap(page * size) < answer.counted
                       ELSE Cardinality(Items) = size

\* COUNT and SELECT of a page saw different tables.
Raced(a) == listing = "tasks" /\ a.counted # Cardinality(a.rows)

-----------------------------------------------------------------------------
Idle ==
  /\ pc' = "idle"
  /\ page' = 1 /\ size' = 1
  /\ answer' = NoPage
  /\ first' = {} /\ last' = {} /\ seen' = {}
  /\ grew' = TRUE /\ agreed' = TRUE

Ask ==
  /\ pc = "idle"
  /\ \E p, n \in RawInts : page' = NormalPage(p) /\ size' = NormalSize(n)
  /\ pc' = IF listing = "tasks" THEN "get" ELSE "select"
  /\ UNCHANGED <<table, cache, answer, walk>>

\* The client has its page: what the walk has shown so far.
Receive(a) ==
  /\ pc' = "answered"
  /\ answer' = a
  /\ first' = IF page = 1 THEN a.rows ELSE first
  /\ last' = a.rows
  /\ grew' = (grew /\ last \subseteq a.rows)
  /\ agreed' = (agreed /\ ~Raced(a))
  /\ seen' = seen \cup Slice(a.rows)
  /\ UNCHANGED <<page, size>>

Hit ==
  /\ pc = "get"
  /\ <<page, size>> \in DOMAIN cache
  /\ Receive(cache[<<page, size>>])
  /\ UNCHANGED <<table, cache>>

\* Also when GET fails.
Miss ==
  /\ pc = "get"
  /\ pc' = "count"
  /\ UNCHANGED <<table, cache, page, size, answer, walk>>

Count ==
  /\ pc = "count"
  /\ answer' = [counted |-> Cardinality(rows), rows |-> {}]
  /\ pc' = "select"
  /\ UNCHANGED <<table, cache, page, size, walk>>

\* A negative OFFSET is an error of MySQL, and a 5xx.
Select ==
  /\ pc = "select"
  /\ \/ /\ Offset < 0
        /\ pc' = "refused"
        /\ UNCHANGED <<page, size, answer, walk>>
     \/ /\ Offset >= 0 /\ listing = "tasks"
        /\ pc' = "set"
        /\ answer' = [answer EXCEPT !.rows = rows]
        /\ UNCHANGED <<page, size, walk>>
     \/ /\ Offset >= 0 /\ listing = "history"
        /\ Receive([counted |-> 0, rows |-> rows])
  /\ UNCHANGED <<table, cache>>

\* SetList stores under the version of now, so the page is found by the next;
\* a failure of SET is only logged.
Set ==
  /\ pc = "set"
  /\ \/ /\ Cardinality(DOMAIN cache \cup {<<page, size>>}) <= MaxCached
        /\ cache' = [k \in DOMAIN cache \cup {<<page, size>>} |->
                       IF k = <<page, size>> THEN answer ELSE cache[k]]
     \/ UNCHANGED cache
  /\ Receive(answer)
  /\ UNCHANGED table

NextPage ==
  /\ pc = "answered"
  /\ HasNext /\ page < MaxInt
  /\ page' = page + 1
  /\ pc' = IF listing = "tasks" THEN "get" ELSE "select"
  /\ answer' = NoPage
  /\ UNCHANGED <<table, cache, size, walk>>

\* After the last page, or an error, or because the client has enough.
Stop == pc # "idle" /\ Idle /\ UNCHANGED <<table, cache>>

-----------------------------------------------------------------------------
\* One task is created, or an update brings it into the filter; its id may be
\* older than those that are there, since ids are given before COMMIT. An
\* update of the listed task adds its entries at once and under the row lock.
Enter ==
  /\ \E s \in (SUBSET (Ids \ rows)) \ {{}} :
       /\ listing = "tasks" => Cardinality(s) = 1
       /\ listing = "history" => \A t \in s, u \in rows : t > u
       /\ rows' = rows \cup s
  /\ UNCHANGED <<listing, cache, request, walk>>

Leave ==
  /\ Filtered /\ listing = "tasks"
  /\ \E t \in rows : rows' = rows \ {t}
  /\ UNCHANGED <<listing, cache, request, walk>>

\* InvalidateTeam, at some time after the write that it is for, if at all.
InvalidateTeam ==
  /\ cache # [k \in {} |-> NoPage]
  /\ cache' = [k \in {} |-> NoPage]
  /\ UNCHANGED <<table, request, walk>>

Expire ==
  /\ \E k \in DOMAIN cache : cache' = [x \in DOMAIN cache \ {k} |-> cache[x]]
  /\ UNCHANGED <<table, request, walk>>

Init ==
  /\ listing \in {"tasks", "history"}
  /\ rows \in SUBSET Ids
  /\ cache = [k \in {} |-> NoPage]
  /\ pc = "idle" /\ page = 1 /\ size = 1 /\ answer = NoPage
  /\ first = {} /\ last = {} /\ seen = {}
  /\ grew = TRUE /\ agreed = TRUE

Serve == Ask \/ Hit \/ Miss \/ Count \/ Select \/ Set \/ NextPage \/ Stop

Next == Serve \/ Enter \/ Leave \/ InvalidateTeam \/ Expire

Spec == Init /\ [][Next]_vars

-----------------------------------------------------------------------------
TypeOK ==
  /\ listing \in {"tasks", "history"}
  /\ rows \subseteq Ids
  /\ \A k \in DOMAIN cache : k \in (1 .. MaxInt) \X (1 .. MaxPageSize) /\ cache[k] \in Answers
  /\ pc \in {"idle", "get", "count", "select", "set", "answered", "refused"}
  /\ page \in 1 .. MaxInt
  /\ size \in 1 .. MaxPageSize
  /\ answer \in Answers \cup {NoPage}
  /\ first \subseteq Ids /\ last \subseteq Ids /\ seen \subseteq Ids
  /\ grew \in BOOLEAN /\ agreed \in BOOLEAN

\* A walk that began with the first page has come to its end.
Walked == pc = "answered" /\ ~HasNext /\ first # {} /\ page <= MaxInt \div size

(* A walk shows every row that was there when it began, although the pages   *)
(* shift under it, unless a page was older than the one before it (a row has *)
(* left the filter, or one of them was cached and the other not), or a row   *)
(* came between COUNT and SELECT of the last page.                           *)
WalkIsComplete == Walked /\ grew /\ ~Raced(answer) => first \subseteq seen

(* When nothing changes, the walk of a task list has as many pages as the    *)
(* rows need: none is announced that is empty, and none is missing.          *)
WalkIsTight ==
  Walked /\ listing = "tasks" /\ grew /\ first = last /\ agreed
    => (page - 1) * size < Cardinality(first) /\ Cardinality(first) <= page * size

(* Any page whose end an int can count is answered, and is empty if and only *)
(* if it lies beyond the last row; only further pages can wrap around.       *)
FarPagesAreSafe ==
  /\ TypeOK
  /\ pc = "refused" => page > MaxInt \div size
  /\ pc = "answered" /\ page <= MaxInt \div size =>
       (Items = {} <=> (page - 1) * size >= Cardinality(answer.rows))

=============================================================================
