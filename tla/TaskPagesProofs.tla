-------------------------- MODULE TaskPagesProofs --------------------------
(***************************************************************************)
(* The offset pages of TaskPages, for any rows, pages and sizes and ints    *)
(* of any width. The place of a row is how many come before it; a row that  *)
(* comes can only push others further back.                                 *)
(***************************************************************************)
EXTENDS TaskPages, TaskLedgerProofs

-----------------------------------------------------------------------------
(* Offset pages: arithmetic, and the places of the rows *)

LEMMA MaxIntType ==
  /\ MaxInt \in Nat /\ MaxInt >= 1
  /\ MaxPageSize \in Nat /\ MaxPageSize <= MaxInt
  /\ DefaultPageSize \in 1 .. MaxPageSize
<1>1. MaxInt \in Int
  BY BitsAssumption DEF MaxInt
<1> QED  BY <1>1, PageSizeAssumption

LEMMA SmallRemainder ==
  ASSUME NEW b \in Nat, NEW x \in 0 .. b - 1
  PROVE  x % b = x
  OBVIOUS

LEMMA WrapSmall ==
  ASSUME NEW x \in 0 .. MaxInt
  PROVE  Wrap(x) = x
<1> DEFINE b == 2 * (MaxInt + 1)
           y == x + MaxInt + 1
<1>1. b \in Nat /\ y \in 0 .. b - 1 /\ y - (MaxInt + 1) = x
  BY MaxIntType
<1> HIDE DEF b, y
<1>2. y % b = y
  BY <1>1, SmallRemainder
<1> QED  BY <1>1, <1>2 DEF b, y, Wrap

\* Up to MaxInt \div n, page p of n rows ends before an int does.
LEMMA SmallPages ==
  ASSUME NEW p \in 1 .. MaxInt, NEW n \in 1 .. MaxPageSize, p <= MaxInt \div n
  PROVE  /\ p * n \in Nat /\ (p - 1) * n \in Nat /\ p * n = (p - 1) * n + n
         /\ Wrap(p * n) = p * n
         /\ Wrap(Wrap(p - 1) * n) = (p - 1) * n
<1>1. p \in Nat /\ n \in Nat \ {0} /\ MaxInt \in Nat
  BY MaxIntType
<1>2. p * n <= MaxInt
  BY <1>1
<1>3. p * n \in Nat /\ (p - 1) * n \in Nat /\ p * n = (p - 1) * n + n
  BY <1>1
<1>4. p * n \in 0 .. MaxInt /\ (p - 1) * n \in 0 .. MaxInt /\ p - 1 \in 0 .. MaxInt
  BY <1>1, <1>2, <1>3
<1>5. Wrap(p - 1) = p - 1 /\ Wrap(p * n) = p * n /\ Wrap((p - 1) * n) = (p - 1) * n
  BY <1>4, WrapSmall
<1> QED  BY <1>3, <1>5

\* How many rows of S come before row t.
Before(S, t) == Cardinality({u \in S : u > t})

Newer(S) == {b \in S \X S : b[1] > b[2]}

LEMMA RowsHavePlaces ==
  ASSUME NEW S \in SUBSET Ids
  PROVE  /\ IsFiniteSet(S) /\ Cardinality(S) \in 0 .. Cardinality(Ids)
         /\ Orders(Newer(S), S)
         /\ \A t \in S : /\ Before(S, t) = Place(S, Newer(S), t)
                         /\ Before(S, t) \in 0 .. Cardinality(S) - 1
<1>1. IsFiniteSet(S) /\ Cardinality(S) \in 0 .. Cardinality(Ids)
  <2>1. IsFiniteSet(Ids) /\ IsFiniteSet(S) /\ Cardinality(S) <= Cardinality(Ids)
    BY IdsAssumption, FS_Subset
  <2>2. Cardinality(S) \in Nat /\ Cardinality(Ids) \in Nat
    BY <2>1, FS_CardinalityType
  <2> QED  BY <2>1, <2>2
<1>2. \A x, y \in S : <<x, y>> \in Newer(S) <=> x > y
  BY DEF Newer
<1>3. \A x \in S : x \in Nat
  BY IdsAssumption
<1>4. Orders(Newer(S), S)
  BY <1>2, <1>3 DEF Orders
<1>5. \A t \in S : Before(S, t) = Place(S, Newer(S), t)
  BY <1>2 DEF Before, Place, Ahead
<1> QED  BY <1>1, <1>4, <1>5, PlacesFollowOrder

LEMMA MoreRowsBefore ==
  ASSUME NEW S \in SUBSET Ids, NEW T \in SUBSET Ids, S \subseteq T, NEW t
  PROVE  /\ Before(S, t) \in Nat /\ Before(T, t) \in Nat
         /\ Before(S, t) <= Before(T, t)
         /\ Cardinality(S) <= Cardinality(T)
<1> DEFINE s == {u \in S : u > t}
           r == {u \in T : u > t}
<1>1. IsFiniteSet(T) /\ IsFiniteSet(r) /\ IsFiniteSet(s) /\ s \subseteq r
  BY IdsAssumption, FS_Subset
<1>2. Cardinality(s) <= Cardinality(r) /\ Cardinality(S) <= Cardinality(T)
  BY <1>1, FS_Subset
<1> QED  BY <1>1, <1>2, FS_CardinalityType DEF Before

\* What a page that starts at row from holds.
LEMMA PageHolds ==
  ASSUME NEW S \in SUBSET Ids, NEW from \in Nat, NEW n \in Nat \ {0}
  PROVE  LET items == {t \in S : Before(S, t) \in from .. from + n - 1}
         IN  /\ items = {} <=> from >= Cardinality(S)
             /\ Cardinality(S) >= from + n => Cardinality(items) = n
<1> DEFINE items == {t \in S : Before(S, t) \in from .. from + n - 1}
<1>1. /\ IsFiniteSet(S) /\ Cardinality(S) \in Nat /\ Orders(Newer(S), S)
      /\ \A t \in S : /\ Before(S, t) = Place(S, Newer(S), t)
                      /\ Before(S, t) \in 0 .. Cardinality(S) - 1
  BY RowsHavePlaces, FS_CardinalityType
<1>2. CASE from >= Cardinality(S)
  BY <1>1, <1>2
<1>3. CASE from < Cardinality(S)
  <2>1. PICK t \in S : Place(S, Newer(S), t) = from
    <3>1. from \in 0 .. Cardinality(S) - 1
      BY <1>1, <1>3
    <3> QED  BY <1>1, <3>1, PlacesAreTaken
  <2>2. t \in items
    BY <1>1, <2>1
  <2>3. ASSUME Cardinality(S) >= from + n PROVE Cardinality(items) = n
    <3> DEFINE P == from .. from + n - 1
    <3>1. P \subseteq 0 .. Cardinality(S) - 1
      BY <1>1, <2>3
    <3>2. Cardinality({x \in S : Place(S, Newer(S), x) \in P}) = Cardinality(P)
      BY <1>1, <3>1, PlacesCount
    <3>3. items = {x \in S : Place(S, Newer(S), x) \in P}
      BY <1>1
    <3>4. Cardinality(P) = n
      BY FS_Interval
    <3> QED  BY <3>2, <3>3, <3>4
  <2> QED  BY <1>1, <1>3, <2>2, <2>3
<1> QED  BY <1>1, <1>2, <1>3

-----------------------------------------------------------------------------
(* The walk of a client *)

PagesRead == IF pc = "answered" THEN page ELSE page - 1

AnswersAreReady ==
  pc \in {"set", "answered"} \/ (pc = "select" /\ listing = "tasks") => answer \in Answers

AnswerIsLast == pc = "answered" => last = answer.rows /\ (agreed => ~Raced(answer))

\* Of the rows of the first page, those before the next page have been shown.
ShownSoFar ==
  first # {} /\ grew /\ PagesRead <= MaxInt \div size =>
    /\ first \subseteq last
    /\ \A t \in first : Before(last, t) < PagesRead * size => t \in seen

\* The page before announced this one.
PageWasAnnounced ==
  first # {} /\ grew /\ agreed /\ listing = "tasks" /\ page <= MaxInt \div size =>
    page = 1 \/ (page - 1) * size < Cardinality(last)

PagesInv ==
  /\ TypeOK /\ AnswersAreReady /\ AnswerIsLast
  /\ pc = "idle" => first = {}
  /\ pc = "refused" => page > MaxInt \div size
  /\ ShownSoFar /\ PageWasAnnounced

LEMMA PagesInit == Init => PagesInv
  BY MaxIntType
     DEF Init, PagesInv, TypeOK, AnswersAreReady, AnswerIsLast, ShownSoFar, PageWasAnnounced

\* Wherever the page comes from, the client has it.
LEMMA ReceiveStep ==
  ASSUME PagesInv, NEW a \in Answers, Receive(a), UNCHANGED table, TypeOK',
         pc \in {"get", "select", "set"}
  PROVE  PagesInv'
<1>1. /\ pc' = "answered" /\ answer' = a /\ last' = a.rows
      /\ first' = IF page = 1 THEN a.rows ELSE first
      /\ grew' = (grew /\ last \subseteq a.rows)
      /\ agreed' = (agreed /\ ~Raced(a))
      /\ seen' = seen \cup Slice(a.rows)
      /\ page' = page /\ size' = size /\ listing' = listing
  BY DEF Receive, table
<1>2. /\ page \in 1 .. MaxInt /\ size \in 1 .. MaxPageSize /\ MaxInt \in Nat
      /\ page \in Nat \ {0} /\ size \in Nat \ {0}
      /\ first \subseteq Ids /\ last \subseteq Ids /\ a.rows \subseteq Ids
  BY MaxIntType DEF PagesInv, TypeOK, Answers
<1>3. AnswersAreReady' /\ AnswerIsLast'
  BY <1>1 DEF AnswersAreReady, AnswerIsLast, Raced
<1>4. ShownSoFar'
  <2> SUFFICES ASSUME first' # {}, grew, last \subseteq a.rows, page <= MaxInt \div size
               PROVE  /\ first' \subseteq a.rows
                      /\ \A t \in first' : Before(a.rows, t) < page * size => t \in seen'
    BY <1>1 DEF ShownSoFar, PagesRead
  <2>1. Offset = (page - 1) * size /\ (page - 1) * size \in Nat /\ page * size \in Nat
        /\ page * size = (page - 1) * size + size
    BY <1>2, SmallPages DEF Offset
  <2>2. \A t \in a.rows : Before(a.rows, t) \in Nat
    BY <1>2, MoreRowsBefore
  <2>3. Slice(a.rows) =
          {t \in a.rows : Before(a.rows, t) \in (page - 1) * size .. page * size - 1}
    BY <2>1, <1>2 DEF Slice, Before
  <2>4. CASE page = 1
    <3>1. (page - 1) * size = 0
      BY <2>4, <1>2
    <3> QED  BY <3>1, <2>4, <2>1, <2>2, <2>3, <1>1
  <2>5. CASE page # 1
    <3>1. first' = first /\ PagesRead = page - 1 /\ page - 1 <= MaxInt \div size
      BY <2>5, <1>1, <1>2 DEF PagesRead
    <3>2. /\ first \subseteq last
          /\ \A t \in first : Before(last, t) < (page - 1) * size => t \in seen
      BY <3>1 DEF PagesInv, ShownSoFar
    <3>3. ASSUME NEW t \in first, Before(a.rows, t) < page * size
          PROVE  t \in seen'
      <4>1. Before(last, t) \in Nat /\ Before(a.rows, t) \in Nat
            /\ Before(last, t) <= Before(a.rows, t)
        BY <1>2, MoreRowsBefore
      <4>2. CASE Before(a.rows, t) < (page - 1) * size
        BY <4>1, <4>2, <3>2, <2>1, <1>1
      <4>3. CASE Before(a.rows, t) >= (page - 1) * size
        BY <4>1, <4>3, <3>3, <3>2, <2>1, <2>3, <1>1
      <4> QED  BY <4>1, <4>2, <4>3, <2>1
    <3> QED  BY <3>1, <3>2, <3>3
  <2> QED  BY <2>4, <2>5
<1>5. PageWasAnnounced'
  <2> SUFFICES ASSUME first' # {}, grew, last \subseteq a.rows, agreed, listing = "tasks",
                      page <= MaxInt \div size, page # 1
               PROVE  (page - 1) * size < Cardinality(a.rows)
    BY <1>1 DEF PageWasAnnounced
  <2>1. (page - 1) * size < Cardinality(last)
    BY <1>1 DEF PagesInv, PageWasAnnounced
  <2>2. Cardinality(last) <= Cardinality(a.rows)
    BY <1>2, MoreRowsBefore
  <2>3. Cardinality(last) \in Nat /\ Cardinality(a.rows) \in Nat /\ (page - 1) * size \in Nat
    BY <1>2, RowsHavePlaces, SmallPages, FS_CardinalityType
  <2> QED  BY <2>1, <2>2, <2>3
<1> QED  BY <1>1, <1>3, <1>4, <1>5 DEF PagesInv

LEMMA ReceiveType ==
  ASSUME TypeOK, NEW a \in Answers, Receive(a), UNCHANGED table, UNCHANGED cache
  PROVE  TypeOK'
<1>1. a.rows \subseteq Ids /\ Slice(a.rows) \subseteq a.rows
  BY DEF Answers, Slice
<1> QED  BY <1>1 DEF Receive, TypeOK, table

LEMMA SetType ==
  ASSUME PagesInv, Set
  PROVE  TypeOK' /\ answer \in Answers
<1>1. answer \in Answers
  BY DEF Set, PagesInv, AnswersAreReady
<1>2. answer.rows \subseteq Ids /\ Slice(answer.rows) \subseteq answer.rows
  BY <1>1 DEF Answers, Slice
<1>3. \A k \in DOMAIN cache' :
        k \in (1 .. MaxInt) \X (1 .. MaxPageSize) /\ cache'[k] \in Answers
  <2>1. CASE cache' = [k \in DOMAIN cache \cup {<<page, size>>} |->
                         IF k = <<page, size>> THEN answer ELSE cache[k]]
    BY <2>1, <1>1 DEF PagesInv, TypeOK
  <2>2. CASE UNCHANGED cache
    BY <2>2 DEF PagesInv, TypeOK
  <2> QED  BY <2>1, <2>2 DEF Set
<1>4. Receive(answer) /\ UNCHANGED table
  BY DEF Set
<1> QED  BY <1>1, <1>2, <1>3, <1>4 DEF Receive, PagesInv, TypeOK, table

\* What others do leaves the request and the walk alone.
LEMMA OthersStep ==
  ASSUME PagesInv, Enter \/ Leave \/ InvalidateTeam \/ Expire
  PROVE  PagesInv'
<1>1. UNCHANGED <<request, walk, listing>>
  BY DEF Enter, Leave, InvalidateTeam, Expire, table
<1>2. rows' \subseteq Ids
  BY DEF Enter, Leave, InvalidateTeam, Expire, table, PagesInv, TypeOK
<1>3. \A k \in DOMAIN cache' : k \in DOMAIN cache /\ cache'[k] = cache[k]
  BY DEF Enter, Leave, InvalidateTeam, Expire
<1>4. TypeOK'
  BY <1>1, <1>2, <1>3 DEF PagesInv, TypeOK, request, walk
<1> QED  BY <1>1, <1>4
         DEF PagesInv, AnswersAreReady, AnswerIsLast, Raced, ShownSoFar, PagesRead,
             PageWasAnnounced, Before, request, walk

LEMMA PagesStep == PagesInv /\ [Next]_vars => PagesInv'
<1> SUFFICES ASSUME PagesInv, [Next]_vars PROVE PagesInv'
  OBVIOUS
<1>a. TypeOK /\ MaxInt \in Nat /\ MaxInt >= 1 /\ MaxPageSize \in Nat
      /\ DefaultPageSize \in 1 .. MaxPageSize
  BY MaxIntType DEF PagesInv
<1>b. /\ page \in 1 .. MaxInt /\ size \in 1 .. MaxPageSize
      /\ page \in Nat \ {0} /\ size \in Nat \ {0}
  BY <1>a DEF TypeOK
<1>1. CASE Ask
  <2>1. first = {} /\ first' = {} /\ pc' \in {"get", "select"} /\ listing' = listing
        /\ (listing = "tasks" => pc' = "get")
    BY <1>1 DEF Ask, PagesInv, table, walk
  <2>2. page' \in 1 .. MaxInt /\ size' \in 1 .. MaxPageSize
    BY <1>1, <1>a, RawIntsAssumption DEF Ask, NormalPage, NormalSize
  <2>3. TypeOK'
    BY <1>1, <1>a, <2>1, <2>2 DEF Ask, TypeOK, table, walk
  <2> QED  BY <2>1, <2>3
           DEF PagesInv, AnswersAreReady, AnswerIsLast, ShownSoFar, PageWasAnnounced
<1>2. CASE Hit
  <2>1. cache[<<page, size>>] \in Answers
    BY <1>2 DEF Hit, PagesInv, TypeOK
  <2>2. Receive(cache[<<page, size>>]) /\ UNCHANGED table /\ UNCHANGED cache /\ pc = "get"
    BY <1>2 DEF Hit
  <2> QED  BY <1>a, <2>1, <2>2, ReceiveType, ReceiveStep
<1>3. CASE Miss \/ Count
  <2>1. UNCHANGED <<table, cache, page, size, walk>> /\ pc \in {"get", "count"}
        /\ pc' \in {"count", "select"} /\ (pc' = "select" => answer' \in Answers)
        /\ answer' \in Answers \cup {NoPage}
    <3>1. [counted |-> Cardinality(rows), rows |-> {}] \in Answers
      BY <1>a, RowsHavePlaces DEF TypeOK, Answers
    <3> QED  BY <1>3, <1>a, <3>1 DEF Miss, Count, TypeOK
  <2>2. TypeOK'
    BY <1>a, <2>1 DEF TypeOK, table, walk
  <2> QED  BY <2>1, <2>2
           DEF PagesInv, AnswersAreReady, AnswerIsLast, ShownSoFar, PagesRead,
               PageWasAnnounced, Before, table, walk
<1>4. CASE Select
  <2>1. CASE Offset < 0 /\ pc' = "refused" /\ UNCHANGED <<page, size, answer, walk>>
    <3>1. UNCHANGED <<table, cache>> /\ pc = "select"
      BY <1>4 DEF Select
    <3>2. page > MaxInt \div size
      <4>1. page <= MaxInt \div size => Offset = (page - 1) * size /\ (page - 1) * size \in Nat
        BY <1>b, SmallPages DEF Offset
      <4>2. MaxInt \div size \in Nat
        BY <1>a, <1>b
      <4> QED  BY <1>b, <2>1, <4>1, <4>2
    <3>3. TypeOK'
      BY <1>a, <2>1, <3>1 DEF TypeOK, table, walk
    <3> QED  BY <2>1, <3>1, <3>2, <3>3
             DEF PagesInv, AnswersAreReady, AnswerIsLast, ShownSoFar, PagesRead,
                 PageWasAnnounced, Before, table, walk
  <2>2. CASE listing = "tasks" /\ pc' = "set" /\ answer' = [answer EXCEPT !.rows = rows]
             /\ UNCHANGED <<page, size, walk>>
    <3>1. UNCHANGED <<table, cache>> /\ pc = "select" /\ rows \subseteq Ids
      BY <1>4, <1>a DEF Select, TypeOK
    <3>2. answer' \in Answers
      <4>1. answer \in Answers
        BY <2>2, <3>1 DEF PagesInv, AnswersAreReady
      <4> QED  BY <2>2, <3>1, <4>1 DEF Answers
    <3>3. TypeOK'
      BY <1>a, <2>2, <3>1, <3>2 DEF TypeOK, table, walk
    <3> QED  BY <2>2, <3>1, <3>2, <3>3
             DEF PagesInv, AnswersAreReady, AnswerIsLast, ShownSoFar, PagesRead,
                 PageWasAnnounced, Before, table, walk
  <2>3. CASE Receive([counted |-> 0, rows |-> rows])
    <3> DEFINE a == [counted |-> 0, rows |-> rows]
    <3>1. a \in Answers
      <4>1. Cardinality(Ids) \in Nat
        BY IdsAssumption, FS_CardinalityType
      <4> QED  BY <1>a, <4>1 DEF TypeOK, Answers
    <3>2. Receive(a) /\ UNCHANGED table /\ UNCHANGED cache /\ pc = "select"
      BY <1>4, <2>3 DEF Select
    <3> HIDE DEF a
    <3> QED  BY <1>a, <3>1, <3>2, ReceiveType, ReceiveStep
  <2> QED  BY <1>4, <2>1, <2>2, <2>3 DEF Select
<1>5. CASE Set
  <2>1. TypeOK' /\ answer \in Answers
    BY <1>5, SetType
  <2>2. Receive(answer) /\ UNCHANGED table /\ pc = "set"
    BY <1>5 DEF Set
  <2> QED  BY <2>1, <2>2, ReceiveStep
<1>6. CASE NextPage
  <2>1. /\ pc = "answered" /\ HasNext /\ page < MaxInt /\ page' = page + 1 /\ answer' = NoPage
        /\ pc' = IF listing = "tasks" THEN "get" ELSE "select"
        /\ UNCHANGED <<table, cache, size, walk>>
    BY <1>6 DEF NextPage
  <2>2. TypeOK'
    BY <1>a, <1>b, <2>1 DEF TypeOK, table, walk
  <2>3. AnswersAreReady' /\ AnswerIsLast'
    BY <2>1 DEF AnswersAreReady, AnswerIsLast, table
  <2>4. ShownSoFar'
    <3>1. PagesRead' = PagesRead
      BY <2>1, <1>b DEF PagesRead
    <3> QED  BY <2>1, <3>1 DEF PagesInv, ShownSoFar, Before, walk
  <2>5. PageWasAnnounced'
    <3>0. page' - 1 = page /\ size' = size
      BY <2>1, <1>b
    <3> SUFFICES ASSUME agreed, listing = "tasks", page + 1 <= MaxInt \div size
                 PROVE  page * size < Cardinality(last)
      BY <2>1, <3>0 DEF PageWasAnnounced, table, walk
    <3>1. MaxInt \div size \in Nat /\ page <= MaxInt \div size
      BY <1>a, <1>b
    <3>2. Wrap(page * size) = page * size
      BY <1>b, <3>1, SmallPages
    <3>3. page * size < answer.counted
      BY <2>1, <3>2 DEF HasNext
    <3>4. answer.counted = Cardinality(last)
      BY <2>1 DEF PagesInv, AnswerIsLast, Raced
    <3> QED  BY <3>1, <3>3, <3>4
  <2> QED  BY <2>1, <2>2, <2>3, <2>4, <2>5 DEF PagesInv
<1>7. CASE Stop
  <2>1. /\ pc' = "idle" /\ page' = 1 /\ size' = 1 /\ first' = {}
        /\ TypeOK'
    BY <1>7, <1>a DEF Stop, Idle, TypeOK, table
  <2> QED  BY <2>1
           DEF PagesInv, AnswersAreReady, AnswerIsLast, ShownSoFar, PageWasAnnounced
<1>8. CASE UNCHANGED vars
  BY <1>8
     DEF vars, table, request, walk, PagesInv, TypeOK, AnswersAreReady, AnswerIsLast, Raced,
         ShownSoFar, PagesRead, PageWasAnnounced, Before
<1>9. CASE Enter \/ Leave \/ InvalidateTeam \/ Expire
  BY <1>9, OthersStep
<1> QED  BY <1>1, <1>2, <1>3, <1>4, <1>5, <1>6, <1>7, <1>8, <1>9 DEF Next, Serve

THEOREM PagesInvHolds == Spec => []PagesInv
  BY PagesInit, PagesStep, PTL DEF Spec

\* What holds of an answer that begins before an int ends.
LEMMA AnsweredPage ==
  ASSUME PagesInv, pc = "answered", page <= MaxInt \div size
  PROVE  /\ page \in Nat \ {0} /\ size \in Nat \ {0}
         /\ last = answer.rows /\ last \in SUBSET Ids
         /\ Cardinality(last) \in Nat /\ IsFiniteSet(last)
         /\ (page - 1) * size \in Nat /\ page * size \in Nat
         /\ page * size = (page - 1) * size + size
         /\ Items = {t \in last : Before(last, t) \in (page - 1) * size
                                                       .. (page - 1) * size + size - 1}
         /\ listing = "tasks" /\ ~HasNext => page * size >= answer.counted
         /\ answer.counted \in Nat
<1>1. page \in 1 .. MaxInt /\ size \in 1 .. MaxPageSize /\ MaxInt \in Nat
  BY MaxIntType DEF PagesInv, TypeOK
<1>2. page \in Nat \ {0} /\ size \in Nat \ {0}
  BY <1>1, MaxIntType
<1>3. last = answer.rows /\ answer \in Answers
  BY DEF PagesInv, AnswerIsLast, AnswersAreReady
<1>4. last \in SUBSET Ids /\ answer.counted \in Nat
  BY <1>3, IdsAssumption, FS_CardinalityType DEF Answers
<1>5. Cardinality(last) \in Nat /\ IsFiniteSet(last)
  BY <1>4, RowsHavePlaces, FS_CardinalityType
<1>6. /\ (page - 1) * size \in Nat /\ page * size \in Nat
      /\ page * size = (page - 1) * size + size
      /\ Offset = (page - 1) * size /\ Wrap(page * size) = page * size
  BY <1>1, SmallPages DEF Offset
<1>7. Items = {t \in last : Before(last, t) \in (page - 1) * size
                                                 .. (page - 1) * size + size - 1}
  BY <1>3, <1>6 DEF Items, Slice, Before
<1>8. listing = "tasks" /\ ~HasNext => page * size >= answer.counted
  BY <1>4, <1>6 DEF HasNext
<1> QED  BY <1>2, <1>3, <1>4, <1>5, <1>6, <1>7, <1>8

(* A page whose end an int can count is never refused, and is empty exactly   *)
(* when it lies beyond the last row.                                          *)
THEOREM FarPagesAreSafeHolds == Spec => []FarPagesAreSafe
<1>1. PagesInv => FarPagesAreSafe
  <2> SUFFICES ASSUME PagesInv, pc = "answered", page <= MaxInt \div size
               PROVE  Items = {} <=> (page - 1) * size >= Cardinality(answer.rows)
    BY DEF FarPagesAreSafe, PagesInv
  <2> DEFINE from == (page - 1) * size
             items == {t \in last : Before(last, t) \in from .. from + size - 1}
  <2>1. /\ last \in SUBSET Ids /\ from \in Nat /\ size \in Nat \ {0}
        /\ last = answer.rows /\ Items = items
    BY AnsweredPage
  <2> HIDE DEF from
  <2>2. items = {} <=> from >= Cardinality(last)
    BY <2>1, PageHolds
  <2> QED  BY <2>1, <2>2 DEF from
<1> QED  BY <1>1, PagesInvHolds, PTL

(* A walk to the last page misses no row that was there when it began, unless *)
(* a page was older than the one before, or COUNT and SELECT disagreed.       *)
THEOREM WalkIsCompleteHolds == Spec => []WalkIsComplete
<1>1. PagesInv => WalkIsComplete
  <2> SUFFICES ASSUME PagesInv, pc = "answered", ~HasNext, first # {},
                      page <= MaxInt \div size, grew, ~Raced(answer)
               PROVE  first \subseteq seen
    BY DEF WalkIsComplete, Walked
  <2>1. /\ first \subseteq last
        /\ \A t \in first : Before(last, t) < page * size => t \in seen
    BY DEF PagesInv, ShownSoFar, PagesRead
  <2>2. Cardinality(last) <= page * size
    <3>1. CASE listing = "tasks"
      BY <3>1, AnsweredPage DEF Raced
    <3>2. CASE listing # "tasks"
      <4>1. Cardinality(Items) # size
        BY <3>2 DEF HasNext
      <4> DEFINE from == (page - 1) * size
      <4>2. Cardinality(last) >= from + size => Cardinality(Items) = size
        BY AnsweredPage, PageHolds
      <4> QED  BY <4>1, <4>2, AnsweredPage
    <3> QED  BY <3>1, <3>2
  <2>3. \A t \in first : Before(last, t) < page * size
    <3>1. \A t \in last : Before(last, t) \in 0 .. Cardinality(last) - 1
      BY AnsweredPage, RowsHavePlaces
    <3> QED  BY <2>1, <2>2, <3>1, AnsweredPage
  <2> QED  BY <2>1, <2>3
<1> QED  BY <1>1, PagesInvHolds, PTL

(* While nothing changes a task list takes as many pages as its rows need.    *)
THEOREM WalkIsTightHolds == Spec => []WalkIsTight
<1>1. PagesInv => WalkIsTight
  <2> SUFFICES ASSUME PagesInv, pc = "answered", ~HasNext, first # {},
                      page <= MaxInt \div size, listing = "tasks", grew, first = last, agreed
               PROVE  (page - 1) * size < Cardinality(last) /\ Cardinality(last) <= page * size
    BY DEF WalkIsTight, Walked
  <2>1. Cardinality(last) <= page * size
    <3>1. answer.counted = Cardinality(last)
      BY DEF PagesInv, AnswerIsLast, Raced
    <3> QED  BY <3>1, AnsweredPage
  <2>2. CASE page = 1
    <3>1. Cardinality(last) > 0
      BY AnsweredPage, FS_EmptySet
    <3>2. (page - 1) * size = 0
      BY <2>2, AnsweredPage
    <3> QED  BY <2>1, <3>1, <3>2
  <2>3. CASE page # 1
    BY <2>1, <2>3 DEF PagesInv, PageWasAnnounced
  <2> QED  BY <2>2, <2>3
<1> QED  BY <1>1, PagesInvHolds, PTL

=============================================================================
