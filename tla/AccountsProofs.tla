--------------------------- MODULE AccountsProofs ---------------------------
(***************************************************************************)
(* The accounts for any slots, ids, addresses, names, passwords, clock and *)
(* any normalisation and collation whatever: nothing is assumed of         *)
(* LowerTrim, Trim and Collate. The argument: a row, once inserted, is     *)
(* never touched again, and no two rows collate alike. So a slot may hold  *)
(* an id across calls, and the row that a lookup by collation finds is the *)
(* one row whose address is the one that was typed.                        *)
(***************************************************************************)
EXTENDS Accounts, TLAPS

RowOf(f) == [email |-> f.email, name |-> f.name, hash |-> f.password]

Registrations == [email : Emails, name : Names, password : Passwords]

Distinct ==
  \A i, j \in Ids : Exists(i) /\ Exists(j) /\ i # j =>
    /\ Collate[users[i].email] # Collate[users[j].email]
    /\ Collate[users[i].name] # Collate[users[j].name]

\* The row that r has inserted, and the one that its lookup has found.
Holds(r) ==
  /\ pc[r] \in {"insert", "reread", "created"} => form[r] \in Registrations
  /\ pc[r] \in {"reread", "created"} => id[r] \in Ids /\ users[id[r]] = RowOf(form[r])
  /\ pc[r] = "compare" => id[r] \in Ids /\ Matches(id[r], form[r])

\* The account that a right login was made for.
LoginOf(i, f) == Exists(i) /\ users[i].email = f.email /\ users[i].hash = f.password

Knows(r) ==
  known[r] =>
    /\ pc[r] \in {"lookup", "compare", "token", "error"}
    /\ \E i \in Ids : LoginOf(i, form[r])

\* No token outlives the last login of its user by more than TTL.
TokensAreFresh ==
  /\ \A t \in tokens : lastLogin[t.user] # NoTime /\ t.exp <= lastLogin[t.user] + TTL
  /\ \A i \in Ids : lastLogin[i] # NoTime => lastLogin[i] <= clock

AInv == TypeOK /\ Distinct /\ (\A r \in Reqs : Holds(r) /\ Knows(r)) /\ TokensAreFresh

-----------------------------------------------------------------------------
LEMMA InitAInv == Init => AInv
  BY DEF Init, AInv, TypeOK, Distinct, Holds, Knows, TokensAreFresh, Exists

\* A row that is there is there for good.
RowsStay == \A i \in Ids : Exists(i) => users'[i] = users[i]

LEMMA RowIsNoNull == \A row \in Rows : row # NoRow
  BY NullAssumption

LEMMA InsertedKeeps ==
  ASSUME AInv, NEW r \in Reqs, pc[r] = "insert", NEW i \in Ids, Inserted(r, i)
  PROVE  /\ users' \in [Ids -> Rows \cup {NoRow}]
         /\ users'[i] = RowOf(form[r])
         /\ RowsStay
         /\ Distinct'
<1>1. form[r] \in Registrations
  BY DEF AInv, Holds
<1>2. RowOf(form[r]) \in Rows
  BY <1>1 DEF Registrations, RowOf, Rows
<1>3. users \in [Ids -> Rows \cup {NoRow}] /\ users' = [users EXCEPT ![i] = RowOf(form[r])]
  BY DEF AInv, TypeOK, Inserted, RowOf
<1>4. users'[i] = RowOf(form[r]) /\ \A j \in Ids \ {i} : users'[j] = users[j]
  BY <1>3
<1>5. RowsStay
  BY <1>4 DEF RowsStay, Inserted
<1>6. \A j \in Ids \ {i} : Exists(j) =>
        /\ Collate[users[j].email] # Collate[users'[i].email]
        /\ Collate[users[j].name] # Collate[users'[i].name]
  BY <1>4 DEF Inserted, Taken, RowOf
<1>7. Distinct'
  BY <1>4, <1>6 DEF AInv, Distinct, Exists
<1> QED  BY <1>2, <1>3, <1>4, <1>5, <1>7

LEMMA UsersUnchanged ==
  ASSUME AInv, UNCHANGED users
  PROVE  users' \in [Ids -> Rows \cup {NoRow}] /\ RowsStay /\ Distinct'
  BY DEF AInv, TypeOK, RowsStay, Distinct, Exists

\* What a slot knows and holds stays so while others move.
LEMMA OthersKeep ==
  ASSUME RowsStay, NEW s \in Reqs, Holds(s), Knows(s),
         pc'[s] = pc[s], form'[s] = form[s], id'[s] = id[s], known'[s] = known[s],
         users \in [Ids -> Rows \cup {NoRow}]
  PROVE  Holds(s)' /\ Knows(s)'
<1>1. pc[s] \in {"reread", "created"} => Exists(id[s])
  BY RowIsNoNull DEF Holds, RowOf, Registrations, Rows, Exists
<1>2. Holds(s)'
  BY <1>1 DEF Holds, RowsStay, Matches, Exists
<1>3. Knows(s)'
  BY DEF Knows, RowsStay, LoginOf, Exists
<1> QED  BY <1>2, <1>3

\* One step of slot r, told by what it does to the rows and to r.
Steps(r) ==
  /\ users' \in [Ids -> Rows \cup {NoRow}] /\ RowsStay /\ Distinct'
  /\ pc' = [pc EXCEPT ![r] = pc'[r]] /\ form' = [form EXCEPT ![r] = form'[r]]
  /\ id' = [id EXCEPT ![r] = id'[r]] /\ known' = [known EXCEPT ![r] = known'[r]]
  /\ pc'[r] \in {"idle", "insert", "reread", "lookup", "compare"} \cup Answers
  /\ form'[r] \in Forms \cup {NoForm}
  /\ id'[r] \in Ids \cup {NoId}
  /\ known'[r] \in BOOLEAN
  /\ Holds(r)' /\ Knows(r)'

LEMMA StepsKeep ==
  ASSUME AInv, NEW r \in Reqs, Steps(r), UNCHANGED clock,
         tokens' \subseteq [user : Ids, exp : Nat],
         lastLogin' \in [Ids -> Nat \cup {NoTime}],
         TokensAreFresh'
  PROVE  AInv'
<1>1. TypeOK'
  BY DEF AInv, TypeOK, Steps
<1>2. ASSUME NEW s \in Reqs PROVE Holds(s)' /\ Knows(s)'
  <2>1. CASE s = r
    BY <2>1 DEF Steps
  <2>2. CASE s # r
    <3>1. pc'[s] = pc[s] /\ form'[s] = form[s] /\ id'[s] = id[s] /\ known'[s] = known[s]
      BY <2>2 DEF Steps, AInv, TypeOK
    <3>2. Holds(s) /\ Knows(s) /\ RowsStay /\ users \in [Ids -> Rows \cup {NoRow}]
      BY DEF AInv, TypeOK, Steps
    <3> QED  BY <3>1, <3>2, OthersKeep
  <2> QED  BY <2>1, <2>2
<1> QED  BY <1>1, <1>2 DEF AInv, Steps

LEMMA RegisterSteps ==
  ASSUME AInv, NEW r \in Reqs,
         StartRegister(r) \/ Insert(r) \/ InsertDuplicate(r) \/ GetByID(r)
  PROVE  Steps(r)
<1> USE DEF Goto, Answers
<1>1. TypeOK /\ Holds(r) /\ Knows(r)
  BY DEF AInv
<1>2. CASE StartRegister(r)
  <2>1. PICK e \in RawEmails, n \in RawNames, p \in Passwords \cup {BadPassword} :
          \/ /\ Valid(e, n, p)
             /\ form' = [form EXCEPT ![r] = Registration(e, n, p)]
             /\ pc' = [pc EXCEPT ![r] = "insert"]
          \/ pc' = [pc EXCEPT ![r] = "invalid"] /\ UNCHANGED form
    BY <1>2 DEF StartRegister
  <2>2. Valid(e, n, p) => Registration(e, n, p) \in Registrations
    BY DEF Valid, Registration, Registrations
  <2>3. form' = [form EXCEPT ![r] = form'[r]] /\ form'[r] \in Forms \cup {NoForm}
    BY <1>1, <2>1, <2>2 DEF TypeOK, Forms, Registrations
  <2>4. pc[r] = "idle" /\ UNCHANGED <<users, id, known>>
    BY <1>2 DEF StartRegister
  <2>5. Holds(r)' /\ Knows(r)'
    BY <1>1, <2>1, <2>2, <2>4 DEF TypeOK, Holds, Knows
  <2> QED  BY <1>1, <2>1, <2>3, <2>4, <2>5, UsersUnchanged DEF Steps, TypeOK
<1>3. CASE Insert(r)
  <2>1. PICK i \in Ids : Inserted(r, i) /\ id' = [id EXCEPT ![r] = i]
    BY <1>3 DEF Insert
  <2>2. pc[r] = "insert" /\ pc' = [pc EXCEPT ![r] = "reread"] /\ UNCHANGED <<form, known>>
    BY <1>3 DEF Insert
  <2>3. Holds(r)' /\ Knows(r)'
    BY <1>1, <2>1, <2>2, InsertedKeeps DEF TypeOK, Holds, Knows
  <2> QED  BY <1>1, <2>1, <2>2, <2>3, InsertedKeeps DEF Steps, TypeOK
<1>4. CASE InsertDuplicate(r)
  <2>1. Holds(r)' /\ Knows(r)'
    BY <1>1, <1>4 DEF InsertDuplicate, TypeOK, Holds, Knows
  <2> QED  BY <1>1, <1>4, <2>1, UsersUnchanged DEF InsertDuplicate, Steps, TypeOK
<1>5. CASE GetByID(r)
  <2>1. Holds(r)' /\ Knows(r)'
    BY <1>1, <1>5 DEF GetByID, TypeOK, Holds, Knows
  <2> QED  BY <1>1, <1>5, <2>1, UsersUnchanged DEF GetByID, Steps, TypeOK
<1> QED  BY <1>2, <1>3, <1>4, <1>5

\* The row that Lookup finds is the one that known promises.
LEMMA OneRowMatches ==
  ASSUME Distinct, NEW f, NEW i \in Ids, NEW j \in Ids, Matches(i, f), LoginOf(j, f)
  PROVE  i = j
  BY DEF Distinct, Matches, LoginOf

LEMMA LoginSteps ==
  ASSUME AInv, NEW r \in Reqs,
         StartLogin(r) \/ Lookup(r) \/ Compare(r)
  PROVE  Steps(r)
<1> USE DEF Goto, Answers
<1>1. TypeOK /\ Holds(r) /\ Knows(r) /\ Distinct
  BY DEF AInv
<1>2. CASE StartLogin(r)
  <2>1. PICK e \in RawEmails, p \in Passwords \cup {BadPassword} :
          /\ form' = [form EXCEPT ![r] = [email |-> LowerTrim[e], password |-> p]]
          /\ known' = [known EXCEPT ![r] = \E i \in Ids :
                         Exists(i) /\ users[i].email = LowerTrim[e] /\ users[i].hash = p]
    BY <1>2 DEF StartLogin, LoginKey
  <2>2. [email |-> LowerTrim[e], password |-> p] \in Forms
    BY DEF Forms, LoginEmails
  <2>3. pc' = [pc EXCEPT ![r] = "lookup"] /\ UNCHANGED <<users, id>>
    BY <1>2 DEF StartLogin
  <2>4. form'[r] = [email |-> LowerTrim[e], password |-> p] /\ form' = [form EXCEPT ![r] = form'[r]]
    BY <1>1, <2>1 DEF TypeOK
  <2>5. known'[r] = (\E i \in Ids : LoginOf(i, form'[r])) /\ known' = [known EXCEPT ![r] = known'[r]]
    BY <1>1, <2>1, <2>4 DEF TypeOK, LoginOf
  <2>6. Holds(r)' /\ Knows(r)'
    <3>1. \A i \in Ids : LoginOf(i, form[r])' <=> LoginOf(i, form'[r])
      BY <2>3 DEF LoginOf, Exists
    <3> QED  BY <1>1, <2>3, <2>5, <3>1 DEF TypeOK, Holds, Knows
  <2> QED  BY <1>1, <2>2, <2>3, <2>4, <2>5, <2>6, UsersUnchanged DEF Steps, TypeOK
<1>3. CASE Lookup(r)
  <2>1. pc[r] = "lookup" /\ UNCHANGED <<users, form, known>>
    BY <1>3 DEF Lookup
  <2>2. CASE \E i \in Ids : /\ Matches(i, form[r])
                            /\ id' = [id EXCEPT ![r] = i]
                            /\ pc' = [pc EXCEPT ![r] = "compare"]
    <3>1. Holds(r)' /\ Knows(r)'
      BY <1>1, <2>1, <2>2 DEF TypeOK, Holds, Knows, Matches, LoginOf, Exists
    <3> QED  BY <1>1, <2>1, <2>2, <3>1, UsersUnchanged DEF Steps, TypeOK
  <2>3. CASE /\ \A i \in Ids : ~Matches(i, form[r])
             /\ pc' = [pc EXCEPT ![r] = "unauthorized"]
             /\ UNCHANGED id
    <3>1. ~known[r]
      BY <1>1, <2>3 DEF Knows, Matches, LoginOf
    <3>2. Holds(r)' /\ Knows(r)'
      BY <1>1, <2>1, <2>3, <3>1 DEF TypeOK, Holds, Knows
    <3> QED  BY <1>1, <2>1, <2>3, <3>2, UsersUnchanged DEF Steps, TypeOK
  <2> QED  BY <1>3, <2>2, <2>3 DEF Lookup
<1>4. CASE Compare(r)
  <2>1. pc[r] = "compare" /\ UNCHANGED <<users, form, id, known>>
    BY <1>4 DEF Compare
  <2>2. known[r] => users[id[r]].hash = form[r].password
    BY <1>1, <2>1, OneRowMatches DEF Knows, Holds, LoginOf
  <2>3. pc' = [pc EXCEPT ![r] = "token"] \/ (~known[r] /\ pc' = [pc EXCEPT ![r] = "unauthorized"])
    BY <1>4, <2>2 DEF Compare
  <2>4. Holds(r)' /\ Knows(r)'
    BY <1>1, <2>1, <2>3 DEF TypeOK, Holds, Knows, LoginOf, Exists
  <2> QED  BY <1>1, <2>1, <2>3, <2>4, UsersUnchanged DEF Steps, TypeOK
<1> QED  BY <1>2, <1>3, <1>4

LEMMA OtherSteps ==
  ASSUME AInv, NEW r \in Reqs,
         Authenticate(r) \/ Fail(r) \/ Return(r)
  PROVE  Steps(r)
<1> USE DEF Goto, Answers
<1>1. TypeOK /\ Holds(r) /\ Knows(r)
  BY DEF AInv
<1>2. CASE Authenticate(r)
  <2>1. PICK t \in tokens :
          \/ pc' = [pc EXCEPT ![r] = "acting"] /\ id' = [id EXCEPT ![r] = t.user]
          \/ pc' = [pc EXCEPT ![r] = "unauthorized"] /\ UNCHANGED id
    BY <1>2 DEF Authenticate
  <2>2. t.user \in Ids
    BY <1>1 DEF TypeOK
  <2>3. pc[r] = "idle" /\ UNCHANGED <<users, form, known>>
    BY <1>2 DEF Authenticate
  <2>4. Holds(r)' /\ Knows(r)'
    BY <1>1, <2>1, <2>3 DEF TypeOK, Holds, Knows
  <2> QED  BY <1>1, <2>1, <2>2, <2>3, <2>4, UsersUnchanged DEF Steps, TypeOK
<1>3. CASE Fail(r)
  <2>1. users' \in [Ids -> Rows \cup {NoRow}] /\ RowsStay /\ Distinct'
    BY <1>3, InsertedKeeps, UsersUnchanged DEF Fail
  <2>2. /\ pc[r] \in {"insert", "reread", "lookup"} /\ pc' = [pc EXCEPT ![r] = "error"]
        /\ UNCHANGED <<form, id, known>>
    BY <1>3 DEF Fail
  <2>3. Holds(r)'
    BY <1>1, <2>2 DEF TypeOK, Holds
  <2>4. Knows(r)'
    BY <1>1, <2>1, <2>2 DEF TypeOK, Knows, RowsStay, LoginOf, Exists
  <2> QED  BY <1>1, <2>1, <2>2, <2>3, <2>4 DEF Steps, TypeOK
<1>4. CASE Return(r)
  <2>1. Holds(r)' /\ Knows(r)'
    BY <1>1, <1>4 DEF Return, TypeOK, Holds, Knows
  <2> QED  BY <1>1, <1>4, <2>1, UsersUnchanged DEF Return, Steps, TypeOK
<1> QED  BY <1>2, <1>3, <1>4

-----------------------------------------------------------------------------
(* The tokens *)

LEMMA TokensKeep ==
  ASSUME AInv, UNCHANGED <<sessions, clock>>
  PROVE  /\ tokens' \subseteq [user : Ids, exp : Nat]
         /\ lastLogin' \in [Ids -> Nat \cup {NoTime}]
         /\ TokensAreFresh'
  BY DEF AInv, TypeOK, TokensAreFresh, sessions

LEMMA CompareTokens ==
  ASSUME AInv, NEW r \in Reqs, Compare(r)
  PROVE  /\ tokens' \subseteq [user : Ids, exp : Nat]
         /\ lastLogin' \in [Ids -> Nat \cup {NoTime}]
         /\ TokensAreFresh'
<1>1. CASE UNCHANGED sessions
  BY <1>1, TokensKeep DEF Compare
<1>2. CASE /\ tokens' = tokens \cup {[user |-> id[r], exp |-> Expiry]}
           /\ lastLogin' = [lastLogin EXCEPT ![id[r]] = clock]
  <2>1. /\ id[r] \in Ids /\ clock \in Nat /\ TTL \in Nat /\ clock # NoTime /\ clock' = clock
        /\ lastLogin \in [Ids -> Nat \cup {NoTime}]
        /\ tokens \subseteq [user : Ids, exp : Nat]
    BY <1>2, TTLAssumption, NullAssumption DEF Compare, AInv, Holds, TypeOK
  <2>2. ASSUME NEW t \in tokens'
        PROVE  lastLogin'[t.user] # NoTime /\ t.exp <= lastLogin'[t.user] + TTL
    <3>1. CASE t \in tokens /\ t.user = id[r]
      <4>1. /\ lastLogin[id[r]] \in Nat /\ lastLogin[id[r]] <= clock /\ t.exp \in Nat
            /\ t.exp <= lastLogin[id[r]] + TTL
        BY <2>1, <3>1 DEF AInv, TokensAreFresh
      <4>2. lastLogin'[t.user] = clock
        BY <1>2, <2>1, <3>1
      <4> QED  BY <2>1, <4>1, <4>2
    <3>2. CASE t \in tokens /\ t.user # id[r]
      BY <1>2, <2>1, <3>2 DEF AInv, TokensAreFresh
    <3>3. CASE t = [user |-> id[r], exp |-> Expiry]
      BY <1>2, <2>1, <3>3 DEF Expiry
    <3> QED  BY <1>2, <3>1, <3>2, <3>3
  <2>3. \A i \in Ids : lastLogin'[i] # NoTime => lastLogin'[i] <= clock
    BY <1>2, <2>1 DEF AInv, TokensAreFresh
  <2>4. TokensAreFresh'
    BY <2>1, <2>2, <2>3 DEF TokensAreFresh
  <2> QED  BY <1>2, <2>1, <2>4 DEF Expiry
<1> QED  BY <1>1, <1>2 DEF Compare

LEMMA AInvStep == AInv /\ [Next]_vars => AInv'
<1> SUFFICES ASSUME AInv, [Next]_vars PROVE AInv'
  OBVIOUS
<1>1. ASSUME NEW r \in Reqs, Compare(r) PROVE AInv'
  <2>1. UNCHANGED clock
    BY <1>1 DEF Compare
  <2> QED  BY <1>1, <2>1, LoginSteps, CompareTokens, StepsKeep
<1>2. ASSUME NEW r \in Reqs,
             \/ StartRegister(r) \/ Insert(r) \/ InsertDuplicate(r) \/ GetByID(r)
             \/ StartLogin(r) \/ Lookup(r) \/ Authenticate(r) \/ Fail(r) \/ Return(r)
      PROVE  AInv'
  <2>1. UNCHANGED <<sessions, clock>>
    BY <1>2 DEF StartRegister, Insert, InsertDuplicate, GetByID, StartLogin, Lookup,
                Authenticate, Fail, Return
  <2>2. Steps(r)
    BY <1>2, RegisterSteps, LoginSteps, OtherSteps
  <2> QED  BY <2>1, <2>2, TokensKeep, StepsKeep
<1>3. CASE Tick
  <2>1. UNCHANGED <<users, pc, form, id, known, tokens, lastLogin>> /\ clock' = clock + 1
    BY <1>3 DEF Tick, sessions, requests
  <2>2. TypeOK' /\ TokensAreFresh'
    BY <2>1 DEF AInv, TypeOK, TokensAreFresh
  <2>3. Distinct' /\ \A r \in Reqs : Holds(r)' /\ Knows(r)'
    BY <2>1 DEF AInv, Distinct, Holds, Knows, Exists, Matches, LoginOf
  <2> QED  BY <2>2, <2>3 DEF AInv
<1>4. CASE UNCHANGED vars
  <2>1. UNCHANGED <<users, pc, form, id, known, tokens, lastLogin, clock>>
    BY <1>4 DEF vars, sessions, requests
  <2> QED
    BY <2>1 DEF AInv, TypeOK, TokensAreFresh, Distinct, Holds, Knows, Exists, Matches, LoginOf
<1> QED  BY <1>1, <1>2, <1>3, <1>4 DEF Next, Serve

-----------------------------------------------------------------------------
THEOREM AInvHolds == Spec => []AInv
  BY InitAInv, AInvStep, PTL DEF Spec

(* However many registrations run at once and whatever fails, no two accounts *)
(* have an address or a name that the collation takes for the same.           *)
THEOREM AccountsAreDistinctHolds == Spec => []AccountsAreDistinct
<1>1. AInv => AccountsAreDistinct
  BY DEF AInv, Distinct, AccountsAreDistinct
<1> QED  BY <1>1, AInvHolds, PTL

(* Whoever is told 201 owns the row with the address, name and password asked *)
(* for, for any registrations that race with it.                              *)
THEOREM CreatedIsOwnedHolds == Spec => []CreatedIsOwned
<1>1. AInv => CreatedIsOwned
  BY DEF AInv, Holds, RowOf, CreatedIsOwned
<1> QED  BY <1>1, AInvHolds, PTL

(* A login with the address and the password of an account is never refused,  *)
(* whatever trimming, lowering and collation do: the row that is found by     *)
(* collation is the account, because no other row collates alike.             *)
THEOREM LoginFindsAccountHolds == Spec => []LoginFindsAccount
<1>1. AInv => LoginFindsAccount
  BY DEF AInv, Knows, LoginFindsAccount
<1> QED  BY <1>1, AInvHolds, PTL

(* No token lets anybody act TTL after the last login of its user, for any    *)
(* TTL and any number of tokens.                                              *)
THEOREM ActsWithinTTLHolds == Spec => ActsWithinTTL
<1>1. AInv /\ [Next]_vars =>
        [\A r \in Reqs : pc[r] = "idle" /\ pc'[r] = "acting" =>
           lastLogin[id'[r]] # NoTime /\ clock < lastLogin[id'[r]] + TTL]_vars
  <2> SUFFICES ASSUME AInv, Next, NEW r \in Reqs, pc[r] = "idle", pc'[r] = "acting"
               PROVE  lastLogin[id'[r]] # NoTime /\ clock < lastLogin[id'[r]] + TTL
    OBVIOUS
  <2>1. TypeOK /\ TokensAreFresh
    BY DEF AInv
  <2>2. Authenticate(r)
    <3>1. PICK s \in Reqs : Serve(s)
      BY DEF Next, Tick, requests
    <3>2. s = r
      BY <2>1, <3>1 DEF Serve, StartRegister, Insert, InsertDuplicate, GetByID, StartLogin,
                        Lookup, Compare, Authenticate, Fail, Return, Goto, TypeOK
    <3> QED
      BY <2>1, <3>1, <3>2 DEF Serve, StartRegister, Insert, InsertDuplicate, GetByID, StartLogin,
                              Lookup, Compare, Fail, Return, Goto, TypeOK
  <2>3. PICK t \in tokens : Accepts(t) /\ id' = [id EXCEPT ![r] = t.user]
    BY <2>1, <2>2 DEF Authenticate, Goto, TypeOK
  <2>4. id'[r] = t.user /\ t.user \in Ids /\ t.exp \in Nat
    BY <2>1, <2>3 DEF TypeOK
  <2>5. lastLogin[t.user] # NoTime /\ lastLogin[t.user] \in Nat /\ t.exp <= lastLogin[t.user] + TTL
    BY <2>1, <2>4 DEF TypeOK, TokensAreFresh
  <2> QED  BY <2>1, <2>3, <2>4, <2>5, TTLAssumption DEF Accepts, TypeOK
<1> QED  BY <1>1, AInvHolds, PTL DEF Spec, ActsWithinTTL

=============================================================================
