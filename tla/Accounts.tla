------------------------------ MODULE Accounts ------------------------------
(***************************************************************************)
(* Accounts: AuthService.Register and Login with the user repository, call *)
(* by call, the two unique keys of users, and the tokens that Login issues *)
(* and the middleware accepts until they expire.  The service looks up     *)
(* nothing before it inserts: the keys alone decide who is first.  They    *)
(* and the lookup compare by collation, the service trims and lowers.      *)
(* A hash stands for the one password that it is made of.                  *)
(***************************************************************************)
EXTENDS Naturals

CONSTANTS
  Reqs,           \* request slots; a slot serves one request after the other
  Ids,            \* users.id
  RawEmails, RawNames, Passwords,   \* as they arrive; Passwords of valid length
  Emails, Names,  \* valid after normalisation
  LowerTrim,      \* LowerTrim[e]: ToLower(TrimSpace(e)); outside Emails if invalid
  Trim,           \* Trim[n]: TrimSpace(n); outside Names if it is too short or long
  Collate,        \* Collate[x]: what utf8mb4_unicode_ci compares of x
  BadPassword,    \* too short or too long
  TTL,            \* jwt.ttl
  MaxClock,       \* bound on the clock
  NoId, NoForm, NoRow, NoTime

Rows == [email : Emails, name : Names, hash : Passwords]

LoginEmails == {LowerTrim[e] : e \in RawEmails}

Forms == [email : Emails, name : Names, password : Passwords]
           \cup [email : LoginEmails, password : Passwords \cup {BadPassword}]

ASSUME BadPasswordAssumption == BadPassword \notin Passwords
ASSUME NullAssumption == NoId \notin Ids /\ NoForm \notin Forms /\ NoRow \notin Rows /\ NoTime \notin Nat
ASSUME TTLAssumption == TTL \in Nat \ {0}

VARIABLES
  users,          \* users[i]: the row, or NoRow
  pc,             \* pc[r]: the call r makes next, or its answer
  form,           \* form[r]: the normalised body of r
  id,             \* id[r]: the user r has inserted, found or acts for
  tokens,         \* the tokens issued: user and time of expiry
  clock,
  known,          \* history: when r began, its login was right
  lastLogin       \* history: when each user has last logged in, or NoTime

requests == <<pc, form, id, known>>
sessions == <<tokens, lastLogin>>
vars == <<users, sessions, clock, requests>>

Exists(i) == users[i] # NoRow

-----------------------------------------------------------------------------
(* Register *)

Goto(r, label) == pc' = [pc EXCEPT ![r] = label]

Registration(e, n, p) == [email |-> LowerTrim[e], name |-> Trim[n], password |-> p]

\* validateCredentials
Valid(e, n, p) == LowerTrim[e] \in Emails /\ Trim[n] \in Names /\ p \in Passwords

StartRegister(r) ==
  /\ pc[r] = "idle"
  /\ \E e \in RawEmails, n \in RawNames, p \in Passwords \cup {BadPassword} :
       \/ /\ Valid(e, n, p)
          /\ form' = [form EXCEPT ![r] = Registration(e, n, p)]
          /\ Goto(r, "insert")
       \/ /\ ~Valid(e, n, p)
          /\ Goto(r, "invalid")
          /\ UNCHANGED form
  /\ UNCHANGED <<users, sessions, clock, id, known>>

\* Faulty variant: only the address is unique.
TakenEmail(f) == \E i \in Ids : Exists(i) /\ Collate[users[i].email] = Collate[f.email]

\* uq_users_email and uq_users_username.
Taken(f) ==
  \E i \in Ids : /\ Exists(i)
                 /\ \/ Collate[users[i].email] = Collate[f.email]
                    \/ Collate[users[i].name] = Collate[f.name]

\* Faulty variant: the row of the same address is overwritten.
InsertedOver(r, i) ==
  /\ Exists(i) => Collate[users[i].email] = Collate[form[r].email]
  /\ users' = [users EXCEPT ![i] = [email |-> form[r].email, name |-> form[r].name,
                                    hash |-> form[r].password]]

Inserted(r, i) ==
  /\ ~Exists(i) /\ ~Taken(form[r])
  /\ users' = [users EXCEPT ![i] = [email |-> form[r].email, name |-> form[r].name,
                                    hash |-> form[r].password]]

Insert(r) ==
  /\ pc[r] = "insert"
  /\ \E i \in Ids :
       /\ Inserted(r, i)
       /\ id' = [id EXCEPT ![r] = i]
  /\ Goto(r, "reread")
  /\ UNCHANGED <<sessions, clock, form, known>>

InsertDuplicate(r) ==
  /\ pc[r] = "insert" /\ Taken(form[r])
  /\ Goto(r, "conflict")
  /\ UNCHANGED <<users, sessions, clock, form, id, known>>

\* Create answers with the row as it reads it again.
GetByID(r) ==
  /\ pc[r] = "reread"
  /\ Goto(r, IF Exists(id[r]) THEN "created" ELSE "not found")
  /\ UNCHANGED <<users, sessions, clock, form, id, known>>

-----------------------------------------------------------------------------
(* Login *)

\* Faulty variant: Login looks the address up as it came.
LoginKeyRaw(e) == e

LoginKey(e) == LowerTrim[e]

StartLogin(r) ==
  /\ pc[r] = "idle"
  /\ \E e \in RawEmails, p \in Passwords \cup {BadPassword} :
       /\ form' = [form EXCEPT ![r] = [email |-> LoginKey(e), password |-> p]]
       /\ known' = [known EXCEPT ![r] = \E i \in Ids :
                      Exists(i) /\ users[i].email = LowerTrim[e] /\ users[i].hash = p]
  /\ Goto(r, "lookup")
  /\ UNCHANGED <<users, sessions, clock, id>>

Matches(i, f) == Exists(i) /\ Collate[users[i].email] = Collate[f.email]

\* GetByEmail. An unknown address has its password compared with a dummy.
Lookup(r) ==
  /\ pc[r] = "lookup"
  /\ \/ \E i \in Ids :
          /\ Matches(i, form[r])
          /\ id' = [id EXCEPT ![r] = i]
          /\ Goto(r, "compare")
     \/ /\ \A i \in Ids : ~Matches(i, form[r])
        /\ Goto(r, "unauthorized")
        /\ UNCHANGED id
  /\ UNCHANGED <<users, sessions, clock, form, known>>

Expiry == clock + TTL

\* CompareHashAndPassword, then Generate.
Compare(r) ==
  /\ pc[r] = "compare"
  /\ \/ /\ users[id[r]].hash = form[r].password
        /\ tokens' = tokens \cup {[user |-> id[r], exp |-> Expiry]}
        /\ lastLogin' = [lastLogin EXCEPT ![id[r]] = clock]
        /\ Goto(r, "token")
     \/ /\ users[id[r]].hash # form[r].password
        /\ Goto(r, "unauthorized")
        /\ UNCHANGED sessions
  /\ UNCHANGED <<users, clock, form, id, known>>

-----------------------------------------------------------------------------
(* Requests with a token: AuthMiddleware and Parse *)

\* Faulty variant: the expiry is not looked at.
AcceptsExpired(t) == TRUE

Accepts(t) == clock < t.exp

Authenticate(r) ==
  /\ pc[r] = "idle"
  /\ \E t \in tokens :
       \/ Accepts(t) /\ Goto(r, "acting") /\ id' = [id EXCEPT ![r] = t.user]
       \/ ~Accepts(t) /\ Goto(r, "unauthorized") /\ UNCHANGED id
  /\ UNCHANGED <<users, sessions, clock, form, known>>

-----------------------------------------------------------------------------
\* A call fails; of an INSERT also after it took effect.
Fail(r) ==
  /\ pc[r] \in {"insert", "reread", "lookup"}
  /\ \/ UNCHANGED users
     \/ pc[r] = "insert" /\ \E i \in Ids : Inserted(r, i)
  /\ Goto(r, "error")
  /\ UNCHANGED <<sessions, clock, form, id, known>>

Answers == {"invalid", "conflict", "created", "not found", "unauthorized", "token",
            "acting", "error"}

Return(r) ==
  /\ pc[r] \in Answers
  /\ Goto(r, "idle")
  /\ form' = [form EXCEPT ![r] = NoForm]
  /\ id' = [id EXCEPT ![r] = NoId]
  /\ known' = [known EXCEPT ![r] = FALSE]
  /\ UNCHANGED <<users, sessions, clock>>

Tick == clock < MaxClock /\ clock' = clock + 1 /\ UNCHANGED <<users, sessions, requests>>

Init ==
  /\ users = [i \in Ids |-> NoRow]
  /\ pc = [r \in Reqs |-> "idle"]
  /\ form = [r \in Reqs |-> NoForm]
  /\ id = [r \in Reqs |-> NoId]
  /\ tokens = {}
  /\ clock = 0
  /\ known = [r \in Reqs |-> FALSE]
  /\ lastLogin = [i \in Ids |-> NoTime]

Serve(r) ==
  \/ StartRegister(r) \/ Insert(r) \/ InsertDuplicate(r) \/ GetByID(r)
  \/ StartLogin(r) \/ Lookup(r) \/ Compare(r)
  \/ Authenticate(r) \/ Fail(r) \/ Return(r)

Next == (\E r \in Reqs : Serve(r)) \/ Tick

Spec == Init /\ [][Next]_vars

-----------------------------------------------------------------------------
TypeOK ==
  /\ users \in [Ids -> Rows \cup {NoRow}]
  /\ pc \in [Reqs -> {"idle", "insert", "reread", "lookup", "compare"} \cup Answers]
  /\ form \in [Reqs -> Forms \cup {NoForm}]
  /\ id \in [Reqs -> Ids \cup {NoId}]
  /\ tokens \subseteq [user : Ids, exp : Nat]
  /\ clock \in Nat
  /\ known \in [Reqs -> BOOLEAN]
  /\ lastLogin \in [Ids -> Nat \cup {NoTime}]

(* No two accounts share an address or a name, not even in two spellings,    *)
(* however many registrations run at once.                                   *)
AccountsAreDistinct ==
  /\ TypeOK
  /\ \A i, j \in Ids : Exists(i) /\ Exists(j) /\ i # j =>
       /\ Collate[users[i].email] # Collate[users[j].email]
       /\ Collate[users[i].name] # Collate[users[j].name]

(* The client that is told 201 has the account it asked for: the row has its *)
(* address, its name and its password, whatever the registrations that race  *)
(* with it do; all the others for the same address are told 409.             *)
CreatedIsOwned ==
  \A r \in Reqs : pc[r] = "created" =>
    /\ id[r] \in Ids
    /\ users[id[r]] = [email |-> form[r].email, name |-> form[r].name,
                       hash |-> form[r].password]

(* Whoever has an account can log in to it, with any spelling of the address *)
(* that Register would have taken for it, also when the answer to Register   *)
(* was lost.                                                                 *)
LoginFindsAccount == \A r \in Reqs : known[r] => pc[r] # "unauthorized"

(* Nobody acts as a user who has not logged in with the right password less  *)
(* than jwt.ttl ago.                                                         *)
ActsWithinTTL ==
  [][\A r \in Reqs : pc[r] = "idle" /\ pc'[r] = "acting" =>
       lastLogin[id'[r]] # NoTime /\ clock < lastLogin[id'[r]] + TTL]_vars

=============================================================================
