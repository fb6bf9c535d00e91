---------------------------- MODULE EmailBreaker ----------------------------
(***************************************************************************)
(* SendInvitation, the mail client, and the circuit breaker it calls the   *)
(* mail service through (sony/gobreaker, external).  A request handler     *)
(* mails synchronously; every call ends within the timeout of the HTTP     *)
(* client.  The breaker reads the clock when a call begins and ends, under *)
(* its mutex, and at no other time.  Its generation counter is replaced by *)
(* the set of calls that began in the current generation.                  *)
(***************************************************************************)
EXTENDS Integers, FiniteSets

CONSTANTS
  Calls,          \* slots of request handlers that mail
  MaxRequests,    \* Settings.MaxRequests: trial calls of a half-open breaker
  Interval,       \* Settings.Interval: how long a closed breaker counts
  OpenFor,        \* Settings.Timeout: how long it stays open
  Trip,           \* consecutive failures that open it
  CallTimeout     \* email.timeout, the timeout of the HTTP client

ASSUME MaxRequestsAssumption == MaxRequests \in Nat \ {0}
ASSUME TripAssumption == Trip \in Nat \ {0}
ASSUME IntervalAssumption == Interval \in Nat
ASSUME CallTimeoutAssumption == CallTimeout \in Nat
\* 30 s and 3 s: no call outlives the open state that it sees begin.
ASSUME OpenForAssumption == OpenFor \in Nat /\ CallTimeout <= OpenFor

VARIABLES
  cb,             \* the breaker
  mail, age,      \* of every call, and how long it has been in flight
  well,           \* the mail service answers, and in time
  failed          \* history: failed[a]: calls that failed a ticks ago

calls == <<mail, age>>
breakerVars == <<cb, calls, well, failed>>

Capped(n, top) == IF n <= top THEN n ELSE top

-----------------------------------------------------------------------------
(* gobreaker *)

\* left is the time to the expiry of the generation, -1 when it has passed.
\* Nothing compares a count with more than its threshold, where it stops.
NewGeneration(state) ==
  [state |-> state,
   left |-> CASE state = "closed" -> Interval
              [] state = "open" -> OpenFor
              [] state = "half-open" -> 0,
   young |-> {}, requests |-> 0, successes |-> 0, failures |-> 0]

\* Faulty variant: counts are cleared on a change of state only.
CurrentKeepsCounts ==
  IF cb.state = "open" /\ cb.left < 0 THEN NewGeneration("half-open") ELSE cb

\* currentState: an expired generation ends when a call begins or ends.
Current ==
  IF cb.left >= 0 THEN cb
  ELSE NewGeneration(IF cb.state = "open" THEN "half-open" ELSE "closed")

\* Faulty variant: one trial call too few is let through to close again.
FullTooEarly(b) == b.state = "half-open" /\ b.requests >= MaxRequests - 1

Full(b) == b.state = "half-open" /\ b.requests >= MaxRequests

\* onSuccess
Succeeded(b) ==
  IF b.state = "half-open" /\ b.successes + 1 >= MaxRequests
    THEN NewGeneration("closed")
    ELSE [b EXCEPT !.successes = Capped(@ + 1, MaxRequests), !.failures = 0]

\* ReadyToTrip
Trips(b) == b.failures + 1 >= Trip

\* onFailure
Failed(b) ==
  IF b.state = "half-open" \/ Trips(b)
    THEN NewGeneration("open")
    ELSE [b EXCEPT !.failures = @ + 1, !.successes = 0]

\* afterRequest: the result of a call from an earlier generation is ignored.
AfterRequest(c, ok) ==
  CASE c \notin Current.young -> Current
    [] c \in Current.young /\ ok -> Succeeded([Current EXCEPT !.young = @ \ {c}])
    [] c \in Current.young /\ ~ok -> Failed([Current EXCEPT !.young = @ \ {c}])

-----------------------------------------------------------------------------
(* SendInvitation *)

\* Execute: a breaker that is open or full refuses without a call.
Begin(c) ==
  /\ mail[c] = "idle"
  /\ \/ /\ Current.state = "open" \/ Full(Current)
        /\ mail' = [mail EXCEPT ![c] = "refused"]
        /\ cb' = Current
     \/ /\ Current.state # "open" /\ ~Full(Current)
        /\ mail' = [mail EXCEPT ![c] = "sending"]
        /\ cb' = [Current EXCEPT !.requests = Capped(@ + 1, MaxRequests),
                                 !.young = @ \cup {c}]
  /\ UNCHANGED <<age, well, failed>>

End(c, ok) ==
  /\ mail[c] = "sending"
  /\ mail' = [mail EXCEPT ![c] = IF ok THEN "mailed" ELSE "failed"]
  /\ age' = [age EXCEPT ![c] = 0]
  /\ cb' = AfterRequest(c, ok)
  /\ UNCHANGED well

\* A status below 400.
Deliver(c) == End(c, TRUE) /\ UNCHANGED failed

\* A status from 400 on, a transport error, the client's timeout, or a request
\* whose own client has hung up.
Lose(c) ==
  /\ ~well
  /\ End(c, FALSE)
  /\ failed' = [failed EXCEPT ![0] = Capped(@ + 1, Trip)]

\* notifyInvitation logs the error, and the handler is done.
Return(c) ==
  /\ mail[c] \in {"refused", "mailed", "failed"}
  /\ mail' = [mail EXCEPT ![c] = "idle"]
  /\ UNCHANGED <<cb, age, well, failed>>

-----------------------------------------------------------------------------
\* Faulty variant: an HTTP client without a timeout.
InTimeAlways(c) == TRUE

InTime(c) == mail[c] = "sending" => age[c] < CallTimeout

TimePasses ==
  /\ \A c \in Calls : InTime(c)
  /\ cb' = [cb EXCEPT !.left = IF cb.state = "half-open" \/ @ < 0 THEN @ ELSE @ - 1]
  /\ age' = [c \in Calls |-> IF mail[c] = "sending" THEN age[c] + 1 ELSE 0]
  /\ failed' = [a \in 0 .. Interval |-> IF a = 0 THEN 0 ELSE failed[a - 1]]
  /\ UNCHANGED <<mail, well>>

\* The mail service goes down or comes back; with it, clients' patience.
Change ==
  /\ well' = ~well
  /\ UNCHANGED <<cb, calls, failed>>

BreakerInit ==
  /\ cb = NewGeneration("closed")
  /\ mail = [c \in Calls |-> "idle"]
  /\ age = [c \in Calls |-> 0]
  /\ well \in BOOLEAN
  /\ failed = [a \in 0 .. Interval |-> 0]

Serve(c) == Begin(c) \/ Deliver(c) \/ Lose(c) \/ Return(c)

BreakerNext == (\E c \in Calls : Serve(c)) \/ TimePasses \/ Change

BreakerSpec == BreakerInit /\ [][BreakerNext]_breakerVars

\* Time passes, handlers go on, and there is always another invitation.
Fairness == WF_breakerVars(TimePasses) /\ \A c \in Calls : WF_breakerVars(Serve(c))

FairBreakerSpec == BreakerSpec /\ Fairness

-----------------------------------------------------------------------------
BreakerTypeOK ==
  /\ cb \in [state : {"closed", "open", "half-open"},
             left : -1 .. Interval + OpenFor, young : SUBSET Calls,
             requests : 0 .. MaxRequests, successes : 0 .. MaxRequests,
             failures : 0 .. Trip - 1]
  /\ mail \in [Calls -> {"idle", "sending", "refused", "mailed", "failed"}]
  /\ age \in [Calls -> Nat]
  /\ well \in BOOLEAN
  /\ failed \in [0 .. Interval -> 0 .. Trip]
  /\ \A c \in cb.young : mail[c] = "sending"

Sending == {c \in Calls : mail[c] = "sending"}

(* While the breaker is half open, at most MaxRequests mails are in flight,  *)
(* those of earlier generations included: a call that was let through before *)
(* the breaker opened has ended before it half opens.                        *)
TrialLoadIsBounded ==
  /\ BreakerTypeOK
  /\ cb.state = "half-open" => Cardinality(Sending) <= MaxRequests

\* The n-th failure of a ticks ago, for all that are not older than Interval.
Recent == {x \in (0 .. Interval) \X (1 .. Trip) : x[2] <= failed[x[1]]}

(* A closed breaker opens only on a burst: Trip calls have failed within the *)
(* last Interval.  Failures that are further apart never add up, so that a   *)
(* service that hangs opens it only if enough handlers wait on it at a time. *)
OpensOnBurst ==
  [][cb.state = "closed" /\ cb'.state = "open" => Cardinality(Recent') >= Trip]_breakerVars

(* Recovery: once the mail service stays well, the breaker is closed for     *)
(* good and stays so, no trial call left over.                               *)
Recovers == <>[]well => <>[](cb.state = "closed")

=============================================================================
