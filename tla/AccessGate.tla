----------------------------- MODULE AccessGate -----------------------------
(***************************************************************************)
(* The access proxy of one workload: ServeHTTP of internal/accessgate and  *)
(* the two servers of cmd/access-proxy.  Each request is admitted, its ID  *)
(* token is checked by one GET of the source instance at KCP, and the      *)
(* stream it opens is checked again at every tick of a ticker of its own,  *)
(* by a goroutine of its own, until the stream ends.                       *)
(*                                                                         *)
(* Time is a discrete clock.  A timer is urgent: the clock does not pass   *)
(* the instant of a timeout, a tick or a deadline before its handler has   *)
(* run, but at one instant everything may happen in any order.  KCP        *)
(* decides at some instant between the request of a check and its answer,  *)
(* so that an answer may be out of date by CheckTimeout when it arrives.   *)
(***************************************************************************)
EXTENDS Integers, FiniteSets

CONSTANTS
    Requests,         \* slots for requests served at the same time
    Tokens,           \* ID tokens the session proxy passes on
    NoToken,          \* of a slot without a request
    Accounts,
    Account,          \* [Tokens -> Accounts]: issuer and subject of a token
    Expiry,           \* [Tokens -> Nat]: its exp claim
    CheckTimeout,     \* timeout of the KCP client, 5 s in the code
    RecheckInterval,  \* PermissionRecheckInterval, 30 s in the code
    Horizon,          \* bound: the last instant of the clock
    MaxChanges        \* bound: changes of permissions and of the source

ASSUME TokensAssumption ==
    /\ Account \in [Tokens -> Accounts] /\ Expiry \in [Tokens -> Nat]
    /\ NoToken \notin Tokens
ASSUME TimesAssumption ==
    /\ CheckTimeout \in Nat \ {0} /\ RecheckInterval \in Nat
    /\ CheckTimeout < RecheckInterval
    /\ Horizon \in Nat /\ MaxChanges \in Nat

VARIABLES
    now,       \* the clock
    \* KCP
    permits,   \* accounts allowed to GET the source instance
    source,    \* the object at the configured path
    up,        \* KCP answers
    \* The proxy
    running,   \* both servers of the process listen
    token,     \* [Requests -> Tokens]: the credential of the request
    stream,    \* [Requests -> ...]: where ServeHTTP is with it
    check,     \* [Requests -> ...]: its KCP request under way
    asked,     \* [Requests -> Nat]: when that request was sent
    due,       \* [Requests -> Nat]: next tick of its ticker
    \* History and bounds
    opened,    \* [Requests -> Nat]: when the stream was opened
    lost,      \* [Accounts -> Nat]: when the account last lost its permission
    changes

kcp == <<permits, source, up>>
proxy == <<running, token, stream, check, asked, due, opened>>
vars == <<now, permits, source, up, running, token, stream, check, asked, due, opened, lost,
          changes>>

\* A request is idle (not there), at its first check, or an open stream.
\* "closed" is a stream whose recheck goroutine has not returned yet.
Streams == {"idle", "first", "open", "closed"}
\* No KCP request, one sent, one KCP decided, with its answer under way.
Checks == {"none", "sent", "yes", "no"}
\* The configured object, one with another UID or cluster at the same path,
\* the configured object with a deletionTimestamp, or none.
Sources == {"same", "replaced", "deleting", "gone"}

(***************************************************************************)
(* Admission: what ServeHTTP decides before it looks at the credential.    *)
(***************************************************************************)
Forms == [host: {"ours", "other"}, origin: {"none", "ours", "other", "several"},
          unsafe: BOOLEAN, upgrade: BOOLEAN,
          path: {"socket", "authAllowed", "authOther", "other"}, tokens: 0..2]

HostOk(f) == f.host = "ours"
OriginOk(f) == f.origin = "ours" \/ (f.origin = "none" /\ ~f.unsafe /\ ~f.upgrade)
allowedAuthPath(f) == f.path # "authOther"
Admitted(f) ==
    /\ HostOk(f)
    /\ OriginOk(f)
    /\ f.upgrade => f.path = "socket"
    /\ allowedAuthPath(f)
    /\ f.tokens = 1
AdmittedForms == {f \in Forms : Admitted(f)}

(***************************************************************************)
(* What a check asks.  KCP answers 200 for a token it verifies whose       *)
(* account may read the object; the gate then compares the identity of     *)
(* the object, and the claims of the token with the clock.                 *)
(***************************************************************************)
Permitted(a) == a \in permits /\ source = "same"
\* Mutant: the UID of the object is not compared.
Decision_AnyUid(t) ==
    IF up /\ Account[t] \in permits /\ source \in {"same", "replaced"} /\ now < Expiry[t]
    THEN "yes" ELSE "no"
Decision(t) == IF up /\ Permitted(Account[t]) /\ now < Expiry[t] THEN "yes" ELSE "no"
Unexpired(t) == now < Expiry[t]

Init ==
    /\ now = 0
    /\ permits \in SUBSET Accounts /\ source = "same" /\ up = TRUE
    /\ running = TRUE
    /\ token = [r \in Requests |-> NoToken]
    /\ stream = [r \in Requests |-> "idle"] /\ check = [r \in Requests |-> "none"]
    /\ asked = [r \in Requests |-> 0] /\ due = [r \in Requests |-> 0]
    /\ opened = [r \in Requests |-> 0] /\ lost = [a \in Accounts |-> 0]
    /\ changes = 0

(***************************************************************************)
(* ServeHTTP.                                                              *)
(***************************************************************************)
Send(r) == check' = [check EXCEPT ![r] = "sent"] /\ asked' = [asked EXCEPT ![r] = now]

\* Mutant: an allow is kept for the other requests with the token.
Authorized_Cached(r) ==
    /\ \/ check[r] = "yes"
       \/ check[r] # "none" /\ \E q \in Requests : stream[q] = "open" /\ token[q] = token[r]
    /\ Unexpired(token[r])
Authorized(r) == check[r] = "yes" /\ Unexpired(token[r])

\* The timers: of the KCP client, of the ticker, of the context.
TimedOut(r) == check[r] # "none" /\ now >= asked[r] + CheckTimeout
RecheckDue(r) == stream[r] = "open" /\ check[r] = "none" /\ now >= due[r]
\* Mutant: the deadline only ends a stream between two checks.
DeadlineDue_Between(r) == stream[r] = "open" /\ check[r] = "none" /\ now > Expiry[token[r]]
DeadlineDue(r) == stream[r] = "open" /\ ~Unexpired(token[r])

\* A request that is not admitted gets its status code and leaves nothing.
Reject == running /\ Forms \ AdmittedForms # {} /\ UNCHANGED vars

\* An admitted request starts its first check.
Arrive(r, t) ==
    /\ running /\ stream[r] = "idle"
    /\ now + CheckTimeout <= Horizon     \* bound
    /\ AdmittedForms # {}
    /\ stream' = [stream EXCEPT ![r] = "first"]
    /\ token' = [token EXCEPT ![r] = t]
    /\ Send(r)
    /\ UNCHANGED <<now, kcp, running, due, opened, lost, changes>>

\* KCP looks at the token, the permission and the object.
Decide(r) ==
    /\ check[r] = "sent"
    /\ check' = [check EXCEPT ![r] = Decision(token[r])]
    /\ UNCHANGED <<now, kcp, running, token, stream, asked, due, opened, lost, changes>>

\* The first answer is yes: the ticker starts and the request is proxied.
Open(r) ==
    /\ stream[r] = "first" /\ Authorized(r)
    /\ stream' = [stream EXCEPT ![r] = "open"]
    /\ check' = [check EXCEPT ![r] = "none"]
    /\ due' = [due EXCEPT ![r] = now + RecheckInterval]
    /\ opened' = [opened EXCEPT ![r] = now]
    /\ UNCHANGED <<now, kcp, running, token, asked, lost, changes>>

\* Mutant: Failed without the timeout of the KCP client.
Failed_NoTimeout(r) ==
    check[r] = "no" \/ (check[r] = "yes" /\ ~Unexpired(token[r]))
\* Nothing of a request is left: its slot is as it was at first.
Cleared(S) ==
    /\ token' = [r \in Requests |-> IF r \in S THEN NoToken ELSE token[r]]
    /\ stream' = [r \in Requests |-> IF r \in S THEN "idle" ELSE stream[r]]
    /\ check' = [r \in Requests |-> IF r \in S THEN "none" ELSE check[r]]
    /\ asked' = [r \in Requests |-> IF r \in S THEN 0 ELSE asked[r]]
    /\ due' = [r \in Requests |-> IF r \in S THEN 0 ELSE due[r]]
    /\ opened' = [r \in Requests |-> IF r \in S THEN 0 ELSE opened[r]]
    /\ UNCHANGED <<now, kcp, lost>>

Failed(r) ==
    \/ check[r] = "no" \/ (check[r] = "yes" /\ ~Unexpired(token[r]))
    \/ TimedOut(r)

\* The first check fails or times out, or the client leaves meanwhile.
Refuse(r) ==
    /\ stream[r] = "first"
    /\ Cleared({r}) /\ UNCHANGED <<running, changes>>

(***************************************************************************)
(* The recheck goroutine of an open stream.                                *)
(***************************************************************************)
Recheck(r) ==
    /\ RecheckDue(r)
    /\ Send(r)
    /\ due' = [due EXCEPT ![r] = @ + RecheckInterval]
    /\ UNCHANGED <<now, kcp, running, token, stream, opened, lost, changes>>

\* The same token gives the same identity, so that only an error matters.
Renewed(r) ==
    /\ stream[r] = "open" /\ Authorized(r)
    /\ check' = [check EXCEPT ![r] = "none"]
    /\ UNCHANGED <<now, kcp, running, token, stream, asked, due, opened, lost, changes>>

Close(r) ==
    /\ stream' = [stream EXCEPT ![r] = "closed"]
    /\ UNCHANGED <<now, kcp, running, token, check, asked, due, opened, lost, changes>>

\* cancel(): the context ends and with it the proxied stream.
Cancel(r) == stream[r] = "open" /\ Failed(r) /\ Close(r)

\* The context carries the expiry of the token as its deadline.
Deadline(r) == DeadlineDue(r) /\ Close(r)

\* The application or the client ends the stream; ServeHTTP cancels on return.
Finish(r) == stream[r] = "open" /\ Close(r)

\* The goroutine sees the context ended, between checks or inside one.
Return(r) ==
    /\ stream[r] = "closed"
    /\ Cleared({r}) /\ UNCHANGED <<running, changes>>

(***************************************************************************)
(* The process: a signal, or the failure of either server, closes both     *)
(* servers and ends the process; the kubelet starts the container again.   *)
(***************************************************************************)
Exit ==
    /\ running /\ changes < MaxChanges
    /\ running' = FALSE
    /\ Cleared(Requests)
    /\ changes' = changes + 1

Start ==
    /\ ~running
    /\ running' = TRUE
    /\ UNCHANGED <<now, kcp, token, stream, check, asked, due, opened, lost, changes>>

(***************************************************************************)
(* KCP, its administrators and the owner of the source instance.           *)
(***************************************************************************)
Changed ==
    /\ changes < MaxChanges /\ changes' = changes + 1
    /\ lost' = [a \in Accounts |-> IF Permitted(a) /\ ~Permitted(a)' THEN now ELSE lost[a]]
    /\ UNCHANGED <<now, proxy>>

Grant(a) == a \notin permits /\ permits' = permits \cup {a} /\ UNCHANGED <<source, up>> /\ Changed
Revoke(a) == a \in permits /\ permits' = permits \ {a} /\ UNCHANGED <<source, up>> /\ Changed

\* A recreated source never gets the configured UID again.
SourceChange(s) ==
    /\ \/ source = "same" /\ s \in {"deleting", "gone"}
       \/ source = "deleting" /\ s = "gone"
       \/ source = "gone" /\ s = "replaced"
    /\ source' = s
    /\ UNCHANGED <<permits, up>> /\ Changed
Outage == up /\ up' = FALSE /\ UNCHANGED <<permits, source>> /\ Changed
Back == ~up /\ up' = TRUE /\ UNCHANGED <<permits, source, now, proxy, lost, changes>>

(***************************************************************************)
(* The clock waits for every timer that is due.                            *)
(***************************************************************************)
Pending(r) ==
    \/ stream[r] \in {"first", "open"} /\ TimedOut(r)
    \/ RecheckDue(r) \/ DeadlineDue(r)
Tick ==
    /\ now < Horizon /\ \A r \in Requests : ~Pending(r)
    /\ now' = now + 1
    /\ UNCHANGED <<kcp, proxy, lost, changes>>

Serve(r) == \/ \E t \in Tokens : Arrive(r, t)
            \/ Decide(r) \/ Open(r) \/ Refuse(r) \/ Recheck(r) \/ Renewed(r)
            \/ Cancel(r) \/ Deadline(r) \/ Finish(r) \/ Return(r)
Kcp == \/ \E a \in Accounts : Grant(a) \/ Revoke(a)
       \/ \E s \in Sources : SourceChange(s)
       \/ Outage \/ Back

Next == (\E r \in Requests : Serve(r)) \/ Reject \/ Kcp \/ Exit \/ Start \/ Tick
Spec == Init /\ [][Next]_vars

\* Timers fire and goroutines run; time passes.  Nothing is assumed of KCP, of
\* the clients or of the application: none of them has to end anything.
Fairness == /\ WF_vars(Tick)
            /\ \A r \in Requests : WF_vars((Failed(r) /\ Refuse(r)) \/ Open(r))
            /\ \A r \in Requests : WF_vars(Recheck(r)) /\ WF_vars(Renewed(r) \/ Cancel(r))
            /\ \A r \in Requests : WF_vars(Deadline(r)) /\ WF_vars(Return(r))
FairSpec == Spec /\ Fairness

(***************************************************************************)
(* Properties.                                                             *)
(***************************************************************************)
\* Every variable keeps its type, and no credential or check stays behind a
\* request.
TypeOK ==
    /\ now \in 0..Horizon /\ changes \in 0..MaxChanges
    /\ permits \subseteq Accounts /\ source \in Sources /\ up \in BOOLEAN
    /\ running \in BOOLEAN
    /\ token \in [Requests -> Tokens \cup {NoToken}]
    /\ stream \in [Requests -> Streams] /\ check \in [Requests -> Checks]
    /\ asked \in [Requests -> Nat] /\ due \in [Requests -> Nat]
    /\ opened \in [Requests -> Nat] /\ lost \in [Accounts -> Nat]
    /\ \A r \in Requests : stream[r] = "idle" <=> token[r] = NoToken
    /\ \A r \in Requests : check[r] # "none" => stream[r] # "idle"

\* "A stream never outlives the ID token that established it" (ServeHTTP, its
\* deadline and docs/access-policy.md), rechecks and slow answers included.
WithinToken == \A r \in Requests : stream[r] = "open" => now <= Expiry[token[r]]

\* The interval of the rechecks plus the timeout of one bounds how long a stream
\* survives the loss of its permission (revoked, or the source deleted or
\* replaced), counted from the loss, or from its opening when the loss came
\* while its first check was being answered.
RevocationBounded ==
    \A r \in Requests : stream[r] = "open" /\ ~Permitted(Account[token[r]]) =>
        \/ now <= lost[Account[token[r]]] + RecheckInterval + CheckTimeout
        \/ now <= opened[r] + RecheckInterval + CheckTimeout

\* Counted from the loss alone the bound has a second timeout: the answer that
\* opens a stream may already be as old as the timeout of its check.
RevocationTotal ==
    \A r \in Requests : stream[r] = "open" /\ ~Permitted(Account[token[r]]) =>
        now <= lost[Account[token[r]]] + RecheckInterval + 2 * CheckTimeout

\* No stream opens for an account that had no permission during the whole time
\* of its check: no answer is used for another request or kept for a later one.
OpenedOnPermission ==
    [][\A r \in Requests : stream[r] = "first" /\ stream'[r] = "open" =>
           LET a == Account[token[r]]
           IN  Permitted(a) \/ (lost[a] >= asked[r] /\ now <= lost[a] + CheckTimeout)]_vars

\* Every stream ends, and its recheck goroutine with it, whatever KCP, the client
\* and the application do: no goroutine is left behind a request.
StreamsEnd == \A r \in Requests : stream[r] # "idle" ~> stream[r] = "idle"
=============================================================================
