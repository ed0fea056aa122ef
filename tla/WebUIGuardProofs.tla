-------------------------- MODULE WebUIGuardProofs --------------------------
(***************************************************************************)
(* Proofs about WebUIGuard, for every set of identities, tokens, sockets   *)
(* and handlers, whatever headers the clients send.                        *)
(***************************************************************************)
EXTENDS WebUIGuard, TLAPS

\* A header line the proxy set.
Line(name, value) == [name |-> name, value |-> value, line |-> 0]

\* After Rewrite the only trusted lines are those of the proxy.
LEMMA RewrittenLines ==
    ASSUME NEW H, NEW u
    PROVE  /\ {h \in Rewritten(H, u) : h.name = "email"} = {Line("email", u)}
           /\ {h \in Rewritten(H, u) : h.name = "role"} = {Line("role", "user")}
<1> DEFINE S == stripIdentity(H)
           E == SetHeader(S, "email", u)
           R == SetHeader(E, "role", "user")
           P == SetHeader(R, "proto", "https")
           Q == SetHeader(P, "host", "ours")
<1>1. \A h \in S : h.name \notin Trusted
  BY DEF stripIdentity
<1>2. \A h : h \in Q <=>
         \/ h \in S
         \/ h \in {Line("email", u), Line("role", "user"), Line("proto", "https"), Line("host", "ours")}
  BY <1>1 DEF SetHeader, Line, Trusted
<1>3. Rewritten(H, u) = Q
  BY DEF Rewritten
<1> HIDE DEF Q, S
<1> QED
  BY <1>1, <1>2, <1>3 DEF Line, Trusted

\* The guard sees the identity the proxy verified and nothing else.
LEMMA SeenIsVerified == \A u \in Users : SeenOf[u] \subseteq {u}
<1> SUFFICES ASSUME NEW u \in Users, NEW H \in Callers, NEW n \in Nominations
             PROVE  identity(Upstream(H, n, u)) = u
  BY DEF SeenOf
<1> DEFINE U == Upstream(H, n, u)
<1>1. /\ {h \in U : h.name = "email"} = {Line("email", u)}
      /\ {h \in U : h.name = "role"} = {Line("role", "user")}
  BY RewrittenLines DEF Upstream
<1>2. Line("email", u) \in U /\ Line("role", "user") \in U
  BY <1>1
<1>3. (CHOOSE h \in U : h.name = "email") = Line("email", u)
  BY <1>1, <1>2 DEF Line
<1> HIDE DEF U
<1> QED
  BY <1>1, <1>2, <1>3 DEF identity, Line, U

\* A handler works for the identity of the request that carried its event, which
\* is that of its socket while the socket lives; when it reaches the original
\* handler, the credential it brings is of that identity too.
TaskBound(k) ==
    LET t == task[k]
    IN  t.step # "idle" =>
          /\ t.sid \in Sids /\ t.by \in Users /\ t.by = t.email
          /\ life[t.sid] = "open" => env[t.sid] = t.email
          /\ life[t.sid] # "new"
          /\ t.step = "run" /\ t.payload # None => Owner[t.payload] = t.email

IInv ==
    /\ TypeOK /\ ActsAsVerified /\ SessionBound /\ IdentityArrives
    /\ \A k \in Tasks : TaskBound(k)

\* The invariant holds at first: there is no socket and no handler.
LEMMA InitIInv == Init => IInv
  BY UsersAssumption, BoundsAssumption
  DEF Init, IInv, TypeOK, ActsAsVerified, SessionBound, IdentityArrives, TaskBound, NoTask,
      TaskRecords, Steps, Names

\* Requests and new sockets keep it: what the guard sees was verified.
LEMMA WebKeeps ==
    ASSUME IInv, NEW u \in Users, NEW seen \in SeenOf[u], Web(u, seen)
    PROVE  IInv'
<1> USE UsersAssumption, OwnerAssumption, BoundsAssumption
    DEF IInv, TypeOK, ActsAsVerified, SessionBound, IdentityArrives, TaskBound, Acts
<1>1. seen = u
  BY SeenIsVerified
<1>2. CASE \E t \in Tokens : Signin(u, seen, t)
  BY <1>1, <1>2 DEF Signin
<1>3. CASE \E kind \in Kinds, auth \in Credentials, cookie \in Credentials :
              Request(u, seen, kind, auth, cookie)
  <2> PICK kind \in Kinds, auth \in Credentials, cookie \in Credentials :
              Request(u, seen, kind, auth, cookie)
    BY <1>3
  <2> DEFINE c == Credential(kind, auth, cookie)
  <2>1. c \in Tokens \cup {None}
    BY DEF Credential, Credentials
  <2>2. c # None => Owner[c] = u
    BY <1>1 DEF Request, Bound, Credential, matches
  <2>3. unseen' = unseen /\ acted' = IF c = None THEN acted ELSE acted \cup {<<u, Owner[c]>>}
    BY <1>1 DEF Request
  <2>4. UNCHANGED <<valid, life, env, session, task, events>>
    BY DEF Request
  <2> HIDE DEF c
  <2> QED
    BY <2>1, <2>2, <2>3, <2>4
<1>4. CASE \E s \in Sids : Handshake(s, seen)
  BY <1>1, <1>4 DEF Handshake
<1> QED
  BY <1>2, <1>3, <1>4 DEF Web

\* An event starts a handler for the identity of its carrier.
LEMMA EventKeeps ==
    ASSUME IInv, NEW k \in Tasks, NEW s \in Sids, NEW u \in Users, NEW name \in Names,
           NEW p \in Credentials, Event(k, s, u, name, p)
    PROVE  IInv'
<1> DEFINE t == [step |-> First(name), name |-> name, sid |-> s, by |-> u, email |-> env[s],
                 payload |-> p, token |-> IF name = "connect" THEN p ELSE None]
<1>1. /\ task' = [task EXCEPT ![k] = t] /\ env[s] = u /\ life[s] = "open"
      /\ name = "disconnect" => p = None
      /\ events' \in 0..MaxEvents
      /\ UNCHANGED <<valid, life, env, session, acted, unseen>>
  BY BoundsAssumption DEF Event, Carries, IInv, TypeOK
<1>2. First(name) \in Steps /\ (First(name) = "run" => name = "disconnect")
  BY DEF First, Names, Steps
<1>3. t \in TaskRecords
  BY <1>1, <1>2 DEF TaskRecords, Credentials
<1>4. TypeOK' /\ ActsAsVerified' /\ SessionBound' /\ IdentityArrives'
  BY <1>1, <1>3 DEF IInv, TypeOK, ActsAsVerified, SessionBound, IdentityArrives
<1>5. ASSUME NEW j \in Tasks PROVE TaskBound(j)'
  <2>1. CASE j = k
    BY <1>1, <1>2, <2>1 DEF IInv, TypeOK, TaskBound
  <2>2. CASE j # k
    BY <1>1, <2>2 DEF IInv, TypeOK, TaskBound
  <2> QED
    BY <2>1, <2>2
<1> QED
  BY <1>4, <1>5 DEF IInv

\* The awaits of a handler keep it: what they read stays with the handler.
LEMMA HandleKeeps == ASSUME IInv, NEW k \in Tasks, Handle(k) PROVE IInv'
<1> USE UsersAssumption, OwnerAssumption
    DEF IInv, TypeOK, ActsAsVerified, SessionBound, IdentityArrives, TaskBound, End, Goto, NoTask,
        TaskRecords, Steps, Names
<1>1. CASE ReadSession(k)
  BY <1>1 DEF ReadSession
<1>2. CASE MatchConnect(k)
  <2> DEFINE p == IF matches(task[k].payload, task[k].email, valid)
                  THEN task[k].payload ELSE None
             new == [task[k] EXCEPT !.step = "run", !.payload = p]
  <2>1. task[k] \in TaskRecords /\ task[k].step = "match" /\ p \in Tokens \cup {None}
    BY <1>2 DEF MatchConnect
  <2>2. new \in TaskRecords
    BY <2>1
  <2>3. task' = [task EXCEPT ![k] = new]
        /\ UNCHANGED <<valid, life, env, session, acted, unseen, events>>
    BY <1>2, <2>1 DEF MatchConnect
  <2>4. new.sid = task[k].sid /\ new.by = task[k].by /\ new.email = task[k].email /\ new.payload = p
    BY <2>1
  <2>5. p # None => Owner[p] = task[k].email
    BY DEF matches
  <2> HIDE DEF new, p
  <2> QED
    BY <2>1, <2>2, <2>3, <2>4, <2>5
<1>3. CASE MatchSession(k)
  BY <1>3 DEF MatchSession
<1>4. CASE MatchPayload(k)
  BY <1>4 DEF MatchPayload, matches
<1>5. CASE MatchJoin(k)
  BY <1>5 DEF MatchJoin, matches
<1>6. CASE Kick(k) \/ RunDisconnect(k)
  <2>1. task[k].sid \in Sids /\ task[k].step # "idle"
    BY <1>6 DEF Kick, RunDisconnect
  <2>2. /\ task' = [task EXCEPT ![k] = NoTask]
        /\ Gone(task[k].sid) /\ UNCHANGED <<valid, acted, unseen, events>>
    BY <1>6 DEF Kick, RunDisconnect
  <2>3. \A j \in Tasks : TaskBound(j)'
    BY <2>1, <2>2 DEF Gone
  <2> QED
    BY <2>1, <2>2, <2>3 DEF Gone
<1>7. CASE RunJoin(k)
  BY <1>7 DEF RunJoin, Acts
<1>8. CASE RunEvent(k)
  BY <1>8 DEF RunEvent
<1> QED
  BY <1>1, <1>2, <1>3, <1>4, <1>5, <1>6, <1>7, <1>8 DEF Handle

\* Every step keeps the invariant.
LEMMA NextIInv == IInv /\ [Next]_vars => IInv'
<1> SUFFICES ASSUME IInv, [Next]_vars PROVE IInv'
  OBVIOUS
<1>1. CASE \E t \in Tokens : Invalidate(t)
  BY <1>1 DEF Invalidate, IInv, TypeOK, ActsAsVerified, SessionBound, IdentityArrives, TaskBound
<1>2. CASE \E s \in Sids : Closed(s)
  BY <1>2 DEF Closed, Gone, IInv, TypeOK, ActsAsVerified, SessionBound, IdentityArrives, TaskBound
<1>3. CASE UNCHANGED vars
  BY <1>3 DEF vars, IInv, TypeOK, ActsAsVerified, SessionBound, IdentityArrives, TaskBound
<1> QED
  BY <1>1, <1>2, <1>3, WebKeeps, EventKeeps, HandleKeeps DEF Next

\* The inductive invariant holds in every behaviour.
THEOREM SpecIInv == Spec => []IInv
  BY InitIInv, NextIInv, PTL DEF Spec

\* Every variable keeps its type.
THEOREM TypeCorrect == Spec => []TypeOK
<1>1. IInv => TypeOK
  BY DEF IInv
<1> QED
  BY <1>1, SpecIInv, PTL

\* The application only ever acts for the identity the proxy verified.
THEOREM ActsCorrectly == Spec => []ActsAsVerified
<1>1. IInv => ActsAsVerified
  BY DEF IInv
<1> QED
  BY <1>1, SpecIInv, PTL

\* A socket's session belongs to the identity of its handshake.
THEOREM SessionsBound == Spec => []SessionBound
<1>1. IInv => SessionBound
  BY DEF IInv
<1> QED
  BY <1>1, SpecIInv, PTL

\* No verified request loses its identity on the way to the guard.
THEOREM IdentitiesArrive == Spec => []IdentityArrives
<1>1. IInv => IdentityArrives
  BY DEF IInv
<1> QED
  BY <1>1, SpecIInv, PTL

-----------------------------------------------------------------------------
\* The browser in front of the guard, a component with a state of its own: of
\* the variables above it shares the set of valid tokens.
CONSTANT MaxDisturbances
VARIABLES login, cookie, local, page, request, disturbances
Session == INSTANCE BrowserSession

\* What is under way still agrees with what the browser has: nothing removes the
\* token or the cookie of the session user's request before its answer, and the
\* token of a reply that nobody has read yet is that of the cookie.
UnderWay ==
    /\ request.kind = "api" => /\ local # None /\ request.auth = local
                               /\ request.cookie = cookie
    /\ request.kind = "body" => request.auth \in Tokens /\ request.auth = cookie
SessionInv == Session!TypeOK /\ Session!OneAccount /\ UnderWay

\* At first the page is not open, whatever an earlier session left behind.
LEMMA SessionInit == ASSUME MaxDisturbances \in Nat, Session!Init PROVE SessionInv
  BY UsersAssumption
  DEF Session!Init, SessionInv, UnderWay, Session!TypeOK, Session!OneAccount, Session!Pages,
      Session!NoRequest, Session!Requests, Session!Kinds

\* A request carries what the browser has at that moment and changes nothing
\* else; the token of a reply is that of the cookie stored before.
LEMMA BrowserKeeps == ASSUME SessionInv, Session!Browser PROVE SessionInv'
<1> USE DEF SessionInv, UnderWay, Session!TypeOK, Session!OneAccount, Session!Pages,
        Session!NoRequest, Session!Requests, Session!Kinds, Session!Send
<1>1. CASE Session!Navigate
  BY <1>1 DEF Session!Navigate
<1>2. CASE Session!Follow
  BY <1>2 DEF Session!Follow
<1>3. CASE Session!Boot
  BY <1>3 DEF Session!Boot
<1>4. CASE Session!NoSession
  BY <1>4 DEF Session!NoSession
<1>5. CASE Session!SignIn
  BY <1>5 DEF Session!SignIn
<1>6. CASE Session!Store
  BY <1>6, UsersAssumption DEF Session!Store
<1> QED
  BY <1>1, <1>2, <1>3, <1>4, <1>5, <1>6 DEF Session!Browser

\* A page opens only when the guard found both credentials of its request to be
\* of the account that asked; any other reply opens none.
LEMMA ServerKeeps == ASSUME SessionInv, Session!Server PROVE SessionInv'
<1> USE UsersAssumption, OwnerAssumption
    DEF SessionInv, UnderWay, Session!TypeOK, Session!OneAccount, Session!Pages,
        Session!NoRequest, Session!Requests, Session!Kinds, Session!Replied
<1>1. CASE Session!Loaded
  <2>1. Session!Verdict \in {"passed", "cleared", "denied"}
    BY DEF Session!Verdict, Session!Reply, Session!stale_credential
  <2>2. page' \in {"boot", "redirect", "error"} /\ cookie' \in {cookie, None} /\ local' = local
    BY <1>1, <2>1 DEF Session!Loaded
  <2> QED
    BY <1>1, <2>2 DEF Session!Loaded
<1>2. CASE Session!SessionUser
  <2>1. /\ page = "boot" /\ request.kind = "api" /\ request' = Session!NoRequest
        /\ cookie' = cookie /\ valid' = valid /\ UNCHANGED <<login, disturbances>>
    BY <1>2 DEF Session!SessionUser
  <2>2. CASE Session!Verdict = "passed"
    <3>1. Session!Bound("api", request.auth, request.cookie, request.by, valid)
      BY <2>1, <2>2 DEF Session!Verdict, Session!Reply, Session!stale_credential
    <3>2. Owner[local] = request.by /\ (cookie # None => Owner[cookie] = request.by)
      BY <2>1, <3>1 DEF Session!Bound, Session!Stripped, Session!matches
    <3>3. page' = "app" /\ local' = local
      BY <1>2, <2>2 DEF Session!SessionUser
    <3> QED
      BY <2>1, <3>2, <3>3
  <2>3. CASE Session!Verdict # "passed"
    <3>1. page' = "auth" /\ local' = None
      BY <1>2, <2>3 DEF Session!SessionUser
    <3> QED
      BY <2>1, <3>1
  <2> QED
    BY <2>2, <2>3
<1>3. CASE Session!SignedIn
  <2>1. page = "auth" /\ request.kind = "signin" /\ UNCHANGED <<login, local, disturbances>>
    BY <1>3 DEF Session!SignedIn
  <2>2. CASE Session!Verdict = "passed"
    <3> PICK t \in Tokens : /\ valid' = valid \cup {t} /\ cookie' = t /\ page' = page
                            /\ request' = [request EXCEPT !.kind = "body", !.auth = t]
      BY <1>3, <2>2 DEF Session!SignedIn
    <3>1. request \in Session!Requests
      BY <2>1
    <3>2. /\ request'.kind = "body" /\ request'.auth = t
          /\ request' \in Session!Requests
      BY <3>1
    <3> QED
      BY <2>1, <3>2
  <2>3. CASE Session!Verdict # "passed"
    BY <1>3, <2>1, <2>3 DEF Session!SignedIn
  <2> QED
    BY <2>2, <2>3
<1> QED
  BY <1>1, <1>2, <1>3 DEF Session!Server

\* Switches, expiries and reloads keep it: a reload forgets what is under way.
LEMMA SessionNext ==
    ASSUME MaxDisturbances \in Nat
    PROVE  SessionInv /\ [Session!Next]_Session!vars => SessionInv'
<1> SUFFICES ASSUME SessionInv, [Session!Next]_Session!vars PROVE SessionInv'
  OBVIOUS
<1> USE DEF SessionInv, UnderWay, Session!TypeOK, Session!OneAccount, Session!Disturbed
<1>1. CASE Session!Reload
  BY <1>1 DEF Session!Reload, Session!Requests, Session!Kinds
<1>2. CASE \E u \in Users : Session!Switch(u)
  BY <1>2 DEF Session!Switch
<1>3. CASE \E t \in Tokens : Session!Expire(t)
  BY <1>3 DEF Session!Expire
<1>4. CASE UNCHANGED Session!vars
  BY <1>4 DEF Session!vars
<1> QED
  BY <1>1, <1>2, <1>3, <1>4, BrowserKeeps, ServerKeeps DEF Session!Next

\* The state of the browser, its inductive invariant in every behaviour.
LEMMA SessionInvariant ==
    ASSUME MaxDisturbances \in Nat
    PROVE  Session!Spec => []SessionInv
  BY SessionInit, SessionNext, PTL DEF Session!Spec

\* A reply always finds the page that sent the request it answers.
THEOREM RepliesFindTheirPage ==
    ASSUME MaxDisturbances \in Nat
    PROVE  Session!Spec => []Session!TypeOK
<1>1. SessionInv => Session!TypeOK
  BY DEF SessionInv
<1> QED
  BY <1>1, SessionInvariant, PTL

\* A page that shows has a token, and its native cookie, if any, is of the same
\* account, although a signin stores the two at different moments (app of the guard).
THEOREM BrowserOfOneAccount ==
    ASSUME MaxDisturbances \in Nat
    PROVE  Session!Spec => []Session!OneAccount
<1>1. SessionInv => Session!OneAccount
  BY DEF SessionInv
<1> QED
  BY <1>1, SessionInvariant, PTL
=============================================================================
