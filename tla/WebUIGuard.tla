----------------------------- MODULE WebUIGuard -----------------------------
(***************************************************************************)
(* The guard around the event handlers of Open WebUI's Socket.IO server,   *)
(* and around its HTTP application, behind the access proxy.  Requests     *)
(* come from any verified identity with any native credential: its own, a  *)
(* peer's, one that is no longer valid.                                    *)
(*                                                                         *)
(* Every event is handled by a task of its own, and a task stops at each   *)
(* await: the session it read, the tokens it matched and the socket itself *)
(* may have changed when it goes on.                                       *)
(***************************************************************************)
EXTENDS IdentityRules

CONSTANTS
    Sids,       \* sockets; a sid is never used twice
    Tasks,      \* slots for handlers running at the same time
    Callers,    \* the sets of headers a client may send
    MaxEvents   \* bound: events that reach a handler

ASSUME BoundsAssumption == MaxEvents \in Nat

VARIABLES
    valid,    \* tokens issued and neither expired nor revoked
    life,     \* [Sids -> "new", "open", "gone"]
    env,      \* [Sids -> Users \cup {None}]: identity in the environ of the socket
    session,  \* [Sids -> Tokens \cup {None}]: token of the socket's session
    task,     \* [Tasks -> record]: handlers under way
    acted,    \* history: <<u, o>> if the application acted for the account o in
              \* an event or request the proxy passed on for the identity u
    unseen,   \* history: identities whose request the guard found without identity
    events    \* number of events so far

vars == <<valid, life, env, session, task, acted, unseen, events>>

Names == {"connect", "user-join", "disconnect", "event"}
\* Where a task is: its next await, or its call of the original handler.
Steps == {"idle", "session", "match", "kick", "payload", "join", "run"}
NoTask == [step |-> "idle", name |-> "event", sid |-> None, by |-> None, email |-> None,
           payload |-> None, token |-> None]
TaskRecords == [step : Steps, name : Names, sid : Sids \cup {None}, by : Users \cup {None},
                email : Users \cup {None}, payload : Tokens \cup {None}, token : Tokens \cup {None}]

Init ==
    /\ valid = {}
    /\ life = [s \in Sids |-> "new"] /\ env = [s \in Sids |-> None]
    /\ session = [s \in Sids |-> None]
    /\ task = [k \in Tasks |-> NoTask]
    /\ acted = {} /\ unseen = {} /\ events = 0

End(k) == task' = [task EXCEPT ![k] = NoTask]
Goto(k, step) == task' = [task EXCEPT ![k].step = step]
Acts(u, t) == acted' = IF t = None THEN acted ELSE acted \cup {<<u, Owner[t]>>}

(***************************************************************************)
(* HTTP.  Nothing a request reads between its awaits changes but validity, *)
(* and an owner is for ever, so that a request is one step.                *)
(***************************************************************************)
\* What the guard may see of a request the proxy verified for an identity, over
\* the headers clients send and nominate for removal.
Nominations == SUBSET {"email", "role"}
SeenOf == [u \in Users |-> {identity(Upstream(H, n, u)) : H \in Callers, n \in Nominations}]

\* Trusted signin gives a new token of the account the guard saw.
Signin(u, seen, t) ==
    /\ t \notin valid /\ Owner[t] = seen
    /\ valid' = valid \cup {t}
    /\ Acts(u, t)
    /\ UNCHANGED <<life, env, session, task, unseen, events>>

\* A request that passes the guard; one without an identity gets a 401.
Request(u, seen, kind, auth, cookie) ==
    /\ kind # "signin"
    /\ seen # None => Bound(kind, auth, cookie, seen, valid)
    /\ unseen' = IF seen = None THEN unseen \cup {u} ELSE unseen
    /\ Acts(u, IF seen = None THEN None ELSE Credential(kind, auth, cookie))
    /\ UNCHANGED <<valid, life, env, session, task, events>>

\* A token expires, or its account or session is removed.
Invalidate(t) ==
    /\ t \in valid /\ valid' = valid \ {t}
    /\ UNCHANGED <<life, env, session, task, acted, unseen, events>>

(***************************************************************************)
(* Sockets.                                                                *)
(***************************************************************************)
\* The first request of a socket: its headers stay in the environ.
Handshake(s, seen) ==
    /\ life[s] = "new" /\ seen # None
    /\ life' = [life EXCEPT ![s] = "open"]
    /\ env' = [env EXCEPT ![s] = seen]
    /\ UNCHANGED <<valid, session, task, acted, unseen, events>>

\* Whose request may carry events of a socket: a WebSocket belongs to the
\* identity of its handshake, a poll is compared with it.
\* Mutant: polls are not compared.
Carries_AnyPoll(s, u) == env[s] # None
Carries(s, u) == env[s] = u

\* An event reaches its handler.  A connect goes to match its credential, a
\* user-join to the checks of its payload, a disconnect to the original.
First(name) ==
    CASE name = "connect" -> "match"
      [] name = "event" -> "session"
      [] name = "user-join" -> "payload"
      [] name = "disconnect" -> "run"

Event(k, s, u, name, payload) ==
    /\ events < MaxEvents /\ events' = events + 1
    /\ task[k].step = "idle" /\ life[s] = "open" /\ Carries(s, u)
    /\ name = "disconnect" => payload = None
    /\ task' = [task EXCEPT ![k] = [step |-> First(name), name |-> name, sid |-> s, by |-> u,
                                    email |-> env[s], payload |-> payload,
                                    token |-> IF name = "connect" THEN payload ELSE None]]
    /\ UNCHANGED <<valid, life, env, session, acted, unseen>>

\* The socket's session, which is missing before a join and gone with the socket.
ReadSession(k) ==
    LET s == task[k].sid
    IN  /\ task[k].step = "session"
        /\ \/ (life[s] # "open" \/ session[s] = None) /\ End(k)
           \/ /\ life[s] = "open" /\ session[s] # None
              /\ task' = [task EXCEPT ![k].token = session[s], ![k].step = "match"]
        /\ UNCHANGED <<valid, life, env, session, acted, unseen, events>>

\* The credential of a connect, or of the session.  A connect that does not
\* match goes on without its credential; an event ends with the socket.
\* Mutant: a credential that does not match is passed on with the connect.
MatchConnect_PassOn(k) ==
    /\ task[k].step = "match" /\ task[k].name = "connect"
    /\ Goto(k, "run")
    /\ UNCHANGED <<valid, life, env, session, acted, unseen, events>>
MatchConnect(k) ==
    /\ task[k].step = "match" /\ task[k].name = "connect"
    /\ task' = [task EXCEPT ![k].step = "run",
                            ![k].payload = IF matches(@, task[k].email, valid) THEN @ ELSE None]
    /\ UNCHANGED <<valid, life, env, session, acted, unseen, events>>
MatchSession(k) ==
    /\ task[k].step = "match" /\ task[k].name = "event"
    /\ Goto(k, IF matches(task[k].token, task[k].email, valid) THEN "payload" ELSE "kick")
    /\ UNCHANGED <<valid, life, env, session, acted, unseen, events>>

\* A credential in the payload; a user-join is asked for it once more.
MatchPayload(k) ==
    /\ task[k].step = "payload"
    /\ IF task[k].payload # None /\ ~matches(task[k].payload, task[k].email, valid)
       THEN End(k)
       ELSE Goto(k, IF task[k].name = "user-join" THEN "join" ELSE "run")
    /\ UNCHANGED <<valid, life, env, session, acted, unseen, events>>
MatchJoin(k) ==
    /\ task[k].step = "join"
    /\ IF matches(task[k].payload, task[k].email, valid) THEN Goto(k, "run") ELSE End(k)
    /\ UNCHANGED <<valid, life, env, session, acted, unseen, events>>

Gone(s) ==
    /\ life' = [life EXCEPT ![s] = "gone"]
    /\ env' = [env EXCEPT ![s] = None] /\ session' = [session EXCEPT ![s] = None]

Kick(k) ==
    /\ task[k].step = "kick"
    /\ Gone(task[k].sid) /\ End(k)
    /\ UNCHANGED <<valid, acted, unseen, events>>

\* The original handler.  A connect or a join stores its credential in the
\* session; an event acts for the session as it is now and for its payload.
RunJoin(k) ==
    LET s == task[k].sid
    IN  /\ task[k].step = "run" /\ task[k].name \in {"connect", "user-join"}
        /\ session' = IF life[s] = "open" /\ task[k].payload # None
                      THEN [session EXCEPT ![s] = task[k].payload] ELSE session
        /\ Acts(task[k].by, task[k].payload)
        /\ End(k) /\ UNCHANGED <<valid, life, env, unseen, events>>
RunEvent(k) ==
    LET s == task[k].sid
    IN  /\ task[k].step = "run" /\ task[k].name = "event"
        /\ acted' = acted \cup {<<task[k].by, Owner[t]>> : t \in {session[s], task[k].payload} \ {None}}
        /\ End(k) /\ UNCHANGED <<valid, life, env, session, unseen, events>>
RunDisconnect(k) ==
    /\ task[k].step = "run" /\ task[k].name = "disconnect"
    /\ Gone(task[k].sid) /\ End(k)
    /\ UNCHANGED <<valid, acted, unseen, events>>

\* The transport ends: the proxy cancelled the stream, or the client left.
Closed(s) == life[s] = "open" /\ Gone(s) /\ UNCHANGED <<valid, task, acted, unseen, events>>

Credentials == Tokens \cup {None}
Web(u, seen) ==
    \/ \E t \in Tokens : Signin(u, seen, t)
    \/ \E kind \in Kinds, auth \in Credentials, cookie \in Credentials :
          Request(u, seen, kind, auth, cookie)
    \/ \E s \in Sids : Handshake(s, seen)
Handle(k) ==
    \/ ReadSession(k) \/ MatchConnect(k) \/ MatchSession(k) \/ MatchPayload(k) \/ MatchJoin(k)
    \/ Kick(k) \/ RunJoin(k) \/ RunEvent(k) \/ RunDisconnect(k)

Next ==
    \/ \E u \in Users : \E seen \in SeenOf[u] : Web(u, seen)
    \/ \E t \in Tokens : Invalidate(t)
    \/ \E k \in Tasks, s \in Sids, u \in Users, name \in Names, p \in Credentials :
          Event(k, s, u, name, p)
    \/ \E k \in Tasks : Handle(k)
    \/ \E s \in Sids : Closed(s)
Spec == Init /\ [][Next]_vars

(***************************************************************************)
(* Properties.                                                             *)
(***************************************************************************)
\* Every variable keeps its type, and a socket has an identity while it is open.
TypeOK ==
    /\ valid \subseteq Tokens
    /\ life \in [Sids -> {"new", "open", "gone"}]
    /\ env \in [Sids -> Users \cup {None}]
    /\ \A s \in Sids : life[s] = "open" <=> env[s] # None
    /\ session \in [Sids -> Tokens \cup {None}]
    /\ task \in [Tasks -> TaskRecords]
    /\ acted \subseteq Users \X Users /\ unseen \subseteq Users
    /\ events \in 0..MaxEvents

\* The application never acts for an account other than the one the proxy
\* verified for the request that carried the event, however the awaits of the
\* handlers, joins, account switches, polls and disconnects interleave.
ActsAsVerified == \A pair \in acted : pair[1] = pair[2]

\* The session of a socket belongs to the identity of the handshake for as long
\* as the socket lives: a peer's credential in a connect or a join never gets in.
SessionBound == \A s \in Sids : session[s] # None => Owner[session[s]] = env[s]

\* Whatever headers the client sends, and whichever of them its Connection header
\* nominates for removal, the guard finds the identity the proxy verified: no
\* verified request is turned away as anonymous.
IdentityArrives == unseen = {}
=============================================================================
