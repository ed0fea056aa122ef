--------------------------- MODULE BrowserSession ---------------------------
(***************************************************************************)
(* One browser in front of the access proxy and the guard, across switches *)
(* of the account it is signed in with at the organization.  The proxy     *)
(* stamps each request with the account of that moment; the native cookie  *)
(* and the token in localStorage stay those of the account before, until   *)
(* the guard and the frontend replace them.                                *)
(*                                                                         *)
(* The frontend of the pinned Open WebUI image is modelled from how        *)
(* test/access/browser_runtime.py uses it and from the guard's comments:   *)
(* it starts with the token of localStorage, falls back to its signin page *)
(* when that token is refused, and signs in there with trusted headers.    *)
(***************************************************************************)
EXTENDS IdentityRules

CONSTANT MaxDisturbances  \* bound: switches, reloads and tokens that expire

ASSUME BoundAssumption == MaxDisturbances \in Nat

VARIABLES
    login,    \* account at the organization's session proxy
    valid,    \* native tokens Open WebUI accepts
    cookie,   \* native cookie, None if none
    local,    \* token in localStorage, None if none
    page,     \* what the page does next
    request,  \* the request under way, NoRequest if none
    disturbances

vars == <<login, valid, cookie, local, page, request, disturbances>>

\* "error": a 401 instead of a page.  "redirect": on the way to /auth.
Pages == {"error", "redirect", "boot", "auth", "app"}
NoRequest == [kind |-> "none", by |-> None, auth |-> None, cookie |-> None]
\* "body": the reply to a signin has come, and with it the cookie; its token,
\* in "auth", is not stored yet.
Requests == [kind : Kinds \cup {"body"}, by : Users, auth : Tokens \cup {None}, cookie : Tokens \cup {None}]

Init ==
    /\ login \in Users
    /\ valid \in SUBSET Tokens
    /\ cookie \in Tokens \cup {None} /\ local \in Tokens \cup {None}
    /\ page = "error" /\ request = NoRequest /\ disturbances = 0

Send(kind, auth) ==
    /\ request = NoRequest
    /\ request' = [kind |-> kind, by |-> login, auth |-> auth, cookie |-> cookie]
    /\ UNCHANGED <<login, valid, cookie, local, page, disturbances>>

\* The user opens or reloads the page once it has settled.
Navigate == page \in {"error", "app"} /\ Send("navigation", None)

\* The browser follows the redirect of the guard.
Follow == page = "redirect" /\ Send("navigation", None)

\* The frontend asks for its session user, or has no token to ask with.
Boot == page = "boot" /\ local # None /\ Send("api", local)
NoSession ==
    /\ page = "boot" /\ local = None /\ request = NoRequest
    /\ page' = "auth"
    /\ UNCHANGED <<login, valid, cookie, local, request, disturbances>>

\* The signin page, with whatever credentials the browser still has.
SignIn == page = "auth" /\ Send("signin", local)

\* The script of the signin page has read the reply.
Store ==
    /\ request.kind = "body" /\ request' = NoRequest
    /\ local' = request.auth /\ page' = "app"
    /\ UNCHANGED <<login, valid, cookie, disturbances>>

Verdict == Reply(request.kind, request.auth, request.cookie, request.by, valid)
Replied == request # NoRequest /\ request' = NoRequest /\ UNCHANGED <<login, disturbances>>

\* The pages of the frontend are the same for everyone.
Loaded ==
    /\ request.kind = "navigation" /\ Replied
    /\ page' = CASE Verdict = "passed" -> "boot"
                 [] Verdict = "cleared" -> "redirect"
                 [] Verdict = "denied" -> "error"
    /\ cookie' = IF Verdict = "cleared" THEN None ELSE cookie
    /\ UNCHANGED <<valid, local>>

SessionUser ==
    /\ request.kind = "api" /\ Replied
    /\ IF Verdict = "passed" THEN page' = "app" /\ UNCHANGED local
                             ELSE page' = "auth" /\ local' = None
    /\ UNCHANGED <<valid, cookie>>

\* Open WebUI issues a token for the trusted identity: the browser stores the
\* cookie with the reply, the script of the page the token of the body later.
SignedIn ==
    /\ request.kind = "signin"
    /\ IF Verdict = "passed"
       THEN \E t \in Tokens :
               /\ Owner[t] = request.by
               /\ valid' = valid \cup {t} /\ cookie' = t
               /\ request' = [request EXCEPT !.kind = "body", !.auth = t]
               /\ UNCHANGED page
       ELSE page' = "error" /\ request' = NoRequest /\ UNCHANGED <<valid, cookie>>
    /\ UNCHANGED <<login, local, disturbances>>

(***************************************************************************)
(* Disturbances, at any time between a request and its reply.              *)
(***************************************************************************)
Disturbed == disturbances < MaxDisturbances /\ disturbances' = disturbances + 1
Switch(u) ==
    /\ u # login /\ login' = u /\ Disturbed
    /\ UNCHANGED <<valid, cookie, local, page, request>>
Expire(t) ==
    /\ t \in valid /\ valid' = valid \ {t} /\ Disturbed
    /\ UNCHANGED <<login, cookie, local, page, request>>
\* A reload drops the request under way, or the reply nobody has read: of that
\* the cookie stays, beside a token that may be of another account.
Reload ==
    /\ request' = [kind |-> "navigation", by |-> login, auth |-> None, cookie |-> cookie]
    /\ Disturbed /\ UNCHANGED <<login, valid, cookie, local, page>>

Browser == Navigate \/ Follow \/ Boot \/ NoSession \/ SignIn \/ Store
Server == Loaded \/ SessionUser \/ SignedIn
Next ==
    \/ Browser \/ Server \/ Reload
    \/ \E u \in Users : Switch(u)
    \/ \E t \in Tokens : Expire(t)
Spec == Init /\ [][Next]_vars
\* The browser goes on, the server answers, and the user opens the page again.
FairSpec == Spec /\ WF_vars(Browser) /\ WF_vars(Server)

(***************************************************************************)
(* Properties.                                                             *)
(***************************************************************************)
\* Every variable keeps its type, and a reply always finds the page that asked.
TypeOK ==
    /\ login \in Users /\ valid \subseteq Tokens
    /\ cookie \in Tokens \cup {None} /\ local \in Tokens \cup {None}
    /\ page \in Pages /\ request \in Requests \cup {NoRequest}
    /\ request.kind = "api" => page = "boot"
    /\ request.kind \in {"signin", "body"} => page = "auth"
    /\ disturbances \in 0..MaxDisturbances

\* A page that shows acts for one account: it has a token to ask with, and the
\* native cookie its plain requests carry is of the same account.  A reload
\* between the cookie and the token of one signin does leave two accounts behind;
\* no page starts with them, because app of the guard wants both credentials of
\* the session user's request to be of the account that asks.
OneAccount ==
    page = "app" => /\ local # None
                    /\ cookie # None => Owner[local] = Owner[cookie]

Ready ==
    /\ page = "app" /\ local # None
    /\ \A t \in {cookie, local} \ {None} : matches(t, login, valid)

\* After the last account switch or expiry the browser ends signed in as the
\* account of the organization, with no credential of another one left, however
\* the switch fell between a request and its reply: no redirect loop, no 401 that
\* only clearing the browser would cure (stale_credential and trusted signin).
EndsSignedIn == []<>Ready
=============================================================================
