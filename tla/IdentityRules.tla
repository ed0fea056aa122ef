---------------------------- MODULE IdentityRules ----------------------------
(***************************************************************************)
(* What the access proxy and the guard in front of Open WebUI do with one  *)
(* request: the headers the proxy passes on (stripIdentity and Rewrite of  *)
(* internal/accessgate), the identity the guard reads from them, and what  *)
(* it does with the native credentials the request carries (identity,      *)
(* matches, stale_credential and app of internal/webuiguard).              *)
(* A header is a record of its name, its value and the line it stands on,  *)
(* so that a repeated header is two members of a set.                      *)
(***************************************************************************)
EXTENDS Integers, FiniteSets

CONSTANTS
    Users,   \* application identities, one per verified issuer and subject
    Tokens,  \* native credentials Open WebUI may issue
    Owner,   \* [Tokens -> Users]: the account a token is for
    None

ASSUME UsersAssumption == None \notin Users \cup Tokens
ASSUME OwnerAssumption == Owner \in [Tokens -> Users]

(***************************************************************************)
(* The proxy's headers.                                                    *)
(***************************************************************************)
\* What Open WebUI and the guard trust, and what is passed on as it came.
Trusted == {"email", "role", "proto", "host"}
Passed == {"authorization", "other"}
HeaderNames == Trusted \cup Passed

stripIdentity(H) == {h \in H : h.name \notin Trusted}
SetHeader(H, name, value) == {h \in H : h.name # name} \cup {[name |-> name, value |-> value, line |-> 0]}

\* net/http removes the headers that Connection nominates, then calls Rewrite.
Rewritten(H, u) ==
    SetHeader(SetHeader(SetHeader(SetHeader(stripIdentity(H),
        "email", u), "role", "user"), "proto", "https"), "host", "ours")
\* Mutant: a Director, which net/http calls before it removes those headers.
Upstream_Director(H, nominated, u) == {h \in Rewritten(H, u) : h.name \notin nominated}
Upstream(H, nominated, u) == Rewritten({h \in H : h.name \notin nominated}, u)

(***************************************************************************)
(* The guard.                                                              *)
(***************************************************************************)
\* Exactly one email line, of an identity of this application, and one role.
identity(H) ==
    IF \E h \in H, g \in H :
          /\ {k \in H : k.name = "email"} = {h} /\ h.value \in Users
          /\ {k \in H : k.name = "role"} = {g} /\ g.value = "user"
    THEN (CHOOSE h \in H : h.name = "email").value
    ELSE None

\* "valid" are the tokens get_verified_user_by_token accepts, of accounts with
\* the role of an ordinary user.
matches(t, u, valid) == t \in valid /\ Owner[t] = u

Kinds == {"signin", "version", "navigation", "api"}

\* Signin and the public version lose the credentials of the request; anything
\* else needs each of them to belong to the identity of the request.
Stripped(kind) == kind \in {"signin", "version"}
Bound(kind, auth, cookie, u, valid) ==
    \/ Stripped(kind)
    \/ /\ auth # None => matches(auth, u, valid)
       /\ cookie # None => matches(cookie, u, valid)

\* What the application is given: the credential it acts on, None for none.
Credential(kind, auth, cookie) ==
    IF Stripped(kind) THEN None ELSE IF auth # None THEN auth ELSE cookie

\* The reply of the guard itself to a request it does not pass on: a navigation
\* goes to the signin page and loses its cookie, anything else gets a 401.
\* Mutant: a navigation is denied like any other request.
stale_credential_Deny(kind) == "denied"
stale_credential(kind) == IF kind = "navigation" THEN "cleared" ELSE "denied"
Reply(kind, auth, cookie, u, valid) ==
    IF Bound(kind, auth, cookie, u, valid) THEN "passed" ELSE stale_credential(kind)
=============================================================================
