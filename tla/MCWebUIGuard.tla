---------------------------- MODULE MCWebUIGuard ----------------------------
(* WebUIGuard on a small instance: two identities, one of them with two        *)
(* tokens, and clients that send their own identity and role headers.         *)
EXTENDS WebUIGuard, TLC

CONSTANTS alice, bob, a1, a2, b1

MCUsers == {alice, bob}
MCTokens == {a1, a2, b1}
MCOwner == (a1 :> alice) @@ (a2 :> alice) @@ (b1 :> bob)

Forged == {[name |-> "email", value |-> bob, line |-> 1], [name |-> "email", value |-> bob, line |-> 2],
           [name |-> "role", value |-> "admin", line |-> 1], [name |-> "role", value |-> "user", line |-> 2],
           [name |-> "other", value |-> "x", line |-> 1]}
MCCallers == SUBSET Forged

\* The two handlers and the two sockets are alike.
Symmetry == Permutations(Tasks) \cup Permutations(Sids)
=============================================================================
