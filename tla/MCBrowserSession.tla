-------------------------- MODULE MCBrowserSession --------------------------
(* BrowserSession on a small instance: two accounts, one of them with two     *)
(* tokens.                                                                    *)
EXTENDS BrowserSession, TLC

CONSTANTS alice, bob, a1, a2, b1

MCUsers == {alice, bob}
MCTokens == {a1, a2, b1}
MCOwner == (a1 :> alice) @@ (a2 :> alice) @@ (b1 :> bob)
=============================================================================
