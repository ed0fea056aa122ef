---------------------------- MODULE MCAccessGate ----------------------------
(* AccessGate on a small instance: two tokens of one account, with different  *)
(* lifetimes.                                                                 *)
EXTENDS AccessGate, TLC

CONSTANTS long, short, alice

MCTokens == {long, short}
MCAccounts == {alice}
MCAccount == (long :> alice) @@ (short :> alice)
MCExpiry == (long :> Horizon - 1) @@ (short :> Horizon \div 2)
=============================================================================
