-------------------------- MODULE MCManagedTemplate --------------------------
(***************************************************************************)
(* Two things to execute and one size beside none.                         *)
(***************************************************************************)
EXTENDS ManagedTemplate

CONSTANTS w1, w2, large
MCWanted == {w1, w2}
MCSizes == {large}
=============================================================================
