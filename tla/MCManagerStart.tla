--------------------------- MODULE MCManagerStart ---------------------------
(***************************************************************************)
(* Files of up to two entries.  The two files are parsed independently, so *)
(* that one of them is kept empty: with entries in the hostname policy the *)
(* access policy is empty and valid.                                       *)
(***************************************************************************)
EXTENDS ManagerStart, TLC

CONSTANTS u1, u2, d1, d2, old, older

MCUids == {u1, u2}
MCReserved == {d1, d2}
MCSlugs == {d1, d2, old, older}
MCDigest == (u1 :> d1) @@ (u2 :> d2)
MCTooLong == {older}

EmptyAccess == mappings = <<>> /\ header = [server |-> "origin", ca |-> "pem", pinned |-> TRUE]
MCInit == (EmptyAccess /\ StartInit) \/ (file = <<>> /\ StartInit)
MCSpec == MCInit /\ [][StartNext]_<<vars, access>>
=============================================================================
