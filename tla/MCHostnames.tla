----------------------------- MODULE MCHostnames -----------------------------
(* Hostnames on a small instance: two names of instances, three UIDs, two     *)
(* hosts of which a wildcard covers one.                                      *)
EXTENDS Hostnames, TLC

CONSTANTS u1, u2, u3, ha, hb

\* Three policies: the second swaps the hosts of two instances, the third gives
\* one of these hosts to a third instance and none to the first.
Hosts2 == {ha, hb}
Covered1 == {ha}
Policies2 ==
    { (u1 :> ha @@ u2 :> hb @@ u3 :> None), (u1 :> hb @@ u2 :> ha @@ u3 :> None),
      (u1 :> None @@ u2 :> ha @@ u3 :> hb) }
=============================================================================
