--------------------------- MODULE WorkloadRollout ---------------------------
(***************************************************************************)
(* What a reconciled instance shows the world, without the API calls: one  *)
(* configuration at a time, replaced only while nothing of it runs and no  *)
(* route leads to it, and a route that is opened towards no configuration  *)
(* but one of the current controller.  Reconciler implements it.           *)
(***************************************************************************)
CONSTANTS
    Guarded,    \* configurations of the current controller
    Nothing     \* no configuration

VARIABLES
    installed,  \* the configuration of the workload
    running,    \* configurations its controller keeps pods of
    exposed     \* a route of the instance exists

vars == <<installed, running, exposed>>

Init ==
    /\ running = {} \/ (running = {installed} /\ installed # Nothing)
    /\ exposed \in BOOLEAN

\* A configuration takes the place of another one, after a clean cutover, or of
\* none at all.
Install(c) ==
    /\ running = {} /\ (installed = Nothing \/ ~exposed)
    /\ installed' = c
    /\ UNCHANGED <<running, exposed>>

Run ==
    /\ installed # Nothing /\ running' \subseteq {installed}
    /\ UNCHANGED <<installed, exposed>>

\* The route is opened while the workload, if there is one, is guarded.
Expose ==
    /\ ~exposed /\ installed \in Guarded \cup {Nothing}
    /\ exposed' = TRUE
    /\ UNCHANGED <<installed, running>>

Conceal == exposed' = FALSE /\ UNCHANGED <<installed, running>>

\* The workload is removed from outside, perhaps with the route.
Lose ==
    /\ installed' = Nothing /\ running' = {}
    /\ exposed' \in {exposed, FALSE}

Next == (\E c \in Guarded : Install(c)) \/ Run \/ Expose \/ Conceal \/ Lose

Spec == Init /\ [][Next]_vars
=============================================================================
