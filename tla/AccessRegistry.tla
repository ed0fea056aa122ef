--------------------------- MODULE AccessRegistry ---------------------------
(***************************************************************************)
(* What the access Secrets of an instance promise, without the API calls:  *)
(* a bounded ledger of the Secrets the operator itself made, out of which   *)
(* alone workloads mount, and which forgets only what nobody mounts and    *)
(* what no longer exists.  AccessSecrets implements it.                    *)
(***************************************************************************)
EXTENDS Integers, FiniteSets

CONSTANTS
    Bundles,    \* names of configurations
    Session,    \* the name of the session keys
    Limit       \* configurations remembered at most

Names == Bundles \cup {Session}
Nothing == 0    \* no identity

VARIABLES
    stored,     \* [Names -> Nat]: identity of the object now under each name
    used,       \* identities given out so far
    issued,     \* [Names -> SUBSET Nat]: identities of the operator's own objects
    ledger,     \* [Names -> Nat]: the identity trusted under each name
    mounted     \* configurations that workloads mount

vars == <<stored, used, issued, ledger, mounted>>

Init ==
    /\ stored = [n \in Names |-> Nothing] /\ used = {}
    /\ issued = [n \in Names |-> {}]
    /\ ledger = [n \in Names |-> Nothing] /\ mounted = {}

Recorded == {n \in Names : ledger[n] # Nothing}

\* A new object appears under a free name, with an identity never used before;
\* the operator knows which it made.
Appear(n) ==
    /\ stored[n] = Nothing
    /\ stored'[n] \in Nat \ (used \cup {Nothing})
    /\ stored' = [stored EXCEPT ![n] = stored'[n]] /\ used' = used \cup {stored'[n]}
    /\ issued' \in {issued, [issued EXCEPT ![n] = @ \cup {stored'[n]}]}
    /\ UNCHANGED <<ledger, mounted>>

Vanish(n) ==
    /\ stored' = [stored EXCEPT ![n] = Nothing]
    /\ UNCHANGED <<used, issued, ledger, mounted>>

\* Only what the operator made is recorded, the session keys first.
Record(n) ==
    /\ ledger[n] = Nothing /\ (n # Session => ledger[Session] # Nothing)
    /\ Cardinality(Recorded) <= Limit
    /\ \E u \in issued[n] : ledger' = [ledger EXCEPT ![n] = u]
    /\ UNCHANGED <<stored, used, issued, mounted>>

\* Only what no workload mounts, and what is gone, is forgotten; the session
\* keys never are.
Forget(b) ==
    /\ b \in Recorded \ mounted /\ stored[b] # ledger[b]
    /\ ledger' = [ledger EXCEPT ![b] = Nothing]
    /\ UNCHANGED <<stored, used, issued, mounted>>

\* A workload mounts a recorded configuration, in addition or instead.
Mount(b) ==
    /\ b \in Recorded
    /\ b \in mounted' /\ mounted' \subseteq mounted \cup {b}
    /\ UNCHANGED <<stored, used, issued, ledger>>

Unmount ==
    /\ mounted' \subseteq mounted
    /\ UNCHANGED <<stored, used, issued, ledger>>

Next ==
    \/ \E n \in Names : Appear(n) \/ Vanish(n) \/ Record(n)
    \/ \E b \in Bundles : Forget(b) \/ Mount(b)
    \/ Unmount

Spec == Init /\ [][Next]_vars
=============================================================================
