-------------------------- MODULE CredentialsState --------------------------
(***************************************************************************)
(* What the watches keep, and what must hold of it: the state of module    *)
(* CredentialsWatch and its invariants.  They are apart from its steps so  *)
(* that a module about the whole manager can state them too.               *)
(***************************************************************************)
EXTENDS Integers, FiniteSets

CONSTANTS
    Insts,        \* instances of one namespace
    Secrets,      \* Secrets of that namespace
    Data,         \* what a Secret may contain
    None,         \* no Secret, no workload, nothing read
    MaxChanges,   \* bound: changes of Secrets, references and images
    MaxFaults     \* bound: failed lists, failed calls, restarts

\* Objects of two kinds; a namespace has finitely many.
ASSUME KindsAssumption == IsFiniteSet(Insts) /\ Insts \cap Secrets = {}
ASSUME BoundsAssumption == MaxChanges \in Nat /\ MaxFaults \in Nat

VARIABLES
    data,     \* [Secrets -> contents], as stored
    cached,   \* the same, as the manager's cache has it
    inst,     \* [Insts -> reference, and whether its image is supported]
    listed,   \* the same, as the cache has it
    unseen,   \* Secrets and instances with a change the cache has not seen
    client,   \* the OIDC client credential: how often it was rotated
    dep,      \* [Insts -> the workload]
    queue,    \* work queue: instances to reconcile, oldest first
    timers,   \* instances with a requeue pending: RequeueAfter or backoff
    pass,     \* the pass the worker runs
    past,     \* history: [Secrets -> checksums of what the Secret contained]
    changes, faults

----------------------------------------------------------------------------
\* The checksum of a workload is one its own Secret had, the Secret its pods take
\* their environment from: a pass that goes on with the instance as stored later,
\* or with a Secret read at another moment, never mixes two Secrets (Reconcile
\* reads spec.credentialsSecretRef twice, with a reread of the instance between).
SumOfReference == \A i \in Insts : dep[i] # None => dep[i].sum \in past[dep[i].ref]

\* Nobody is forgotten: an instance is queued, due again, being reconciled, or about
\* to be queued by an event that is still under way, whatever was lost, refused or
\* restarted. The one exception is a refused image, which waits for the spec to
\* change; its workload is stopped, and that change is an event (rejectImage).
Due(i) ==
    \/ i \in {queue[n] : n \in DOMAIN queue} \cup timers \cup unseen
    \/ pass.pc # "idle" /\ pass.inst = i
NeverForgotten ==
    \A i \in Insts : Due(i) \/ (~inst[i].imageOk /\ (dep[i] = None \/ ~dep[i].on))
=============================================================================
