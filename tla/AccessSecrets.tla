---------------------------- MODULE AccessSecrets ----------------------------
(***************************************************************************)
(* The life of the access Secrets of one ChatUIInstance: the session       *)
(* Secret, the immutable configuration bundles, and the UID pins kept in   *)
(* status.accessSecretUIDs.  It models, one API call per step, what a      *)
(* reconcile pass does in prepareAccess, sessionSecret, pinAccessSecret,   *)
(* persistAccessSecretPins and makeAccessSecretRoom, and, one step each,   *)
(* what the rest of the pass means for these Secrets: denyAccess stops the *)
(* workload, reconcileDeployment installs a bundle after a clean cutover.  *)
(*                                                                         *)
(* A pass is the only writer of the pins (one manager, one worker), but    *)
(* anything may happen between two of its API calls: a spec write that     *)
(* moves the resourceVersion, a lost call or a crash, a deletion or a      *)
(* recreation of a Secret or of the Deployment, a pod that mounts bundles. *)
(***************************************************************************)
EXTENDS Integers, FiniteSets

CONSTANTS
    Bundles,          \* bundle names, one per configuration content
    Session,          \* the name of the session Secret
    None,             \* no bundle
    MaxAccessBundles, \* maxAccessBundles, 3 in the code
    MaxFaults,        \* bound: disturbances from outside and lost passes
    MaxRotations      \* bound: changes of the wanted configuration

ASSUME BundlesAssumption == IsFiniteSet(Bundles)
ASSUME NamesAssumption == Session \notin Bundles /\ None \notin Bundles \cup {Session}
ASSUME BoundAssumption ==
    /\ MaxAccessBundles \in Nat \ {0}
    /\ MaxFaults \in Nat /\ MaxRotations \in Nat

Names == Bundles \cup {Session}
Absent == 0           \* the UID of a missing Secret, and of a missing pin

Steps == {"idle", "session", "sessionCreate", "sessionPin", "bundle", "room",
          "scan", "delete", "confirm", "unpin", "create", "pin", "deploy"}

VARIABLES
    \* The API server
    uid,        \* [Names -> Nat]: UID of the stored Secret, Absent if none
    genuine,    \* names whose stored Secret is owned, immutable, well-formed
    deleting,   \* names whose stored Secret has a deletionTimestamp
    nextUid,    \* the UID the next created Secret gets
    pins,       \* [Names -> Nat]: status.accessSecretUIDs
    pruning,    \* the served CRD schema still drops accessSecretUIDs
    template,   \* bundle mounted by the Deployment's template, None if none
    running,    \* the Deployment asks for a replica
    pods,       \* bundles mounted by the Deployment's pods, terminating too
    held,       \* bundles mounted by other pods of the namespace
    desired,    \* bundle name the current configuration hashes to
    \* The reconcile pass
    pc,         \* its next API call
    stale,      \* the instance was written after the pass read it
    want,       \* bundle name this pass computed
    created,    \* UID the API server returned for this pass's last Create
    refs,       \* bundles found referenced by makeAccessSecretRoom
    victim,     \* bundle being retired
    victimUid,  \* UID it had when it was chosen, Absent if it was missing
    \* History and bounds
    minted,     \* [Names -> SUBSET Nat]: the UIDs of the Secrets a pass created
    faults,
    rotations

objects == <<uid, genuine, deleting, nextUid, minted>>
workload == <<template, running, pods, held>>
local == <<want, created, refs, victim, victimUid>>
bounds == <<faults, rotations>>
vars == <<uid, genuine, deleting, nextUid, pins, pruning, template, running, pods, held,
          desired, pc, stale, want, created, refs, victim, victimUid, minted, faults, rotations>>

Init ==
    /\ uid = [n \in Names |-> Absent]
    /\ genuine = {} /\ deleting = {} /\ nextUid = 1
    /\ pins = [n \in Names |-> Absent]
    /\ pruning \in BOOLEAN
    /\ template = None /\ running = FALSE /\ pods = {} /\ held = {}
    /\ desired \in Bundles
    /\ pc = "idle" /\ stale = FALSE
    /\ want = None /\ created = Absent /\ refs = {} /\ victim = None /\ victimUid = Absent
    /\ minted = [n \in Names |-> {}] /\ faults = 0 /\ rotations = 0

----------------------------------------------------------------------------
\* What the code reads off the stored objects

\* Mutant: a Secret of ours that no pin names is adopted.
Trusted_Orphan(n) ==
    uid[n] # Absent /\ n \in genuine /\ n \notin deleting /\ pins[n] \in {Absent, uid[n]}

\* A stored Secret is used only if it is ours, whole, not being deleted, and
\* has the UID that the status pinned.
Trusted(n) == uid[n] # Absent /\ n \in genuine /\ n \notin deleting /\ pins[n] = uid[n]

Pinned == {n \in Names : pins[n] # Absent}

\* Mutant: a count that forgets the session's own pin.
PinCount_ForgetsSession == Cardinality(Pinned \ {Session})

\* len(inst.Status.AccessSecretUIDs)
PinCount == Cardinality(Pinned)

\* Mutant: reads the templates and forgets the pods, which may be terminating.
References_NoPods == held \cup ({template} \ {None})

\* collectSecretReferences over every Deployment template and every Pod
References == pods \cup held \cup ({template} \ {None})

\* Mutant: the session Secret is a candidate like any other.
Candidates_WithSession == Pinned \ refs

\* Pinned bundles, the session's pin excepted, that nothing references
Candidates == (Pinned \ {Session}) \ refs

\* Mutant: takes a missing bundle for a replaced one.
HistoryMismatch_Missing ==
    \E b \in Pinned \ {Session} : ~(b \in genuine /\ uid[b] = pins[b])

\* A pinned bundle that is stored but is not the one that was pinned
HistoryMismatch ==
    \E b \in Pinned \ {Session} : uid[b] # Absent /\ ~(b \in genuine /\ uid[b] = pins[b])

\* sort.Slice: a missing Secret has the zero timestamp, and UIDs, which are
\* assigned in creation order, stand for the other timestamps.  Ties go by name;
\* the names are hashes, so any of the tied bundles may come first.
Oldest(b) == \A c \in Candidates : uid[b] <= uid[c]

----------------------------------------------------------------------------
\* How a pass proceeds

\* The pass's local variables are gone when it returns.
Return == /\ pc' = "idle" /\ stale' = FALSE
          /\ want' = None /\ created' = Absent /\ refs' = {}
          /\ victim' = None /\ victimUid' = Absent

\* denyAccess: the owned workload is stopped, the pass returns an error and is
\* retried.  The route it withdraws is the subject of module Reconciler.
Deny == Return /\ running' = FALSE

Goto(step) == pc' = step /\ UNCHANGED <<running, stale, want>>

\* A step that only reads
ReadThen(step) == Goto(step) /\ UNCHANGED <<created, refs, victim, victimUid>>

\* The API server stores a new Secret n, owned and immutable if ok.
Store(n, ok) ==
    /\ uid' = [uid EXCEPT ![n] = nextUid]
    /\ genuine' = IF ok THEN genuine \cup {n} ELSE genuine \ {n}
    /\ deleting' = deleting \ {n}
    /\ nextUid' = nextUid + 1

\* r.Create of Secret n: AlreadyExists if one is stored.
CreateSecret(n, step) ==
    /\ IF uid[n] = Absent
       THEN /\ Store(n, TRUE)
            /\ created' = nextUid
            /\ minted' = [minted EXCEPT ![n] = @ \cup {nextUid}]
            /\ Goto(step)
            /\ UNCHANGED <<refs, victim, victimUid>>
       ELSE Deny /\ UNCHANGED objects
    /\ UNCHANGED pins

\* persistAccessSecretPins: a status patch under the optimistic lock, then a
\* fresh read that fails the pass when the schema dropped the pins, and that
\* becomes the pass's instance.
Persist(newPins, step) ==
    /\ IF stale \/ pruning
       THEN Deny /\ UNCHANGED pins
       ELSE pins' = newPins /\ ReadThen(step)
    /\ UNCHANGED objects

\* pinAccessSecret, "access Secret history is full"
HistoryFull(n) == n \notin Pinned /\ PinCount > MaxAccessBundles

\* Mutant: pins whatever is stored under the name now.
PinSecret_ByName(n, step) ==
    IF HistoryFull(n)
    THEN Deny /\ UNCHANGED <<objects, pins>>
    ELSE Persist([pins EXCEPT ![n] = uid[n]], step)

\* pinAccessSecret: only the UID our own Create returned becomes a pin.
PinSecret(n, step) ==
    IF HistoryFull(n)
    THEN Deny /\ UNCHANGED <<objects, pins>>
    ELSE Persist([pins EXCEPT ![n] = created], step)

----------------------------------------------------------------------------
\* One reconcile pass

\* getInstance, AccessPolicy.Select and the read of the OIDC client credential
Begin ==
    /\ pc = "idle"
    /\ pc' = "session" /\ want' = desired
    /\ UNCHANGED <<objects, pins, running, stale, created, refs, victim, victimUid>>

\* sessionSecret: Get
SessionGet ==
    /\ pc = "session"
    /\ \/ Trusted(Session) /\ ReadThen("bundle")
       \/ uid[Session] # Absent /\ ~Trusted(Session) /\ Deny
       \/ uid[Session] = Absent /\ pins[Session] # Absent /\ Deny
       \/ uid[Session] = Absent /\ pins[Session] = Absent /\ ReadThen("sessionCreate")
    /\ UNCHANGED <<objects, pins>>

SessionCreate == pc = "sessionCreate" /\ CreateSecret(Session, "sessionPin")

SessionPin == pc = "sessionPin" /\ PinSecret(Session, "bundle")

\* prepareAccess: Get of the bundle this pass wants
BundleGet ==
    /\ pc = "bundle"
    /\ \/ Trusted(want) /\ ReadThen("deploy")
       \/ uid[want] # Absent /\ ~Trusted(want) /\ Deny
       \/ uid[want] = Absent /\ pins[want] # Absent /\ Deny
       \/ /\ uid[want] = Absent /\ pins[want] = Absent
          /\ ReadThen(IF PinCount <= MaxAccessBundles THEN "create" ELSE "room")
    /\ UNCHANGED <<objects, pins>>

\* makeAccessSecretRoom: List of the Deployments and of the Pods
RoomList ==
    /\ pc = "room"
    /\ refs' = References
    /\ Goto("scan")
    /\ UNCHANGED <<objects, pins, created, victim, victimUid>>

\* makeAccessSecretRoom: Get of each pinned bundle, choice of the one to retire
RoomScan ==
    /\ pc = "scan"
    /\ IF HistoryMismatch \/ Candidates = {}
       THEN Deny
       ELSE \E b \in Candidates :
              /\ Oldest(b)
              /\ victim' = b /\ victimUid' = uid[b]
              /\ Goto(IF uid[b] = Absent THEN "unpin" ELSE "delete")
              /\ UNCHANGED <<created, refs>>
    /\ UNCHANGED <<objects, pins>>

\* A stored Secret leaves the API server.
Removed(n) ==
    /\ uid' = [uid EXCEPT ![n] = Absent]
    /\ genuine' = genuine \ {n} /\ deleting' = deleting \ {n}

\* Deletion of a Secret: a finalizer turns it into a deletionTimestamp.
DeleteSecret(n) ==
    \/ Removed(n)
    \/ deleting' = deleting \cup {n} /\ UNCHANGED <<uid, genuine>>

\* makeAccessSecretRoom: Delete with UID and resourceVersion preconditions
RoomDelete ==
    /\ pc = "delete"
    /\ \/ uid[victim] = victimUid /\ ReadThen("confirm") /\ DeleteSecret(victim)
       \/ uid[victim] = Absent /\ ReadThen("confirm") /\ UNCHANGED <<uid, genuine, deleting>>
       \/ uid[victim] \notin {victimUid, Absent} /\ Deny /\ UNCHANGED <<uid, genuine, deleting>>
    /\ UNCHANGED <<nextUid, minted, pins>>

\* Mutant: the accepted Delete is taken for the Secret being gone.
RoomConfirm_Trusting ==
    /\ pc = "confirm"
    /\ ReadThen("unpin")
    /\ UNCHANGED <<objects, pins>>

\* makeAccessSecretRoom: Get after Delete, "waiting for ... deletion" if it is there
RoomConfirm ==
    /\ pc = "confirm"
    /\ IF uid[victim] = Absent THEN ReadThen("unpin") ELSE Deny
    /\ UNCHANGED <<objects, pins>>

\* makeAccessSecretRoom: forget the pin
RoomUnpin == pc = "unpin" /\ Persist([pins EXCEPT ![victim] = Absent], "create")

BundleCreate == pc = "create" /\ CreateSecret(want, "pin")

BundlePin == pc = "pin" /\ PinSecret(want, "deploy")

\* The API calls of prepareAccess; none of them touches the Deployment's template.
Prepare ==
    /\ \/ Begin \/ SessionGet \/ SessionCreate \/ SessionPin \/ BundleGet
       \/ RoomList \/ RoomScan \/ RoomDelete \/ RoomConfirm \/ RoomUnpin
       \/ BundleCreate \/ BundlePin
    /\ UNCHANGED <<template, pods, held, desired, pruning, faults, rotations>>

\* reconcileDeployment: create the Deployment, scale it up again, or, once no
\* pod of the old template is left, install the new bundle.
Install ==
    /\ pc = "deploy"
    /\ template \in {None, want} \/ (~running /\ pods = {})
    /\ template' = want /\ running' = TRUE /\ Return
    /\ UNCHANGED <<objects, pins, pods, held, desired, pruning, bounds>>

\* waitForAccessCutover: scale the old template down, try again later.
Cutover ==
    /\ pc = "deploy"
    /\ template \notin {None, want} /\ (running \/ pods # {})
    /\ running' = FALSE /\ Return
    /\ UNCHANGED <<objects, pins, template, pods, held, desired, pruning, bounds>>

\* A crash of the manager, or a failed API call, which denyAccess answers by
\* stopping the workload, if that call gets through.
Abort ==
    /\ pc # "idle" /\ faults < MaxFaults
    /\ Return /\ running' \in {running, FALSE}
    /\ faults' = faults + 1
    /\ UNCHANGED <<objects, pins, template, pods, held, desired, pruning, rotations>>

----------------------------------------------------------------------------
\* Everyone else

\* The Deployment controller starts a pod of the template.
PodStart ==
    /\ running /\ template \notin pods
    /\ pods' = pods \cup {template}
    /\ UNCHANGED <<objects, pins, stale, local, pc, template, running, held, desired, pruning, bounds>>

\* A terminating pod, with its mounts, is finally gone.
PodGone ==
    /\ \E b \in pods : (~running \/ b # template) /\ pods' = pods \ {b}
    /\ UNCHANGED <<objects, pins, stale, local, pc, template, running, held, desired, pruning, bounds>>

\* The configuration the policy, the client credential and the host hash to changes.
Rotate ==
    /\ rotations < MaxRotations
    /\ \E b \in Bundles \ {desired} : desired' = b
    /\ rotations' = rotations + 1
    /\ UNCHANGED <<objects, pins, stale, local, pc, workload, pruning, faults>>

\* The served CRD is upgraded and persists accessSecretUIDs from now on.
UpgradeSchema ==
    /\ pruning /\ pruning' = FALSE
    /\ UNCHANGED <<objects, pins, stale, local, pc, workload, desired, bounds>>

\* The sync agent or a user writes the instance: its resourceVersion moves on.
SpecWrite ==
    /\ pc # "idle" /\ ~stale /\ faults < MaxFaults
    /\ stale' = TRUE /\ faults' = faults + 1
    /\ UNCHANGED <<objects, pins, local, pc, workload, desired, pruning, rotations>>

\* Somebody deletes a Secret; a finalizer may keep it.
ForeignDelete ==
    /\ faults < MaxFaults
    /\ \E n \in Names : uid[n] # Absent /\ DeleteSecret(n)
    /\ faults' = faults + 1
    /\ UNCHANGED <<nextUid, minted, pins, stale, local, pc, workload, desired, pruning, rotations>>

\* Somebody creates a Secret under one of the names, perhaps copying our metadata.
ForeignCreate ==
    /\ faults < MaxFaults 
    /\ \E n \in Names, ok \in BOOLEAN : uid[n] = Absent /\ Store(n, ok)
    /\ faults' = faults + 1
    /\ UNCHANGED <<minted, pins, stale, local, pc, workload, desired, pruning, rotations>>

\* The last finalizer of a Secret being deleted is removed.
Finalized ==
    /\ \E n \in deleting : Removed(n)
    /\ UNCHANGED <<nextUid, minted, pins, stale, local, pc, workload, desired, pruning, bounds>>

\* Somebody deletes the Deployment: its pods terminate, still mounting their bundle.
DeploymentDeleted ==
    /\ faults < MaxFaults /\ template # None
    /\ template' = None /\ running' = FALSE
    /\ faults' = faults + 1
    /\ UNCHANGED <<objects, pins, stale, local, pc, pods, held, desired, pruning, rotations>>

\* A pod of the platform mounts every bundle there is, and goes away again.
ForeignPod ==
    /\ \/ /\ held = {} /\ faults < MaxFaults
          /\ held' = {b \in Bundles : uid[b] # Absent} /\ held' # {}
          /\ faults' = faults + 1
       \/ held # {} /\ held' = {} /\ UNCHANGED faults
    /\ UNCHANGED <<objects, pins, stale, local, pc, template, running, pods, desired, pruning, rotations>>

Pass == Prepare \/ Install \/ Cutover

Next ==
    \/ Pass \/ Abort
    \/ PodStart \/ PodGone \/ Rotate \/ UpgradeSchema \/ SpecWrite
    \/ ForeignDelete \/ ForeignCreate \/ Finalized \/ DeploymentDeleted \/ ForeignPod

\* The work queue always retries a pass and the manager restarts after a
\* crash; the Deployment controller and the kubelet do their work.
Fairness == WF_vars(Pass) /\ WF_vars(PodStart) /\ WF_vars(PodGone)

Spec == Init /\ [][Next]_vars /\ Fairness
----------------------------------------------------------------------------
TypeFlags == pruning \in BOOLEAN /\ stale \in BOOLEAN /\ running \in BOOLEAN

TypeShapes ==
    /\ uid \in [Names -> Nat] /\ pins \in [Names -> Nat]
    /\ genuine \subseteq Names /\ deleting \subseteq Names
    /\ nextUid \in Nat \ {0} /\ minted \in [Names -> SUBSET Nat]
    /\ template \in Bundles \cup {None} /\ desired \in Bundles
    /\ pods \subseteq Bundles /\ held \subseteq Bundles /\ refs \subseteq Bundles
    /\ pc \in Steps /\ want \in Bundles \cup {None} /\ victim \in Names \cup {None}
    /\ created \in Nat /\ victimUid \in Nat
    /\ faults \in 0..MaxFaults /\ rotations \in 0..MaxRotations

TypeOK == TypeFlags /\ TypeShapes

Mounted == pods \cup ({template} \ {None})

\* The history never outgrows its bound: the session pin and at most
\* maxAccessBundles configuration pins (access_secret_history.go, docs/access-policy.md).
HistoryBounded ==
    /\ Cardinality({b \in Bundles : pins[b] # Absent}) <= MaxAccessBundles
    /\ Cardinality({n \in Names : pins[n] # Absent}) <= MaxAccessBundles + 1

\* "Only the result of our successful Create may establish a pin": whatever
\* others create, delete or recreate between two calls, every pin names a
\* Secret that a pass itself created.  An orphan is never adopted.
PinsMinted == \A n \in Pinned : pins[n] \in minted[n]

\* "Never evict a live mount": every bundle that the Deployment's template or
\* one of its pods, terminating ones included, mounts is still pinned, and the
\* bundle being retired is not one of them, at the Delete as at the List.
LiveMountKept ==
    /\ Mounted \subseteq Pinned
    /\ pc \in {"delete", "confirm", "unpin"} => victim \notin Mounted

\* The session pin is permanent: once set it is never moved or dropped, so a
\* rotation of the configuration never changes the signing keys.
SessionPinPermanent == [][pins[Session] # Absent => pins'[Session] = pins[Session]]_vars

\* A pin is forgotten only once the Secret it names is gone, and a pin never
\* moves from one UID to another.
ForgottenOnlyWhenGone ==
    [][\A n \in Names : pins'[n] # pins[n] /\ pins[n] # Absent
            => pins'[n] = Absent /\ uid[n] # pins[n]]_vars

\* The inductive strengthening of the safety properties, in parts.

\* UIDs are fresh: every stored or minted one was assigned before.
UidsFresh ==
    /\ \A n \in Names : uid[n] < nextUid
    /\ \A n \in Names : \A u \in minted[n] : u # Absent /\ u < nextUid

\* A pass about to pin holds the UID its own Create returned.
CreatedIsMinted ==
    /\ pc = "sessionPin" => created # Absent /\ created \in minted[Session]
    /\ pc = "pin" => created # Absent /\ created \in minted[want]

\* The session is pinned before any bundle is looked at.
SessionFirst ==
    /\ pins[Session] = Absent => Pinned = {}
    /\ pc \in {"sessionCreate", "sessionPin"} => pins[Session] = Absent
    /\ pc \in Steps \ {"idle", "session", "sessionCreate", "sessionPin"} => pins[Session] # Absent

\* What the pass knows of the bundle it wants
WantKnown ==
    /\ pc # "idle" => want \in Bundles
    /\ pc \in {"room", "scan", "delete", "confirm", "unpin", "create", "pin"} => pins[want] = Absent
    /\ pc = "deploy" => pins[want] # Absent

\* What it knows while it retires one: the references it listed still cover
\* every mount, the victim is none of them, and it is gone before it is forgotten.
RetirementSound ==
    /\ pc \in {"scan", "delete", "confirm", "unpin"} => Mounted \subseteq refs
    /\ pc \in {"delete", "confirm", "unpin"} => victim \in Candidates
    /\ pc = "unpin" => uid[victim] # pins[victim]

\* No pod outlives the Deployment's template but by terminating; it runs only with one.
RunningHasTemplate == running => template # None

IInv ==
    /\ TypeOK /\ UidsFresh /\ CreatedIsMinted /\ SessionFirst /\ WantKnown
    /\ RetirementSound /\ RunningHasTemplate
    /\ PinsMinted /\ Mounted \subseteq Pinned
    /\ Cardinality(Pinned) <= MaxAccessBundles + 1

\* Nothing that only an operator can repair is in the way: what must be trusted
\* is trusted or can still be created, no retained bundle was replaced, none is
\* held by a stranger's pod or by a finalizer, the schema keeps the pins.
NoRecoveryNeeded ==
    /\ ~pruning /\ held = {} /\ deleting = {}
    /\ \A n \in {Session, desired} : Trusted(n) \/ (uid[n] = Absent /\ pins[n] = Absent)
    /\ \A b \in Bundles : pins[b] # Absent /\ uid[b] # Absent => b \in genuine /\ uid[b] = pins[b]

\* A rollout always completes: unless operator recovery is needed, the workload
\* ends up running the wanted bundle.  In particular a retirement interrupted
\* by a crash between the deletion and the status patch is finished later.
RolloutCompletes ==
    <>[]NoRecoveryNeeded => <>[](template = desired /\ running /\ pods = {desired})

\* The API calls of a pass, the workload and everyone who interferes implement
\* the ledger of module AccessRegistry.
Registry == INSTANCE AccessRegistry WITH
                Limit <- MaxAccessBundles, stored <- uid, used <- 1..(nextUid - 1),
                issued <- minted, ledger <- pins, mounted <- Mounted

\* Whatever happens between two calls, what others observe of the access Secrets
\* is a behaviour of that ledger (access_resources.go, access_secret_history.go).
ImplementsRegistry == Registry!Spec
=============================================================================
