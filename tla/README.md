# Verification of the Chat UI operator

TLA+ models of the Chat UI operator (`src/`), checked with TLC and proved with
TLAPS. `PROJECT.json` lists the components, the runs with their properties, a
mutant for each property, the source lines every definition stands for, the
hazards of the code and the theorems.

    tlasany M.tla                      parse a module
    tlc -config X.cfg M                check a model (the runs are listed below)
    tlapm M.tla                        check the proofs of a module

## 1. The system

The operator turns a `ChatUIInstance` (written by the sync agent, which mirrors
a tenant's object in KCP) into one Open WebUI instance: access Secrets, a
Deployment, a Service and an Ingress. Users reach it through an OAuth2 proxy and
an access gate, both sidecars of the application.

| Component | State | Operations | Interacts through | Models |
|---|---|---|---|---|
| Reconcile loop (`internal/controller/chatuiinstance_controller.go`, `access_resources.go`, `image_policy.go`, `hostname_policy.go`) | none of its own but the local variables of a pass; the objects of the API server | one pass: deletion, image check, replica check, hostname, access, finalizer, credentials, Deployment (with cutover), Service, Ingress, readiness, status; refusals that withdraw the route, stop the workload and clear the status | API calls, some through a cache; watches wake it; the Deployment controller, the kubelet and the garbage collector act on what it writes | `Reconciler` |
| Access Secrets (`access_resources.go`, `access_secret_history.go`) | session Secret, immutable bundles, UID pins in `status.accessSecretUIDs` | create, pin, retire | called by the reconcile loop; bundles are mounted by the Deployment's pods | `AccessSecrets` |
| Managed pod template (`buildDeployment`, `applyAccessDeployment`, `managedAccessTemplate`) | the Deployment's template | build, normalise, merge, compare | shared with the API server's defaults and the platform | `ManagedTemplate` |
| Managed Ingress and Service (`buildDesiredIngress`, `ensureIngress*`, `reconcileService`) | the two objects | build, ensure each part | shared with other writers; the labelling client of `cmd/main.go` | `IngressRoute` |
| Watches and credentials (`SetupWithManager`, `findChatUIInstancesForSecret`, `computeSecretChecksum`) | work queue, timers, cache | map an event, requeue | cache of the API server | `CredentialsWatch` |
| Hostname policy (`internal/hostnamepolicy`) | an immutable table | parse, validate with PUBLIC_HOST, select a name | called by the reconcile loop | `HostnamePolicy` |
| Hostname claims (`checkHostname`) | the Ingresses of the cluster | check for other claims, twice in a pass | several instances and other controllers | `Hostnames` |
| Access policy (`internal/accesspolicy`) | an immutable table | parse, select a mapping | called by `prepareAccess`; the proxy validates what is written from it | `AccessPolicy` |
| Access gate (`internal/accessgate`, `cmd/access-proxy`) | requests and streams in progress | admit, authorize, serve, recheck | KCP, Open WebUI | `AccessGate`, headers in `IdentityRules` |
| Open WebUI guard (`internal/webuiguard`) | socket sessions | admit a request or an event | wraps the application | `IdentityRules`, `WebUIGuard` |
| Browser (external) | cookie, localStorage token | navigate, sign in | the gate and the guard | `BrowserSession` |
| Manager (`cmd/main.go`) | configuration | start with two policies, restart | passes its configuration to the reconciler | `ManagerStart`; restarts in `IngressRoute`, `Hostnames`, `CredentialsWatch` |
| Charts, CRDs, portal, sync agent, release scripts | | | out of scope, section 8 | |

What is hard. A pass is a sequence of API calls with no transaction around it.
Between two of them the spec is written, objects are deleted or replaced by
somebody else's under the same name, access is rotated or revoked, a pod
terminates slowly, a call fails, the manager dies. Reads come partly from a
cache. Each component's correctness is about that:

* Access Secrets: the pinned history is bounded; a pin is only ever the UID of a
  Secret the operator itself created; a bundle that a pod still mounts is not
  retired; the session pin never moves; a rollout interrupted anywhere completes.
* Reconcile loop: a running configuration is replaced only when no pod and no
  route of it is left; two configurations never run side by side; *Ready* is
  earned by the configuration it is reported for; objects of other controllers
  are never written; whatever happened, an instance ends served or withdrawn.
* Template, Ingress and Service have several writers: the controller decides what
  is executed and where the route leads, undoes nothing else, and never fights
  with the API server's defaults.
* Hostname and access policy: one host and one source object per instance, never
  by tenant input and never inherited by a successor. The claim check reserves
  nothing, and yet two instances never claim one host.
* Gate: no request or stream without current permission, none beyond its token,
  none left behind. Guard: no event under another identity than the one the
  proxy verified. Browser: an account switch ends signed in, not locked out.
* Credentials: what is rotated reaches every workload, although events are lost.

## 2. Modules

| Module | Models |
|---|---|
| `AccessSecrets` | the life of one instance's access Secrets, one API call per step |
| `AccessRegistry` | what they promise: a bounded ledger; implemented by `AccessSecrets` |
| `Reconciler` | `Reconcile` for one instance, one API call per step, with the cluster around it |
| `WorkloadRollout` | what an instance shows the world; implemented by `Reconciler` |
| `ManagedTemplate` | the content of the pod template, between controller, API server and platform |
| `IngressRoute` | the content of Ingress and Service, between controller and other writers |
| `CredentialsState`, `CredentialsWatch` | events, queue, timers and cache between a Secret and the workloads: the state with its invariants, and the steps |
| `HostnamePolicy`, `AccessPolicy` | the two policy files: parsing entry by entry, selection |
| `ManagerStart` | the manager's start, composing the two |
| `Hostnames` | several instances and other controllers competing for hosts |
| `AccessGate` | requests and streams of one proxy, with a clock |
| `IdentityRules` | the proxy's headers and the guard's decision on one request |
| `WebUIGuard` | the guard's event handlers, await by await; extends `IdentityRules` |
| `BrowserSession` | one browser across account switches; extends `IdentityRules` |
| `ManagerProofs` | theorems about `HostnamePolicy`, `AccessPolicy`, `ManagerStart` and `CredentialsWatch` |
| other `*Proofs` | theorems about the module they are named after; `WebUIGuardProofs` also about `BrowserSession` |
| `MC*` | values of constants, and initial states of bounded runs |

The parts meet at named points. `AccessSecrets` refines the step `Access` of
`Reconciler`, whose templates and routes are detailed in `ManagedTemplate` and
`IngressRoute`. `Hostnames` assumes of its policies what
`ManagerProofs` proves of a running manager (`AssignsDistinctly`). `WebUIGuard` and `BrowserSession` are two actors around
the same rules for one request.

### AccessSecrets

`uid`, `genuine`, `deleting` are the stored Secrets, `pins` is
`status.accessSecretUIDs`; `pc` and the variables after it are the local state
of a pass. `Begin` to `BundlePin` are the API calls of `prepareAccess` in the
order of the code; a failing branch is `Deny`, which ends the pass and stops the
workload as `denyAccess` does. `Install` and `Cutover` abstract what the rest of
the pass means for the bundles and are refined by `Reconciler`'s Deployment
actions. UIDs are numbers in creation order and so stand for the creation
timestamps by which the oldest bundle is chosen; a missing Secret is `Absent`
(0), as the zero timestamp sorts first. A bundle name is the hash of its
content, so "another content under the same name" does not exist, but another
object does (`ForeignCreate`, with or without our metadata).

### Reconciler

`pass.pc` names the next API call; the other fields of `pass` are the local
variables that matter later: whether the instance, the Deployment, the Ingress
are still unchanged since they were read (`fresh`, `depSame`, `ingSame`: would a
write under that resourceVersion succeed), what the Deployment read showed
(`snap`), the template being built, the spec's replicas in the pass's copy.
Each branch of the code that returns an error ends in `Deny`, and the refusal is
carried out call by call (`DenyRoute` to `DenyStatus`), each made whatever
became of the one before, as `errors.Join` over evaluated calls does. `Slug` and
`PinRead` refresh the pass's copy of the instance, because the code decodes the
stored object into it. `prepareAccess` is one step (`Access`), or two when it
pins a new bundle; its own interleavings are the subject of `AccessSecrets`.

A *template* stands for the whole managed pod template: access revision,
checksum of the backend credentials, image, public URL. Generations are never
counted; only the comparisons the code makes are kept (`dep.seen`,
`inst.observed`, `pass.latest`).

The cluster is part of the model as far as the code relies on it: the Deployment
controller acts on what it has seen (`dc`) and only then reports that generation;
pods start, become ready, terminate slowly; the pods of a removed Deployment stay
until they are collected; the cached Deployment and Endpoints (`cacheReady`, one
bit for both, since only their conjunction is used) lag behind. A watch queues
the instance for objects it controls (`Wakes`, the `Owns` of `SetupWithManager`):
a Deployment or an Ingress of somebody else under its name wakes nobody.

### AccessRegistry and WorkloadRollout

Two abstract specifications. `AccessRegistry` is a ledger of identities: only what
the operator made is recorded, the session keys first and for ever, at most
`Limit` beside them, only what is recorded is mounted, and only what nobody mounts
and what is gone is forgotten. `AccessSecrets` implements it with the stored UIDs,
the pins and the bundles that templates and pods mount. `WorkloadRollout` shows
one instance from outside: which configuration is installed, which its controller
keeps pods of, whether there is a route. A configuration takes the place of
another only when nothing runs and no route leads to it, and a route is opened
towards guarded configurations only. `Reconciler` implements it with the template
of its own Deployment, the active pods and its own Ingress.

### ManagedTemplate

A template is a record of groups of fields that the code treats alike: what is
executed, what the API server fills in, sizes, labels and annotations, the rest.
`Raw` is what `buildDeployment` and `applyAccessDeployment` build, `Merged` is
`managedAccessTemplate`, `Stored` the API server's defaults. A pass compares,
stops, waits (`Drain`), installs or scales. Everyone else resizes what is theirs
and tampers with what is not.

### IngressRoute

The Ingress is a record of its annotations, labels, class, rules and TLS entries;
each `ensureIngress*` function is an operator on it and `Ensured` composes them in
the order of the code, `Built` is the object of a creation. `Withdraw` and
`Install` stand for the cutover a new public URL causes. Edits of others and
restarts with another configuration happen at any time.

### CredentialsWatch

`data`, `inst` and `client` are stored; `cached` and `listed` are what the cache
has of them, `unseen` the events under way. An event of a Secret is mapped by
a list of the cache, which may fail (`SyncUnmapped`), an event of an OIDC client
Secret maps to nobody. A pass reads the instance from the API server, the client
credential when it prepares access, and the backend Secret from the cache. The
content of a Secret is the sequence of its keys and values, and its checksum the
concatenation of them, as `computeSecretChecksum` writes them.

### HostnamePolicy, AccessPolicy, ManagerStart

`file` is the decoded file, a sequence of entries; `Take`, `Reject`, `Accept` are
the turns and the returns of the loop, with the sets it keeps. `Select` is an
operator over the accepted entries. `ManagerStart` runs the two one after the
other and then checks the names against PUBLIC_HOST (`Start`), as `main` and
`SetupWithManager` do. A DNS label is a model value; what matters of it is whether
it has the derived format, and whether it fits in front of PUBLIC_HOST.

### Hostnames

Each slot is a namespaced name under which instances of different UIDs may live
one after the other. A pass does `checkHostname` (`Get`, `List`), prepares, checks
again and writes (`Read`, `Create` or `Update`), or withdraws (`Withdraw`,
`Delete`). Rules are hosts or one wildcard that covers some of them. Others may
claim a host, take the Ingress' name, edit rules; answers get lost; the manager
restarts, also under another policy, for instance one that swaps two hosts.

### AccessGate

A request is *idle*, at its *first* check, an *open* stream, or *closed* with its
recheck goroutine still to return. Time is a discrete clock and timers are urgent:
it does not pass a timeout, a tick or a deadline before the handler has run. KCP
decides at some instant between the request and the answer of a check
(`Decide`), so that answers may be out of date. Admission is a predicate over the
shapes of a request. `Exit` and `Start` are the process.

### IdentityRules, WebUIGuard, BrowserSession

A header is a record of name, value and line, so that repeated headers, and those
a client nominates in `Connection`, can be told apart. `WebUIGuard` follows
`guard_event` await by await: every event has a task of its own, and between two
of its steps sessions, tokens and sockets change. `acted` records whom the
application acted for and for whom the proxy had verified the request.
`BrowserSession` is one browser: requests carry the account of the moment they
are sent, cookie and localStorage those of earlier ones. The reply to a signin
brings the cookie (`SignedIn`); the token of its body is stored by the script of
the page afterwards (`Store`), and a reload may come in between.

## 3. Runs

| Run | Instance | Shows |
|---|---|---|
| `secrets` | 3 bundles, history of 2, 2 disturbances, 3 rotations; 0.93 million states | `HistoryBounded`, `PinsMinted`, `LiveMountKept`, `SessionPinPermanent`, `ForgottenOnlyWhenGone`, `ImplementsRegistry`, `RolloutCompletes` |
| `reconciler` | 2 revisions, 2 pod slots, replicas 0 or 2, 2 disturbances; 1.5 million states | `CutoverClean`, `NoMixedWorkload`, `ReadyEarned`, `NeverAbandoned`, `ForeignUntouched`, `ImplementsRollout` |
| `reconciler_live` | the same with 1 pod slot; 1.2 million states | `Converges` |
| `replicas_recheck` | as `reconciler` | a counterexample to `NeverOverScaled`, section 7 |
| `gate` | 2 requests, 2 tokens of one account, timeout 1, interval 2, clock up to 6, 2 changes; 0.77 million states | `WithinToken`, `RevocationTotal`, `OpenedOnPermission`, `StreamsEnd` |
| `guard` | 2 sockets, 2 handlers, 2 accounts, 3 tokens, 3 events, every set of forged headers; 0.63 million states | `ActsAsVerified`, `SessionBound`, `IdentityArrives` |
| `browser` | 2 accounts, 3 tokens, 3 disturbances; 8528 states | `EndsSignedIn` |
| `manager_start` | every file of up to 2 entries for either policy; 1.2 million states | `ParseExact`, `NamesDistinct`, `NeverInherited`, `MappingExact`, `ProxyStarts` |
| `hostnames` | 2 names, 3 UIDs, 2 hosts and a wildcard, 3 policies, 4 faults; 1.3 million states | `OwnHostsDistinct`, `IncarnationsApart`, `RoutesSettle` |
| `ingress_route` | 2 hosts, 2 TLS Secrets, 3 sets of extra annotations, 3 edits; 0.37 million states | `RouteExact`, `ForeignKept`, `RouteSettles` |
| `managed_template` | 2 things to execute, 1 size, 3 edits; 20 600 states | `AcceptedExact`, `PlatformKept`, `NoSpuriousCutover`, `TemplateSettles` |
| `credentials` | 2 instances, 2 Secrets of 2 contents, 2 changes, 1 fault; 1.1 million states | `SumOfReference`, `NeverForgotten`, `CredentialsApplied` |

*Why the bounds are enough.*

* `secrets`: with a history of two, a third bundle is the first that makes room,
  and three rotations reach it and come back to one that was retired. Two
  disturbances are needed for an object to be replaced between two calls, and
  include every pair of faults. The code's history of three changes no branch: the
  theorems hold for every bound.
* `reconciler`: a legacy template, an unapproved one and two revisions give every
  kind of cutover: from an old controller, from an unsupported image, between two
  revisions, and back to the first one while the cutover to the second is under
  way. Two pod slots allow an old and a new pod at once, or a terminating one
  beside a starting one; liveness is about one workload, so one slot suffices, and
  the safety run has shown that two workloads never meet. Replicas 0 means the
  default of one and 2 is what the replica check refuses. Two disturbances include
  every pair, such as a removal and a recreation between a read and a write.
* `gate`: an interval of two timeouts leaves room for a check that times out just
  before the next tick; the clock runs past the largest bound a revocation can
  reach, one token expires before it and one after the bound. Requests share
  nothing but the token, so that two show what an answer kept for another one does.
* `guard`: two sockets of two accounts, each with its own and a peer's token, and
  two handlers at different awaits; three events are a connect, a join and another
  event. Events of one socket beyond that only repeat the same checks.
* `browser`: three disturbances switch away and back while a token expires, or
  reload between the cookie and the token of a signin after a switch.
* `manager_start`: every conflict is between two entries. The files are parsed
  independently of each other, so one of them is kept empty.
* `hostnames`: every conflict is between two Ingresses. Four faults allow a policy
  that swaps two hosts with a lost answer, an edit and a removal beside it.
* `ingress_route`, `managed_template`: three writes of others allow a restart with
  another configuration and an edit of each of two parts that overlap, or a change,
  a denial and a tampering during one cutover.
* `credentials`: two changes are a Secret and the reference to it, in either order
  and at any moment of a pass or of the cache; one fault is the event that maps to
  nobody, the failed call, or the restart.

Disturbances, changes, edits and faults count against one bound each, so that the
rest of a behaviour is finite; the theorems hold for any bound.

*Fairness.* The runs that check liveness properties assume weak fairness of what
the code or its surroundings keep going, and safety does not depend on it:

| Run | Assumed | Because |
|---|---|---|
| `secrets`, `reconciler_live` | the pass as a whole, the Deployment controller, pods, caches, garbage collector | the work queue retries errors with back-off and honours `RequeueAfter`; a stopped manager is restarted by its Deployment and lists every instance |
| `gate` | the clock, timers, goroutines, the answer of the first check or its timeout | Go's runtime; nothing is assumed of KCP, the client or the application |
| `browser` | browser and server go on, and the user opens the page again | nobody has to switch, reload or clear anything |
| `hostnames` | steps of a pass, collection; strong fairness of beginning a pass for each instance | the queue is first in, first out and every live instance is due again after 2 s or 30 s; *strong*, since a worker busy with another instance disables it meanwhile |
| `ingress_route`, `managed_template` | each step of a pass, the Deployment controller | as above |
| `credentials` | the worker, delivery of watch events, each timer | a watch reconnects and relists; timers fire |

Nothing obliges a user, an operator or a fault to happen. `RolloutCompletes` is
conditional on `NoRecoveryNeeded`, the states from which the code itself asks for
an operator ("operator recovery required").

*Deadlock* is checked where the system never rests: `secrets`, `gate`, `guard`,
`browser`, `ingress_route`, `managed_template`. It is switched off where it does:
an instance that was removed and collected, or whose image was refused without an
error, rests until somebody changes it (`reconciler`, `credentials`); a cluster
without instances (`hostnames`); a manager that runs or has refused to start
(`manager_start`).

*Symmetry* is used for safety only, in `reconciler` and `guard`. The liveness runs
`secrets` and `reconciler_live` fix the first configuration instead, which by the
same symmetry may be any.

Every property has a mutant: a definition of the model changed the way a
plausible bug in that code would change it, on which TLC finds the property
violated. They stand beside the definitions, marked `Mutant`. Type invariants and
the properties `RevocationBounded`, `NamesFit`, `OneAccount`, `RouteFinal` and
`AcceptedFinal` are not run, since they are proved.

## 4. Properties worth a comment

* `LiveMountKept` is stated at the delete, not at the list: the references were
  read earlier. It holds because a pass is the only one who installs templates
  and a pod mounts nothing but the template it was started from. Pods of others
  that come to mount one of our bundles after the list are not protected by the
  code, and not by the property.
* `CutoverClean` speaks about the step that writes the template. Its evidence was
  collected in up to three earlier calls, and it holds because the write is
  conditional on the resourceVersion of the read that showed zero replicas
  *of the latest generation*, so that the controller creates no pod in between.
* `ReadyEarned` exempts the pod of a Deployment somebody removed: it keeps the
  labels the Service selects until it is collected, so it may answer the probe of
  a pass whose Deployment check was served by a lagging cache.
* `Converges` says what *withdrawn* means. An instance whose Service name is
  taken by somebody else is an exception in it: the Service is looked at after
  the Deployment was scaled up, so its workload is started and stopped for ever.
* `NeverAbandoned` is the safety behind `Converges`: whoever calls the next pass, a
  queue, a timer or a watch, there is one. The only way to rest is a refused image
  whose refusal went through in all its parts, with the instance's own route gone
  and its own workload at zero; a call of it that fails is an error and is repeated.
  A foreign object that takes one of the names later wakes nobody and is left alone.
* `ForeignUntouched` compares objects over the steps of a pass, recognised by a
  change of `pass.pc`.
* `RevocationTotal` has two timeouts, not one: the answer that opens a stream may
  be of a permission that was revoked while it was under way, and the stream then
  starts an interval of its own. `RevocationBounded` says the sharper bound from
  the opening. `docs/access-policy.md` promises the recheck, not a number for the
  sum.
* `StreamsEnd` needs the timeout of the KCP client: the ticker is not looked at
  while a check is under way, and only the deadline of the token is independent.
* `ActsAsVerified` compares the account an event acts for with the one the proxy
  verified for the request that *carried* it, not with that of the socket.
  Polls make these differ, and the guard refuses exactly such polls.
* `EndsSignedIn` is about the replies of the guard: a navigation with a stale
  cookie is sent to the signin page without it, anything else gets a 401.
* `OwnHostsDistinct` holds although nothing is reserved, because one worker runs
  all passes: between the second list and the write only others write. It says
  nothing of Ingresses somebody edited, and nothing of other controllers, which
  may take a host just after it was checked; `RoutesSettle` says what becomes of
  that: the manager's own route is withdrawn.
* `MappingExact` says that accounts, objects and sources are one to one over the
  whole file. It is what makes the order of the entries irrelevant for `Select`,
  which returns the first that fits.
* `ForeignKept` is conditional on the first TLS entry, see section 7.
* `RouteExact` holds after a pass, not between: an edit is undone by the pass its
  event wakes. `dnsnames` wins over a configured annotation, the other managed
  annotations lose to it.
* `NoSpuriousCutover` is an action property: whoever stops the workload must be
  able to point at a change of something managed since the last write.
* `NeverForgotten` does not count events that have been mapped, only those under
  way: an event mapped to nobody is lost, and the instance must be due for another
  reason.
* `CredentialsApplied` depends on the requeue of every pass, not on the watches:
  the event of a Secret may be mapped to nobody.
* `ImplementsRegistry` and `ImplementsRollout` bind several of the properties
  above into one statement about all behaviours.

## 5. Theorems

Eight modules of proofs show, for every value of the constants that satisfies the
named assumptions, what the runs check on small instances.

| Module | Proved |
|---|---|
| `AccessSecretsProofs` | types, `HistoryBounded`, `PinsMinted`, `LiveMountKept`, `SessionPinPermanent`, `ForgottenOnlyWhenGone`, `ImplementsRegistry` |
| `ReconcilerProofs` | types, `NoMixedWorkload`, `ReadyEarned`, `NeverAbandoned`, `CutoverClean`, `ForeignUntouched`, `ImplementsRollout` |
| `AccessGateProofs` | types, `WithinToken`, `RevocationBounded`, `RevocationTotal`, `OpenedOnPermission` |
| `WebUIGuardProofs` | types, `ActsAsVerified`, `SessionBound`, `IdentityArrives`; of the browser: types, `OneAccount` |
| `ManagerProofs` | of the hostname policy: types, `ParseExact`, `NamesDistinct`, `NeverInherited`, `NamesFit`; of the access policy and the start: `MappingExact`, `ProxyStarts`, that the start implements both policies and satisfies what `Hostnames` assumes; of the watches: `SumOfReference`, `NeverForgotten` |
| `HostnamesProofs` | types, `OwnHostsDistinct`, `IncarnationsApart` |
| `IngressRouteProofs` | types, `RouteExact`, `ForeignKept`, `RouteFinal` |
| `ManagedTemplateProofs` | types, `AcceptedExact`, `PlatformKept`, `NoSpuriousCutover`, `AcceptedFinal` |

The assumptions: the name of the session Secret is no bundle's, the number of
bundles is finite, the history bound positive; the templates of earlier controllers
are not among those the current one wants, pod slots are finite, some allowed value
of replicas is 0 or 1; a check times out before the next tick; the hash of a UID
has no collisions and derived names have one length; policies give no name to two
UIDs; a namespace has finitely many instances, and no Secret is one; the browser's
disturbances are a number; values that mean "none" are no members of the sets they are added to.

*AccessSecrets.* The properties are not inductive. `IInv` adds that UIDs are
fresh (`UidsFresh`), that a pass about to pin holds the UID its own Create
returned (`CreatedIsMinted`), that the session is pinned before any bundle is
looked at (`SessionFirst`), that the wanted bundle is unpinned until it is pinned
(`WantKnown`), and that while a bundle is retired the references listed still
cover every mount and the victim is none of them (`RetirementSound`). The bound
on the history is a fact about cardinalities: a pin is added only when the set
without it has at most `MaxAccessBundles` members beside the session's. The
refinement follows from the same invariant, action by action: most calls change
nothing of the ledger, a pin is a `Record`, the forgetting patch a `Forget`.

*Reconciler.* `IInv` adds four facts. `Mirror`: the Deployment controller runs
only the Deployment's template, and exactly its replicas once it has reported
the generation. `Held`: what a pass has read holds as long as nobody wrote the
object. `Cut`: the stages of a cutover; after the route was withdrawn there is
none, since only a pass creates one, and between the list of pods and the write
there are no pods, since under an unchanged resourceVersion the controller is at
zero. `Revision`: from the Deployment on, a pass works with one template, and a
Deployment of ours it has been through has it. The proof of a step is split by
groups of actions; most steps lead to a point where the pass relies on nothing
(`Quiet`), which one lemma settles. The refinement maps each step to one of the
rollout's, or to none; that a route is opened to a guarded workload follows from
`Revision`, that a template is replaced only in private from `Cut`.

`NeverAbandoned` needs a second invariant, `Attended`. Whoever writes the spec or
an owned object queues the instance, so at rest neither it nor an object of its own
was written since its last pass looked; objects of others come and go unseen. That pass must have ended in the one return
without a requeue (`ImageRefusal`), for an image that is still refused unless a
write has queued the instance again; and each part of the refusal either found what
it should leave behind, left it, or failed, and then the pass was repeated. The
invariant follows the three parts call by call.

*AccessGate.* The invariant of a request bounds the age of its answer (`Young`),
says that a yes was true at some instant since the question (`Truthful`), where
the ticker stands (`Ticker`), and that without permission the last tick that may
still have said yes is not later than the loss and one interval, or the opening
and one interval (`Fresh`, `Opening`). The bounds are sums of these.

*WebUIGuard.* The guard sees no identity but the verified one (`SeenIsVerified`,
from what `Rewritten` leaves of the headers). A handler works for the identity of
the request that carried its event, and a credential it brings to the original
handler was matched with it; owners of tokens never change, so a token that
expired meanwhile is still of the right account.

*BrowserSession.* Cookie and token of one signin are stored at different moments,
so the browser may well hold credentials of two accounts; `OneAccount` says that
no page shows with them. A page opens after its session user's request, and the
guard passes that only when the header token and the cookie both belong to the
account that asks; neither changes before the answer, and the token of a reply
that nobody has read is that of the cookie stored with it (`UnderWay`).

*HostnamePolicy, AccessPolicy, ManagerStart.* Each loop invariant says that the
part parsed is unambiguous and that the three sets are exactly its keys; then
acceptance and rejection follow at the return. Names are distinct because legacy
slugs are unreserved and distinct and derived ones are injective; a mapping is the
first that fits because it is the only one. Both are proved of the loop alone, and
the start of the manager, which runs the two in turn, implements each of them with
the other's steps as stutters (`ImplementsHostnamePolicy`, `ImplementsAccessPolicy`).
`AssignsDistinctly` then derives the assumption of `Hostnames` on its policies.

*CredentialsWatch.* Every content of a Secret that is stored, cached or in the hands
of a pass is one the Secret had (`Known`), and the pass installs checksum and
reference together (`SumInv`). For `NeverForgotten`, a pass that refuses an image
refuses it rightly, or the change that made it wrong is an event under way
(`Refusal` in `DueInv`); the rest is that an event leaves `unseen` only into the
queue, except an event of a Secret, which nobody counts on. The work queue is a
sequence without an assumption on its order; lemmas reduce it to its set.

*Hostnames.* From the second list to the write no other unedited Ingress of ours
has the host (`HostFree`), and an Ingress unchanged since it was read is of the
pass's own instance (`Snapshot`).

*IngressRoute, ManagedTemplate.* Lemmas state what the composition of the
operators makes of each part of an Ingress or a template. For templates they say
that a fixed point of `managedAccessTemplate` is exact, that an exact one is
a fixed point, and that the API server's defaults keep it one. From the same lemmas
follows what of `RouteSettles` and `TemplateSettles` is safety: a pass undoes nothing
of what a pass wrote or accepted (`RouteFinal`, `AcceptedFinal`).

Only model-checked are the liveness properties (`RolloutCompletes`, `Converges`,
`StreamsEnd`, `EndsSignedIn`, `RoutesSettle`, `RouteSettles`, `TemplateSettles`,
`CredentialsApplied`), because liveness under fairness is out of the prover's
reach; every invariant and every action property of the runs is proved.

## 6. Assumptions

* One manager runs, with one worker: the chart refuses another number of replicas
  than one and replaces the manager with strategy `Recreate`
  (`charts/chat-ui-operator/templates/manager-deployment.yaml`). A request of a
  dead manager does not land later. `OwnHostsDistinct` depends on it.
* A call that fails was not applied. A lost answer of an applied call is covered
  where a pass is lost right after the call (crash), not for the calls that
  continue after an error.
* Only the operator writes an instance's status.
* The Deployment controller reports a generation only after it has acted on it,
  and a pod it deletes stays listed until it is gone.
* Conditional updates and deletes fail when the object changed; the pass's reads
  through `routeReader` are current, the two of the readiness check are not.
* DNS is part of the probe's outcome.
* SHA-256, truncated where the code truncates it, has no collisions, except where
  different contents are the same text (section 7).
* Clocks of gate and identity provider agree; a KCP answer reflects one instant of
  its request; a deleted source never gets its UID again.
* Open WebUI acts on the credential the guard passes on and on the session of the
  socket; a socket's environ and session end with it; the account of a token is
  fixed. The browser has one page open. Its frontend is modelled from how the guard's browser test uses it.
* Watch events arrive in the end; the work queue holds no duplicates.

## 7. Disagreement with the documentation

`docs/access-policy.md:142` says that only one application replica is permitted,
and that more fail closed. `Reconcile` checks `spec.replicas > 1` on the copy it
read first, but `ensureSlug` and `persistAccessSecretPins` replace that copy by
what is stored now, and the number of replicas is taken from it afterwards.
Where the served schema has `maximum: 1` the API server refuses such a write; the
check exists for schemas and objects that predate it. Run `replicas_recheck`
finds the pass that pins a bundle, meets a write of two replicas meanwhile and
then creates a Deployment with two. The next pass withdraws it.

Also noted while reading, without a run:

* `docs/hostname-policy.md:74` says that additional TLS entries are preserved.
  `ensureIngressTLS` looks at the first entry only and, when that deviates, assigns
  a list of one: others are lost when somebody edits or reorders the first, and
  when the manager restarts with another TLS Secret. `ForeignKept` states what
  does hold.
* `docs/architecture.md:127` says that a change of the Secret changes the checksum.
  `computeSecretChecksum` writes keys and values one after the other without a
  separator, so that contents which divide the same text differently have the same
  checksum, and a change between them starts no rollout.
* After `ensureSlug` or a pin replaced the pass's copy of the instance, the pass goes
  on with an image that was checked on the copy before. When the spec got a refused
  image meanwhile, this pass may still report Ready, for the new generation; the
  write has queued the next pass, which refuses it.
* The readiness probe accepts only status 200, where `docs/architecture.md` speaks
  of a 2xx or 3xx answer; the user guide shows `replicas: 3`.
* After a slug patch that failed, `hostnameFailure` takes the stored status for
  blank and leaves a Ready URL until the next pass (`hostname_policy.go:107`).
* The access policy's parser does not look at the KCP certificate bundle, and the
  proxy refuses one without a certificate: `ProxyStarts` excepts it.
* A new Ingress lacks the annotation `router.tls` until the next pass; extra
  annotations that are no longer configured stay; with any configured, every pass
  writes the Ingress.
* The branches of `reconcileIngress` for other schemes than https are not reached:
  `prepareAccess` refuses them before.
* `credentialsSecretRef.name` is trimmed where the Secret is looked up and where
  its events are mapped, but not in the pod's reference to it.

## 8. Not modelled

* Flag parsing, telemetry, metrics, health endpoints and leader election of the
  manager, and the gate's `Health` probe: no state of what is modelled depends on
  them, but through the assumption of one manager.
* The decoding of JSON (unknown fields, trailing data) and of URLs and DNS labels:
  an entry is what was decoded, a label is valid or not.
* Generated deepcopy code, CRD text, charts, the portal and its renderer, release
  and packaging scripts, and the tests.
* The sync agent, the API server, the Deployment controller, kubelet, garbage
  collector, caches, KCP, Open WebUI and browsers are external and modelled from
  how the code uses them.
* Resource fields one by one: `ManagedTemplate` groups them by who decides them.

## 9. Plan

All modules of the plan are written, and the safety properties of all runs proved.
What is left, in this order: safety parts of the liveness properties that have
none yet (`RolloutCompletes`, `RoutesSettle`); a refinement between `AccessSecrets`
and the step `Access` of `Reconciler`, which meet by agreement only; runs for the
two disagreements above that have none, about TLS entries and about checksums.
