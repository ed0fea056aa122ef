----------------------------- MODULE Reconciler -----------------------------
(***************************************************************************)
(* ChatUIInstanceReconciler.Reconcile for one ChatUIInstance, one API call  *)
(* per step, against everyone who can interleave with it: the sync agent   *)
(* that writes the spec, the Deployment controller and its pods, objects   *)
(* of other controllers under the same names, operators who rotate or      *)
(* revoke access, a cache that lags, failing calls and crashes.            *)
(*                                                                         *)
(* Abstractions.  A template stands for the whole managed pod template and *)
(* the strategy, hence for the access revision and the checksum of the     *)
(* backend credentials; Legacy is one of an earlier controller, Unapproved *)
(* one whose image is not the supported one.  Generations are compared,    *)
(* never counted: "observed", "latest" and "seen" are those comparisons.   *)
(* prepareAccess (module AccessSecrets) yields a revision or an error, and *)
(* refreshes the pass's copy of the instance when it pins a new bundle.    *)
(***************************************************************************)
EXTENDS Integers, FiniteSets

CONSTANTS
    Revs,         \* templates the current controller can want
    Legacy,       \* a template of an earlier controller, supported image
    Unapproved,   \* a template whose open-webui image is not supported
    None,         \* no template
    Slots,        \* places for pods; bounds how many exist at once
    Replicas,     \* values of spec.replicas
    MaxFaults     \* bound: outside interventions, failed calls, crashes

ASSUME TemplatesAssumption ==
    /\ Revs # {} /\ Legacy # Unapproved /\ None \notin {Legacy, Unapproved}
    /\ {Legacy, Unapproved, None} \cap Revs = {}
ASSUME NumbersAssumption ==
    /\ Replicas \subseteq Nat /\ Replicas \cap {0, 1} # {}
    /\ MaxFaults \in Nat
ASSUME SlotsAssumption == IsFiniteSet(Slots) /\ Slots # {}

Templates == Revs \cup {Legacy, Unapproved}
Owners == {"none", "ours", "foreign"}

Steps == {"idle", "unfinalize", "check", "checkScale", "slug", "host", "access",
          "pinRead", "finalizer", "creds", "deploy", "create", "cutRoute", "cutDelete", "cutScale",
          "cutPods", "install", "scale", "service", "route", "routeCreate",
          "routeUpdate", "cached", "probe", "pending", "report",
          "denyRoute", "denyDelete", "denyStop", "denyScale", "denyStatus"}
Causes == {"none", "image", "unverified", "stopping", "replicas", "hostUnmapped", "host",
           "hostUnknown", "access", "cutover"}

VARIABLES
    inst,        \* the ChatUIInstance
    ask,         \* what a pass consults: routes of others, access, credentials
    dep,         \* the Deployment
    dc,          \* the template and replicas its controller last observed
    pods,        \* [Slots -> template and state]
    ing, svc,    \* owner of the Ingress and of the Service of the instance's name
    cacheReady,  \* the cached Deployment and Endpoints look available
    queued,      \* the instance's key is in the work queue, or an event that puts it there
    pass,        \* the reconcile pass: next call and local variables
    faults

vars == <<inst, ask, dep, dc, pods, ing, svc, cacheReady, queued, pass, faults>>
objects == <<dep, dc, pods, ing, svc>>

Instances == [
    phase : {"live", "deleting", "gone"},
    imageOk : BOOLEAN,        \* spec.image is empty or the supported image
    replicas : Replicas,      \* spec.replicas
    finalizer : BOOLEAN,
    slugSet : BOOLEAN,        \* status.slug and slugSource are the policy's choice
    status : {"blank", "pending", "ready"}, \* no URL; URL; URL and Ready
    observed : BOOLEAN ]      \* status.observedGeneration = metadata.generation

Asked == [
    host : {"free", "claimed", "unmapped"}, \* by another Ingress; by the policy
    accessOk : BOOLEAN,       \* prepareAccess would succeed
    wanted : Revs,            \* the template access and credentials call for
    pinned : SUBSET Revs,     \* revisions whose bundle is pinned already
    credsOk : BOOLEAN ]       \* the backend credentials can be read

Deployments == [
    owner : Owners, tmpl : Templates \cup {None}, replicas : Nat,
    seen : BOOLEAN,           \* status.observedGeneration = metadata.generation
    status : Nat ]            \* status.replicas

Passes == [
    pc : Steps, why : Causes,
    clean : BOOLEAN,          \* no call of a denial failed so far
    fresh : BOOLEAN,          \* the instance is unchanged since it was read
    latest : BOOLEAN,         \* its generation in the pass's copy is current
    replicas : Nat, blank : BOOLEAN, \* the pass's copy of these
    tmpl : Revs \cup {None},  \* the template this pass builds
    depSame : BOOLEAN,        \* the Deployment is unchanged since it was read
    snap : {"scale", "busy", "settled"}, \* what that read showed
    ingSame : BOOLEAN,        \* the Ingress is unchanged since it was read
    answered : {"none", "same", "other", "orphan"} ] \* the pod that answered /ping

Empty == [tmpl |-> None, state |-> "none"]

Idle == [pc |-> "idle", why |-> "none", clean |-> TRUE, fresh |-> FALSE, latest |-> FALSE,
         replicas |-> 0, blank |-> TRUE, tmpl |-> None, depSame |-> FALSE,
         snap |-> "busy", ingSame |-> FALSE, answered |-> "none"]

NoDeployment == [owner |-> "none", tmpl |-> None, replicas |-> 0, seen |-> FALSE, status |-> 0]

\* A new instance, whose names may be taken; or one an earlier controller runs,
\* with one ready pod, which the hostname policy may not map yet.
Init ==
    /\ \E r \in Replicas \cap {0, 1}, legacy \in BOOLEAN, f \in BOOLEAN :
          inst = [phase |-> "live", imageOk |-> TRUE, replicas |-> r, finalizer |-> legacy /\ f,
                  slugSet |-> FALSE, status |-> IF legacy THEN "ready" ELSE "blank",
                  observed |-> legacy]
    /\ \E w \in Revs, h \in {"free", "unmapped"} :
          /\ inst.status = "blank" => h = "free"
          /\ ask = [host |-> h, accessOk |-> TRUE, wanted |-> w, pinned |-> {}, credsOk |-> TRUE]
    /\ \/ /\ inst.status = "blank"
          /\ \E o \in {"none", "foreign"}, t \in {None, Legacy} :
                /\ (o = "none") <=> (t = None)
                /\ dep = [NoDeployment EXCEPT !.owner = o, !.tmpl = t]
          /\ dc = [tmpl |-> None, replicas |-> 0] /\ pods = [s \in Slots |-> Empty]
          /\ ing \in {"none", "foreign"} /\ svc \in {"none", "foreign"}
       \/ /\ inst.status = "ready"
          /\ \E t \in {Legacy, Unapproved}, up \in Slots :
                /\ dep = [owner |-> "ours", tmpl |-> t, replicas |-> 1, seen |-> TRUE, status |-> 1]
                /\ dc = [tmpl |-> t, replicas |-> 1]
                /\ pods = [[s \in Slots |-> Empty] EXCEPT ![up] = [tmpl |-> t, state |-> "ready"]]
          /\ ing = "ours" /\ svc = "ours"
    /\ cacheReady = (inst.status = "ready")
    /\ queued = TRUE /\ pass = Idle /\ faults = 0

----------------------------------------------------------------------------
\* Moving the pass along

At(p) == pass.pc = p
Proceed(p) == pass' = [pass EXCEPT !.pc = p]

\* Every refusal withdraws the route, stops the workload and clears the status.
Deny(cause) == pass' = [pass EXCEPT !.pc = "denyRoute", !.why = cause]

\* The pass returns; "again" is a requeue: an error, Requeue or RequeueAfter.
End(again) == pass' = Idle /\ queued' = (queued \/ again)

\* A response of the API server decoded into the pass's copy of the instance
Refreshed == [pass EXCEPT !.fresh = TRUE, !.latest = TRUE, !.replicas = inst.replicas]

\* replicas := inst.Spec.Replicas; at least 1
WantReplicas == IF pass.replicas > 0 THEN pass.replicas ELSE 1

Active(s) == pods[s].state \in {"starting", "ready"}
ActivePods == {s \in Slots : Active(s)}
NoPods == \A s \in Slots : pods[s].state = "none"

\* Status().Patch of a blank status: no lock, fails only on a missing instance
BlankStatus == [inst EXCEPT !.status = "blank", !.observed = pass.latest]

\* Update of spec.replicas under the resourceVersion the pass read
ScaleTo(n) == dep' = [dep EXCEPT !.replicas = n, !.seen = FALSE]

----------------------------------------------------------------------------
\* Reconcile: deletion, image boundary, replicas

Begin ==
    /\ At("idle") /\ queued /\ queued' = FALSE
    /\ pass' = CASE inst.phase = "gone" -> Idle
                 [] inst.phase = "deleting" ->
                      [Idle EXCEPT !.pc = IF inst.finalizer THEN "unfinalize" ELSE "idle",
                                   !.fresh = inst.finalizer]
                 [] OTHER ->
                      [Idle EXCEPT !.pc = IF inst.imageOk THEN "check" ELSE "denyRoute",
                                   !.why = IF inst.imageOk THEN "none" ELSE "image",
                                   !.fresh = TRUE, !.latest = TRUE,
                                   !.replicas = inst.replicas,
                                   !.blank = (inst.status = "blank")]
    /\ UNCHANGED <<inst, ask, objects, cacheReady, faults>>

\* RemoveFinalizer and Update; the API server then removes the instance.
Unfinalize ==
    /\ At("unfinalize")
    /\ \/ pass.fresh /\ inst' = [inst EXCEPT !.finalizer = FALSE, !.phase = "gone"] /\ End(FALSE)
       \/ ~pass.fresh /\ UNCHANGED inst /\ End(TRUE)
    /\ UNCHANGED <<ask, objects, cacheReady, faults>>

\* if inst.Spec.Replicas > 1, on the copy read when the pass began
ImageChecked == IF pass.replicas > 1 THEN Deny("replicas") ELSE Proceed("slug")

\* stopUnapprovedDeployment(force = false): the read
Check ==
    /\ At("check")
    /\ \/ dep.owner = "none" /\ ImageChecked
       \/ dep.owner = "foreign" /\ Deny("unverified")
       \/ /\ dep.owner = "ours"
          /\ \/ dep.tmpl # Unapproved /\ ImageChecked
             \/ /\ dep.tmpl = Unapproved /\ dep.replicas # 0
                /\ pass' = [pass EXCEPT !.pc = "checkScale", !.depSame = TRUE]
             \/ /\ dep.tmpl = Unapproved /\ dep.replicas = 0
                /\ IF ~dep.seen \/ dep.status # 0 THEN Deny("stopping") ELSE ImageChecked
    /\ UNCHANGED <<inst, ask, objects, cacheReady, queued, faults>>

\* stopUnapprovedDeployment(force = false): the scale-down
CheckScale ==
    /\ At("checkScale")
    /\ \/ pass.depSame /\ ScaleTo(0) /\ Deny("stopping")
       \/ ~pass.depSame /\ UNCHANGED dep /\ Deny("unverified")
    /\ UNCHANGED <<inst, ask, dc, pods, ing, svc, cacheReady, queued, faults>>

----------------------------------------------------------------------------
\* Reconcile: hostname, access, finalizer, credentials

\* ensureSlug.  The patched status comes back with whatever spec is stored now.
Slug ==
    /\ At("slug")
    /\ \/ ask.host = "unmapped" /\ Deny("hostUnmapped") /\ UNCHANGED inst
       \/ ask.host # "unmapped" /\ inst.slugSet /\ Proceed("host") /\ UNCHANGED inst
       \/ /\ ask.host # "unmapped" /\ ~inst.slugSet /\ inst.phase # "gone"
          /\ inst' = [BlankStatus EXCEPT !.slugSet = TRUE]
          /\ pass' = [Refreshed EXCEPT !.pc = "host", !.blank = TRUE]
       \/ /\ ask.host # "unmapped" /\ ~inst.slugSet /\ inst.phase = "gone"
          /\ pass' = [pass EXCEPT !.pc = "denyRoute", !.why = "hostUnknown", !.blank = TRUE]
          /\ UNCHANGED inst
    /\ UNCHANGED <<ask, objects, cacheReady, queued, faults>>

\* checkHostname finds a foreign Ingress under the name, or another claim.
HostTaken == ing = "foreign" \/ ask.host = "claimed"

Host ==
    /\ At("host")
    /\ IF HostTaken THEN Deny("host") ELSE Proceed("access")
    /\ UNCHANGED <<inst, ask, objects, cacheReady, queued, faults>>

\* prepareAccess.  Pinning a new bundle is a patch under the resourceVersion of
\* the pass's copy; when it conflicts the bundle is left unpinned and is never
\* trusted again.
Access ==
    /\ At("access")
    /\ \/ ~ask.accessOk /\ Deny("access") /\ UNCHANGED ask
       \/ /\ ask.accessOk /\ ask.wanted \in ask.pinned
          /\ pass' = [pass EXCEPT !.pc = "finalizer", !.tmpl = ask.wanted] /\ UNCHANGED ask
       \/ /\ ask.accessOk /\ ask.wanted \notin ask.pinned /\ pass.fresh
          /\ ask' = [ask EXCEPT !.pinned = @ \cup {ask.wanted}]
          /\ pass' = [pass EXCEPT !.pc = "pinRead", !.tmpl = ask.wanted]
       \/ /\ ask.accessOk /\ ask.wanted \notin ask.pinned /\ ~pass.fresh
          /\ ask' = [ask EXCEPT !.accessOk = FALSE] /\ Deny("access")
    /\ UNCHANGED <<inst, objects, cacheReady, queued, faults>>

\* persistAccessSecretPins ends with *inst = persisted: what is stored now,
\* spec included, becomes the pass's copy.
PinRead ==
    /\ At("pinRead")
    /\ IF inst.phase = "gone" THEN Deny("access")
       ELSE pass' = [Refreshed EXCEPT !.pc = "finalizer"]
    /\ UNCHANGED <<inst, ask, objects, cacheReady, queued, faults>>

\* AddFinalizer and Update; the pass returns to start over either way.
Finalizer ==
    /\ At("finalizer")
    /\ \/ inst.finalizer /\ Proceed("creds") /\ UNCHANGED <<inst, queued>>
       \/ /\ ~inst.finalizer /\ End(TRUE)
          /\ inst' = [inst EXCEPT !.finalizer = pass.fresh]
    /\ UNCHANGED <<ask, objects, cacheReady, faults>>

Creds ==
    /\ At("creds")
    /\ IF ask.credsOk THEN Proceed("deploy") ELSE Deny("access")
    /\ UNCHANGED <<inst, ask, objects, cacheReady, queued, faults>>

----------------------------------------------------------------------------
\* reconcileDeployment and waitForAccessCutover

\* Mutant: the new template is written over the running one.
DeployOurs_InPlace ==
    pass' = [pass EXCEPT !.depSame = TRUE,
                         !.pc = IF dep.tmpl # pass.tmpl THEN "install"
                                ELSE IF dep.replicas # WantReplicas THEN "scale" ELSE "service"]

\* Mutant: a workload of an earlier controller stays if its image is supported.
DeployOurs_KeepLegacy ==
    pass' = [pass EXCEPT !.depSame = TRUE, !.snap = "busy",
                         !.pc = IF dep.tmpl \notin {pass.tmpl, Legacy} THEN "cutRoute" ELSE "service"]

\* What the read of our Deployment asks for: a cutover, a scale, or nothing.
\* "settled" is the controller's report that it runs no replica any more.
DeployOurs ==
    pass' = [pass EXCEPT !.depSame = TRUE,
                         !.snap = IF dep.replicas # 0 THEN "scale"
                                  ELSE IF dep.seen /\ dep.status = 0 THEN "settled" ELSE "busy",
                         !.pc = IF dep.tmpl # pass.tmpl THEN "cutRoute"
                                ELSE IF dep.replicas # WantReplicas THEN "scale" ELSE "service"]

Deploy ==
    /\ At("deploy")
    /\ \/ dep.owner = "none" /\ Proceed("create")
       \/ dep.owner = "foreign" /\ Deny("access")
       \/ dep.owner = "ours" /\ DeployOurs
    /\ UNCHANGED <<inst, ask, objects, cacheReady, queued, faults>>

Create ==
    /\ At("create")
    /\ \/ /\ dep.owner = "none" /\ Proceed("service")
          /\ dep' = [owner |-> "ours", tmpl |-> pass.tmpl, replicas |-> WantReplicas,
                     seen |-> FALSE, status |-> 0]
       \/ dep.owner # "none" /\ Deny("access") /\ UNCHANGED dep
    /\ UNCHANGED <<inst, ask, dc, pods, ing, svc, cacheReady, queued, faults>>

\* errAccessCutover: only the status remains to be written.
Cutover == pass' = [pass EXCEPT !.pc = "denyStatus", !.why = "cutover"]

RouteWithdrawn == Proceed(IF pass.snap = "scale" THEN "cutScale" ELSE "cutPods")

\* withdrawAccess within the cutover: the read, then the guarded delete
CutRoute ==
    /\ At("cutRoute")
    /\ \/ ing = "none" /\ RouteWithdrawn
       \/ ing = "foreign" /\ Deny("access")
       \/ ing = "ours" /\ pass' = [pass EXCEPT !.pc = "cutDelete", !.ingSame = TRUE]
    /\ UNCHANGED <<inst, ask, objects, cacheReady, queued, faults>>

CutDelete ==
    /\ At("cutDelete")
    /\ \/ ing = "none" /\ RouteWithdrawn /\ UNCHANGED ing
       \/ ing # "none" /\ pass.ingSame /\ ing' = "none" /\ RouteWithdrawn
       \/ ing # "none" /\ ~pass.ingSame /\ Deny("access") /\ UNCHANGED ing
    /\ UNCHANGED <<inst, ask, dep, dc, pods, svc, cacheReady, queued, faults>>

CutScale ==
    /\ At("cutScale")
    /\ \/ pass.depSame /\ ScaleTo(0) /\ Cutover
       \/ ~pass.depSame /\ Deny("access") /\ UNCHANGED dep
    /\ UNCHANGED <<inst, ask, dc, pods, ing, svc, cacheReady, queued, faults>>

\* Mutant: replicas=0 in the status is taken for the absence of pods.
CutPods_StatusOnly ==
    /\ At("cutPods")
    /\ IF pass.snap = "settled" THEN Proceed("install") ELSE Cutover
    /\ UNCHANGED <<inst, ask, objects, cacheReady, queued, faults>>

\* Mutant: the absence of pods is taken for the end of the old workload.
CutPods_ListOnly ==
    /\ At("cutPods")
    /\ IF NoPods THEN Proceed("install") ELSE Cutover
    /\ UNCHANGED <<inst, ask, objects, cacheReady, queued, faults>>

\* The list of the selector's pods, terminating ones included
CutPods ==
    /\ At("cutPods")
    /\ IF pass.snap = "settled" /\ NoPods THEN Proceed("install") ELSE Cutover
    /\ UNCHANGED <<inst, ask, objects, cacheReady, queued, faults>>

Install ==
    /\ At("install")
    /\ \/ /\ pass.depSame /\ Proceed("service")
          /\ dep' = [dep EXCEPT !.tmpl = pass.tmpl, !.replicas = WantReplicas, !.seen = FALSE]
       \/ ~pass.depSame /\ Deny("access") /\ UNCHANGED dep
    /\ UNCHANGED <<inst, ask, dc, pods, ing, svc, cacheReady, queued, faults>>

Scale ==
    /\ At("scale")
    /\ \/ pass.depSame /\ ScaleTo(WantReplicas) /\ Proceed("service")
       \/ ~pass.depSame /\ Deny("access") /\ UNCHANGED dep
    /\ UNCHANGED <<inst, ask, dc, pods, ing, svc, cacheReady, queued, faults>>

----------------------------------------------------------------------------
\* reconcileService, reconcileIngress

Service ==
    /\ At("service")
    /\ \/ svc # "foreign" /\ svc' = "ours" /\ Proceed("route")
       \/ svc = "foreign" /\ Deny("access") /\ UNCHANGED svc
    /\ UNCHANGED <<inst, ask, dep, dc, pods, ing, cacheReady, queued, faults>>

\* The host is checked again, and the Ingress read.
Route ==
    /\ At("route")
    /\ IF HostTaken THEN Deny("host")
       ELSE pass' = [pass EXCEPT !.pc = IF ing = "none" THEN "routeCreate" ELSE "routeUpdate",
                                 !.ingSame = TRUE]
    /\ UNCHANGED <<inst, ask, objects, cacheReady, queued, faults>>

RouteCreate ==
    /\ At("routeCreate")
    /\ \/ ing = "none" /\ ing' = "ours" /\ Proceed("cached")
       \/ ing # "none" /\ Deny("hostUnknown") /\ UNCHANGED ing
    /\ UNCHANGED <<inst, ask, dep, dc, pods, svc, cacheReady, queued, faults>>

\* An Ingress already as desired is not written, and a change goes unnoticed.
RouteUpdate ==
    /\ At("routeUpdate")
    /\ Proceed("cached") \/ (~pass.ingSame /\ Deny("hostUnknown"))
    /\ UNCHANGED <<inst, ask, objects, cacheReady, queued, faults>>

----------------------------------------------------------------------------
\* evaluateInstanceReadiness and the status

\* The Deployment and the Endpoints come from the cache.
Cached ==
    /\ At("cached")
    /\ Proceed(IF cacheReady THEN "probe" ELSE "pending")
    /\ UNCHANGED <<inst, ask, objects, cacheReady, queued, faults>>

\* /ping goes through the Service to any ready pod with the instance's labels.
Probe ==
    /\ At("probe")
    /\ \/ \E s \in Slots :
             /\ pods[s].state \in {"ready", "orphan"}
             /\ pass' = [pass EXCEPT !.pc = "report",
                   !.answered = IF pods[s].state = "orphan" THEN "orphan"
                                ELSE IF pods[s].tmpl = pass.tmpl THEN "same" ELSE "other"]
       \/ /\ \A s \in Slots : pods[s].state \notin {"ready", "orphan"}
          /\ Proceed("pending")
    /\ UNCHANGED <<inst, ask, objects, cacheReady, queued, faults>>

\* Status().Update under the resourceVersion of the pass's copy
WriteStatus(st) ==
    /\ inst' = IF pass.fresh THEN [inst EXCEPT !.status = st, !.observed = pass.latest] ELSE inst
    /\ End(TRUE)
    /\ UNCHANGED <<ask, objects, cacheReady, faults>>

Pending == At("pending") /\ WriteStatus("pending")
Report == At("report") /\ WriteStatus("ready")

----------------------------------------------------------------------------
\* denyAccess, rejectReplicas, rejectImage, stopForHostnameFailure, and the two
\* early returns of the image check: each call is made whatever became of the
\* one before.

Flawed == [pass EXCEPT !.clean = FALSE]

\* The image check itself has dealt with the Deployment.
AfterWithdrawal == IF pass.why \in {"unverified", "stopping"} THEN "denyStatus" ELSE "denyStop"

DenyRoute ==
    /\ At("denyRoute")
    /\ \/ ing = "none" /\ Proceed(AfterWithdrawal)
       \/ ing = "foreign" /\ pass' = [pass EXCEPT !.pc = AfterWithdrawal, !.clean = FALSE]
       \/ ing = "ours" /\ pass' = [pass EXCEPT !.pc = "denyDelete", !.ingSame = TRUE]
    /\ UNCHANGED <<inst, ask, objects, cacheReady, queued, faults>>

\* Mutant: the delete goes by name.
DenyDelete_ByName ==
    /\ At("denyDelete") /\ ing' = "none" /\ Proceed(AfterWithdrawal)
    /\ UNCHANGED <<inst, ask, dep, dc, pods, svc, cacheReady, queued, faults>>

DenyDelete ==
    /\ At("denyDelete")
    /\ \/ ing = "none" /\ Proceed(AfterWithdrawal) /\ UNCHANGED ing
       \/ ing # "none" /\ pass.ingSame /\ ing' = "none" /\ Proceed(AfterWithdrawal)
       \/ /\ ing # "none" /\ ~pass.ingSame /\ UNCHANGED ing
          /\ pass' = [Flawed EXCEPT !.pc = AfterWithdrawal]
    /\ UNCHANGED <<inst, ask, dep, dc, pods, svc, cacheReady, queued, faults>>

\* stopUnapprovedDeployment(force = true): the read
DenyStop ==
    /\ At("denyStop")
    /\ \/ dep.owner = "none" /\ Proceed("denyStatus")
       \/ dep.owner = "foreign" /\ pass' = [Flawed EXCEPT !.pc = "denyStatus"]
       \/ dep.owner = "ours" /\ dep.replicas = 0 /\ Proceed("denyStatus")
       \/ /\ dep.owner = "ours" /\ dep.replicas # 0
          /\ pass' = [pass EXCEPT !.pc = "denyScale", !.depSame = TRUE]
    /\ UNCHANGED <<inst, ask, objects, cacheReady, queued, faults>>

\* stopUnapprovedDeployment(force = true): the scale-down
DenyScale ==
    /\ At("denyScale")
    /\ \/ pass.depSame /\ ScaleTo(0) /\ Proceed("denyStatus")
       \/ ~pass.depSame /\ pass' = [Flawed EXCEPT !.pc = "denyStatus"] /\ UNCHANGED dep
    /\ UNCHANGED <<inst, ask, dc, pods, ing, svc, cacheReady, queued, faults>>

\* Mutant: an unsupported image is never looked at again.
Retried_NotImage == pass.why # "image"

\* Mutant: a refusal that went through is not looked at again.
Retried_OnError == ~pass.clean

\* Every refusal is requeued or returns an error, except a clean rejectImage.
Retried == pass.why # "image" \/ ~pass.clean

\* updateImagePolicyStatus and hostnameFailure.  A failed check leaves a status
\* that the pass believes blank; an identity the policy refuses loses its slug.
DenyStatus ==
    /\ At("denyStatus")
    /\ \/ /\ inst.phase = "gone" \/ (pass.why = "hostUnknown" /\ pass.blank)
          /\ UNCHANGED inst /\ End(TRUE)
       \/ /\ inst.phase # "gone" /\ ~(pass.why = "hostUnknown" /\ pass.blank)
          /\ inst' = [BlankStatus EXCEPT !.slugSet = @ /\ pass.why # "hostUnmapped"]
          /\ End(Retried)
    /\ UNCHANGED <<ask, objects, cacheReady, faults>>

----------------------------------------------------------------------------
\* Failed calls and crashes

\* ensureSlug has blanked the pass's copy of the status before the patch fails.
SlugLost ==
    pass' = [pass EXCEPT !.pc = "denyRoute", !.why = "hostUnknown",
                         !.blank = @ \/ ~inst.slugSet]

\* How the pass goes on when the call it is about to make returns an error
\* without having taken effect.
OnError ==
    CASE pass.pc \in {"unfinalize", "finalizer", "cached", "pending", "report", "denyStatus"} ->
           End(TRUE)
      [] pass.pc \in {"check", "checkScale"} -> Deny("unverified") /\ UNCHANGED queued
      [] pass.pc = "slug" -> SlugLost /\ UNCHANGED queued
      [] pass.pc \in {"host", "route", "routeCreate", "routeUpdate"} ->
           Deny("hostUnknown") /\ UNCHANGED queued
      [] pass.pc = "probe" -> Proceed("pending") /\ UNCHANGED queued
      [] pass.pc \in {"denyRoute", "denyDelete"} ->
           pass' = [Flawed EXCEPT !.pc = AfterWithdrawal] /\ UNCHANGED queued
      [] pass.pc \in {"denyStop", "denyScale"} ->
           pass' = [Flawed EXCEPT !.pc = "denyStatus"] /\ UNCHANGED queued
      [] OTHER -> Deny("access") /\ UNCHANGED queued

Fault == faults < MaxFaults /\ faults' = faults + 1

\* A pin that fails after the Secret was created leaves an untrusted bundle.
ApiError ==
    /\ ~At("idle") /\ Fault /\ OnError
    /\ \/ UNCHANGED ask
       \/ /\ At("access") /\ ask.accessOk /\ ask.wanted \notin ask.pinned
          /\ ask' = [ask EXCEPT !.accessOk = FALSE]
    /\ UNCHANGED <<inst, objects, cacheReady>>

\* The manager stops anywhere; the new one queues every instance.
Crash ==
    /\ ~At("idle") /\ Fault /\ pass' = Idle /\ queued' = TRUE
    /\ UNCHANGED <<inst, ask, objects, cacheReady>>

----------------------------------------------------------------------------
\* The cluster: Deployment controller, kubelet, caches, garbage collector

\* Owns maps the events of an object to the instance that controls it: those of a
\* foreign object of the same name, also when it appears or goes, wake nobody.
Wakes(owner) == queued' = (queued \/ owner = "ours")

\* A pass that has read an object before a change will fail to write it.
DeploymentTouched == pass' = [pass EXCEPT !.depSame = FALSE] /\ Wakes(dep.owner)
IngressTouched == pass' = [pass EXCEPT !.ingSame = FALSE] /\ Wakes(ing)

\* The controller acts on the current spec and reports what it runs.
DCSync ==
    /\ dep.owner = "ours" /\ (~dep.seen \/ dep.status # Cardinality(ActivePods))
    /\ dc' = [tmpl |-> dep.tmpl, replicas |-> dep.replicas]
    /\ dep' = [dep EXCEPT !.seen = TRUE, !.status = Cardinality(ActivePods)]
    /\ DeploymentTouched
    /\ UNCHANGED <<inst, ask, pods, ing, svc, cacheReady, faults>>

PodCreate(s) ==
    /\ dep.owner = "ours" /\ pods[s].state = "none"
    /\ Cardinality({t \in ActivePods : pods[t].tmpl = dc.tmpl}) < dc.replicas
    /\ pods' = [pods EXCEPT ![s] = [tmpl |-> dc.tmpl, state |-> "starting"]]
    /\ UNCHANGED <<inst, ask, dep, dc, ing, svc, cacheReady, queued, pass, faults>>

PodReady(s) ==
    /\ pods[s].state = "starting" /\ pods' = [pods EXCEPT ![s].state = "ready"]
    /\ UNCHANGED <<inst, ask, dep, dc, ing, svc, cacheReady, queued, pass, faults>>

\* Scaled down, replaced, or collected after its Deployment
PodTerminate(s) ==
    /\ \/ pods[s].state = "orphan"
       \/ Active(s) /\ (pods[s].tmpl # dc.tmpl \/ Cardinality(ActivePods) > dc.replicas)
    /\ pods' = [pods EXCEPT ![s].state = "terminating"]
    /\ UNCHANGED <<inst, ask, dep, dc, ing, svc, cacheReady, queued, pass, faults>>

PodGone(s) ==
    /\ pods[s].state = "terminating" /\ pods' = [pods EXCEPT ![s] = Empty]
    /\ UNCHANGED <<inst, ask, dep, dc, ing, svc, cacheReady, queued, pass, faults>>

\* The conditions evaluateInstanceReadiness reads, as they are now
Available ==
    /\ dep.owner = "ours" /\ dep.seen
    /\ \E s \in Slots : pods[s].state = "ready"
    /\ dep.replicas <=
          Cardinality({s \in Slots : pods[s].state = "ready" /\ pods[s].tmpl = dc.tmpl})

CacheSync ==
    /\ cacheReady # Available /\ cacheReady' = Available /\ queued' = TRUE
    /\ UNCHANGED <<inst, ask, objects, pass, faults>>

\* The Deployment disappears; its pods go on until they are collected.
Orphaned == [s \in Slots |-> IF Active(s) THEN [pods[s] EXCEPT !.state = "orphan"] ELSE pods[s]]
DropDeployment ==
    /\ dep' = NoDeployment /\ dc' = [tmpl |-> None, replicas |-> 0] /\ pods' = Orphaned

\* Owner references: what belongs to a removed instance goes with it.
Collect ==
    /\ inst.phase = "gone" /\ "ours" \in {dep.owner, ing, svc}
    /\ IF dep.owner = "ours" THEN DropDeployment ELSE UNCHANGED <<dep, dc, pods>>
    /\ ing' = (IF ing = "ours" THEN "none" ELSE ing)
    /\ svc' = (IF svc = "ours" THEN "none" ELSE svc)
    /\ pass' = [pass EXCEPT !.depSame = FALSE, !.ingSame = FALSE]
    /\ UNCHANGED <<inst, ask, cacheReady, queued, faults>>

----------------------------------------------------------------------------
\* Other writers

SpecWrite ==
    /\ inst.phase # "gone" /\ Fault
    /\ \E ok \in BOOLEAN, r \in Replicas :
          /\ <<ok, r>> # <<inst.imageOk, inst.replicas>>
          /\ inst' = [inst EXCEPT !.imageOk = ok, !.replicas = r, !.observed = FALSE]
    /\ pass' = [pass EXCEPT !.fresh = FALSE, !.latest = FALSE] /\ queued' = TRUE
    /\ UNCHANGED <<ask, objects, cacheReady>>

UserDelete ==
    /\ inst.phase = "live" /\ Fault
    /\ inst' = [inst EXCEPT !.phase = IF inst.finalizer THEN "deleting" ELSE "gone"]
    /\ pass' = [pass EXCEPT !.fresh = FALSE] /\ queued' = TRUE
    /\ UNCHANGED <<ask, objects, cacheReady>>

\* Nothing the manager watches: other Ingresses, the operator's access Secrets
OperatorChange ==
    /\ Fault
    /\ \/ /\ ask.host # "unmapped"
          /\ \E h \in {"free", "claimed"} \ {ask.host} : ask' = [ask EXCEPT !.host = h]
       \/ ask' = [ask EXCEPT !.accessOk = ~@]
       \/ ask' = [ask EXCEPT !.credsOk = ~@]
       \/ \E w \in Revs \ {ask.wanted}, pin \in BOOLEAN :
             ask' = [ask EXCEPT !.wanted = w, !.pinned = IF pin THEN @ \cup {w} ELSE @]
    /\ UNCHANGED <<inst, objects, cacheReady, queued, pass>>

\* A new hostname policy needs a restarted manager.  It maps or drops the
\* instance, or gives it another host, hence another public URL and template.
PolicyChange ==
    /\ Fault /\ pass' = Idle /\ queued' = TRUE
    /\ \/ /\ ask' = [ask EXCEPT !.host = IF @ = "unmapped" THEN "free" ELSE "unmapped"]
          /\ UNCHANGED inst
       \/ /\ ask.host # "unmapped" /\ inst' = [inst EXCEPT !.slugSet = FALSE]
          /\ \E w \in Revs \ {ask.wanted} : ask' = [ask EXCEPT !.wanted = w]
    /\ UNCHANGED <<objects, cacheReady>>

\* Somebody removes an Ingress, or creates one of our name.
IngressChange ==
    /\ Fault /\ ing' = (IF ing = "none" THEN "foreign" ELSE "none") /\ IngressTouched
    /\ UNCHANGED <<inst, ask, dep, dc, pods, svc, cacheReady>>

\* Somebody removes a Deployment, or creates one of our name.
DeploymentChange ==
    /\ Fault /\ DeploymentTouched
    /\ IF dep.owner = "none"
       THEN /\ dep' = [NoDeployment EXCEPT !.owner = "foreign", !.tmpl = Legacy]
            /\ UNCHANGED <<dc, pods>>
       ELSE DropDeployment
    /\ UNCHANGED <<inst, ask, ing, svc, cacheReady>>

ExternalScale ==
    /\ Fault /\ dep.owner = "ours"
    /\ ScaleTo(IF dep.replicas = 0 THEN 1 ELSE 0) /\ DeploymentTouched
    /\ UNCHANGED <<inst, ask, dc, pods, ing, svc, cacheReady>>

----------------------------------------------------------------------------
PassStep ==
    \/ Begin \/ Unfinalize \/ Check \/ CheckScale \/ Slug \/ Host
    \/ Access \/ PinRead \/ Finalizer \/ Creds
    \/ Deploy \/ Create \/ CutRoute \/ CutDelete \/ CutScale \/ CutPods \/ Install \/ Scale
    \/ Service \/ Route \/ RouteCreate \/ RouteUpdate \/ Cached \/ Probe \/ Pending \/ Report
    \/ DenyRoute \/ DenyDelete \/ DenyStop \/ DenyScale \/ DenyStatus

PodStep == \E s \in Slots : PodCreate(s) \/ PodReady(s) \/ PodTerminate(s) \/ PodGone(s)
ClusterStep == DCSync \/ PodStep \/ CacheSync \/ Collect
Disturbance ==
    \/ ApiError \/ Crash \/ SpecWrite \/ UserDelete \/ OperatorChange \/ PolicyChange
    \/ IngressChange \/ DeploymentChange \/ ExternalScale

Next == PassStep \/ ClusterStep \/ Disturbance
Spec == Init /\ [][Next]_vars

\* The worker takes what is queued, the cluster's controllers do their work;
\* nothing obliges anybody to disturb them.
Fairness ==
    /\ WF_vars(PassStep)
    /\ WF_vars(DCSync) /\ WF_vars(PodStep) /\ WF_vars(CacheSync) /\ WF_vars(Collect)
FairSpec == Spec /\ Fairness

----------------------------------------------------------------------------
\* Properties

\* Every object has its type, and a Deployment exists with a template: a pass
\* never writes one it did not compute.
TypeOK ==
    /\ inst \in Instances /\ ask \in Asked /\ dep \in Deployments
    /\ (dep.owner = "none") <=> (dep.tmpl = None)
    /\ dc \in [tmpl : Templates \cup {None}, replicas : Nat]
    /\ pods \in [Slots -> [tmpl : Templates \cup {None},
                           state : {"none", "starting", "ready", "orphan", "terminating"}]]
    /\ ing \in Owners /\ svc \in Owners
    /\ cacheReady \in BOOLEAN /\ queued \in BOOLEAN
    /\ pass \in Passes /\ faults \in 0..MaxFaults

\* What the cutover promises (waitForAccessCutover): the template of a running
\* instance is replaced only when no pod, not even a terminating one, and no
\* route is left, whoever acted between the reads and the write.
CutoverClean ==
    [][dep.owner = "ours" /\ dep'.owner = "ours" /\ dep'.tmpl # dep.tmpl
          => NoPods /\ ing # "ours"]_vars

\* No two configurations run side by side: every pod the Deployment controller
\* keeps has the template the Deployment has now, so a revoked or rotated access
\* bundle is never served beside its successor.
NoMixedWorkload == \A s \in Slots : Active(s) => dep.owner = "ours" /\ pods[s].tmpl = dep.tmpl

\* Ready is earned by the workload it is reported for: although the Deployment
\* and the Endpoints come from a lagging cache, the pod that answered the probe
\* runs the template this pass applied, unless it is the leftover of a
\* Deployment somebody removed.
ReadyEarned == At("report") => pass.answered # "other"

\* Nothing is left half refused: when no pass, no timer and no event looks after an
\* instance any more, its image is the reason, and the refusal went through, its
\* own route, workload and status, with nothing of that changed since (rejectImage,
\* the only refusal that is not requeued).  A foreign object that took one of the
\* names meanwhile is no reason to be called, and is left to whoever made it.
NeverAbandoned ==
    At("idle") /\ ~queued /\ inst.phase # "gone" =>
        /\ inst.phase = "live" /\ ~inst.imageOk
        /\ inst.status = "blank" /\ inst.observed
        /\ ing # "ours" /\ (dep.owner = "ours" => dep.replicas = 0)

\* A pass never writes or removes an object of another controller, also one that
\* took the name between the read and the write.
ForeignUntouched ==
    [][pass'.pc # pass.pc =>
          /\ dep.owner = "foreign" => dep' = dep
          /\ ing = "foreign" => ing' = ing
          /\ svc = "foreign" => svc' = svc]_vars

Serving ==
    /\ inst.status = "ready" /\ inst.observed /\ ing = "ours" /\ svc = "ours"
    /\ dep.owner = "ours" /\ dep.tmpl = ask.wanted /\ dep.replicas = 1
    /\ \E s \in Slots : pods[s] = [tmpl |-> ask.wanted, state |-> "ready"]

\* A Service of our name that is not ours is met after the Deployment is scaled
\* up, so such an instance starts and stops its workload for ever.
Withdrawn ==
    /\ inst.phase # "deleting" /\ ing # "ours"
    /\ inst.phase = "live" => inst.status = "blank"
    /\ inst.phase = "gone" => dep.owner # "ours" /\ svc # "ours"
    /\ svc # "foreign" => ActivePods = {} /\ (dep.owner = "ours" => dep.replicas = 0)

Admissible ==
    /\ inst.phase = "live" /\ inst.imageOk /\ inst.replicas <= 1
    /\ ask.host = "free" /\ ask.accessOk /\ ask.credsOk
    /\ "foreign" \notin {dep.owner, ing, svc}

\* Once nobody interferes any more, an instance that may be served is Ready on
\* the wanted template under the current generation; any other one ends without
\* route, workload and URL, and a deleted one is gone with all it owned.
Converges == <>[](IF Admissible THEN Serving ELSE Withdrawn)

Owned == IF dep.owner = "ours" THEN dep.tmpl ELSE None
Workers == {pods[s].tmpl : s \in ActivePods}

\* The pass, call by call, and everyone who interferes implement the rollout of
\* module WorkloadRollout.
Rollout == INSTANCE WorkloadRollout WITH
               Guarded <- Revs, Nothing <- None, installed <- Owned,
               running <- Workers, exposed <- (ing = "ours")

\* Seen from outside, a rotation, a cutover and a refusal are steps of that
\* rollout; in particular a route is never opened to a workload of an earlier
\* controller, which would serve without the access gate.
ImplementsRollout == Rollout!Spec

\* Only one application replica is ever asked for (docs/access-policy.md).
NeverOverScaled == dep.owner = "ours" => dep.replicas <= 1
====
