-------------------------- MODULE ManagedTemplate --------------------------
(***************************************************************************)
(* The pod template of one Deployment, shared by three writers: the        *)
(* controller, which owns what is executed; the API server, which fills    *)
(* fields left unset; and the platform and its users, who size containers, *)
(* schedule pods, add labels, and may change anything.  A pass compares    *)
(* the stored template with the managed one and, when they differ, stops   *)
(* the workload, waits, and installs the managed one.  A field that is     *)
(* compared but not normalised stops the workload at every pass, and one   *)
(* that is not compared lets a change stay.                                *)
(*                                                                         *)
(* Abstractions.  Fields are grouped by who decides them: "exec" stands    *)
(* for image, command, environment, probes, mounts and security context of *)
(* a container, "filled" for what the API server completes in it (message  *)
(* path and policy, protocols, probe thresholds and schemes).  A read and  *)
(* its write are one step, since the write carries the resourceVersion;    *)
(* the steps of a pass and the route are the matter of module Reconciler.  *)
(***************************************************************************)
EXTENDS Integers

CONSTANTS
    Wanted,     \* what the controller may want executed: bundle, checksum
    Foreign,    \* what anyone else may put in its place
    Sizes,      \* resource requests and limits of a container
    Unsized,    \* no resources
    None,       \* no Deployment; no such container
    MaxEdits    \* bound: writes of others, changes of what is wanted, denials

Managed == {"open-webui", "instance-access", "oauth2-proxy"}
Names == Managed \cup {"injected"}

\* Keys of template labels: the Deployment's selector, the guard's, another's
Selector == {"name", "instance"}
OwnLabels == Selector \cup {"instance-uid"}
LabelKeys == OwnLabels \cup {"other"}

ASSUME WantedAssumption == Wanted # {} /\ Foreign \notin Wanted
ASSUME EditsAssumption == MaxEdits \in Nat

Containers == [
    exec : Wanted \cup {Foreign},
    pull : {"unset", "IfNotPresent", "Always"},   \* imagePullPolicy
    filled : {"unset", "default", "else"},
    size : Sizes \cup {Unsized} ]

ASSUME NoneAssumption == None \notin Containers

Templates == [
    rev : Wanted \cup {Foreign},    \* annotations: access revision, checksum
    note : BOOLEAN,                 \* annotations of others
    labels : SUBSET LabelKeys,
    containers : [Names -> Containers \cup {None}],
    inits : BOOLEAN,                \* init containers
    volumes : Wanted \cup {Foreign},
    mode : {"unset", "default", "else"},  \* of Secret volumes
    guarded : BOOLEAN,              \* pod security context, no token, no host
                                    \* namespaces, no shared processes
    rest : {"unset", "default", "else"} ] \* every other field of the pod

VARIABLES
    want,      \* what the current pass wants executed
    dep,       \* the Deployment, or None
    accepted,  \* the last write, read or denial was a pass that found or left it as wanted
    touched,   \* what the controller manages changed since it last wrote it
    edits

vars == <<want, dep, accepted, touched, edits>>

Deployments == [
    tmpl : Templates, strategy : {"Recreate", "RollingUpdate"},
    replicas : {0, 1},
    drained : BOOLEAN ]  \* replicas = 0 was observed and no pod is left

ASSUME AbsentAssumption == None \notin Deployments

\* The API server admits a template only with the labels of the selector.
TypeOK ==
    /\ want \in Wanted
    /\ dep \in Deployments \cup {None}
    /\ dep # None => Selector \subseteq dep.tmpl.labels
    /\ accepted \in BOOLEAN /\ touched \in BOOLEAN /\ edits \in 0..MaxEdits

----------------------------------------------------------------------------
\* Templates

\* buildDeployment and applyAccessDeployment, before normalisation
Raw(w) ==
    [rev |-> w, note |-> FALSE, labels |-> OwnLabels,
     containers |-> [n \in Names |->
        IF n \in Managed THEN [exec |-> w, pull |-> "unset", filled |-> "unset", size |-> Unsized]
        ELSE None],
     inits |-> FALSE, volumes |-> w, mode |-> "unset", guarded |-> TRUE, rest |-> "unset"]

\* The resources of the container of that name, or of none
SizeIn(t, n) == IF t.containers[n] = None THEN Unsized ELSE t.containers[n].size

\* Mutant: resources are the controller's, like everything it executes.
Normal_OwnSize(old, d) ==
    [n \in Names |-> IF d.containers[n] = None THEN None
        ELSE [exec |-> d.containers[n].exec, pull |-> "IfNotPresent", filled |-> "default",
              size |-> d.containers[n].size]]

\* The containers managedAccessTemplate puts in: executable fields are the
\* desired ones, sizes the stored ones.
Normal(old, d) ==
    [n \in Names |-> IF d.containers[n] = None THEN None
        ELSE [exec |-> d.containers[n].exec, pull |-> "IfNotPresent", filled |-> "default",
              size |-> IF old.containers[n] = None THEN d.containers[n].size
                       ELSE old.containers[n].size]]

\* Mutant: the mode of Secret volumes is left for the API server to fill.
Merged_NoMode(old, d) ==
    [rev |-> d.rev, note |-> old.note, labels |-> old.labels \cup d.labels,
     containers |-> Normal(old, d), inits |-> FALSE, volumes |-> d.volumes, mode |-> d.mode,
     guarded |-> d.guarded, rest |-> old.rest]

\* managedAccessTemplate(existing, desired)
Merged(old, d) ==
    [rev |-> d.rev, note |-> old.note, labels |-> old.labels \cup d.labels,
     containers |-> Normal(old, d), inits |-> FALSE, volumes |-> d.volumes, mode |-> "default",
     guarded |-> d.guarded, rest |-> old.rest]

\* applyAccessDeployment ends by normalising what it built.
Desired(w) == Merged(Raw(w), Raw(w))

Filled(f) == IF f = "unset" THEN "default" ELSE f

\* What the API server stores: unset fields have their defaults.
FilledIn(c) == [exec |-> c.exec, pull |-> IF c.pull = "unset" THEN "IfNotPresent" ELSE c.pull,
                filled |-> Filled(c.filled), size |-> c.size]

Stored(t) ==
    [rev |-> t.rev, note |-> t.note, labels |-> t.labels,
     containers |-> [n \in Names |-> IF t.containers[n] = None THEN None
                                     ELSE FilledIn(t.containers[n])],
     inits |-> t.inits, volumes |-> t.volumes, mode |-> Filled(t.mode),
     guarded |-> t.guarded, rest |-> Filled(t.rest)]

----------------------------------------------------------------------------
\* reconcileDeployment

Init ==
    /\ want \in Wanted /\ dep = None
    /\ accepted = FALSE /\ touched = FALSE /\ edits = 0

Target == Merged(dep.tmpl, Desired(want))

\* Mutant: the access revision stands for the whole template.
Differs_Revision == dep.tmpl.rev # want \/ dep.strategy # "Recreate"

Differs == dep.tmpl # Target \/ dep.strategy # "Recreate"

Create ==
    /\ dep = None
    /\ dep' = [tmpl |-> Stored(Desired(want)), strategy |-> "Recreate",
               replicas |-> 1, drained |-> FALSE]
    /\ accepted' = TRUE /\ touched' = FALSE
    /\ UNCHANGED <<want, edits>>

\* waitForAccessCutover: scale to zero, then wait until nothing runs
Stop ==
    /\ dep # None /\ Differs /\ dep.replicas # 0
    /\ dep' = [dep EXCEPT !.replicas = 0, !.drained = FALSE]
    /\ accepted' = FALSE
    /\ UNCHANGED <<want, touched, edits>>

\* Mutant: the strategy of the stored Deployment is kept.
Install_KeepStrategy ==
    /\ dep # None /\ Differs /\ dep.replicas = 0 /\ dep.drained
    /\ dep' = [dep EXCEPT !.tmpl = Stored(Target), !.replicas = 1, !.drained = FALSE]
    /\ accepted' = TRUE /\ touched' = FALSE
    /\ UNCHANGED <<want, edits>>

Install ==
    /\ dep # None /\ Differs /\ dep.replicas = 0 /\ dep.drained
    /\ dep' = [tmpl |-> Stored(Target), strategy |-> "Recreate", replicas |-> 1, drained |-> FALSE]
    /\ accepted' = TRUE /\ touched' = FALSE
    /\ UNCHANGED <<want, edits>>

\* Already as wanted: at most the replicas are written.
Scale ==
    /\ dep # None /\ ~Differs
    /\ dep' = [dep EXCEPT !.replicas = 1, !.drained = FALSE] /\ accepted' = TRUE
    /\ UNCHANGED <<want, touched, edits>>

Pass == Create \/ Stop \/ Install \/ Scale

----------------------------------------------------------------------------
\* Everyone else

\* The Deployment controller stops the pods of a Deployment without replicas.
Drain ==
    /\ dep # None /\ dep.replicas = 0 /\ dep' = [dep EXCEPT !.drained = TRUE]
    /\ UNCHANGED <<want, accepted, touched, edits>>

Edited == edits < MaxEdits /\ edits' = edits + 1 /\ accepted' = FALSE

Replaced(t, n, c) == [t EXCEPT !.containers[n] = c]

\* Writes to what the controller leaves to others
Resized(t) ==
    {[t EXCEPT !.note = TRUE], [t EXCEPT !.labels = @ \cup {"other"}], [t EXCEPT !.rest = "else"]} \cup
    {Replaced(t, n, [t.containers[n] EXCEPT !.size = s]) :
        n \in {m \in Names : t.containers[m] # None}, s \in Sizes}

\* Writes to what it manages
Tampered(t) ==
    {[t EXCEPT !.rev = Foreign], [t EXCEPT !.labels = @ \ {"instance-uid"}],
     [t EXCEPT !.inits = TRUE], [t EXCEPT !.volumes = Foreign],
     [t EXCEPT !.mode = "else"], [t EXCEPT !.guarded = FALSE],
     Replaced(t, "injected", [exec |-> Foreign, pull |-> "Always", filled |-> "default",
                              size |-> Unsized])} \cup
    {Replaced(t, n, None) : n \in Managed} \cup
    UNION {{Replaced(t, n, [t.containers[n] EXCEPT !.exec = Foreign]),
            Replaced(t, n, [t.containers[n] EXCEPT !.pull = "Always"]),
            Replaced(t, n, [t.containers[n] EXCEPT !.filled = "else"])} :
              n \in {m \in Managed : t.containers[m] # None}}

Resize ==
    /\ Edited /\ dep # None
    /\ \E t \in Resized(dep.tmpl) : dep' = [dep EXCEPT !.tmpl = t]
    /\ UNCHANGED <<want, touched>>

Tamper ==
    /\ Edited /\ dep # None /\ touched' = TRUE
    /\ \/ \E t \in Tampered(dep.tmpl) : dep' = [dep EXCEPT !.tmpl = t]
       \/ dep' = [dep EXCEPT !.strategy = "RollingUpdate"]
    /\ UNCHANGED want

\* The bundle, the credentials or the pinned image changed.
Change ==
    /\ Edited /\ want' \in Wanted \ {want} /\ touched' = TRUE
    /\ UNCHANGED dep

\* A pass that denies access stops the workload as it is.
Deny ==
    /\ Edited /\ dep # None /\ dep' = [dep EXCEPT !.replicas = 0, !.drained = FALSE]
    /\ UNCHANGED <<want, touched>>

Drop ==
    /\ Edited /\ dep # None /\ dep' = None
    /\ UNCHANGED <<want, touched>>

Next == Pass \/ Drain \/ Resize \/ Tamper \/ Change \/ Deny \/ Drop

Spec == Init /\ [][Next]_vars
FairSpec ==
    /\ Spec
    /\ WF_vars(Create) /\ WF_vars(Stop) /\ WF_vars(Install) /\ WF_vars(Scale) /\ WF_vars(Drain)

----------------------------------------------------------------------------
\* The managed part of a template, spelled out field by field
Exact(t, w) ==
    /\ t.rev = w /\ t.volumes = w /\ ~t.inits /\ t.guarded /\ t.mode = "default"
    /\ OwnLabels \subseteq t.labels
    /\ t.containers["injected"] = None
    /\ \A n \in Managed :
          /\ t.containers[n] # None
          /\ t.containers[n].exec = w /\ t.containers[n].pull = "IfNotPresent"
          /\ t.containers[n].filled = "default"

\* A Deployment a pass has accepted executes what the controller wants and nothing
\* else, one replica at a time, whatever was changed in it before
\* (reconcileDeployment's comparison and write).
AcceptedExact ==
    accepted => /\ dep # None /\ Exact(dep.tmpl, want)
                /\ dep.strategy = "Recreate" /\ dep.replicas = 1

\* A pass keeps what is decided by others: sizes of containers that were there,
\* their annotations and labels, scheduling (managedAccessTemplate).
PlatformKept ==
    [][Pass /\ dep # None =>
        /\ dep'.tmpl.rest = dep.tmpl.rest /\ dep'.tmpl.note = dep.tmpl.note
        /\ dep.tmpl.labels \subseteq dep'.tmpl.labels
        /\ \A n \in Managed : dep.tmpl.containers[n] # None =>
              SizeIn(dep'.tmpl, n) = SizeIn(dep.tmpl, n)]_vars

\* The workload is stopped for a new template only when something the controller
\* manages was changed: no API round trip, sizing or annotation starts a cutover
\* ("Normalize API defaults once ...", access_resources.go).
NoSpuriousCutover == [][Stop => touched]_vars

\* Left alone, the workload ends up serving what is wanted and stays so: the
\* controller and the API server never undo each other's fields for ever.
TemplateSettles == <>[](accepted /\ dep.replicas = 1)
=============================================================================
