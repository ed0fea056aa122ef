-------------------------- MODULE ReconcilerProofs --------------------------
(***************************************************************************)
(* The cutover of Reconciler, for every number of revisions, pods and       *)
(* disturbances.  The argument: a template is replaced under a              *)
(* resourceVersion whose Deployment was scaled to zero and seen so by its   *)
(* controller, which therefore creates no pod between the list that found   *)
(* none and the write (Mirror, Cut); and only a pass creates a route, so   *)
(* the one that was withdrawn stays away.                                   *)
(***************************************************************************)
EXTENDS Reconciler, FiniteSetTheorems, TLAPS

\* The controller runs only the Deployment's own template, and exactly the
\* spec whose generation it has reported.
Mirror ==
    /\ dep.owner # "ours" => dc.replicas = 0
    /\ dc.replicas # 0 => dc.tmpl = dep.tmpl
    /\ dep.owner = "ours" /\ dep.seen => dc.replicas = dep.replicas

\* What a pass has read still holds as long as nobody wrote the object.
Held ==
    /\ pass.depSame => dep.owner = "ours"
    /\ pass.pc \in {"cutDelete", "denyDelete"} /\ pass.ingSame => ing # "foreign"

\* The stages of a cutover
Cut ==
    /\ pass.pc \in {"cutRoute", "cutDelete", "cutPods"} /\ pass.depSame /\ pass.snap = "settled"
          => dep.seen /\ dep.replicas = 0
    /\ pass.pc \in {"cutScale", "cutPods", "install"} => ing # "ours"
    /\ pass.pc = "install" /\ pass.depSame => dep.seen /\ dep.replicas = 0 /\ NoPods

\* From the Deployment on, a pass works with one revision, and a Deployment of
\* ours it has been through has that revision.
Building == {"pinRead", "finalizer", "creds", "deploy", "create", "cutRoute", "cutDelete",
             "cutScale", "cutPods", "install", "scale"}
Applied == {"service", "route", "routeCreate", "routeUpdate", "cached", "probe"}

Revision ==
    /\ pass.pc \in Building \cup Applied => pass.tmpl \in Revs
    /\ pass.pc \in Applied \cup {"scale"} /\ dep.owner = "ours" => dep.tmpl = pass.tmpl

\* The types of what the Deployment controller runs
PodStates == [tmpl : Templates \cup {None},
              state : {"none", "starting", "ready", "orphan", "terminating"}]

DCType == dc \in [tmpl : Templates \cup {None}, replicas : Nat]
PodType == pods \in [Slots -> PodStates]

Logic == Mirror /\ Held /\ Cut /\ Revision /\ NoMixedWorkload /\ ReadyEarned
IInv == TypeOK /\ Logic

----------------------------------------------------------------------------
\* How a step moves the pass

Kept ==
    /\ pass'.tmpl = pass.tmpl /\ pass'.depSame = pass.depSame /\ pass'.ingSame = pass.ingSame
    /\ pass'.snap = pass.snap /\ pass'.answered = pass.answered

\* Proceed changes the program counter and nothing else.
LEMMA ProceedFacts ==
    ASSUME pass \in Passes, NEW p \in Steps, Proceed(p)
    PROVE  pass' \in Passes /\ pass'.pc = p /\ Kept
<1>1. pass' \in Passes
  BY Zenon DEF Proceed, Passes
<1>2. pass'.pc = p /\ Kept
  BY DEF Proceed, Passes, Kept
<1> QED BY <1>1, <1>2

\* A refusal starts with the route.
LEMMA DenyFacts ==
    ASSUME pass \in Passes, NEW c \in Causes, Deny(c)
    PROVE  pass' \in Passes /\ pass'.pc = "denyRoute" /\ Kept
<1>1. "denyRoute" \in Steps
  BY DEF Steps
<1>2. pass' \in Passes
  BY <1>1, Zenon DEF Deny, Passes
<1>3. pass'.pc = "denyRoute" /\ Kept
  BY DEF Deny, Passes, Kept
<1> QED BY <1>2, <1>3

\* Between two passes nothing is remembered.
LEMMA IdleFacts ==
    /\ Idle \in Passes /\ Idle.pc = "idle" /\ ~Idle.depSame /\ ~Idle.ingSame
<1>1. Idle \in Passes
  BY Zenon DEF Idle, Passes, Steps, Causes
<1>2. Idle.pc = "idle" /\ ~Idle.depSame /\ ~Idle.ingSame
  BY DEF Idle
<1> QED BY <1>1, <1>2

\* Writing spec.replicas moves the generation on.
LEMMA ScaleFacts ==
    ASSUME dep \in Deployments, NEW n \in Nat, ScaleTo(n)
    PROVE  /\ dep' \in Deployments /\ dep'.owner = dep.owner /\ dep'.tmpl = dep.tmpl
           /\ dep'.replicas = n /\ ~dep'.seen
<1>1. dep' \in Deployments
  BY Zenon DEF ScaleTo, Deployments
<1>2. dep'.owner = dep.owner /\ dep'.tmpl = dep.tmpl /\ dep'.replicas = n /\ ~dep'.seen
  BY DEF ScaleTo, Deployments
<1> QED BY <1>1, <1>2

\* What a disturbance does to the pass: at most, it forgets that an object is
\* unchanged.
LEMMA TouchFacts ==
    ASSUME pass \in Passes,
           \/ pass' = [pass EXCEPT !.depSame = FALSE]
           \/ pass' = [pass EXCEPT !.ingSame = FALSE]
           \/ pass' = [pass EXCEPT !.depSame = FALSE, !.ingSame = FALSE]
           \/ pass' = [pass EXCEPT !.fresh = FALSE]
           \/ pass' = [pass EXCEPT !.fresh = FALSE, !.latest = FALSE]
    PROVE  /\ pass' \in Passes
           /\ pass'.pc = pass.pc /\ pass'.tmpl = pass.tmpl /\ pass'.snap = pass.snap
           /\ pass'.answered = pass.answered
           /\ pass'.depSame => pass.depSame
           /\ pass'.ingSame => pass.ingSame
<1>1. pass' \in Passes
  <2>1. CASE pass' = [pass EXCEPT !.depSame = FALSE] \/ pass' = [pass EXCEPT !.ingSame = FALSE]
    BY <2>1, Zenon DEF Passes
  <2>2. CASE pass' = [pass EXCEPT !.depSame = FALSE, !.ingSame = FALSE]
    BY <2>2, Zenon DEF Passes
  <2>3. CASE pass' = [pass EXCEPT !.fresh = FALSE]
    BY <2>3, Zenon DEF Passes
  <2>4. CASE pass' = [pass EXCEPT !.fresh = FALSE, !.latest = FALSE]
    BY <2>4, Zenon DEF Passes
  <2> QED BY <2>1, <2>2, <2>3, <2>4
<1>2. /\ pass'.pc = pass.pc /\ pass'.tmpl = pass.tmpl /\ pass'.snap = pass.snap
      /\ pass'.answered = pass.answered
      /\ pass'.depSame => pass.depSame
      /\ pass'.ingSame => pass.ingSame
  BY DEF Passes
<1> QED BY <1>1, <1>2

\* Where a pass relies on nothing it has read or computed
Quiet == {"idle", "unfinalize", "check", "checkScale", "slug", "host", "access", "pending",
          "denyRoute", "denyStop", "denyScale", "denyStatus"}

\* A step that only leads there disturbs nothing.
LEMMA ToQuiet ==
    ASSUME Logic, pass'.pc \in Quiet, UNCHANGED objects, pass'.depSame => dep.owner = "ours"
    PROVE  Logic'
  BY SMT DEF objects, Logic, Mirror, Held, Cut, Revision, NoMixedWorkload, ReadyEarned, Quiet,
             Building, Applied, NoPods, Active, At

\* Nor does a write of spec.replicas that ends there.
LEMMA ScaleToQuiet ==
    ASSUME Logic, dep \in Deployments, NEW n \in Nat, ScaleTo(n), dep.owner = "ours",
           UNCHANGED <<dc, pods, ing>>, pass'.pc \in Quiet
    PROVE  Logic'
  BY ScaleFacts, SMT DEF Logic, Mirror, Held, Cut, Revision, NoMixedWorkload, ReadyEarned, Quiet,
             Building, Applied, NoPods, Active, At

----------------------------------------------------------------------------
\* The steps of a pass, group by group

\* Deletion, image check, hostname and access: reads, refusals, pins.
LEMMA SelectSteps ==
    ASSUME IInv, Check \/ CheckScale \/ Host \/ Creds \/ Deploy \/ Pending \/ Report
    PROVE  Logic' /\ pass' \in Passes /\ dep' \in Deployments
<1> USE DEF At
<1>0. pass \in Passes /\ dep \in Deployments /\ Logic
  BY DEF IInv, TypeOK
<1>1. CASE Check
  <2>1. CASE ImageChecked /\ UNCHANGED objects
    BY <1>0, <2>1, ProceedFacts, DenyFacts, ToQuiet
       DEF ImageChecked, Steps, Causes, Quiet, Logic, Held, Kept, objects
  <2>2. CASE (Deny("unverified") \/ Deny("stopping")) /\ UNCHANGED objects
    BY <1>0, <2>2, DenyFacts, ToQuiet DEF Causes, Quiet, Logic, Held, Kept, objects
  <2>3. CASE /\ dep.owner = "ours" /\ UNCHANGED objects
             /\ pass' = [pass EXCEPT !.pc = "checkScale", !.depSame = TRUE]
    <3>1. pass' \in Passes
      BY <1>0, <2>3, Zenon DEF Passes, Steps
    <3>2. pass'.pc = "checkScale"
      BY <1>0, <2>3 DEF Passes
    <3> QED BY <1>0, <2>3, <3>1, <3>2, ToQuiet DEF Quiet, objects
  <2> QED BY <1>1, <2>1, <2>2, <2>3 DEF Check
<1>2. CASE CheckScale
  <2>1. CASE pass.depSame /\ ScaleTo(0) /\ Deny("stopping") /\ UNCHANGED <<dc, pods, ing>>
    BY <1>0, <2>1, DenyFacts, ScaleFacts, ScaleToQuiet DEF Causes, Quiet, Logic, Held
  <2>2. CASE ~pass.depSame /\ UNCHANGED objects /\ Deny("unverified")
    BY <1>0, <2>2, DenyFacts, ToQuiet DEF Causes, Quiet, Kept, objects
  <2> QED BY <1>2, <2>1, <2>2 DEF CheckScale, objects
<1>3. CASE Host
  BY <1>0, <1>3, ProceedFacts, DenyFacts, ToQuiet
     DEF Host, Steps, Causes, Quiet, Logic, Held, Kept, objects
<1>4. CASE Creds
  <2>1. CASE Deny("access")
    BY <1>0, <1>4, <2>1, DenyFacts, ToQuiet DEF Creds, Causes, Quiet, Logic, Held, Kept, objects
  <2>2. CASE Proceed("deploy")
    BY <1>0, <1>4, <2>2, ProceedFacts
       DEF Creds, Steps, Logic, Mirror, Held, Cut, Revision, NoMixedWorkload, ReadyEarned,
           Building, Applied, NoPods, Active, Kept, objects
  <2> QED BY <1>4, <2>1, <2>2 DEF Creds
<1>5. CASE Deploy
  <2>1. CASE Deny("access")
    BY <1>0, <1>5, <2>1, DenyFacts, ToQuiet DEF Deploy, Causes, Quiet, Logic, Held, Kept, objects
  <2>2. CASE Proceed("create")
    BY <1>0, <1>5, <2>2, ProceedFacts
       DEF Deploy, Steps, Logic, Mirror, Held, Cut, Revision, NoMixedWorkload, ReadyEarned,
           Building, Applied, NoPods, Active, Kept, objects
  <2>3. CASE dep.owner = "ours" /\ DeployOurs
    <3>1. pass' \in Passes
      <4>1. \E p \in {"cutRoute", "scale", "service"}, sn \in {"scale", "busy", "settled"} :
                pass' = [pass EXCEPT !.depSame = TRUE, !.snap = sn, !.pc = p]
        BY <2>3, Zenon DEF DeployOurs
      <4>2. PICK p \in Steps, sn \in {"scale", "busy", "settled"} :
                pass' = [pass EXCEPT !.depSame = TRUE, !.snap = sn, !.pc = p]
        BY <4>1 DEF Steps
      <4>3. [pass EXCEPT !.depSame = TRUE, !.snap = sn] \in Passes
        BY <1>0, Zenon DEF Passes
      <4>4. pass' = [[pass EXCEPT !.depSame = TRUE, !.snap = sn] EXCEPT !.pc = p]
        BY <4>2
      <4> QED BY <4>3, <4>4, Zenon DEF Passes
    <3>2. /\ pass'.pc \in {"cutRoute", "scale", "service"} /\ pass'.tmpl = pass.tmpl
          /\ pass'.pc # "cutRoute" => dep.tmpl = pass.tmpl
          /\ pass'.snap = "settled" => dep.replicas = 0 /\ dep.seen
      BY <1>0, <2>3 DEF DeployOurs, Passes
    <3> QED
      BY <1>0, <1>5, <2>3, <3>1, <3>2
         DEF Deploy, Logic, Mirror, Held, Cut, Revision, NoMixedWorkload, ReadyEarned,
             Building, Applied, NoPods, Active, objects
  <2> QED BY <1>5, <2>1, <2>2, <2>3 DEF Deploy
<1>6. CASE Pending \/ Report
  BY <1>0, <1>6, IdleFacts, ToQuiet DEF Pending, Report, WriteStatus, End, Quiet, objects
<1> QED BY <1>1, <1>2, <1>3, <1>4, <1>5, <1>6

\* The cutover and the writes of the Deployment's template
LEMMA DeploySteps ==
    ASSUME IInv, Create \/ CutRoute \/ CutDelete \/ CutScale \/ CutPods \/ Install \/ Scale
    PROVE  Logic' /\ pass' \in Passes /\ dep' \in Deployments
<1> USE DEF At
<1>0. pass \in Passes /\ dep \in Deployments /\ Logic /\ WantReplicas \in Nat
  BY DEF IInv, TypeOK, WantReplicas, Passes
<1>a. ASSUME RouteWithdrawn, pass.pc \in {"cutRoute", "cutDelete"}
      PROVE  pass' \in Passes /\ pass'.pc \in {"cutScale", "cutPods"} /\ Kept
  BY <1>0, <1>a, ProceedFacts DEF RouteWithdrawn, Steps
<1>b. ASSUME Cutover
      PROVE  pass' \in Passes /\ pass'.pc = "denyStatus" /\ Kept
  <2>1. pass' \in Passes
    <3>1. "denyStatus" \in Steps /\ "cutover" \in Causes
      BY DEF Steps, Causes
    <3> QED BY <1>0, <1>b, <3>1, Zenon DEF Cutover, Passes
  <2>2. pass'.pc = "denyStatus" /\ Kept
    BY <1>0, <1>b DEF Cutover, Passes, Kept
  <2> QED BY <2>1, <2>2
<1>c. ASSUME Deny("access"), UNCHANGED objects
      PROVE  Logic' /\ pass' \in Passes
  BY <1>0, <1>c, DenyFacts, ToQuiet DEF Causes, Quiet, Logic, Held, Kept, objects
<1>1. CASE Create
  <2>1. CASE Proceed("service") /\ dep.owner = "none"
    <3>1. pass' \in Passes /\ pass'.pc = "service" /\ Kept
      BY <1>0, <2>1, ProceedFacts DEF Steps
    <3>2. dep' = [owner |-> "ours", tmpl |-> pass.tmpl, replicas |-> WantReplicas,
                  seen |-> FALSE, status |-> 0]
      BY <1>1, <2>1, <3>1 DEF Create
    <3>3. pass.tmpl \in Revs
      BY <1>0, <1>1 DEF Create, Logic, Revision, Building
    <3>4. dep' \in Deployments
      <4>1. "ours" \in Owners /\ pass.tmpl \in Templates \cup {None} /\ 0 \in Nat
        BY <3>3 DEF Owners, Templates
      <4> QED BY <1>0, <3>2, <4>1, Zenon DEF Deployments
    <3>5. /\ dep'.owner = "ours" /\ dep'.tmpl = pass.tmpl /\ ~dep'.seen
      BY <3>2
    <3>6. UNCHANGED <<dc, pods, ing>>
      BY <1>1 DEF Create
    <3> QED BY <1>0, <1>1, <2>1, <3>1, <3>3, <3>4, <3>5, <3>6
           DEF Create, Kept, Logic, Mirror, Held, Cut, Revision, NoMixedWorkload, ReadyEarned,
           Building, Applied, NoPods, Active
  <2> QED BY <1>0, <1>1, <1>c, <2>1 DEF Create, objects
<1>2. CASE CutRoute
  <2>1. CASE ing = "none" /\ RouteWithdrawn
    BY <1>0, <1>2, <1>a, <2>1
       DEF CutRoute, Kept, objects, Logic, Mirror, Held, Cut, Revision, NoMixedWorkload,
           ReadyEarned, Building, Applied, NoPods, Active
  <2>2. CASE ing = "ours" /\ pass' = [pass EXCEPT !.pc = "cutDelete", !.ingSame = TRUE]
    <3>1. pass' \in Passes
      <4>1. "cutDelete" \in Steps
        BY DEF Steps
      <4> QED BY <1>0, <2>2, <4>1, Zenon DEF Passes
    <3>2. /\ pass'.pc = "cutDelete" /\ pass'.tmpl = pass.tmpl /\ pass'.depSame = pass.depSame
          /\ pass'.snap = pass.snap
      BY <1>0, <2>2 DEF Passes
    <3> QED BY <1>0, <1>2, <2>2, <3>1, <3>2
               DEF CutRoute, objects, Logic, Mirror, Held, Cut, Revision, NoMixedWorkload,
                   ReadyEarned, Building, Applied, NoPods, Active
  <2> QED BY <1>0, <1>2, <1>c, <2>1, <2>2 DEF CutRoute, objects
<1>3. CASE CutDelete
  <2>1. CASE RouteWithdrawn /\ ing' = "none"
    BY <1>0, <1>3, <1>a, <2>1
       DEF CutDelete, Kept, Logic, Mirror, Held, Cut, Revision, NoMixedWorkload, ReadyEarned,
           Building, Applied, NoPods, Active
  <2> QED BY <1>0, <1>3, <1>c, <2>1 DEF CutDelete, objects
<1>4. CASE CutScale
  <2>1. CASE pass.depSame /\ ScaleTo(0) /\ Cutover
    BY <1>0, <1>4, <1>b, <2>1, ScaleFacts, ScaleToQuiet DEF CutScale, Quiet, Logic, Held
  <2> QED BY <1>0, <1>4, <1>c, <2>1 DEF CutScale, objects
<1>5. CASE CutPods
  <2>1. CASE pass.snap = "settled" /\ NoPods /\ Proceed("install")
    <3>1. pass' \in Passes /\ pass'.pc = "install" /\ Kept
      BY <1>0, <2>1, ProceedFacts DEF Steps
    <3> QED BY <1>0, <1>5, <2>1, <3>1
               DEF CutPods, Kept, objects, Logic, Mirror, Held, Cut, Revision, NoMixedWorkload,
                   ReadyEarned, Building, Applied, NoPods, Active
  <2>2. CASE Cutover
    BY <1>0, <1>5, <1>b, <2>2, ToQuiet DEF CutPods, Kept, Quiet, Logic, Held, objects
  <2> QED BY <1>5, <2>1, <2>2 DEF CutPods
<1>6. CASE Install
  <2>1. CASE pass.depSame /\ Proceed("service")
             /\ dep' = [dep EXCEPT !.tmpl = pass.tmpl, !.replicas = WantReplicas, !.seen = FALSE]
    <3>1. pass' \in Passes /\ pass'.pc = "service" /\ Kept
      BY <1>0, <2>1, ProceedFacts DEF Steps
    <3>2. pass.tmpl \in Revs
      BY <1>0, <1>6 DEF Install, Logic, Revision, Building
    <3>3. dep' \in Deployments
      <4>1. pass.tmpl \in Templates \cup {None}
        BY <3>2 DEF Templates
      <4> QED BY <1>0, <2>1, <4>1, Zenon DEF Deployments
    <3>4. dep'.owner = dep.owner /\ dep'.tmpl = pass.tmpl /\ ~dep'.seen
      BY <1>0, <2>1 DEF Deployments
    <3> QED BY <1>0, <1>6, <2>1, <3>1, <3>2, <3>3, <3>4
               DEF Install, Kept, Logic, Mirror, Held, Cut, Revision, NoMixedWorkload,
                   ReadyEarned, Building, Applied, NoPods, Active
  <2> QED BY <1>0, <1>6, <1>c, <2>1 DEF Install, objects
<1>7. CASE Scale
  <2>1. CASE pass.depSame /\ ScaleTo(WantReplicas) /\ Proceed("service")
    <3>1. pass' \in Passes /\ pass'.pc = "service" /\ Kept
      BY <1>0, <2>1, ProceedFacts DEF Steps
    <3> QED BY <1>0, <1>7, <2>1, <3>1, ScaleFacts
               DEF Scale, Kept, Logic, Mirror, Held, Cut, Revision, NoMixedWorkload,
                   ReadyEarned, Building, Applied, NoPods, Active
  <2> QED BY <1>0, <1>7, <1>c, <2>1 DEF Scale, objects
<1> QED BY <1>1, <1>2, <1>3, <1>4, <1>5, <1>6, <1>7

\* Service, Ingress and readiness: the revision applied stays the one probed.
LEMMA ServeSteps ==
    ASSUME IInv, Service \/ Route \/ RouteCreate \/ RouteUpdate \/ Cached \/ Probe
    PROVE  Logic' /\ pass' \in Passes /\ UNCHANGED dep
<1> USE DEF At
<1>0. pass \in Passes /\ Logic /\ UNCHANGED <<dep, dc, pods>>
  BY DEF IInv, TypeOK, Service, Route, RouteCreate, RouteUpdate, Cached, Probe, objects
<1>a. ASSUME NEW c \in Causes, Deny(c), UNCHANGED ing
      PROVE  Logic' /\ pass' \in Passes
  <2>1. Held /\ pass' \in Passes /\ pass'.pc = "denyRoute" /\ Kept
    BY <1>0, <1>a, DenyFacts DEF Logic
  <2> QED BY <1>0, <1>a, <2>1
             DEF Kept, Logic, Mirror, Held, Cut, Revision, NoMixedWorkload, ReadyEarned,
                 Building, Applied, NoPods, Active
<1>b. ASSUME NEW p \in Applied \cup {"pending"}, Proceed(p), pass.pc \in Applied
      PROVE  Logic' /\ pass' \in Passes
  <2>1. p \in Steps
    BY <1>b DEF Applied, Steps
  <2>2. pass' \in Passes /\ pass'.pc = p /\ Kept
    BY <1>0, <1>b, <2>1, ProceedFacts
  <2> QED BY <1>0, <1>b, <2>2
             DEF Kept, Logic, Mirror, Held, Cut, Revision, NoMixedWorkload, ReadyEarned,
                 Building, Applied, NoPods, Active
<1>1. CASE Service
  BY <1>1, <1>a, <1>b DEF Service, Causes, Applied
<1>2. CASE Route
  <2>1. CASE HostTaken
    BY <1>2, <1>a, <2>1 DEF Route, Causes, objects
  <2>2. CASE pass' = [pass EXCEPT !.pc = IF ing = "none" THEN "routeCreate" ELSE "routeUpdate",
                                  !.ingSame = TRUE]
    <3>1. pass' \in Passes
      <4>1. \E p \in {"routeCreate", "routeUpdate"} :
               pass' = [pass EXCEPT !.pc = p, !.ingSame = TRUE]
        BY <2>2, Zenon
      <4>2. PICK p \in Steps : pass' = [pass EXCEPT !.pc = p, !.ingSame = TRUE]
        BY <4>1 DEF Steps
      <4>3. [pass EXCEPT !.pc = p] \in Passes
        BY <1>0, Zenon DEF Passes
      <4>4. pass' = [[pass EXCEPT !.pc = p] EXCEPT !.ingSame = TRUE]
        BY <4>2
      <4> QED BY <4>3, <4>4, Zenon DEF Passes
    <3>2. /\ pass'.pc \in {"routeCreate", "routeUpdate"} /\ pass'.tmpl = pass.tmpl
          /\ pass'.depSame = pass.depSame
      BY <1>0, <2>2 DEF Passes
    <3> QED BY <1>0, <1>2, <3>1, <3>2
               DEF Route, objects, Logic, Mirror, Held, Cut, Revision, NoMixedWorkload,
                   ReadyEarned, Building, Applied, NoPods, Active
  <2> QED BY <1>2, <2>1, <2>2 DEF Route
<1>3. CASE RouteCreate
  BY <1>3, <1>a, <1>b DEF RouteCreate, Causes, Applied
<1>4. CASE RouteUpdate
  BY <1>4, <1>a, <1>b DEF RouteUpdate, Causes, Applied, objects
<1>5. CASE Cached
  <2>1. pass.pc \in Applied /\ "probe" \in Applied
    BY <1>5 DEF Cached, Applied
  <2>2. Proceed("probe") \/ Proceed("pending")
    BY <1>5 DEF Cached
  <2> QED BY <1>0, <1>b, <2>1, <2>2
<1>6. CASE Probe
  <2>1. CASE Proceed("pending")
    <3>1. pass.pc \in Applied
      BY <1>6 DEF Probe, Applied
    <3> QED BY <1>0, <1>b, <2>1, <3>1
  <2>2. ASSUME NEW s \in Slots, pods[s].state \in {"ready", "orphan"},
               pass' = [pass EXCEPT !.pc = "report",
                   !.answered = IF pods[s].state = "orphan" THEN "orphan"
                                ELSE IF pods[s].tmpl = pass.tmpl THEN "same" ELSE "other"]
        PROVE  Logic' /\ pass' \in Passes
    <3>1. pass' \in Passes
      <4>1. \E a \in {"orphan", "same", "other"} :
               pass' = [pass EXCEPT !.pc = "report", !.answered = a]
        BY <2>2, Zenon
      <4>2. "report" \in Steps
        BY DEF Steps
      <4> QED BY <1>0, <4>1, <4>2, Zenon DEF Passes
    <3>2. pods[s].state = "ready" => dep.owner = "ours" /\ pods[s].tmpl = dep.tmpl
      BY <1>0 DEF Logic, NoMixedWorkload, Active
    <3>3. dep.owner = "ours" => dep.tmpl = pass.tmpl
      BY <1>0, <1>6 DEF Probe, Logic, Revision, Applied
    <3>4. /\ pass'.pc = "report" /\ pass'.tmpl = pass.tmpl /\ pass'.depSame = pass.depSame
          /\ pass'.answered # "other"
      BY <1>0, <2>2, <3>2, <3>3 DEF Passes
    <3> QED BY <1>0, <1>6, <3>1, <3>4
               DEF Probe, objects, Logic, Mirror, Held, Cut, Revision, NoMixedWorkload,
                   ReadyEarned, Building, Applied, NoPods, Active
  <2> QED BY <1>0, <1>6, <2>1, <2>2 DEF Probe
<1> QED BY <1>0, <1>1, <1>2, <1>3, <1>4, <1>5, <1>6

\* A refusal, call by call
LEMMA DenySteps ==
    ASSUME IInv, DenyRoute \/ DenyDelete \/ DenyStop \/ DenyScale \/ DenyStatus
    PROVE  Logic' /\ pass' \in Passes /\ dep' \in Deployments
<1> USE DEF At
<1>0. pass \in Passes /\ dep \in Deployments /\ Logic
  BY DEF IInv, TypeOK
<1>a. ASSUME NEW p \in {"denyStop", "denyStatus"},
             \/ Proceed(p)
             \/ pass' = [Flawed EXCEPT !.pc = p]
             \/ pass' = [pass EXCEPT !.pc = p, !.clean = FALSE]
      PROVE  pass' \in Passes /\ pass'.pc = p /\ Kept
  <2>0. p \in Steps
    BY <1>a DEF Steps
  <2>1. CASE Proceed(p)
    BY <1>0, <2>0, <2>1, ProceedFacts
  <2>2. CASE pass' = [Flawed EXCEPT !.pc = p] \/ pass' = [pass EXCEPT !.pc = p, !.clean = FALSE]
    <3>1. pass' \in Passes
      BY <1>0, <2>0, <2>2, Zenon DEF Flawed, Passes
    <3>2. pass'.pc = p /\ Kept
      BY <1>0, <2>2 DEF Flawed, Passes, Kept
    <3> QED BY <3>1, <3>2
  <2> QED BY <1>a, <2>1, <2>2
<1>b. AfterWithdrawal \in {"denyStop", "denyStatus"}
  BY DEF AfterWithdrawal
<1>1. CASE DenyRoute
  <2>1. CASE pass'.pc \in Quiet /\ pass' \in Passes /\ Kept
    BY <1>0, <1>1, <2>1, ToQuiet DEF DenyRoute, Logic, Held, Kept, objects
  <2>2. CASE ing = "ours" /\ pass' = [pass EXCEPT !.pc = "denyDelete", !.ingSame = TRUE]
    <3>1. pass' \in Passes
      <4>1. "denyDelete" \in Steps
        BY DEF Steps
      <4> QED BY <1>0, <2>2, <4>1, Zenon DEF Passes
    <3>2. pass'.pc = "denyDelete" /\ pass'.depSame = pass.depSame
      BY <1>0, <2>2 DEF Passes
    <3> QED BY <1>0, <1>1, <2>2, <3>1, <3>2
               DEF DenyRoute, objects, Logic, Mirror, Held, Cut, Revision, NoMixedWorkload,
                   ReadyEarned, Building, Applied, NoPods, Active
  <2> QED BY <1>1, <1>a, <1>b, <2>1, <2>2 DEF DenyRoute, Quiet
<1>2. CASE DenyDelete
  <2>1. pass' \in Passes /\ pass'.pc \in {"denyStop", "denyStatus"} /\ Kept
    BY <1>2, <1>a, <1>b DEF DenyDelete
  <2> QED BY <1>0, <1>2, <2>1
             DEF DenyDelete, Kept, Logic, Mirror, Held, Cut, Revision, NoMixedWorkload,
                 ReadyEarned, Building, Applied, NoPods, Active
<1>3. CASE DenyStop
  <2>1. CASE pass'.pc \in Quiet /\ pass' \in Passes /\ Kept
    BY <1>0, <1>3, <2>1, ToQuiet DEF DenyStop, Logic, Held, Kept, objects
  <2>2. CASE dep.owner = "ours" /\ pass' = [pass EXCEPT !.pc = "denyScale", !.depSame = TRUE]
    <3>1. pass' \in Passes
      <4>1. "denyScale" \in Steps
        BY DEF Steps
      <4> QED BY <1>0, <2>2, <4>1, Zenon DEF Passes
    <3>2. pass'.pc = "denyScale"
      BY <1>0, <2>2 DEF Passes
    <3> QED BY <1>0, <1>3, <2>2, <3>1, <3>2, ToQuiet DEF DenyStop, Quiet, objects
  <2> QED BY <1>3, <1>a, <2>1, <2>2 DEF DenyStop, Quiet
<1>4. CASE DenyScale
  <2>1. pass' \in Passes /\ pass'.pc = "denyStatus" /\ Kept
    BY <1>4, <1>a DEF DenyScale
  <2>2. CASE pass.depSame /\ ScaleTo(0)
    BY <1>0, <1>4, <2>1, <2>2, ScaleFacts, ScaleToQuiet DEF DenyScale, Quiet, Logic, Held
  <2>3. CASE UNCHANGED dep
    BY <1>0, <1>4, <2>1, <2>3, ToQuiet DEF DenyScale, Quiet, Logic, Held, Kept, objects
  <2> QED BY <1>4, <2>2, <2>3 DEF DenyScale
<1>5. CASE DenyStatus
  BY <1>0, <1>5, IdleFacts, ToQuiet DEF DenyStatus, End, Quiet, objects
<1> QED BY <1>1, <1>2, <1>3, <1>4, <1>5

\* The steps that also read or write the instance and what it asks for
LEMMA InstanceSteps ==
    ASSUME IInv, Begin \/ Unfinalize \/ Slug \/ Access \/ PinRead \/ Finalizer
    PROVE  Logic' /\ pass' \in Passes /\ UNCHANGED objects
<1> USE DEF At
<1>0. /\ pass \in Passes /\ Logic /\ UNCHANGED objects
      /\ inst \in Instances /\ inst.replicas \in Nat /\ ask.wanted \in Revs
  BY NumbersAssumption
     DEF IInv, TypeOK, Instances, Asked, Begin, Unfinalize, Slug, Access, PinRead, Finalizer,
         objects
<1>a. ASSUME NEW c \in Causes, Deny(c)
      PROVE  Logic' /\ pass' \in Passes
  BY <1>0, <1>a, DenyFacts, ToQuiet DEF Quiet, Logic, Held, Kept
<1>b. ASSUME pass' = Idle
      PROVE  Logic' /\ pass' \in Passes
  BY <1>0, <1>b, IdleFacts, ToQuiet DEF Quiet
<1>c. ASSUME NEW p \in Building, Proceed(p), pass.tmpl \in Revs, pass.pc \in Building,
             p \in {"finalizer", "creds"}
      PROVE  Logic' /\ pass' \in Passes
  <2>1. p \in Steps
    BY <1>c DEF Steps
  <2>2. pass' \in Passes /\ pass'.pc = p /\ Kept
    BY <1>0, <1>c, <2>1, ProceedFacts
  <2> QED BY <1>0, <1>c, <2>2
             DEF Kept, objects, Logic, Mirror, Held, Cut, Revision, NoMixedWorkload,
                 ReadyEarned, Building, Applied, NoPods, Active
<1>1. CASE Begin
  <2>1. CASE inst.phase # "live"
    <3>1. PICK p \in {"unfinalize", "idle"}, f \in BOOLEAN :
             pass' = [Idle EXCEPT !.pc = p, !.fresh = f] \/ pass' = Idle
      BY <1>0, <1>1, <2>1, Zenon DEF Begin, Instances
    <3>2. p \in Steps /\ Idle \in Passes
      BY IdleFacts DEF Steps
    <3>3. CASE pass' = Idle
      BY <1>0, <1>b, <3>3
    <3>4. CASE pass' = [Idle EXCEPT !.pc = p, !.fresh = f]
      <4>1. pass' \in Passes
        BY <3>1, <3>2, <3>4, Zenon DEF Passes
      <4>2. pass'.pc = p /\ ~pass'.depSame
        BY <3>4 DEF Idle
      <4>3. p \in Quiet
        BY <3>1 DEF Quiet
      <4> QED BY <1>0, <4>1, <4>2, <4>3, ToQuiet
    <3> QED BY <3>1, <3>3, <3>4, Zenon
  <2>2. CASE inst.phase = "live"
    <3>1. PICK p \in {"check", "denyRoute"}, c \in {"none", "image"}, b \in BOOLEAN :
             pass' = [Idle EXCEPT !.pc = p, !.why = c, !.fresh = TRUE, !.latest = TRUE,
                                  !.replicas = inst.replicas, !.blank = b]
      BY <1>0, <1>1, <2>2, Zenon DEF Begin
    <3>2. p \in Steps /\ c \in Causes /\ Idle \in Passes
      BY IdleFacts DEF Steps, Causes
    <3>3. pass' \in Passes
      BY <1>0, <3>1, <3>2, Zenon DEF Passes
    <3>4. pass'.pc \in Quiet /\ ~pass'.depSame
      BY <3>1 DEF Idle, Quiet
    <3> QED BY <1>0, <3>3, <3>4, ToQuiet
  <2> QED BY <2>1, <2>2
<1>2. CASE Unfinalize
  BY <1>2, <1>b DEF Unfinalize, End
<1>3. CASE Slug
  <2>1. CASE Proceed("host")
    BY <1>0, <2>1, ProceedFacts, ToQuiet DEF Steps, Quiet, Logic, Held, Kept
  <2>2. CASE \/ pass' = [Refreshed EXCEPT !.pc = "host", !.blank = TRUE]
             \/ pass' = [pass EXCEPT !.pc = "denyRoute", !.why = "hostUnknown", !.blank = TRUE]
    <3>1. {"host", "denyRoute"} \subseteq Steps /\ "hostUnknown" \in Causes
      BY DEF Steps, Causes
    <3>2. pass' \in Passes
      BY <1>0, <2>2, <3>1, Zenon DEF Refreshed, Passes
    <3>3. pass'.pc \in Quiet /\ pass'.depSame = pass.depSame
      BY <1>0, <2>2 DEF Refreshed, Passes, Quiet
    <3> QED BY <1>0, <3>2, <3>3, ToQuiet DEF Logic, Held
  <2> QED BY <1>3, <1>a, <2>1, <2>2 DEF Slug, Causes
<1>4. CASE Access
  <2>1. ASSUME NEW p \in {"finalizer", "pinRead"},
               pass' = [pass EXCEPT !.pc = p, !.tmpl = ask.wanted]
        PROVE  Logic' /\ pass' \in Passes
    <3>1. p \in Steps /\ p \in Building
      BY <2>1 DEF Steps, Building
    <3>2. pass' \in Passes
      BY <1>0, <2>1, <3>1, Zenon DEF Passes
    <3>3. pass'.pc = p /\ pass'.tmpl \in Revs /\ pass'.depSame = pass.depSame
      BY <1>0, <2>1 DEF Passes
    <3> QED BY <1>0, <2>1, <3>1, <3>2, <3>3
               DEF objects, Logic, Mirror, Held, Cut, Revision, NoMixedWorkload, ReadyEarned,
                   Building, Applied, NoPods, Active
  <2> QED BY <1>4, <1>a, <2>1 DEF Access, Causes
<1>5. CASE PinRead
  <2>1. CASE pass' = [Refreshed EXCEPT !.pc = "finalizer"]
    <3>1. "finalizer" \in Steps
      BY DEF Steps
    <3>2. pass' \in Passes
      BY <1>0, <2>1, <3>1, Zenon DEF Refreshed, Passes
    <3>3. pass'.pc = "finalizer" /\ pass'.tmpl = pass.tmpl /\ pass'.depSame = pass.depSame
      BY <1>0, <2>1 DEF Refreshed, Passes
    <3> QED BY <1>0, <1>5, <2>1, <3>2, <3>3
               DEF PinRead, objects, Logic, Mirror, Held, Cut, Revision, NoMixedWorkload,
                   ReadyEarned, Building, Applied, NoPods, Active
  <2> QED BY <1>5, <1>a, <2>1 DEF PinRead, Causes
<1>6. CASE Finalizer
  <2>1. CASE Proceed("creds")
    <3>1. pass.pc \in Building /\ "creds" \in Building /\ pass.tmpl \in Revs
      BY <1>0, <1>6 DEF Finalizer, Building, Logic, Revision
    <3> QED BY <1>0, <1>c, <2>1, <3>1
  <2> QED BY <1>6, <1>b, <2>1 DEF Finalizer, End
<1> QED BY <1>0, <1>1, <1>2, <1>3, <1>4, <1>5, <1>6

\* Failed calls and crashes: the pass ends or refuses.
LEMMA FailureSteps ==
    ASSUME IInv, ApiError \/ Crash
    PROVE  Logic' /\ pass' \in Passes /\ UNCHANGED objects
<1> USE DEF At
<1>0. pass \in Passes /\ Logic /\ UNCHANGED objects
  BY DEF IInv, TypeOK, ApiError, Crash
<1>a. ASSUME NEW c \in Causes, Deny(c)
      PROVE  Logic' /\ pass' \in Passes
  BY <1>0, <1>a, DenyFacts, ToQuiet DEF Quiet, Logic, Held, Kept
<1>b. ASSUME pass' = Idle
      PROVE  Logic' /\ pass' \in Passes
  BY <1>0, <1>b, IdleFacts, ToQuiet DEF Quiet
<1>c. ASSUME NEW p \in {"denyStop", "denyStatus"}, pass' = [Flawed EXCEPT !.pc = p]
      PROVE  Logic' /\ pass' \in Passes
  <2>1. p \in Steps /\ p \in Quiet
    BY <1>c DEF Steps, Quiet
  <2>2. pass' \in Passes
    BY <1>0, <1>c, <2>1, Zenon DEF Flawed, Passes
  <2>3. pass'.pc = p /\ pass'.depSame = pass.depSame
    BY <1>0, <1>c DEF Flawed, Passes
  <2> QED BY <1>0, <2>1, <2>2, <2>3, ToQuiet DEF Logic, Held
<1>d. ASSUME NEW b \in BOOLEAN,
             pass' = [pass EXCEPT !.pc = "denyRoute", !.why = "hostUnknown", !.blank = b]
      PROVE  Logic' /\ pass' \in Passes
  <2>1. "denyRoute" \in Steps /\ "hostUnknown" \in Causes
    BY DEF Steps, Causes
  <2>2. pass' \in Passes
    BY <1>0, <1>d, <2>1, Zenon DEF Passes
  <2>3. pass'.pc \in Quiet /\ pass'.depSame = pass.depSame
    BY <1>0, <1>d DEF Passes, Quiet
  <2> QED BY <1>0, <2>2, <2>3, ToQuiet DEF Logic, Held
<1>e. CASE pass.pc = "slug" /\ ApiError
  <2>1. pass' = [pass EXCEPT !.pc = "denyRoute", !.why = "hostUnknown",
                             !.blank = pass.blank \/ ~inst.slugSet]
    <3>1. SlugLost
      BY <1>e DEF ApiError, OnError
    <3> QED BY <3>1, Zenon DEF SlugLost
  <2> QED BY <1>0, <1>d, <2>1, Zenon
<1>f. CASE pass.pc = "probe" /\ ApiError
  BY <1>0, <1>f, ProceedFacts, ToQuiet DEF ApiError, OnError, Steps, Quiet, Logic, Held, Kept
<1>g. AfterWithdrawal \in {"denyStop", "denyStatus"}
  BY DEF AfterWithdrawal
<1>h. CASE ApiError /\ pass.pc \notin {"slug", "probe"}
  <2>1. \/ pass' = Idle
        \/ Deny("unverified") \/ Deny("hostUnknown") \/ Deny("access")
        \/ pass' = [Flawed EXCEPT !.pc = AfterWithdrawal]
        \/ pass' = [Flawed EXCEPT !.pc = "denyStatus"]
    BY <1>h DEF ApiError, OnError, End
  <2> QED BY <1>0, <1>a, <1>b, <1>c, <1>g, <2>1 DEF Causes
<1> QED BY <1>0, <1>b, <1>e, <1>f, <1>h DEF Crash

\* The pods are counted with natural numbers.
LEMMA CountFacts ==
    ASSUME NEW S \in SUBSET Slots
    PROVE  Cardinality(S) \in Nat
  BY SlotsAssumption, FS_Subset, FS_CardinalityType

\* What is left when the Deployment disappears
DropFacts ==
    /\ dep'.owner = "none" /\ dep'.tmpl = None /\ dc'.replicas = 0
    /\ \A s \in Slots : pods'[s].state \notin {"starting", "ready"}

\* A Deployment that disappears leaves no pod that counts as its own.
LEMMA DropDeploymentFacts ==
    ASSUME TypeOK, DropDeployment
    PROVE  /\ DropFacts /\ dep' \in Deployments /\ pods' \in [Slots -> PodStates]
           /\ dc' \in [tmpl : Templates \cup {None}, replicas : Nat]
<1>0. pods \in [Slots -> PodStates]
  BY DEF TypeOK, PodStates
<1>1. ASSUME NEW s \in Slots
      PROVE  pods'[s] \in PodStates /\ pods'[s].state \notin {"starting", "ready"}
  <2>1. pods[s] \in PodStates
    BY <1>0
  <2>2. pods'[s] = IF Active(s) THEN [pods[s] EXCEPT !.state = "orphan"] ELSE pods[s]
    BY DEF DropDeployment, Orphaned
  <2>3. [pods[s] EXCEPT !.state = "orphan"] \in PodStates
        /\ [pods[s] EXCEPT !.state = "orphan"].state = "orphan"
    BY <2>1 DEF PodStates
  <2> QED BY <2>1, <2>2, <2>3 DEF Active
<1>2. pods' \in [Slots -> PodStates]
  BY <1>1 DEF DropDeployment, Orphaned
<1>3. dep' \in Deployments /\ dep'.owner = "none" /\ dep'.tmpl = None
  BY DEF DropDeployment, NoDeployment, Deployments, Owners
<1>4. dc' \in [tmpl : Templates \cup {None}, replicas : Nat] /\ dc'.replicas = 0
  BY DEF DropDeployment
<1> QED BY <1>1, <1>2, <1>3, <1>4 DEF DropFacts

\* The Deployment controller, the pods, the caches and the garbage collector
LEMMA ClusterSteps ==
    ASSUME IInv, ClusterStep
    PROVE  Logic' /\ pass' \in Passes /\ dep' \in Deployments /\ DCType' /\ PodType'
<1> USE DEF At
<1>0. pass \in Passes /\ dep \in Deployments /\ Logic /\ DCType /\ PodType /\ TypeOK
  BY DEF IInv, TypeOK, DCType, PodType, PodStates
<1>1. CASE DCSync
  <2>1. Cardinality(ActivePods) \in Nat
    BY CountFacts DEF ActivePods
  <2>2. dep' = [dep EXCEPT !.seen = TRUE, !.status = Cardinality(ActivePods)]
    BY <1>1 DEF DCSync
  <2>3. dep' \in Deployments
    BY <1>0, <2>1, <2>2, Zenon DEF Deployments
  <2>4. dep'.owner = dep.owner /\ dep'.tmpl = dep.tmpl /\ dep'.replicas = dep.replicas /\ dep'.seen
    BY <1>0, <2>2 DEF Deployments
  <2>5. DCType' /\ dc'.tmpl = dep.tmpl /\ dc'.replicas = dep.replicas
    BY <1>0, <1>1 DEF DCSync, DCType, Deployments
  <2>6. pass' \in Passes /\ pass'.pc = pass.pc /\ pass'.tmpl = pass.tmpl /\ pass'.snap = pass.snap
        /\ pass'.answered = pass.answered /\ (pass'.ingSame => pass.ingSame) /\ ~pass'.depSame
    <3>1. pass' = [pass EXCEPT !.depSame = FALSE]
      BY <1>1 DEF DCSync, DeploymentTouched
    <3> QED BY <1>0, <3>1, TouchFacts DEF Passes
  <2> QED BY <1>0, <1>1, <2>3, <2>4, <2>5, <2>6
             DEF DCSync, PodType, Logic, Mirror, Held, Cut, Revision, NoMixedWorkload,
                 ReadyEarned, Building, Applied, NoPods, Active
<1>2. ASSUME NEW s \in Slots, PodCreate(s)
      PROVE  Logic' /\ PodType'
  <2>1. dc.replicas # 0 /\ dep.owner = "ours" /\ dc.tmpl = dep.tmpl
    <3>1. Cardinality({t \in ActivePods : pods[t].tmpl = dc.tmpl}) \in Nat
      BY CountFacts DEF ActivePods
    <3> QED BY <1>0, <1>2, <3>1 DEF PodCreate, DCType, Logic, Mirror
  <2>2. pods' = [pods EXCEPT ![s] = [tmpl |-> dc.tmpl, state |-> "starting"]]
    BY <1>2 DEF PodCreate
  <2>3. [tmpl |-> dc.tmpl, state |-> "starting"] \in PodStates
    BY <1>0 DEF DCType, PodStates
  <2>4. PodType'
    BY <1>0, <2>2, <2>3 DEF PodType
  <2>5. \A t \in Slots :
           pods'[t] = IF t = s THEN [tmpl |-> dc.tmpl, state |-> "starting"] ELSE pods[t]
    BY <1>0, <2>2 DEF PodType
  <2>6. NoMixedWorkload'
    BY <1>0, <1>2, <2>1, <2>5 DEF PodCreate, NoMixedWorkload, Active, Logic
  <2>7. ~(pass.pc = "install" /\ pass.depSame)
    BY <1>0, <2>1 DEF Logic, Cut, Mirror
  <2> QED BY <1>0, <1>2, <2>4, <2>6, <2>7
          DEF PodCreate, Logic, Mirror, Held, Cut, Revision, ReadyEarned, Building, Applied
<1>3. ASSUME NEW s \in Slots, PodReady(s) \/ PodTerminate(s) \/ PodGone(s)
      PROVE  Logic' /\ PodType'
  <2>0. pods[s] \in PodStates
    BY <1>0 DEF PodType
  <2>1. PICK p \in PodStates :
           /\ pods' = [pods EXCEPT ![s] = p]
           /\ p.state \in {"starting", "ready"} => Active(s) /\ p.tmpl = pods[s].tmpl
           /\ pods[s].state # "none"
    <3>1. CASE PodReady(s)
      <4>1. [pods[s] EXCEPT !.state = "ready"] \in PodStates
            /\ [pods[s] EXCEPT !.state = "ready"].tmpl = pods[s].tmpl
        BY <2>0 DEF PodStates
      <4>2. pods' = [pods EXCEPT ![s] = [pods[s] EXCEPT !.state = "ready"]]
        BY <1>0, <3>1 DEF PodReady, PodType
      <4> QED BY <3>1, <4>1, <4>2 DEF PodReady, Active
    <3>2. CASE PodTerminate(s)
      <4>1. [pods[s] EXCEPT !.state = "terminating"] \in PodStates
            /\ [pods[s] EXCEPT !.state = "terminating"].state = "terminating"
        BY <2>0 DEF PodStates
      <4>2. pods' = [pods EXCEPT ![s] = [pods[s] EXCEPT !.state = "terminating"]]
        BY <1>0, <3>2 DEF PodTerminate, PodType
      <4> QED BY <3>2, <4>1, <4>2 DEF PodTerminate, Active
    <3>3. CASE PodGone(s)
      <4>1. Empty \in PodStates /\ Empty.state = "none"
        BY DEF PodStates, Empty
      <4> QED BY <3>3, <4>1 DEF PodGone
    <3> QED BY <1>3, <3>1, <3>2, <3>3
  <2>2. PodType'
    BY <1>0, <2>1 DEF PodType
  <2>3. \A t \in Slots : pods'[t] = IF t = s THEN p ELSE pods[t]
    BY <1>0, <2>1 DEF PodType
  <2>4. UNCHANGED <<dep, dc, ing, pass>>
    BY <1>3 DEF PodReady, PodTerminate, PodGone
  <2>5. NoMixedWorkload'
    BY <1>0, <2>1, <2>3, <2>4 DEF NoMixedWorkload, Active, Logic
  <2>6. ~NoPods
    BY <2>1 DEF NoPods
  <2> QED BY <1>0, <2>2, <2>4, <2>5, <2>6
          DEF Logic, Mirror, Held, Cut, Revision, ReadyEarned, Building, Applied, At
<1>4. CASE CacheSync
  BY <1>0, <1>4
     DEF CacheSync, objects, DCType, PodType, PodStates, Logic, Mirror, Held, Cut, Revision,
         NoMixedWorkload, ReadyEarned, Building, Applied, NoPods, Active
<1>5. CASE Collect
  <2>1. /\ pass' \in Passes /\ pass'.pc = pass.pc /\ pass'.tmpl = pass.tmpl
        /\ pass'.snap = pass.snap /\ pass'.answered = pass.answered
        /\ ~pass'.ingSame /\ ~pass'.depSame
    <3>1. pass' = [pass EXCEPT !.depSame = FALSE, !.ingSame = FALSE]
      BY <1>5 DEF Collect
    <3> QED BY <1>0, <3>1, TouchFacts DEF Passes
  <2>2. ing' # "ours"
    BY <1>5 DEF Collect
  <2>3. CASE dep.owner = "ours"
    <3>1. DropFacts /\ dep' \in Deployments /\ DCType' /\ PodType'
      BY <1>0, <1>5, <2>3, DropDeploymentFacts DEF Collect, DCType, PodType
    <3> QED BY <1>0, <2>1, <2>2, <3>1
               DEF DropFacts, Logic, Mirror, Held, Cut, Revision, NoMixedWorkload, ReadyEarned,
                   Building, Applied, NoPods, Active
  <2>4. CASE dep.owner # "ours"
    BY <1>0, <1>5, <2>1, <2>2, <2>4
       DEF Collect, DCType, PodType, PodStates, Logic, Mirror, Held, Cut, Revision,
           NoMixedWorkload, ReadyEarned, Building, Applied, NoPods, Active
  <2> QED BY <2>3, <2>4
<1>6. ASSUME PodStep
      PROVE  UNCHANGED <<dep, dc, pass>>
  BY <1>6 DEF PodStep, PodCreate, PodReady, PodTerminate, PodGone
<1> QED BY <1>0, <1>1, <1>2, <1>3, <1>4, <1>5, <1>6 DEF ClusterStep, PodStep, DCType

\* Users, operators, other controllers
Outside ==
    \/ SpecWrite \/ UserDelete \/ OperatorChange \/ PolicyChange
    \/ IngressChange \/ DeploymentChange \/ ExternalScale

LEMMA OutsideSteps ==
    ASSUME IInv, Outside
    PROVE  Logic' /\ pass' \in Passes /\ dep' \in Deployments /\ DCType' /\ PodType'
<1> USE DEF At
<1>0. pass \in Passes /\ dep \in Deployments /\ Logic /\ DCType /\ PodType /\ TypeOK
  BY DEF IInv, TypeOK, DCType, PodType, PodStates
<1>a. ASSUME \/ pass' = [pass EXCEPT !.depSame = FALSE]
             \/ pass' = [pass EXCEPT !.ingSame = FALSE]
             \/ pass' = [pass EXCEPT !.fresh = FALSE]
             \/ pass' = [pass EXCEPT !.fresh = FALSE, !.latest = FALSE]
      PROVE  /\ pass' \in Passes
             /\ pass'.pc = pass.pc /\ pass'.tmpl = pass.tmpl /\ pass'.snap = pass.snap
             /\ pass'.answered = pass.answered
             /\ pass'.depSame => pass.depSame
             /\ pass'.ingSame => pass.ingSame
  BY <1>0, <1>a, TouchFacts
<1>1. CASE SpecWrite \/ UserDelete
  <2>1. UNCHANGED objects /\ \/ pass' = [pass EXCEPT !.fresh = FALSE]
                             \/ pass' = [pass EXCEPT !.fresh = FALSE, !.latest = FALSE]
    BY <1>1 DEF SpecWrite, UserDelete
  <2> QED BY <1>0, <1>a, <2>1
             DEF objects, DCType, PodType, Logic, Mirror, Held, Cut, Revision, NoMixedWorkload,
                 ReadyEarned, Building, Applied, NoPods, Active
<1>2. CASE OperatorChange
  <2>1. UNCHANGED <<objects, pass>>
    BY <1>2 DEF OperatorChange
  <2> QED BY <1>0, <2>1
             DEF objects, DCType, PodType, Logic, Mirror, Held, Cut, Revision, NoMixedWorkload,
                 ReadyEarned, Building, Applied, NoPods, Active
<1>3. CASE PolicyChange
  <2>1. UNCHANGED objects /\ pass' = Idle
    BY <1>3 DEF PolicyChange
  <2> QED BY <1>0, <2>1, IdleFacts, ToQuiet DEF Quiet, objects, DCType, PodType
<1>4. CASE IngressChange
  <2>1. pass' = [pass EXCEPT !.ingSame = FALSE]
    BY <1>4 DEF IngressChange, IngressTouched
  <2>2. ~pass'.ingSame
    BY <1>0, <2>1 DEF Passes
  <2> QED BY <1>0, <1>4, <1>a, <2>1, <2>2
             DEF IngressChange, DCType, PodType, Logic, Mirror, Held, Cut, Revision,
                 NoMixedWorkload, ReadyEarned, Building, Applied, NoPods, Active
<1>5. CASE DeploymentChange
  <2>1. pass' = [pass EXCEPT !.depSame = FALSE]
    BY <1>5 DEF DeploymentChange, DeploymentTouched
  <2>2. ~pass'.depSame
    BY <1>0, <2>1 DEF Passes
  <2>3. CASE dep.owner = "none"
    <3>1. /\ dep' = [NoDeployment EXCEPT !.owner = "foreign", !.tmpl = Legacy]
          /\ UNCHANGED <<dc, pods, ing>>
      BY <1>5, <2>3 DEF DeploymentChange
    <3>2. dep' \in Deployments /\ dep'.owner = "foreign"
      <4>1. NoDeployment \in Deployments
        BY DEF NoDeployment, Deployments, Owners
      <4>2. "foreign" \in Owners /\ Legacy \in Templates \cup {None}
        BY DEF Owners, Templates
      <4>3. dep' \in Deployments
        BY <3>1, <4>1, <4>2, Zenon DEF Deployments
      <4>4. dep'.owner = "foreign"
        BY <3>1 DEF NoDeployment
      <4> QED BY <4>3, <4>4
    <3> QED BY <1>0, <1>a, <2>1, <2>2, <2>3, <3>1, <3>2
               DEF DCType, PodType, Logic, Mirror, Held, Cut, Revision, NoMixedWorkload,
                   ReadyEarned, Building, Applied, NoPods, Active
  <2>4. CASE dep.owner # "none"
    <3>1. DropFacts /\ dep' \in Deployments /\ DCType' /\ PodType' /\ UNCHANGED ing
      BY <1>0, <1>5, <2>4, DropDeploymentFacts DEF DeploymentChange, DCType, PodType
    <3> QED BY <1>0, <1>a, <2>1, <2>2, <3>1
               DEF DropFacts, Logic, Mirror, Held, Cut, Revision, NoMixedWorkload, ReadyEarned,
                   Building, Applied, NoPods, Active
  <2> QED BY <2>3, <2>4
<1>6. CASE ExternalScale
  <2>1. pass' = [pass EXCEPT !.depSame = FALSE]
    BY <1>6 DEF ExternalScale, DeploymentTouched
  <2>2. ~pass'.depSame
    BY <1>0, <2>1 DEF Passes
  <2>3. PICK n \in Nat : ScaleTo(n)
    BY <1>6 DEF ExternalScale
  <2> QED BY <1>0, <1>6, <1>a, <2>1, <2>2, <2>3, ScaleFacts
          DEF ExternalScale, DCType, PodType, Logic, Mirror, Held, Cut, Revision, NoMixedWorkload,
              ReadyEarned, Building, Applied, NoPods, Active
<1> QED BY <1>1, <1>2, <1>3, <1>4, <1>5, <1>6 DEF Outside

----------------------------------------------------------------------------
\* Types of the instance, of what it asks for, and of the owners

\* The instance is created once and only changed field by field.
LEMMA InstanceTypes ==
    ASSUME IInv, Next
    PROVE  inst' \in Instances /\ ask' \in Asked
<1>0. inst \in Instances /\ ask \in Asked /\ pass \in Passes
  BY DEF IInv, TypeOK
<1>a. pass.latest \in BOOLEAN /\ pass.fresh \in BOOLEAN
  BY <1>0, Zenon DEF Passes
<1>b. BlankStatus \in Instances
  BY <1>0, <1>a, Zenon DEF BlankStatus, Instances
<1>1. CASE Unfinalize
  BY <1>0, <1>1, Zenon DEF Unfinalize, Instances
<1>2. CASE Slug
  <2>1. [BlankStatus EXCEPT !.slugSet = TRUE] \in Instances
    BY <1>b, Zenon DEF Instances
  <2> QED BY <1>0, <1>2, <2>1, Zenon DEF Slug
<1>3. CASE Access
  <2>1. [ask EXCEPT !.pinned = ask.pinned \cup {ask.wanted}] \in Asked
    <3>1. ask.wanted \in Revs /\ ask.pinned \in SUBSET Revs
      BY <1>0, Zenon DEF Asked
    <3>2. ask.pinned \cup {ask.wanted} \in SUBSET Revs
      BY <3>1
    <3> QED BY <1>0, <3>2, Zenon DEF Asked
  <2>2. [ask EXCEPT !.accessOk = FALSE] \in Asked
    BY <1>0, Zenon DEF Asked
  <2> QED BY <1>0, <1>3, <2>1, <2>2, Zenon DEF Access
<1>4. CASE Finalizer
  <2>1. [inst EXCEPT !.finalizer = pass.fresh] \in Instances
    BY <1>0, <1>a, Zenon DEF Instances
  <2> QED BY <1>0, <1>4, <2>1, Zenon DEF Finalizer
<1>5. CASE Pending \/ Report
  <2>1. \A st \in {"pending", "ready"} :
           [inst EXCEPT !.status = st, !.observed = pass.latest] \in Instances
    BY <1>0, <1>a, Zenon DEF Instances
  <2> QED BY <1>0, <1>5, <2>1, Zenon DEF Pending, Report, WriteStatus
<1>6. CASE DenyStatus
  <2>1. \A b \in BOOLEAN : [BlankStatus EXCEPT !.slugSet = b] \in Instances
    BY <1>b, Zenon DEF Instances
  <2>2. (BlankStatus.slugSet /\ pass.why # "hostUnmapped") \in BOOLEAN
    BY Zenon
  <2>3. \/ inst' = inst
        \/ inst' = [BlankStatus EXCEPT !.slugSet = BlankStatus.slugSet /\ pass.why # "hostUnmapped"]
    BY <1>6, Zenon DEF DenyStatus
  <2> QED BY <1>0, <1>6, <2>1, <2>2, <2>3, Zenon DEF DenyStatus
<1>7. CASE ApiError \/ Crash
  <2>1. [ask EXCEPT !.accessOk = FALSE] \in Asked
    BY <1>0, Zenon DEF Asked
  <2> QED BY <1>0, <1>7, <2>1, Zenon DEF ApiError, Crash
<1>8. CASE SpecWrite \/ UserDelete
  BY <1>0, <1>8, Zenon DEF SpecWrite, UserDelete, Instances
<1>9. CASE OperatorChange \/ PolicyChange
  <2>1. \A h \in {"free", "claimed", "unmapped"} : [ask EXCEPT !.host = h] \in Asked
    BY <1>0, Zenon DEF Asked
  <2>2. /\ [ask EXCEPT !.accessOk = ~ask.accessOk] \in Asked
        /\ [ask EXCEPT !.credsOk = ~ask.credsOk] \in Asked
    BY <1>0, Zenon DEF Asked
  <2>3. \A w \in Revs, q \in SUBSET Revs : [ask EXCEPT !.wanted = w, !.pinned = q] \in Asked
    BY <1>0, Zenon DEF Asked
  <2>4. \A w \in Revs : [ask EXCEPT !.wanted = w] \in Asked
    BY <1>0, Zenon DEF Asked
  <2>5. ask.pinned \in SUBSET Revs /\ \A w \in Revs : ask.pinned \cup {w} \in SUBSET Revs
    BY <1>0 DEF Asked
  <2>6. [inst EXCEPT !.slugSet = FALSE] \in Instances
    BY <1>0, Zenon DEF Instances
  <2>7. CASE OperatorChange
    BY <1>0, <2>1, <2>2, <2>3, <2>5, <2>7, Zenon DEF OperatorChange
  <2>8. CASE PolicyChange
    BY <1>0, <2>1, <2>4, <2>6, <2>8, Zenon DEF PolicyChange
  <2> QED BY <1>9, <2>7, <2>8
<1>10. CASE UNCHANGED <<inst, ask>>
  BY <1>0, <1>10
<1>11. \/ UNCHANGED <<inst, ask>>
       \/ Unfinalize \/ Slug \/ Access \/ Finalizer \/ Pending \/ Report \/ DenyStatus
       \/ ApiError \/ Crash \/ SpecWrite \/ UserDelete \/ OperatorChange \/ PolicyChange
  BY Zenon
     DEF Next, PassStep, ClusterStep, PodStep, Disturbance, Begin, Check, CheckScale, Host,
         PinRead, Creds,
     Deploy, Create, CutRoute, CutDelete, CutScale, CutPods, Install, Scale, Service, Route,
     RouteCreate, RouteUpdate, Cached, Probe, DenyRoute, DenyDelete, DenyStop, DenyScale,
     DCSync, PodCreate, PodReady, PodTerminate, PodGone, CacheSync, Collect,
     IngressChange, DeploymentChange, ExternalScale
<1> QED BY <1>1, <1>2, <1>3, <1>4, <1>5, <1>6, <1>7, <1>8, <1>9, <1>10, <1>11

\* The actions that write the Deployment
LEMMA DeploymentWriters ==
    ASSUME Next
    PROVE  \/ UNCHANGED dep
           \/ Create \/ Install \/ DCSync \/ Collect \/ DeploymentChange \/ ExternalScale
           \/ CheckScale \/ CutScale \/ Scale \/ DenyScale
  BY Zenon
     DEF Next, PassStep, ClusterStep, PodStep, Disturbance, objects, Begin, Unfinalize, Check,
     Slug, Host, Access, PinRead, Finalizer, Creds, Deploy, CutRoute, CutDelete, CutPods, Service,
     Route, RouteCreate, RouteUpdate, Cached, Probe, Pending, Report, WriteStatus, DenyRoute,
     DenyDelete, DenyStop, DenyStatus, ApiError, Crash, PodCreate, PodReady, PodTerminate,
     PodGone, CacheSync, SpecWrite, UserDelete, OperatorChange, PolicyChange, IngressChange

\* Nobody leaves a Deployment without a template, or a template without one.
LEMMA TemplateSteps ==
    ASSUME IInv, Next
    PROVE  (dep'.owner = "none") <=> (dep'.tmpl = None)
<1> USE DEF At
<1>0. /\ dep \in Deployments
      /\ (dep.owner = "none") <=> (dep.tmpl = None)
      /\ pass \in Passes /\ Logic /\ TypeOK
  BY DEF IInv, TypeOK
<1>1. CASE UNCHANGED dep
  BY <1>0, <1>1
<1>2. ASSUME NEW n \in Nat, ScaleTo(n)
      PROVE  (dep'.owner = "none") <=> (dep'.tmpl = None)
  BY <1>0, <1>2, ScaleFacts
<1>3. CASE Create
  <2>1. pass.tmpl \in Revs
    BY <1>0, <1>3 DEF Create, Logic, Revision, Building
  <2>2. pass.tmpl # None
    BY <2>1, TemplatesAssumption
  <2> QED BY <1>0, <1>3, <2>2 DEF Create
<1>4. CASE Install
  <2>1. pass.tmpl \in Revs
    BY <1>0, <1>4 DEF Install, Logic, Revision, Building
  <2>2. pass.tmpl # None
    BY <2>1, TemplatesAssumption
  <2>3. pass.depSame => dep.owner = "ours"
    BY <1>0 DEF Logic, Held
  <2>4. CASE dep' = [dep EXCEPT !.tmpl = pass.tmpl, !.replicas = WantReplicas, !.seen = FALSE]
             /\ pass.depSame
    <3>1. dep'.owner = dep.owner /\ dep'.tmpl = pass.tmpl
      BY <1>0, <2>4 DEF Deployments
    <3> QED BY <2>2, <2>3, <2>4, <3>1
  <2> QED BY <1>1, <1>4, <2>4 DEF Install
<1>5. CASE DCSync
  <2>1. dep' = [dep EXCEPT !.seen = TRUE, !.status = Cardinality(ActivePods)]
    BY <1>5 DEF DCSync
  <2> QED BY <1>0, <2>1 DEF Deployments
<1>6. CASE Collect \/ DeploymentChange
  <2>1. CASE DropDeployment
    BY <1>0, <2>1, DropDeploymentFacts DEF DropFacts
  <2>2. CASE dep' = [NoDeployment EXCEPT !.owner = "foreign", !.tmpl = Legacy]
    BY <2>2, TemplatesAssumption DEF NoDeployment
  <2> QED BY <1>1, <1>6, <2>1, <2>2 DEF Collect, DeploymentChange
<1>7. WantReplicas \in Nat
  BY <1>0 DEF WantReplicas, Passes
<1>8. CASE ExternalScale
  <2>1. PICK n \in Nat : ScaleTo(n)
    BY <1>8 DEF ExternalScale
  <2> QED BY <1>2, <2>1
<1>9. CASE CheckScale \/ CutScale \/ Scale \/ DenyScale
  BY <1>1, <1>2, <1>7, <1>9 DEF CheckScale, CutScale, Scale, DenyScale
<1> QED BY <1>1, <1>3, <1>4, <1>5, <1>6, <1>8, <1>9,
       DeploymentWriters

\* The Ingress, the Service and the bits keep their types.
LEMMA OtherTypes ==
    ASSUME IInv, Next
    PROVE  /\ ing' \in Owners /\ svc' \in Owners
           /\ cacheReady' \in BOOLEAN /\ queued' \in BOOLEAN /\ faults' \in 0..MaxFaults
<1>0. /\ ing \in Owners /\ svc \in Owners /\ faults \in 0..MaxFaults
      /\ cacheReady \in BOOLEAN /\ queued \in BOOLEAN
  BY DEF IInv, TypeOK
<1>1. ing' \in Owners
  <2>1. \/ UNCHANGED ing \/ ing' = "none" \/ ing' = "ours" \/ ing' = "foreign"
    BY Zenon DEF Next, PassStep, ClusterStep, PodStep, Disturbance, objects, Begin, Unfinalize,
       Check, CheckScale, Slug, Host, Access, PinRead, Finalizer, Creds, Deploy, Create, CutRoute,
       CutDelete, CutScale, CutPods, Install, Scale, Service, Route, RouteCreate, RouteUpdate,
       Cached, Probe, Pending, Report, WriteStatus, DenyRoute, DenyDelete, DenyStop, DenyScale,
       DenyStatus, ApiError, Crash, DCSync, PodCreate, PodReady, PodTerminate, PodGone, CacheSync,
       Collect, SpecWrite, UserDelete, OperatorChange, PolicyChange, IngressChange,
       DeploymentChange, ExternalScale
  <2> QED BY <1>0, <2>1 DEF Owners
<1>2. svc' \in Owners
  <2>1. \/ UNCHANGED svc \/ svc' = "none" \/ svc' = "ours"
    BY Zenon DEF Next, PassStep, ClusterStep, PodStep, Disturbance, objects, Begin, Unfinalize,
       Check, CheckScale, Slug, Host, Access, PinRead, Finalizer, Creds, Deploy, Create, CutRoute,
       CutDelete, CutScale, CutPods, Install, Scale, Service, Route, RouteCreate, RouteUpdate,
       Cached, Probe, Pending, Report, WriteStatus, DenyRoute, DenyDelete, DenyStop, DenyScale,
       DenyStatus, ApiError, Crash, DCSync, PodCreate, PodReady, PodTerminate, PodGone, CacheSync,
       Collect, SpecWrite, UserDelete, OperatorChange, PolicyChange, IngressChange,
       DeploymentChange, ExternalScale
  <2> QED BY <1>0, <2>1 DEF Owners
<1>3. cacheReady' \in BOOLEAN
  <2>1. Available \in BOOLEAN
    BY Zenon DEF Available
  <2>2. UNCHANGED cacheReady \/ cacheReady' = Available
    BY Zenon DEF Next, PassStep, ClusterStep, PodStep, Disturbance, Begin, Unfinalize,
       Check, CheckScale, Slug, Host, Access, PinRead, Finalizer, Creds, Deploy, Create, CutRoute,
       CutDelete, CutScale, CutPods, Install, Scale, Service, Route, RouteCreate, RouteUpdate,
       Cached, Probe, Pending, Report, WriteStatus, DenyRoute, DenyDelete, DenyStop, DenyScale,
       DenyStatus, ApiError, Crash, DCSync, PodCreate, PodReady, PodTerminate, PodGone, CacheSync,
       Collect, SpecWrite, UserDelete, OperatorChange, PolicyChange, IngressChange,
       DeploymentChange, ExternalScale
  <2> QED BY <1>0, <2>1, <2>2, Zenon
<1>4. queued' \in BOOLEAN
  <2>1. \A b \in BOOLEAN : (queued \/ b) \in BOOLEAN
    BY Zenon
  <2>2. Retried \in BOOLEAN
    BY Zenon DEF Retried
  <2>3. \/ UNCHANGED queued \/ queued' = TRUE \/ queued' = FALSE
        \/ queued' = (queued \/ Retried) \/ queued' = (queued \/ TRUE)
        \/ queued' = (queued \/ FALSE)
        \/ \E b \in BOOLEAN : queued' = (queued \/ b)
    BY Zenon DEF Next, PassStep, ClusterStep, PodStep, Disturbance, End, OnError,
       DeploymentTouched, IngressTouched, Wakes, Begin, Unfinalize,
       Check, CheckScale, Slug, Host, Access, PinRead, Finalizer, Creds, Deploy, Create, CutRoute,
       CutDelete, CutScale, CutPods, Install, Scale, Service, Route, RouteCreate, RouteUpdate,
       Cached, Probe, Pending, Report, WriteStatus, DenyRoute, DenyDelete, DenyStop, DenyScale,
       DenyStatus, ApiError, Crash, DCSync, PodCreate, PodReady, PodTerminate, PodGone, CacheSync,
       Collect, SpecWrite, UserDelete, OperatorChange, PolicyChange, IngressChange,
       DeploymentChange, ExternalScale
  <2> QED BY <1>0, <2>1, <2>2, <2>3, Zenon
<1>5. faults' \in 0..MaxFaults
  <2>1. \/ UNCHANGED faults \/ Fault
    BY Zenon DEF Next, PassStep, ClusterStep, PodStep, Disturbance, Begin, Unfinalize,
       Check, CheckScale, Slug, Host, Access, PinRead, Finalizer, Creds, Deploy, Create, CutRoute,
       CutDelete, CutScale, CutPods, Install, Scale, Service, Route, RouteCreate, RouteUpdate,
       Cached, Probe, Pending, Report, WriteStatus, DenyRoute, DenyDelete, DenyStop, DenyScale,
       DenyStatus, ApiError, Crash, DCSync, PodCreate, PodReady, PodTerminate, PodGone, CacheSync,
       Collect, SpecWrite, UserDelete, OperatorChange, PolicyChange, IngressChange,
       DeploymentChange, ExternalScale
  <2> QED BY <1>0, <2>1, NumbersAssumption DEF Fault
<1> QED BY <1>1, <1>2, <1>3, <1>4, <1>5

----------------------------------------------------------------------------
\* The invariant

\* A fresh instance and one inherited from an earlier controller satisfy it.
LEMMA InitIInv == Init => IInv
<1> SUFFICES ASSUME Init PROVE IInv
  OBVIOUS
<1>1. pass = Idle /\ pass \in Passes /\ queued \in BOOLEAN /\ faults \in 0..MaxFaults
  BY IdleFacts, NumbersAssumption DEF Init
<1>2. inst \in Instances
  <2>1. PICK r \in Replicas \cap {0, 1}, legacy \in BOOLEAN, f \in BOOLEAN :
          inst = [phase |-> "live", imageOk |-> TRUE, replicas |-> r, finalizer |-> legacy /\ f,
                  slugSet |-> FALSE, status |-> IF legacy THEN "ready" ELSE "blank",
                  observed |-> legacy]
    BY Zenon DEF Init
  <2>2. PICK g \in BOOLEAN : g = (legacy /\ f)
    OBVIOUS
  <2>3. PICK st \in {"blank", "ready"} : st = IF legacy THEN "ready" ELSE "blank"
    OBVIOUS
  <2> QED BY <2>1, <2>2, <2>3, Zenon DEF Instances
<1>3. ask \in Asked
  <2>1. {} \in SUBSET Revs
    OBVIOUS
  <2>2. PICK w \in Revs, h \in {"free", "unmapped"} :
          ask = [host |-> h, accessOk |-> TRUE, wanted |-> w, pinned |-> {}, credsOk |-> TRUE]
    BY Zenon DEF Init
  <2> QED BY <2>1, <2>2, Zenon DEF Asked
<1>4. cacheReady \in BOOLEAN
  <2>1. cacheReady = (inst.status = "ready")
    BY Zenon DEF Init
  <2> QED BY <2>1, Zenon
<1>5. /\ dep \in Deployments /\ DCType /\ PodType /\ ing \in Owners /\ svc \in Owners
      /\ Mirror /\ NoMixedWorkload
      /\ (dep.owner = "none") <=> (dep.tmpl = None)
  <2>1. CASE inst.status = "blank"
    <3>1. PICK o \in {"none", "foreign"}, t \in {None, Legacy} :
             /\ (o = "none") <=> (t = None)
             /\ dep = [NoDeployment EXCEPT !.owner = o, !.tmpl = t]
      BY <2>1 DEF Init
    <3>2. dep = [owner |-> o, tmpl |-> t, replicas |-> 0, seen |-> FALSE, status |-> 0]
      BY <3>1 DEF NoDeployment
    <3>3. o \in Owners /\ t \in Templates \cup {None}
      BY DEF Owners, Templates
    <3>4. dep \in Deployments
      BY <3>2, <3>3, Zenon DEF Deployments
    <3>5. /\ dc = [tmpl |-> None, replicas |-> 0] /\ pods = [s \in Slots |-> Empty]
          /\ ing \in {"none", "foreign"} /\ svc \in {"none", "foreign"}
      BY <2>1 DEF Init
    <3>6. PodType /\ \A s \in Slots : ~Active(s)
      BY <3>5 DEF PodType, PodStates, Empty, Active
    <3>7. /\ dep.owner # "ours"
          /\ (dep.owner = "none") <=> (dep.tmpl = None)
      BY <3>1, <3>2
    <3> QED BY <3>4, <3>5, <3>6, <3>7 DEF DCType, Mirror, NoMixedWorkload, Owners
  <2>2. CASE inst.status = "ready"
    <3>1. PICK t \in {Legacy, Unapproved}, up \in Slots :
             /\ dep = [owner |-> "ours", tmpl |-> t, replicas |-> 1, seen |-> TRUE, status |-> 1]
             /\ dc = [tmpl |-> t, replicas |-> 1]
             /\ pods = [[s \in Slots |-> Empty] EXCEPT ![up] = [tmpl |-> t, state |-> "ready"]]
      BY <2>2 DEF Init
    <3>2. "ours" \in Owners /\ t \in Templates \cup {None}
      BY DEF Owners, Templates
    <3>3. dep \in Deployments
      BY <3>1, <3>2, Zenon DEF Deployments
    <3>4. \A s \in Slots : pods[s] = IF s = up THEN [tmpl |-> t, state |-> "ready"] ELSE Empty
      BY <3>1
    <3>5. [tmpl |-> t, state |-> "ready"] \in PodStates /\ Empty \in PodStates
      BY <3>2 DEF PodStates, Empty
    <3>6. PodType
      BY <3>1, <3>5 DEF PodType
    <3>7. NoMixedWorkload
      BY <3>1, <3>4 DEF NoMixedWorkload, Active, Empty
    <3>8. ing = "ours" /\ svc = "ours"
      BY <2>2 DEF Init
    <3>9. dep.owner # "none" /\ dep.tmpl # None
      BY <3>1, TemplatesAssumption
    <3> QED BY <3>1, <3>2, <3>3, <3>6, <3>7, <3>8, <3>9 DEF DCType, Mirror
  <2>3. inst.status = "blank" \/ inst.status = "ready"
    BY DEF Init
  <2> QED BY <2>1, <2>2, <2>3
<1>6. Held /\ Cut /\ Revision /\ ReadyEarned
  BY <1>1, IdleFacts DEF Held, Cut, Revision, ReadyEarned, Building, Applied, At
<1> QED BY <1>1, <1>2, <1>3, <1>4, <1>5, <1>6
        DEF IInv, TypeOK, Logic, DCType, PodType, PodStates

\* Every step keeps the invariant.
LEMMA StepIInv == IInv /\ [Next]_vars => IInv'
<1> SUFFICES ASSUME IInv, [Next]_vars PROVE IInv'
  OBVIOUS
<1>1. CASE UNCHANGED vars
  BY <1>1 DEF vars, IInv, TypeOK, Logic, Mirror, Held, Cut, Revision, NoMixedWorkload,
     ReadyEarned, NoPods, Active, At
<1>2. CASE Next
  <2>0. DCType /\ PodType /\ dep \in Deployments
    BY DEF IInv, TypeOK, DCType, PodType, PodStates
  <2>1. Logic' /\ pass' \in Passes /\ dep' \in Deployments /\ DCType' /\ PodType'
    <3>1. CASE PassStep \/ ApiError \/ Crash
      <4>1. UNCHANGED <<dc, pods>>
        BY <3>1, Zenon DEF PassStep, objects, Begin, Unfinalize, Check, CheckScale, Slug, Host,
           Access, PinRead, Finalizer, Creds, Deploy, Create, CutRoute, CutDelete, CutScale,
           CutPods, Install, Scale, Service, Route, RouteCreate, RouteUpdate, Cached, Probe,
           Pending, Report, WriteStatus, DenyRoute, DenyDelete, DenyStop, DenyScale, DenyStatus,
           ApiError, Crash
      <4>2. DCType' /\ PodType'
        BY <2>0, <4>1 DEF DCType, PodType, PodStates
      <4>3. Logic' /\ pass' \in Passes /\ dep' \in Deployments
        BY <2>0, <3>1, SelectSteps, DeploySteps, ServeSteps, DenySteps, InstanceSteps,
           FailureSteps DEF PassStep, objects
      <4> QED BY <4>2, <4>3
    <3>2. CASE ClusterStep
      BY <3>2, ClusterSteps
    <3>3. CASE Outside
      BY <3>3, OutsideSteps
    <3> QED BY <1>2, <3>1, <3>2, <3>3 DEF Next, Disturbance, Outside
  <2>2. inst' \in Instances /\ ask' \in Asked
    BY <1>2, InstanceTypes
  <2>3. (dep'.owner = "none") <=> (dep'.tmpl = None)
    BY <1>2, TemplateSteps
  <2> QED BY <1>2, <2>1, <2>2, <2>3, OtherTypes
          DEF IInv, TypeOK, DCType, PodType, PodStates
<1> QED BY <1>1, <1>2

\* The cutover invariant of Reconcile holds in every reachable state.
THEOREM Invariance == Spec => []IInv
  BY InitIInv, StepIInv, PTL DEF Spec

\* Every object of the cluster and of the pass keeps its type (TypeOK), so a
\* pass never writes a Deployment without a revision it computed.
THEOREM TypeCorrect == Spec => []TypeOK
<1>1. IInv => TypeOK
  BY DEF IInv
<1> QED BY <1>1, Invariance, PTL

\* No two configurations run side by side (NoMixedWorkload).
THEOREM NeverMixed == Spec => []NoMixedWorkload
<1>1. IInv => NoMixedWorkload
  BY DEF IInv, Logic
<1> QED BY <1>1, Invariance, PTL

\* Ready is reported of the template the pass applied, although the Deployment
\* and the Endpoints come from a cache (ReadyEarned).
THEOREM ReadyOfWhatWasApplied == Spec => []ReadyEarned
<1>1. IInv => ReadyEarned
  BY DEF IInv, Logic
<1> QED BY <1>1, Invariance, PTL

\* A running template is replaced only when no pod and no route is left
\* (CutoverClean), for any number of pods and of interfering writers.
THEOREM CutoverIsClean == Spec => CutoverClean
<1> DEFINE A == dep.owner = "ours" /\ dep'.owner = "ours" /\ dep'.tmpl # dep.tmpl
                   => NoPods /\ ing # "ours"
<1>1. IInv /\ [Next]_vars => [A]_vars
  <2> SUFFICES ASSUME IInv, Next PROVE A
    BY DEF vars
  <2>0. dep \in Deployments /\ Cut
    BY DEF IInv, TypeOK, Logic
  <2>1. CASE Install
    BY <2>0, <2>1 DEF Install, Cut, At
  <2>2. CASE UNCHANGED dep \/ Create
    BY <2>2 DEF Create
  <2>3. ASSUME NEW n, ScaleTo(n)
        PROVE  dep'.tmpl = dep.tmpl
    BY <2>0, <2>3 DEF ScaleTo, Deployments
  <2>4. CASE CheckScale \/ CutScale \/ Scale \/ DenyScale \/ ExternalScale
    BY <2>3, <2>4 DEF CheckScale, CutScale, Scale, DenyScale, ExternalScale
  <2>5. CASE DCSync
    <3>1. dep' = [dep EXCEPT !.seen = TRUE, !.status = Cardinality(ActivePods)]
      BY <2>5 DEF DCSync
    <3> QED BY <2>0, <3>1 DEF Deployments
  <2>6. CASE Collect \/ DeploymentChange
    BY <2>6 DEF Collect, DeploymentChange, DropDeployment, NoDeployment
  <2>7. \/ UNCHANGED dep
        \/ Create \/ Install \/ DCSync \/ Collect \/ DeploymentChange \/ ExternalScale
        \/ CheckScale \/ CutScale \/ Scale \/ DenyScale
    BY DeploymentWriters
  <2> QED BY <2>1, <2>2, <2>4, <2>5, <2>6, <2>7
<1> QED BY <1>1, Invariance, PTL DEF Spec, CutoverClean

\* A pass never writes or removes an object of another controller
\* (ForeignUntouched), also when it took the name after the pass read the object.
THEOREM ForeignIsUntouched == Spec => ForeignUntouched
<1> DEFINE A == pass'.pc # pass.pc =>
                   /\ dep.owner = "foreign" => dep' = dep
                   /\ ing = "foreign" => ing' = ing
                   /\ svc = "foreign" => svc' = svc
<1>1. IInv /\ [Next]_vars => [A]_vars
  <2> SUFFICES ASSUME IInv, Next PROVE A
    BY DEF vars
  <2>0. pass \in Passes /\ Held
    BY DEF IInv, TypeOK, Logic
  <2>1. CASE UNCHANGED objects
    BY <2>1 DEF objects
  <2>2. CASE CheckScale \/ Create \/ CutScale \/ Install \/ Scale \/ DenyScale
    BY <2>0, <2>2
       DEF CheckScale, Create, CutScale, Install, Scale, DenyScale, Held
  <2>3. CASE CutDelete \/ DenyDelete \/ RouteCreate
    BY <2>0, <2>3 DEF CutDelete, DenyDelete, RouteCreate, Held, At
  <2>4. CASE Service
    BY <2>4 DEF Service
  <2>5. CASE DCSync \/ PodStep \/ Collect \/ IngressChange \/ DeploymentChange \/ ExternalScale
    <3>1. \/ UNCHANGED pass
          \/ pass' = [pass EXCEPT !.depSame = FALSE]
          \/ pass' = [pass EXCEPT !.ingSame = FALSE]
          \/ pass' = [pass EXCEPT !.depSame = FALSE, !.ingSame = FALSE]
      BY <2>5, Zenon
         DEF DCSync, PodStep, PodCreate, PodReady, PodTerminate, PodGone, Collect, IngressChange,
             DeploymentChange, ExternalScale, DeploymentTouched, IngressTouched
    <3>2. pass'.pc = pass.pc
      BY <2>0, <3>1, TouchFacts
    <3> QED BY <3>2
  <2>6. \/ UNCHANGED objects
        \/ CheckScale \/ Create \/ CutScale \/ Install \/ Scale \/ DenyScale
        \/ CutDelete \/ DenyDelete \/ RouteCreate \/ Service
        \/ DCSync \/ PodStep \/ Collect \/ IngressChange \/ DeploymentChange \/ ExternalScale
    BY Zenon DEF Next, PassStep, ClusterStep, Disturbance, Begin, Unfinalize, Check, Slug, Host,
       Access, PinRead, Finalizer, Creds, Deploy, CutRoute, CutPods, Route, RouteUpdate, Cached,
       Probe, Pending, Report, WriteStatus, DenyRoute, DenyStop, DenyStatus, ApiError, Crash,
       CacheSync, SpecWrite, UserDelete, OperatorChange, PolicyChange
  <2> QED BY <2>1, <2>2, <2>3, <2>4, <2>5, <2>6
<1> QED BY <1>1, Invariance, PTL DEF Spec, ForeignUntouched

----------------------------------------------------------------------------
\* Nothing is left half refused.

DenyPath == {"denyRoute", "denyDelete", "denyStop", "denyScale", "denyStatus"}
Stopped == dep.owner = "ours" => dep.replicas = 0

\* A pass that refuses the image and is not queued meanwhile has seen the spec as
\* it is, and whatever it found withdrawn or stopped still is.
ImageRefusal ==
    pass.why = "image" =>
      /\ pass.pc \in DenyPath
      /\ ~queued /\ inst.phase # "gone" =>
           /\ inst.phase = "live" /\ ~inst.imageOk /\ pass.latest
           /\ pass.clean /\ pass.pc \in {"denyStop", "denyScale", "denyStatus"} => ing # "ours"
           /\ pass.clean /\ pass.pc = "denyStatus" => Stopped

\* Who is being deleted still has its finalizer.
Finalized == inst.phase = "deleting" => inst.finalizer

Attended == Finalized /\ ImageRefusal /\ NeverAbandoned

\* What End, Proceed and Deny do to the pass, the queue and the cause
LEMMA CauseFacts ==
    ASSUME pass \in Passes
    PROVE  /\ \A p : Proceed(p) => pass'.pc = p /\ pass'.why = pass.why
                                   /\ pass'.clean = pass.clean /\ pass'.latest = pass.latest
           /\ \A c : Deny(c) => pass'.pc = "denyRoute" /\ pass'.why = c
           /\ \A p : pass' = [Flawed EXCEPT !.pc = p] =>
                        pass'.pc = p /\ pass'.why = pass.why /\ ~pass'.clean /\ pass'.latest = pass.latest
           /\ Idle.pc = "idle" /\ Idle.why = "none"
  BY DEF Proceed, Deny, Flawed, Passes, Idle

\* A pass that goes on for another reason than the image leaves nothing behind yet.
LEMMA GoesOn ==
    ASSUME Finalized', pass'.pc # "idle", pass'.why # "image"
    PROVE  Attended'
  BY DEF Attended, ImageRefusal, NeverAbandoned, At

\* Nor does anything that queues the instance.
LEMMA Queues ==
    ASSUME Finalized', queued', pass'.why = "image" => pass'.pc \in DenyPath
    PROVE  Attended'
  BY DEF Attended, ImageRefusal, NeverAbandoned, At

\* The steps of a pass before it refuses: only Begin finds the image.
LEMMA SelectAttended ==
    ASSUME TypeOK, Attended, Check \/ CheckScale \/ Slug \/ Host \/ Access \/ PinRead
                             \/ Finalizer \/ Creds
    PROVE  Attended'
<1> USE DEF At
<1>0. pass \in Passes /\ inst \in Instances /\ Finalized
  BY DEF TypeOK, Attended
<1>1. pass.why # "image"
  BY DEF Attended, ImageRefusal, DenyPath, Check, CheckScale, Slug, Host, Access, PinRead,
         Finalizer, Creds
<1>2. CASE Check \/ CheckScale \/ Host \/ Creds
  <2>1. pass'.pc # "idle" /\ pass'.why # "image" /\ UNCHANGED inst
    <3>1. CASE Check
      <4>1. CASE pass' = [pass EXCEPT !.pc = "checkScale", !.depSame = TRUE]
        BY <1>0, <1>1, <3>1, <4>1 DEF Check, Passes
      <4> QED BY <1>0, <1>1, <3>1, <4>1, CauseFacts DEF Check, ImageChecked
    <3> QED BY <1>0, <1>1, <1>2, <3>1, CauseFacts DEF CheckScale, Host, Creds
  <2> QED BY <1>0, <2>1, GoesOn DEF Finalized
<1>3. CASE Slug
  <2>1. Finalized'
    BY <1>0, <1>3 DEF Slug, BlankStatus, Finalized, Instances
  <2>2. pass'.pc # "idle" /\ pass'.why # "image"
    <3>1. CASE Deny("hostUnmapped") \/ Proceed("host")
      BY <1>0, <1>1, <3>1, CauseFacts
    <3>2. CASE pass' = [Refreshed EXCEPT !.pc = "host", !.blank = TRUE]
      BY <1>0, <1>1, <3>2 DEF Refreshed, Passes
    <3>3. CASE pass' = [pass EXCEPT !.pc = "denyRoute", !.why = "hostUnknown", !.blank = TRUE]
      BY <1>0, <3>3 DEF Passes
    <3> QED BY <1>3, <3>1, <3>2, <3>3 DEF Slug
  <2> QED BY <2>1, <2>2, GoesOn
<1>4. CASE Access \/ PinRead
  <2>1. UNCHANGED inst
    BY <1>4 DEF Access, PinRead
  <2>2. pass'.pc # "idle" /\ pass'.why # "image"
    <3>1. CASE Deny("access")
      BY <1>0, <3>1, CauseFacts
    <3>2. CASE \E p \in {"finalizer", "pinRead"}, w \in Revs : pass' = [pass EXCEPT !.pc = p, !.tmpl = w]
      BY <1>0, <1>1, <3>2 DEF Passes
    <3>3. CASE pass' = [Refreshed EXCEPT !.pc = "finalizer"]
      BY <1>0, <1>1, <3>3 DEF Refreshed, Passes
    <3>4. ask.wanted \in Revs
      BY DEF TypeOK, Asked
    <3> QED BY <1>4, <3>1, <3>2, <3>3, <3>4 DEF Access, PinRead
  <2> QED BY <1>0, <2>1, <2>2, GoesOn DEF Finalized
<1>5. CASE Finalizer
  <2>1. CASE inst.finalizer /\ Proceed("creds") /\ UNCHANGED inst
    BY <1>0, <1>1, <2>1, CauseFacts, GoesOn DEF Finalized
  <2>2. CASE ~inst.finalizer /\ End(TRUE) /\ inst' = [inst EXCEPT !.finalizer = pass.fresh]
    <3>1. Finalized'
      BY <1>0, <2>2 DEF Finalized, Instances
    <3> QED BY <1>0, <2>2, <3>1, CauseFacts, Queues DEF End
  <2> QED BY <1>5, <2>1, <2>2 DEF Finalizer
<1> QED BY <1>2, <1>3, <1>4, <1>5

\* The workload, the route, readiness and the status of a pass that is not refused
LEMMA ServeAttended ==
    ASSUME TypeOK, Attended,
           \/ Deploy \/ Create \/ CutRoute \/ CutDelete \/ CutScale \/ CutPods \/ Install \/ Scale
           \/ Service \/ Route \/ RouteCreate \/ RouteUpdate \/ Cached \/ Probe \/ Pending \/ Report
    PROVE  Attended'
<1> USE DEF At
<1>0. pass \in Passes /\ inst \in Instances /\ Finalized
  BY DEF TypeOK, Attended
<1>1. pass.why # "image"
  BY DEF Attended, ImageRefusal, DenyPath, Deploy, Create, CutRoute, CutDelete, CutScale, CutPods,
         Install, Scale, Service, Route, RouteCreate, RouteUpdate, Cached, Probe, Pending, Report
<1>2. CASE Pending \/ Report
  <2>1. Finalized'
    BY <1>0, <1>2 DEF Pending, Report, WriteStatus, Finalized, Instances
  <2> QED BY <1>0, <1>2, <2>1, CauseFacts, Queues DEF Pending, Report, WriteStatus, End
<1>3. CASE ~(Pending \/ Report)
  <2>1. UNCHANGED inst
    BY <1>3 DEF Deploy, Create, CutRoute, CutDelete, CutScale, CutPods,
                Install, Scale, Service, Route, RouteCreate, RouteUpdate, Cached, Probe
  <2>2. pass'.pc # "idle" /\ pass'.why # "image"
    <3>1. CASE Deploy
      <4>1. CASE DeployOurs
        BY <1>0, <1>1, <4>1 DEF DeployOurs, Passes
      <4> QED BY <1>0, <1>1, <3>1, <4>1, CauseFacts DEF Deploy
    <3>2. CASE CutRoute \/ CutDelete \/ CutScale \/ CutPods
      <4>1. CASE Cutover
        BY <1>0, <4>1 DEF Cutover, Passes
      <4>2. CASE pass' = [pass EXCEPT !.pc = "cutDelete", !.ingSame = TRUE]
        BY <1>0, <1>1, <4>2 DEF Passes
      <4> QED BY <1>0, <1>1, <3>2, <4>1, <4>2, CauseFacts
              DEF CutRoute, CutDelete, CutScale, CutPods, RouteWithdrawn
    <3>3. CASE Route
      <4>1. CASE Deny("host")
        BY <1>0, <4>1, CauseFacts
      <4>2. CASE \E p \in {"routeCreate", "routeUpdate"} : pass' = [pass EXCEPT !.pc = p, !.ingSame = TRUE]
        BY <1>0, <1>1, <4>2 DEF Passes
      <4> QED BY <3>3, <4>1, <4>2 DEF Route
    <3>4. CASE Probe
      <4>1. CASE Proceed("pending")
        BY <1>0, <1>1, <4>1, CauseFacts
      <4>2. CASE \E a : pass' = [pass EXCEPT !.pc = "report", !.answered = a]
        BY <1>0, <1>1, <4>2 DEF Passes
      <4> QED BY <3>4, <4>1, <4>2 DEF Probe
    <3> QED BY <1>0, <1>1, <1>3, <3>1, <3>2, <3>3, <3>4, CauseFacts
            DEF Create, Install, Scale, Service, RouteCreate, RouteUpdate, Cached
  <2> QED BY <1>0, <2>1, <2>2, GoesOn DEF Finalized
<1> QED BY <1>2, <1>3

\* A pass begins: it refuses the image it has just read, or it does not.
LEMMA BeginAttended ==
    ASSUME TypeOK, Attended, Begin \/ Unfinalize
    PROVE  Attended'
<1> USE DEF At
<1>0. pass \in Passes /\ inst \in Instances /\ Finalized
  BY DEF TypeOK, Attended
<1>1. CASE Begin
  <2>1. UNCHANGED <<inst, ing, dep>>
    BY <1>1 DEF Begin, objects
  <2>2. CASE inst.phase = "gone"
    <3>1. pass' = Idle
      BY <1>1, <2>2 DEF Begin
    <3> QED BY <1>0, <2>1, <2>2, <3>1, CauseFacts
            DEF Attended, Finalized, ImageRefusal, NeverAbandoned
  <2>3. CASE inst.phase = "deleting"
    <3>1. pass' = [Idle EXCEPT !.pc = "unfinalize", !.fresh = TRUE]
      BY <1>0, <1>1, <2>3 DEF Begin, Finalized
    <3>2. pass'.pc = "unfinalize" /\ pass'.why = "none"
      BY <3>1 DEF Idle
    <3> QED BY <1>0, <2>1, <3>2, GoesOn DEF Finalized
  <2>4. CASE inst.phase = "live"
    <3>1. /\ pass'.pc = (IF inst.imageOk THEN "check" ELSE "denyRoute")
          /\ pass'.why = (IF inst.imageOk THEN "none" ELSE "image")
          /\ pass'.latest
      BY <1>1, <2>4 DEF Begin, Idle
    <3> QED BY <1>0, <2>1, <2>4, <3>1
            DEF Attended, Finalized, ImageRefusal, NeverAbandoned, DenyPath
  <2> QED BY <1>0, <2>2, <2>3, <2>4 DEF Instances
<1>2. CASE Unfinalize
  <2>1. CASE inst' = [inst EXCEPT !.finalizer = FALSE, !.phase = "gone"] /\ End(FALSE)
    <3>1. inst'.phase = "gone"
      BY <1>0, <2>1 DEF Instances
    <3> QED BY <1>0, <2>1, <3>1, CauseFacts
            DEF Attended, Finalized, ImageRefusal, NeverAbandoned, End
  <2>2. CASE UNCHANGED inst /\ End(TRUE)
    BY <1>0, <2>2, CauseFacts, Queues DEF End, Finalized
  <2> QED BY <1>2, <2>1, <2>2 DEF Unfinalize
<1> QED BY <1>1, <1>2

\* A refusal of the image goes through its calls in order: what a clean one has
\* passed is withdrawn, stopped, and reported.
LEMMA DenyAttended ==
    ASSUME IInv, Attended, DenyRoute \/ DenyDelete \/ DenyStop \/ DenyScale \/ DenyStatus
    PROVE  Attended'
<1> USE DEF At
<1>0. /\ pass \in Passes /\ inst \in Instances /\ dep \in Deployments /\ ing \in Owners
      /\ Finalized /\ ImageRefusal
  BY DEF IInv, TypeOK, Attended
<1>1. AfterWithdrawal \in {"denyStop", "denyStatus"} /\ (pass.why = "image" => AfterWithdrawal = "denyStop")
  BY DEF AfterWithdrawal
<1>2. CASE DenyRoute \/ DenyDelete
  <2>1. UNCHANGED <<inst, dep, queued>>
    BY <1>2 DEF DenyRoute, DenyDelete, objects
  <2>2. \/ pass' = [pass EXCEPT !.pc = "denyDelete", !.ingSame = TRUE]
        \/ pass' = [Flawed EXCEPT !.pc = AfterWithdrawal]
        \/ Proceed(AfterWithdrawal) /\ ing' = "none"
    BY <1>2, Zenon DEF DenyRoute, DenyDelete, Flawed, objects
  <2>3. CASE pass' = [pass EXCEPT !.pc = "denyDelete", !.ingSame = TRUE]
    <3>1. pass'.pc = "denyDelete" /\ pass'.why = pass.why /\ pass'.latest = pass.latest
      BY <1>0, <2>3 DEF Passes
    <3> QED BY <1>0, <2>1, <3>1
            DEF Attended, Finalized, ImageRefusal, NeverAbandoned, DenyPath
  <2>4. CASE pass' = [Flawed EXCEPT !.pc = AfterWithdrawal]
    <3>1. /\ pass'.pc = AfterWithdrawal /\ pass'.why = pass.why /\ ~pass'.clean
          /\ pass'.latest = pass.latest
      BY <1>0, <2>4, CauseFacts
    <3> QED BY <1>0, <1>1, <2>1, <3>1
            DEF Attended, Finalized, ImageRefusal, NeverAbandoned, DenyPath
  <2>5. CASE Proceed(AfterWithdrawal) /\ ing' = "none"
    <3>1. /\ pass'.pc = AfterWithdrawal /\ pass'.why = pass.why /\ pass'.clean = pass.clean
          /\ pass'.latest = pass.latest
      BY <1>0, <2>5, CauseFacts
    <3> QED BY <1>0, <1>1, <2>1, <2>5, <3>1
            DEF Attended, Finalized, ImageRefusal, NeverAbandoned, DenyPath
  <2> QED BY <2>2, <2>3, <2>4, <2>5
<1>3. CASE DenyStop
  <2>1. UNCHANGED <<inst, dep, ing, queued>> /\ pass.pc = "denyStop"
    BY <1>3 DEF DenyStop, objects
  <2>2. \/ Proceed("denyStatus") /\ Stopped
        \/ pass' = [Flawed EXCEPT !.pc = "denyStatus"]
        \/ pass' = [pass EXCEPT !.pc = "denyScale", !.depSame = TRUE]
    BY <1>3 DEF DenyStop, Stopped
  <2>3. CASE Proceed("denyStatus") /\ Stopped
    <3>1. /\ pass'.pc = "denyStatus" /\ pass'.why = pass.why /\ pass'.clean = pass.clean
          /\ pass'.latest = pass.latest
      BY <1>0, <2>3, CauseFacts
    <3> QED BY <1>0, <2>1, <2>3, <3>1
            DEF Attended, Finalized, ImageRefusal, NeverAbandoned, DenyPath, Stopped
  <2>4. CASE pass' = [Flawed EXCEPT !.pc = "denyStatus"]
    <3>1. /\ pass'.pc = "denyStatus" /\ pass'.why = pass.why /\ ~pass'.clean
          /\ pass'.latest = pass.latest
      BY <1>0, <2>4, CauseFacts
    <3> QED BY <1>0, <2>1, <3>1
            DEF Attended, Finalized, ImageRefusal, NeverAbandoned, DenyPath
  <2>5. CASE pass' = [pass EXCEPT !.pc = "denyScale", !.depSame = TRUE]
    <3>1. /\ pass'.pc = "denyScale" /\ pass'.why = pass.why /\ pass'.clean = pass.clean
          /\ pass'.latest = pass.latest
      BY <1>0, <2>5 DEF Passes
    <3> QED BY <1>0, <2>1, <3>1
            DEF Attended, Finalized, ImageRefusal, NeverAbandoned, DenyPath
  <2> QED BY <2>2, <2>3, <2>4, <2>5
<1>4. CASE DenyScale
  <2>1. UNCHANGED <<inst, ing, queued>> /\ pass.pc = "denyScale"
    BY <1>4 DEF DenyScale
  <2>2. CASE pass.depSame /\ ScaleTo(0) /\ Proceed("denyStatus")
    <3>1. /\ pass'.pc = "denyStatus" /\ pass'.why = pass.why /\ pass'.clean = pass.clean
          /\ pass'.latest = pass.latest
      BY <1>0, <2>2, CauseFacts
    <3>2. Stopped'
      <4>1. dep.owner = "ours"
        BY <2>2 DEF IInv, Logic, Held
      <4> QED BY <1>0, <2>2, <4>1 DEF ScaleTo, Deployments, Stopped
    <3> QED BY <1>0, <2>1, <3>1, <3>2
            DEF Attended, Finalized, ImageRefusal, NeverAbandoned, DenyPath
  <2>3. CASE pass' = [Flawed EXCEPT !.pc = "denyStatus"]
    <3>1. /\ pass'.pc = "denyStatus" /\ pass'.why = pass.why /\ ~pass'.clean
          /\ pass'.latest = pass.latest
      BY <1>0, <2>3, CauseFacts
    <3> QED BY <1>0, <2>1, <3>1
            DEF Attended, Finalized, ImageRefusal, NeverAbandoned, DenyPath
  <2> QED BY <1>4, <2>2, <2>3 DEF DenyScale
<1>5. CASE DenyStatus
  <2>1. UNCHANGED <<dep, ing>> /\ pass.pc = "denyStatus" /\ pass'.pc = "idle" /\ pass'.why = "none"
    BY <1>0, <1>5, CauseFacts DEF DenyStatus, End, objects
  <2>2. CASE UNCHANGED inst /\ End(TRUE)
    BY <1>0, <2>1, <2>2, Queues DEF End, Finalized
  <2>3. CASE /\ inst.phase # "gone" /\ End(Retried)
             /\ inst' = [BlankStatus EXCEPT !.slugSet = @ /\ pass.why # "hostUnmapped"]
    <3>1. /\ inst'.phase = inst.phase /\ inst'.finalizer = inst.finalizer /\ inst'.imageOk = inst.imageOk
          /\ inst'.status = "blank" /\ inst'.observed = pass.latest
      BY <1>0, <2>3 DEF BlankStatus, Instances
    <3>2. Finalized'
      BY <1>0, <3>1 DEF Finalized
    <3>3. CASE Retried
      BY <2>1, <2>3, <3>2, <3>3, Queues DEF End
    <3>4. CASE ~Retried
      <4>1. pass.why = "image" /\ pass.clean
        BY <1>0, <3>4 DEF Retried, Passes
      <4>2. queued' = queued
        BY <2>3, <3>4 DEF IInv, TypeOK, End, Retried
      <4> QED BY <1>0, <2>1, <2>3, <3>1, <3>2, <4>1, <4>2
              DEF Attended, ImageRefusal, NeverAbandoned, Stopped
    <3> QED BY <3>3, <3>4
  <2> QED BY <1>5, <2>2, <2>3, Zenon DEF DenyStatus
<1> QED BY <1>2, <1>3, <1>4, <1>5

\* A failed call spoils the refusal it belongs to, and it is looked at again.
LEMMA FailureAttended ==
    ASSUME TypeOK, Attended, ApiError \/ Crash
    PROVE  Attended'
<1> USE DEF At
<1>0. /\ pass \in Passes /\ Finalized /\ ImageRefusal
      /\ UNCHANGED <<inst, dep, ing>> /\ Finalized' /\ pass.pc # "idle"
  BY DEF TypeOK, Attended, ApiError, Crash, objects, Finalized
<1>1. CASE Crash
  BY <1>0, <1>1, CauseFacts, Queues DEF Crash
<1>2. CASE ApiError
  <2>1. \/ End(TRUE)
        \/ \E c \in {"unverified", "hostUnknown", "access"} : Deny(c)
        \/ SlugLost
        \/ Proceed("pending") /\ pass.pc = "probe"
        \/ /\ \/ pass' = [Flawed EXCEPT !.pc = AfterWithdrawal] /\ pass.pc \in {"denyRoute", "denyDelete"}
              \/ pass' = [Flawed EXCEPT !.pc = "denyStatus"] /\ pass.pc \in {"denyStop", "denyScale"}
           /\ UNCHANGED queued
    BY <1>2 DEF ApiError, OnError
  <2>2. CASE End(TRUE)
    BY <1>0, <2>2, CauseFacts, Queues DEF End
  <2>3. CASE \E c \in {"unverified", "hostUnknown", "access"} : Deny(c)
    BY <1>0, <2>3, CauseFacts, GoesOn
  <2>4. CASE SlugLost
    BY <1>0, <2>4, GoesOn DEF SlugLost, Passes
  <2>5. CASE Proceed("pending") /\ pass.pc = "probe"
    BY <1>0, <2>5, CauseFacts, GoesOn DEF ImageRefusal, DenyPath
  <2>6. CASE \E p \in {"denyStop", "denyStatus"} :
                pass' = [Flawed EXCEPT !.pc = p] /\ pass.pc \in DenyPath /\ UNCHANGED queued
    <3>1. /\ pass'.pc \in {"denyStop", "denyStatus"} /\ pass'.why = pass.why /\ ~pass'.clean
          /\ pass'.latest = pass.latest
      BY <1>0, <2>6, CauseFacts
    <3> QED BY <1>0, <2>6, <3>1
            DEF Attended, Finalized, ImageRefusal, NeverAbandoned, DenyPath
  <2> QED BY <2>1, <2>2, <2>3, <2>4, <2>5, <2>6 DEF AfterWithdrawal, DenyPath
<1> QED BY <1>1, <1>2

\* Whoever changes what a refusal relies on wakes the watch.
LEMMA OutsideAttended ==
    ASSUME TypeOK, Attended, ClusterStep \/ SpecWrite \/ UserDelete \/ OperatorChange \/ PolicyChange
                             \/ IngressChange \/ DeploymentChange \/ ExternalScale
    PROVE  Attended'
<1> USE DEF At
<1>0. pass \in Passes /\ inst \in Instances /\ Finalized /\ ImageRefusal
  BY DEF TypeOK, Attended
<1>1. CASE PodStep \/ OperatorChange
  <2>1. UNCHANGED <<inst, dep, ing, pass, queued>>
    BY <1>1, Zenon DEF PodStep, PodCreate, PodReady, PodTerminate, PodGone, OperatorChange, objects
  <2> QED BY <2>1 DEF Attended, Finalized, ImageRefusal, NeverAbandoned, Stopped
<1>2. CASE Collect
  <2>1. inst.phase = "gone" /\ UNCHANGED <<inst, queued>>
        /\ pass' = [pass EXCEPT !.depSame = FALSE, !.ingSame = FALSE]
    BY <1>2 DEF Collect
  <2>2. pass'.pc = pass.pc /\ pass'.why = pass.why
    BY <1>0, <2>1 DEF Passes
  <2> QED BY <1>0, <2>1, <2>2 DEF Attended, Finalized, ImageRefusal, NeverAbandoned
<1>3. CASE DCSync \/ CacheSync \/ IngressChange \/ DeploymentChange \/ ExternalScale
  <2>1. /\ UNCHANGED inst
        /\ pass'.pc = pass.pc /\ pass'.why = pass.why
        /\ pass'.clean = pass.clean /\ pass'.latest = pass.latest
    BY <1>0, <1>3 DEF DCSync, CacheSync, IngressChange, DeploymentChange, ExternalScale,
                DeploymentTouched, IngressTouched, Passes
  <2>2. CASE queued'
    BY <1>0, <2>1, <2>2, Queues DEF Finalized, ImageRefusal
  <2>3. CASE ~queued'
    <3>1. CASE DCSync \/ CacheSync \/ ExternalScale
      BY <2>3, <3>1 DEF DCSync, CacheSync, ExternalScale, DeploymentTouched, Wakes
    <3>2. CASE IngressChange
      <4>1. ~queued /\ ing # "ours" /\ ing' # "ours" /\ UNCHANGED dep
        BY <2>3, <3>2 DEF IngressChange, IngressTouched, Wakes
      <4> QED BY <1>0, <2>1, <4>1 DEF Attended, Finalized, ImageRefusal, NeverAbandoned, Stopped
    <3>3. CASE DeploymentChange
      <4>1. ~queued /\ dep'.owner # "ours" /\ UNCHANGED ing
        <5>1. ~queued /\ UNCHANGED ing
          BY <2>3, <3>3, Zenon DEF DeploymentChange, DeploymentTouched, Wakes
        <5>2. CASE DropDeployment
          BY <5>1, <5>2 DEF DropDeployment, NoDeployment
        <5>3. CASE dep' = [NoDeployment EXCEPT !.owner = "foreign", !.tmpl = Legacy]
          BY <5>1, <5>3 DEF NoDeployment
        <5> QED BY <3>3, <5>2, <5>3, Zenon DEF DeploymentChange
      <4> QED BY <1>0, <2>1, <4>1 DEF Attended, Finalized, ImageRefusal, NeverAbandoned, Stopped
    <3> QED BY <1>3, <3>1, <3>2, <3>3
  <2> QED BY <2>2, <2>3
<1>4. CASE SpecWrite \/ UserDelete
  <2>1. queued' /\ Finalized'
    BY <1>0, <1>4 DEF SpecWrite, UserDelete, Finalized, Instances
  <2>2. pass'.pc = pass.pc /\ pass'.why = pass.why
    BY <1>0, <1>4 DEF SpecWrite, UserDelete, Passes
  <2> QED BY <1>0, <2>1, <2>2, Queues DEF ImageRefusal
<1>5. CASE PolicyChange
  <2>1. Finalized'
    BY <1>0, <1>5 DEF PolicyChange, Finalized, Instances
  <2> QED BY <1>0, <1>5, <2>1, CauseFacts, Queues DEF PolicyChange
<1> QED BY <1>1, <1>2, <1>3, <1>4, <1>5 DEF ClusterStep

\* An instance no pass and no timer looks after was refused in full
\* (NeverAbandoned): its route, its workload and its status.
THEOREM NoneAbandoned == Spec => []NeverAbandoned
<1>1. Init => Attended
  <2> SUFFICES ASSUME Init PROVE Attended
    OBVIOUS
  <2>1. queued /\ pass = Idle /\ inst.phase = "live"
    BY DEF Init
  <2> QED BY <2>1 DEF Idle, Attended, Finalized, ImageRefusal, NeverAbandoned
<1>2. IInv /\ Attended /\ [Next]_vars => Attended'
  <2> SUFFICES ASSUME IInv, TypeOK, Attended, [Next]_vars PROVE Attended'
    BY DEF IInv
  <2>1. CASE UNCHANGED vars
    BY <2>1 DEF vars, Attended, Finalized, ImageRefusal, NeverAbandoned, Stopped, At
  <2> QED BY <2>1, SelectAttended, ServeAttended, BeginAttended, DenyAttended, FailureAttended,
             OutsideAttended, Zenon DEF Next, PassStep, Disturbance
<1>3. Attended => NeverAbandoned
  BY DEF Attended
<1> QED BY <1>1, <1>2, <1>3, Invariance, PTL DEF Spec

----------------------------------------------------------------------------
\* Reconciler implements WorkloadRollout.

\* Pods that are kept have the template of our Deployment, which has one.
LEMMA WorkersOwned ==
    /\ IInv => Workers \subseteq {Owned} /\ (Owned = None => Workers = {})
    /\ IInv' => Workers' \subseteq {Owned'} /\ (Owned' = None => Workers' = {})
BY DEF IInv, TypeOK, Logic, NoMixedWorkload, Workers, Owned, ActivePods, Active

\* The steps that write the Ingress, and those that write the pods
LEMMA RouteWriters ==
    ASSUME Next
    PROVE  UNCHANGED ing \/ RouteCreate \/ CutDelete \/ DenyDelete \/ Collect \/ IngressChange
BY Zenon
   DEF Next, PassStep, ClusterStep, PodStep, Disturbance, objects, Begin, Unfinalize, Check,
   CheckScale, Slug, Host, Access, PinRead, Finalizer, Creds, Deploy, Create, CutRoute, CutScale,
   CutPods, Install, Scale, Service, Route, RouteUpdate, Cached, Probe, Pending, Report,
   WriteStatus, DenyRoute, DenyStop, DenyScale, DenyStatus, ApiError, Crash, DCSync, PodCreate,
   PodReady, PodTerminate, PodGone, CacheSync, SpecWrite, UserDelete, OperatorChange,
   PolicyChange, DeploymentChange, ExternalScale

LEMMA PodWriters ==
    ASSUME Next
    PROVE  UNCHANGED pods \/ (PodStep /\ UNCHANGED <<dep, ing>>) \/ Collect \/ DeploymentChange
BY Zenon
   DEF Next, PassStep, ClusterStep, PodStep, Disturbance, objects, Begin, Unfinalize, Check,
   CheckScale, Slug, Host, Access, PinRead, Finalizer, Creds, Deploy, Create, CutRoute, CutScale,
   CutDelete, CutPods, Install, Scale, Service, Route, RouteCreate, RouteUpdate, Cached, Probe,
   Pending, Report, WriteStatus, DenyRoute, DenyDelete, DenyStop, DenyScale, DenyStatus, ApiError,
   Crash, DCSync, PodCreate, PodReady, PodTerminate, PodGone, CacheSync, SpecWrite, UserDelete,
   OperatorChange, PolicyChange, IngressChange, ExternalScale

\* A Deployment that disappears takes its pods with it.
LEMMA DropSim ==
    ASSUME IInv, DropDeployment, ing' = ing \/ ing' # "ours"
    PROVE  Rollout!Lose
<1>1. Owned' = None
  BY DEF DropDeployment, NoDeployment, Owned
<1>2. Workers' = {}
  <2>1. ASSUME NEW s \in Slots PROVE pods'[s].state \notin {"starting", "ready"}
    BY DEF DropDeployment, Orphaned, Active, IInv, TypeOK
  <2> QED BY <2>1 DEF Workers, ActivePods, Active
<1> QED BY <1>1, <1>2 DEF Rollout!Lose

\* Every step is a step of the rollout, or nothing of it changes.
LEMMA RolloutStep == IInv /\ IInv' /\ [Next]_vars => [Rollout!Next]_(Rollout!vars)
<1> SUFFICES ASSUME IInv, IInv', [Next]_vars PROVE Rollout!Next \/ UNCHANGED Rollout!vars
  OBVIOUS
<1> USE DEF Rollout!Next
<1>0. /\ Workers \subseteq {Owned} /\ (Owned = None => Workers = {})
      /\ Workers' \subseteq {Owned'} /\ (Owned' = None => Workers' = {})
      /\ dep \in Deployments /\ pass \in Passes /\ Logic
  BY WorkersOwned, Zenon DEF IInv, TypeOK
<1>1. (UNCHANGED pods => UNCHANGED Workers) /\ (UNCHANGED dep => UNCHANGED Owned)
  BY DEF Workers, ActivePods, Active, Owned
<1>2. CASE UNCHANGED vars
  BY <1>1, <1>2 DEF vars, Rollout!vars
<1>3. CASE Collect \/ DeploymentChange
  <2>1. CASE DropDeployment
    BY <1>3, <2>1, DropSim DEF Collect, DeploymentChange
  <2>2. CASE UNCHANGED pods /\ dep.owner # "ours" /\ dep'.owner # "ours"
    BY <1>1, <1>3, <2>2
       DEF Collect, DeploymentChange, Owned, Rollout!vars, Rollout!Conceal
  <2> QED BY <1>3, <2>1, <2>2 DEF Collect, DeploymentChange, NoDeployment
<1>4. CASE PodStep /\ UNCHANGED <<dep, ing>>
  BY <1>0, <1>1, <1>4 DEF Rollout!Run, Rollout!vars
<1>5. CASE Create \/ Install
  <2>1. pass.tmpl \in Revs /\ UNCHANGED <<pods, ing>>
    BY <1>0, <1>5 DEF Create, Install, Logic, Revision, Building, At
  <2>2. CASE UNCHANGED dep
    BY <1>1, <2>1, <2>2 DEF Rollout!vars
  <2>3. CASE Create /\ dep.owner = "none"
    BY <1>0, <1>1, <2>1, <2>3 DEF Create, Owned, Rollout!Install
  <2>4. CASE Install /\ pass.depSame
    <3>1. Workers = {} /\ ing # "ours" /\ dep.owner = "ours"
      BY <1>0, <2>4 DEF Install, Logic, Cut, Held, At, NoPods, Workers, ActivePods, Active
    <3>2. Owned' = pass.tmpl
      BY <1>0, <2>4, <3>1 DEF Install, Owned, Deployments
    <3> QED BY <1>1, <2>1, <3>1, <3>2 DEF Rollout!Install
  <2> QED BY <1>5, <2>2, <2>3, <2>4 DEF Create, Install
<1>6. CASE DCSync \/ ExternalScale \/ CheckScale \/ CutScale \/ Scale \/ DenyScale
  <2>1. UNCHANGED <<pods, ing>>
    BY <1>6 DEF DCSync, ExternalScale, CheckScale, CutScale, Scale, DenyScale
  <2>2. ASSUME NEW n, ScaleTo(n) PROVE UNCHANGED Owned
    BY <1>0, <2>2 DEF ScaleTo, Deployments, Owned
  <2>3. ASSUME dep' = [dep EXCEPT !.seen = TRUE, !.status = Cardinality(ActivePods)]
        PROVE  UNCHANGED Owned
    BY <1>0, <2>3 DEF Deployments, Owned
  <2>4. UNCHANGED Owned
    BY <1>1, <1>6, <2>2, <2>3 DEF DCSync, ExternalScale, CheckScale, CutScale, Scale, DenyScale
  <2> QED BY <1>1, <2>1, <2>4 DEF Rollout!vars
<1>7. CASE RouteCreate \/ CutDelete \/ DenyDelete \/ IngressChange
  <2>1. UNCHANGED <<dep, pods>>
    BY <1>7 DEF RouteCreate, CutDelete, DenyDelete, IngressChange
  <2>2. CASE ing' = ing \/ (ing # "ours" /\ ing' # "ours")
    BY <1>1, <2>1, <2>2 DEF Rollout!vars
  <2>3. CASE RouteCreate /\ ing = "none" /\ ing' = "ours"
    <3>1. Owned \in Revs \cup {None}
      BY <1>0, <2>3 DEF RouteCreate, At, Logic, Revision, Applied, Building, Owned
    <3> QED BY <1>1, <2>1, <2>3, <3>1 DEF Rollout!Expose
  <2>4. CASE ing' # "ours"
    BY <1>1, <2>1, <2>4 DEF Rollout!Conceal
  <2> QED BY <1>7, <2>2, <2>3, <2>4 DEF RouteCreate, CutDelete, DenyDelete, IngressChange
<1>8. CASE UNCHANGED <<dep, pods, ing>>
  BY <1>1, <1>8 DEF Rollout!vars
<1> QED BY <1>2, <1>3, <1>4, <1>5, <1>6, <1>7, <1>8, DeploymentWriters, RouteWriters, PodWriters

\* What Reconcile and everyone who interferes show of an instance is a behaviour
\* of WorkloadRollout (ImplementsRollout).
THEOREM RolloutImplemented == Spec => ImplementsRollout
<1>1. Init => Rollout!Init
  <2> SUFFICES ASSUME Init PROVE Workers = {} \/ (Workers = {Owned} /\ Owned # None)
    BY DEF Rollout!Init
  <2>1. CASE pods = [s \in Slots |-> Empty]
    BY <2>1 DEF Workers, ActivePods, Active, Empty
  <2>2. ASSUME NEW t \in {Legacy, Unapproved}, NEW up \in Slots,
               dep = [owner |-> "ours", tmpl |-> t, replicas |-> 1, seen |-> TRUE, status |-> 1],
               pods = [[s \in Slots |-> Empty] EXCEPT ![up] = [tmpl |-> t, state |-> "ready"]]
        PROVE  Workers = {Owned} /\ Owned # None
    BY <2>2, TemplatesAssumption DEF Workers, ActivePods, Active, Empty, Owned
  <2> QED BY <2>1, <2>2 DEF Init
<1> QED
  BY <1>1, RolloutStep, Invariance, PTL DEF Spec, ImplementsRollout, Rollout!Spec
=============================================================================
