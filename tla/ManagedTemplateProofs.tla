----------------------- MODULE ManagedTemplateProofs -----------------------
(***************************************************************************)
(* For anything wanted, any sizes and any number of writes of others: what *)
(* a pass accepts is exactly managed, what others decide is kept, and only *)
(* a change of what is managed stops the workload.  The argument is that a *)
(* template is a fixed point of managedAccessTemplate if and only if it is *)
(* exact, and that the API server's defaults keep it exact.                *)
(***************************************************************************)
EXTENDS ManagedTemplate, TLAPS

USE DEF Managed, Names, Selector, OwnLabels, LabelKeys

\* What applyAccessDeployment builds, part by part
LEMMA DesiredParts ==
    ASSUME NEW w \in Wanted
    PROVE  /\ Desired(w).rev = w /\ Desired(w).volumes = w /\ Desired(w).guarded = TRUE
           /\ Desired(w).labels = OwnLabels /\ Desired(w).inits = FALSE
           /\ Desired(w).containers = [n \in Names |-> IF n \in Managed
                THEN [exec |-> w, pull |-> "IfNotPresent", filled |-> "default", size |-> Unsized]
                ELSE None]
           /\ Desired(w) \in Templates
<1> DEFINE c == [exec |-> w, pull |-> "unset", filled |-> "unset", size |-> Unsized]
           d == [exec |-> w, pull |-> "IfNotPresent", filled |-> "default", size |-> Unsized]
<1>1. c \in Containers /\ d \in Containers /\ c # None /\ d # None
  BY NoneAssumption DEF Containers
<1>2. c.exec = w /\ c.size = Unsized
  OBVIOUS
<1> HIDE DEF c
<1>3. Raw(w).containers = [n \in Names |-> IF n \in Managed THEN c ELSE None]
  BY DEF Raw, c
<1>4. Normal(Raw(w), Raw(w)) = [n \in Names |-> IF n \in Managed THEN d ELSE None]
  BY <1>1, <1>2, <1>3 DEF Normal
<1>5. /\ Desired(w).rev = w /\ Desired(w).volumes = w /\ Desired(w).guarded = TRUE
      /\ Desired(w).labels = OwnLabels /\ Desired(w).inits = FALSE
      /\ Desired(w).containers = Normal(Raw(w), Raw(w))
      /\ Desired(w) \in [rev : {w}, note : {FALSE}, labels : {OwnLabels},
                         containers : {Normal(Raw(w), Raw(w))}, inits : {FALSE}, volumes : {w},
                         mode : {"default"}, guarded : {TRUE}, rest : {"unset"}]
  BY DEF Desired, Merged, Raw
<1>6. Normal(Raw(w), Raw(w)) \in [Names -> Containers \cup {None}]
  BY <1>1, <1>4
<1>7. Desired(w) \in Templates
  BY <1>5, <1>6 DEF Templates
<1> QED BY <1>4, <1>5, <1>7 DEF d

\* The containers a pass installs: executed as wanted, sized as they were
LEMMA NormalParts ==
    ASSUME NEW t \in Templates, NEW w \in Wanted
    PROVE  LET c == Normal(t, Desired(w)) IN
           /\ c \in [Names -> Containers \cup {None}]
           /\ c["injected"] = None
           /\ \A n \in Managed :
                 /\ c[n] \in Containers /\ c[n] # None
                 /\ c[n].exec = w /\ c[n].pull = "IfNotPresent" /\ c[n].filled = "default"
                 /\ c[n].size = SizeIn(t, n)
<1> DEFINE c == Normal(t, Desired(w))
           d == [exec |-> w, pull |-> "IfNotPresent", filled |-> "default", size |-> Unsized]
<1>1. d \in Containers /\ d # None
  BY NoneAssumption DEF Containers
<1>2. \A n \in Names : /\ n \in Managed => Desired(w).containers[n] = d
                       /\ n \notin Managed => Desired(w).containers[n] = None
  <2>1. Desired(w).containers = [n \in Names |-> IF n \in Managed THEN d ELSE None]
    BY DesiredParts
  <2> HIDE DEF d
  <2> QED BY <2>1
<1>3. c["injected"] = None
  BY <1>2 DEF Normal
<1>4. ASSUME NEW n \in Managed
      PROVE  /\ c[n] \in Containers
             /\ c[n].exec = w /\ c[n].pull = "IfNotPresent" /\ c[n].filled = "default"
             /\ c[n].size = SizeIn(t, n)
  <2>1. d.exec = w /\ d.size = Unsized
    OBVIOUS
  <2>2. c[n] = [exec |-> w, pull |-> "IfNotPresent", filled |-> "default", size |-> SizeIn(t, n)]
    <3> HIDE DEF d
    <3> QED BY <1>1, <1>2, <2>1 DEF Normal, SizeIn
  <2>3. SizeIn(t, n) \in Sizes \cup {Unsized}
    BY DEF SizeIn, Templates, Containers
  <2> QED BY <2>2, <2>3 DEF Containers
<1>5. c \in [Names -> Containers \cup {None}]
  <2>1. c = [n \in Names |-> c[n]]
    BY DEF Normal
  <2> HIDE DEF c
  <2> QED BY <1>3, <1>4, <2>1
<1>6. \A n \in Managed : c[n] # None
  <2> HIDE DEF c
  <2> QED BY <1>4, NoneAssumption
<1> HIDE DEF c
<1> QED BY <1>3, <1>4, <1>5, <1>6 DEF c

\* The parts of a merged template: the desired ones, or the stored ones.
LEMMA MergedParts ==
    ASSUME NEW t \in Templates, NEW w \in Wanted
    PROVE  Merged(t, Desired(w)) =
             [rev |-> w, note |-> t.note, labels |-> t.labels \cup OwnLabels,
              containers |-> Normal(t, Desired(w)), inits |-> FALSE, volumes |-> w,
              mode |-> "default", guarded |-> TRUE, rest |-> t.rest]
BY DesiredParts DEF Merged

\* managedAccessTemplate, whatever it is applied to, yields an exact template
\* and keeps what others decide.
LEMMA MergedExact ==
    ASSUME NEW t \in Templates, NEW w \in Wanted
    PROVE  LET m == Merged(t, Desired(w)) IN
           /\ m \in Templates /\ Exact(m, w)
           /\ m.rest = t.rest /\ m.note = t.note /\ t.labels \subseteq m.labels
           /\ \A n \in Managed : t.containers[n] # None => SizeIn(m, n) = SizeIn(t, n)
<1> DEFINE m == Merged(t, Desired(w))
           c == Normal(t, Desired(w))
<1>1. /\ m = [rev |-> w, note |-> t.note, labels |-> t.labels \cup OwnLabels, containers |-> c,
              inits |-> FALSE, volumes |-> w, mode |-> "default", guarded |-> TRUE,
              rest |-> t.rest]
  BY MergedParts
<1>2. /\ c \in [Names -> Containers \cup {None}] /\ c["injected"] = None
      /\ \A n \in Managed :
            /\ c[n] # None /\ c[n].size = SizeIn(t, n)
            /\ c[n].exec = w /\ c[n].pull = "IfNotPresent" /\ c[n].filled = "default"
  BY NormalParts
<1> HIDE DEF m, c
<1>3. m \in Templates
  BY <1>1, <1>2 DEF Templates
<1>4. Exact(m, w)
  BY <1>1, <1>2 DEF Exact
<1>5. \A n \in Managed : SizeIn(m, n) = SizeIn(t, n)
  BY <1>1, <1>2 DEF SizeIn
<1>6. m.rest = t.rest /\ m.note = t.note /\ t.labels \subseteq m.labels
  BY <1>1
<1> QED BY <1>3, <1>4, <1>5, <1>6 DEF m

\* An exact template is one the comparison finds nothing to change in.
LEMMA ExactFixed ==
    ASSUME NEW t \in Templates, NEW w \in Wanted, Exact(t, w)
    PROVE  Merged(t, Desired(w)) = t
<1> DEFINE c == Normal(t, Desired(w))
<1>1. /\ c \in [Names -> Containers \cup {None}] /\ c["injected"] = None
      /\ \A n \in Managed :
            /\ c[n] \in Containers /\ c[n].size = SizeIn(t, n)
            /\ c[n].exec = w /\ c[n].pull = "IfNotPresent" /\ c[n].filled = "default"
  BY NormalParts
<1>2. Merged(t, Desired(w)) =
        [rev |-> w, note |-> t.note, labels |-> t.labels \cup OwnLabels, containers |-> c,
         inits |-> FALSE, volumes |-> w, mode |-> "default", guarded |-> TRUE, rest |-> t.rest]
  BY MergedParts
<1> HIDE DEF c
<1>3. ASSUME NEW n \in Managed PROVE c[n] = t.containers[n]
  <2>1. t.containers[n] \in Containers /\ t.containers[n] # None
    BY DEF Exact, Templates
  <2>2. /\ t.containers[n].exec = c[n].exec /\ t.containers[n].pull = c[n].pull
        /\ t.containers[n].filled = c[n].filled /\ t.containers[n].size = c[n].size
    BY <1>1, <2>1 DEF Exact, SizeIn
  <2> QED BY <1>1, <2>1, <2>2 DEF Containers
<1>4. c = t.containers
  BY <1>1, <1>3 DEF Exact, Templates
<1> QED BY <1>2, <1>4 DEF Exact, Templates

\* The API server's defaults leave a template as exact as it is, and what it
\* has stored as it is.
LEMMA StoredExact ==
    ASSUME NEW t \in Templates, NEW w \in Wanted, Exact(t, w)
    PROVE  /\ Stored(t) \in Templates /\ Exact(Stored(t), w)
           /\ Stored(t).rest # "unset" /\ (t.rest # "unset" => Stored(t).rest = t.rest)
           /\ Stored(t).note = t.note /\ Stored(t).labels = t.labels
           /\ \A n \in Managed : SizeIn(Stored(t), n) = SizeIn(t, n)
<1> DEFINE s == Stored(t)
           c == [n \in Names |-> IF t.containers[n] = None THEN None
                                 ELSE FilledIn(t.containers[n])]
<1>1. s = [rev |-> t.rev, note |-> t.note, labels |-> t.labels, containers |-> c,
           inits |-> t.inits, volumes |-> t.volumes, mode |-> Filled(t.mode),
           guarded |-> t.guarded, rest |-> Filled(t.rest)]
  BY DEF Stored
<1>2. ASSUME NEW n \in Managed
      PROVE  /\ c[n] \in Containers /\ c[n] # None /\ c[n].size = t.containers[n].size
             /\ c[n].exec = w /\ c[n].pull = "IfNotPresent" /\ c[n].filled = "default"
  <2>1. t.containers[n] \in Containers /\ t.containers[n] # None
    BY DEF Exact, Templates
  <2>2. /\ t.containers[n].exec = w /\ t.containers[n].pull = "IfNotPresent"
        /\ t.containers[n].filled = "default"
    BY DEF Exact
  <2>3. c[n] = [exec |-> w, pull |-> "IfNotPresent", filled |-> "default",
                size |-> t.containers[n].size]
    BY <2>1, <2>2 DEF FilledIn, Filled
  <2> HIDE DEF c
  <2>4. /\ c[n] \in Containers /\ c[n].size = t.containers[n].size
        /\ c[n].exec = w /\ c[n].pull = "IfNotPresent" /\ c[n].filled = "default"
    BY <2>1, <2>2, <2>3 DEF Containers
  <2> QED BY <2>4, NoneAssumption
<1>3. c["injected"] = None
  BY DEF Exact
<1>4. c \in [Names -> Containers \cup {None}]
  <2>1. c = [n \in Names |-> c[n]]
    OBVIOUS
  <2> HIDE DEF c
  <2> QED BY <1>2, <1>3, <2>1
<1> HIDE DEF c, s
<1>5. s \in Templates
  BY <1>1, <1>4 DEF Templates, Filled
<1>6. Exact(s, w)
  BY <1>1, <1>2, <1>3 DEF Exact, Filled
<1>7. \A n \in Managed : SizeIn(s, n) = SizeIn(t, n)
  BY <1>1, <1>2 DEF SizeIn, Exact
<1>8. /\ s.rest # "unset" /\ (t.rest # "unset" => s.rest = t.rest)
      /\ s.note = t.note /\ s.labels = t.labels
  BY <1>1 DEF Filled
<1> QED BY <1>5, <1>6, <1>7, <1>8 DEF s

\* Replacing a container leaves the rest of a template alone.
LEMMA ReplacedParts ==
    ASSUME NEW t \in Templates, NEW n \in Names, NEW c \in Containers \cup {None}
    PROVE  LET u == Replaced(t, n, c) IN
           /\ u \in Templates
           /\ u.rev = t.rev /\ u.labels = t.labels /\ u.inits = t.inits /\ u.volumes = t.volumes
           /\ u.mode = t.mode /\ u.guarded = t.guarded /\ u.rest = t.rest
           /\ u.containers = [t.containers EXCEPT ![n] = c]
<1>1. [t.containers EXCEPT ![n] = c] \in [Names -> Containers \cup {None}]
  BY DEF Templates
<1> QED BY <1>1 DEF Replaced, Templates

\* What others may write: a template, with the labels of the selector.
LEMMA TamperedParts ==
    ASSUME NEW t \in Templates, NEW u \in Tampered(t), Selector \subseteq t.labels
    PROVE  u \in Templates /\ Selector \subseteq u.labels /\ u.rest = t.rest
<1>1. CASE u \in {[t EXCEPT !.rev = Foreign], [t EXCEPT !.labels = @ \ {"instance-uid"}],
                  [t EXCEPT !.inits = TRUE], [t EXCEPT !.volumes = Foreign],
                  [t EXCEPT !.mode = "else"], [t EXCEPT !.guarded = FALSE]}
  <2>1. CASE u = [t EXCEPT !.labels = t.labels \ {"instance-uid"}]
    BY <2>1 DEF Templates
  <2>2. CASE u = [t EXCEPT !.rev = Foreign] \/ u = [t EXCEPT !.volumes = Foreign]
    BY <2>2 DEF Templates
  <2>3. CASE u = [t EXCEPT !.inits = TRUE] \/ u = [t EXCEPT !.guarded = FALSE]
    <3>1. CASE u = [t EXCEPT !.inits = TRUE]
      BY <3>1 DEF Templates
    <3>2. CASE u = [t EXCEPT !.guarded = FALSE]
      BY <3>2 DEF Templates
    <3> QED BY <2>3, <3>1, <3>2
  <2>4. CASE u = [t EXCEPT !.mode = "else"]
    BY <2>4 DEF Templates
  <2> QED BY <1>1, <2>1, <2>2, <2>3, <2>4
<1>2. ASSUME NEW n \in Names, NEW c \in Containers \cup {None}, u = Replaced(t, n, c)
      PROVE  u \in Templates /\ Selector \subseteq u.labels /\ u.rest = t.rest
  <2>1. u \in Templates /\ u.labels = t.labels /\ u.rest = t.rest
    BY <1>2, ReplacedParts
  <2> QED BY <2>1
<1>3. CASE u = Replaced(t, "injected", [exec |-> Foreign, pull |-> "Always",
                                        filled |-> "default", size |-> Unsized])
  <2>1. [exec |-> Foreign, pull |-> "Always", filled |-> "default", size |-> Unsized] \in Containers
    BY DEF Containers
  <2> QED BY <1>2, <1>3, <2>1
<1>4. CASE \E n \in Managed : u = Replaced(t, n, None)
  BY <1>2, <1>4
<1>5. CASE \E n \in {m \in Managed : t.containers[m] # None} :
              u \in {Replaced(t, n, [t.containers[n] EXCEPT !.exec = Foreign]),
                     Replaced(t, n, [t.containers[n] EXCEPT !.pull = "Always"]),
                     Replaced(t, n, [t.containers[n] EXCEPT !.filled = "else"])}
  <2> PICK n \in {m \in Managed : t.containers[m] # None} :
              u \in {Replaced(t, n, [t.containers[n] EXCEPT !.exec = Foreign]),
                     Replaced(t, n, [t.containers[n] EXCEPT !.pull = "Always"]),
                     Replaced(t, n, [t.containers[n] EXCEPT !.filled = "else"])}
    BY <1>5
  <2>1. t.containers[n] \in Containers
    BY DEF Templates
  <2>2. /\ [t.containers[n] EXCEPT !.exec = Foreign] \in Containers
        /\ [t.containers[n] EXCEPT !.pull = "Always"] \in Containers
        /\ [t.containers[n] EXCEPT !.filled = "else"] \in Containers
    BY <2>1 DEF Containers
  <2> QED BY <1>2, <2>2
<1> QED BY <1>1, <1>3, <1>4, <1>5 DEF Tampered

\* What is left to others does not make a template less exact.
LEMMA ResizedParts ==
    ASSUME NEW t \in Templates, NEW u \in Resized(t), t.rest # "unset"
    PROVE  /\ u \in Templates /\ t.labels \subseteq u.labels /\ u.rest # "unset"
           /\ \A w \in Wanted : Exact(t, w) => Exact(u, w)
<1>1. CASE u \in {[t EXCEPT !.note = TRUE], [t EXCEPT !.labels = @ \cup {"other"}],
                  [t EXCEPT !.rest = "else"]}
  <2>1. /\ u \in Templates /\ t.labels \subseteq u.labels /\ u.rest # "unset"
        /\ u.rev = t.rev /\ u.inits = t.inits /\ u.volumes = t.volumes
        /\ u.mode = t.mode /\ u.guarded = t.guarded /\ u.containers = t.containers
    <3>1. CASE u = [t EXCEPT !.note = TRUE]
      BY <3>1 DEF Templates
    <3>2. CASE u = [t EXCEPT !.labels = t.labels \cup {"other"}]
      BY <3>2 DEF Templates
    <3>3. CASE u = [t EXCEPT !.rest = "else"]
      BY <3>3 DEF Templates
    <3> QED BY <1>1, <3>1, <3>2, <3>3
  <2> QED BY <2>1 DEF Exact
<1>2. CASE \E n \in {m \in Names : t.containers[m] # None}, s \in Sizes :
              u = Replaced(t, n, [t.containers[n] EXCEPT !.size = s])
  <2> PICK n \in {m \in Names : t.containers[m] # None}, s \in Sizes :
              u = Replaced(t, n, [t.containers[n] EXCEPT !.size = s])
    BY <1>2
  <2> DEFINE c == [t.containers[n] EXCEPT !.size = s]
  <2>1. t.containers[n] \in Containers
    BY DEF Templates
  <2>2. /\ c \in Containers /\ c.exec = t.containers[n].exec
        /\ c.pull = t.containers[n].pull /\ c.filled = t.containers[n].filled
    BY <2>1 DEF Containers
  <2>3. c # None
    BY <2>2, NoneAssumption
  <2> HIDE DEF c
  <2>4. /\ u \in Templates /\ u.labels = t.labels /\ u.rest = t.rest
        /\ u.rev = t.rev /\ u.inits = t.inits /\ u.volumes = t.volumes
        /\ u.mode = t.mode /\ u.guarded = t.guarded
        /\ u.containers = [t.containers EXCEPT ![n] = c]
    BY <2>2, ReplacedParts DEF c
  <2>5. ASSUME NEW w \in Wanted, Exact(t, w) PROVE Exact(u, w)
    <3>1. \A m \in Names : u.containers[m] = IF m = n THEN c ELSE t.containers[m]
      BY <2>4 DEF Templates
    <3>2. t.containers["injected"] = None
      BY <2>5 DEF Exact
    <3>3. u.containers["injected"] = None
      BY <3>1, <3>2
    <3>4. \A m \in Managed :
             /\ u.containers[m] # None /\ u.containers[m].exec = w
             /\ u.containers[m].pull = "IfNotPresent" /\ u.containers[m].filled = "default"
      BY <2>2, <2>3, <2>5, <3>1 DEF Exact
    <3> QED BY <2>4, <2>5, <3>3, <3>4 DEF Exact
  <2> QED BY <2>4, <2>5
<1>3. \/ u \in {[t EXCEPT !.note = TRUE], [t EXCEPT !.labels = @ \cup {"other"}],
                 [t EXCEPT !.rest = "else"]}
      \/ \E n \in {m \in Names : t.containers[m] # None}, s \in Sizes :
              u = Replaced(t, n, [t.containers[n] EXCEPT !.size = s])
  BY DEF Resized
<1> QED BY <1>1, <1>2, <1>3

----------------------------------------------------------------------------
\* What is stored has no unset field of others, and while nothing managed was
\* changed it is exact.
StoredInv ==
    dep # None => /\ dep.tmpl.rest # "unset"
                  /\ ~touched => Exact(dep.tmpl, want) /\ dep.strategy = "Recreate"

IInv == TypeOK /\ AcceptedExact /\ StoredInv

\* The comparison of reconcileDeployment finds exactly the templates that deviate.
LEMMA DiffersExact ==
    ASSUME IInv, dep # None
    PROVE  /\ Differs <=> ~(Exact(dep.tmpl, want) /\ dep.strategy = "Recreate")
           /\ dep.tmpl \in Templates /\ want \in Wanted
           /\ Target \in Templates /\ Exact(Target, want)
<1>1. dep.tmpl \in Templates /\ want \in Wanted
  BY DEF IInv, TypeOK, Deployments
<1>2. Target \in Templates /\ Exact(Target, want)
  BY <1>1, MergedExact DEF Target
<1>3. Exact(dep.tmpl, want) => Target = dep.tmpl
  BY <1>1, ExactFixed DEF Target
<1> QED BY <1>1, <1>2, <1>3 DEF Differs

\* Creation and installation store an exact template.
LEMMA CreateInv ==
    ASSUME IInv, Create
    PROVE  /\ dep' \in Deployments /\ Selector \subseteq dep'.tmpl.labels
           /\ dep'.tmpl.rest # "unset" /\ Exact(dep'.tmpl, want)
           /\ dep'.strategy = "Recreate" /\ dep'.replicas = 1
<1> DEFINE d == Desired(want)
<1>1. want \in Wanted
  BY DEF IInv, TypeOK
<1>2. d \in Templates /\ Exact(d, want)
  <2>1. Raw(want) \in Templates
    <3>1. [exec |-> want, pull |-> "unset", filled |-> "unset", size |-> Unsized] \in Containers
      BY <1>1 DEF Containers
    <3> QED BY <1>1, <3>1 DEF Raw, Templates
  <2>2. /\ d.rev = want /\ d.volumes = want /\ d.guarded = TRUE /\ d.labels = OwnLabels
        /\ d.inits = FALSE /\ d \in Templates
        /\ d.containers = [n \in Names |-> IF n \in Managed
             THEN [exec |-> want, pull |-> "IfNotPresent", filled |-> "default", size |-> Unsized]
             ELSE None]
    BY <1>1, DesiredParts
  <2>3. d.mode = "default"
    BY DEF Desired, Merged
  <2>4. [exec |-> want, pull |-> "IfNotPresent", filled |-> "default", size |-> Unsized] # None
    BY <1>1, NoneAssumption DEF Containers
  <2> HIDE DEF d
  <2> QED BY <2>2, <2>3, <2>4 DEF Exact
<1>3. /\ Stored(d) \in Templates /\ Exact(Stored(d), want) /\ Stored(d).rest # "unset"
  BY <1>1, <1>2, StoredExact
<1>4. dep' = [tmpl |-> Stored(d), strategy |-> "Recreate", replicas |-> 1, drained |-> FALSE]
  BY DEF Create
<1> HIDE DEF d
<1> QED BY <1>3, <1>4 DEF Deployments, Exact

LEMMA InstallInv ==
    ASSUME IInv, Install
    PROVE  /\ dep' \in Deployments /\ Selector \subseteq dep'.tmpl.labels
           /\ dep'.tmpl.rest # "unset" /\ Exact(dep'.tmpl, want)
           /\ dep'.strategy = "Recreate" /\ dep'.replicas = 1
           /\ dep'.tmpl.rest = dep.tmpl.rest /\ dep'.tmpl.note = dep.tmpl.note
           /\ dep.tmpl.labels \subseteq dep'.tmpl.labels
           /\ \A n \in Managed : dep.tmpl.containers[n] # None =>
                 SizeIn(dep'.tmpl, n) = SizeIn(dep.tmpl, n)
<1>1. /\ dep.tmpl \in Templates /\ want \in Wanted /\ dep.tmpl.rest # "unset"
      /\ Target \in Templates /\ Exact(Target, want)
  BY DiffersExact DEF Install, IInv, StoredInv
<1>2. /\ Target.rest = dep.tmpl.rest /\ Target.note = dep.tmpl.note
      /\ dep.tmpl.labels \subseteq Target.labels
      /\ \A n \in Managed : dep.tmpl.containers[n] # None =>
            SizeIn(Target, n) = SizeIn(dep.tmpl, n)
  BY <1>1, MergedExact DEF Target
<1>3. /\ Stored(Target) \in Templates /\ Exact(Stored(Target), want)
      /\ Stored(Target).rest = Target.rest /\ Stored(Target).note = Target.note
      /\ Stored(Target).labels = Target.labels
      /\ \A n \in Managed : SizeIn(Stored(Target), n) = SizeIn(Target, n)
  BY <1>1, <1>2, StoredExact
<1>4. dep' = [tmpl |-> Stored(Target), strategy |-> "Recreate", replicas |-> 1, drained |-> FALSE]
  BY DEF Install
<1>5. dep' \in Deployments /\ dep'.tmpl = Stored(Target)
  BY <1>3, <1>4 DEF Deployments
<1>6. dep'.strategy = "Recreate" /\ dep'.replicas = 1
  BY <1>4
<1> QED BY <1>1, <1>2, <1>3, <1>5, <1>6 DEF Exact

\* Every behaviour satisfies the inductive invariant.
THEOREM SpecIInv == Spec => []IInv
<1>1. Init => IInv
  <2> SUFFICES ASSUME Init PROVE IInv
    OBVIOUS
  <2>1. edits \in 0..MaxEdits
    BY EditsAssumption DEF Init
  <2> QED BY <2>1 DEF Init, IInv, TypeOK, AcceptedExact, StoredInv
<1>2. IInv /\ [Next]_vars => IInv'
  <2> SUFFICES ASSUME IInv, [Next]_vars PROVE IInv'
    OBVIOUS
  <2>0. /\ want \in Wanted /\ dep \in Deployments \cup {None} /\ edits \in 0..MaxEdits
        /\ dep # None => dep \in Deployments /\ dep.tmpl \in Templates
                         /\ Selector \subseteq dep.tmpl.labels /\ dep.tmpl.rest # "unset"
    BY DEF IInv, TypeOK, StoredInv, Deployments
  <2>a. Edited => edits' \in 0..MaxEdits /\ accepted' = FALSE
    BY <2>0, EditsAssumption DEF Edited
  <2>b. ASSUME dep' \in Deployments, Selector \subseteq dep'.tmpl.labels,
               dep'.tmpl.rest # "unset", Exact(dep'.tmpl, want), dep'.strategy = "Recreate",
               dep'.replicas = 1, UNCHANGED <<want, edits>>, accepted' = TRUE, touched' = FALSE
        PROVE  IInv'
    <3>1. TypeOK'
      BY <2>0, <2>b DEF TypeOK
    <3>2. dep' # None
      BY <2>b, AbsentAssumption
    <3>3. AcceptedExact' /\ StoredInv'
      BY <2>b, <3>2 DEF AcceptedExact, StoredInv, Exact
    <3> QED BY <3>1, <3>3 DEF IInv
  <2>1. CASE Create
    <3>1. UNCHANGED <<want, edits>> /\ accepted' = TRUE /\ touched' = FALSE
      BY <2>1 DEF Create
    <3>2. /\ dep' \in Deployments /\ Selector \subseteq dep'.tmpl.labels
          /\ dep'.tmpl.rest # "unset" /\ Exact(dep'.tmpl, want)
          /\ dep'.strategy = "Recreate" /\ dep'.replicas = 1
      BY <2>1, CreateInv
    <3> QED BY <2>0, <2>b, <3>1, <3>2
  <2>2. CASE Install
    <3>1. UNCHANGED <<want, edits>> /\ accepted' = TRUE /\ touched' = FALSE
      BY <2>2 DEF Install
    <3>2. /\ dep' \in Deployments /\ Selector \subseteq dep'.tmpl.labels
          /\ dep'.tmpl.rest # "unset" /\ Exact(dep'.tmpl, want)
          /\ dep'.strategy = "Recreate" /\ dep'.replicas = 1
      BY <2>2, InstallInv
    <3> QED BY <2>0, <2>b, <3>1, <3>2
  <2>3. ASSUME dep # None, dep'.tmpl = dep.tmpl, dep'.strategy = dep.strategy,
               dep' \in Deployments, UNCHANGED want, touched' = touched,
               accepted' \in BOOLEAN, edits' \in 0..MaxEdits,
               accepted' => Exact(dep.tmpl, want) /\ dep.strategy = "Recreate" /\ dep'.replicas = 1
        PROVE  IInv'
    <3>1. TypeOK'
      BY <2>0, <2>3 DEF IInv, TypeOK
    <3>2. AcceptedExact'
      BY <2>0, <2>3, AbsentAssumption DEF AcceptedExact, Exact
    <3>3. StoredInv'
      BY <2>0, <2>3 DEF IInv, StoredInv, Exact
    <3> QED BY <3>1, <3>2, <3>3 DEF IInv
  <2>4. CASE Stop
    <3>1. /\ dep # None /\ UNCHANGED <<want, touched, edits>> /\ accepted' = FALSE
          /\ dep' = [dep EXCEPT !.replicas = 0, !.drained = FALSE]
      BY <2>4 DEF Stop
    <3>2. dep' \in Deployments /\ dep'.tmpl = dep.tmpl /\ dep'.strategy = dep.strategy
      BY <2>0, <3>1 DEF Deployments
    <3> QED BY <2>0, <2>3, <3>1, <3>2
  <2>5. CASE Scale
    <3>1. /\ dep # None /\ ~Differs /\ UNCHANGED <<want, touched, edits>> /\ accepted' = TRUE
          /\ dep' = [dep EXCEPT !.replicas = 1, !.drained = FALSE]
      BY <2>5 DEF Scale
    <3>2. /\ dep' \in Deployments /\ dep'.tmpl = dep.tmpl /\ dep'.strategy = dep.strategy
          /\ dep'.replicas = 1
      BY <2>0, <3>1 DEF Deployments
    <3>3. Exact(dep.tmpl, want) /\ dep.strategy = "Recreate"
      BY <3>1, DiffersExact
    <3> QED BY <2>0, <2>3, <3>1, <3>2, <3>3
  <2>6. CASE Drain
    <3>1. /\ dep # None /\ UNCHANGED <<want, accepted, touched, edits>> /\ dep.replicas = 0
          /\ dep' = [dep EXCEPT !.drained = TRUE]
      BY <2>6 DEF Drain
    <3>2. dep' \in Deployments /\ dep'.tmpl = dep.tmpl /\ dep'.strategy = dep.strategy
      BY <2>0, <3>1 DEF Deployments
    <3>3. accepted \in BOOLEAN /\ ~accepted
      BY <3>1 DEF IInv, TypeOK, AcceptedExact
    <3> QED BY <2>0, <2>3, <3>1, <3>2, <3>3
  <2>7. CASE Deny
    <3>1. /\ dep # None /\ UNCHANGED <<want, touched>>
          /\ dep' = [dep EXCEPT !.replicas = 0, !.drained = FALSE]
      BY <2>7 DEF Deny
    <3>2. dep' \in Deployments /\ dep'.tmpl = dep.tmpl /\ dep'.strategy = dep.strategy
      BY <2>0, <3>1 DEF Deployments
    <3>3. edits' \in 0..MaxEdits /\ accepted' = FALSE
      BY <2>7, <2>a DEF Deny
    <3> QED BY <2>0, <2>3, <3>1, <3>2, <3>3
  <2>8. CASE Resize
    <3>1. PICK t \in Resized(dep.tmpl) : dep' = [dep EXCEPT !.tmpl = t]
      BY <2>8 DEF Resize
    <3>2. /\ dep # None /\ UNCHANGED <<want, touched>>
          /\ edits' \in 0..MaxEdits /\ accepted' = FALSE
      BY <2>8, <2>a DEF Resize
    <3>3. /\ t \in Templates /\ dep.tmpl.labels \subseteq t.labels /\ t.rest # "unset"
          /\ Exact(dep.tmpl, want) => Exact(t, want)
      BY <2>0, <3>2, ResizedParts
    <3>4. dep' \in Deployments /\ dep'.tmpl = t /\ dep'.strategy = dep.strategy
      BY <2>0, <3>1, <3>2, <3>3 DEF Deployments
    <3>5. TypeOK'
      BY <2>0, <3>2, <3>3, <3>4 DEF IInv, TypeOK
    <3>6. AcceptedExact'
      BY <3>2 DEF AcceptedExact
    <3>7. StoredInv'
      BY <3>2, <3>3, <3>4 DEF IInv, StoredInv, Exact
    <3> QED BY <3>5, <3>6, <3>7 DEF IInv
  <2>9. CASE Tamper
    <3>1. /\ dep # None /\ UNCHANGED want /\ touched' = TRUE
          /\ edits' \in 0..MaxEdits /\ accepted' = FALSE
      BY <2>9, <2>a DEF Tamper
    <3>2. /\ dep' \in Deployments /\ Selector \subseteq dep'.tmpl.labels
          /\ dep'.tmpl.rest # "unset"
      <4>1. CASE \E t \in Tampered(dep.tmpl) : dep' = [dep EXCEPT !.tmpl = t]
        <5> PICK t \in Tampered(dep.tmpl) : dep' = [dep EXCEPT !.tmpl = t]
          BY <4>1
        <5>1. t \in Templates /\ Selector \subseteq t.labels /\ t.rest # "unset"
          BY <2>0, <3>1, TamperedParts
        <5> QED BY <2>0, <3>1, <5>1 DEF Deployments
      <4>2. CASE dep' = [dep EXCEPT !.strategy = "RollingUpdate"]
        BY <2>0, <3>1, <4>2 DEF Deployments
      <4> QED BY <2>9, <4>1, <4>2 DEF Tamper
    <3> QED BY <2>0, <3>1, <3>2 DEF IInv, TypeOK, AcceptedExact, StoredInv
  <2>10. CASE Change
    <3>1. /\ want' \in Wanted /\ UNCHANGED dep /\ touched' = TRUE
          /\ edits' \in 0..MaxEdits /\ accepted' = FALSE
      BY <2>10, <2>a DEF Change
    <3> QED BY <2>0, <3>1 DEF IInv, TypeOK, AcceptedExact, StoredInv
  <2>11. CASE Drop
    <3>1. /\ dep' = None /\ UNCHANGED <<want, touched>>
          /\ edits' \in 0..MaxEdits /\ accepted' = FALSE
      BY <2>11, <2>a DEF Drop
    <3> QED BY <2>0, <3>1 DEF IInv, TypeOK, AcceptedExact, StoredInv
  <2>12. CASE UNCHANGED vars
    BY <2>12 DEF vars, IInv, TypeOK, AcceptedExact, StoredInv, Exact
  <2> QED BY <2>1, <2>2, <2>4, <2>5, <2>6, <2>7, <2>8, <2>9, <2>10, <2>11, <2>12 DEF Next, Pass
<1> QED BY <1>1, <1>2, PTL DEF Spec

\* The Deployment stays one the API server admits.
THEOREM TypeCorrect == Spec => []TypeOK
BY SpecIInv, PTL DEF IInv

\* What a pass accepts executes what is wanted and nothing else.
THEOREM AcceptedAreExact == Spec => []AcceptedExact
BY SpecIInv, PTL DEF IInv

\* A pass keeps sizes, annotations, labels and scheduling of others.
THEOREM KeepsPlatform == Spec => PlatformKept
<1> DEFINE Kept ==
      /\ dep'.tmpl.rest = dep.tmpl.rest /\ dep'.tmpl.note = dep.tmpl.note
      /\ dep.tmpl.labels \subseteq dep'.tmpl.labels
      /\ \A n \in Managed : dep.tmpl.containers[n] # None =>
            SizeIn(dep'.tmpl, n) = SizeIn(dep.tmpl, n)
<1>1. IInv /\ [Next]_vars => [Pass /\ dep # None => Kept]_vars
  <2> SUFFICES ASSUME IInv, Pass, dep # None PROVE Kept
    OBVIOUS
  <2>1. dep \in Deployments
    BY DEF IInv, TypeOK
  <2>2. CASE Install
    BY <2>2, InstallInv
  <2>3. CASE Stop \/ Scale
    <3>1. dep'.tmpl = dep.tmpl
      BY <2>1, <2>3 DEF Stop, Scale, Deployments
    <3> QED BY <3>1
  <2>4. CASE Create
    BY <2>4 DEF Create
  <2> QED BY <2>2, <2>3, <2>4 DEF Pass
<1> QED BY <1>1, SpecIInv, PTL DEF Spec, PlatformKept

\* Only a change of what is managed stops the workload for a new template.
THEOREM CutoversAreCaused == Spec => NoSpuriousCutover
<1>1. IInv /\ [Next]_vars => [Stop => touched]_vars
  <2> SUFFICES ASSUME IInv, Stop PROVE touched
    OBVIOUS
  <2>1. dep # None /\ Differs
    BY DEF Stop
  <2>2. ~touched => Exact(dep.tmpl, want) /\ dep.strategy = "Recreate"
    BY <2>1 DEF IInv, StoredInv
  <2> QED BY <2>1, <2>2, DiffersExact
<1> QED BY <1>1, SpecIInv, PTL DEF Spec, NoSpuriousCutover
----------------------------------------------------------------------------
\* What a pass accepts is final: of the claim that the template settles
\* (TemplateSettles) this is the part that does not depend on fairness.

\* Of a Deployment a pass has accepted the next one changes neither the template
\* nor the strategy nor the replicas, and it is accepted again.
AcceptedFinal ==
    [][Pass /\ accepted =>
        /\ accepted' /\ dep'.tmpl = dep.tmpl
        /\ dep'.strategy = dep.strategy /\ dep'.replicas = dep.replicas]_vars

\* A pass over an accepted Deployment is no cutover: what it compares, the API
\* server's defaults filled in and the platform's choices merged, is equal
\* (managedAccessTemplate and the comparison of reconcileDeployment).
THEOREM AcceptedAreFinal == Spec => AcceptedFinal
<1> DEFINE Final == /\ accepted' /\ dep'.tmpl = dep.tmpl
                    /\ dep'.strategy = dep.strategy /\ dep'.replicas = dep.replicas
<1>1. IInv /\ [Next]_vars => [Pass /\ accepted => Final]_vars
  <2> SUFFICES ASSUME IInv, Pass, accepted PROVE Final
    OBVIOUS
  <2>1. /\ dep # None /\ dep \in Deployments /\ Exact(dep.tmpl, want)
        /\ dep.strategy = "Recreate" /\ dep.replicas = 1
    BY DEF IInv, TypeOK, AcceptedExact
  <2>2. ~Differs
    BY <2>1, DiffersExact
  <2>3. dep' = [dep EXCEPT !.replicas = 1, !.drained = FALSE] /\ accepted'
    BY <2>1, <2>2 DEF Pass, Create, Stop, Install, Scale
  <2> QED BY <2>1, <2>3 DEF Deployments
<1> QED BY <1>1, SpecIInv, PTL DEF Spec, AcceptedFinal
=============================================================================
