------------------------- MODULE IngressRouteProofs -------------------------
(***************************************************************************)
(* For any hosts, Secrets and extra annotations, a pass leaves a route to  *)
(* its own instance only and what others wrote where it was.  The argument *)
(* is by the functions that ensure one part each: a lemma says which part  *)
(* of an Ingress their composition settles and which it does not touch.    *)
(***************************************************************************)
EXTENDS IngressRoute, TLAPS

USE DEF Keys, Labels

\* The value that Extended gives an annotation (applyExtraIngressAnnotations)
Overridden(k, v) == IF k \in cfg.extra THEN "extra" ELSE v

\* What reconcileIngress makes of each part of an Ingress
LEMMA EnsuredParts ==
    ASSUME cfg \in Configs, NEW i \in Ingresses
    PROVE  LET e == Ensured(i) IN
           /\ e \in Ingresses
           /\ e.labels = i.labels /\ e.class = "traefik" /\ e.rules = {cfg.host} /\ e.only = TRUE
           /\ e.notes["dnsnames"] = cfg.host
           /\ e.notes["entrypoints"] = Overridden("entrypoints", "websecure,web")
           /\ e.notes["router.tls"] = Overridden("router.tls", "true")
           /\ \A k \in {"added", "unmanaged"} : e.notes[k] = Overridden(k, i.notes[k])
           /\ e.tls = IF cfg.secret = NoSecret \/ FirstIsOurs(i.tls) THEN i.tls ELSE <<OwnEntry>>
<1> DEFINE a == Annotated(i)
           x == Extended(a)
           n == Named(x)
           r == Ruled(Classed(n))
<1>1. /\ a \in Ingresses
      /\ a.notes["entrypoints"] = "websecure,web" /\ a.notes["router.tls"] = "true"
      /\ \A k \in {"added", "unmanaged"} : a.notes[k] = i.notes[k]
      /\ a.labels = i.labels /\ a.tls = i.tls
  BY DEF Annotated, Ingresses, Values
<1>2. /\ x \in Ingresses
      /\ \A k \in Keys : x.notes[k] = Overridden(k, a.notes[k])
      /\ x.labels = a.labels /\ x.tls = a.tls
  <2> HIDE DEF a
  <2> QED BY <1>1 DEF Extended, Ingresses, Values, Overridden
<1>3. /\ n \in Ingresses
      /\ n.notes["dnsnames"] = cfg.host
      /\ \A k \in Keys \ {"dnsnames"} : n.notes[k] = x.notes[k]
      /\ n.labels = x.labels /\ n.tls = x.tls
  <2> HIDE DEF x
  <2> QED BY <1>2 DEF Named, Ingresses, Values, Configs
<1>4. /\ r \in Ingresses
      /\ r.notes = n.notes /\ r.labels = n.labels /\ r.tls = n.tls
      /\ r.class = "traefik" /\ r.rules = {cfg.host} /\ r.only = TRUE
  <2> HIDE DEF n
  <2> QED BY <1>3 DEF Ruled, Classed, Ingresses, Configs
<1>5. /\ Secured(r) \in Ingresses
      /\ Secured(r).tls = IF cfg.secret = NoSecret \/ FirstIsOurs(r.tls) THEN r.tls ELSE <<OwnEntry>>
      /\ Secured(r).notes = r.notes /\ Secured(r).labels = r.labels
      /\ Secured(r).class = r.class /\ Secured(r).rules = r.rules /\ Secured(r).only = r.only
  <2> HIDE DEF r
  <2>1. CASE cfg.secret = NoSecret \/ FirstIsOurs(r.tls)
    BY <1>4, <2>1 DEF Secured
  <2>2. CASE ~(cfg.secret = NoSecret \/ FirstIsOurs(r.tls))
    <3>1. <<OwnEntry>> \in Seq(Entries)
      BY <2>2 DEF OwnEntry, Entries, Configs
    <3>2. Secured(r) = [r EXCEPT !.tls = <<OwnEntry>>]
      BY <2>2 DEF Secured
    <3> QED BY <1>4, <2>2, <3>1, <3>2 DEF Ingresses
  <2> QED BY <2>1, <2>2
<1>6. Ensured(i) = Secured(r)
  BY DEF Ensured
<1> HIDE DEF a, x, n, r
<1>7. /\ Ensured(i).notes = n.notes /\ Ensured(i).labels = i.labels
      /\ r.tls = i.tls
  BY <1>1, <1>2, <1>3, <1>4, <1>5, <1>6
<1>8. /\ n.notes["entrypoints"] = Overridden("entrypoints", "websecure,web")
      /\ n.notes["router.tls"] = Overridden("router.tls", "true")
      /\ \A k \in {"added", "unmanaged"} : n.notes[k] = Overridden(k, i.notes[k])
  BY <1>1, <1>2, <1>3
<1>9. Ensured(i).tls = IF cfg.secret = NoSecret \/ FirstIsOurs(i.tls) THEN i.tls ELSE <<OwnEntry>>
  BY <1>5, <1>6, <1>7
<1> QED BY <1>3, <1>4, <1>5, <1>6, <1>7, <1>8, <1>9

\* The entry of buildDesiredIngress and ensureIngressTLS counts as the controller's.
LEMMA OwnEntryFirst == FirstIsOurs(<<OwnEntry>>)
<1> DEFINE own == <<cfg.host>>
           tls == <<[hosts |-> own, secret |-> cfg.secret]>>
<1>1. own # <<>> /\ own[1] = cfg.host
  OBVIOUS
<1>2. tls # <<>> /\ tls[1].secret = cfg.secret /\ tls[1].hosts = own
  <2> HIDE DEF own
  <2> QED OBVIOUS
<1> QED BY <1>1, <1>2 DEF FirstIsOurs, OwnEntry

\* What the creation of an Ingress settles
LEMMA BuiltParts ==
    ASSUME cfg \in Configs
    PROVE  /\ Built \in Ingresses
           /\ Built.class = "traefik" /\ Built.rules = {cfg.host} /\ Built.only = TRUE
           /\ Built.notes["dnsnames"] = cfg.host
           /\ \A k \in cfg.extra \ {"dnsnames"} : Built.notes[k] = "extra"
           /\ Built.tls = IF cfg.secret = NoSecret THEN <<>> ELSE <<OwnEntry>>
<1> DEFINE b == [notes  |-> [k \in Keys |-> IF k = "entrypoints" THEN "websecure,web" ELSE None],
                 labels |-> [l \in Labels |-> IF l = "name" THEN "open-webui" ELSE None],
                 class  |-> "traefik", rules |-> {cfg.host}, only |-> TRUE, tls |-> <<>>]
           s == Secured(b)
           x == Extended(s)
<1>1. b \in Ingresses /\ b.class = "traefik" /\ b.rules = {cfg.host} /\ b.only = TRUE /\ b.tls = <<>>
  BY DEF Ingresses, Values, Configs
<1>2. /\ s \in Ingresses /\ s.class = "traefik" /\ s.rules = {cfg.host} /\ s.only = TRUE
      /\ s.tls = IF cfg.secret = NoSecret THEN <<>> ELSE <<OwnEntry>>
  <2> HIDE DEF b
  <2>1. CASE cfg.secret = NoSecret
    BY <1>1, <2>1 DEF Secured
  <2>2. CASE cfg.secret # NoSecret
    <3>1. <<OwnEntry>> \in Seq(Entries)
      BY <2>2 DEF OwnEntry, Entries, Configs
    <3>2. s = [b EXCEPT !.tls = <<OwnEntry>>]
      BY <1>1, <2>2 DEF Secured, FirstIsOurs
    <3> QED BY <1>1, <2>2, <3>1, <3>2 DEF Ingresses
  <2> QED BY <2>1, <2>2
<1>3. /\ x \in Ingresses /\ x.class = s.class /\ x.rules = s.rules /\ x.only = s.only /\ x.tls = s.tls
      /\ \A k \in cfg.extra : x.notes[k] = "extra"
  <2> HIDE DEF s
  <2> QED BY <1>2, ExtrasAssumption DEF Extended, Ingresses, Values, Configs
<1>4. Built = Named(x)
  BY DEF Built
<1> HIDE DEF b, s, x
<1>5. /\ Named(x) \in Ingresses /\ Named(x).notes["dnsnames"] = cfg.host
      /\ \A k \in Keys \ {"dnsnames"} : Named(x).notes[k] = x.notes[k]
      /\ Named(x).class = x.class /\ Named(x).rules = x.rules /\ Named(x).only = x.only
      /\ Named(x).tls = x.tls
  BY <1>3 DEF Named, Ingresses, Values, Configs
<1>6. cfg.extra \subseteq Keys
  BY ExtrasAssumption DEF Configs
<1> QED BY <1>2, <1>3, <1>4, <1>5, <1>6

\* ensureLabels touches labels only, and of them those that are absent.
LEMMA LabelledParts ==
    ASSUME NEW i \in Ingresses
    PROVE  /\ Labelled(i) \in Ingresses
           /\ \A l \in Labels : i.labels[l] # None => Labelled(i).labels[l] = i.labels[l]
           /\ Labelled(i).notes = i.notes /\ Labelled(i).class = i.class
           /\ Labelled(i).rules = i.rules /\ Labelled(i).only = i.only /\ Labelled(i).tls = i.tls
BY DEF Labelled, Ingresses

\* What a pass leaves of a route it finds: a rewritten one, or the same.
LEMMA RouteParts ==
    ASSUME TypeOK, Route, ing # None
    PROVE  /\ ing \in Ingresses /\ ing' \in Ingresses
           /\ \A l \in Labels : ing.labels[l] # None => ing'.labels[l] = ing.labels[l]
           /\ LET e == Ensured(ing) IN
              /\ ing'.notes = e.notes /\ ing'.class = e.class /\ ing'.rules = e.rules
              /\ ing'.only = e.only /\ ing'.tls = e.tls
<1>1. ing \in Ingresses /\ cfg \in Configs
  BY DEF TypeOK
<1>2. Ensured(ing) \in Ingresses /\ Ensured(ing).labels = ing.labels
  BY <1>1, EnsuredParts
<1>3. CASE Updated(ing)
  <2>1. ing' = Labelled(Ensured(ing))
    BY <1>3 DEF Route
  <2> QED BY <1>1, <1>2, <2>1, LabelledParts
<1>4. CASE ~Updated(ing)
  BY <1>1, <1>4 DEF Route, Updated
<1> QED BY <1>3, <1>4

\* The type invariant and the exactness of routes are inductive together.
IInv == TypeOK /\ RouteExact

\* A write of someone else leaves an Ingress an Ingress.
LEMMA EditedIngress ==
    ASSUME NEW i \in Ingresses, NEW j \in Edits(i)
    PROVE  j \in Ingresses
<1>1. \A s \in Secrets : [hosts |-> <<Elsewhere>>, secret |-> s] \in Entries
  BY DEF Entries
<1>2. \A s \in Secrets : /\ Append(i.tls, [hosts |-> <<Elsewhere>>, secret |-> s]) \in Seq(Entries)
                         /\ <<[hosts |-> <<Elsewhere>>, secret |-> s]>> \in Seq(Entries)
  <2> TAKE s \in Secrets
  <2> DEFINE e == [hosts |-> <<Elsewhere>>, secret |-> s]
  <2>1. e \in Entries
    BY <1>1
  <2> HIDE DEF e
  <2>2. Append(i.tls, e) \in Seq(Entries) /\ <<e>> \in Seq(Entries)
    BY <2>1 DEF Ingresses
  <2> QED BY <2>2 DEF e
<1>3. CASE \E k \in Keys, v \in {"else", None} : j = [i EXCEPT !.notes[k] = v]
  <2> PICK k \in Keys, v \in {"else", None} : j = [i EXCEPT !.notes[k] = v]
    BY <1>3
  <2>1. [i.notes EXCEPT ![k] = v] \in [Keys -> Values]
    BY DEF Ingresses, Values
  <2> QED BY <2>1 DEF Ingresses
<1>4. CASE \E l \in Labels : j = [i EXCEPT !.labels[l] = "else"]
  <2> PICK l \in Labels : j = [i EXCEPT !.labels[l] = "else"]
    BY <1>4
  <2>1. [i.labels EXCEPT ![l] = "else"] \in [Labels -> {None, "open-webui", "chat-ui", "else"}]
    BY DEF Ingresses
  <2> QED BY <2>1 DEF Ingresses
<1>5. CASE j \in {[i EXCEPT !.class = "else"], [i EXCEPT !.only = FALSE],
                  [i EXCEPT !.rules = @ \cup {Elsewhere}], [i EXCEPT !.tls = <<>>]}
  <2>1. CASE j = [i EXCEPT !.class = "else"]
    BY <2>1 DEF Ingresses
  <2>2. CASE j = [i EXCEPT !.only = FALSE]
    BY <2>2 DEF Ingresses
  <2>3. CASE j = [i EXCEPT !.rules = @ \cup {Elsewhere}]
    BY <2>3 DEF Ingresses
  <2>4. CASE j = [i EXCEPT !.tls = <<>>]
    <3>1. <<>> \in Seq(Entries)
      OBVIOUS
    <3> QED BY <2>4, <3>1 DEF Ingresses
  <2> QED BY <1>5, <2>1, <2>2, <2>3, <2>4
<1>6. CASE \E s \in Secrets :
              \/ j = [i EXCEPT !.tls = Append(@, [hosts |-> <<Elsewhere>>, secret |-> s])]
              \/ j = [i EXCEPT !.tls = <<[hosts |-> <<Elsewhere>>, secret |-> s]>>]
  BY <1>2, <1>6 DEF Ingresses
<1> QED BY <1>3, <1>4, <1>5, <1>6 DEF Edits

\* Every behaviour satisfies the inductive invariant.
THEOREM SpecIInv == Spec => []IInv
<1>1. Init => IInv
  <2> SUFFICES ASSUME Init PROVE IInv
    OBVIOUS
  <2>1. edits \in 0..MaxEdits
    BY EditsAssumption DEF Init
  <2> QED BY <2>1 DEF Init, IInv, TypeOK, RouteExact
<1>2. IInv /\ [Next]_vars => IInv'
  <2> SUFFICES ASSUME IInv, [Next]_vars PROVE IInv'
    OBVIOUS
  <2>0. TypeOK /\ RouteExact /\ cfg \in Configs
    BY DEF IInv, TypeOK
  <2>a. Edited => edits' \in 0..MaxEdits /\ current' = FALSE
    BY <2>0, EditsAssumption DEF TypeOK, Edited
  <2>1. CASE Refuse
    BY <2>0, <2>1 DEF Refuse, IInv, TypeOK, RouteExact
  <2>2. CASE Withdraw
    BY <2>0, <2>2 DEF Withdraw, IInv, TypeOK, RouteExact, Configs
  <2>3. CASE Install
    BY <2>0, <2>3 DEF Install, IInv, TypeOK, RouteExact, Configs, FirstIsOurs
  <2>4. CASE Route
    <3>0. /\ UNCHANGED <<cfg, live, edits>> /\ svc' = {} /\ current' = TRUE
      BY <2>4 DEF Route
    <3>1. /\ ing' \in Ingresses /\ ing'.class = "traefik" /\ ing'.rules = {cfg.host}
          /\ ing'.only = TRUE /\ ing'.notes["dnsnames"] = cfg.host
          /\ \A k \in cfg.extra \ {"dnsnames"} : ing'.notes[k] = "extra"
          /\ cfg.secret # NoSecret => FirstIsOurs(ing'.tls)
      <4>1. CASE ing = None
        <5>1. ing' = Labelled(Built)
          BY <2>4, <4>1 DEF Route
        <5> QED BY <2>0, <5>1, BuiltParts, LabelledParts, OwnEntryFirst
      <4>2. CASE ing # None
        <5>1. \A k \in cfg.extra : k \in Keys
          BY <2>0, ExtrasAssumption DEF Configs
        <5>2. ing \in Ingresses
          BY <2>0, <4>2 DEF TypeOK
        <5> DEFINE e == Ensured(ing)
        <5>a. /\ e.class = "traefik" /\ e.rules = {cfg.host} /\ e.only = TRUE
              /\ e.notes["dnsnames"] = cfg.host
              /\ e.notes["entrypoints"] = Overridden("entrypoints", "websecure,web")
              /\ e.notes["router.tls"] = Overridden("router.tls", "true")
              /\ \A k \in {"added", "unmanaged"} : e.notes[k] = Overridden(k, ing.notes[k])
          BY <2>0, <5>2, EnsuredParts
        <5>3. /\ e.class = "traefik" /\ e.rules = {cfg.host} /\ e.only = TRUE
              /\ e.notes["dnsnames"] = cfg.host
              /\ \A k \in cfg.extra \ {"dnsnames"} : e.notes[k] = "extra"
          <6> HIDE DEF e
          <6> QED BY <5>1, <5>a DEF Overridden
        <5>4. cfg.secret # NoSecret => FirstIsOurs(e.tls)
          BY <2>0, <5>2, EnsuredParts, OwnEntryFirst
        <5>5. /\ ing' \in Ingresses /\ ing'.notes = e.notes /\ ing'.class = e.class
              /\ ing'.rules = e.rules /\ ing'.only = e.only /\ ing'.tls = e.tls
          BY <2>0, <2>4, <4>2, RouteParts
        <5> HIDE DEF e
        <5> QED BY <5>3, <5>4, <5>5
      <4> QED BY <4>1, <4>2
    <3>2. TypeOK'
      BY <2>0, <3>0, <3>1 DEF TypeOK
    <3>3. RouteExact'
      BY <2>0, <3>0, <3>1 DEF RouteExact, FirstIsOurs
    <3> QED BY <3>2, <3>3 DEF IInv
  <2>5. CASE Restart
    BY <2>0, <2>a, <2>5 DEF Restart, IInv, TypeOK, RouteExact
  <2>6. CASE EditIngress
    <3>1. ing' \in Ingresses
      BY <2>0, <2>6, EditedIngress DEF EditIngress, TypeOK
    <3> QED BY <2>0, <2>a, <2>6, <3>1 DEF EditIngress, IInv, TypeOK, RouteExact
  <2>7. CASE EditService
    BY <2>0, <2>a, <2>7 DEF EditService, IInv, TypeOK, RouteExact
  <2>8. CASE Remove
    BY <2>0, <2>a, <2>8 DEF Remove, IInv, TypeOK, RouteExact
  <2>9. CASE UNCHANGED vars
    BY <2>0, <2>9 DEF vars, IInv, TypeOK, RouteExact, FirstIsOurs
  <2> QED BY <2>1, <2>2, <2>3, <2>4, <2>5, <2>6, <2>7, <2>8, <2>9 DEF Next, Pass
<1> QED BY <1>1, <1>2, PTL DEF Spec

\* The configuration, the Ingress and the Service keep their types.
THEOREM TypeCorrect == Spec => []TypeOK
BY SpecIInv, PTL DEF IInv

\* After a pass a route leads to this instance and to nothing else.
THEOREM RoutesExact == Spec => []RouteExact
BY SpecIInv, PTL DEF IInv

\* A pass keeps what others wrote on a route it rewrites.
THEOREM ForeignsKept == Spec => ForeignKept
<1> DEFINE Kept ==
      /\ \A l \in Labels : ing.labels[l] # None => ing'.labels[l] = ing.labels[l]
      /\ \A k \in Keys \ ({"entrypoints", "router.tls", "dnsnames"} \cup cfg.extra) :
            ing'.notes[k] = ing.notes[k]
      /\ FirstIsOurs(ing.tls) => ing'.tls = ing.tls
<1>1. IInv /\ [Next]_vars => [Pass /\ ing # None /\ ing' # None => Kept]_vars
  <2> SUFFICES ASSUME IInv, Pass, ing # None, ing' # None PROVE Kept
    OBVIOUS
  <2>1. cfg \in Configs /\ ing \in Ingresses
    BY DEF IInv, TypeOK
  <2>2. CASE Route
    <3>1. /\ \A l \in Labels : ing.labels[l] # None => ing'.labels[l] = ing.labels[l]
          /\ ing'.notes = Ensured(ing).notes /\ ing'.tls = Ensured(ing).tls
      BY <2>2, RouteParts DEF IInv
    <3>2. /\ \A k \in {"added", "unmanaged"} :
                Ensured(ing).notes[k] = Overridden(k, ing.notes[k])
          /\ FirstIsOurs(ing.tls) => Ensured(ing).tls = ing.tls
      BY <2>1, EnsuredParts
    <3> QED BY <3>1, <3>2 DEF Overridden
  <2>3. CASE Install
    BY <2>3 DEF Install
  <2>4. CASE Refuse \/ Withdraw
    BY <2>4 DEF Refuse, Withdraw
  <2> QED BY <2>2, <2>3, <2>4 DEF Pass
<1> QED BY <1>1, SpecIInv, PTL DEF Spec, ForeignKept

----------------------------------------------------------------------------
\* What a pass writes is final: of the claim that a route settles (RouteSettles)
\* this is the part that does not depend on fairness.

\* What the next pass would make of a route, as long as nobody else writes it
Rewrite(i) == IF Updated(i) THEN Labelled(Ensured(i)) ELSE i
RouteFinal == [][Route /\ ing # None => Rewrite(ing') = ing' /\ Ensured(ing') = ing']_vars

\* The ensuring functions change nothing in an Ingress that has the parts they
\* gave another one, so none of them undoes what a later one did.
LEMMA EnsuredFixed ==
    ASSUME cfg \in Configs, NEW i \in Ingresses, NEW j \in Ingresses,
           LET e == Ensured(i) IN
           /\ j.notes = e.notes /\ j.class = e.class /\ j.rules = e.rules
           /\ j.only = e.only /\ j.tls = e.tls
    PROVE  Ensured(j) = j
<1> DEFINE e == Ensured(i)
           f == Ensured(j)
<1>1. /\ f \in Ingresses
      /\ f.labels = j.labels /\ f.class = e.class /\ f.rules = e.rules /\ f.only = e.only
  BY EnsuredParts
<1>2. /\ e.notes["dnsnames"] = f.notes["dnsnames"]
      /\ e.notes["entrypoints"] = f.notes["entrypoints"]
      /\ e.notes["router.tls"] = f.notes["router.tls"]
  BY EnsuredParts
<1>3. \A k \in {"added", "unmanaged"} :
         e.notes[k] = Overridden(k, i.notes[k]) /\ f.notes[k] = Overridden(k, e.notes[k])
  BY EnsuredParts
<1>4. /\ e.tls = IF cfg.secret = NoSecret \/ FirstIsOurs(i.tls) THEN i.tls ELSE <<OwnEntry>>
      /\ f.tls = IF cfg.secret = NoSecret \/ FirstIsOurs(e.tls) THEN e.tls ELSE <<OwnEntry>>
  BY EnsuredParts
<1>5. /\ j.notes = e.notes /\ j.class = e.class /\ j.rules = e.rules
      /\ j.only = e.only /\ j.tls = e.tls
  OBVIOUS
<1>6. SUFFICES f = j
  OBVIOUS
<1> HIDE DEF e, f
<1>7. \A k \in Keys : f.notes[k] = j.notes[k]
  BY <1>2, <1>3, <1>5 DEF Overridden
<1>8. f.tls = j.tls
  <2>1. CASE cfg.secret = NoSecret \/ FirstIsOurs(i.tls)
    BY <1>4, <1>5, <2>1
  <2>2. CASE ~(cfg.secret = NoSecret \/ FirstIsOurs(i.tls))
    <3>1. e.tls = <<OwnEntry>>
      BY <1>4, <2>2
    <3>2. FirstIsOurs(e.tls)
      BY <3>1, OwnEntryFirst
    <3> QED BY <1>4, <1>5, <3>2
  <2> QED BY <2>1, <2>2
<1>9. f.notes = j.notes
  <2>1. f.notes \in [Keys -> Values] /\ j.notes \in [Keys -> Values]
    BY <1>1 DEF Ingresses
  <2> QED BY <1>7, <2>1
<1> QED BY <1>1, <1>5, <1>8, <1>9 DEF Ingresses

\* Labels that are set stay as they are.
LEMMA LabelledFixed == ASSUME NEW i \in Ingresses PROVE Labelled(Labelled(i)) = Labelled(i)
<1> DEFINE set == [l \in Labels |-> IF l # "team" /\ i.labels[l] = None THEN "chat-ui"
                                    ELSE i.labels[l]]
<1>1. Labelled(i) = [i EXCEPT !.labels = set]
  BY DEF Labelled
<1>2. Labelled(i) \in Ingresses /\ Labelled(i).labels = set
  BY <1>1, LabelledParts DEF Ingresses
<1>3. [l \in Labels |-> IF l # "team" /\ set[l] = None THEN "chat-ui" ELSE set[l]] = set
  OBVIOUS
<1> HIDE DEF set
<1>4. Labelled(Labelled(i)) = [Labelled(i) EXCEPT !.labels = set]
  BY <1>2, <1>3 DEF Labelled
<1> QED BY <1>2, <1>4 DEF Ingresses

\* A pass that finds a route leaves one that no further pass changes, whatever
\* state it was in and whichever extra annotations are configured: the functions
\* of reconcileIngress agree with each other, and with their own result.
THEOREM RoutesAreFinal == Spec => RouteFinal
<1>1. IInv /\ [Next]_vars => [Route /\ ing # None => Rewrite(ing') = ing' /\ Ensured(ing') = ing']_vars
  <2> SUFFICES ASSUME IInv, Route, ing # None
               PROVE  Rewrite(ing') = ing' /\ Ensured(ing') = ing'
    OBVIOUS
  <2>1. TypeOK /\ cfg \in Configs
    BY DEF IInv, TypeOK
  <2>2. Ensured(ing') = ing'
    BY <2>1, RouteParts, EnsuredFixed
  <2>3. CASE Updated(ing)
    <3>1. ing' = Labelled(Ensured(ing)) /\ Ensured(ing) \in Ingresses
      BY <2>1, <2>3, RouteParts, EnsuredParts DEF Route
    <3>2. Labelled(ing') = ing'
      BY <3>1, LabelledFixed
    <3> QED BY <2>2, <3>2 DEF Rewrite
  <2>4. CASE ~Updated(ing)
    BY <2>2, <2>4 DEF Route, Rewrite, Updated
  <2> QED BY <2>3, <2>4
<1> QED BY <1>1, SpecIInv, PTL DEF Spec, RouteFinal
=============================================================================
