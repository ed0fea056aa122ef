---------------------------- MODULE IngressRoute ----------------------------
(***************************************************************************)
(* What the Ingress and the Service of one instance say, as reconcile      *)
(* passes, other writers and restarts of the manager with another          *)
(* configuration rewrite them.  Each ensure* function of the controller    *)
(* looks at its own part of the object, in a fixed order, and parts        *)
(* overlap: an operator's extra annotation may name a managed key, and     *)
(* only the first TLS entry is looked at.                                  *)
(*                                                                         *)
(* Abstractions.  A read and the write it leads to are one step, since the *)
(* write carries the resourceVersion of the read; ownership and the claims *)
(* of others are the matter of modules Hostnames and Reconciler.  Only the *)
(* https branches are reached: prepareAccess refuses any other scheme      *)
(* before.  An extra annotation has the value "extra", what others write   *)
(* is "else".  A Service is the set of fields that deviate from the        *)
(* desired one, the route's path and backend are likewise "ours" or not.   *)
(***************************************************************************)
EXTENDS Integers, Sequences

CONSTANTS
    Hosts,        \* names the instance has under successive PUBLIC_HOSTs
    Elsewhere,    \* any other host
    Secrets,      \* values of TLSSecretName
    NoSecret,     \* TLSSecretName is empty
    Extras,       \* key sets of ExtraIngressAnnotations, one per configuration
    None,         \* no object; an absent annotation or label
    MaxEdits      \* bound: restarts and writes of others

\* Annotations: three the controller manages, one an operator may add, one of others
Keys == {"entrypoints", "router.tls", "dnsnames", "added", "unmanaged"}
\* Labels: one the controller sets on what it builds, one of the manager, one of others
Labels == {"name", "part-of", "team"}
Fields == {"type", "externalName", "selector", "ports"}

ASSUME HostsAssumption == Hosts # {} /\ Elsewhere \notin Hosts
ASSUME SecretsAssumption == NoSecret \notin Secrets
ASSUME ExtrasAssumption == Extras # {} /\ Extras \subseteq SUBSET Keys
ASSUME NoneAssumption == None \notin Hosts \cup {Elsewhere, "websecure,web", "true", "extra", "else"}
ASSUME EditsAssumption == MaxEdits \in Nat

VARIABLES
    cfg,      \* configuration of the running manager
    live,     \* host the installed workload was built for, or None
    ing,      \* the Ingress, or None
    svc,      \* the Service's deviating fields, or None
    current,  \* the last write to the route or the configuration was a pass's
    edits

vars == <<cfg, live, ing, svc, current, edits>>

Configs == [https : BOOLEAN, host : Hosts, secret : Secrets \cup {NoSecret}, extra : Extras]

Values == Hosts \cup {Elsewhere, "websecure,web", "true", "extra", "else", None}
Entries == [hosts : Seq(Hosts \cup {Elsewhere}), secret : Secrets]
Ingresses == [
    notes : [Keys -> Values], labels : [Labels -> {None, "open-webui", "chat-ui", "else"}],
    class : {"traefik", "else"},
    rules : SUBSET (Hosts \cup {Elsewhere}),  \* hosts of the rules
    only : BOOLEAN,                           \* one path, our backend, no default backend
    tls : Seq(Entries) ]

TypeOK ==
    /\ cfg \in Configs /\ live \in Hosts \cup {None}
    /\ ing \in Ingresses \cup {None}
    /\ svc \in (SUBSET Fields) \cup {None}
    /\ current \in BOOLEAN /\ edits \in 0..MaxEdits

Init ==
    /\ cfg \in {c \in Configs : c.https}
    /\ live = None /\ ing = None /\ svc = None /\ current = FALSE /\ edits = 0

----------------------------------------------------------------------------
\* The parts of the Ingress, in the order reconcileIngress ensures them

\* Mutant: the annotation that turns TLS on is forgotten on updates, as on creation.
Annotated_EntryOnly(i) == [i EXCEPT !.notes["entrypoints"] = "websecure,web"]

Annotated(i) == [i EXCEPT !.notes["entrypoints"] = "websecure,web", !.notes["router.tls"] = "true"]

\* applyExtraIngressAnnotations: override or not, the configured value is set.
Extended(i) == [i EXCEPT !.notes = [k \in Keys |-> IF k \in cfg.extra THEN "extra" ELSE @[k]]]

Named(i) == [i EXCEPT !.notes["dnsnames"] = cfg.host]

Classed(i) == [i EXCEPT !.class = "traefik"]

\* Exactly one managed host, path and backend
Ruled(i) == [i EXCEPT !.rules = {cfg.host}, !.only = TRUE]

OwnEntry == [hosts |-> <<cfg.host>>, secret |-> cfg.secret]

\* The first entry is the controller's; of its hosts only the first counts.
FirstIsOurs(tls) ==
    /\ tls # <<>> /\ tls[1].secret = cfg.secret
    /\ tls[1].hosts # <<>> /\ tls[1].hosts[1] = cfg.host

\* ensureIngressTLS: an entry that deviates takes every other one with it, and
\* without a configured Secret nothing is looked at.
Secured(i) == IF cfg.secret = NoSecret \/ FirstIsOurs(i.tls) THEN i
              ELSE [i EXCEPT !.tls = <<OwnEntry>>]

\* Mutant: the operator's annotations are applied after the managed ones.
Ensured_ExtraLast(i) == Extended(Secured(Ruled(Classed(Named(Annotated(i))))))

\* Mutant: the object is rebuilt rather than merged.
Ensured_Rebuilt(i) ==
    Secured(Ruled(Classed(Named(Extended(Annotated(
        [i EXCEPT !.notes = [k \in Keys |-> None], !.tls = <<>>]))))))

Ensured(i) == Secured(Ruled(Classed(Named(Extended(Annotated(i))))))

\* buildDesiredIngress; router.tls is left to the next pass.
Built ==
    Named(Extended(Secured(
        [notes  |-> [k \in Keys |-> IF k = "entrypoints" THEN "websecure,web" ELSE None],
         labels |-> [l \in Labels |-> IF l = "name" THEN "open-webui" ELSE None],
         class  |-> "traefik", rules |-> {cfg.host}, only |-> TRUE, tls |-> <<>>])))

\* labelingClient.ensureLabels, on every object the manager writes
Labelled(i) ==
    [i EXCEPT !.labels = [l \in Labels |-> IF l # "team" /\ @[l] = None THEN "chat-ui" ELSE @[l]]]

\* With extra annotations configured every pass writes, needed or not.
Updated(i) == Ensured(i) # i \/ cfg.extra # {}

----------------------------------------------------------------------------
\* A reconcile pass, by what it comes to

\* The configured scheme is refused, and the route withdrawn.
Refuse ==
    /\ ~cfg.https /\ ing' = None /\ current' = TRUE
    /\ UNCHANGED <<cfg, live, svc, edits>>

\* The workload was built for another host: its template differs, and the
\* cutover withdraws the route before the new template is installed.
Withdraw ==
    /\ cfg.https /\ live \notin {None, cfg.host}
    /\ ing' = None /\ current' = TRUE
    /\ live' = IF ing = None THEN cfg.host ELSE live
    /\ UNCHANGED <<cfg, svc, edits>>

\* No workload: one is created, and the route goes on as it is.
Install ==
    /\ cfg.https /\ live = None /\ live' = cfg.host
    /\ UNCHANGED <<cfg, ing, svc, current, edits>>

\* reconcileService, then reconcileIngress
Route ==
    /\ cfg.https /\ live = cfg.host
    /\ svc' = {} /\ current' = TRUE
    /\ ing' = CASE ing = None     -> Labelled(Built)
                [] OTHER          -> IF Updated(ing) THEN Labelled(Ensured(ing)) ELSE ing
    /\ UNCHANGED <<cfg, live, edits>>

Pass == Refuse \/ Withdraw \/ Install \/ Route

----------------------------------------------------------------------------
\* Everyone else

Edited == edits < MaxEdits /\ edits' = edits + 1 /\ current' = FALSE

\* The manager restarts with another configuration.
Restart ==
    /\ Edited /\ cfg' \in Configs \ {cfg}
    /\ UNCHANGED <<live, ing, svc>>

Edits(i) ==
    {[i EXCEPT !.notes[k] = v] : k \in Keys, v \in {"else", None}} \cup
    {[i EXCEPT !.labels[l] = "else"] : l \in Labels} \cup
    {[i EXCEPT !.class = "else"], [i EXCEPT !.only = FALSE],
     [i EXCEPT !.rules = @ \cup {Elsewhere}], [i EXCEPT !.tls = <<>>]} \cup
    {[i EXCEPT !.tls = Append(@, [hosts |-> <<Elsewhere>>, secret |-> s])] : s \in Secrets} \cup
    {[i EXCEPT !.tls = <<[hosts |-> <<Elsewhere>>, secret |-> s]>>] : s \in Secrets}

EditIngress ==
    /\ Edited /\ ing # None /\ ing' \in Edits(ing)
    /\ UNCHANGED <<cfg, live, svc>>

EditService ==
    /\ Edited /\ svc # None /\ \E f \in Fields : svc' = svc \cup {f}
    /\ UNCHANGED <<cfg, live, ing>>

Remove ==
    /\ Edited
    /\ \/ ing' = None /\ UNCHANGED <<live, svc>>
       \/ svc' = None /\ UNCHANGED <<live, ing>>
       \/ live' = None /\ UNCHANGED <<ing, svc>>
    /\ UNCHANGED cfg

Next == Pass \/ Restart \/ EditIngress \/ EditService \/ Remove

Spec == Init /\ [][Next]_vars
FairSpec == Spec /\ WF_vars(Refuse) /\ WF_vars(Withdraw) /\ WF_vars(Install) /\ WF_vars(Route)

----------------------------------------------------------------------------
\* After a pass a route leads to this instance and to nothing else: one rule, one
\* backend, DNS and the first TLS entry for the same host, whatever was edited and
\* whichever extra annotations collide with managed ones (reconcileIngress).
RouteExact ==
    (current /\ ing # None) =>
        /\ ing.rules = {cfg.host} /\ ing.only /\ ing.class = "traefik"
        /\ ing.notes["dnsnames"] = cfg.host
        /\ cfg.secret # NoSecret => FirstIsOurs(ing.tls)
        /\ \A k \in cfg.extra \ {"dnsnames"} : ing.notes[k] = "extra"
        /\ svc = {}

\* A pass that rewrites a route changes no label anyone has set, no annotation
\* that is neither managed nor configured, and no further TLS entry while the
\* first one is its own (docs/hostname-policy.md, "Route checks").
ForeignKept ==
    [][Pass /\ ing # None /\ ing' # None =>
        /\ \A l \in Labels : ing.labels[l] # None => ing'.labels[l] = ing.labels[l]
        /\ \A k \in Keys \ ({"entrypoints", "router.tls", "dnsnames"} \cup cfg.extra) :
              ing'.notes[k] = ing.notes[k]
        /\ FirstIsOurs(ing.tls) => ing'.tls = ing.tls]_vars

\* Once others leave the objects alone the route reaches one form, TLS on, that
\* further passes do not change, although some of them write at every turn.
RouteSettles ==
    \/ <>[](ing = None /\ ~cfg.https)
    \/ <>[](/\ ing # None /\ svc = {} /\ Ensured(ing) = ing
            /\ ing.notes["router.tls"] = IF "router.tls" \in cfg.extra THEN "extra" ELSE "true")
=============================================================================
