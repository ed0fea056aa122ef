------------------------------ MODULE Hostnames ------------------------------
(***************************************************************************)
(* Many instances, the hosts the policy gives them, and the Ingresses that *)
(* claim hosts: those of the instances, one per namespaced name, and those *)
(* of other controllers.  A host is not reserved; each pass looks for other *)
(* claims before it prepares the workload and once more before it writes.  *)
(* The manager runs one worker; what a pass does between the two checks is *)
(* module Reconciler's, here it continues, returns, or withdraws the route.*)
(***************************************************************************)
EXTENDS Integers, FiniteSets

CONSTANTS
    Slots,      \* namespaced names of instances
    Uids,       \* UIDs that instances of these names may get
    Hosts,      \* complete host names
    Wild,       \* the rule of a wildcard Ingress
    Covered,    \* the hosts with exactly one label more than its suffix
    Policies,   \* what Select returns under each policy an operator may load
    None,       \* no instance, no mapping, no Ingress
    Other,      \* another controller
    MaxFaults   \* bound: everything operators, users and faults do

Rules == Hosts \cup {Wild}

ASSUME NamesAssumption ==
    /\ Slots # {} /\ {None, Other} \cap Uids = {} /\ None # Other
    /\ None \notin Hosts /\ Wild \notin Hosts /\ Covered \subseteq Hosts
ASSUME PoliciesAssumption ==  \* module HostnamePolicy, NamesDistinct
    /\ Policies # {} /\ Policies \subseteq [Uids -> Hosts \cup {None}]
    /\ \A p \in Policies : \A u, v \in Uids : u # v /\ p[u] # None => p[u] # p[v]
ASSUME BoundAssumption == MaxFaults \in Nat

Steps == {"idle", "get", "list", "prepare", "read", "create", "update", "withdraw", "delete"}
Ingresses == [owner : Uids \cup {None, Other}, rules : SUBSET Rules, edited : BOOLEAN]
Passes == [pc : Steps, slot : Slots, uid : Uids \cup {None}, round : {1, 2}, same : BOOLEAN]

VARIABLES
    uid,      \* [Slots -> the instance of that name]
    born,     \* UIDs that were given out
    policy,   \* of the running manager
    ing,      \* [Slots -> the Ingress of the instance's name]; "edited": its
              \* rules are not those the manager wrote last
    claims,   \* rules of all other Ingresses
    pass,     \* "same": the Ingress is unchanged since the pass read it
    faults

vars == <<uid, born, policy, ing, claims, pass, faults>>

Absent == [owner |-> None, rules |-> {}, edited |-> FALSE]
Idle == [pc |-> "idle", slot |-> CHOOSE s \in Slots : TRUE, uid |-> None, round |-> 1,
         same |-> FALSE]

Init ==
    /\ uid = [s \in Slots |-> None] /\ born = {}
    /\ policy \in Policies
    /\ ing = [s \in Slots |-> Absent] /\ claims = {}
    /\ pass = Idle /\ faults = 0

----------------------------------------------------------------------------
\* The pass

At(p) == pass.pc = p
Proceed(p) == pass' = [pass EXCEPT !.pc = p]
Host == policy[pass.uid]
Named == ing[pass.slot]

\* Mutant: only an exact rule counts as a claim.
claimsHost_Exact(rule, host) == rule = host
claimsHost(rule, host) == rule = host \/ (rule = Wild /\ host \in Covered)

ownsIngress(i) == i.owner # None /\ i.owner = pass.uid

Begin(s) ==
    /\ At("idle") /\ uid[s] # None
    /\ pass' = [Idle EXCEPT !.pc = IF policy[uid[s]] = None THEN "withdraw" ELSE "get",
                            !.slot = s, !.uid = uid[s]]
    /\ UNCHANGED <<uid, born, policy, ing, claims, faults>>

\* checkHostname: the read of the named Ingress
Get ==
    /\ At("get")
    /\ Proceed(IF Named = Absent \/ ownsIngress(Named) THEN "list" ELSE "withdraw")
    /\ UNCHANGED <<uid, born, policy, ing, claims, faults>>

\* Mutant: Ingresses of other instances of this operator are not looked at.
Claimed_ByOthers == \E r \in claims : claimsHost(r, Host)
Claimed ==
    \/ \E r \in claims : claimsHost(r, Host)
    \/ \E s \in Slots : /\ ~(s = pass.slot /\ ownsIngress(ing[s]))
                        /\ \E r \in ing[s].rules : claimsHost(r, Host)

\* checkHostname: the list of all Ingresses
List ==
    /\ At("list")
    /\ Proceed(IF Claimed THEN "withdraw" ELSE IF pass.round = 1 THEN "prepare" ELSE "read")
    /\ UNCHANGED <<uid, born, policy, ing, claims, faults>>

Prepare ==
    /\ At("prepare")
    /\ pass' = [pass EXCEPT !.pc = "get", !.round = 2]
    /\ UNCHANGED <<uid, born, policy, ing, claims, faults>>

\* prepareAccess or a later step fails, or a cutover begins: the route is
\* withdrawn. Or the finalizer was added and the pass starts over.
Divert ==
    /\ At("prepare") /\ faults < MaxFaults /\ faults' = faults + 1
    /\ Proceed("withdraw") \/ pass' = Idle
    /\ UNCHANGED <<uid, born, policy, ing, claims>>

\* reconcileIngress: the read for the update
Read ==
    /\ At("read")
    /\ \/ Named = Absent /\ Proceed("create")
       \/ ownsIngress(Named) /\ Named.rules = {Host} /\ pass' = Idle
       \/ /\ ownsIngress(Named) /\ Named.rules # {Host}
          /\ pass' = [pass EXCEPT !.pc = "update", !.same = TRUE]
       \/ Named # Absent /\ ~ownsIngress(Named) /\ Proceed("withdraw")
    /\ UNCHANGED <<uid, born, policy, ing, claims, faults>>

Written == [owner |-> pass.uid, rules |-> {Host}, edited |-> FALSE]

Create ==
    /\ At("create")
    /\ \/ Named = Absent /\ ing' = [ing EXCEPT ![pass.slot] = Written] /\ pass' = Idle
       \/ Named # Absent /\ Proceed("withdraw") /\ UNCHANGED ing
    /\ UNCHANGED <<uid, born, policy, claims, faults>>

Update ==
    /\ At("update")
    /\ \/ pass.same /\ ing' = [ing EXCEPT ![pass.slot] = Written] /\ pass' = Idle
       \/ ~pass.same /\ Proceed("withdraw") /\ UNCHANGED ing
    /\ UNCHANGED <<uid, born, policy, claims, faults>>

\* withdrawAccess: the read
Withdraw ==
    /\ At("withdraw")
    /\ pass' = IF ownsIngress(Named) THEN [pass EXCEPT !.pc = "delete", !.same = TRUE] ELSE Idle
    /\ UNCHANGED <<uid, born, policy, ing, claims, faults>>

\* Mutant: the delete names the Ingress without UID and resourceVersion.
Delete_ByName ==
    /\ At("delete") /\ pass' = Idle
    /\ ing' = [ing EXCEPT ![pass.slot] = Absent]
    /\ UNCHANGED <<uid, born, policy, claims, faults>>
\* withdrawAccess: the delete, of exactly the object read
Delete ==
    /\ At("delete") /\ pass' = Idle
    /\ ing' = IF pass.same THEN [ing EXCEPT ![pass.slot] = Absent] ELSE ing
    /\ UNCHANGED <<uid, born, policy, claims, faults>>

Work == Get \/ List \/ Prepare \/ Read \/ Create \/ Update \/ Withdraw \/ Delete

----------------------------------------------------------------------------
\* Faults, users, operators, other controllers

Fault == faults < MaxFaults /\ faults' = faults + 1

\* A call of the pass fails before the withdrawal, or during it.
CallFails ==
    /\ Fault /\ ~At("idle")
    /\ pass' = IF At("withdraw") \/ At("delete") THEN Idle ELSE [pass EXCEPT !.pc = "withdraw"]
    /\ UNCHANGED <<uid, born, policy, ing, claims>>

\* The answer to an applied create or update is lost; to the pass it failed.
AnswerLost ==
    /\ Fault
    /\ (At("create") /\ Named = Absent) \/ (At("update") /\ pass.same)
    /\ ing' = [ing EXCEPT ![pass.slot] = Written] /\ Proceed("withdraw")
    /\ UNCHANGED <<uid, born, policy, claims>>

\* The manager stops; it comes back with the same policy or with another.
Restart ==
    /\ Fault /\ pass' = Idle /\ policy' \in Policies
    /\ UNCHANGED <<uid, born, ing, claims>>

\* Users create an instance and remove it; the name may be used again at once.
Born(s) ==
    /\ uid[s] = None
    /\ \E u \in Uids \ born : uid' = [uid EXCEPT ![s] = u] /\ born' = born \cup {u}
    /\ UNCHANGED <<policy, ing, claims, pass, faults>>
Gone(s) ==
    /\ Fault /\ uid[s] # None /\ uid' = [uid EXCEPT ![s] = None]
    /\ UNCHANGED <<born, policy, ing, claims, pass>>

\* Somebody writes the Ingress of slot s: what the pass read is outdated.
Write(s, i) ==
    /\ ing' = [ing EXCEPT ![s] = i]
    /\ pass' = [pass EXCEPT !.same = @ /\ pass.slot # s]

\* The garbage collector removes the Ingress of a removed instance.
Collect(s) ==
    /\ ing[s].owner \in born /\ \A t \in Slots : uid[t] # ing[s].owner
    /\ Write(s, Absent)
    /\ UNCHANGED <<uid, born, policy, claims, faults>>

\* Somebody edits the rules of an instance's Ingress.
Edit(s) ==
    /\ Fault /\ ing[s].owner \in Uids
    /\ \E r \in Rules : Write(s, [ing[s] EXCEPT !.rules = {r}, !.edited = TRUE])
    /\ UNCHANGED <<uid, born, policy, claims>>

\* Another controller creates or removes an Ingress under the instance's name.
Squat(s) ==
    /\ Fault
    /\ \/ ing[s] = Absent /\ \E r \in Rules :
             Write(s, [owner |-> Other, rules |-> {r}, edited |-> FALSE])
       \/ ing[s].owner = Other /\ Write(s, Absent)
    /\ UNCHANGED <<uid, born, policy, claims>>

\* Another controller claims a host, used or not, or gives it up.
Claim(r) ==
    /\ Fault /\ claims' = IF r \in claims THEN claims \ {r} ELSE claims \cup {r}
    /\ UNCHANGED <<uid, born, policy, ing, pass>>

Next ==
    \/ Work \/ Divert \/ CallFails \/ AnswerLost \/ Restart
    \/ \E s \in Slots : Begin(s) \/ Born(s) \/ Gone(s) \/ Collect(s) \/ Edit(s) \/ Squat(s)
    \/ \E r \in Rules : Claim(r)

Spec == Init /\ [][Next]_vars

\* The work queue is first in, first out, and a live instance is always queued or
\* due again: after an error, 2 s or 30 s. Calls return; garbage is collected.
FairSpec ==
    /\ Spec /\ WF_vars(Work)
    /\ \A s \in Slots : SF_vars(Begin(s)) /\ WF_vars(Collect(s))

----------------------------------------------------------------------------
\* Properties

Ours(s) == ing[s].owner \in Uids /\ ~ing[s].edited

\* Every variable keeps its type; a pass works for an instance that existed.
TypeOK ==
    /\ uid \in [Slots -> Uids \cup {None}] /\ born \subseteq Uids
    /\ policy \in Policies /\ ing \in [Slots -> Ingresses] /\ claims \subseteq Rules
    /\ pass \in Passes /\ (pass.pc # "idle" => pass.uid \in born)
    /\ \A s \in Slots : uid[s] \in born \cup {None}
    /\ faults \in 0..MaxFaults

\* No reservation exists, yet two Ingresses the manager wrote never claim one
\* host: not across a change of the policy, a crash between check and write, or
\* the time a removed instance's Ingress waits for the garbage collector.
OwnHostsDistinct ==
    \A s, t \in Slots : s # t /\ Ours(s) /\ Ours(t) => ing[s].rules \cap ing[t].rules = {}

\* "UID preconditions prevent ABA deletes" (access_resources.go): a step of a
\* pass changes no Ingress but one of exactly the instance the pass was begun
\* for, or makes one where there was none; a pass that outlived its instance does
\* not touch the route of the instance that was recreated under the name.
IncarnationsApart ==
    [][Work \/ AnswerLost => \A s \in Slots : ing'[s] # ing[s] =>
          s = pass.slot /\ (ing[s] = Absent \/ ing[s].owner = pass.uid)]_vars

Blocked(h) ==
    LET rules == claims \cup UNION {ing[s].rules : s \in {t \in Slots : ing[t].owner = Other}}
    IN  h \in rules \/ (Wild \in rules /\ h \in Covered)

\* What the manager owes the instance of slot s once nobody interferes: no route
\* if the policy has no name for it or another controller claims the name; else
\* its own Ingress with that name only, unless the Ingress' name is taken.
Settled(s) ==
    LET h == policy[uid[s]]
    IN  uid[s] # None =>
            IF h = None \/ Blocked(h) THEN ing[s].owner # uid[s]
            ELSE ing[s].owner = Other \/ (ing[s].owner = uid[s] /\ ing[s].rules = {h})

\* Conflicts end and addresses settle: hosts that a new policy swaps, edits that
\* let two instances claim each other's host, a host another controller takes
\* after it was checked, an Ingress of a removed instance in the way.
RoutesSettle == <>[](\A s \in Slots : Settled(s))
=============================================================================
