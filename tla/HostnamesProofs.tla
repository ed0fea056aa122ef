--------------------------- MODULE HostnamesProofs ---------------------------
(***************************************************************************)
(* Two Ingresses of the manager never claim one host, and a pass touches   *)
(* no route but that of the instance it was begun for, proved for any      *)
(* number of instances, hosts and policies.                                *)
(***************************************************************************)
EXTENDS Hostnames, TLAPS

\* Between the second list and the write no other Ingress of ours has the host:
\* only the pass makes one, and an edit makes it somebody else's doing.
HostFree ==
    /\ pass.pc \in {"get", "list", "prepare", "read", "create", "update"} => Host # None
    /\ pass.pc \in {"read", "create", "update"} =>
          \A s \in Slots : s # pass.slot /\ Ours(s) => Host \notin ing[s].rules

\* An Ingress unchanged since the pass found it its own is its own.
Snapshot == pass.pc \in {"update", "delete"} /\ pass.same => Named.owner = pass.uid

IInv == TypeOK /\ HostFree /\ Snapshot /\ OwnHostsDistinct

\* The idle pass is a pass.
LEMMA IdleType == Idle \in Passes
BY NamesAssumption DEF Idle, Passes, Steps

\* The invariant holds at first: nobody has a route.
LEMMA InitIInv == Init => IInv
BY NamesAssumption, BoundAssumption, IdleType
   DEF Init, IInv, TypeOK, HostFree, Snapshot, OwnHostsDistinct, Ours, Absent, Ingresses, Idle

\* Steps that leave the Ingresses and the policy alone.
LEMMA Reads ==
    ASSUME IInv,
           Work \/ Divert \/ CallFails \/ (\E s \in Slots : Begin(s) \/ Born(s) \/ Gone(s))
             \/ \E r \in Rules : Claim(r),
           ing' = ing
    PROVE  IInv'
<1> USE DEF IInv, TypeOK, HostFree, Snapshot, OwnHostsDistinct, Ours, Passes, Steps, At, Proceed,
            Host, Named, ownsIngress, Fault
<1>0. Idle \in Passes /\ Idle.pc = "idle"
  BY IdleType DEF Idle
<1>1. ASSUME NEW s \in Slots, Begin(s) PROVE IInv'
  BY <1>1, <1>0, PoliciesAssumption, NamesAssumption DEF Begin, Idle
<1>2. CASE Get
  BY <1>2 DEF Get
<1>3. CASE List
  <2>1. ~Claimed => \A s \in Slots : s # pass.slot => Host \notin ing[s].rules
    BY DEF Claimed, claimsHost
  <2> QED BY <1>3, <2>1 DEF List
<1>4. CASE Prepare
  BY <1>4 DEF Prepare
<1>5. CASE Divert
  <2>1. UNCHANGED <<uid, born, policy, claims>> /\ faults' \in 0..MaxFaults
    BY <1>5, BoundAssumption DEF Divert
  <2>2. CASE pass' = Idle
    BY <1>0, <2>1, <2>2 DEF Idle
  <2>3. CASE pass' = [pass EXCEPT !.pc = "withdraw"]
    BY <1>5, <2>1, <2>3 DEF Divert
  <2> QED BY <1>5, <2>2, <2>3 DEF Divert
<1>6. CASE Read
  <2>0. UNCHANGED <<uid, born, policy, ing, claims, faults>>
    BY <1>6 DEF Read
  <2>1. CASE pass' = Idle
    BY <1>0, <2>0, <2>1 DEF Idle
  <2>2. CASE \E p \in {"create", "withdraw"} : pass' = [pass EXCEPT !.pc = p]
    BY <1>6, <2>0, <2>2 DEF Read
  <2>3. CASE ownsIngress(Named) /\ pass' = [pass EXCEPT !.pc = "update", !.same = TRUE]
    BY <1>6, <2>0, <2>3 DEF Read
  <2> QED BY <1>6, <2>1, <2>2, <2>3 DEF Read
<1>7. CASE Create \/ Update \/ Delete
  BY <1>7, <1>0 DEF Create, Update, Delete, Idle
<1>8. CASE Withdraw
  BY <1>8, <1>0 DEF Withdraw, Idle
<1>9. CASE CallFails
  BY <1>9, <1>0, BoundAssumption DEF CallFails, Idle
<1>10. ASSUME NEW s \in Slots, Born(s) \/ Gone(s) PROVE IInv'
  BY <1>10, NamesAssumption, BoundAssumption DEF Born, Gone
<1>11. ASSUME NEW r \in Rules, Claim(r) PROVE IInv'
  BY <1>11, BoundAssumption DEF Claim
<1> QED BY <1>1, <1>2, <1>3, <1>4, <1>5, <1>6, <1>7, <1>8, <1>9, <1>10, <1>11 DEF Work

\* The pass writes its host over its own Ingress or where there was none.
LEMMA Writes ==
    ASSUME IInv, At("create") \/ At("update"),
           ing' = [ing EXCEPT ![pass.slot] = Written],
           pass' = Idle \/ pass' = [pass EXCEPT !.pc = "withdraw"],
           UNCHANGED <<uid, born, policy, claims>>, faults' \in 0..MaxFaults
    PROVE  IInv'
<1> USE DEF IInv, TypeOK, HostFree, At
<1>1. Written \in Ingresses /\ Written.rules = {Host} /\ ~Written.edited
  BY PoliciesAssumption DEF Written, Ingresses, Rules, Host, Passes
<1>2. TypeOK' /\ HostFree' /\ Snapshot'
  BY <1>1, IdleType DEF Idle, Snapshot, Passes, Steps
<1>3. OwnHostsDistinct'
  BY <1>1 DEF OwnHostsDistinct, Ours, Passes
<1> QED BY <1>2, <1>3

\* One Ingress is removed, becomes another controller's, or is edited.
LEMMA Elsewhere ==
    ASSUME IInv, NEW s \in Slots, NEW i \in Ingresses,
           ing' = [ing EXCEPT ![s] = i], i.owner \notin Uids \/ i.edited,
           pass' = Idle \/ pass' = [pass EXCEPT !.same = @ /\ pass.slot # s],
           UNCHANGED <<uid, born, policy, claims>>, faults' \in 0..MaxFaults
    PROVE  IInv'
<1> USE DEF IInv, TypeOK, HostFree
<1>0. /\ pass' \in Passes
      /\ \/ pass'.pc = "idle"
         \/ /\ pass'.pc = pass.pc /\ pass'.slot = pass.slot /\ pass'.uid = pass.uid
            /\ pass'.same => pass.same /\ pass.slot # s
  <2>1. CASE pass' = Idle
    BY <2>1, IdleType DEF Idle
  <2>2. CASE pass' = [pass EXCEPT !.same = @ /\ pass.slot # s]
    BY <2>2 DEF Passes
  <2> QED BY <2>1, <2>2
<1>1. TypeOK'
  BY <1>0
<1>2. HostFree' /\ OwnHostsDistinct'
  BY <1>0 DEF Passes, Host, Ours, OwnHostsDistinct
<1>3. Snapshot'
  BY <1>0 DEF Passes, Snapshot, Named
<1> QED BY <1>1, <1>2, <1>3

\* Every step keeps the invariant.
LEMMA NextIInv == IInv /\ [Next]_vars => IInv'
<1> SUFFICES ASSUME IInv, [Next]_vars PROVE IInv'
  OBVIOUS
<1> USE BoundAssumption
<1>0. /\ Absent \in Ingresses /\ Absent.owner \notin Uids
      /\ faults \in 0..MaxFaults /\ pass \in Passes /\ ing \in [Slots -> Ingresses]
  BY NamesAssumption DEF Absent, Ingresses, IInv, TypeOK
<1>1. CASE ing' # ing /\ (Create \/ Update \/ AnswerLost)
  BY <1>0, <1>1, Writes DEF Create, Update, AnswerLost, At, Proceed, Fault
<1>2. CASE ing' # ing /\ Delete
  <2>1. pass.slot \in Slots
    BY <1>0 DEF Passes
  <2> QED BY <1>0, <1>2, <2>1, Elsewhere DEF Delete, At
<1>3. ASSUME NEW s \in Slots, Collect(s) PROVE IInv'
  BY <1>0, <1>3, Elsewhere DEF Collect, Write
<1>4. ASSUME NEW s \in Slots, Edit(s) PROVE IInv'
  <2>1. PICK r \in Rules : Write(s, [ing[s] EXCEPT !.rules = {r}, !.edited = TRUE])
    BY <1>4 DEF Edit
  <2>2. [ing[s] EXCEPT !.rules = {r}, !.edited = TRUE] \in Ingresses
    BY <1>0 DEF Ingresses
  <2>3. [ing[s] EXCEPT !.rules = {r}, !.edited = TRUE].edited
    BY <1>0 DEF Ingresses
  <2>4. UNCHANGED <<uid, born, policy, claims>> /\ faults' \in 0..MaxFaults
    BY <1>0, <1>4 DEF Edit, Fault
  <2> QED BY <2>1, <2>2, <2>3, <2>4, Elsewhere DEF Write
<1>5. ASSUME NEW s \in Slots, Squat(s) PROVE IInv'
  <2>1. PICK i \in Ingresses : i.owner \notin Uids /\ Write(s, i)
    BY <1>5, <1>0, NamesAssumption DEF Squat, Ingresses
  <2>2. UNCHANGED <<uid, born, policy, claims>> /\ faults' \in 0..MaxFaults
    BY <1>0, <1>5 DEF Squat, Fault
  <2> QED BY <2>1, <2>2, Elsewhere DEF Write
<1>6. CASE Restart
  BY <1>6, IdleType
     DEF Restart, Fault, IInv, TypeOK, HostFree, Snapshot, OwnHostsDistinct, Ours, Idle, Passes
<1>7. CASE UNCHANGED vars
  BY <1>7 DEF vars, IInv, TypeOK, HostFree, Snapshot, OwnHostsDistinct, Ours, Host, Named
<1>8. CASE /\ ing' = ing
           /\ \/ Work \/ Divert \/ CallFails
              \/ \E s \in Slots : Begin(s) \/ Born(s) \/ Gone(s)
              \/ \E r \in Rules : Claim(r)
  BY <1>8, Reads
<1>9. /\ Get \/ List \/ Prepare \/ Read \/ Withdraw => ing' = ing
      /\ Divert \/ CallFails => ing' = ing
      /\ \A s \in Slots : Begin(s) \/ Born(s) \/ Gone(s) => ing' = ing
      /\ \A r \in Rules : Claim(r) => ing' = ing
  BY DEF Get, List, Prepare, Read, Withdraw, Divert, CallFails, Begin, Born, Gone, Claim
<1>10. CASE AnswerLost /\ ing' = ing
  BY <1>10, <1>0, Writes DEF AnswerLost, At, Proceed, Fault
<1> QED BY <1>1, <1>2, <1>3, <1>4, <1>5, <1>6, <1>7, <1>8, <1>9, <1>10 DEF Next, Work

\* The invariant that everything else rests on.
THEOREM SpecIInv == Spec => []IInv
BY InitIInv, NextIInv, PTL DEF Spec

\* Every reachable state is well typed.
THEOREM TypeCorrect == Spec => []TypeOK
BY SpecIInv, PTL DEF IInv

\* reconcileIngress never gives two instances one host.
THEOREM HostsDistinct == Spec => []OwnHostsDistinct
BY SpecIInv, PTL DEF IInv

\* What a pass writes or deletes is the route of its own instance.
LEMMA StepApart ==
    ASSUME IInv, Work \/ AnswerLost, NEW s \in Slots, ing'[s] # ing[s]
    PROVE  s = pass.slot /\ (ing[s] = Absent \/ ing[s].owner = pass.uid)
<1>1. CASE Get \/ List \/ Prepare \/ Read \/ Withdraw
  BY <1>1 DEF Get, List, Prepare, Read, Withdraw
<1>2. CASE Create \/ Update \/ Delete \/ AnswerLost
  BY <1>2 DEF Create, Update, Delete, AnswerLost, IInv, TypeOK, Snapshot, At, Named
<1> QED BY <1>1, <1>2 DEF Work

\* A pass never changes the route of another incarnation or controller.
THEOREM RoutesApart == Spec => IncarnationsApart
<1>1. IInv /\ [Next]_vars =>
        [Work \/ AnswerLost => \A s \in Slots : ing'[s] # ing[s] =>
            s = pass.slot /\ (ing[s] = Absent \/ ing[s].owner = pass.uid)]_vars
  BY StepApart
<1> QED BY <1>1, SpecIInv, PTL DEF Spec, IncarnationsApart
=============================================================================
