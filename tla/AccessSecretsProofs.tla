------------------------- MODULE AccessSecretsProofs -------------------------
(* Proofs that the properties of AccessSecrets hold for every set of bundles *)
(* and every bound.                                                          *)
EXTENDS AccessSecrets, FiniteSetTheorems, TLAPS

\* The parts of IInv that need no cardinalities and no Boolean variables
Logic ==
    /\ TypeShapes /\ UidsFresh /\ CreatedIsMinted /\ SessionFirst /\ WantKnown
    /\ RetirementSound /\ RunningHasTemplate
    /\ PinsMinted /\ Mounted \subseteq Pinned

\* The initial state satisfies the logical part of the invariant.
LEMMA InitLogic == Init => Logic
<1> SUFFICES ASSUME Init PROVE Logic
  OBVIOUS
<1> USE BoundAssumption, NamesAssumption DEF Init, Names, Absent, Mounted, Pinned
<1>1. TypeShapes /\ RunningHasTemplate /\ PinsMinted /\ Mounted \subseteq Pinned
  BY DEF TypeShapes, RunningHasTemplate, PinsMinted, Steps
<1>2. UidsFresh /\ CreatedIsMinted /\ SessionFirst /\ WantKnown /\ RetirementSound
  BY DEF UidsFresh, CreatedIsMinted, SessionFirst, WantKnown, RetirementSound
<1> QED
  BY <1>1, <1>2 DEF Logic

\* A step of prepareAccess keeps the logical part.
LEMMA PrepareLogic == Logic /\ Prepare => Logic'
<1> SUFFICES ASSUME Logic, Prepare PROVE Logic'
  OBVIOUS
<1> USE BoundAssumption, NamesAssumption
    DEF Names, Absent, Steps, Prepare, objects, Return, Deny, Goto, ReadThen,
        Logic, TypeShapes, UidsFresh, CreatedIsMinted, SessionFirst, WantKnown, RetirementSound,
        RunningHasTemplate, PinsMinted, Mounted, Pinned, Candidates
<1>1. CASE Begin
  BY <1>1 DEF Begin
<1>2. CASE SessionGet
  BY <1>2 DEF SessionGet, Trusted
<1>3. CASE SessionCreate
  BY <1>3 DEF SessionCreate, CreateSecret, Store
<1>4. CASE SessionPin
  BY <1>4 DEF SessionPin, PinSecret, Persist
<1>5. CASE BundleGet
  BY <1>5 DEF BundleGet, Trusted
<1>6. CASE RoomList
  BY <1>6 DEF RoomList, References
<1>7. CASE RoomScan
  BY <1>7 DEF RoomScan
<1>8. CASE RoomDelete
  BY <1>8 DEF RoomDelete, DeleteSecret, Removed
<1>9. CASE RoomConfirm
  BY <1>9 DEF RoomConfirm
<1>10. CASE RoomUnpin
  BY <1>10 DEF RoomUnpin, Persist
<1>11. CASE BundleCreate
  BY <1>11 DEF BundleCreate, CreateSecret, Store
<1>12. CASE BundlePin
  BY <1>12 DEF BundlePin, PinSecret, Persist
<1> QED
  BY <1>1, <1>2, <1>3, <1>4, <1>5, <1>6, <1>7, <1>8, <1>9, <1>10, <1>11, <1>12

\* So does every other step: the rest of the pass, the workload, everyone else.
LEMMA OtherLogic == Logic /\ [Next]_vars /\ ~Prepare => Logic'
<1> SUFFICES ASSUME Logic, [Next]_vars, ~Prepare PROVE Logic'
  OBVIOUS
<1> USE BoundAssumption, NamesAssumption
    DEF Names, Absent, Steps, objects, local, workload, bounds, Return,
        Logic, TypeShapes, UidsFresh, CreatedIsMinted, SessionFirst, WantKnown, RetirementSound,
        RunningHasTemplate, PinsMinted, Mounted, Pinned, Candidates
<1>1. CASE Install
  BY <1>1 DEF Install
<1>2. CASE Cutover
  BY <1>2 DEF Cutover
<1>3. CASE Abort
  <2>1. RunningHasTemplate'
    BY <1>3, Zenon DEF Abort
  <2> QED
    BY <1>3, <2>1 DEF Abort
<1>4. CASE PodStart
  BY <1>4 DEF PodStart
<1>5. CASE PodGone
  BY <1>5 DEF PodGone
<1>6. CASE Rotate
  BY <1>6 DEF Rotate
<1>7. CASE UpgradeSchema
  BY <1>7 DEF UpgradeSchema
<1>8. CASE SpecWrite
  BY <1>8 DEF SpecWrite
<1>9. CASE ForeignDelete
  BY <1>9 DEF ForeignDelete, DeleteSecret, Removed
<1>10. CASE ForeignCreate
  BY <1>10 DEF ForeignCreate, Store
<1>11. CASE Finalized
  BY <1>11 DEF Finalized, Removed
<1>12. CASE DeploymentDeleted
  BY <1>12 DEF DeploymentDeleted
<1>13. CASE ForeignPod
  BY <1>13 DEF ForeignPod
<1>14. CASE UNCHANGED vars
  BY <1>14 DEF vars
<1> QED
  BY <1>1, <1>2, <1>3, <1>4, <1>5, <1>6, <1>7, <1>8, <1>9, <1>10, <1>11, <1>12, <1>13, <1>14
  DEF Next, Pass

\* The Boolean variables keep their type.
LEMMA FlagsStep == TypeFlags /\ [Next]_vars => TypeFlags'
<1> SUFFICES ASSUME TypeFlags, [Next]_vars PROVE TypeFlags'
  OBVIOUS
<1>1. CASE Prepare
  BY <1>1, Zenon
  DEF TypeFlags, Prepare, Begin, SessionGet, SessionCreate, SessionPin, BundleGet, RoomList,
      RoomScan, RoomDelete, RoomConfirm, RoomUnpin, BundleCreate, BundlePin, CreateSecret,
      PinSecret, Persist, ReadThen, Goto, Deny, Return
<1>2. CASE Install \/ Cutover \/ Abort
  BY <1>2, Zenon DEF TypeFlags, Install, Cutover, Abort, Return
<1>3. CASE PodStart \/ PodGone \/ Rotate \/ UpgradeSchema \/ SpecWrite \/ ForeignDelete
           \/ ForeignCreate \/ Finalized \/ DeploymentDeleted \/ ForeignPod
  BY <1>3, Zenon DEF TypeFlags, PodStart, PodGone, Rotate, UpgradeSchema, SpecWrite, ForeignDelete,
      ForeignCreate, Finalized, DeploymentDeleted, ForeignPod, workload
<1>4. CASE UNCHANGED vars
  BY <1>4 DEF vars, TypeFlags
<1> QED
  BY <1>1, <1>2, <1>3, <1>4 DEF Next, Pass

\* What a step may do to the pins: nothing; drop the victim's, whose Secret is
\* gone; or record a first UID for a name, if there is room.
PinStep ==
    \/ pins' = pins
    \/ victim \in Bundles /\ uid[victim] # pins[victim] /\ pins' = [pins EXCEPT ![victim] = Absent]
    \/ \E n \in Names : /\ pins[n] = Absent /\ ~HistoryFull(n)
                        /\ pins' = [pins EXCEPT ![n] = created]

LEMMA PinSteps == Logic /\ [Next]_vars => PinStep
<1> SUFFICES ASSUME Logic, [Next]_vars PROVE PinStep
  OBVIOUS
<1>1. CASE SessionPin
  BY <1>1 DEF SessionPin, PinSecret, Persist, PinStep, Logic, SessionFirst, Names
<1>2. CASE BundlePin
  BY <1>2 DEF BundlePin, PinSecret, Persist, PinStep, Logic, WantKnown, Names
<1>3. CASE RoomUnpin
  BY <1>3 DEF RoomUnpin, Persist, PinStep, Logic, RetirementSound, Candidates, Pinned, Names
<1>4. CASE ~SessionPin /\ ~BundlePin /\ ~RoomUnpin
  BY <1>4 DEF Next, Pass, vars, PinStep, Prepare, Begin, SessionGet, SessionCreate, BundleGet,
      RoomList, RoomScan, RoomDelete, RoomConfirm, BundleCreate, CreateSecret, Install, Cutover,
      Abort, PodStart, PodGone, Rotate, UpgradeSchema, SpecWrite, ForeignDelete, ForeignCreate,
      Finalized, DeploymentDeleted, ForeignPod
<1> QED
  BY <1>1, <1>2, <1>3, <1>4

LEMMA NamesFinite == IsFiniteSet(Names)
  BY BundlesAssumption, FS_AddElement DEF Names

\* The number of pins stays within the bound.
LEMMA CountStep ==
    ASSUME Logic, PinStep, Logic', Cardinality(Pinned) <= MaxAccessBundles + 1
    PROVE  Cardinality(Pinned') <= MaxAccessBundles + 1
<1>1. IsFiniteSet(Pinned) /\ IsFiniteSet(Pinned')
  BY NamesFinite, FS_Subset DEF Pinned
<1>2. Cardinality(Pinned) \in Nat /\ Cardinality(Pinned') \in Nat
  BY <1>1, FS_CardinalityType
<1>3. CASE pins' = pins
  BY <1>3 DEF Pinned
<1>4. CASE \E n \in Names : pins' = [pins EXCEPT ![n] = Absent]
  <2>1. Pinned' \subseteq Pinned
    BY <1>4 DEF Pinned, Logic, TypeShapes
  <2> QED
    BY <2>1, <1>1, <1>2, FS_Subset, BoundAssumption
<1>5. ASSUME NEW n \in Names, pins[n] = Absent, ~HistoryFull(n), pins' = [pins EXCEPT ![n] = created]
      PROVE  Cardinality(Pinned') <= MaxAccessBundles + 1
  <2>1. n \notin Pinned /\ Cardinality(Pinned) <= MaxAccessBundles
    BY <1>5, <1>2, BoundAssumption DEF HistoryFull, PinCount, Pinned
  <2>2. Pinned' \subseteq Pinned \cup {n}
    BY <1>5 DEF Pinned, Logic, TypeShapes
  <2>3. IsFiniteSet(Pinned \cup {n}) /\ Cardinality(Pinned \cup {n}) = Cardinality(Pinned) + 1
    BY <1>1, <2>1, FS_AddElement
  <2>4. Cardinality(Pinned') <= Cardinality(Pinned \cup {n})
    BY <2>2, <2>3, FS_Subset
  <2> QED
    BY <2>1, <2>3, <2>4, <1>2, BoundAssumption
<1> QED
  BY <1>3, <1>4, <1>5 DEF PinStep, Names

\* IInv is inductive.
LEMMA InitIInv == Init => IInv
<1> SUFFICES ASSUME Init PROVE IInv
  OBVIOUS
<1>1. Logic
  BY InitLogic
<1>2. TypeFlags
  BY Zenon DEF Init, TypeFlags
<1>3. Pinned = {}
  BY DEF Init, Pinned
<1>4. Cardinality(Pinned) <= MaxAccessBundles + 1
  BY <1>3, FS_EmptySet, BoundAssumption
<1> QED
  BY <1>1, <1>2, <1>4 DEF IInv, Logic, TypeOK

LEMMA StepIInv == IInv /\ [Next]_vars => IInv'
<1> SUFFICES ASSUME IInv, [Next]_vars PROVE IInv'
  OBVIOUS
<1>1. Logic /\ TypeFlags
  BY DEF IInv, Logic, TypeOK
<1>2. Logic'
  BY <1>1, PrepareLogic, OtherLogic
<1>3. TypeFlags'
  BY <1>1, FlagsStep
<1>4. (Cardinality(Pinned) <= MaxAccessBundles + 1)'
  BY <1>1, <1>2, PinSteps, CountStep DEF IInv
<1> QED
  BY <1>2, <1>3, <1>4 DEF IInv, Logic, TypeOK

\* The inductive invariant holds of every reachable state.
THEOREM Invariance == Spec => []IInv
  BY InitIInv, StepIInv, PTL DEF Spec

\* Every variable of the access Secret model keeps its type.
THEOREM TypeCorrect == Spec => []TypeOK
<1>1. IInv => TypeOK
  BY DEF IInv
<1> QED
  BY <1>1, Invariance, PTL

\* makeAccessSecretRoom and pinAccessSecret together keep the session pin and at
\* most maxAccessBundles configuration pins, whatever maxAccessBundles is.
THEOREM HistoryIsBounded == Spec => []HistoryBounded
<1>1. ASSUME IInv PROVE HistoryBounded
  <2> DEFINE B == {b \in Bundles : pins[b] # Absent}
  <2>1. Pinned = {n \in Names : pins[n] # Absent}
    BY DEF Pinned
  <2>2. IsFiniteSet(Pinned) /\ IsFiniteSet(B) /\ Cardinality(Pinned) \in Nat /\ Cardinality(B) \in Nat
    BY NamesFinite, BundlesAssumption, FS_Subset, FS_CardinalityType DEF Pinned
  <2>3. CASE pins[Session] = Absent
    <3>1. B = {}
      BY <1>1, <2>3 DEF IInv, SessionFirst, Pinned, Names
    <3> QED
      BY <3>1, <2>1, FS_EmptySet, <1>1, BoundAssumption DEF HistoryBounded, IInv
  <2>4. CASE pins[Session] # Absent
    <3>1. Pinned = B \cup {Session} /\ Session \notin B
      BY <2>4, NamesAssumption DEF Pinned, Names
    <3>2. Cardinality(Pinned) = Cardinality(B) + 1
      BY <3>1, <2>2, FS_AddElement
    <3> QED
      BY <3>2, <2>1, <2>2, <1>1, BoundAssumption DEF HistoryBounded, IInv
  <2> QED
    BY <2>3, <2>4
<1> QED
  BY <1>1, Invariance, PTL

\* Every pin was established by a Create of the controller itself: an orphan or
\* a Secret recreated by somebody else is never adopted.
THEOREM PinsAreMinted == Spec => []PinsMinted
<1>1. IInv => PinsMinted
  BY DEF IInv
<1> QED
  BY <1>1, Invariance, PTL

\* No bundle mounted by the template or by a pod, terminating or not, is ever
\* unpinned or chosen for retirement.
THEOREM LiveMountsAreKept == Spec => []LiveMountKept
<1>1. IInv => LiveMountKept
  BY DEF IInv, LiveMountKept, RetirementSound, Candidates
<1> QED
  BY <1>1, Invariance, PTL

\* The session pin is permanent.
THEOREM SessionPinIsPermanent == Spec => SessionPinPermanent
<1>1. IInv /\ [Next]_vars => [pins[Session] # Absent => pins'[Session] = pins[Session]]_vars
  <2> SUFFICES ASSUME IInv, [Next]_vars, pins[Session] # Absent
               PROVE  pins'[Session] = pins[Session]
    OBVIOUS
  <2>1. Logic
    BY DEF IInv, Logic, TypeOK
  <2>2. PinStep
    BY <2>1, PinSteps
  <2> QED
    BY <2>1, <2>2, NamesAssumption DEF PinStep, Logic, TypeShapes, Names
<1> QED
  BY <1>1, Invariance, PTL DEF Spec, SessionPinPermanent

\* A pin is forgotten only when its Secret is gone, and never moves to another UID.
THEOREM ForgottenWhenGone == Spec => ForgottenOnlyWhenGone
<1>1. IInv /\ [Next]_vars
      => [\A n \in Names : pins'[n] # pins[n] /\ pins[n] # Absent
            => pins'[n] = Absent /\ uid[n] # pins[n]]_vars
  <2> SUFFICES ASSUME IInv, [Next]_vars,
                      NEW n \in Names, pins'[n] # pins[n], pins[n] # Absent
               PROVE  pins'[n] = Absent /\ uid[n] # pins[n]
    OBVIOUS
  <2>1. Logic
    BY DEF IInv, Logic, TypeOK
  <2>2. PinStep
    BY <2>1, PinSteps
  <2> QED
    BY <2>1, <2>2 DEF PinStep, Logic, TypeShapes, Names
<1> QED
  BY <1>1, Invariance, PTL DEF Spec, ForgottenOnlyWhenGone

----------------------------------------------------------------------------
\* The Secrets implement the ledger of AccessRegistry.

\* Creations by a pass or by others: an object appears.
LEMMA AppearSim ==
    ASSUME Logic, NEW n \in Names, NEW ok \in BOOLEAN, uid[n] = Absent, Store(n, ok),
           minted' \in {minted, [minted EXCEPT ![n] = @ \cup {nextUid}]},
           UNCHANGED <<pins, template, pods>>
    PROVE  Registry!Appear(n)
<1>1. nextUid \in Nat \ (1..(nextUid - 1) \cup {0}) /\ uid'[n] = nextUid
  BY DEF Store, Logic, TypeShapes
<1>2. (1..(nextUid - 1))' = 1..(nextUid - 1) \cup {uid'[n]}
  BY <1>1 DEF Store, Logic, TypeShapes
<1> QED
  BY <1>1, <1>2 DEF Registry!Appear, Registry!Nothing, Store, Absent, Mounted

\* Deletions by a pass or by others: an object vanishes, or stays for now.
LEMMA VanishSim ==
    ASSUME Logic, NEW n \in Names, DeleteSecret(n) \/ Removed(n),
           UNCHANGED <<nextUid, minted, pins, template, pods>>
    PROVE  Registry!Vanish(n) \/ UNCHANGED Registry!vars
BY DEF DeleteSecret, Removed, Registry!Vanish, Registry!vars, Registry!Nothing, Absent, Mounted

\* The ledger counts as the Secrets do.
LEMMA SameCardinality == ASSUME NEW S PROVE Registry!Cardinality(S) = Cardinality(S)
BY Zenon DEF Registry!Cardinality, Cardinality

\* A pin is a record.
LEMMA RecordSim ==
    ASSUME Logic, NEW n \in Names, pins[n] = Absent, ~HistoryFull(n), created \in minted[n],
           n # Session => pins[Session] # Absent, pins' = [pins EXCEPT ![n] = created],
           UNCHANGED <<objects, template, pods>>
    PROVE  Registry!Record(n)
<1>1. Registry!Recorded = Pinned
  BY DEF Registry!Recorded, Registry!Names, Registry!Nothing, Pinned, Names, Absent
<1>2. Cardinality(Pinned) <= MaxAccessBundles
  <2>1. Cardinality(Pinned) \in Nat
    BY NamesFinite, FS_Subset, FS_CardinalityType DEF Pinned
  <2> QED BY <2>1, BoundAssumption DEF HistoryFull, PinCount, Pinned
<1> QED
  BY <1>1, <1>2, SameCardinality DEF Registry!Record, Registry!Nothing, objects, Absent, Mounted

\* Every step of the Secrets is a step of the ledger, or changes nothing of it.
LEMMA RegistryStep == IInv /\ [Next]_vars => [Registry!Next]_(Registry!vars)
<1> SUFFICES ASSUME IInv, [Next]_vars PROVE Registry!Next \/ UNCHANGED Registry!vars
  OBVIOUS
<1>0. Logic /\ Registry!Names = Names
  BY DEF IInv, Logic, TypeOK, Names, Registry!Names
<1> USE DEF Registry!Next, Absent
<1>1. CASE Prepare
  <2> USE <1>1 DEF Prepare, Deny, Return, Goto, ReadThen
  <2>0. UNCHANGED <<template, pods>>
    OBVIOUS
  <2>1. CASE UNCHANGED <<objects, pins>>
    BY <2>0, <2>1 DEF Registry!vars, Mounted, objects
  <2>2. ASSUME NEW n \in Names, NEW step, CreateSecret(n, step)
        PROVE  Registry!Next \/ UNCHANGED Registry!vars
    BY <1>0, <2>0, <2>1, <2>2, AppearSim DEF CreateSecret
  <2>3. CASE SessionCreate \/ BundleCreate
    BY <1>0, <2>2, <2>3 DEF SessionCreate, BundleCreate, Names, Logic, WantKnown
  <2>4. ASSUME NEW n \in Names, NEW step, PinSecret(n, step), pins[n] = Absent,
               created \in minted[n], n # Session => pins[Session] # Absent
        PROVE  Registry!Next \/ UNCHANGED Registry!vars
    BY <1>0, <2>0, <2>1, <2>4, RecordSim DEF PinSecret, Persist, objects
  <2>5. CASE SessionPin
    BY <1>0, <2>4, <2>5 DEF SessionPin, Names, Logic, SessionFirst, CreatedIsMinted
  <2>6. CASE BundlePin
    BY <1>0, <2>4, <2>6
       DEF BundlePin, Names, Logic, SessionFirst, CreatedIsMinted, WantKnown, Steps
  <2>7. CASE RoomDelete
    <3>1. victim \in Names
      BY <1>0, <2>7 DEF RoomDelete, Logic, RetirementSound, Candidates, Pinned
    <3> QED BY <1>0, <2>0, <2>1, <2>7, <3>1, VanishSim DEF RoomDelete, objects
  <2>8. CASE RoomUnpin
    <3>1. /\ victim \in Bundles /\ pins[victim] # 0 /\ victim \notin Mounted
          /\ uid[victim] # pins[victim]
      BY <1>0, <2>8 DEF RoomUnpin, Logic, RetirementSound, Candidates, Pinned, Names
    <3>2. CASE pins' = [pins EXCEPT ![victim] = Absent]
      <4>1. Registry!Forget(victim)
        BY <1>0, <2>0, <2>8, <3>1, <3>2
           DEF Registry!Forget, Registry!Recorded, Registry!Nothing, Names, RoomUnpin, Persist,
               objects, Mounted
      <4> QED BY <3>1, <4>1
    <3> QED BY <2>1, <2>8, <3>2 DEF RoomUnpin, Persist
  <2>9. CASE Begin \/ SessionGet \/ BundleGet \/ RoomList \/ RoomScan \/ RoomConfirm
    BY <2>1, <2>9 DEF Begin, SessionGet, BundleGet, RoomList, RoomScan, RoomConfirm
  <2> QED BY <2>3, <2>5, <2>6, <2>7, <2>8, <2>9
<1>2. CASE Install
  <2>1. want \in Bundles /\ pins[want] # 0
    BY <1>0, <1>2 DEF Install, Logic, WantKnown
  <2>2. Registry!Mount(want)
    BY <1>0, <1>2, <2>1, NamesAssumption
       DEF Install, Registry!Mount, Registry!Recorded, Registry!Nothing, Names, Mounted, objects
  <2> QED BY <2>1, <2>2
<1>3. CASE PodStart \/ PodGone \/ DeploymentDeleted
  BY <1>0, <1>3 DEF PodStart, PodGone, DeploymentDeleted, Registry!Unmount, Mounted, objects, Logic,
      RunningHasTemplate
<1>4. CASE ForeignCreate
  BY <1>0, <1>4, AppearSim DEF ForeignCreate, workload
<1>5. CASE ForeignDelete \/ Finalized
  BY <1>0, <1>5, VanishSim DEF ForeignDelete, Finalized, Logic, TypeShapes, workload
<1>6. CASE \/ Cutover \/ Abort \/ Rotate \/ UpgradeSchema \/ SpecWrite \/ ForeignPod
           \/ UNCHANGED vars
  BY <1>6 DEF Cutover, Abort, Rotate, UpgradeSchema, SpecWrite, ForeignPod, vars, objects, workload,
      Registry!vars, Mounted
<1> QED
  BY <1>1, <1>2, <1>3, <1>4, <1>5, <1>6 DEF Next, Pass

\* prepareAccess and what surrounds it implement the ledger of AccessRegistry.
THEOREM RegistryImplemented == Spec => ImplementsRegistry
<1>1. Init => Registry!Init
  BY NamesAssumption DEF Init, Registry!Init, Registry!Names, Registry!Nothing, Names, Absent, Mounted
<1> QED
  BY <1>1, RegistryStep, Invariance, PTL DEF Spec, ImplementsRegistry, Registry!Spec
=============================================================================
