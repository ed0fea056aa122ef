---------------------------- MODULE ManagerProofs ----------------------------
(***************************************************************************)
(* What holds of the manager as a process.                                 *)
(*  - Its start: the two policy files, for every file, every set of UIDs,  *)
(*    identities and labels and every digest without collisions.  Each     *)
(*    loop is proved on its own, for HostnamePolicy and AccessPolicy, and  *)
(*    the start is shown to implement both.                                *)
(*  - Its watches (CredentialsWatch), for any instances, Secrets, changes  *)
(*    and faults: what a workload was built from, and whom nobody forgets. *)
(***************************************************************************)
EXTENDS ManagerStart, CredentialsState, TLAPS, FiniteSetTheorems, SequenceTheorems

----------------------------------------------------------------------------
\* The hostname policy

Parsed == 1..(next - 1)
IsLegacy(i) == file[i].mode = "legacy"

\* The loop's part of the file is unambiguous, and its sets are those of that part.
Prefix ==
    /\ \A i \in Parsed : validateEntry(file[i])
    /\ \A i, j \in Parsed : i # j =>
          /\ file[i].uid # file[j].uid /\ file[i].identity # file[j].identity
          /\ IsLegacy(i) /\ IsLegacy(j) => file[i].slug # file[j].slug
    /\ entries = {file[i] : i \in Parsed}
    /\ \A x : x \in identities <=> \E i \in Parsed : file[i].identity = x
    /\ \A x : x \in slugs <=> \E i \in Parsed : IsLegacy(i) /\ file[i].slug = x

Shape ==
    /\ \E n \in 0..MaxEntries : file \in [1..n -> Entries]
    /\ Len(file) \in Nat /\ DOMAIN file = 1..Len(file)
    /\ next \in 1..(Len(file) + 1)
    /\ verdict \in {"parsing", "rejected", "accepted", "running", "refused"}

Decided ==
    /\ verdict \in {"accepted", "running", "refused"} => next = Len(file) + 1
    /\ verdict = "rejected" =>
          /\ next <= Len(file)
          /\ ~validateEntry(file[next]) \/ Duplicate(file[next])
    /\ verdict = "running" => ValidatePublicHost

HostnameInv == Shape /\ Prefix /\ Decided

\* The loop starts with an empty prefix.
LEMMA InitHostnameInv == Init => HostnameInv
<1> SUFFICES ASSUME Init PROVE HostnameInv
  OBVIOUS
<1>1. PICK n \in 0..MaxEntries : file \in [1..n -> Entries]
  BY DEF Init
<1>2. Len(file) = n /\ DOMAIN file = 1..n
  BY <1>1
<1> QED
  BY <1>1, <1>2, BoundAssumption DEF Init, HostnameInv, Shape, Prefix, Decided, Parsed

\* Taking an entry extends the prefix.
LEMMA TakeKeeps == HostnameInv /\ Take => HostnameInv'
<1> SUFFICES ASSUME HostnameInv, Take PROVE HostnameInv'
  OBVIOUS
<1> DEFINE e == file[next]
<1>1. next \in 1..Len(file) /\ next' = next + 1 /\ file' = file /\ verdict' = verdict
      /\ verdict = "parsing"
  BY DEF Take, HostnameInv, Shape
<1>2. Parsed' = Parsed \cup {next} /\ next \notin Parsed
  BY <1>1 DEF Parsed
<1>3. validateEntry(e) /\ ~Duplicate(e)
  BY DEF Take
<1>4. \A i \in Parsed :
         /\ file[i].uid # e.uid /\ file[i].identity # e.identity
         /\ IsLegacy(i) /\ IsLegacy(next) => file[i].slug # e.slug
  BY <1>3 DEF Duplicate, HostnameInv, Prefix, IsLegacy
<1>5. Shape'
  BY <1>1 DEF HostnameInv, Shape
<1>6. \A i \in Parsed' : validateEntry(file[i])
  BY <1>2, <1>3 DEF HostnameInv, Prefix
<1>7. \A i, j \in Parsed' : i # j =>
         /\ file[i].uid # file[j].uid /\ file[i].identity # file[j].identity
         /\ IsLegacy(i) /\ IsLegacy(j) => file[i].slug # file[j].slug
  BY <1>2, <1>4 DEF HostnameInv, Prefix
<1>8. entries' = {file[i] : i \in Parsed'}
  BY <1>2 DEF Take, HostnameInv, Prefix
<1>9. \A x : x \in identities' <=> \E i \in Parsed' : file[i].identity = x
  BY <1>2 DEF Take, HostnameInv, Prefix
<1>10. \A x : x \in slugs' <=> \E i \in Parsed' : IsLegacy(i) /\ file[i].slug = x
  <2>1. slugs' = IF IsLegacy(next) THEN slugs \cup {e.slug} ELSE slugs
    BY DEF Take, IsLegacy
  <2> QED
    BY <2>1, <1>2 DEF HostnameInv, Prefix
<1>11. Prefix'
  BY <1>1, <1>6, <1>7, <1>8, <1>9, <1>10 DEF Prefix, IsLegacy, validateEntry
<1>12. Decided'
  BY <1>1 DEF Decided
<1> QED
  BY <1>5, <1>11, <1>12 DEF HostnameInv

\* Every step keeps the invariant.
LEMMA NextHostnameInv == HostnameInv /\ [Next]_vars => HostnameInv'
<1> SUFFICES ASSUME HostnameInv, [Next]_vars PROVE HostnameInv'
  OBVIOUS
<1>1. CASE Reject \/ Accept \/ Start
  <2>1. UNCHANGED <<file, next, entries, identities, slugs>>
    BY <1>1 DEF Reject, Accept, Start
  <2>2. Prefix'
    BY <2>1 DEF HostnameInv, Prefix, Parsed, IsLegacy, validateEntry
  <2>3. Shape'
    BY <1>1, <2>1 DEF HostnameInv, Shape, Reject, Accept, Start
  <2>4. Decided'
    BY <1>1, <2>1 DEF HostnameInv, Shape, Decided, Reject, Accept, Start, validateEntry, Duplicate,
       ValidatePublicHost, Fits
  <2> QED
    BY <2>2, <2>3, <2>4 DEF HostnameInv
<1>2. CASE UNCHANGED vars
  BY <1>2 DEF vars, HostnameInv, Shape, Prefix, Decided, Parsed, IsLegacy, validateEntry, Duplicate,
     ValidatePublicHost, Fits
<1> QED
  BY <1>1, <1>2, TakeKeeps DEF Next

\* The inductive invariant holds in every behaviour.
THEOREM HostnameInvariant == Spec => []HostnameInv
  BY InitHostnameInv, NextHostnameInv, PTL DEF Spec

\* Every variable keeps its type.
THEOREM TypeCorrect == Spec => []TypeOK
<1>1. HostnameInv => TypeOK
  BY DEF HostnameInv, Shape, Prefix, TypeOK, Parsed, IsLegacy
<1> QED
  BY <1>1, HostnameInvariant, PTL

\* Parse accepts exactly the unambiguous files, of any length.
THEOREM ParseIsExact == Spec => []ParseExact
<1>1. HostnameInv => ParseExact
  <2> SUFFICES ASSUME HostnameInv PROVE ParseExact
    OBVIOUS
  <2>1. CASE verdict \in {"accepted", "running", "refused"}
    <3>1. DOMAIN file = Parsed
      BY <2>1 DEF HostnameInv, Shape, Decided, Parsed
    <3> QED
      BY <2>1, <3>1 DEF ParseExact, Unambiguous, HostnameInv, Prefix, IsLegacy
  <2>2. CASE verdict = "rejected"
    <3>1. next \in DOMAIN file /\ (~validateEntry(file[next]) \/ Duplicate(file[next]))
      BY <2>2 DEF HostnameInv, Shape, Decided
    <3>2. \A i \in Parsed : i \in DOMAIN file /\ i # next
      BY DEF Parsed, HostnameInv, Shape
    <3>3. CASE Duplicate(file[next])
      BY <2>2, <3>1, <3>2, <3>3 DEF Duplicate, HostnameInv, Prefix, IsLegacy, ParseExact, Unambiguous
    <3> QED
      BY <2>2, <3>1, <3>3 DEF ParseExact, Unambiguous
  <2>3. CASE verdict = "parsing"
    BY <2>3 DEF ParseExact
  <2> QED
    BY <2>1, <2>2, <2>3 DEF HostnameInv, Shape
<1> QED
  BY <1>1, HostnameInvariant, PTL

\* What the loop leaves of an entry: well formed, and the only one of its UID.
LEMMA EntryFacts ==
    ASSUME HostnameInv
    PROVE  /\ \A e \in entries : validateEntry(e)
           /\ \A e, f \in entries : e.uid = f.uid \/ e.identity = f.identity => e = f
           /\ \A e, f \in entries : e.mode = "legacy" /\ f.mode = "legacy" /\ e.slug = f.slug => e = f
  BY DEF HostnameInv, Prefix, IsLegacy

\* Select gives a mapped legacy name or the digest of the UID.
LEMMA SelectCases ==
    ASSUME HostnameInv, NEW o \in Objects, Named(o)
    PROVE  /\ o.uid \in Uids
           /\ \/ Select(o).slug = Digest[o.uid]
              \/ \E e \in entries : /\ e.mode = "legacy" /\ Select(o).slug = e.slug
                                    /\ e.uid = o.uid /\ e.identity = o.identity
<1>1. o.uid \in Uids
  BY DEF Named, Select
<1>2. CASE Mapped(o)
  <2>1. EntryOf(o) \in entries /\ EntryOf(o).uid = o.uid
    BY <1>2 DEF Mapped, EntryOf
  <2> QED
    BY <1>1, <1>2, <2>1 DEF Named, Select, Derived
<1>3. CASE ~Mapped(o)
  BY <1>1, <1>3 DEF Named, Select, Derived
<1> QED
  BY <1>1, <1>2, <1>3

\* Two objects with different UIDs never get the same name.
THEOREM NamesAreDistinct == Spec => []NamesDistinct
<1>1. HostnameInv => NamesDistinct
  <2> SUFFICES ASSUME HostnameInv, NEW o \in Objects, NEW p \in Objects, o.uid # p.uid, Named(o), Named(p)
               PROVE  Select(o).slug # Select(p).slug
    BY DEF NamesDistinct
  <2>1. \A e \in entries : e.mode = "legacy" => e.slug \notin Reserved
    BY EntryFacts DEF validateEntry
  <2>2. Digest[o.uid] \in Reserved /\ Digest[p.uid] \in Reserved /\ Digest[o.uid] # Digest[p.uid]
    BY SelectCases, DigestAssumption
  <2> QED
    BY <2>1, <2>2, SelectCases, EntryFacts
<1> QED
  BY <1>1, HostnameInvariant, PTL

\* A changed UID never inherits a mapping.
THEOREM NoneInherited == Spec => []NeverInherited
<1>1. HostnameInv => NeverInherited
  <2> SUFFICES ASSUME HostnameInv, NEW o \in Objects, NEW e \in entries, e.mode = "legacy",
                      Select(o).slug = e.slug
               PROVE  o.uid = e.uid /\ o.identity = e.identity
    BY DEF NeverInherited
  <2>1. e.slug \in Slugs \ Reserved
    BY EntryFacts DEF validateEntry
  <2>2. Named(o)
    BY <2>1, BlankAssumption DEF Named, NoName
  <2>3. Select(o).slug # Digest[o.uid]
    BY <2>1, <2>2, SelectCases, DigestAssumption
  <2> QED
    BY <2>2, <2>3, SelectCases, EntryFacts
<1> QED
  BY <1>1, HostnameInvariant, PTL

\* Every name a running manager selects fits in front of PUBLIC_HOST.
THEOREM AllNamesFit == Spec => []NamesFit
<1>1. HostnameInv => NamesFit
  <2> SUFFICES ASSUME HostnameInv, verdict = "running", NEW o \in Objects, Named(o)
               PROVE  Fits(Select(o).slug)
    BY DEF NamesFit
  <2>1. ValidatePublicHost
    BY DEF HostnameInv, Decided
  <2> QED
    BY <2>1, SelectCases, DigestAssumption DEF ValidatePublicHost
<1> QED
  BY <1>1, HostnameInvariant, PTL

----------------------------------------------------------------------------
\* The access policy: the same kind of loop, with three keys and a header

Read == 1..(at - 1)

\* The mappings read so far are sound, and no two of them share a key.
AccessPrefix ==
    /\ \A i \in Read : Access!EntryOk(mappings[i])
    /\ \A i, j \in Read : i # j =>
          /\ mappings[i].uid # mappings[j].uid
          /\ mappings[i].identity # mappings[j].identity
          /\ mappings[i].path # mappings[j].path
    /\ \A i \in Read : /\ mappings[i].uid \in uids /\ mappings[i].identity \in local
                        /\ mappings[i].path \in sources

AccessShape ==
    /\ header \in Access!Headers
    /\ Len(mappings) \in Nat /\ DOMAIN mappings = 1..Len(mappings)
    /\ at \in 1..(Len(mappings) + 1)

AccessInv ==
    /\ AccessShape /\ AccessPrefix
    /\ decision = "accepted" => Access!HeaderOk /\ at = Len(mappings) + 1

\* The loop starts with nothing read.
LEMMA AccessInit == Access!Init => AccessInv
<1> SUFFICES ASSUME Access!Init PROVE AccessInv
  OBVIOUS
<1>1. PICK n \in 0..MaxEntries : mappings \in [1..n -> Access!Entries]
  BY DEF Access!Init
<1>2. Len(mappings) = n /\ DOMAIN mappings = 1..n
  BY <1>1
<1> QED
  BY <1>1, <1>2, BoundAssumption DEF Access!Init, AccessInv, AccessShape, AccessPrefix, Read

\* A mapping is taken only if none before it has one of its keys.
LEMMA AccessTake == AccessInv /\ Access!Take => AccessInv'
<1> SUFFICES ASSUME AccessInv, Access!Take PROVE AccessInv'
  OBVIOUS
<1> DEFINE e == mappings[at]
<1>1. /\ UNCHANGED <<header, mappings, decision>> /\ decision = "parsing"
      /\ at \in 1..Len(mappings) /\ at' = at + 1
  BY DEF Access!Take, AccessInv, AccessShape
<1>2. Read' = Read \cup {at} /\ at \notin Read
  BY <1>1 DEF Read
<1>3. Access!EntryOk(e) /\ ~Access!Duplicate(e)
  BY DEF Access!Take
<1>4. \A i \in Read : /\ mappings[i].uid # e.uid /\ mappings[i].identity # e.identity
                      /\ mappings[i].path # e.path
  BY <1>3 DEF Access!Duplicate, AccessInv, AccessPrefix
<1>5. \A i \in Read' : Access!EntryOk(mappings[i])
  BY <1>2, <1>3 DEF AccessInv, AccessPrefix
<1>6. \A i, j \in Read' : i # j =>
         /\ mappings[i].uid # mappings[j].uid
         /\ mappings[i].identity # mappings[j].identity
         /\ mappings[i].path # mappings[j].path
  BY <1>2, <1>4 DEF AccessInv, AccessPrefix
<1>7. \A i \in Read' : /\ mappings[i].uid \in uids' /\ mappings[i].identity \in local'
                       /\ mappings[i].path \in sources'
  BY <1>2 DEF Access!Take, AccessInv, AccessPrefix
<1>8. AccessPrefix'
  BY <1>1, <1>5, <1>6, <1>7 DEF AccessPrefix, Access!EntryOk
<1>9. AccessShape'
  BY <1>1 DEF AccessInv, AccessShape
<1> QED BY <1>1, <1>8, <1>9 DEF AccessInv

\* Every step keeps the invariant.
LEMMA AccessNext == AccessInv /\ [Access!Next]_(Access!vars) => AccessInv'
<1> SUFFICES ASSUME AccessInv, [Access!Next]_(Access!vars) PROVE AccessInv'
  OBVIOUS
<1>1. CASE Access!Reject \/ Access!Accept \/ UNCHANGED Access!vars
  <2>1. UNCHANGED <<header, mappings, at, uids, local, sources>>
    BY <1>1 DEF Access!Reject, Access!Accept, Access!vars
  <2>2. AccessShape' /\ AccessPrefix'
    BY <2>1 DEF AccessInv, AccessShape, AccessPrefix, Read, Access!EntryOk
  <2>3. decision' = "accepted" => decision = "accepted" \/ Access!Accept
    BY <1>1 DEF Access!Reject, Access!vars
  <2>4. Access!Accept => Access!HeaderOk /\ at = Len(mappings) + 1
    BY DEF Access!Accept, AccessInv, AccessShape
  <2> QED BY <2>1, <2>2, <2>3, <2>4 DEF AccessInv, Access!HeaderOk
<1>2. CASE Access!Take
  BY <1>2, AccessTake
<1> QED BY <1>1, <1>2 DEF Access!Next

\* The invariant of the access policy holds in every behaviour of its loop.
THEOREM AccessInvariant == Access!Spec => []AccessInv
  BY AccessInit, AccessNext, PTL DEF Access!Spec

\* An accepted file has one mapping for an object at most, and Select finds it.
LEMMA SelectFacts ==
    ASSUME AccessInv, decision = "accepted", NEW o \in Access!Objects, Access!Mapped(o)
    PROVE  \E i \in DOMAIN mappings :
              /\ Access!Fits(mappings[i], o) /\ Access!Select(o) = mappings[i]
              /\ \A j \in DOMAIN mappings : Access!Fits(mappings[j], o) => j = i
<1>1. DOMAIN mappings = Read
  BY DEF AccessInv, AccessShape, Read
<1>2. PICK i \in DOMAIN mappings : Access!Fits(mappings[i], o)
  BY DEF Access!Mapped
<1>3. \A j \in DOMAIN mappings : Access!Fits(mappings[j], o) => j = i
  BY <1>1, <1>2 DEF AccessInv, AccessPrefix, Access!Fits
<1>4. i \in Nat
  BY <1>2 DEF AccessInv, AccessShape
<1>5. Access!First(o) = i
  BY <1>2, <1>3, <1>4 DEF Access!First
<1> QED BY <1>2, <1>3, <1>5 DEF Access!Select

\* An accepted file: every mapping sound, all keys distinct.
LEMMA AcceptedFile ==
    ASSUME AccessInv, decision = "accepted"
    PROVE  /\ Access!HeaderOk /\ header \in Access!Headers
           /\ \A i \in DOMAIN mappings : Access!EntryOk(mappings[i])
           /\ \A i, j \in DOMAIN mappings : i # j =>
                 /\ mappings[i].uid # mappings[j].uid
                 /\ mappings[i].identity # mappings[j].identity
                 /\ mappings[i].path # mappings[j].path
<1>1. DOMAIN mappings = Read
  BY DEF AccessInv, AccessShape, Read
<1> QED BY <1>1 DEF AccessInv, AccessShape, AccessPrefix

\* Two instances are never given one source instance: mappings with different
\* UIDs of instances are different mappings, and those have different sources.
THEOREM AccessSourcesDistinct == Access!Spec => []Access!SourcesDistinct
<1>1. AccessInv => Access!SourcesDistinct
  <2> SUFFICES ASSUME AccessInv, decision = "accepted",
                      NEW o \in Access!Objects, NEW p \in Access!Objects,
                      o.uid # p.uid, Access!Mapped(o), Access!Mapped(p)
               PROVE  Access!Select(o).path # Access!Select(p).path
    BY DEF Access!SourcesDistinct
  <2>1. PICK i \in DOMAIN mappings : Access!Fits(mappings[i], o) /\ Access!Select(o) = mappings[i]
    BY SelectFacts
  <2>2. PICK j \in DOMAIN mappings : Access!Fits(mappings[j], p) /\ Access!Select(p) = mappings[j]
    BY SelectFacts
  <2>3. i # j
    BY <2>1, <2>2 DEF Access!Fits
  <2> QED BY <2>1, <2>2, <2>3, AcceptedFile
<1> QED BY <1>1, AccessInvariant, PTL

\* A name is mapped to one UID at most, and no mapping is hidden by another.
THEOREM AccessMappingExact == Access!Spec => []Access!MappingExact
<1>1. AccessInv => Access!MappingExact
  <2> SUFFICES ASSUME AccessInv, decision = "accepted" PROVE Access!MappingExact
    BY DEF Access!MappingExact
  <2>1. ASSUME NEW o \in Access!Objects, NEW p \in Access!Objects,
               Access!Mapped(o), Access!Mapped(p), o.identity = p.identity
        PROVE  o = p
    <3>1. PICK i \in DOMAIN mappings : Access!Fits(mappings[i], o)
      BY <2>1, SelectFacts
    <3>2. PICK j \in DOMAIN mappings : Access!Fits(mappings[j], p)
      BY <2>1, SelectFacts
    <3>3. i = j
      BY <2>1, <3>1, <3>2, AcceptedFile DEF Access!Fits
    <3> QED BY <2>1, <3>1, <3>2, <3>3 DEF Access!Fits, Access!Objects
  <2>2. ASSUME NEW i \in DOMAIN mappings,
               NEW o, o = [uid |-> mappings[i].uid, identity |-> mappings[i].identity]
        PROVE  Access!Mapped(o) /\ Access!Select(o) = mappings[i]
    <3>1. o.uid = mappings[i].uid /\ o.identity = mappings[i].identity
      BY <2>2
    <3>2. Access!Fits(mappings[i], o)
      BY <3>1 DEF Access!Fits
    <3>3. o.uid # Blank
      BY <3>1, AcceptedFile DEF Access!EntryOk
    <3>4. Access!Mapped(o)
      BY <3>2, <3>3 DEF Access!Mapped
    <3>5. \A j \in DOMAIN mappings : Access!Fits(mappings[j], o) => j = i
      BY <3>1, AcceptedFile DEF Access!Fits
    <3>6. i \in Nat
      BY DEF AccessInv, AccessShape
    <3>7. Access!First(o) = i
      BY <3>2, <3>5, <3>6 DEF Access!First
    <3> QED BY <3>4, <3>7 DEF Access!Select
  <2> QED BY <2>1, <2>2 DEF Access!MappingExact
<1> QED BY <1>1, AccessInvariant, PTL

\* What Parse accepts, Config.Validate and newGate accept.
THEOREM AccessProxyStarts == Access!Spec => []Access!ProxyStarts
<1>1. AccessInv => Access!ProxyStarts
  <2> SUFFICES ASSUME AccessInv, decision = "accepted", header.ca # "other",
                      NEW o \in Access!Objects, Access!Mapped(o)
               PROVE  Access!newGate(Access!Select(o))
    BY DEF Access!ProxyStarts
  <2>1. PICK i \in DOMAIN mappings : Access!Select(o) = mappings[i]
    BY SelectFacts
  <2>2. Access!EntryOk(mappings[i]) /\ Access!HeaderOk
    BY AcceptedFile
  <2>3. header.ca \in {"none", "pem"}
    BY AcceptedFile DEF Access!Headers
  <2> QED BY <2>1, <2>2, <2>3
             DEF Access!newGate, Access!Validate, Access!EntryOk, Access!HeaderOk
<1> QED BY <1>1, AccessInvariant, PTL

----------------------------------------------------------------------------
\* The start as a whole implements both loops.

\* The manager treats its hostname policy as module HostnamePolicy says.
THEOREM ImplementsHostnamePolicy == StartSpec => Spec
<1>1. StartInit => Init
  BY DEF StartInit
<1>2. [StartNext]_<<vars, access>> => [Next]_vars
  BY DEF StartNext, Hostname, Load
<1> QED BY <1>1, <1>2, PTL DEF StartSpec, Spec

\* It treats its access policy as module AccessPolicy says.
THEOREM ImplementsAccessPolicy == StartSpec => Access!Spec
<1>1. StartInit => Access!Init
  BY DEF StartInit
<1>2. [StartNext]_<<vars, access>> => [Access!Next]_(Access!vars)
  BY DEF StartNext, Hostname, Load, access, Access!vars
<1> QED BY <1>1, <1>2, PTL DEF StartSpec, Access!Spec

\* The mappings a manager accepted are one to one, whatever their order.
THEOREM MappingsAreExact == StartSpec => []MappingExact
  BY ImplementsAccessPolicy, AccessSourcesDistinct, AccessMappingExact, PTL DEF MappingExact

\* Whatever access policy a manager accepted, the proxies it configures start.
THEOREM ProxiesStart == StartSpec => []ProxyStarts
  BY ImplementsAccessPolicy, AccessProxyStarts DEF ProxyStarts

\* What a starting manager selects: distinct names, no inherited ones.
THEOREM StartNamesDistinct == StartSpec => [](ParseExact /\ NamesDistinct /\ NeverInherited)
  BY ImplementsHostnamePolicy, ParseIsExact, NamesAreDistinct, NoneInherited, PTL

\* The controllers run only under two policies that were accepted (main parses
\* both before SetupWithManager, and leaves on any error).
Started == verdict \in {"running", "refused"} => decision = "accepted"

THEOREM StartsWithBoth == StartSpec => []Started
<1>1. StartInit => Started
  BY DEF StartInit, Init, Started
<1>2. Started /\ [StartNext]_<<vars, access>> => Started'
  <2> SUFFICES ASSUME Started, [StartNext]_<<vars, access>> PROVE Started'
    OBVIOUS
  <2>1. CASE Hostname
    BY <2>1 DEF Hostname, Next, Reject, Take, Accept, Start, Started, access
  <2>2. CASE Load
    BY <2>2 DEF Load, vars, Started
  <2>3. CASE UNCHANGED <<vars, access>>
    BY <2>3 DEF vars, access, Started
  <2> QED BY <2>1, <2>2, <2>3 DEF StartNext
<1> QED BY <1>1, <1>2, PTL DEF StartSpec

\* One object for every UID, and the name that each of them gets
Bearers == {obj \in [Uids -> Objects] : \A u \in Uids : obj[u].uid = u}
Assigned(obj) == [u \in Uids |-> IF Named(obj[u]) THEN Select(obj[u]).slug ELSE Blank]

\* Whichever objects exist, a running manager gives hosts the way module Hostnames
\* assumes of its policies (PoliciesAssumption): no name to two UIDs.
Assigns ==
    verdict = "running" =>
        \A obj \in Bearers :
            /\ Assigned(obj) \in [Uids -> Slugs \cup {Blank}]
            /\ \A u, v \in Uids :
                  u # v /\ Assigned(obj)[u] # Blank => Assigned(obj)[u] # Assigned(obj)[v]

THEOREM AssignsDistinctly == StartSpec => []Assigns
<1>1. HostnameInv /\ NamesDistinct => Assigns
  <2> SUFFICES ASSUME HostnameInv, NamesDistinct, verdict = "running", NEW obj \in Bearers
               PROVE  /\ Assigned(obj) \in [Uids -> Slugs \cup {Blank}]
                      /\ \A u, v \in Uids :
                            u # v /\ Assigned(obj)[u] # Blank => Assigned(obj)[u] # Assigned(obj)[v]
    BY DEF Assigns
  <2>1. \A u \in Uids : obj[u] \in Objects /\ obj[u].uid = u
    BY DEF Bearers
  <2>2. \A u \in Uids : Named(obj[u]) => Select(obj[u]).slug \in Slugs
    BY <2>1, SelectCases, EntryFacts, DigestAssumption, SlugsAssumption DEF validateEntry
  <2>3. \A u, v \in Uids : u # v /\ Named(obj[u]) /\ Named(obj[v])
                             => Select(obj[u]).slug # Select(obj[v]).slug
    BY <2>1 DEF NamesDistinct
  <2> QED BY <2>2, <2>3, BlankAssumption DEF Assigned
<1> QED BY <1>1, ImplementsHostnamePolicy, HostnameInvariant, NamesAreDistinct, PTL

----------------------------------------------------------------------------
\* The watches: module CredentialsWatch, on the state CredentialsState declares

Watch == INSTANCE CredentialsWatch

\* The work queue: sequences as sets of instances

\* SetToSeq enumerates its set.
LEMMA Enumerated ==
    ASSUME NEW S, IsFiniteSet(S)
    PROVE  Watch!SetToSeq(S) \in Seq(S) /\ Watch!ToSet(Watch!SetToSeq(S)) = S
<1> DEFINE n == Cardinality(S)
           q == Watch!SetToSeq(S)
<1>1. n \in Nat /\ ExistsBijection(1..n, S)
  BY FS_CardinalityType
<1>2. PICK f \in Bijection(1..n, S) : TRUE
  BY <1>1 DEF ExistsBijection
<1>3. f \in [1..n -> S] /\ Watch!IsInjective(f)
  BY <1>2 DEF Bijection, Injection, IsInjective, Watch!IsInjective
<1>4. q = CHOOSE g \in [1..n -> S] : Watch!IsInjective(g)
  <2>1. Watch!Cardinality(S) = n
    BY DEF Watch!Cardinality, Cardinality
  <2> QED BY <2>1 DEF Watch!SetToSeq
<1>5. q \in [1..n -> S] /\ Watch!IsInjective(q)
  <2> HIDE DEF n, q
  <2> QED BY <1>3, <1>4
<1> HIDE DEF n, q
<1>6. q \in Injection(1..n, S)
  BY <1>5 DEF Injection, IsInjective, Watch!IsInjective
<1>7. Cardinality(1..n) = n
  BY <1>1, FS_CountingElements, FS_Interval
<1>8. q \in Surjection(1..n, S)
  BY <1>6, <1>7, FS_Injection DEF n
<1>9. q \in Seq(S) /\ DOMAIN q = 1..n
  BY <1>1, <1>5, SeqDef
<1> QED BY <1>8, <1>9 DEF Watch!ToSet, Surjection, q

\* Adding to the queue adds to its set.
LEMMA EnqueuedFacts ==
    ASSUME IsFiniteSet(Insts), NEW q \in Seq(Insts), NEW S \in SUBSET Insts
    PROVE  /\ Watch!Enqueued(q, S) \in Seq(Insts)
           /\ Watch!ToSet(Watch!Enqueued(q, S)) = Watch!ToSet(q) \cup S
<1> DEFINE new == S \ Watch!ToSet(q)
           t == Watch!SetToSeq(new)
<1>1. IsFiniteSet(new)
  BY FS_Subset
<1>2. t \in Seq(new) /\ Watch!ToSet(t) = new
  BY <1>1, Enumerated
<1>3. t \in Seq(Insts)
  BY <1>2, SeqMonotonic
<1>4. Watch!Enqueued(q, S) = q \o t
  BY DEF Watch!Enqueued
<1> HIDE DEF t
<1>5. /\ q \o t \in Seq(Insts) /\ Len(q \o t) = Len(q) + Len(t)
      /\ \A i \in 1 .. Len(q) + Len(t) : (q \o t)[i] = IF i <= Len(q) THEN q[i] ELSE t[i - Len(q)]
  BY <1>3, ConcatProperties
<1>6. /\ Len(q) \in Nat /\ Len(t) \in Nat /\ DOMAIN q = 1..Len(q) /\ DOMAIN t = 1..Len(t)
      /\ DOMAIN (q \o t) = 1..(Len(q) + Len(t))
  BY <1>3, <1>5, LenProperties
<1>7. \A i \in 1..Len(q) : i \in 1..(Len(q) + Len(t)) /\ (q \o t)[i] = q[i]
  BY <1>5, <1>6
<1>8. \A i \in 1..Len(t) : /\ Len(q) + i \in 1..(Len(q) + Len(t))
                           /\ (q \o t)[Len(q) + i] = t[i]
  BY <1>5, <1>6
<1>9. Watch!ToSet(q \o t) \subseteq Watch!ToSet(q) \cup Watch!ToSet(t)
  <2> SUFFICES ASSUME NEW i \in 1..(Len(q) + Len(t))
               PROVE  (q \o t)[i] \in Watch!ToSet(q) \cup Watch!ToSet(t)
    BY <1>6 DEF Watch!ToSet
  <2>1. CASE i <= Len(q)
    BY <1>5, <1>6, <2>1 DEF Watch!ToSet
  <2>2. CASE i > Len(q)
    <3>1. i - Len(q) \in 1..Len(t) /\ (q \o t)[i] = t[i - Len(q)]
      BY <1>5, <1>6, <2>2
    <3> QED BY <1>6, <3>1 DEF Watch!ToSet
  <2> QED BY <1>6, <2>1, <2>2
<1>10. Watch!ToSet(q) \cup Watch!ToSet(t) \subseteq Watch!ToSet(q \o t)
  BY <1>6, <1>7, <1>8 DEF Watch!ToSet
<1> QED BY <1>2, <1>4, <1>5, <1>9, <1>10

\* The worker takes the oldest instance and leaves the others.
LEMMA HeadTaken ==
    ASSUME NEW q \in Seq(Insts), q # <<>>
    PROVE  /\ Head(q) \in Insts /\ Tail(q) \in Seq(Insts)
           /\ Watch!ToSet(q) \subseteq {Head(q)} \cup Watch!ToSet(Tail(q))
<1>1. /\ Head(q) \in Insts /\ Tail(q) \in Seq(Insts) /\ Len(Tail(q)) = Len(q) - 1
      /\ \A i \in 1..Len(Tail(q)) : Tail(q)[i] = q[i + 1]
  BY HeadTailProperties
<1>2. /\ Len(q) \in Nat /\ DOMAIN q = 1..Len(q)
      /\ DOMAIN Tail(q) = 1..Len(Tail(q))
  BY <1>1, LenProperties
<1>3. \A i \in 1..Len(q) : q[i] = Head(q) \/ q[i] \in Watch!ToSet(Tail(q))
  <2> TAKE i \in 1..Len(q)
  <2>1. CASE i = 1
    BY <2>1
  <2>2. CASE i # 1
    <3>1. i - 1 \in 1..Len(Tail(q)) /\ Tail(q)[i - 1] = q[i]
      BY <1>1, <1>2, <2>2
    <3> QED BY <1>2, <3>1 DEF Watch!ToSet
  <2> QED BY <2>1, <2>2
<1> QED BY <1>1, <1>2, <1>3 DEF Watch!ToSet

\* Types of what CredentialsWatch keeps
Sums == {Watch!Checksum(d) : d \in Data}
Contents == Data \cup {None}
Instances == [ref : Secrets, imageOk : BOOLEAN]
Workloads == [on : BOOLEAN, ref : Secrets, sum : Sums, client : Nat]
Passes == [pc : {"idle", "reject", "access", "creds", "deploy"}, inst : Insts \cup {None},
           ref : Secrets \cup {None}, client : Nat \cup {None}, sum : Sums \cup {None}]

WatchTypes ==
    /\ data \in [Secrets -> Contents] /\ cached \in [Secrets -> Contents]
    /\ inst \in [Insts -> Instances] /\ listed \in [Insts -> Instances]
    /\ client \in Nat
    /\ dep \in [Insts -> Workloads \cup {None}]
    /\ queue \in Seq(Insts) /\ timers \subseteq Insts /\ unseen \subseteq Insts \cup Secrets
    /\ past \in [Secrets -> SUBSET Sums]

\* A pass works for an instance, with the reference it read.
Working ==
    /\ pass \in Passes
    /\ pass.pc # "idle" => pass.inst \in Insts /\ pass.ref \in Secrets
    /\ pass.pc \in {"creds", "deploy"} => pass.client \in Nat

\* Whatever a Secret contains, in the API server, in the cache or in the hands of a
\* pass, it did contain.
Known ==
    /\ \A s \in Secrets : data[s] # None => Watch!Checksum(data[s]) \in past[s]
    /\ \A s \in Secrets : cached[s] # None => Watch!Checksum(cached[s]) \in past[s]
    /\ pass.pc = "deploy" => pass.sum \in past[pass.ref]

SumInv == WatchTypes /\ Working /\ Known /\ SumOfReference

\* A manager starts with every instance queued and with nothing read.
LEMMA SumInit == ASSUME IsFiniteSet(Insts), Watch!Init PROVE SumInv
<1>1. queue \in Seq(Insts)
  BY Enumerated DEF Watch!Init
<1>2. PICK d \in Data : data = [s \in Secrets |-> d]
  BY DEF Watch!Init
<1>3. past \in [Secrets -> SUBSET Sums]
  BY <1>2 DEF Watch!Init, Sums
<1>4. WatchTypes
  BY <1>1, <1>2, <1>3 DEF Watch!Init, WatchTypes, Contents, Instances
<1>5. Working
  BY DEF Watch!Init, Watch!Idle, Working, Passes
<1>6. Known /\ SumOfReference
  BY <1>2 DEF Watch!Init, Watch!Idle, Known, SumOfReference
<1> QED BY <1>4, <1>5, <1>6 DEF SumInv

\* What stopping a workload leaves of it
LEMMA StoppedFacts ==
    ASSUME dep \in [Insts -> Workloads \cup {None}], NEW i \in Insts, Watch!Stopped(i)
    PROVE  /\ dep' \in [Insts -> Workloads \cup {None}]
           /\ dep'[i] = None \/ ~dep'[i].on
           /\ \A j \in Insts \ {i} : dep'[j] = dep[j]
           /\ dep'[i] # None => /\ dep[i] # None
                                /\ dep'[i].sum = dep[i].sum /\ dep'[i].ref = dep[i].ref
<1> DEFINE d == IF dep[i] = None THEN None ELSE [dep[i] EXCEPT !.on = FALSE]
<1>1. dep' = [dep EXCEPT ![i] = d]
  BY DEF Watch!Stopped
<1>2. d \in Workloads \cup {None} /\ (d = None \/ ~d.on)
      /\ (d # None => dep[i] # None /\ d.sum = dep[i].sum /\ d.ref = dep[i].ref)
  BY DEF Workloads
<1> HIDE DEF d
<1> QED BY <1>1, <1>2

\* The idle pass is a pass.
LEMMA IdlePass == Watch!Idle \in Passes /\ Watch!Idle.pc = "idle"
BY DEF Watch!Idle, Passes

\* Stopping a workload, or leaving it alone, keeps what is known of it.
LEMMA SumStopped ==
    ASSUME SumInv, NEW i \in Insts, Watch!Stopped(i) \/ UNCHANGED dep,
           UNCHANGED past
    PROVE  dep' \in [Insts -> Workloads \cup {None}] /\ SumOfReference'
<1>1. CASE UNCHANGED dep
  BY <1>1 DEF SumInv, WatchTypes, SumOfReference
<1>2. CASE Watch!Stopped(i)
  BY <1>2, StoppedFacts DEF SumInv, WatchTypes, SumOfReference
<1> QED BY <1>1, <1>2

\* The steps of a pass, and what interrupts it
LEMMA SumPass ==
    ASSUME SumInv, Watch!Pass \/ Watch!Fail
    PROVE  SumInv'
<1>0. WatchTypes /\ Working /\ Known /\ SumOfReference
  BY DEF SumInv
<1> USE DEF Watch!At, Watch!world
<1>1. CASE Watch!Begin
  <2>1. Head(queue) \in Insts /\ Tail(queue) \in Seq(Insts)
    BY <1>0, <1>1, HeadTaken DEF Watch!Begin, WatchTypes
  <2> DEFINE i == Head(queue)
  <2>2. PICK p \in {"access", "reject"} :
           pass' = [Watch!Idle EXCEPT !.pc = p, !.inst = i, !.ref = inst[i].ref]
    BY <1>1 DEF Watch!Begin
  <2>3. inst[i].ref \in Secrets
    BY <1>0, <2>1 DEF WatchTypes, Instances
  <2> HIDE DEF i
  <2>4. pass' \in Passes /\ pass'.pc = p /\ pass'.inst = i /\ pass'.ref = inst[i].ref
    BY <2>1, <2>2, <2>3 DEF Watch!Idle, Passes, i
  <2>5. Working'
    BY <2>1, <2>3, <2>4 DEF Working, i
  <2>6. UNCHANGED <<data, cached, inst, listed, client, dep, timers, unseen, past>> /\ queue' = Tail(queue)
    BY <1>1 DEF Watch!Begin
  <2>7. WatchTypes'
    BY <1>0, <2>1, <2>6 DEF WatchTypes
  <2>8. Known' /\ SumOfReference'
    BY <1>0, <2>4, <2>6 DEF Known, SumOfReference
  <2> QED BY <2>5, <2>7, <2>8 DEF SumInv
<1>2. CASE Watch!Reject
  <2>1. UNCHANGED <<data, cached, inst, listed, client, queue, timers, unseen, past>> /\ pass' = Watch!Idle
    BY <1>2 DEF Watch!Reject
  <2>2. dep' \in [Insts -> Workloads \cup {None}] /\ SumOfReference'
    BY <1>0, <1>2, <2>1, SumStopped DEF Watch!Reject, Working
  <2> QED BY <1>0, <2>1, <2>2, IdlePass DEF SumInv, WatchTypes, Working, Known
<1>3. CASE Watch!Access
  <2>1. PICK r \in {pass.ref, inst[pass.inst].ref} :
           pass' = [pass EXCEPT !.pc = "creds", !.ref = r, !.client = client]
    BY <1>3 DEF Watch!Access
  <2>2. pass.inst \in Insts /\ r \in Secrets /\ client \in Nat
    BY <1>0, <1>3, <2>1 DEF Watch!Access, WatchTypes, Working, Instances
  <2>3. pass' \in Passes /\ pass'.pc = "creds" /\ pass'.inst = pass.inst /\ pass'.ref = r
        /\ pass'.client = client
    BY <1>0, <2>1, <2>2 DEF Working, Passes
  <2>4. UNCHANGED <<data, cached, inst, listed, client, dep, queue, timers, unseen, past>>
    BY <1>3 DEF Watch!Access
  <2>5. Working'
    BY <2>2, <2>3 DEF Working
  <2> QED BY <1>0, <2>3, <2>4, <2>5 DEF SumInv, WatchTypes, Known, SumOfReference
<1>4. CASE Watch!Creds
  <2>1. UNCHANGED <<data, cached, inst, listed, client, queue, unseen, past>>
    BY <1>4 DEF Watch!Creds
  <2>2. pass.inst \in Insts /\ pass.ref \in Secrets
    BY <1>0, <1>4 DEF Watch!Creds, Working
  <2>3. CASE cached[pass.ref] # None
             /\ pass' = [pass EXCEPT !.pc = "deploy", !.sum = Watch!Checksum(cached[pass.ref])]
             /\ UNCHANGED <<dep, timers>>
    <3> DEFINE c == Watch!Checksum(cached[pass.ref])
    <3>1. c \in past[pass.ref] /\ c \in Sums
      BY <1>0, <2>2, <2>3 DEF Known, WatchTypes
    <3> HIDE DEF c
    <3>2. pass' \in Passes /\ pass'.pc = "deploy" /\ pass'.inst = pass.inst
          /\ pass'.ref = pass.ref /\ pass'.client = pass.client /\ pass'.sum = c
      BY <1>0, <2>3, <3>1 DEF Working, Passes, c
    <3>3. Working' /\ Known'
      BY <1>0, <1>4, <2>1, <2>2, <3>1, <3>2 DEF Working, Known, Watch!Creds
    <3> QED BY <1>0, <2>1, <2>3, <3>3 DEF SumInv, WatchTypes, SumOfReference
  <2>4. CASE cached[pass.ref] = None /\ Watch!Denied(pass.inst)
    <3>1. dep' \in [Insts -> Workloads \cup {None}] /\ SumOfReference'
      BY <2>1, <2>2, <2>4, SumStopped DEF Watch!Denied
    <3> QED BY <1>0, <2>1, <2>2, <2>4, <3>1, IdlePass
            DEF Watch!Denied, Watch!Again, SumInv, WatchTypes, Working, Known
  <2> QED BY <1>4, <2>3, <2>4 DEF Watch!Creds
<1>5. CASE Watch!Deploy
  <2>1. UNCHANGED <<data, cached, inst, listed, client, queue, unseen, past>>
        /\ pass' = Watch!Idle /\ timers' = timers \cup {pass.inst}
    BY <1>5 DEF Watch!Deploy, Watch!Again
  <2>2. /\ pass.inst \in Insts /\ pass.ref \in Secrets /\ pass.client \in Nat
        /\ pass.sum \in past[pass.ref] /\ pass.sum \in Sums
    BY <1>0, <1>5 DEF Watch!Deploy, Working, Known, WatchTypes
  <2> DEFINE d == dep[pass.inst]
             b == Watch!Built
  <2>3. b \in Workloads /\ b.sum = pass.sum /\ b.ref = pass.ref
    BY <2>2 DEF Watch!Built, Workloads
  <2>4. d \in Workloads \cup {None}
    BY <1>0, <2>2 DEF WatchTypes
  <2> HIDE DEF d, b
  <2>5. \/ dep' = [dep EXCEPT ![pass.inst] = b]
        \/ d # None /\ dep' = [dep EXCEPT ![pass.inst] = [d EXCEPT !.on = FALSE]]
    BY <1>5 DEF Watch!Deploy, d, b
  <2>6. CASE dep' = [dep EXCEPT ![pass.inst] = b]
    <3>1. dep' \in [Insts -> Workloads \cup {None}] /\ SumOfReference'
      BY <1>0, <2>1, <2>2, <2>3, <2>6 DEF WatchTypes, SumOfReference
    <3> QED BY <1>0, <2>1, <2>2, <3>1, IdlePass DEF SumInv, WatchTypes, Working, Known
  <2>7. CASE d # None /\ dep' = [dep EXCEPT ![pass.inst] = [d EXCEPT !.on = FALSE]]
    <3>1. Watch!Stopped(pass.inst)
      BY <2>7 DEF Watch!Stopped, d
    <3>2. dep' \in [Insts -> Workloads \cup {None}] /\ SumOfReference'
      BY <2>1, <2>2, <3>1, SumStopped
    <3> QED BY <1>0, <2>1, <2>2, <3>2, IdlePass DEF SumInv, WatchTypes, Working, Known
  <2> QED BY <2>5, <2>6, <2>7
<1>6. CASE Watch!Fail
  <2>1. UNCHANGED <<data, cached, inst, listed, client, queue, unseen, past>>
        /\ pass' = Watch!Idle /\ timers' = timers \cup {pass.inst}
        /\ (UNCHANGED dep \/ Watch!Stopped(pass.inst)) /\ pass.inst \in Insts
    BY <1>0, <1>6 DEF Watch!Fail, Watch!Again, Working
  <2>2. dep' \in [Insts -> Workloads \cup {None}] /\ SumOfReference'
    BY <2>1, SumStopped
  <2> QED BY <1>0, <2>1, <2>2, IdlePass DEF SumInv, WatchTypes, Working, Known
<1> QED BY <1>1, <1>2, <1>3, <1>4, <1>5, <1>6 DEF Watch!Pass

\* The watches, the timers, a restart, and everyone else
LEMMA SumRest ==
    ASSUME IsFiniteSet(Insts), SumInv,
           \/ Watch!Restart \/ Watch!ChangeClient
           \/ \E s \in Secrets : Watch!SyncSecret(s) \/ Watch!SyncUnmapped(s) \/ Watch!ChangeSecret(s)
           \/ \E i \in Insts : Watch!Requeue(i) \/ Watch!SyncInstance(i) \/ Watch!ChangeSpec(i)
    PROVE  SumInv'
<1>0. WatchTypes /\ Working /\ Known /\ SumOfReference
  BY DEF SumInv
<1> USE DEF Watch!At, Watch!world
<1>1. CASE Watch!Restart
  <2>1. UNCHANGED <<data, inst, client, past, dep>> /\ cached' = data /\ listed' = inst
        /\ unseen' = {} /\ queue' = Watch!SetToSeq(Insts) /\ timers' = {} /\ pass' = Watch!Idle
    BY <1>1 DEF Watch!Restart
  <2>2. queue' \in Seq(Insts)
    BY <2>1, Enumerated
  <2> QED BY <1>0, <2>1, <2>2, IdlePass
          DEF SumInv, WatchTypes, Working, Known, SumOfReference
<1>2. CASE Watch!ChangeClient
  BY <1>0, <1>2 DEF Watch!ChangeClient, Watch!Watched, SumInv, WatchTypes, Working, Known,
                    SumOfReference
<1>3. ASSUME NEW s \in Secrets, Watch!SyncSecret(s) \/ Watch!SyncUnmapped(s)
      PROVE  SumInv'
  <2>1. UNCHANGED <<data, inst, client, past, dep, listed, timers, pass>>
        /\ unseen' = unseen \ {s} /\ cached' = [cached EXCEPT ![s] = data[s]]
        /\ (queue' = queue \/ queue' = Watch!Enqueued(queue, Watch!Mapped(s)))
    BY <1>3 DEF Watch!SyncSecret, Watch!SyncUnmapped
  <2>2. queue' \in Seq(Insts)
    BY <1>0, <2>1, EnqueuedFacts DEF WatchTypes, Watch!Mapped
  <2> QED BY <1>0, <2>1, <2>2 DEF SumInv, WatchTypes, Working, Known, SumOfReference
<1>4. ASSUME NEW s \in Secrets, Watch!ChangeSecret(s)
      PROVE  SumInv'
  <2>1. PICK d \in Contents : /\ data' = [data EXCEPT ![s] = d]
                              /\ past' = [past EXCEPT ![s] = IF d = None THEN past[s]
                                                ELSE past[s] \cup {Watch!Checksum(d)}]
    BY <1>4 DEF Watch!ChangeSecret, Contents
  <2>2. UNCHANGED <<inst, client, cached, listed, dep, queue, timers, pass>>
        /\ unseen' = unseen \cup {s}
    BY <1>4 DEF Watch!ChangeSecret, Watch!Watched
  <2>3. d # None => Watch!Checksum(d) \in Sums
    BY DEF Sums, Contents
  <2>4. past' \in [Secrets -> SUBSET Sums] /\ \A t \in Secrets : past[t] \subseteq past'[t]
    BY <1>0, <2>1, <2>3 DEF WatchTypes
  <2>5. d # None => Watch!Checksum(d) \in past'[s]
    BY <1>0, <2>1 DEF WatchTypes
  <2>6. data' \in [Secrets -> Contents] /\ data'[s] = d
        /\ \A t \in Secrets \ {s} : data'[t] = data[t]
    BY <1>0, <2>1 DEF WatchTypes
  <2>7. WatchTypes'
    BY <1>0, <2>2, <2>4, <2>6 DEF WatchTypes
  <2>8. Working'
    BY <1>0, <2>2 DEF Working
  <2>9. Known'
    BY <1>0, <2>2, <2>4, <2>5, <2>6 DEF Known, Working
  <2>10. SumOfReference'
    <3> SUFFICES ASSUME NEW i \in Insts, dep[i] # None PROVE dep[i].sum \in past'[dep[i].ref]
      BY <2>2 DEF SumOfReference
    <3>1. dep[i].ref \in Secrets /\ dep[i].sum \in past[dep[i].ref]
      BY <1>0 DEF WatchTypes, Workloads, SumOfReference
    <3> QED BY <2>4, <3>1
  <2> QED BY <2>7, <2>8, <2>9, <2>10 DEF SumInv
<1>5. ASSUME NEW i \in Insts, Watch!Requeue(i) \/ Watch!SyncInstance(i)
      PROVE  SumInv'
  <2>1. UNCHANGED <<data, inst, client, past, dep, cached, pass>>
        /\ unseen' \subseteq unseen /\ timers' \subseteq timers
        /\ queue' = Watch!Enqueued(queue, {i})
        /\ (listed' = listed \/ listed' = [listed EXCEPT ![i] = inst[i]])
    BY <1>5 DEF Watch!Requeue, Watch!SyncInstance
  <2>2. queue' \in Seq(Insts)
    BY <1>0, <2>1, EnqueuedFacts DEF WatchTypes
  <2> QED BY <1>0, <2>1, <2>2 DEF SumInv, WatchTypes, Working, Known, SumOfReference
<1>6. ASSUME NEW i \in Insts, Watch!ChangeSpec(i)
      PROVE  SumInv'
  <2>1. UNCHANGED <<data, client, past, dep, cached, listed, queue, timers, pass>>
        /\ unseen' = unseen \cup {i}
    BY <1>6 DEF Watch!ChangeSpec, Watch!Watched
  <2>2. inst' \in [Insts -> Instances]
    <3>1. inst[i] \in Instances
      BY <1>0 DEF WatchTypes
    <3>2. CASE \E s \in Secrets : inst' = [inst EXCEPT ![i].ref = s]
      BY <1>0, <3>1, <3>2 DEF WatchTypes, Instances
    <3>3. CASE inst' = [inst EXCEPT ![i].imageOk = ~@]
      <4>1. [inst[i] EXCEPT !.imageOk = ~@] \in Instances
        BY <3>1 DEF Instances
      <4> QED BY <1>0, <3>3, <4>1 DEF WatchTypes
    <3> QED BY <1>6, <3>2, <3>3 DEF Watch!ChangeSpec
  <2> QED BY <1>0, <2>1, <2>2 DEF SumInv, WatchTypes, Working, Known, SumOfReference
<1> QED BY <1>1, <1>2, <1>3, <1>4, <1>5, <1>6

\* Every step keeps what is known of Secrets and workloads.
LEMMA SumNext ==
    ASSUME IsFiniteSet(Insts), SumInv, [Watch!Next]_(Watch!vars)
    PROVE  SumInv'
<1>1. CASE UNCHANGED Watch!vars
  BY <1>1 DEF Watch!vars, SumInv, WatchTypes, Working, Known, SumOfReference
<1> QED BY <1>1, SumPass, SumRest DEF Watch!Next

\* The checksum of a workload is one that its own Secret had.
THEOREM SumsOfReferences == Watch!Spec => []SumOfReference
<1>1. Watch!Init => SumInv
  BY SumInit, KindsAssumption
<1>2. SumInv /\ [Watch!Next]_(Watch!vars) => SumInv'
  BY SumNext, KindsAssumption
<1>3. SumInv => SumOfReference
  BY DEF SumInv
<1> QED BY <1>1, <1>2, <1>3, PTL DEF Watch!Spec

\* What will have an instance reconciled
Signals == Watch!ToSet(queue) \cup timers \cup unseen
Rested(i) == ~inst[i].imageOk /\ (dep[i] = None \/ ~dep[i].on)

\* A pass that refuses an image refuses it rightly, or the change of the spec that
\* made it supported is on its way.
Refusal == pass.pc = "reject" => ~inst[pass.inst].imageOk \/ pass.inst \in Signals

DueInv == Refusal /\ NeverForgotten

\* The two reasons for which an instance may be left alone.
LEMMA DueCases ==
    NeverForgotten <=>
        \A i \in Insts : i \in Signals \/ (pass.pc # "idle" /\ pass.inst = i) \/ Rested(i)
BY DEF NeverForgotten, Due, Watch!ToSet, Signals, Rested

\* Events: no signal is lost, and an instance that changes is signalled.
LEMMA DueEvents ==
    ASSUME SumInv, DueInv, UNCHANGED <<pass, dep>>,
           \A i \in Insts : /\ i \in Signals => i \in Signals'
                            /\ inst'[i] = inst[i] \/ i \in Signals'
    PROVE  DueInv'
<1>1. pass.pc # "idle" => pass.inst \in Insts
  BY DEF SumInv, Working
<1>2. Refusal'
  BY <1>1 DEF DueInv, Refusal
<1>3. \A i \in Insts : i \in Signals' \/ (pass'.pc # "idle" /\ pass'.inst = i) \/ Rested(i)'
  BY DueCases DEF DueInv, Rested
<1>4. NeverForgotten'
  BY <1>3 DEF NeverForgotten, Due, Watch!ToSet, Signals, Rested
<1> QED BY <1>2, <1>4 DEF DueInv

\* The end of a pass: its instance is signalled again, or rests.
LEMMA DueEnd ==
    ASSUME SumInv, DueInv, NEW i \in Insts, pass.inst = i, pass' = Watch!Idle, UNCHANGED inst,
           Signals \subseteq Signals', \A j \in Insts \ {i} : dep'[j] = dep[j],
           i \in Signals' \/ Rested(i)'
    PROVE  DueInv'
<1>1. Refusal'
  BY IdlePass DEF Refusal
<1>2. \A j \in Insts : j \in Signals' \/ Rested(j)'
  <2> TAKE j \in Insts
  <2>1. CASE j = i
    BY <2>1
  <2>2. CASE j # i
    <3>1. j \in Signals \/ Rested(j)
      BY <2>2, DueCases DEF DueInv
    <3>2. Rested(j) => Rested(j)'
      BY <2>2 DEF Rested
    <3> QED BY <3>1, <3>2
  <2> QED BY <2>1, <2>2
<1>3. NeverForgotten'
  BY <1>2 DEF NeverForgotten, Due, Watch!ToSet, Signals, Rested
<1> QED BY <1>1, <1>3 DEF DueInv

\* The steps of a pass
LEMMA DuePass ==
    ASSUME SumInv, DueInv, Watch!Pass \/ Watch!Fail
    PROVE  DueInv'
<1> USE DEF Watch!At, Watch!world
<1>0. /\ pass.pc # "idle" => pass.inst \in Insts
      /\ dep \in [Insts -> Workloads \cup {None}] /\ pass \in Passes
  BY DEF SumInv, WatchTypes, Working
<1>1. CASE Watch!Begin
  <2> DEFINE i == Head(queue)
  <2>1. /\ i \in Insts /\ pass.pc = "idle" /\ UNCHANGED <<inst, dep, timers, unseen>>
        /\ queue' = Tail(queue) /\ Watch!ToSet(queue) \subseteq {i} \cup Watch!ToSet(Tail(queue))
    BY <1>1, HeadTaken DEF Watch!Begin, SumInv, WatchTypes
  <2>2. PICK p \in {IF inst[i].imageOk THEN "access" ELSE "reject"} :
           pass' = [Watch!Idle EXCEPT !.pc = p, !.inst = i, !.ref = inst[i].ref]
    BY <1>1 DEF Watch!Begin
  <2> HIDE DEF i
  <2>3. pass'.pc = p /\ pass'.inst = i /\ p # "idle"
    BY <2>2 DEF Watch!Idle
  <2>4. p = "reject" => ~inst[i].imageOk
    BY <2>2
  <2>5. Refusal'
    BY <2>1, <2>3, <2>4 DEF Refusal
  <2>6. \A j \in Insts : j \in Signals => j = i \/ j \in Signals'
    BY <2>1 DEF Signals
  <2>7. \A j \in Insts : j \in Signals' \/ (pass'.pc # "idle" /\ pass'.inst = j) \/ Rested(j)'
    BY <2>1, <2>3, <2>6, DueCases DEF DueInv, Rested
  <2>8. NeverForgotten'
    BY <2>7 DEF NeverForgotten, Due, Watch!ToSet, Signals, Rested
  <2> QED BY <2>5, <2>8 DEF DueInv
<1>2. CASE Watch!Reject
  <2>1. /\ UNCHANGED <<inst, queue, timers, unseen>> /\ pass' = Watch!Idle /\ pass.pc = "reject"
        /\ Watch!Stopped(pass.inst)
    BY <1>2 DEF Watch!Reject
  <2>2. /\ dep'[pass.inst] = None \/ ~dep'[pass.inst].on
        /\ \A j \in Insts \ {pass.inst} : dep'[j] = dep[j]
    BY <1>0, <2>1, StoppedFacts
  <2>3. Signals' = Signals
    BY <2>1 DEF Signals
  <2>4. PICK i \in Insts : i = pass.inst
    BY <1>0, <2>1
  <2>5. i \in Signals' \/ Rested(i)'
    BY <2>1, <2>2, <2>3, <2>4 DEF DueInv, Refusal, Rested
  <2> QED BY <2>1, <2>2, <2>3, <2>4, <2>5, DueEnd
<1>3. CASE Watch!Access \/ (Watch!Creds /\ cached[pass.ref] # None)
  <2>1. /\ UNCHANGED <<inst, dep, queue, timers, unseen>>
        /\ pass'.pc \in {"creds", "deploy"} /\ pass'.inst = pass.inst /\ pass.pc # "idle"
    BY <1>0, <1>3 DEF Watch!Access, Watch!Creds, Passes
  <2>2. Signals' = Signals
    BY <2>1 DEF Signals
  <2>3. \A j \in Insts : j \in Signals' \/ (pass'.pc # "idle" /\ pass'.inst = j) \/ Rested(j)'
    BY <2>1, <2>2, DueCases DEF DueInv, Rested
  <2>4. NeverForgotten'
    BY <2>3 DEF NeverForgotten, Due, Watch!ToSet, Signals, Rested
  <2> QED BY <2>1, <2>4 DEF DueInv, Refusal
<1>4. CASE Watch!Creds /\ cached[pass.ref] = None
  <2>1. /\ UNCHANGED <<inst, queue, unseen>> /\ pass' = Watch!Idle /\ pass.pc # "idle"
        /\ timers' = timers \cup {pass.inst} /\ Watch!Stopped(pass.inst)
    BY <1>4 DEF Watch!Creds, Watch!Denied, Watch!Again
  <2>2. \A j \in Insts \ {pass.inst} : dep'[j] = dep[j]
    BY <1>0, <2>1, StoppedFacts
  <2>3. Signals \subseteq Signals' /\ pass.inst \in Signals'
    BY <2>1 DEF Signals
  <2> QED BY <1>0, <2>1, <2>2, <2>3, DueEnd
<1>5. CASE Watch!Deploy
  <2>1. /\ UNCHANGED <<inst, queue, unseen>> /\ pass' = Watch!Idle /\ pass.pc # "idle"
        /\ timers' = timers \cup {pass.inst}
    BY <1>5 DEF Watch!Deploy, Watch!Again
  <2>2. \A j \in Insts \ {pass.inst} : dep'[j] = dep[j]
    BY <1>0, <1>5 DEF Watch!Deploy
  <2>3. Signals \subseteq Signals' /\ pass.inst \in Signals'
    BY <2>1 DEF Signals
  <2> QED BY <1>0, <2>1, <2>2, <2>3, DueEnd
<1>6. CASE Watch!Fail
  <2>1. /\ UNCHANGED <<inst, queue, unseen>> /\ pass' = Watch!Idle /\ pass.pc # "idle"
        /\ timers' = timers \cup {pass.inst}
        /\ UNCHANGED dep \/ Watch!Stopped(pass.inst)
    BY <1>6 DEF Watch!Fail, Watch!Again
  <2>2. \A j \in Insts \ {pass.inst} : dep'[j] = dep[j]
    BY <1>0, <2>1, StoppedFacts
  <2>3. Signals \subseteq Signals' /\ pass.inst \in Signals'
    BY <2>1 DEF Signals
  <2> QED BY <1>0, <2>1, <2>2, <2>3, DueEnd
<1> QED BY <1>1, <1>2, <1>3, <1>4, <1>5, <1>6 DEF Watch!Pass

\* Everything that happens around the worker
LEMMA DueRest ==
    ASSUME IsFiniteSet(Insts), Insts \cap Secrets = {}, SumInv, DueInv,
           \/ Watch!Restart \/ Watch!ChangeClient
           \/ \E s \in Secrets : Watch!SyncSecret(s) \/ Watch!SyncUnmapped(s) \/ Watch!ChangeSecret(s)
           \/ \E i \in Insts : Watch!Requeue(i) \/ Watch!SyncInstance(i) \/ Watch!ChangeSpec(i)
    PROVE  DueInv'
<1> USE DEF Watch!At, Watch!world
<1>0. queue \in Seq(Insts) /\ inst \in [Insts -> Instances]
  BY DEF SumInv, WatchTypes
<1>1. CASE Watch!Restart
  <2>1. pass' = Watch!Idle /\ queue' = Watch!SetToSeq(Insts)
    BY <1>1 DEF Watch!Restart
  <2>2. \A i \in Insts : i \in Signals'
    BY <2>1, Enumerated DEF Signals
  <2>3. NeverForgotten'
    BY <2>2 DEF NeverForgotten, Due, Watch!ToSet, Signals
  <2>4. Refusal'
    BY <2>1, IdlePass DEF Refusal
  <2> QED BY <2>3, <2>4 DEF DueInv
<1>2. CASE Watch!ChangeClient
  <2>1. UNCHANGED <<inst, dep, pass, queue, timers, unseen>>
    BY <1>2 DEF Watch!ChangeClient, Watch!Watched
  <2> QED BY <2>1, DueEvents DEF Signals
<1>3. ASSUME NEW s \in Secrets, Watch!SyncSecret(s) \/ Watch!SyncUnmapped(s)
      PROVE  DueInv'
  <2>1. /\ UNCHANGED <<inst, dep, pass, timers>> /\ unseen' = unseen \ {s}
        /\ queue' = queue \/ queue' = Watch!Enqueued(queue, Watch!Mapped(s))
    BY <1>3 DEF Watch!SyncSecret, Watch!SyncUnmapped
  <2>2. Watch!ToSet(queue) \subseteq Watch!ToSet(queue')
    BY <1>0, <2>1, EnqueuedFacts DEF Watch!Mapped
  <2>3. \A i \in Insts : i \in Signals => i \in Signals'
    BY <2>1, <2>2 DEF Signals
  <2> QED BY <2>1, <2>3, DueEvents
<1>4. ASSUME NEW s \in Secrets, Watch!ChangeSecret(s)
      PROVE  DueInv'
  <2>1. UNCHANGED <<inst, dep, pass, queue, timers>> /\ unseen' = unseen \cup {s}
    BY <1>4 DEF Watch!ChangeSecret, Watch!Watched
  <2>2. \A i \in Insts : i \in Signals => i \in Signals'
    BY <2>1 DEF Signals
  <2> QED BY <2>1, <2>2, DueEvents
<1>5. ASSUME NEW i \in Insts, Watch!Requeue(i) \/ Watch!SyncInstance(i)
      PROVE  DueInv'
  <2>1. /\ UNCHANGED <<inst, dep, pass>> /\ queue' = Watch!Enqueued(queue, {i})
        /\ timers \ {i} \subseteq timers' /\ unseen \ {i} \subseteq unseen'
    BY <1>5 DEF Watch!Requeue, Watch!SyncInstance
  <2>2. Watch!ToSet(queue') = Watch!ToSet(queue) \cup {i}
    BY <1>0, <2>1, EnqueuedFacts
  <2>3. \A j \in Insts : j \in Signals => j \in Signals'
    BY <2>1, <2>2 DEF Signals
  <2> QED BY <2>1, <2>3, DueEvents
<1>6. ASSUME NEW i \in Insts, Watch!ChangeSpec(i)
      PROVE  DueInv'
  <2>1. UNCHANGED <<dep, pass, queue, timers>> /\ unseen' = unseen \cup {i}
    BY <1>6 DEF Watch!ChangeSpec, Watch!Watched
  <2>2. \A j \in Insts \ {i} : inst'[j] = inst[j]
    BY <1>0, <1>6 DEF Watch!ChangeSpec
  <2>3. \A j \in Insts : /\ j \in Signals => j \in Signals'
                         /\ inst'[j] = inst[j] \/ j \in Signals'
    BY <2>1, <2>2 DEF Signals
  <2> QED BY <2>1, <2>3, DueEvents
<1> QED BY <1>1, <1>2, <1>3, <1>4, <1>5, <1>6

\* Nobody is forgotten, for any number of instances, Secrets, changes and faults.
THEOREM NobodyForgotten == Watch!Spec => []NeverForgotten
<1>1. Watch!Init => SumInv /\ DueInv
  <2> SUFFICES ASSUME Watch!Init PROVE DueInv
    BY SumInit, KindsAssumption
  <2>1. \A i \in Insts : i \in Signals
    BY KindsAssumption, Enumerated DEF Watch!Init, Signals
  <2>2. NeverForgotten
    BY <2>1, DueCases
  <2> QED BY <2>2, IdlePass DEF DueInv, Refusal, Watch!Init
<1>2. SumInv /\ DueInv /\ [Watch!Next]_(Watch!vars) => SumInv' /\ DueInv'
  <2> SUFFICES ASSUME SumInv, DueInv, [Watch!Next]_(Watch!vars) PROVE DueInv'
    BY SumNext, KindsAssumption
  <2>1. CASE UNCHANGED Watch!vars
    <3>1. UNCHANGED <<pass, dep, inst, queue, timers, unseen>>
      BY <2>1 DEF Watch!vars
    <3> QED BY <3>1, DueEvents DEF Signals
  <2> QED BY <2>1, KindsAssumption, DuePass, DueRest DEF Watch!Next
<1>3. DueInv => NeverForgotten
  BY DEF DueInv
<1> QED BY <1>1, <1>2, <1>3, PTL DEF Watch!Spec
=============================================================================
