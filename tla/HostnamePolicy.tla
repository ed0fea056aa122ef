--------------------------- MODULE HostnamePolicy ---------------------------
(***************************************************************************)
(* The hostname policy of the manager: the loop of Parse over the entries  *)
(* of the file, ValidatePublicHost at startup, and Select, which names an  *)
(* instance from its UID, namespace, name and creation time.               *)
(* A decoded file is a sequence of entries.  Each step parses one entry;   *)
(* the manager starts only with a policy that was accepted, and every      *)
(* object that may ever exist is then a possible argument of Select.       *)
(***************************************************************************)
EXTENDS Integers, Sequences, FiniteSets

CONSTANTS
    Uids,        \* UIDs of objects
    Identities,  \* namespace and name
    Slugs,       \* DNS labels
    Reserved,    \* labels of the form ui-<32 hex digits>
    Digest,      \* [Uids -> Reserved]: ui- and the hash of the UID
    TooLong,     \* labels too long in front of PUBLIC_HOST
    Blank,       \* an empty UID or slug
    Malformed,   \* a UID with spaces around it, or a slug that is no DNS label
    MaxEntries   \* bound: entries of a file

\* The first 128 bits of SHA-256 are taken to have no collisions; reserved
\* labels all have the same length.
ASSUME DigestAssumption == Digest \in [Uids -> Reserved]
    /\ \A u, w \in Uids : Digest[u] = Digest[w] => u = w
ASSUME SlugsAssumption == Reserved \subseteq Slugs /\ TooLong \subseteq Slugs
    /\ (Reserved \cap TooLong = {} \/ Reserved \subseteq TooLong)
ASSUME BlankAssumption == {Blank, Malformed} \cap (Uids \cup Slugs) = {} /\ Blank # Malformed
ASSUME BoundAssumption == MaxEntries \in Nat

Entries == [uid : Uids \cup {Blank, Malformed}, identity : Identities,
            mode : {"legacy", "derive", "other"}, slug : Slugs \cup {Blank, Malformed}]
Objects == [uid : Uids \cup {Blank}, identity : Identities, created : {"before", "after", "zero"}]

VARIABLES
    file,        \* the decoded entries
    next,        \* number of the entry parsed next
    entries,     \* policy.entries, as the set of its values
    identities,  \* identities seen
    slugs,       \* legacy slugs seen
    verdict      \* of Parse, then of ValidatePublicHost

vars == <<file, next, entries, identities, slugs, verdict>>

Init ==
    /\ file \in UNION {[1..n -> Entries] : n \in 0..MaxEntries}
    /\ next = 1 /\ entries = {} /\ identities = {} /\ slugs = {}
    /\ verdict = "parsing"

\* Mutant: a legacy slug may have the format of a derived one.
validateEntry_AnySlug(e) ==
    /\ e.uid \in Uids
    /\ \/ e.mode = "legacy" /\ e.slug \in Slugs
       \/ e.mode = "derive" /\ e.slug = Blank
validateEntry(e) ==
    /\ e.uid \in Uids
    /\ \/ e.mode = "legacy" /\ e.slug \in Slugs \ Reserved
       \/ e.mode = "derive" /\ e.slug = Blank

\* Mutant: identities of entries that derive their name may repeat.
Duplicate_LegacyOnly(e) ==
    \/ \E p \in entries : p.uid = e.uid
    \/ e.mode = "legacy" /\ (e.identity \in identities \/ e.slug \in slugs)
Duplicate(e) ==
    \/ \E p \in entries : p.uid = e.uid
    \/ e.identity \in identities
    \/ e.mode = "legacy" /\ e.slug \in slugs

Reject ==
    /\ verdict = "parsing" /\ next <= Len(file)
    /\ ~validateEntry(file[next]) \/ Duplicate(file[next])
    /\ verdict' = "rejected"
    /\ UNCHANGED <<file, next, entries, identities, slugs>>

Take ==
    LET e == file[next]
    IN  /\ verdict = "parsing" /\ next <= Len(file)
        /\ validateEntry(e) /\ ~Duplicate(e)
        /\ entries' = entries \cup {e}
        /\ identities' = identities \cup {e.identity}
        /\ slugs' = IF e.mode = "legacy" THEN slugs \cup {e.slug} ELSE slugs
        /\ next' = next + 1
        /\ UNCHANGED <<file, verdict>>

Accept ==
    /\ verdict = "parsing" /\ next > Len(file)
    /\ verdict' = "accepted"
    /\ UNCHANGED <<file, next, entries, identities, slugs>>

\* Before the controllers start, one derived name and every legacy name.
Fits(slug) == slug \in Slugs \ TooLong
ValidatePublicHost ==
    /\ \A s \in Reserved : Fits(s)
    /\ \A e \in entries : e.mode = "legacy" => Fits(e.slug)

Start ==
    /\ verdict = "accepted"
    /\ verdict' = IF ValidatePublicHost THEN "running" ELSE "refused"
    /\ UNCHANGED <<file, next, entries, identities, slugs>>

Next == Reject \/ Take \/ Accept \/ Start
Spec == Init /\ [][Next]_vars

(***************************************************************************)
(* Select.                                                                 *)
(***************************************************************************)
NoName == [slug |-> Blank, source |-> "none"]
Mapped(o) == \E e \in entries : e.uid = o.uid
EntryOf(o) == CHOOSE e \in entries : e.uid = o.uid
Derived(o) == [slug |-> Digest[o.uid], source |-> "derived"]

\* Mutant: a mapping is bound to the UID or to the namespace and name.
Select_EitherKey(o) ==
    IF o.uid \notin Uids \/ o.created = "zero" THEN NoName
    ELSE IF \E e \in entries : e.uid = o.uid \/ e.identity = o.identity
         THEN LET e == CHOOSE e \in entries : e.uid = o.uid \/ e.identity = o.identity
              IN  IF e.mode = "legacy" THEN [slug |-> e.slug, source |-> "legacy"] ELSE Derived(o)
         ELSE IF o.created = "after" THEN Derived(o) ELSE NoName
Select(o) ==
    IF o.uid \notin Uids \/ o.created = "zero" THEN NoName
    ELSE IF Mapped(o)
         THEN LET e == EntryOf(o)
              IN  IF e.identity # o.identity THEN NoName
                  ELSE IF e.mode = "legacy" THEN [slug |-> e.slug, source |-> "legacy"]
                       ELSE Derived(o)
         ELSE IF o.created = "after" THEN Derived(o) ELSE NoName
Named(o) == Select(o) # NoName

(***************************************************************************)
(* Properties.                                                             *)
(***************************************************************************)
\* Every variable keeps its type; the sets of the loop belong to its entries.
TypeOK ==
    /\ \E n \in 0..MaxEntries : file \in [1..n -> Entries]
    /\ next \in 1..(Len(file) + 1)
    /\ entries = {file[i] : i \in 1..(next - 1)}
    /\ identities = {e.identity : e \in entries}
    /\ slugs = {e.slug : e \in {e \in entries : e.mode = "legacy"}}
    /\ verdict \in {"parsing", "rejected", "accepted", "running", "refused"}

\* What "duplicate instance identity", "duplicate legacy slug" and the format of
\* an entry mean, said of the whole file instead of entry by entry.
Unambiguous ==
    /\ \A i \in DOMAIN file : validateEntry(file[i])
    /\ \A i, j \in DOMAIN file : i # j =>
          /\ file[i].uid # file[j].uid /\ file[i].identity # file[j].identity
          /\ file[i].mode = "legacy" /\ file[j].mode = "legacy" => file[i].slug # file[j].slug

\* Parse accepts exactly the unambiguous files: none of its early returns, and
\* none of the three sets it keeps, depends on the order of the entries.
ParseExact ==
    /\ verdict \in {"accepted", "running", "refused"} => Unambiguous
    /\ verdict = "rejected" => ~Unambiguous

\* Under a running manager two objects with different UIDs never get the same
\* name, whatever they are called, whichever of them is mapped, and whenever they
\* were created: recreated, restored and renamed objects included.
NamesDistinct ==
    verdict = "running" =>
        \A o, p \in Objects : o.uid # p.uid /\ Named(o) /\ Named(p) => Select(o).slug # Select(p).slug

\* "A changed UID never inherits a mapping" (docs/hostname-policy.md): a mapped
\* name goes to the one object whose UID, namespace and name are all mapped to it.
NeverInherited ==
    verdict = "running" =>
        \A o \in Objects, e \in entries :
            e.mode = "legacy" /\ Select(o).slug = e.slug => o.uid = e.uid /\ o.identity = e.identity

\* Names selected by a manager that passed its startup checks form a valid host:
\* instanceHost never fails for a reason of the policy or of PUBLIC_HOST.
NamesFit == verdict = "running" => \A o \in Objects : Named(o) => Fits(Select(o).slug)
=============================================================================
