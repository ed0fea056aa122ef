---------------------------- MODULE AccessPolicy ----------------------------
(***************************************************************************)
(* The access policy of the manager: the loop of Parse over the reviewed   *)
(* mappings of the file, Select, which finds the mapping of an instance,   *)
(* and what the access proxy checks of the configuration it is then given. *)
(* A mapping is a record of its keys and of the one thing that may be      *)
(* wrong with its other fields.                                            *)
(***************************************************************************)
EXTENDS Integers, Sequences, FiniteSets

CONSTANTS
    Uids,        \* UIDs of instances
    Identities,  \* namespace and name of instances
    Paths,       \* logical cluster, namespace and name of source instances
    SourceUids,  \* UIDs of source instances
    Blank,       \* an empty UID
    MaxEntries   \* bound: mappings of a file

\* A field Parse or the proxy may refuse: namespace or name of the instance; an
\* empty client ID, one with blanks, or the name of its Secret; the issuer's URL;
\* any field of the source.
Flaws == {"none", "identity", "noClient", "client", "issuer", "source"}
Entries == [uid : Uids \cup {Blank}, identity : Identities, path : Paths,
            sourceUid : SourceUids, flaw : Flaws]
Headers == [server : {"origin", "path", "http"}, ca : {"none", "pem", "other"},
            pinned : BOOLEAN]
Objects == [uid : Uids \cup {Blank}, identity : Identities]

VARIABLES
    header,      \* fields of the policy itself; "pinned" is the digest of the
                 \* proxy image and the format of the credential namespace
    file,        \* its mappings
    next,        \* number of the mapping parsed next
    uids, local, sources,  \* the keys seen
    verdict

vars == <<header, file, next, uids, local, sources, verdict>>

HTTPSURL(server, originOnly) == server = "origin" \/ (server = "path" /\ ~originOnly)

Init ==
    /\ header \in Headers
    /\ file \in UNION {[1..n -> Entries] : n \in 0..MaxEntries}
    /\ next = 1 /\ uids = {} /\ local = {} /\ sources = {}
    /\ verdict = "parsing"

HeaderOk == HTTPSURL(header.server, TRUE) /\ header.pinned

\* Mutant: the URL of the issuer is left to the proxy.
EntryOk_NoIssuer(e) == e.uid # Blank /\ e.flaw \in {"none", "issuer"}
EntryOk(e) == e.uid # Blank /\ e.flaw = "none"

Duplicate(e) == e.uid \in uids \/ e.identity \in local \/ e.path \in sources

Reject ==
    /\ verdict = "parsing"
    /\ \/ ~HeaderOk
       \/ next <= Len(file) /\ (~EntryOk(file[next]) \/ Duplicate(file[next]))
    /\ verdict' = "rejected"
    /\ UNCHANGED <<header, file, next, uids, local, sources>>

Take ==
    LET e == file[next]
    IN  /\ verdict = "parsing" /\ HeaderOk /\ next <= Len(file)
        /\ EntryOk(e) /\ ~Duplicate(e)
        /\ uids' = uids \cup {e.uid} /\ local' = local \cup {e.identity}
        /\ sources' = sources \cup {e.path}
        /\ next' = next + 1 /\ UNCHANGED <<header, file, verdict>>

Accept ==
    /\ verdict = "parsing" /\ HeaderOk /\ next > Len(file)
    /\ verdict' = "accepted"
    /\ UNCHANGED <<header, file, next, uids, local, sources>>

Next == Reject \/ Take \/ Accept
Spec == Init /\ [][Next]_vars

(***************************************************************************)
(* Select returns the first mapping that fits; the mappings of an accepted *)
(* file leave at most one.                                                 *)
(***************************************************************************)
\* Mutant: the UID of a recreated instance is not compared.
Fits_ByName(e, o) == e.identity = o.identity
Fits(e, o) == e.uid = o.uid /\ e.identity = o.identity
Mapped(o) == o.uid # Blank /\ \E i \in DOMAIN file : Fits(file[i], o)
First(o) == CHOOSE i \in DOMAIN file :
                Fits(file[i], o) /\ \A j \in DOMAIN file : Fits(file[j], o) => i <= j
Select(o) == file[First(o)]

(***************************************************************************)
(* Config.Validate and newGate of the proxy, on the configuration          *)
(* prepareAccess writes for a mapping and a valid host.                    *)
(***************************************************************************)
Validate(e) ==
    /\ HTTPSURL(header.server, TRUE)
    /\ e.flaw \notin {"issuer", "noClient", "source"}
newGate(e) == Validate(e) /\ header.ca \in {"none", "pem"}

(***************************************************************************)
(* Properties.                                                             *)
(***************************************************************************)
\* Two instances are never given the same source instance, even if it was
\* recreated and each mapping names another UID of it: one permission at KCP
\* never opens two workloads.
SourcesDistinct ==
    verdict = "accepted" =>
        \A o, p \in Objects : o.uid # p.uid /\ Mapped(o) /\ Mapped(p) => Select(o).path # Select(p).path

\* "A source or MSP object recreated under the same name requires a new mapping"
\* (docs/access-policy.md): of the objects that ever bore a name at most one is
\* mapped; and no mapping of the file is shadowed by another, whatever their order.
MappingExact ==
    verdict = "accepted" =>
        /\ \A o, p \in Objects : Mapped(o) /\ Mapped(p) /\ o.identity = p.identity => o = p
        /\ \A i \in DOMAIN file :
              LET o == [uid |-> file[i].uid, identity |-> file[i].identity]
              IN  Mapped(o) /\ Select(o) = file[i]

\* A mapping that the manager accepted configures a proxy that starts, the CA
\* aside: the workload that a cutover stopped is not replaced by one that exits.
\* (Parse does not look at kcpCA; newGate refuses one without a certificate.)
ProxyStarts ==
    verdict = "accepted" /\ header.ca # "other" =>
        \A o \in Objects : Mapped(o) => newGate(Select(o))
=============================================================================
