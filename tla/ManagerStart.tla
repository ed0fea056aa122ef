---------------------------- MODULE ManagerStart ----------------------------
(***************************************************************************)
(* The start of the manager with its two policies: the hostname policy is  *)
(* parsed first (module HostnamePolicy), then the access policy (module    *)
(* AccessPolicy), and the controllers start when the names of the first    *)
(* fit PUBLIC_HOST.  Any error ends the process.  A running manager never  *)
(* reads either file again.                                                *)
(***************************************************************************)
EXTENDS HostnamePolicy

CONSTANTS
    Paths,      \* logical cluster, namespace and name of source instances
    SourceUids  \* UIDs of source instances

VARIABLES
    header, mappings,          \* the access policy file
    at, uids, local, sources,  \* the loop over its mappings
    decision                   \* of its Parse

access == <<header, mappings, at, uids, local, sources, decision>>

Access == INSTANCE AccessPolicy WITH file <- mappings, next <- at, verdict <- decision

StartInit == Init /\ Access!Init

\* loadHostnamePolicy, and at last the checks of SetupWithManager
Hostname ==
    /\ verdict = "parsing" \/ decision = "accepted"
    /\ Next
    /\ UNCHANGED access

\* loadAccessPolicy
Load ==
    /\ verdict = "accepted"
    /\ Access!Next
    /\ UNCHANGED vars

StartNext == Hostname \/ Load
StartSpec == StartInit /\ [][StartNext]_<<vars, access>>

(***************************************************************************)
(* Properties of module AccessPolicy, of the files the manager has read.   *)
(***************************************************************************)
\* The mappings the manager accepted are one to one: no source instance is given
\* to two instances, of the objects that ever bore a name at most one is mapped,
\* and no mapping hides another (Parse and Select).
MappingExact == Access!SourcesDistinct /\ Access!MappingExact

\* The proxy starts with whatever the manager accepted (Parse and newGate).
ProxyStarts == Access!ProxyStarts
=============================================================================
