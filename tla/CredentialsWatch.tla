-------------------------- MODULE CredentialsWatch --------------------------
(***************************************************************************)
(* How a change of credentials reaches the workloads.  The backend Secret  *)
(* of an instance is read from a cache that lags, and its events are       *)
(* mapped to instances by a list of the same cache that may fail and then  *)
(* maps to none.  The OIDC client credential is read from the API server,  *)
(* in a namespace whose events map to no instance.  A work queue without   *)
(* duplicates, timers and one worker turn events into passes, which read   *)
(* at different moments, stop a workload that differs, and install the new *)
(* one in a later pass.                                                    *)
(*                                                                         *)
(* Abstractions.  The data of a Secret is the sequence of its keys and     *)
(* values in the order of the keys, SHA-256 is injective, and pods of a    *)
(* stopped workload are gone by the next pass (module Reconciler waits for *)
(* them and goes on to Service, route and status).  The events of the      *)
(* workload itself are left out: they only add passes.                     *)
(***************************************************************************)
EXTENDS CredentialsState, Sequences, SequencesExt

vars == <<data, cached, inst, listed, unseen, client, dep, queue, timers, pass, past, changes, faults>>
world == <<data, inst, client, past, changes>>

\* computeSecretChecksum hashes keys and values one after the other.
Checksum(d) == FlattenSeq(d)

Idle == [pc |-> "idle", inst |-> None, ref |-> None, client |-> None, sum |-> None]

Init ==
    /\ \E d \in Data : data = [s \in Secrets |-> d]
    /\ cached = data
    /\ inst \in [Insts -> [ref : Secrets, imageOk : {TRUE}]]
    /\ listed = inst /\ unseen = {}
    /\ client = 0
    /\ dep = [i \in Insts |-> None]
    /\ queue = SetToSeq(Insts) /\ timers = {} /\ pass = Idle
    /\ past = [s \in Secrets |-> {Checksum(data[s])}]
    /\ changes = 0 /\ faults = 0

----------------------------------------------------------------------------
\* The work queue

Enqueued(q, S) == q \o SetToSeq(S \ ToSet(q))

Requeue(i) ==
    /\ i \in timers /\ timers' = timers \ {i} /\ queue' = Enqueued(queue, {i})
    /\ UNCHANGED <<world, cached, listed, unseen, dep, pass, faults>>

\* Mutant: a pass leaves it to the watches to be called again.
Again_Watched(i) == UNCHANGED timers

\* Every return but the one for an unsupported image has a requeue.
Again(i) == timers' = timers \cup {i}

----------------------------------------------------------------------------
\* A pass

At(p) == pass.pc = p

Stopped(i) == dep' = [dep EXCEPT ![i] = IF @ = None THEN None ELSE [@ EXCEPT !.on = FALSE]]

\* getInstance reads the API server, not the cache.
Begin ==
    /\ At("idle") /\ queue # <<>> /\ queue' = Tail(queue)
    /\ LET i == Head(queue) IN
       \E p \in {IF inst[i].imageOk THEN "access" ELSE "reject"} :
          pass' = [Idle EXCEPT !.pc = p, !.inst = i, !.ref = inst[i].ref]
    /\ UNCHANGED <<world, cached, listed, unseen, dep, timers, faults>>

\* rejectImage stops the workload and waits for the spec to change.
Reject ==
    /\ At("reject") /\ Stopped(pass.inst) /\ pass' = Idle
    /\ UNCHANGED <<world, cached, listed, unseen, queue, timers, faults>>

\* prepareAccess reads the client credential; when it pins a new bundle the
\* pass goes on with the instance as it is stored then.
Access ==
    /\ At("access")
    /\ \E r \in {pass.ref, inst[pass.inst].ref} :
          pass' = [pass EXCEPT !.pc = "creds", !.ref = r, !.client = client]
    /\ UNCHANGED <<world, cached, listed, unseen, dep, queue, timers, faults>>

\* Mutant: a denial waits for an event, as a refused image does.
Denied_Final(i) == Stopped(i) /\ pass' = Idle /\ UNCHANGED timers

\* denyAccess: the workload is stopped, and the pass repeated in 30 seconds.
Denied(i) ==
    /\ Stopped(i) /\ pass' = Idle /\ Again(i)

\* The backend Secret, from the cache
Creds ==
    /\ At("creds")
    /\ \/ /\ cached[pass.ref] # None
          /\ pass' = [pass EXCEPT !.pc = "deploy", !.sum = Checksum(cached[pass.ref])]
          /\ UNCHANGED <<dep, timers>>
       \/ cached[pass.ref] = None /\ Denied(pass.inst)
    /\ UNCHANGED <<world, cached, listed, unseen, queue, faults>>

\* Mutant: the Deployment is built from the instance as it is stored by now.
Built_Live == [on |-> TRUE, ref |-> inst[pass.inst].ref, sum |-> pass.sum, client |-> pass.client]

Built == [on |-> TRUE, ref |-> pass.ref, sum |-> pass.sum, client |-> pass.client]

\* reconcileDeployment: create, start again, stop, or replace what is stopped
Deploy ==
    /\ At("deploy") /\ pass' = Idle /\ Again(pass.inst)
    /\ LET d == dep[pass.inst] IN
       dep' = [dep EXCEPT ![pass.inst] =
          IF d # None /\ d.on /\ [d EXCEPT !.on = TRUE] # Built THEN [d EXCEPT !.on = FALSE] ELSE Built]
    /\ UNCHANGED <<world, cached, listed, unseen, queue, faults>>

Pass == Begin \/ Reject \/ Access \/ Creds \/ Deploy

----------------------------------------------------------------------------
\* Watches

Mapped(s) == {i \in Insts : listed[i].ref = s}

\* The cache learns of a Secret; findChatUIInstancesForSecret maps the event.
SyncSecret(s) ==
    /\ s \in unseen /\ unseen' = unseen \ {s} /\ cached' = [cached EXCEPT ![s] = data[s]]
    /\ queue' = Enqueued(queue, Mapped(s))
    /\ UNCHANGED <<world, listed, dep, timers, pass, faults>>

\* The list fails: the event maps to nothing, and is not repeated.
SyncUnmapped(s) ==
    /\ faults < MaxFaults /\ faults' = faults + 1
    /\ s \in unseen /\ unseen' = unseen \ {s} /\ cached' = [cached EXCEPT ![s] = data[s]]
    /\ UNCHANGED <<world, listed, dep, queue, timers, pass>>

\* The cache learns of a new spec; the instance's own event is queued.
SyncInstance(i) ==
    /\ i \in unseen /\ unseen' = unseen \ {i} /\ listed' = [listed EXCEPT ![i] = inst[i]]
    /\ queue' = Enqueued(queue, {i})
    /\ UNCHANGED <<world, cached, dep, timers, pass, faults>>

\* A call of the pass fails: the workload is stopped too, if the call is one that
\* denies access and the stop does not fail; the pass is repeated with backoff.
Fail ==
    /\ ~At("idle") /\ faults < MaxFaults /\ faults' = faults + 1
    /\ pass' = Idle /\ Again(pass.inst)
    /\ UNCHANGED dep \/ Stopped(pass.inst)
    /\ UNCHANGED <<world, cached, listed, unseen, queue>>

\* The manager restarts: queue and timers are lost, caches are filled anew, and
\* every instance is queued.
Restart ==
    /\ faults < MaxFaults /\ faults' = faults + 1
    /\ cached' = data /\ listed' = inst /\ unseen' = {}
    /\ queue' = SetToSeq(Insts) /\ timers' = {} /\ pass' = Idle
    /\ UNCHANGED <<world, dep>>

----------------------------------------------------------------------------
\* Users and operators

Changed == changes < MaxChanges /\ changes' = changes + 1
Watched == UNCHANGED <<cached, listed, dep, queue, timers, pass, faults>>

ChangeSecret(s) ==
    /\ Changed /\ Watched /\ UNCHANGED <<inst, client>> /\ unseen' = unseen \cup {s}
    /\ \E d \in (Data \cup {None}) \ {data[s]} :
          /\ data' = [data EXCEPT ![s] = d]
          /\ past' = [past EXCEPT ![s] = IF d = None THEN @ ELSE @ \cup {Checksum(d)}]

ChangeClient ==
    /\ Changed /\ Watched /\ client' = client + 1
    /\ UNCHANGED <<data, inst, unseen, past>>

\* The reference is edited, or the image (one the CRD of another release allowed).
ChangeSpec(i) ==
    /\ Changed /\ Watched /\ UNCHANGED <<data, client, past>> /\ unseen' = unseen \cup {i}
    /\ \/ \E s \in Secrets \ {inst[i].ref} : inst' = [inst EXCEPT ![i].ref = s]
       \/ inst' = [inst EXCEPT ![i].imageOk = ~@]

Next ==
    \/ Pass \/ Fail \/ Restart \/ ChangeClient
    \/ \E s \in Secrets : SyncSecret(s) \/ SyncUnmapped(s) \/ ChangeSecret(s)
    \/ \E i \in Insts : Requeue(i) \/ SyncInstance(i) \/ ChangeSpec(i)

Spec == Init /\ [][Next]_vars

FairSpec ==
    /\ Spec /\ WF_vars(Pass)
    /\ \A s \in Secrets : WF_vars(SyncSecret(s) \/ SyncUnmapped(s))
    /\ \A i \in Insts : WF_vars(Requeue(i)) /\ WF_vars(SyncInstance(i))

----------------------------------------------------------------------------
\* Once nothing changes any more, every workload whose Secret exists serves with the
\* credentials that are stored, and the others are stopped, although events were
\* mapped to nobody, caches lagged and passes failed (docs/user-guide.md,
\* "Secret contents change": no manual intervention).
CredentialsApplied ==
    \A i \in Insts : <>[]
        IF inst[i].imageOk /\ data[inst[i].ref] # None
        THEN dep[i] = [on |-> TRUE, ref |-> inst[i].ref,
                       sum |-> Checksum(data[inst[i].ref]), client |-> client]
        ELSE dep[i] = None \/ ~dep[i].on
=============================================================================
