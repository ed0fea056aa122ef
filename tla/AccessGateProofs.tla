-------------------------- MODULE AccessGateProofs --------------------------
(***************************************************************************)
(* Proofs about AccessGate, for every set of requests, tokens and          *)
(* accounts, every lifetime of a token, every CheckTimeout below           *)
(* RecheckInterval and every bound.                                        *)
(***************************************************************************)
EXTENDS AccessGate, TLAPS

Acct(r) == Account[token[r]]

\* A check under way was sent at most one timeout ago.
Young(r) == stream[r] \in {"first", "open"} /\ check[r] # "none" =>
    asked[r] <= now /\ now <= asked[r] + CheckTimeout

\* A yes was true at some instant since the check was sent.
Truthful(r) == stream[r] \in {"first", "open"} /\ check[r] = "yes" /\ ~Permitted(Acct(r)) =>
    lost[Acct(r)] >= asked[r]

\* The ticker of an open stream: the next tick is at most an interval away,
\* and is not in the past; a check under way was sent by the last tick.
Ticker(r) == stream[r] = "open" =>
    /\ opened[r] <= now
    /\ due[r] <= now + RecheckInterval
    /\ check[r] = "none" => now <= due[r]
    /\ check[r] # "none" => due[r] = asked[r] + RecheckInterval

\* Without the permission, the last tick that could still say yes came before
\* the loss or was the opening of the stream.
Fresh(r) == stream[r] = "open" /\ ~Permitted(Acct(r)) =>
    LET last == IF check[r] = "none" THEN due[r] ELSE asked[r]
    IN  last <= lost[Acct(r)] + RecheckInterval \/ last <= opened[r] + RecheckInterval

\* The answer that opened the stream is at most one timeout older than it.
Opening(r) == stream[r] = "open" /\ ~Permitted(Acct(r)) =>
    opened[r] <= lost[Acct(r)] + CheckTimeout

Lifetime(r) == stream[r] = "open" => now <= Expiry[token[r]]

Inv(r) == Young(r) /\ Truthful(r) /\ Ticker(r) /\ Fresh(r) /\ Opening(r) /\ Lifetime(r)

IInv == TypeOK /\ (\A r \in Requests : Inv(r))

\* The invariant holds at first: there is no request.
LEMMA InitIInv == Init => IInv
  BY TokensAssumption, TimesAssumption
  DEF Init, IInv, TypeOK, Inv, Young, Truthful, Ticker, Fresh, Opening, Lifetime, Sources,
      Streams, Checks

\* A request's own invariant depends on its slot, the clock and the permissions.
LEMMA OthersKeep ==
    ASSUME NEW r \in Requests, Inv(r), UNCHANGED <<now, permits, source, lost>>,
           token'[r] = token[r], stream'[r] = stream[r], check'[r] = check[r],
           asked'[r] = asked[r], due'[r] = due[r], opened'[r] = opened[r]
    PROVE  Inv(r)'
  BY DEF Inv, Young, Truthful, Ticker, Fresh, Opening, Lifetime, Acct, Permitted

\* ServeHTTP and the recheck goroutines keep the invariant.
LEMMA ServeKeeps == IInv /\ (\E r \in Requests : Serve(r)) => IInv'
<1> SUFFICES ASSUME IInv, NEW r \in Requests, Serve(r) PROVE IInv'
  OBVIOUS
<1> USE TokensAssumption, TimesAssumption
    DEF IInv, TypeOK, Inv, Young, Truthful, Ticker, Fresh, Opening, Lifetime, Acct,
        Permitted, Sources, Streams, Checks, kcp, proxy
<1>1. CASE \E t \in Tokens : Arrive(r, t)
  BY <1>1 DEF Arrive, Send
<1>2. CASE Decide(r)
  BY <1>2 DEF Decide, Decision
<1>3. CASE Open(r)
  BY <1>3 DEF Open, Authorized, Unexpired
<1>4. CASE Refuse(r)
  BY <1>4 DEF Refuse, Cleared
<1>5. CASE Recheck(r)
  BY <1>5 DEF Recheck, RecheckDue, Send
<1>6. CASE Renewed(r)
  BY <1>6 DEF Renewed, Authorized, Unexpired
<1>7. CASE Cancel(r) \/ Deadline(r) \/ Finish(r)
  BY <1>7 DEF Cancel, Deadline, DeadlineDue, Finish, Close
<1>8. CASE Return(r)
  BY <1>8 DEF Return, Cleared
<1> QED
  BY <1>1, <1>2, <1>3, <1>4, <1>5, <1>6, <1>7, <1>8 DEF Serve

\* So do the changes at KCP: a loss of permission is recorded as it happens.
LEMMA KcpKeeps == IInv /\ Kcp => IInv'
<1> SUFFICES ASSUME IInv, Kcp PROVE IInv'
  OBVIOUS
<1>1. TypeOK'
  <2>1. permits' \subseteq Accounts /\ source' \in Sources
    BY DEF IInv, TypeOK, Kcp, Grant, Revoke, SourceChange, Outage, Back
  <2>2. up' \in BOOLEAN
    BY DEF IInv, TypeOK, Kcp, Grant, Revoke, SourceChange, Outage, Back
  <2>3. CASE Back
    BY <2>1, <2>2, <2>3 DEF IInv, TypeOK, Back, proxy
  <2>4. CASE Changed
    <3>1. changes' \in 0..MaxChanges /\ lost' \in [Accounts -> Nat]
      BY <2>4, TimesAssumption DEF IInv, TypeOK, Changed
    <3> QED
      BY <2>1, <2>2, <2>4, <3>1 DEF IInv, TypeOK, Changed, proxy
  <2> QED
    BY <2>3, <2>4 DEF Kcp, Grant, Revoke, SourceChange, Outage
<1>2. ASSUME NEW r \in Requests PROVE Inv(r)'
  <2> USE TokensAssumption, TimesAssumption
      DEF IInv, TypeOK, Inv, Young, Truthful, Ticker, Fresh, Opening, Lifetime, Acct,
          Permitted, Streams, Checks, kcp, proxy
  <2>1. CASE Back
    BY <2>1 DEF Back
  <2>2. CASE ~Back
    <3>1. Changed
      BY <2>2 DEF Kcp, Grant, Revoke, SourceChange, Outage
    <3> QED
      BY <3>1 DEF Changed
  <2> QED
    BY <2>1, <2>2
<1> QED
  BY <1>1, <1>2 DEF IInv

\* The clock waits for the timers, which is what bounds the ages.
LEMMA TickKeeps == IInv /\ Tick => IInv'
<1> SUFFICES ASSUME IInv, Tick PROVE IInv'
  OBVIOUS
<1>1. TypeOK'
  BY TimesAssumption DEF IInv, TypeOK, Tick, kcp, proxy
<1>2. ASSUME NEW r \in Requests PROVE Inv(r)'
  BY TokensAssumption, TimesAssumption
  DEF IInv, TypeOK, Inv, Young, Truthful, Ticker, Fresh, Opening, Lifetime, Acct,
      Permitted, Streams, Checks, kcp, proxy, Tick, Pending, TimedOut, RecheckDue, DeadlineDue,
      Unexpired
<1> QED
  BY <1>1, <1>2 DEF IInv

\* Nothing of a request survives the process; a new one starts with none.
LEMMA ProcessKeeps == IInv /\ (Exit \/ Start) => IInv'
<1> SUFFICES ASSUME IInv, Exit \/ Start PROVE IInv'
  OBVIOUS
<1>1. CASE Exit
  <2> USE TimesAssumption, <1>1 DEF Exit, Cleared, IInv, kcp
  <2>1. \A r \in Requests : stream'[r] = "idle"
    OBVIOUS
  <2>2. TypeOK'
    <3>1. running' \in BOOLEAN /\ up' \in BOOLEAN
      BY DEF TypeOK
    <3>2. changes' \in 0..MaxChanges
      BY DEF TypeOK
    <3> QED
      BY <3>1, <3>2 DEF TypeOK, Streams, Checks
  <2> QED
    BY <2>1, <2>2 DEF Inv, Young, Truthful, Ticker, Fresh, Opening, Lifetime
<1>2. CASE Start
  BY <1>2, TokensAssumption, TimesAssumption
  DEF Start, IInv, TypeOK, Inv, Young, Truthful, Ticker, Fresh, Opening, Lifetime, Acct,
      Permitted, Streams, Checks, kcp
<1> QED
  BY <1>1, <1>2

\* Every step keeps the invariant.
LEMMA NextIInv == IInv /\ [Next]_vars => IInv'
<1> SUFFICES ASSUME IInv, [Next]_vars PROVE IInv'
  OBVIOUS
<1>1. CASE UNCHANGED vars
  BY <1>1 DEF vars, IInv, TypeOK, Inv, Young, Truthful, Ticker, Fresh, Opening, Lifetime,
      Acct, Permitted
<1>2. CASE Reject
  BY <1>1, <1>2 DEF Reject
<1> QED
  BY <1>1, <1>2, ServeKeeps, KcpKeeps, TickKeeps, ProcessKeeps DEF Next

\* The inductive invariant holds in every behaviour.
THEOREM SpecIInv == Spec => []IInv
<1>1. Init => IInv
  BY InitIInv
<1>2. IInv /\ [Next]_vars => IInv'
  BY NextIInv
<1> QED
  BY <1>1, <1>2, PTL DEF Spec

\* Every variable keeps its type.
THEOREM TypeCorrect == Spec => []TypeOK
<1>1. IInv => TypeOK
  BY DEF IInv
<1> QED
  BY <1>1, SpecIInv, PTL

\* No stream outlives the ID token that established it.
THEOREM TokenBounds == Spec => []WithinToken
<1>1. IInv => WithinToken
  BY DEF IInv, Inv, Lifetime, WithinToken
<1> QED
  BY <1>1, SpecIInv, PTL

\* A stream whose permission is gone ends within an interval and a timeout of
\* the loss, or of its opening.
THEOREM RevocationBounds == Spec => []RevocationBounded
<1>1. IInv => RevocationBounded
  BY TimesAssumption, TokensAssumption
  DEF IInv, TypeOK, Inv, Young, Ticker, Fresh, Acct, RevocationBounded, Streams
<1> QED
  BY <1>1, SpecIInv, PTL

\* Counted from the loss alone, within an interval and two timeouts.
THEOREM RevocationTotals == Spec => []RevocationTotal
<1>1. IInv => RevocationTotal
  BY TimesAssumption, TokensAssumption
  DEF IInv, TypeOK, Inv, Young, Ticker, Fresh, Opening, Acct, RevocationTotal, Streams
<1> QED
  BY <1>1, SpecIInv, PTL

\* A stream opens only on a permission that existed during its own first check.
THEOREM OpensOnPermission == Spec => OpenedOnPermission
<1> DEFINE P == \A r \in Requests : stream[r] = "first" /\ stream'[r] = "open" =>
           LET a == Account[token[r]]
           IN  Permitted(a) \/ (lost[a] >= asked[r] /\ now <= lost[a] + CheckTimeout)
<1>1. IInv /\ [Next]_vars => [P]_vars
  <2> SUFFICES ASSUME IInv, [Next]_vars, NEW r \in Requests, stream[r] = "first",
                      stream'[r] = "open"
               PROVE  LET a == Account[token[r]]
                      IN  Permitted(a) \/ (lost[a] >= asked[r] /\ now <= lost[a] + CheckTimeout)
    OBVIOUS
  <2>1. check[r] = "yes"
    BY DEF IInv, TypeOK, Next, vars, Serve, Kcp, kcp, proxy, Arrive, Decide, Open, Authorized,
       Refuse, Recheck, Renewed, Cancel, Deadline, Finish, Return, Close, Cleared, Send, Grant,
       Revoke, SourceChange, Outage, Back, Changed, Exit, Start, Tick, Reject
  <2> QED
    BY <2>1, TimesAssumption, TokensAssumption
    DEF IInv, TypeOK, Inv, Young, Truthful, Acct
<1> QED
  BY <1>1, SpecIInv, PTL DEF Spec, OpenedOnPermission

=============================================================================
