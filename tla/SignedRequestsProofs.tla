----------------------- MODULE SignedRequestsProofs -----------------------
(***************************************************************************)
(* RunsOnceAsSigned and EarlierRunsWereSeen for every set of chains,       *)
(* contracts, wallets, tabs and deadlines.                                 *)
(***************************************************************************)
EXTENDS SignedRequests, TLAPS

NonceNow(r) == nonces[r.chain][r.contract][r.from]

\* Requests that use the same nonces.
SameNonces(q, r) == q.chain = r.chain /\ q.contract = r.contract /\ q.from = r.from

\* A nonce that still counts was read after the last accepted request it counts with.
Fresh(s) ==
  /\ s.request.nonce <= NonceNow(s.request)
  /\ s.request.nonce = NonceNow(s.request) =>
       \A i \in DOMAIN runs : SameNonces(Run(i), s.request) => i <= s.seen

RequestsInv ==
  /\ RequestsTypeOK
  /\ \A t \in Tabs : \A s \in tabs[t] : Fresh(s)
  /\ \A s \in signed : Fresh(s)
  /\ \A i \in DOMAIN runs : Run(i).nonce < NonceNow(Run(i))
  /\ RunsOnceAsSigned
  /\ EarlierRunsWereSeen

LEMMA RequestsInit == Init => RequestsInv
<1> SUFFICES ASSUME Init PROVE RequestsInv
  OBVIOUS
<1>1. RequestsTypeOK
  BY DEF Init, RequestsTypeOK, Idle
<1>2. DOMAIN runs = {}
  BY DEF Init
<1> QED
  BY <1>1, <1>2 DEF Init, RequestsInv, Idle, RunsOnceAsSigned, EarlierRunsWereSeen

\* A step that accepts nothing keeps what is fresh, and the history with it.
LEMMA NothingAccepted ==
  ASSUME RequestsInv, UNCHANGED <<nonces, runs>>, signed \subseteq signed'
  PROVE  /\ \A s \in Signings : Fresh(s) => Fresh(s)'
         /\ (\A i \in DOMAIN runs : Run(i).nonce < NonceNow(Run(i)))'
         /\ RunsOnceAsSigned'
         /\ EarlierRunsWereSeen'
  BY DEF RequestsInv, Fresh, NonceNow, Run, RunsOnceAsSigned, EarlierRunsWereSeen

LEMMA ReadStep ==
  ASSUME RequestsInv, NEW t \in Tabs, Read(t)
  PROVE  RequestsInv'
<1> USE DEF RequestsInv, RequestsTypeOK
<1>1. PICK c \in Chains, k \in Contracts, call \in Calls, d \in Deadlines :
        tabs' = [tabs EXCEPT ![t] =
          {[request |-> [chain |-> c, contract |-> k, from |-> Wallet[t], call |-> call,
                         nonce |-> NonceOf(c, k, Wallet[t]), deadline |-> d],
            seen |-> Len(runs)]}]
  BY DEF Read
<1> DEFINE r == [chain |-> c, contract |-> k, from |-> Wallet[t], call |-> call,
                 nonce |-> NonceOf(c, k, Wallet[t]), deadline |-> d]
           new == [request |-> r, seen |-> Len(runs)]
<1>2. UNCHANGED <<now, nonces, signed, runs>>
  BY DEF Read
<1>3. new \in Signings
  BY RequestsAssumption DEF Signings, Requests, NonceOf
<1>4. Fresh(new)
  BY RequestsAssumption, <1>3 DEF Fresh, NonceNow, NonceOf, Requests
<1>5. \A u \in Tabs : tabs'[u] = IF u = t THEN {new} ELSE tabs[u]
  BY <1>1
<1>6. tabs' \in [Tabs -> SUBSET Signings]
  BY <1>1, <1>3
<1> HIDE DEF new
<1>7. \A u \in Tabs : \A s \in tabs'[u] : Fresh(s)'
  BY <1>2, <1>3, <1>4, <1>5, NothingAccepted
<1>8. \A s \in signed' : Fresh(s)'
  BY <1>2, NothingAccepted
<1> QED
  BY <1>2, <1>6, <1>7, <1>8, NothingAccepted

LEMMA SignStep ==
  ASSUME RequestsInv, NEW t \in Tabs, Sign(t) \/ Reject(t)
  PROVE  RequestsInv'
<1> USE DEF RequestsInv, RequestsTypeOK
<1>1. /\ tabs' = [tabs EXCEPT ![t] = {}] /\ signed \subseteq signed'
      /\ signed' \subseteq signed \cup tabs[t]
      /\ UNCHANGED <<now, nonces, runs>>
  BY DEF Sign, Reject, Idle
<1>2. tabs' \in [Tabs -> SUBSET Signings] /\ signed' \subseteq Signings
  BY <1>1
<1>3. \A s \in signed' : Fresh(s)'
  BY <1>1, NothingAccepted
<1>4. \A u \in Tabs : \A s \in tabs'[u] : Fresh(s)'
  BY <1>1, NothingAccepted
<1> QED
  BY <1>1, <1>2, <1>3, <1>4, NothingAccepted

LEMMA AcceptStep ==
  ASSUME RequestsInv, NEW s \in signed, NEW c \in Chains, Accept(s, c)
  PROVE  RequestsInv'
<1> DEFINE r == s.request
           n == Len(runs) + 1
           run == [signing |-> s, chain |-> c, at |-> now]
           Ran(i) == runs'[i].signing.request
<1>1. /\ r.chain = c /\ r.nonce = NonceNow(r) /\ now <= r.deadline
      /\ nonces' = [nonces EXCEPT ![c][r.contract][r.from] = r.nonce + 1]
      /\ runs' = Append(runs, run)
      /\ UNCHANGED <<now, tabs, signed>>
  BY DEF Accept, Recovered, NonceNow
<1>2. /\ s \in Signings /\ r \in Requests /\ r.nonce \in Nat
      /\ r.chain \in Chains /\ r.contract \in Contracts /\ r.from \in Wallets
      /\ r.deadline \in Nat
  BY RequestsAssumption DEF RequestsInv, RequestsTypeOK, Signings, Requests
<1>3. RequestsTypeOK'
  BY <1>1, <1>2 DEF RequestsInv, RequestsTypeOK
<1>4. /\ DOMAIN runs' = DOMAIN runs \cup {n} /\ n \notin DOMAIN runs
      /\ \A i \in DOMAIN runs : i \in Nat /\ i < n /\ runs'[i] = runs[i]
      /\ runs'[n] = run /\ n \in Nat
  BY <1>1 DEF RequestsInv, RequestsTypeOK
<1> HIDE DEF n
<1>5. /\ \A i \in DOMAIN runs : Ran(i) = Run(i) /\ Run(i) \in Requests
      /\ Ran(n) = r
  <2>1. \A i \in DOMAIN runs : runs[i].signing.request \in Requests
    <3> DEFINE S == [signing : Signings, chain : Chains, at : Nat]
    <3>1. runs \in Seq(S)
      BY DEF RequestsInv, RequestsTypeOK
    <3>2. \A e \in S : e.signing.request \in Requests
      BY DEF Signings
    <3> HIDE DEF S
    <3>3. \A i \in DOMAIN runs : runs[i] \in S
      BY <3>1
    <3> QED
      BY <3>2, <3>3
  <2>2. runs'[n].signing.request = r
    BY <1>4
  <2>3. \A i \in DOMAIN runs : runs'[i] = runs[i]
    BY <1>4
  <2>4. \A i \in DOMAIN runs : Run(i) \in Requests /\ runs'[i].signing.request = Run(i)
    BY <2>1, <2>3 DEF Run
  <2> QED
    BY <2>2, <2>4
<1> HIDE DEF run
<1>6. \A q \in Requests : /\ NonceNow(q) \in Nat
                          /\ NonceNow(q)' = IF SameNonces(q, r) THEN r.nonce + 1 ELSE NonceNow(q)
  BY <1>1, <1>2 DEF NonceNow, SameNonces, Requests, RequestsInv, RequestsTypeOK
<1>7. \A q \in Signings : Fresh(q) => Fresh(q)'
  <2> SUFFICES ASSUME NEW q \in Signings, Fresh(q)
               PROVE  Fresh(q)'
    OBVIOUS
  <2>1. q.request \in Requests /\ q.request.nonce \in Nat /\ q.seen \in Nat
    BY DEF Signings, Requests
  <2>2. CASE SameNonces(q.request, r)
    <3>1. NonceNow(q.request) = r.nonce
      BY <1>1, <2>2 DEF NonceNow, SameNonces
    <3>2. q.request.nonce <= r.nonce
      BY <3>1 DEF Fresh
    <3>3. NonceNow(q.request)' = r.nonce + 1
      BY <1>6, <2>1, <2>2
    <3> QED
      BY <3>2, <3>3, <2>1, <1>2 DEF Fresh
  <2>3. CASE ~SameNonces(q.request, r)
    <3>1. NonceNow(q.request)' = NonceNow(q.request)
      BY <1>6, <2>1, <2>3
    <3>2. \A i \in DOMAIN runs' : SameNonces(Ran(i), q.request)
            => i \in DOMAIN runs /\ SameNonces(Run(i), q.request)
      BY <1>4, <1>5, <2>3 DEF SameNonces
    <3> QED
      BY <3>1, <3>2 DEF Fresh, Run
  <2> QED
    BY <2>2, <2>3
<1>8. (\A i \in DOMAIN runs : Run(i).nonce < NonceNow(Run(i)))'
  <2> DEFINE After(q) == nonces'[q.chain][q.contract][q.from]
  <2>1. \A q \in Requests : After(q) = IF SameNonces(q, r) THEN r.nonce + 1 ELSE NonceNow(q)
    BY <1>6 DEF NonceNow
  <2>2. ASSUME NEW i \in DOMAIN runs
        PROVE  Run(i).nonce < After(Run(i))
    <3>1. Run(i).nonce < NonceNow(Run(i)) /\ Run(i) \in Requests /\ Run(i).nonce \in Nat
      BY <1>5 DEF RequestsInv, Requests
    <3>2. SameNonces(Run(i), r) => NonceNow(Run(i)) = r.nonce
      BY <1>1 DEF NonceNow, SameNonces
    <3> QED
      BY <3>1, <3>2, <1>2, <2>1
  <2>3. r.nonce < After(r)
    BY <1>2, <2>1 DEF SameNonces
  <2> HIDE DEF After
  <2>4. \A i \in DOMAIN runs' : Ran(i).nonce < After(Ran(i))
    BY <2>2, <2>3, <1>4, <1>5
  <2> QED
    BY <2>4 DEF After, NonceNow, Run
<1>9. RunsOnceAsSigned'
  <2>1. \A i \in DOMAIN runs : Run(i) # r
    <3> SUFFICES ASSUME NEW i \in DOMAIN runs, Run(i) = r
                 PROVE  FALSE
      OBVIOUS
    <3> QED
      BY <1>1, <1>2 DEF RequestsInv
  <2>2. /\ runs'[n].signing \in signed' /\ runs'[n].chain = r.chain /\ runs'[n].at <= r.deadline
    BY <1>1, <1>4 DEF run
  <2> QED
    BY <1>1, <1>4, <1>5, <2>1, <2>2 DEF RequestsInv, RunsOnceAsSigned, Run
<1>10. EarlierRunsWereSeen'
  <2>1. \A i \in DOMAIN runs : SameNonces(Run(i), r) => i <= s.seen
    BY <1>1 DEF RequestsInv, Fresh
  <2>2. runs'[n].signing = s /\ runs'[n].chain = r.chain
    BY <1>1, <1>4 DEF run
  <2>3. \A i \in DOMAIN runs : runs[i].chain = Run(i).chain
    BY DEF RequestsInv, RunsOnceAsSigned
  <2>4. \A i \in DOMAIN runs :
          runs'[i].chain = runs'[n].chain /\ Ran(i).contract = Ran(n).contract
            /\ Ran(i).from = Ran(n).from => i <= runs'[n].signing.seen
    BY <1>4, <1>5, <2>1, <2>2, <2>3 DEF SameNonces
  <2>5. \A i, j \in DOMAIN runs :
          /\ i < j /\ runs'[i].chain = runs'[j].chain
          /\ Ran(i).contract = Ran(j).contract /\ Ran(i).from = Ran(j).from
          => i <= runs'[j].signing.seen
    BY <1>4, <1>5 DEF RequestsInv, EarlierRunsWereSeen
  <2>6. \A i, j \in DOMAIN runs' : i < j => i \in DOMAIN runs /\ (j \in DOMAIN runs \/ j = n)
    BY <1>4
  <2> QED
    BY <2>4, <2>5, <2>6, <1>4 DEF EarlierRunsWereSeen, Run
<1> QED
  BY <1>1, <1>3, <1>7, <1>8, <1>9, <1>10 DEF RequestsInv, RequestsTypeOK

LEMMA RequestsStep == RequestsInv /\ [Next]_requestVars => RequestsInv'
<1> SUFFICES ASSUME RequestsInv, [Next]_requestVars PROVE RequestsInv'
  OBVIOUS
<1>1. CASE Tick \/ UNCHANGED requestVars
  <2>1. now' \in Nat /\ UNCHANGED <<nonces, tabs, signed, runs>>
    BY <1>1 DEF Tick, requestVars, RequestsInv, RequestsTypeOK
  <2> QED
    BY <2>1, NothingAccepted DEF RequestsInv, RequestsTypeOK
<1> QED
  BY <1>1, ReadStep, SignStep, AcceptStep DEF Next

\* A signed request is accepted at most once over all chains, where and until when it was signed
\* for, for every number of tabs, chains and relayers.
THEOREM RequestsRunOnce == Spec => []RunsOnceAsSigned
<1>1. RequestsInv => RunsOnceAsSigned
  BY DEF RequestsInv
<1> QED
  BY <1>1, RequestsInit, RequestsStep, PTL DEF Spec

\* No request is accepted that was signed in ignorance of an earlier accepted one of its signer
\* in the same contract.
THEOREM RequestsKnowEarlierRuns == Spec => []EarlierRunsWereSeen
<1>1. RequestsInv => EarlierRunsWereSeen
  BY DEF RequestsInv
<1> QED
  BY <1>1, RequestsInit, RequestsStep, PTL DEF Spec
=============================================================================
