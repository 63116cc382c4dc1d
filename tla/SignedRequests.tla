--------------------------- MODULE SignedRequests ---------------------------
(***************************************************************************)
(* Requests that a wallet signs and anybody may submit: signRequest and    *)
(* submit of src/client/gasSponsorship.ts with contracts/evm/              *)
(* MarketplaceForwarder.sol, and permit of src/client/ethereum.ts with the *)
(* token's ERC20Permit.  Both clients read a nonce, await the wallet and   *)
(* return a signature; the contract checks it against its own nonces.      *)
(*                                                                         *)
(* The same addresses may exist on several chains, as on mainnet and its   *)
(* fork.  A tab stays on one chain while it signs.  What a relayer does    *)
(* with a signed request is up to it: submit it late, twice, elsewhere or  *)
(* never.                                                                  *)
(***************************************************************************)
EXTENDS Naturals, Sequences, FiniteSets

CONSTANTS
  Chains,     \* the chains, on each of which every contract is deployed
  Contracts,  \* the verifying contracts: the forwarder and the token
  Wallets,    \* the signers
  Calls,      \* what is asked for: a call to relay or an allowance
  Deadlines,  \* the deadlines asked for
  Tabs,       \* the pages that sign
  Wallet,     \* Wallet[t]: the wallet connected in tab t
  MaxSigned,  \* bound on signed requests
  MaxRuns,    \* bound on accepted requests
  MaxTime     \* bound on the clock

ASSUME RequestsAssumption ==
  /\ Deadlines \subseteq Nat
  /\ Wallet \in [Tabs -> Wallets]
  /\ MaxSigned \in Nat /\ MaxRuns \in Nat /\ MaxTime \in Nat

Requests ==
  [chain : Chains, contract : Contracts, from : Wallets, call : Calls,
   nonce : Nat, deadline : Deadlines]

VARIABLES
  now,     \* block.timestamp, the same on every chain
  nonces,  \* nonces[c][k][w]: nonces(w) of contract k on chain c
  tabs,    \* the request a tab waits for the wallet to sign, if any
  signed,  \* the signed requests, with what their signer had seen
  runs     \* history: the accepted requests, in order

requestVars == <<now, nonces, tabs, signed, runs>>

\* History: seen is how many requests had been accepted when the nonce was read.
Signings == [request : Requests, seen : Nat]
Idle == {}

RequestsTypeOK ==
  /\ now \in Nat
  /\ nonces \in [Chains -> [Contracts -> [Wallets -> Nat]]]
  /\ tabs \in [Tabs -> SUBSET Signings]
  /\ signed \subseteq Signings
  /\ runs \in Seq([signing : Signings, chain : Chains, at : Nat])

Init ==
  /\ now = 1
  /\ nonces = [c \in Chains |-> [k \in Contracts |-> [w \in Wallets |-> 0]]]
  /\ tabs = [t \in Tabs |-> Idle]
  /\ signed = {}
  /\ runs = <<>>

-----------------------------------------------------------------------------
(* Signing *)

\* Wrong variant: requests that were signed but not accepted yet are counted too.
NonceAfterPending(c, k, w) ==
  nonces[c][k][w] + Cardinality({r \in signed : /\ r.request.chain = c
                                                /\ r.request.contract = k
                                                /\ r.request.from = w
                                                /\ r.request.nonce >= nonces[c][k][w]})

NonceOf(c, k, w) == nonces[c][k][w]

\* The nonce and the network are read; the wallet asks its owner, who may take time.
Read(t) ==
  /\ tabs[t] = Idle
  /\ \E c \in Chains, k \in Contracts, call \in Calls, d \in Deadlines :
       tabs' = [tabs EXCEPT ![t] =
         {[request |-> [chain |-> c, contract |-> k, from |-> Wallet[t], call |-> call,
                        nonce |-> NonceOf(c, k, Wallet[t]), deadline |-> d],
           seen |-> Len(runs)]}]
  /\ UNCHANGED <<now, nonces, signed, runs>>

Sign(t) ==
  /\ tabs[t] # Idle
  /\ Cardinality(signed) < MaxSigned
  /\ signed' = signed \cup tabs[t]
  /\ tabs' = [tabs EXCEPT ![t] = Idle]
  /\ UNCHANGED <<now, nonces, runs>>

\* The owner refuses, or the page is closed.
Reject(t) ==
  /\ tabs[t] # Idle
  /\ tabs' = [tabs EXCEPT ![t] = Idle]
  /\ UNCHANGED <<now, nonces, signed, runs>>

-----------------------------------------------------------------------------
(* Accepting *)

\* Wrong variant: the signature does not say for which chain it is.
RecoveredAnywhere(r, c) == TRUE

\* The signature recovers to its signer on the chain of its domain only.
Recovered(r, c) == r.chain = c

\* execute or permit on chain c.  A request whose call fails is reverted as a whole and
\* keeps its nonce, so an accepted one is one that succeeds.
Accept(s, c) ==
  LET r == s.request
  IN /\ Recovered(r, c)
     /\ r.nonce = nonces[c][r.contract][r.from]
     /\ now <= r.deadline
     /\ Len(runs) < MaxRuns
     /\ nonces' = [nonces EXCEPT ![c][r.contract][r.from] = r.nonce + 1]
     /\ runs' = Append(runs, [signing |-> s, chain |-> c, at |-> now])
     /\ UNCHANGED <<now, tabs, signed>>

Tick == now < MaxTime /\ now' = now + 1 /\ UNCHANGED <<nonces, tabs, signed, runs>>

Next ==
  \/ \E t \in Tabs : Read(t) \/ Sign(t) \/ Reject(t)
  \/ \E s \in signed, c \in Chains : Accept(s, c)
  \/ Tick

Spec == Init /\ [][Next]_requestVars

-----------------------------------------------------------------------------
(* Properties *)

Run(i) == runs[i].signing.request

\* However often, late and on whichever chain a signed request is submitted, it is accepted
\* once, on the chain it was signed for and not after its deadline.
RunsOnceAsSigned ==
  \A i \in DOMAIN runs :
    /\ runs[i].signing \in signed
    /\ runs[i].chain = Run(i).chain
    /\ runs[i].at <= Run(i).deadline
    /\ \A j \in DOMAIN runs : Run(i) = Run(j) => i = j

\* A request is accepted only if its nonce was read after every earlier one of its signer in
\* that contract was accepted: signing anew what seems lost, in any tab, never makes both
\* count, and a request is never added to one its signer did not know was accepted.
EarlierRunsWereSeen ==
  \A i, j \in DOMAIN runs :
    /\ i < j
    /\ runs[i].chain = runs[j].chain
    /\ Run(i).contract = Run(j).contract /\ Run(i).from = Run(j).from
    => i <= runs[j].signing.seen
=============================================================================
