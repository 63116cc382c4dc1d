-------------------------- MODULE MCSignedRequests --------------------------
(***************************************************************************)
(* Chains, contracts and tabs for checking SignedRequests.                 *)
(***************************************************************************)
EXTENDS SignedRequests, TLC

CONSTANTS alice, first, second, forwarder, token, mainnet, fork, claim

MCChains == {mainnet, fork}
MCContracts == {forwarder, token}
MCWallets == {alice}
MCTabs == {first, second}
MCWallet == [t \in MCTabs |-> alice]
MCCalls == {claim}
MCDeadlines == {1, 2}
MCSymmetry == Permutations(MCTabs) \cup Permutations(MCChains) \cup Permutations(MCContracts)
=============================================================================
