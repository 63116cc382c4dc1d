--------------------------- MODULE MCProposalView ---------------------------
(***************************************************************************)
(* Accounts and a proposal for checking ProposalView and, below it, the    *)
(* votes of MarketplaceGovernor.                                           *)
(***************************************************************************)
EXTENDS ProposalView

CONSTANTS alice, bob, dao, none, first

MCAccounts == {alice, bob, dao}
MCControllers == {dao}
MCProposals == {first}

\* It releases a token of alice.
MCCall == [p \in {first} |-> [kind |-> "unroot", account |-> alice, amount |-> 1]]

\* A proposal made after the second in which it first can would not live to its execution.
ProposedEarly == now <= 2 \/ Proposed(first)
=============================================================================
