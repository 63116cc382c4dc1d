----------------------- MODULE MCMarketplaceGovernor -----------------------
(***************************************************************************)
(* Accounts and proposals for checking MarketplaceGovernor.                *)
(***************************************************************************)
EXTENDS MarketplaceGovernor

CONSTANTS alice, dao, none, hurry, ease, release

MCAccounts == {alice, dao}
MCControllers == {dao}

\* One proposal drops the timelock's delay, one changes the quorum, one releases more than is
\* rooted at times.
MCProposals == {hurry, ease, release}
MCCall == [p \in MCProposals |->
  CASE p = hurry   -> [kind |-> "timelock-delay", amount |-> 0]
    [] p = ease    -> [kind |-> "quorum", amount |-> 1]
    [] p = release -> [kind |-> "unroot", account |-> alice, amount |-> 2]]

\* Proposals made later would not live to their execution.
ProposedEarly ==
  /\ now <= 2 \/ (Proposed(hurry) /\ Proposed(ease))
  /\ now <= 3 \/ Proposed(release)
=============================================================================
