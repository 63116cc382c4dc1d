-------------------------- MODULE MCVentureAccount --------------------------
(***************************************************************************)
(* Model values and bounds for checking VentureAccount and, below it,      *)
(* MarketplaceRewards.                                                     *)
(***************************************************************************)
EXTENDS VentureAccount

CONSTANTS alice, dao, reserve, none

MCAccounts == {alice, dao, reserve}
MCHolders == {alice}
MCControllers == {dao}

\* Who is no holder redeems nothing: reward tokens sent or minted there are out of play, and what
\* follows is not explored.
PointsInPlay == \A a \in MCAccounts \ MCHolders : rewards[a] = 0
=============================================================================
