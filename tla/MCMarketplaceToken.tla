------------------------- MODULE MCMarketplaceToken -------------------------
(***************************************************************************)
(* Model values and bounds for checking MarketplaceToken.                  *)
(***************************************************************************)
EXTENDS MarketplaceToken

CONSTANTS alice, dao, none

MCAccounts == {alice, dao}
MCControllers == {dao}
=============================================================================
