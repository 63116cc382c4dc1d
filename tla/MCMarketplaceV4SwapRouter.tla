---------------------- MODULE MCMarketplaceV4SwapRouter ----------------------
(***************************************************************************)
(* Accounts, pools and amounts for checking MarketplaceV4SwapRouter.       *)
(***************************************************************************)
EXTENDS MarketplaceV4SwapRouter

CONSTANTS alice, bob, treasury, dao, router, manager

MCTraders == {alice, bob}
\* The DAO's Governor refuses native currency.
MCRecipients == {treasury, dao}
MCPayable == {treasury}
MCBalances ==
  [c \in Currencies |->
    [a \in Accounts |->
      IF a \in {alice, manager} \/ (a = bob /\ c = "native") THEN 10 ELSE 0]]
\* A deep pool and one that takes only part of an input but gives a better price.
MCPools == {[depth |-> 10, price |-> 10], [depth |-> 4, price |-> 15]}
\* The fee on 5 rounds to nothing.
MCAmounts == {5, 10}
MCValues == {0, 5, 10}
MCMinimums == {0, 6}
\* The last one is refused.
MCFees == {0, 1000, 2000}
=============================================================================
