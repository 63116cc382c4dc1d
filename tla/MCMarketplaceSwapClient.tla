----------------------- MODULE MCMarketplaceSwapClient -----------------------
(***************************************************************************)
(* Accounts, tabs, pools and amounts for checking MarketplaceSwapClient.   *)
(***************************************************************************)
EXTENDS MarketplaceSwapClient, TLC

CONSTANTS alice, bob, treasury, router, manager, first, second

MCTraders == {alice, bob}
MCRecipients == {treasury}
MCSessions == {first, second}
MCTrader == [s \in MCSessions |-> alice]
MCBalances ==
  [c \in Currencies |->
    [a \in Accounts |->
      CASE a \in {alice, manager} -> 10
        [] a = bob /\ c = "native" -> 15
        [] OTHER -> 0]]
\* A deep pool and one that takes only a part of an input but gives a better price.
MCPools == {[depth |-> 10, price |-> 10], [depth |-> 4, price |-> 15]}
MCAmounts == {10}
MCValues == {0, 10, 15}
MCMinimums == {0}
\* The last one is refused.
MCFees == {0, 1000, 2000}
MCSlippages == {1000}
MCSymmetry == Permutations(MCSessions)
=============================================================================
