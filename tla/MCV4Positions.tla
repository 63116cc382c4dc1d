--------------------------- MODULE MCV4Positions ----------------------------
(***************************************************************************)
(* Pools, tabs and amounts for checking V4Positions.                       *)
(***************************************************************************)
EXTENDS V4Positions, TLC

CONSTANTS alice, bob, first, second, venture, foreign

MCPools == {venture, foreign}
MCNativePools == {venture}
MCAccounts == {alice, bob}
MCSessions == {first, second}
MCSigner == [s \in MCSessions |-> alice]
\* The starting price, and one within the slippage of a quote but beyond what MCRequests allow.
MCRoots == {100, 104}
MCStart == [p \in MCPools |-> 100]
MCBudgets == {<<100, 100>>}
MCSlippages == {1000}
MCRequests == {[pool |-> foreign, liquidity |-> 40, maximum |-> <<41, 41>>]}
\* Nothing, an ERC-20 mint and a mint of another NFT collection.
MCForeignLogs == {<<>>, <<[from |-> Zero, id |-> NoId]>>, <<[from |-> Zero, id |-> 1]>>}
\* The first is collectFees'.
MCLimits == {<<0, 0>>, <<40, 40>>}
MCShares == {0, 2}
MCSymmetry == Permutations(MCSessions)
=============================================================================
