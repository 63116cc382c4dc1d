------------------------- MODULE MarketplaceRewards -------------------------
(***************************************************************************)
(* The reward side of contracts/evm/MarketplaceDAO.sol together with the   *)
(* reward token it deploys, contracts/evm/MarketplaceLPToken.sol, both on  *)
(* top of MarketplaceToken: accounts that keep tokens rooted claim reward  *)
(* tokens, and reward tokens are burned for tokens of the reserve, which   *)
(* is the reward contract's own balance.                                   *)
(*                                                                         *)
(* A governed call is an action without a caller: it reaches these         *)
(* contracts from an executed proposal (MarketplaceGovernor says when).    *)
(***************************************************************************)
EXTENDS MarketplaceToken

CONSTANTS
  Dao,            \* the DAO contract: holds a treasury, governs the token
  RewardToken,    \* the reward contract, whose token balance is the reserve
  Holders,        \* the accounts that call the contracts on their own behalf
  ClaimPeriod,    \* CLAIM_PERIOD
  Whole,          \* 1 ether: reward units the redemption rate is quoted for
  RewardAmounts,  \* the rewards per period and redemption rates proposals ask for
  MintAmounts,    \* the reward tokens proposals mint without a claim
  MaxRewards      \* bound on the reward tokens minted

ASSUME RewardsAssumption ==
  /\ Dao \in Accounts /\ RewardToken \in Accounts /\ Dao # RewardToken
  /\ Holders \subseteq Accounts \ {RewardToken}
  /\ ClaimPeriod \in Nat \ {0}
  /\ Whole \in Nat \ {0}
  /\ RewardAmounts \subseteq Nat /\ MintAmounts \subseteq Nat
  /\ MaxRewards \in Nat

VARIABLES
  rewards,          \* reward-token balances
  rewardSupply,     \* the reward token's totalSupply()
  rewardPerPeriod,  \* minted by each claim, 0 for none
  redemptionRate,   \* tokens paid per Whole reward units, 0 for none
  lastClaimAt,      \* when each account last claimed, 0 for never
  unrootedAt        \* history, read by no guard: when each account last had nothing rooted

rewardVars  == <<rewards, rewardSupply, rewardPerPeriod, redemptionRate, lastClaimAt>>
rewardsVars == <<tokenVars, rewardVars, unrootedAt>>

RewardsTypeOK ==
  /\ rewards \in [Accounts -> Nat]
  /\ rewardSupply \in Nat
  /\ rewardPerPeriod \in Nat
  /\ redemptionRate \in Nat
  /\ lastClaimAt \in [Accounts -> Nat]
  /\ unrootedAt \in [Accounts -> Nat]

RewardsInit ==
  /\ Init
  /\ rewards = [a \in Accounts |-> 0]
  /\ rewardSupply = 0
  /\ rewardPerPeriod = 0
  /\ redemptionRate = 0
  /\ lastClaimAt = [a \in Accounts |-> 0]
  /\ unrootedAt = [a \in Accounts |-> now]

-----------------------------------------------------------------------------
(* Claims *)

\* Wrong variant: the interval between claims replaces the rooted period.
eligibleSinceClaim(a) == IF lastClaimAt[a] # 0 THEN lastClaimAt[a] ELSE soulboundSince[a]

\* From when the account's period counts: its rooting or its last claim, the later one.
eligibleSince(a) ==
  IF lastClaimAt[a] > soulboundSince[a] THEN lastClaimAt[a] ELSE soulboundSince[a]

Mint(a, n) ==
  /\ rewardSupply + n <= MaxRewards
  /\ rewards' = Credit(rewards, a, n)
  /\ rewardSupply' = rewardSupply + n

claimReward(a) ==
  /\ soulboundBalances[a] # 0
  /\ rewardPerPeriod # 0
  /\ eligibleSince(a) # 0 /\ now >= eligibleSince(a) + ClaimPeriod
  /\ lastClaimAt' = [lastClaimAt EXCEPT ![a] = now]
  /\ Mint(a, rewardPerPeriod)
  /\ UNCHANGED <<tokenVars, rewardPerPeriod, redemptionRate>>

-----------------------------------------------------------------------------
(* Redemption *)

\* Wrong variant: the payout is rounded up.
PayoutRoundedUp(n) == (n * redemptionRate + Whole - 1) \div Whole

\* Math.mulDiv, rounding down.
Payout(n) == (n * redemptionRate) \div Whole

Burn(a, n) ==
  /\ n <= rewards[a]
  /\ rewards' = Debit(rewards, a, n)
  /\ rewardSupply' = rewardSupply - n

\* The reserve check counts rooted tokens; the transfer that follows does not spend them.
redeem(a, n, minimum) ==
  /\ n # 0 /\ redemptionRate # 0
  /\ Payout(n) # 0 /\ Payout(n) >= minimum
  /\ Payout(n) <= balance[RewardToken]
  /\ Burn(a, n)
  /\ Update(RewardToken, a, Payout(n))
  /\ UNCHANGED <<supply, allowance, rootVars, accessVars, now,
                 rewardPerPeriod, redemptionRate, lastClaimAt>>

\* The reward token is a plain ERC-20.
RewardTransfer(sender, to, n) ==
  /\ n <= rewards[sender]
  /\ rewards' = Credit(Debit(rewards, sender, n), to, n)
  /\ UNCHANGED <<tokenVars, rewardSupply, rewardPerPeriod, redemptionRate, lastClaimAt>>

-----------------------------------------------------------------------------
(* Governed calls *)

setRewardPerPeriod(n) ==
  /\ rewardPerPeriod' = n
  /\ UNCHANGED <<tokenVars, rewards, rewardSupply, redemptionRate, lastClaimAt>>

setRedemptionRate(n) ==
  /\ redemptionRate' = n
  /\ UNCHANGED <<tokenVars, rewards, rewardSupply, rewardPerPeriod, lastClaimAt>>

\* The reward token's mint, which obeys the DAO: a proposal gets there through the DAO's relay.
mintRewards(a, n) ==
  /\ Mint(a, n)
  /\ UNCHANGED <<tokenVars, rewardPerPeriod, redemptionRate, lastClaimAt>>

\* Wrong variant: sender and recipient of the transfer are swapped.
fundRewardReserveSwapped(n) ==
  /\ Update(RewardToken, Dao, n)
  /\ UNCHANGED <<supply, allowance, rootVars, accessVars, now, rewardVars>>

fundRewardReserve(n) ==
  /\ Update(Dao, RewardToken, n)
  /\ UNCHANGED <<supply, allowance, rootVars, accessVars, now, rewardVars>>

\* Wrong variant: the transfer sees the balances of before the call.
prebindUnpaid(a, n) ==
  /\ n # 0 /\ governance = Dao
  /\ CanSpend(Dao, n)
  /\ UNCHANGED balance
  /\ Root(a, n)
  /\ UNCHANGED <<supply, allowance, accessVars, now, rewardVars>>

\* One call, two effects on the token: the treasury pays and the account's new liquid
\* balance is rooted.
prebindTokens(a, n) ==
  /\ n # 0 /\ governance = Dao
  /\ Update(Dao, a, n)
  /\ n <= balance'[a] - soulboundBalances[a]
  /\ Root(a, n)
  /\ UNCHANGED <<supply, allowance, accessVars, now, rewardVars>>

-----------------------------------------------------------------------------
GovernedStep ==
  \/ \E n \in RewardAmounts : setRewardPerPeriod(n) \/ setRedemptionRate(n)
  \/ \E a \in Accounts, n \in MintAmounts : mintRewards(a, n)
  \/ \E n \in 0 .. supply : fundRewardReserve(n)
  \/ \E a \in Accounts, n \in 0 .. supply : prebindTokens(a, n)

RewardStep ==
  \E a \in Holders :
    \/ claimReward(a)
    \/ \E n \in 0 .. MaxRewards, minimum \in RewardAmounts : redeem(a, n, minimum)
    \/ \E to \in Accounts, n \in 0 .. MaxRewards : RewardTransfer(a, to, n)

TokenStep ==
  /\ \/ \E sender \in Holders : HolderStep(sender)
     \/ \E sender \in Holders \cup {Dao} : ControlStep(sender)
     \/ Tick
  /\ UNCHANGED rewardVars

RewardsNext ==
  /\ TokenStep \/ GovernedStep \/ RewardStep
  /\ unrootedAt' = [a \in Accounts |-> IF soulboundBalances'[a] = 0 THEN now' ELSE unrootedAt[a]]

RewardsSpec == RewardsInit /\ [][RewardsNext]_rewardsVars

-----------------------------------------------------------------------------
(* Properties *)

\* Claims, burns and transfers keep the reward balances adding up to the reward supply.
RewardSupplyConserved == Total(rewards, Accounts) = rewardSupply

\* Each claim is earned: whatever was rooted, released, prebound or delegated before, the
\* account has had something rooted without interruption for a whole period, and has not
\* claimed within it.
ClaimsAreEarned ==
  [][\A a \in Accounts : lastClaimAt'[a] # lastClaimAt[a] =>
       /\ unrootedAt[a] + ClaimPeriod <= now
       /\ lastClaimAt[a] # 0 => lastClaimAt[a] + ClaimPeriod <= now]_rewardsVars

\* The reserve is spent on redemptions only, and a redemption takes from it exactly what
\* the reward tokens burned in the same call are worth at the present rate.
ReserveBacksBurns ==
  [][/\ balance'[RewardToken] < balance[RewardToken] => rewardSupply' < rewardSupply
     /\ rewardSupply' < rewardSupply =>
          balance[RewardToken] - balance'[RewardToken]
            = ((rewardSupply - rewardSupply') * redemptionRate) \div Whole]_rewardsVars

\* Redeeming in parts never pays more than redeeming at once.
SplittingNeverPaysMore ==
  \A m, n \in 0 .. MaxRewards : Payout(m) + Payout(n) <= Payout(m + n)

\* Prebinding, redemption and funding respect the token's own accounting.
RewardsKeepTokenSound ==
  /\ SupplyConserved
  /\ RootedWithinBalance
  /\ VotesFollowDelegation
  /\ TotalVotesCountRooted

\* The pockets and points of RewardLedger, read off the contracts' state.
Purse == INSTANCE RewardLedger WITH
  Grants <- MintAmounts,
  Reserve <- RewardToken,
  Treasury <- Dao,
  liquid <- [a \in Accounts |-> liquidBalanceOf(a)],
  rooted <- soulboundBalances,
  points <- rewards,
  perPeriod <- rewardPerPeriod,
  rate <- redemptionRate

\* Whatever is transferred, allowed, rooted, released, prebound, claimed, redeemed and voted,
\* in whichever order, the contracts do nothing RewardLedger does not: no call but a
\* redemption sends tokens of the reserve, and it sends the caller what it burns is worth.
ImplementsRewardLedger == Purse!RewardSpec
=============================================================================
