---------------------- MODULE MarketplaceRewardsProofs ----------------------
(***************************************************************************)
(* The invariants of MarketplaceRewards, what it guarantees about claims   *)
(* and the reserve, what the page of VentureAccount shows of it, and that  *)
(* it implements RewardLedger, proved for every number of accounts, claim  *)
(* period, rate and amount.                                                *)
(***************************************************************************)
EXTENDS VentureAccount, MarketplaceTokenProofs

\* Why a claim is earned: the contract's soulboundSince is never before the last moment
\* the account had nothing rooted, and no recorded time lies in the future.
HistoryInv ==
  \A a \in Accounts :
    /\ unrootedAt[a] <= now
    /\ soulboundBalances[a] # 0 => unrootedAt[a] <= soulboundSince[a]
    /\ soulboundBalances[a] = 0 => unrootedAt[a] = now

RewardsInv ==
  /\ TokenInv
  /\ RewardsTypeOK
  /\ RewardSupplyConserved
  /\ HistoryInv

\* At deployment nobody has reward tokens and nobody has anything rooted.
LEMMA InitRewardsInv == RewardsInit => RewardsInv
<1> SUFFICES ASSUME RewardsInit PROVE RewardsInv OBVIOUS
<1>1. TokenInv BY InitTokenInv DEF RewardsInit
<1>2. RewardsTypeOK BY <1>1 DEF RewardsInit, RewardsTypeOK, TokenInv, TypeOK
<1>3. RewardSupplyConserved
  <2>1. \A a \in Accounts : rewards[a] = 0 BY DEF RewardsInit
  <2> QED BY <2>1, ZeroTotal DEF RewardsInit, RewardSupplyConserved
<1>4. HistoryInv BY <1>1 DEF RewardsInit, Init, InitTokens, HistoryInv, TokenInv, TypeOK
<1> QED BY <1>1, <1>2, <1>3, <1>4 DEF RewardsInv

-----------------------------------------------------------------------------
\* What a step does to the token: it keeps the token's invariant, never turns time back,
\* and an account's rooted period starts only now and stays while something is rooted.
TokenKept ==
  /\ TokenInv'
  /\ now' >= now
  /\ \A a \in Accounts :
       soulboundBalances'[a] # 0 =>
         \/ soulboundBalances[a] # 0 /\ soulboundSince'[a] = soulboundSince[a]
         \/ soulboundBalances[a] = 0 /\ soulboundSince'[a] = now /\ now' = now

\* A step that leaves the rooted tokens alone.
LEMMA UnrootedKept ==
  ASSUME TokenInv, TokenInv', UNCHANGED rootVars, now' >= now
  PROVE  TokenKept
BY DEF TokenKept, rootVars

\* Rooting starts a period now or leaves the running one alone.
LEMMA RootKept ==
  ASSUME TokenInv, TokenInv', NEW a \in Accounts, NEW n \in Nat, n # 0, Root(a, n), now' = now
  PROVE  TokenKept
<1>1. /\ soulboundBalances \in [Accounts -> Nat] /\ soulboundSince \in [Accounts -> Nat]
      /\ now \in Nat
      /\ \A b \in Accounts : soulboundSince[b] = 0 <=> soulboundBalances[b] = 0
  BY DEF TokenInv, TypeOK, SinceTracksRooting
<1>2. /\ soulboundBalances' = [soulboundBalances EXCEPT ![a] = @ + n]
      /\ soulboundSince' = IF soulboundSince[a] = 0
                           THEN [soulboundSince EXCEPT ![a] = now] ELSE soulboundSince
  BY DEF Root, Credit
<1>3. \A b \in Accounts :
        soulboundBalances'[b] # 0 =>
          \/ soulboundBalances[b] # 0 /\ soulboundSince'[b] = soulboundSince[b]
          \/ soulboundBalances[b] = 0 /\ soulboundSince'[b] = now
  BY <1>1, <1>2
<1> QED BY <1>1, <1>3 DEF TokenKept

\* Releasing a part leaves the running period alone.
LEMMA ReleaseKept ==
  ASSUME TokenInv, TokenInv', NEW a \in Accounts, NEW n \in Nat,
         n <= soulboundBalances[a], Release(a, n), now' = now
  PROVE  TokenKept
<1>1. /\ soulboundBalances \in [Accounts -> Nat] /\ soulboundSince \in [Accounts -> Nat]
      /\ now \in Nat
  BY DEF TokenInv, TypeOK
<1>2. /\ soulboundBalances' = [soulboundBalances EXCEPT ![a] = @ - n]
      /\ soulboundSince' = IF soulboundBalances[a] = n
                           THEN [soulboundSince EXCEPT ![a] = 0] ELSE soulboundSince
  BY DEF Release, Debit
<1>3. \A b \in Accounts :
        soulboundBalances'[b] # 0 =>
          soulboundBalances[b] # 0 /\ soulboundSince'[b] = soulboundSince[b]
  BY <1>1, <1>2
<1> QED BY <1>1, <1>3 DEF TokenKept

\* Every call of the token, and the passing of time, keeps the token.
LEMMA TokenStepKept ==
  ASSUME TokenInv, TokenStep
  PROVE  TokenKept
<1> USE TokenAssumption, RewardsAssumption DEF TokenAssumption, RewardsAssumption
<1>1. ASSUME NEW sender \in Accounts, HolderStep(sender) PROVE TokenKept
  <2>1. TokenInv' BY <1>1, HolderStepKeepsInv
  <2>2. supply \in Nat /\ now \in Nat BY DEF TokenInv, TypeOK
  <2>3. ASSUME NEW n \in 0 .. supply, Soulbound(sender, n) PROVE TokenKept
    BY <2>1, <2>2, <2>3, RootKept DEF Soulbound
  <2>4. ASSUME NEW d \in Accounts \cup {Zero}, Delegate(sender, d) PROVE TokenKept
    BY <2>1, <2>2, <2>4 DEF Delegate, TokenKept
  <2> QED BY <1>1, <2>1, <2>2, <2>3, <2>4, UnrootedKept
          DEF HolderStep, Transfer, Approve, TransferFrom
<1>2. ASSUME NEW sender \in Accounts, ControlStep(sender) PROVE TokenKept
  <2>1. TokenInv' BY <1>2, ControlStepKeepsInv
  <2>2. supply \in Nat /\ now \in Nat BY DEF TokenInv, TypeOK
  <2>3. ASSUME NEW a \in Accounts, NEW n \in 0 .. supply, SoulboundFor(sender, a, n)
        PROVE  TokenKept
    BY <2>1, <2>2, <2>3, RootKept DEF SoulboundFor
  <2>4. ASSUME NEW a \in Accounts, NEW n \in 0 .. supply, Unsoulbound(sender, a, n)
        PROVE  TokenKept
    BY <2>1, <2>2, <2>4, ReleaseKept DEF Unsoulbound
  <2> QED BY <1>2, <2>1, <2>2, <2>3, <2>4, UnrootedKept
          DEF ControlStep, SetGovernance, TransferOwnership, RenounceOwnership
<1>3. CASE Tick
  <2>1. TokenInv' BY <1>3, NextKeepsTokenInv DEF Next
  <2>2. UNCHANGED rootVars /\ now' >= now BY <1>3 DEF Tick, TokenInv, TypeOK
  <2> QED BY <2>1, <2>2, UnrootedKept
<1>4. Holders \subseteq Accounts /\ Dao \in Accounts OBVIOUS
<1> QED BY <1>1, <1>2, <1>3, <1>4 DEF TokenStep

\* Paying from one account to another keeps the token.
LEMMA PaymentKept ==
  ASSUME TokenInv, NEW from \in Accounts, NEW to \in Accounts, NEW n \in Nat,
         Update(from, to, n), UNCHANGED <<supply, allowance, rootVars, accessVars, now>>
  PROVE  TokenKept
<1>1. TokenInv' BY TransferKeepsTokenInv DEF TokenInv, TypeOK
<1>2. now' >= now BY DEF TokenInv, TypeOK
<1> QED BY <1>1, <1>2, UnrootedKept

\* Prebinding pays first and roots what was paid; the token's invariant spans both.
LEMMA PrebindKept ==
  ASSUME TokenInv, NEW a \in Accounts, NEW n \in 0 .. supply, prebindTokens(a, n)
  PROVE  TokenKept
<1> USE TokenAssumption, RewardsAssumption DEF TokenAssumption, RewardsAssumption
<1>0. n \in Nat /\ n # 0 /\ TypeOK BY DEF TokenInv, TypeOK, prebindTokens
<1>1. /\ Update(Dao, a, n) /\ Root(a, n)
      /\ n <= balance'[a] - soulboundBalances[a]
      /\ UNCHANGED <<supply, allowance, accessVars, now>>
  BY DEF prebindTokens
<1>2. /\ balance' \in [Accounts -> Nat] /\ SupplyConserved'
      /\ \A b \in Accounts : soulboundBalances[b] <= balance'[b]
  BY <1>0, <1>1, UpdateKeepsBalances
<1>3. RootAccounting' BY <1>0, <1>1, RootKeepsAccounting
<1>4. RootedWithinBalance'
  <2>1. /\ soulboundBalances \in [Accounts -> Nat]
        /\ soulboundBalances' = [soulboundBalances EXCEPT ![a] = @ + n]
    BY <1>0, <1>1 DEF TypeOK, Root, Credit
  <2>2. soulboundBalances[a] + n <= balance'[a] BY <1>0, <1>1, <1>2, <2>1
  <2>3. \A b \in Accounts : soulboundBalances'[b] <= balance'[b] BY <1>2, <2>1, <2>2
  <2> QED BY <2>3 DEF RootedWithinBalance
<1>5. TypeOK' BY <1>0, <1>1, <1>2, <1>3 DEF TypeOK, RootAccounting, accessVars
<1>6. TokenInv' BY <1>1, <1>2, <1>3, <1>4, <1>5 DEF TokenInv, RootAccounting
<1> QED BY <1>0, <1>1, <1>6, RootKept

-----------------------------------------------------------------------------
\* How a step changes the reward token: it keeps the types and the sum.
RewardsKept == RewardsTypeOK' /\ RewardSupplyConserved'

\* A step that leaves the reward balances alone.
LEMMA RewardsUntouched ==
  ASSUME RewardsInv, UNCHANGED <<rewards, rewardSupply>>,
         rewardPerPeriod' \in Nat, redemptionRate' \in Nat,
         lastClaimAt' \in [Accounts -> Nat], unrootedAt' \in [Accounts -> Nat]
  PROVE  RewardsKept
BY DEF RewardsKept, RewardsInv, RewardsTypeOK, RewardSupplyConserved

\* One account's reward balance and the supply change by the same amount.
LEMMA RewardsShifted ==
  ASSUME RewardsInv, NEW a \in Accounts, rewards' \in [Accounts -> Nat],
         \A b \in Accounts \ {a} : rewards'[b] = rewards[b], rewardSupply' \in Nat,
         rewardSupply' = rewardSupply + rewards'[a] - rewards[a],
         UNCHANGED <<rewardPerPeriod, redemptionRate>>,
         lastClaimAt' \in [Accounts -> Nat], unrootedAt' \in [Accounts -> Nat]
  PROVE  RewardsKept
<1> USE TokenAssumption DEF TokenAssumption
<1>1. (\A b \in Accounts : rewards[b] \in Nat) /\ rewards'[a] \in Nat
  BY DEF RewardsInv, RewardsTypeOK
<1>2. Total(rewards', Accounts) = Total(rewards, Accounts) + rewards'[a] - rewards[a]
  BY <1>1, UpdateTotal
<1>3. RewardSupplyConserved' BY <1>2 DEF RewardsInv, RewardSupplyConserved
<1> QED BY <1>3 DEF RewardsKept, RewardsInv, RewardsTypeOK

\* The history variable always records a time.
LEMMA HistoryTyped ==
  ASSUME RewardsInv, TokenInv',
         unrootedAt' = [a \in Accounts |->
                          IF soulboundBalances'[a] = 0 THEN now' ELSE unrootedAt[a]]
  PROVE  unrootedAt' \in [Accounts -> Nat]
BY DEF RewardsInv, RewardsTypeOK, TokenInv, TypeOK

\* A rooted account's soulboundSince stays at or after its last unrooted moment.
LEMMA HistoryKept ==
  ASSUME RewardsInv, TokenKept,
         unrootedAt' = [a \in Accounts |->
                          IF soulboundBalances'[a] = 0 THEN now' ELSE unrootedAt[a]]
  PROVE  HistoryInv'
<1>1. /\ now \in Nat /\ now' \in Nat /\ now' >= now
      /\ unrootedAt \in [Accounts -> Nat]
  BY DEF TokenKept, RewardsInv, RewardsTypeOK, TokenInv, TypeOK
<1> SUFFICES ASSUME NEW a \in Accounts
             PROVE  /\ unrootedAt'[a] <= now'
                    /\ soulboundBalances'[a] # 0 => unrootedAt'[a] <= soulboundSince'[a]
                    /\ soulboundBalances'[a] = 0 => unrootedAt'[a] = now'
  BY DEF HistoryInv
<1>2. /\ unrootedAt[a] <= now
      /\ soulboundBalances[a] # 0 => unrootedAt[a] <= soulboundSince[a]
  BY DEF RewardsInv, HistoryInv
<1>3. CASE soulboundBalances'[a] = 0 BY <1>1, <1>3
<1>4. CASE soulboundBalances'[a] # 0 BY <1>1, <1>2, <1>4 DEF TokenKept
<1> QED BY <1>3, <1>4

\* A governed call of the DAO.
LEMMA GovernedStepKept ==
  ASSUME RewardsInv, GovernedStep,
         unrootedAt' = [a \in Accounts |->
                          IF soulboundBalances'[a] = 0 THEN now' ELSE unrootedAt[a]]
  PROVE  TokenKept /\ RewardsKept
<1> USE TokenAssumption, RewardsAssumption DEF TokenAssumption, RewardsAssumption
<1>0. /\ TokenInv /\ supply \in Nat /\ now \in Nat
      /\ rewards \in [Accounts -> Nat] /\ rewardSupply \in Nat
      /\ rewardPerPeriod \in Nat /\ redemptionRate \in Nat
      /\ lastClaimAt \in [Accounts -> Nat]
  BY DEF RewardsInv, RewardsTypeOK, TokenInv, TypeOK
<1>1. ASSUME NEW n \in RewardAmounts, setRewardPerPeriod(n) \/ setRedemptionRate(n)
      PROVE  TokenKept /\ RewardsKept
  <2>1. /\ UNCHANGED tokenVars /\ UNCHANGED <<rewards, rewardSupply, lastClaimAt>>
        /\ rewardPerPeriod' \in Nat /\ redemptionRate' \in Nat
    BY <1>0, <1>1 DEF setRewardPerPeriod, setRedemptionRate
  <2>2. TokenInv' BY <1>0, <2>1, NextKeepsTokenInv
  <2>3. TokenKept BY <1>0, <2>1, <2>2, UnrootedKept DEF tokenVars
  <2>4. lastClaimAt' \in [Accounts -> Nat] BY <1>0, <2>1
  <2> QED BY <2>1, <2>2, <2>3, <2>4, HistoryTyped, RewardsUntouched
<1>2. ASSUME NEW n \in 0 .. supply, fundRewardReserve(n)
      PROVE  TokenKept /\ RewardsKept
  <2>1. TokenKept BY <1>0, <1>2, PaymentKept DEF fundRewardReserve
  <2>2. UNCHANGED rewardVars /\ TokenInv' BY <1>2, <2>1 DEF fundRewardReserve, TokenKept
  <2> QED BY <1>0, <2>1, <2>2, HistoryTyped, RewardsUntouched DEF rewardVars
<1>3. ASSUME NEW a \in Accounts, NEW n \in 0 .. supply, prebindTokens(a, n)
      PROVE  TokenKept /\ RewardsKept
  <2>1. TokenKept BY <1>0, <1>3, PrebindKept
  <2>2. UNCHANGED rewardVars /\ TokenInv' BY <1>3, <2>1 DEF prebindTokens, TokenKept
  <2> QED BY <1>0, <2>1, <2>2, HistoryTyped, RewardsUntouched DEF rewardVars
<1>4. ASSUME NEW a \in Accounts, NEW n \in MintAmounts, mintRewards(a, n)
      PROVE  TokenKept /\ RewardsKept
  <2>0. n \in Nat OBVIOUS
  <2>1. /\ UNCHANGED tokenVars /\ UNCHANGED <<rewardPerPeriod, redemptionRate, lastClaimAt>>
        /\ rewards' = [rewards EXCEPT ![a] = rewards[a] + n]
        /\ rewardSupply' = rewardSupply + n
    BY <1>0, <1>4 DEF mintRewards, Mint, Credit
  <2>2. TokenInv' BY <1>0, <2>1, NextKeepsTokenInv
  <2>3. TokenKept BY <1>0, <2>1, <2>2, UnrootedKept DEF tokenVars
  <2>4. /\ rewards' \in [Accounts -> Nat] /\ rewardSupply' \in Nat
        /\ \A b \in Accounts \ {a} : rewards'[b] = rewards[b]
        /\ rewardSupply' = rewardSupply + rewards'[a] - rewards[a]
    BY <1>0, <2>0, <2>1
  <2>5. unrootedAt' \in [Accounts -> Nat] BY <2>2, HistoryTyped
  <2>6. lastClaimAt' \in [Accounts -> Nat] BY <1>0, <2>1
  <2>7. RewardsKept BY <2>1, <2>4, <2>5, <2>6, RewardsShifted
  <2> QED BY <2>3, <2>7
<1> QED BY <1>1, <1>2, <1>3, <1>4 DEF GovernedStep

\* A claim, a redemption or a transfer of reward tokens.
LEMMA RewardStepKept ==
  ASSUME RewardsInv, RewardStep,
         unrootedAt' = [a \in Accounts |->
                          IF soulboundBalances'[a] = 0 THEN now' ELSE unrootedAt[a]]
  PROVE  TokenKept /\ RewardsKept
<1> USE TokenAssumption, RewardsAssumption DEF TokenAssumption, RewardsAssumption
<1>0. /\ TokenInv /\ supply \in Nat /\ now \in Nat
      /\ rewards \in [Accounts -> Nat] /\ rewardSupply \in Nat
      /\ rewardPerPeriod \in Nat /\ redemptionRate \in Nat
      /\ lastClaimAt \in [Accounts -> Nat]
      /\ rewardSupply = Total(rewards, Accounts)
  BY DEF RewardsInv, RewardsTypeOK, TokenInv, TypeOK, RewardSupplyConserved
<1>1. ASSUME NEW a \in Accounts, claimReward(a)
      PROVE  TokenKept /\ RewardsKept
  <2>1. /\ UNCHANGED tokenVars /\ UNCHANGED <<rewardPerPeriod, redemptionRate>>
        /\ rewards' = [rewards EXCEPT ![a] = rewards[a] + rewardPerPeriod]
        /\ rewardSupply' = rewardSupply + rewardPerPeriod
        /\ lastClaimAt' \in [Accounts -> Nat]
    BY <1>0, <1>1 DEF claimReward, Mint, Credit
  <2>2. TokenInv' BY <1>0, <2>1, NextKeepsTokenInv
  <2>3. TokenKept BY <1>0, <2>1, <2>2, UnrootedKept DEF tokenVars
  <2>4. /\ rewards' \in [Accounts -> Nat] /\ rewardSupply' \in Nat
        /\ \A b \in Accounts \ {a} : rewards'[b] = rewards[b]
        /\ rewardSupply' = rewardSupply + rewards'[a] - rewards[a]
    BY <1>0, <2>1
  <2>5. unrootedAt' \in [Accounts -> Nat] BY <2>2, HistoryTyped
  <2>6. RewardsKept BY <2>1, <2>4, <2>5, RewardsShifted
  <2> QED BY <2>3, <2>6
<1>2. ASSUME NEW a \in Accounts, NEW n \in 0 .. MaxRewards, NEW minimum \in RewardAmounts,
             redeem(a, n, minimum)
      PROVE  TokenKept /\ RewardsKept
  <2>1. Payout(n) \in Nat
    BY <1>0 DEF Payout
  <2>2. TokenKept BY <1>0, <1>2, <2>1, PaymentKept DEF redeem
  <2>3. /\ n <= rewards[a] /\ n \in Nat
        /\ rewards' = [rewards EXCEPT ![a] = rewards[a] - n]
        /\ rewardSupply' = rewardSupply - n
        /\ UNCHANGED <<rewardPerPeriod, redemptionRate, lastClaimAt>>
    BY <1>0, <1>2 DEF redeem, Burn, Debit
  <2>4. rewards[a] <= rewardSupply
    <3>1. \A b \in Accounts : rewards[b] \in Nat BY <1>0
    <3>2. /\ Total(rewards, Accounts) = Total(rewards, Accounts \ {a}) + rewards[a]
          /\ Total(rewards, Accounts \ {a}) \in Nat
      BY <3>1, SplitTotal
    <3> QED BY <1>0, <3>1, <3>2
  <2>5. /\ rewards' \in [Accounts -> Nat] /\ rewardSupply' \in Nat
        /\ \A b \in Accounts \ {a} : rewards'[b] = rewards[b]
        /\ rewardSupply' = rewardSupply + rewards'[a] - rewards[a]
    BY <1>0, <2>3, <2>4
  <2>6. unrootedAt' \in [Accounts -> Nat] BY <2>2, HistoryTyped DEF TokenKept
  <2>7. lastClaimAt' \in [Accounts -> Nat] BY <1>0, <2>3
  <2>8. RewardsKept BY <2>3, <2>5, <2>6, <2>7, RewardsShifted
  <2> QED BY <2>2, <2>8
<1>3. ASSUME NEW a \in Accounts, NEW to \in Accounts, NEW n \in 0 .. MaxRewards,
             RewardTransfer(a, to, n)
      PROVE  TokenKept /\ RewardsKept
  <2>1. /\ UNCHANGED tokenVars
        /\ UNCHANGED <<rewardSupply, rewardPerPeriod, redemptionRate, lastClaimAt>>
        /\ n \in 0 .. rewards[a]
        /\ rewards' = Credit(Debit(rewards, a, n), to, n)
    BY <1>0, <1>3 DEF RewardTransfer
  <2>2. TokenInv' BY <1>0, <2>1, NextKeepsTokenInv
  <2>3. TokenKept BY <1>0, <2>1, <2>2, UnrootedKept DEF tokenVars
  <2>4. rewards' \in [Accounts -> Nat] /\ Total(rewards', Accounts) = Total(rewards, Accounts)
    BY <1>0, <2>1, MoveTotal
  <2>5. unrootedAt' \in [Accounts -> Nat] BY <2>2, HistoryTyped
  <2>6. RewardsKept
    BY <1>0, <2>1, <2>4, <2>5 DEF RewardsKept, RewardsTypeOK, RewardSupplyConserved
  <2> QED BY <2>3, <2>6
<1>4. Holders \subseteq Accounts OBVIOUS
<1> QED BY <1>1, <1>2, <1>3, <1>4 DEF RewardStep

\* Every step of the composition keeps the invariant.
LEMMA NextKeepsRewardsInv == RewardsInv /\ [RewardsNext]_rewardsVars => RewardsInv'
<1> SUFFICES ASSUME RewardsInv, [RewardsNext]_rewardsVars PROVE RewardsInv' OBVIOUS
<1>1. CASE UNCHANGED rewardsVars
  <2>1. TokenInv' BY <1>1, NextKeepsTokenInv DEF rewardsVars, RewardsInv
  <2> QED
    BY <1>1, <2>1 DEF rewardsVars, rewardVars, tokenVars, rootVars, RewardsInv, RewardsTypeOK,
                      RewardSupplyConserved, HistoryInv
<1>2. CASE RewardsNext
  <2> DEFINE remembered ==
        unrootedAt' = [a \in Accounts |->
                         IF soulboundBalances'[a] = 0 THEN now' ELSE unrootedAt[a]]
  <2>1. remembered BY <1>2 DEF RewardsNext
  <2>2. CASE TokenStep
    <3>1. TokenKept BY <2>2, TokenStepKept DEF RewardsInv
    <3>2. UNCHANGED rewardVars /\ TokenInv' BY <2>2, <3>1 DEF TokenStep, TokenKept
    <3>3. /\ rewardPerPeriod' \in Nat /\ redemptionRate' \in Nat
          /\ lastClaimAt' \in [Accounts -> Nat]
      BY <3>2 DEF rewardVars, RewardsInv, RewardsTypeOK
    <3>4. RewardsKept BY <2>1, <3>2, <3>3, HistoryTyped, RewardsUntouched DEF rewardVars
    <3> QED BY <2>1, <3>1, <3>4, HistoryKept DEF TokenKept, RewardsKept, RewardsInv
  <2>3. CASE GovernedStep
    BY <2>1, <2>3, GovernedStepKept, HistoryKept DEF TokenKept, RewardsKept, RewardsInv
  <2>4. CASE RewardStep
    BY <2>1, <2>4, RewardStepKept, HistoryKept DEF TokenKept, RewardsKept, RewardsInv
  <2> QED BY <1>2, <2>2, <2>3, <2>4 DEF RewardsNext
<1> QED BY <1>1, <1>2

\* The invariant, the token's under the DAO's composite calls included.
THEOREM RewardsInvariant == RewardsSpec => []RewardsInv
BY InitRewardsInv, NextKeepsRewardsInv, PTL DEF RewardsSpec

\* The state of the rewards has its types.
THEOREM RewardsTypeCorrect == RewardsSpec => []RewardsTypeOK
<1>1. RewardsInv => RewardsTypeOK BY DEF RewardsInv
<1> QED BY <1>1, RewardsInvariant, PTL

\* Claims, burns and transfers keep the reward balances adding up to the reward supply.
THEOREM RewardSupplyIsConserved == RewardsSpec => []RewardSupplyConserved
<1>1. RewardsInv => RewardSupplyConserved BY DEF RewardsInv
<1> QED BY <1>1, RewardsInvariant, PTL

\* Prebinding, redeeming and funding, two effects in one call, respect the token's own
\* accounting.
THEOREM CompositeCallsKeepTokenSound == RewardsSpec => []RewardsKeepTokenSound
<1>1. RewardsInv => RewardsKeepTokenSound BY DEF RewardsInv, TokenInv, RewardsKeepTokenSound
<1> QED BY <1>1, RewardsInvariant, PTL

\* What ClaimsAreEarned says of one step.
ClaimEarned ==
  \A a \in Accounts : lastClaimAt'[a] # lastClaimAt[a] =>
    /\ unrootedAt[a] + ClaimPeriod <= now
    /\ lastClaimAt[a] # 0 => lastClaimAt[a] + ClaimPeriod <= now

\* Only a claim records one, and its guard is about the later of the two beginnings.
LEMMA NextEarnsClaims == RewardsInv /\ [RewardsNext]_rewardsVars => [ClaimEarned]_rewardsVars
<1> SUFFICES ASSUME RewardsInv, RewardsNext PROVE ClaimEarned OBVIOUS
<1> USE RewardsAssumption DEF RewardsAssumption
<1>1. ASSUME NEW a \in Accounts, claimReward(a) PROVE ClaimEarned
  <2>1. /\ lastClaimAt \in [Accounts -> Nat] /\ soulboundSince[a] \in Nat /\ now \in Nat
        /\ unrootedAt[a] \in Nat /\ unrootedAt[a] <= soulboundSince[a]
    BY <1>1 DEF claimReward, RewardsInv, RewardsTypeOK, HistoryInv, TokenInv, TypeOK
  <2>2. /\ soulboundSince[a] + ClaimPeriod <= now
        /\ lastClaimAt[a] + ClaimPeriod <= now
        /\ lastClaimAt' = [lastClaimAt EXCEPT ![a] = now]
    BY <1>1, <2>1 DEF claimReward, eligibleSince
  <2> QED BY <2>1, <2>2 DEF ClaimEarned
<1>2. lastClaimAt' = lastClaimAt => ClaimEarned BY DEF ClaimEarned
<1>3. CASE TokenStep BY <1>2, <1>3 DEF TokenStep, rewardVars
<1>4. CASE GovernedStep
  BY <1>2, <1>4 DEF GovernedStep, setRewardPerPeriod, setRedemptionRate, fundRewardReserve,
                    prebindTokens, mintRewards, rewardVars
<1>5. CASE RewardStep BY <1>1, <1>2, <1>5 DEF RewardStep, redeem, RewardTransfer
<1> QED BY <1>3, <1>4, <1>5 DEF RewardsNext

\* No claim without a whole period of uninterrupted rooting and of not claiming.
THEOREM EveryClaimIsEarned == RewardsSpec => ClaimsAreEarned
<1>1. RewardsSpec => [][ClaimEarned]_rewardsVars
  BY NextEarnsClaims, RewardsInvariant, PTL DEF RewardsSpec
<1> QED BY <1>1 DEF ClaimsAreEarned, ClaimEarned

-----------------------------------------------------------------------------
(* The reserve *)

\* Nobody may spend the reserve with an allowance: the reward contract never approves anybody.
ReserveInv ==
  /\ RewardsInv
  /\ \A s \in Accounts : allowance[RewardToken][s] = 0

\* What ReserveBacksBurns says of one step.
Backed ==
  /\ balance'[RewardToken] < balance[RewardToken] => rewardSupply' < rewardSupply
  /\ rewardSupply' < rewardSupply =>
       balance[RewardToken] - balance'[RewardToken]
         = ((rewardSupply - rewardSupply') * redemptionRate) \div Whole

\* Tokens that another account gives leave the reserve where it is or add to it.
LEMMA OthersPay ==
  ASSUME TokenInv, NEW from \in Accounts \ {RewardToken}, NEW to \in Accounts, NEW n \in Nat,
         Update(from, to, n)
  PROVE  balance'[RewardToken] >= balance[RewardToken]
<1>1. balance \in [Accounts -> Nat] /\ RewardToken \in Accounts
  BY RewardsAssumption DEF TokenInv, TypeOK, RewardsAssumption
<1> QED BY <1>1 DEF Update, Moved, Credit, Debit

\* No call of a holder on the token takes from the reserve or gives an allowance over it.
LEMMA HoldersSpareReserve ==
  ASSUME ReserveInv, NEW sender \in Accounts \ {RewardToken}, HolderStep(sender)
  PROVE  /\ balance'[RewardToken] >= balance[RewardToken]
         /\ \A s \in Accounts : allowance'[RewardToken][s] = 0
<1> USE TokenAssumption, RewardsAssumption DEF TokenAssumption, RewardsAssumption
<1>1. /\ TokenInv /\ supply \in Nat /\ balance[RewardToken] \in Nat
      /\ allowance \in [Accounts -> [Accounts -> Nat]]
      /\ \A s \in Accounts : allowance[RewardToken][s] = 0
  BY DEF ReserveInv, RewardsInv, TokenInv, TypeOK
<1>2. ASSUME NEW to \in Accounts, NEW n \in 0 .. supply, Transfer(sender, to, n)
      PROVE  balance'[RewardToken] >= balance[RewardToken] /\ UNCHANGED allowance
  BY <1>1, <1>2, OthersPay DEF Transfer
<1>3. ASSUME NEW spender \in Accounts, NEW n \in Approvals, Approve(sender, spender, n)
      PROVE  /\ balance'[RewardToken] >= balance[RewardToken]
             /\ \A s \in Accounts : allowance'[RewardToken][s] = 0
  BY <1>1, <1>3 DEF Approve
<1>4. ASSUME NEW from \in Accounts, NEW to \in Accounts, NEW n \in 0 .. supply,
             TransferFrom(sender, from, to, n)
      PROVE  /\ balance'[RewardToken] >= balance[RewardToken]
             /\ \A s \in Accounts : allowance'[RewardToken][s] = 0
  <2>1. /\ n <= allowance[from][sender] /\ Update(from, to, n)
        /\ \/ allowance' = allowance
           \/ allowance' = [allowance EXCEPT ![from][sender] = @ - n]
    BY <1>4 DEF TransferFrom
  <2>2. CASE from = RewardToken
    <3>1. n = 0 BY <1>1, <2>1, <2>2
    <3>2. balance'[RewardToken] >= balance[RewardToken]
      BY <1>1, <2>1, <3>1 DEF TokenInv, TypeOK, Update, Moved, Credit, Debit
    <3>3. \A s \in Accounts : allowance'[RewardToken][s] = 0 BY <1>1, <2>1, <2>2, <3>1
    <3> QED BY <3>2, <3>3
  <2>3. CASE from # RewardToken
    <3>1. balance'[RewardToken] >= balance[RewardToken] BY <1>1, <2>1, <2>3, OthersPay
    <3>2. \A s \in Accounts : allowance'[RewardToken][s] = 0 BY <1>1, <2>1, <2>3
    <3> QED BY <3>1, <3>2
  <2> QED BY <2>2, <2>3
<1> QED BY <1>1, <1>2, <1>3, <1>4 DEF HolderStep, Soulbound, Delegate, erc20Vars

\* A redemption takes from the reserve what the burned reward tokens are worth.
LEMMA RedeemBacks ==
  ASSUME RewardsInv, NEW a \in Holders, NEW n \in 0 .. MaxRewards, NEW minimum \in RewardAmounts,
         redeem(a, n, minimum)
  PROVE  Backed
<1> USE TokenAssumption, RewardsAssumption DEF TokenAssumption, RewardsAssumption
<1>1. /\ balance \in [Accounts -> Nat] /\ rewardSupply \in Nat /\ redemptionRate \in Nat
      /\ n \in Nat /\ n # 0 /\ a \in Accounts /\ a # RewardToken
  BY DEF RewardsInv, RewardsTypeOK, TokenInv, TypeOK, redeem
<1>2. Payout(n) \in Nat BY <1>1 DEF Payout
<1>3. rewardSupply' = rewardSupply - n BY DEF redeem, Burn
<1>4. balance' = [[balance EXCEPT ![RewardToken] = @ - Payout(n)] EXCEPT ![a] = @ + Payout(n)]
  BY DEF redeem, Update, Moved, Credit, Debit
<1>5. balance'[RewardToken] = balance[RewardToken] - Payout(n) BY <1>1, <1>2, <1>4
<1>6. rewardSupply - rewardSupply' = n /\ rewardSupply' < rewardSupply BY <1>1, <1>3
<1>7. balance[RewardToken] - balance'[RewardToken] = Payout(n) BY <1>1, <1>2, <1>5
<1> QED BY <1>6, <1>7 DEF Backed, Payout

\* A step that takes nothing from the reserve and burns nothing.
LEMMA NothingBurned ==
  ASSUME ReserveInv, RewardsInv', balance'[RewardToken] >= balance[RewardToken],
         rewardSupply' >= rewardSupply
  PROVE  Backed
<1>1. /\ balance[RewardToken] \in Nat /\ balance'[RewardToken] \in Nat
      /\ rewardSupply \in Nat /\ rewardSupply' \in Nat
  BY RewardsAssumption
     DEF ReserveInv, RewardsInv, RewardsTypeOK, TokenInv, TypeOK, RewardsAssumption
<1> QED BY <1>1 DEF Backed

LEMMA NextBacks ==
  ASSUME ReserveInv, RewardsNext
  PROVE  ReserveInv' /\ Backed
<1> USE TokenAssumption, RewardsAssumption DEF TokenAssumption, RewardsAssumption
<1>1. RewardsInv' BY NextKeepsRewardsInv DEF ReserveInv
<1>2. /\ TokenInv /\ RewardsInv /\ supply \in Nat /\ balance \in [Accounts -> Nat]
      /\ rewardSupply \in Nat /\ rewardPerPeriod \in Nat
      /\ \A s \in Accounts : allowance[RewardToken][s] = 0
  BY DEF ReserveInv, RewardsInv, RewardsTypeOK, TokenInv, TypeOK
<1>3. UNCHANGED allowance => ReserveInv' BY <1>1, <1>2 DEF ReserveInv
<1>4. ASSUME balance'[RewardToken] >= balance[RewardToken], rewardSupply' >= rewardSupply
      PROVE  Backed
  BY <1>1, <1>4, NothingBurned
<1>5. balance' = balance => balance'[RewardToken] >= balance[RewardToken] BY <1>2
<1>6. rewardSupply' = rewardSupply => rewardSupply' >= rewardSupply BY <1>2
<1>7. CASE TokenStep
  <2>1. rewardSupply' = rewardSupply BY <1>7 DEF TokenStep, rewardVars
  <2>2. /\ balance'[RewardToken] >= balance[RewardToken]
        /\ \A s \in Accounts : allowance'[RewardToken][s] = 0
    <3>1. ASSUME NEW sender \in Holders, HolderStep(sender)
          PROVE  /\ balance'[RewardToken] >= balance[RewardToken]
                 /\ \A s \in Accounts : allowance'[RewardToken][s] = 0
      BY <3>1, HoldersSpareReserve
    <3>2. ASSUME NEW sender, ControlStep(sender) PROVE UNCHANGED <<balance, allowance>>
      BY <3>2 DEF ControlStep, SoulboundFor, Unsoulbound, SetGovernance, TransferOwnership,
                  RenounceOwnership, erc20Vars
    <3>3. Tick => UNCHANGED <<balance, allowance>> BY DEF Tick, erc20Vars
    <3> QED BY <1>2, <1>5, <1>7, <3>1, <3>2, <3>3 DEF TokenStep
  <2> QED BY <1>1, <1>4, <1>6, <2>1, <2>2 DEF ReserveInv
<1>8. CASE GovernedStep
  <2>1. UNCHANGED allowance
    BY <1>8 DEF GovernedStep, setRewardPerPeriod, setRedemptionRate, fundRewardReserve,
                prebindTokens, mintRewards, tokenVars, erc20Vars
  <2>3. rewardSupply' >= rewardSupply
    <3>1. ASSUME NEW a \in Accounts, NEW n \in MintAmounts, mintRewards(a, n)
          PROVE  rewardSupply' >= rewardSupply
      <4>1. n \in Nat /\ rewardSupply' = rewardSupply + n BY <3>1 DEF mintRewards, Mint
      <4> QED BY <1>2, <4>1
    <3> QED BY <1>6, <1>8, <3>1 DEF GovernedStep, setRewardPerPeriod, setRedemptionRate,
                                    fundRewardReserve, prebindTokens, rewardVars
  <2>2. balance'[RewardToken] >= balance[RewardToken]
    <3>1. ASSUME NEW to \in Accounts, NEW n \in 0 .. supply, Update(Dao, to, n)
          PROVE  balance'[RewardToken] >= balance[RewardToken]
      BY <1>2, <3>1, OthersPay
    <3>2. ASSUME NEW n, setRewardPerPeriod(n) \/ setRedemptionRate(n) PROVE balance' = balance
      BY <3>2 DEF setRewardPerPeriod, setRedemptionRate, tokenVars, erc20Vars
    <3>3. ASSUME NEW a, NEW n, mintRewards(a, n) PROVE balance' = balance
      BY <3>3 DEF mintRewards, tokenVars, erc20Vars
    <3> QED BY <1>5, <1>8, <3>1, <3>2, <3>3 DEF GovernedStep, fundRewardReserve, prebindTokens
  <2> QED BY <1>3, <1>4, <2>1, <2>2, <2>3
<1>9. CASE RewardStep
  <2>1. UNCHANGED allowance
    BY <1>9 DEF RewardStep, claimReward, redeem, RewardTransfer, tokenVars, erc20Vars
  <2>2. ASSUME NEW a \in Holders, claimReward(a) PROVE Backed
    <3>1. balance' = balance /\ rewardSupply' = rewardSupply + rewardPerPeriod
      BY <2>2 DEF claimReward, Mint, tokenVars, erc20Vars
    <3> QED BY <1>2, <1>4, <1>5, <3>1
  <2>3. ASSUME NEW a, NEW to, NEW n, RewardTransfer(a, to, n) PROVE Backed
    <3>1. balance' = balance /\ rewardSupply' = rewardSupply
      BY <2>3 DEF RewardTransfer, tokenVars, erc20Vars
    <3> QED BY <1>4, <1>5, <1>6, <3>1
  <2> QED BY <1>2, <1>3, <1>9, <2>1, <2>2, <2>3, RedeemBacks DEF RewardStep
<1> QED BY <1>7, <1>8, <1>9 DEF RewardsNext

LEMMA StepBacks == ReserveInv /\ [RewardsNext]_rewardsVars => ReserveInv' /\ [Backed]_rewardsVars
<1> SUFFICES ASSUME ReserveInv, UNCHANGED rewardsVars PROVE ReserveInv'
  BY NextBacks
<1>1. RewardsInv' BY NextKeepsRewardsInv DEF ReserveInv
<1>2. UNCHANGED allowance BY DEF rewardsVars, tokenVars, erc20Vars
<1> QED BY <1>1, <1>2 DEF ReserveInv

LEMMA InitReserveInv == RewardsInit => ReserveInv
<1> SUFFICES ASSUME RewardsInit PROVE ReserveInv OBVIOUS
<1>1. allowance = [a \in Accounts |-> [s \in Accounts |-> 0]]
  BY DEF RewardsInit, Init, InitTokens
<1> QED BY <1>1, InitRewardsInv, RewardsAssumption DEF ReserveInv, RewardsAssumption

\* The reserve pays for redemptions only, and exactly what the burned reward tokens are worth.
THEOREM ReserveIsBacked == RewardsSpec => ReserveBacksBurns
<1>1. RewardsSpec => [][Backed]_rewardsVars
  BY InitReserveInv, StepBacks, PTL DEF RewardsSpec
<1> QED BY <1>1 DEF ReserveBacksBurns, Backed

-----------------------------------------------------------------------------
(* The reward ledger *)

\* A step of the abstract specification, or none.
PurseStep == [Purse!RewardNext]_(Purse!purse)

\* Nothing but votes, delegates, allowances, control and times changes.
LEMMA PurseUntouched ==
  ASSUME UNCHANGED <<balance, soulboundBalances, rewards, rewardPerPeriod, redemptionRate>>
  PROVE  PurseStep
BY DEF PurseStep, Purse!purse, Purse!pockets, Purse!terms, liquidBalanceOf

\* Sending nothing changes no balance.
LEMMA NothingMoved ==
  ASSUME NEW f \in [Accounts -> Nat], NEW a \in Accounts, NEW b \in Accounts
  PROVE  Credit(Debit(f, a, 0), b, 0) = f
BY DEF Credit, Debit

\* The types the steps below have in common.
LEMMA PurseTypes ==
  ASSUME RewardsInv
  PROVE  /\ TokenInv /\ TypeOK /\ supply \in Nat
         /\ balance \in [Accounts -> Nat] /\ soulboundBalances \in [Accounts -> Nat]
         /\ rewards \in [Accounts -> Nat]
         /\ rewardPerPeriod \in Nat /\ redemptionRate \in Nat
         /\ \A a \in Accounts : /\ liquidBalanceOf(a) \in Nat
                                /\ [b \in Accounts |-> liquidBalanceOf(b)][a] = liquidBalanceOf(a)
         /\ Dao \in Accounts /\ RewardToken \in Accounts /\ Dao # RewardToken
         /\ Holders \subseteq Accounts \ {RewardToken}
<1>1. RewardsTypeOK /\ TokenInv /\ TypeOK BY DEF RewardsInv, TokenInv
<1>2. \A a \in Accounts : soulboundBalances[a] <= balance[a]
  BY <1>1 DEF TokenInv, RootedWithinBalance
<1> QED BY <1>1, <1>2, RewardsAssumption
        DEF TypeOK, RewardsTypeOK, liquidBalanceOf, RewardsAssumption

\* Whoever is not the reserve pays out of the liquid pocket.
LEMMA PaidIsPay ==
  ASSUME RewardsInv, NEW from \in Accounts, NEW to \in Accounts, NEW n \in Nat,
         from # RewardToken \/ n = 0, Update(from, to, n),
         UNCHANGED <<soulboundBalances, rewards, rewardPerPeriod, redemptionRate>>
  PROVE  PurseStep
<1>1. CASE n = 0
  <2>1. balance' = balance BY <1>1, PurseTypes, NothingMoved DEF Update, Moved
  <2> QED BY <2>1, PurseUntouched
<1>2. CASE n # 0
  <2>1. Ledger!Send(from, to, n) BY PurseTypes, UpdateIsSend
  <2>2. Purse!Pay(from, to, n)
    BY <2>1 DEF Purse!Pay, Purse!Send, Ledger!Send, Purse!Credit, Ledger!Credit,
                Purse!Debit, Ledger!Debit, Purse!terms
  <2>3. n \in 1 .. [b \in Accounts |-> liquidBalanceOf(b)][from]
    BY <1>2, PurseTypes DEF Update, CanSpend
  <2> QED BY <1>2, <2>2, <2>3 DEF PurseStep, Purse!RewardNext
<1> QED BY <1>1, <1>2

\* Rooting and releasing stay within the account.
LEMMA RootedIsKept ==
  ASSUME RewardsInv, NEW a \in Accounts, NEW n \in Nat, n # 0,
         UNCHANGED <<balance, rewards, rewardPerPeriod, redemptionRate>>,
         \/ n <= liquidBalanceOf(a) /\ Root(a, n)
         \/ n <= soulboundBalances[a] /\ Release(a, n)
  PROVE  PurseStep
<1>1. Ledger!Bind(a, n) \/ Ledger!Unbind(a, n) BY PurseTypes, RootIsBind, ReleaseIsUnbind
<1>2. Purse!Keep(a, n)
  BY <1>1 DEF Purse!Keep, Purse!Bind, Ledger!Bind, Purse!Unbind, Ledger!Unbind, Purse!Credit,
              Ledger!Credit, Purse!Debit, Ledger!Debit, Purse!terms
<1>3. n \in 1 .. [b \in Accounts |-> liquidBalanceOf(b)][a] + soulboundBalances[a]
  BY PurseTypes
<1> QED BY <1>2, <1>3 DEF PurseStep, Purse!RewardNext

\* A prebinding ends with the treasury's tokens rooted by the account, liquid at no time.
LEMMA PrebindIsPrebind ==
  ASSUME RewardsInv, NEW a \in Accounts, NEW n \in 0 .. supply, prebindTokens(a, n)
  PROVE  PurseStep
<1>1. /\ n \in Nat /\ n # 0 /\ n <= liquidBalanceOf(Dao)
      /\ balance' = [[balance EXCEPT ![Dao] = @ - n] EXCEPT ![a] = @ + n]
      /\ soulboundBalances' = [soulboundBalances EXCEPT ![a] = @ + n]
      /\ UNCHANGED <<rewards, rewardPerPeriod, redemptionRate>>
  BY PurseTypes DEF prebindTokens, Update, CanSpend, Moved, Root, Credit, Debit, rewardVars
<1>2. ASSUME NEW b \in Accounts
      PROVE  balance'[b] - soulboundBalances'[b]
               = IF b = Dao THEN (balance[b] - soulboundBalances[b]) - n
                 ELSE balance[b] - soulboundBalances[b]
  <2>1. /\ balance[b] \in Nat /\ soulboundBalances[b] \in Nat /\ Dao \in Accounts
        /\ balance \in [Accounts -> Nat] /\ soulboundBalances \in [Accounts -> Nat]
    BY PurseTypes
  <2>2. soulboundBalances'[b] = soulboundBalances[b] + (IF b = a THEN n ELSE 0)
    BY <1>1, <2>1
  <2>3. balance'[b] = balance[b] - (IF b = Dao THEN n ELSE 0) + (IF b = a THEN n ELSE 0)
    BY <1>1, <2>1
  <2> QED BY <1>1, <2>1, <2>2, <2>3
<1>3. [b \in Accounts |-> balance'[b] - soulboundBalances'[b]]
        = [[b \in Accounts |-> balance[b] - soulboundBalances[b]] EXCEPT ![Dao] = @ - n]
  <2>1. Dao \in Accounts BY PurseTypes
  <2> QED BY <1>2, <2>1
<1>4. Purse!Prebind(a, n)
  <2>1. n <= [b \in Accounts |-> liquidBalanceOf(b)][Dao] BY <1>1, PurseTypes
  <2>2. soulboundBalances' = Purse!Credit(soulboundBalances, a, n) BY <1>1 DEF Purse!Credit
  <2>3. [b \in Accounts |-> liquidBalanceOf(b)]'
          = Purse!Debit([b \in Accounts |-> liquidBalanceOf(b)], Dao, n)
    BY <1>3 DEF Purse!Debit, liquidBalanceOf
  <2> QED BY <1>1, <2>1, <2>2, <2>3 DEF Purse!Prebind, Purse!terms
<1>5. n \in 1 .. [b \in Accounts |-> liquidBalanceOf(b)][Dao] BY <1>1, PurseTypes
<1> QED BY <1>4, <1>5 DEF PurseStep, Purse!RewardNext

\* A redemption burns, and the reserve pays the caller what that is worth.
LEMMA RedeemIsRedeem ==
  ASSUME RewardsInv, NEW a \in Accounts, NEW n \in 0 .. MaxRewards, NEW minimum,
         redeem(a, n, minimum)
  PROVE  PurseStep
<1>1. /\ n \in Nat /\ n # 0 /\ n <= rewards[a]
      /\ rewards' = [rewards EXCEPT ![a] = @ - n]
      /\ Update(RewardToken, a, Payout(n))
      /\ UNCHANGED <<soulboundBalances, rewardPerPeriod, redemptionRate>>
  BY RewardsAssumption DEF redeem, Burn, Debit, rootVars, RewardsAssumption
<1>2. Payout(n) \in Nat
  BY <1>1, PurseTypes, RewardsAssumption DEF Payout, RewardsAssumption
<1>3. Ledger!Send(RewardToken, a, Payout(n)) BY <1>1, <1>2, PurseTypes, UpdateIsSend
<1>4. Purse!Redeem(a, n)
  BY <1>1, <1>3 DEF Purse!Redeem, Purse!Send, Ledger!Send, Purse!Credit, Ledger!Credit,
                    Purse!Debit, Ledger!Debit, Purse!terms, Payout
<1>5. n \in 1 .. rewards[a] BY <1>1, PurseTypes
<1> QED BY <1>4, <1>5 DEF PurseStep, Purse!RewardNext

\* Handing reward tokens on touches no token.
LEMMA TransferIsHand ==
  ASSUME RewardsInv, NEW a \in Accounts, NEW to \in Accounts, NEW n \in Nat,
         RewardTransfer(a, to, n)
  PROVE  PurseStep
<1>1. /\ n <= rewards[a] /\ rewards' = Credit(Debit(rewards, a, n), to, n)
      /\ UNCHANGED <<balance, soulboundBalances, rewardPerPeriod, redemptionRate>>
  BY DEF RewardTransfer, tokenVars, erc20Vars, rootVars
<1>2. CASE n = 0
  <2>1. rewards' = rewards BY <1>1, <1>2, PurseTypes, NothingMoved
  <2> QED BY <1>1, <2>1, PurseUntouched
<1>3. CASE n # 0
  <2>1. Purse!Hand(a, to, n)
    BY <1>1 DEF Purse!Hand, Purse!Credit, Purse!Debit, Credit, Debit, Purse!pockets,
                Purse!terms, liquidBalanceOf
  <2>2. n \in 1 .. rewards[a] BY <1>1, <1>3, PurseTypes
  <2> QED BY <2>1, <2>2 DEF PurseStep, Purse!RewardNext
<1> QED BY <1>2, <1>3

\* A claim makes what a claim is to make.
LEMMA ClaimIsClaim ==
  ASSUME RewardsInv, NEW a \in Accounts, claimReward(a)
  PROVE  PurseStep
<1>1. Purse!Claim(a)
  BY DEF claimReward, Mint, Credit, tokenVars, erc20Vars, rootVars, Purse!Claim, Purse!Credit,
         Purse!pockets, Purse!terms, liquidBalanceOf
<1> QED BY <1>1 DEF PurseStep, Purse!RewardNext

\* Calls of the token: the reward contract makes none and allows none.
LEMMA TokenStepIsPurseStep ==
  ASSUME ReserveInv, TokenStep
  PROVE  PurseStep
<1>0. RewardsInv BY DEF ReserveInv
<1>1. UNCHANGED <<rewards, rewardPerPeriod, redemptionRate>> BY DEF TokenStep, rewardVars
<1>2. supply \in Nat /\ Holders \subseteq Accounts \ {RewardToken} /\ Dao \in Accounts
      /\ allowance \in [Accounts -> [Accounts -> Nat]]
      /\ \A s \in Accounts : allowance[RewardToken][s] = 0
  BY <1>0, PurseTypes DEF ReserveInv, TypeOK
<1>3. ASSUME UNCHANGED <<balance, soulboundBalances>> PROVE PurseStep
  BY <1>1, <1>3, PurseUntouched
<1>4. ASSUME NEW a \in Accounts, NEW n \in 0 .. supply, n # 0, UNCHANGED balance,
             \/ n <= liquidBalanceOf(a) /\ Root(a, n)
             \/ n <= soulboundBalances[a] /\ Release(a, n)
      PROVE  PurseStep
  BY <1>0, <1>1, <1>2, <1>4, RootedIsKept
<1>5. ASSUME NEW sender \in Holders, HolderStep(sender) PROVE PurseStep
  <2>1. sender \in Accounts /\ sender # RewardToken BY <1>2
  <2>2. ASSUME NEW to \in Accounts, NEW n \in 0 .. supply, Transfer(sender, to, n)
        PROVE  PurseStep
    BY <1>0, <1>1, <1>2, <2>1, <2>2, PaidIsPay DEF Transfer, rootVars
  <2>3. ASSUME NEW from \in Accounts, NEW to \in Accounts, NEW n \in 0 .. supply,
               TransferFrom(sender, from, to, n)
        PROVE  PurseStep
    <3>1. n \in Nat /\ (from # RewardToken \/ n = 0)
      BY <1>2, <2>1, <2>3 DEF TransferFrom
    <3> QED BY <1>0, <1>1, <2>3, <3>1, PaidIsPay DEF TransferFrom, rootVars
  <2>4. ASSUME NEW n \in 0 .. supply, Soulbound(sender, n) PROVE PurseStep
    BY <1>4, <2>1, <2>4 DEF Soulbound, erc20Vars
  <2> QED BY <1>3, <1>5, <2>2, <2>3, <2>4 DEF HolderStep, Approve, Delegate, erc20Vars, rootVars
<1>6. ASSUME NEW sender, ControlStep(sender) PROVE PurseStep
  <2>1. ASSUME NEW a \in Accounts, NEW n \in 0 .. supply, SoulboundFor(sender, a, n)
        PROVE  PurseStep
    BY <1>4, <2>1 DEF SoulboundFor, erc20Vars
  <2>2. ASSUME NEW a \in Accounts, NEW n \in 0 .. supply, Unsoulbound(sender, a, n)
        PROVE  PurseStep
    BY <1>4, <2>2 DEF Unsoulbound, erc20Vars
  <2> QED BY <1>3, <1>6, <2>1, <2>2
          DEF ControlStep, SetGovernance, TransferOwnership, RenounceOwnership, erc20Vars, rootVars
<1>7. CASE Tick BY <1>3, <1>7 DEF Tick, erc20Vars, rootVars
<1> QED BY <1>5, <1>6, <1>7 DEF TokenStep

\* What proposals do to the rewards: new terms, points for an account, a payment into the
\* reserve, a prebinding.
LEMMA GovernedStepIsPurseStep ==
  ASSUME RewardsInv, GovernedStep
  PROVE  PurseStep
<1>1. ASSUME NEW n \in RewardAmounts, setRewardPerPeriod(n) \/ setRedemptionRate(n)
      PROVE  PurseStep
  <2>1. Purse!ChangeTerms
    BY <1>1, PurseTypes, RewardsAssumption
       DEF setRewardPerPeriod, setRedemptionRate, tokenVars, erc20Vars, rootVars,
           Purse!ChangeTerms, Purse!pockets, liquidBalanceOf, RewardsAssumption
  <2> QED BY <2>1 DEF PurseStep, Purse!RewardNext
<1>2. ASSUME NEW n \in 0 .. supply, fundRewardReserve(n) PROVE PurseStep
  BY <1>2, PurseTypes, PaidIsPay DEF fundRewardReserve, rootVars, rewardVars
<1>3. ASSUME NEW a \in Accounts, NEW n \in 0 .. supply, prebindTokens(a, n) PROVE PurseStep
  BY <1>3, PrebindIsPrebind
<1>4. ASSUME NEW a \in Accounts, NEW n \in MintAmounts, mintRewards(a, n) PROVE PurseStep
  <2>1. Purse!Grant(a, n)
    BY <1>4 DEF mintRewards, Mint, Credit, tokenVars, erc20Vars, rootVars, Purse!Grant,
                Purse!Credit, Purse!pockets, Purse!terms, liquidBalanceOf
  <2> QED BY <2>1 DEF PurseStep, Purse!RewardNext
<1> QED BY <1>1, <1>2, <1>3, <1>4 DEF GovernedStep

\* Every step of token and rewards is one of the abstract specification, or none.
LEMMA StepIsPurseStep == ReserveInv /\ [RewardsNext]_rewardsVars => PurseStep
<1> SUFFICES ASSUME ReserveInv, [RewardsNext]_rewardsVars PROVE PurseStep OBVIOUS
<1>1. RewardsInv BY DEF ReserveInv
<1>2. CASE TokenStep BY <1>2, TokenStepIsPurseStep
<1>3. CASE GovernedStep BY <1>1, <1>3, GovernedStepIsPurseStep
<1>4. CASE RewardStep
  <2>1. Holders \subseteq Accounts BY <1>1, PurseTypes
  <2>2. 0 .. MaxRewards \subseteq Nat OBVIOUS
  <2> QED BY <1>1, <1>4, <2>1, <2>2, ClaimIsClaim, RedeemIsRedeem, TransferIsHand
          DEF RewardStep
<1>5. CASE UNCHANGED rewardsVars
  BY <1>5, PurseUntouched DEF rewardsVars, tokenVars, erc20Vars, rootVars, rewardVars
<1> QED BY <1>2, <1>3, <1>4, <1>5 DEF RewardsNext

\* At deployment the deployer has all tokens, and nobody a claim on the reserve.
LEMMA InitIsPurseInit == RewardsInit => Purse!RewardInit
<1> SUFFICES ASSUME RewardsInit PROVE Purse!RewardInit OBVIOUS
<1>1. Ledger!Init BY InitIsLedgerInit DEF RewardsInit
<1>2. Purse!Init BY <1>1 DEF Ledger!Init, Purse!Init
<1> QED BY <1>2 DEF RewardsInit, Purse!RewardInit

\* Token, reward token and DAO together implement RewardLedger: for every supply, rate, reward
\* and order of calls, the reserve pays redemptions only, at their worth and to who redeems.
THEOREM RewardsImplementRewardLedger == RewardsSpec => ImplementsRewardLedger
<1>1. ReserveInv /\ [RewardsNext]_rewardsVars => ReserveInv' BY StepBacks
<1>2. ReserveInv /\ [RewardsNext]_rewardsVars => PurseStep BY StepIsPurseStep
<1>3. RewardsSpec => [][Purse!RewardNext]_(Purse!purse)
  BY <1>1, <1>2, InitReserveInv, PTL DEF RewardsSpec, PurseStep
<1> QED BY <1>3, InitIsPurseInit, PTL
        DEF RewardsSpec, ImplementsRewardLedger, Purse!RewardSpec

-----------------------------------------------------------------------------
(* Splitting a redemption *)

\* Rounding down twice never gives more than rounding down once.
LEMMA QuotientsAdd ==
  ASSUME NEW a \in Nat, NEW b \in Nat, NEW w \in Nat \ {0}
  PROVE  (a \div w) + (b \div w) <= (a + b) \div w
<1> DEFINE x == a \div w
           y == b \div w
           z == (a + b) \div w
<1>1. x \in Nat /\ y \in Nat /\ z \in Nat OBVIOUS
<1>2. w * x <= a /\ w * y <= b OBVIOUS
<1>3. a + b < w * (z + 1) OBVIOUS
<1> HIDE DEF x, y, z
<1>4. w * (x + y) = w * x + w * y BY <1>1
<1>5. w * (x + y) < w * (z + 1)
  <2>1. w * x \in Nat /\ w * y \in Nat /\ w * (z + 1) \in Nat BY <1>1
  <2> QED BY <1>2, <1>3, <1>4, <2>1
<1>6. x + y < z + 1
  <2>1. CASE x + y >= z + 1
    <3>1. PICK d \in Nat : x + y = z + 1 + d
      <4>1. x + y - (z + 1) \in Nat BY <1>1, <2>1
      <4> QED BY <1>1, <4>1
    <3>2. w * (x + y) = w * (z + 1) + w * d /\ w * d \in Nat /\ w * (z + 1) \in Nat
      BY <1>1, <3>1
    <3> QED BY <1>5, <3>2
  <2> QED BY <1>1, <2>1
<1> QED BY <1>1, <1>6 DEF x, y, z

LEMMA RewardsInvSplits == RewardsInv => SplittingNeverPaysMore
<1> SUFFICES ASSUME RewardsInv, NEW m \in 0 .. MaxRewards, NEW n \in 0 .. MaxRewards
             PROVE  Payout(m) + Payout(n) <= Payout(m + n)
  BY DEF SplittingNeverPaysMore
<1>1. m \in Nat /\ n \in Nat /\ redemptionRate \in Nat /\ Whole \in Nat \ {0}
  BY RewardsAssumption DEF RewardsInv, RewardsTypeOK, RewardsAssumption
<1>2. m * redemptionRate \in Nat /\ n * redemptionRate \in Nat BY <1>1
<1>3. (m + n) * redemptionRate = m * redemptionRate + n * redemptionRate BY <1>1
<1> QED BY <1>1, <1>2, <1>3, QuotientsAdd DEF Payout

\* Redeeming in parts never pays more than redeeming at once, whatever the rate.
THEOREM SplittingGainsNothing == RewardsSpec => []SplittingNeverPaysMore
BY RewardsInvSplits, RewardsInvariant, PTL

-----------------------------------------------------------------------------
(* What the account page shows *)

\* A date computed from old reads is not after the one the contract will ask for.
AccountInv ==
  /\ RewardsInv
  /\ AccountTypeOK
  /\ lastClaimAt[Viewer] <= now
  /\ "lastClaim" \in DOMAIN answers => answers["lastClaim"] <= lastClaimAt[Viewer]
  /\ "since" \in DOMAIN answers =>
       /\ answers["since"] <= now
       /\ soulboundBalances[Viewer] # 0 => answers["since"] <= soulboundSince[Viewer]
  /\ eligible <= now + ClaimPeriod
  /\ soulboundBalances[Viewer] # 0 => eligible <= eligibleSince(Viewer) + ClaimPeriod

\* A step of the contracts keeps the token, and claims are recorded with the time.
LEMMA RewardsStepFacts ==
  ASSUME RewardsInv, RewardsNext
  PROVE  /\ TokenKept
         /\ \A a \in Accounts :
              lastClaimAt'[a] = lastClaimAt[a] \/ (claimReward(a) /\ lastClaimAt'[a] = now)
<1> USE RewardsAssumption DEF RewardsAssumption
<1>1. unrootedAt' = [a \in Accounts |->
                       IF soulboundBalances'[a] = 0 THEN now' ELSE unrootedAt[a]]
  BY DEF RewardsNext
<1>2. lastClaimAt \in [Accounts -> Nat] BY DEF RewardsInv, RewardsTypeOK
<1>3. CASE TokenStep
  <2>1. TokenKept BY <1>3, TokenStepKept DEF RewardsInv
  <2> QED BY <1>3, <2>1 DEF TokenStep, rewardVars
<1>4. CASE GovernedStep
  <2>1. TokenKept BY <1>1, <1>4, GovernedStepKept
  <2> QED BY <1>4, <2>1 DEF GovernedStep, setRewardPerPeriod, setRedemptionRate,
                            fundRewardReserve, prebindTokens, mintRewards, rewardVars
<1>5. CASE RewardStep
  <2>1. TokenKept BY <1>1, <1>5, RewardStepKept
  <2>2. ASSUME NEW b \in Accounts, claimReward(b)
        PROVE  \A a \in Accounts :
                 lastClaimAt'[a] = lastClaimAt[a] \/ (claimReward(a) /\ lastClaimAt'[a] = now)
    <3>1. lastClaimAt' = [lastClaimAt EXCEPT ![b] = now] BY <2>2 DEF claimReward
    <3>2. \A a \in Accounts \ {b} : lastClaimAt'[a] = lastClaimAt[a] BY <1>2, <3>1
    <3>3. lastClaimAt'[b] = now BY <1>2, <3>1
    <3> QED BY <2>2, <3>2, <3>3
  <2> QED BY <1>5, <2>1, <2>2 DEF RewardStep, redeem, RewardTransfer
<1> QED BY <1>3, <1>4, <1>5 DEF RewardsNext

\* The period of a rooted account counts from a time that no step moves back.
LEMMA RewardsStepKeepsAccount ==
  ASSUME AccountInv, RewardsNext, UNCHANGED <<answers, eligible>>
  PROVE  AccountInv'
<1> USE RewardsAssumption, ViewerAssumption DEF RewardsAssumption, ViewerAssumption
<1>1. RewardsInv' BY NextKeepsRewardsInv DEF AccountInv
<1>2. AccountTypeOK' BY <1>1 DEF AccountInv, AccountTypeOK, RewardsInv
<1>3. /\ now \in Nat /\ now' \in Nat /\ lastClaimAt[Viewer] \in Nat /\ eligible \in Nat
      /\ lastClaimAt'[Viewer] \in Nat
      /\ soulboundSince[Viewer] \in Nat /\ soulboundSince'[Viewer] \in Nat
  BY <1>1, <1>2
     DEF AccountInv, AccountTypeOK, RewardsInv, RewardsTypeOK, TokenInv, TypeOK
<1>4. /\ now' >= now
      /\ soulboundBalances'[Viewer] # 0 =>
           \/ soulboundBalances[Viewer] # 0 /\ soulboundSince'[Viewer] = soulboundSince[Viewer]
           \/ soulboundSince'[Viewer] = now
      /\ lastClaimAt'[Viewer] = lastClaimAt[Viewer] \/ lastClaimAt'[Viewer] = now
  BY RewardsStepFacts DEF AccountInv, TokenKept
<1>5. lastClaimAt[Viewer] <= lastClaimAt'[Viewer] /\ lastClaimAt'[Viewer] <= now'
  BY <1>3, <1>4 DEF AccountInv
<1>6. "lastClaim" \in DOMAIN answers => answers["lastClaim"] <= lastClaimAt'[Viewer]
  BY <1>3, <1>5 DEF AccountInv, AccountTypeOK
<1>7. "since" \in DOMAIN answers =>
        /\ answers["since"] <= now'
        /\ soulboundBalances'[Viewer] # 0 => answers["since"] <= soulboundSince'[Viewer]
  BY <1>3, <1>4 DEF AccountInv, AccountTypeOK
<1>8. eligible <= now' + ClaimPeriod BY <1>3, <1>4 DEF AccountInv
<1>9. soulboundBalances'[Viewer] # 0 => eligible <= eligibleSince(Viewer)' + ClaimPeriod
  BY <1>3, <1>4, <1>5 DEF AccountInv, eligibleSince
<1> QED BY <1>1, <1>2, <1>5, <1>6, <1>7, <1>8, <1>9 DEF AccountInv

\* What is read is what holds at that moment.
LEMMA ReadKeepsAccount ==
  ASSUME AccountInv, NEW f \in Fields, Read(f)
  PROVE  AccountInv'
<1> USE RewardsAssumption, ViewerAssumption DEF RewardsAssumption, ViewerAssumption
<1>1. RewardsInv' BY NextKeepsRewardsInv DEF AccountInv, Read
<1>2. /\ soulboundSince[Viewer] \in Nat /\ lastClaimAt[Viewer] \in Nat /\ now \in Nat
      /\ soulboundSince[Viewer] <= now /\ lastClaimAt[Viewer] <= now
  BY DEF AccountInv, RewardsInv, RewardsTypeOK, TokenInv, TypeOK, SinceTracksRooting
<1>3. /\ DOMAIN answers' = DOMAIN answers \cup {f}
      /\ \A g \in DOMAIN answers' : answers'[g] = IF g = f THEN ReadNow(f) ELSE answers[g]
  BY DEF Read
<1>4. ReadNow(f) \in Nat BY <1>2 DEF ReadNow
<1>5. UNCHANGED <<rewardsVars, eligible>> BY DEF Read
<1>6. UNCHANGED <<soulboundSince, soulboundBalances, lastClaimAt, now, eligible>>
  BY <1>5 DEF rewardsVars, rewardVars, tokenVars, rootVars
<1>7. AccountTypeOK'
  <2>1. RewardsTypeOK' /\ eligible' \in Nat
    BY <1>1, <1>5 DEF AccountInv, AccountTypeOK, RewardsInv
  <2>2. \A g \in DOMAIN answers' : answers'[g] \in Nat
    BY <1>3, <1>4 DEF AccountInv, AccountTypeOK
  <2>3. DOMAIN answers' \subseteq Fields BY <1>3 DEF AccountInv, AccountTypeOK
  <2> QED BY <2>1, <2>2, <2>3 DEF AccountTypeOK
<1>8. "lastClaim" \in DOMAIN answers' => answers'["lastClaim"] <= lastClaimAt[Viewer]
  BY <1>2, <1>3 DEF ReadNow, AccountInv
<1>9. "since" \in DOMAIN answers' =>
        /\ answers'["since"] <= now
        /\ soulboundBalances[Viewer] # 0 => answers'["since"] <= soulboundSince[Viewer]
  BY <1>2, <1>3 DEF ReadNow, AccountInv
<1> QED BY <1>1, <1>6, <1>7, <1>8, <1>9 DEF AccountInv, eligibleSince

\* The later of the two reads is not after the later of what was read.
LEMMA ReturnKeepsAccount ==
  ASSUME AccountInv, Return
  PROVE  AccountInv'
<1> USE RewardsAssumption, ViewerAssumption DEF RewardsAssumption, ViewerAssumption
<1> DEFINE since == answers["since"]
           lastClaim == answers["lastClaim"]
<1>1. RewardsInv' BY NextKeepsRewardsInv DEF AccountInv, Return
<1>2. /\ soulboundSince[Viewer] \in Nat /\ lastClaimAt[Viewer] \in Nat /\ now \in Nat
      /\ since \in Nat /\ lastClaim \in Nat
      /\ since <= now /\ lastClaim <= lastClaimAt[Viewer] /\ lastClaimAt[Viewer] <= now
      /\ soulboundBalances[Viewer] # 0 => since <= soulboundSince[Viewer]
  BY DEF AccountInv, AccountTypeOK, RewardsInv, RewardsTypeOK, TokenInv, TypeOK, Return, Fields
<1>3. /\ UNCHANGED rewardsVars /\ DOMAIN answers' = {}
      /\ eligible' = eligibleAt(since, lastClaim)
  BY DEF Return
<1>4. UNCHANGED <<soulboundSince, soulboundBalances, lastClaimAt, now>>
  BY <1>3 DEF rewardsVars, rewardVars, tokenVars, rootVars
<1> HIDE DEF since, lastClaim
<1>5. /\ eligible' \in Nat /\ eligible' <= now + ClaimPeriod
      /\ soulboundBalances[Viewer] # 0 => eligible' <= eligibleSince(Viewer) + ClaimPeriod
  BY <1>2, <1>3 DEF eligibleAt, eligibleSince
<1>6. AccountTypeOK' BY <1>1, <1>3, <1>5 DEF AccountTypeOK, RewardsInv
<1>7. eligibleSince(Viewer)' = eligibleSince(Viewer) BY <1>4 DEF eligibleSince
<1> QED BY <1>1, <1>2, <1>3, <1>4, <1>5, <1>6, <1>7 DEF AccountInv

LEMMA InitAccountInv == AccountInit => AccountInv
<1> SUFFICES ASSUME AccountInit PROVE AccountInv OBVIOUS
<1> USE RewardsAssumption, ViewerAssumption DEF RewardsAssumption, ViewerAssumption
<1>1. RewardsInv BY InitRewardsInv DEF AccountInit
<1>2. DOMAIN answers = {} /\ eligible = 0 BY DEF AccountInit
<1>3. AccountTypeOK BY <1>1, <1>2 DEF AccountTypeOK, RewardsInv
<1>4. lastClaimAt[Viewer] = 0 /\ now \in Nat /\ soulboundBalances[Viewer] = 0
  BY DEF AccountInit, RewardsInit, Init, InitTokens
<1> QED BY <1>1, <1>2, <1>3, <1>4 DEF AccountInv

LEMMA NextKeepsAccountInv == AccountInv /\ [AccountNext]_accountVars => AccountInv'
<1> SUFFICES ASSUME AccountInv, [AccountNext]_accountVars PROVE AccountInv' OBVIOUS
<1>1. CASE UNCHANGED accountVars
  <2>1. UNCHANGED rewardsVars /\ UNCHANGED <<answers, eligible>> BY <1>1 DEF accountVars
  <2>2. RewardsInv' BY <2>1, NextKeepsRewardsInv DEF AccountInv
  <2>3. UNCHANGED <<soulboundSince, soulboundBalances, lastClaimAt, now>>
    BY <2>1 DEF rewardsVars, rewardVars, tokenVars, rootVars
  <2>4. eligibleSince(Viewer)' = eligibleSince(Viewer) BY <2>3 DEF eligibleSince
  <2> QED BY <2>1, <2>2, <2>3, <2>4 DEF AccountInv, AccountTypeOK, RewardsInv
<1> QED BY <1>1, RewardsStepKeepsAccount, ReadKeepsAccount, ReturnKeepsAccount DEF AccountNext

\* What NoClaimBeforeShown says of one step.
ShownBeforeClaim == lastClaimAt'[Viewer] # lastClaimAt[Viewer] => eligible <= now

LEMMA NextShowsBeforeClaim ==
  AccountInv /\ [AccountNext]_accountVars => [ShownBeforeClaim]_accountVars
<1> SUFFICES ASSUME AccountInv, AccountNext, lastClaimAt'[Viewer] # lastClaimAt[Viewer]
             PROVE  eligible <= now
  BY DEF ShownBeforeClaim
<1> USE RewardsAssumption, ViewerAssumption DEF RewardsAssumption, ViewerAssumption
<1>1. RewardsNext
  BY DEF AccountNext, Read, Return, rewardsVars, rewardVars
<1>2. claimReward(Viewer) BY <1>1, RewardsStepFacts DEF AccountInv
<1>3. /\ now \in Nat /\ eligible \in Nat /\ lastClaimAt[Viewer] \in Nat
      /\ soulboundSince[Viewer] \in Nat
  BY DEF AccountInv, AccountTypeOK, RewardsInv, RewardsTypeOK, TokenInv, TypeOK
<1>4. eligibleSince(Viewer) \in Nat BY <1>3 DEF eligibleSince
<1>5. soulboundBalances[Viewer] # 0 /\ now >= eligibleSince(Viewer) + ClaimPeriod
  BY <1>2 DEF claimReward
<1> QED BY <1>3, <1>4, <1>5 DEF AccountInv

\* However torn the reads of the page are, no claim succeeds before the date it shows.
THEOREM PageIsNeverTooLate == AccountSpec => NoClaimBeforeShown
<1>1. AccountSpec => [][ShownBeforeClaim]_accountVars
  BY InitAccountInv, NextKeepsAccountInv, NextShowsBeforeClaim, PTL DEF AccountSpec
<1> QED BY <1>1 DEF NoClaimBeforeShown, ShownBeforeClaim
=============================================================================
