----------------------- MODULE MarketplaceV4SwapRouter -----------------------
(***************************************************************************)
(* contracts/evm/MarketplaceV4SwapRouter.sol: exact-input swaps in a pool  *)
(* of the native currency and one token, with a fee that the DAO sets.     *)
(*                                                                         *)
(* A swap is one transaction and so one action, from swapExactInputSingle  *)
(* through PoolManager.unlock to unlockCallback, _settle, _collectFee and  *)
(* take; one that reverts is not enabled.  The pool is external: for an    *)
(* input it takes all that it has the depth for and gives at its price.    *)
(* The token moves liquid balances only, which balance["token"] stands for.*)
(* The upgrade flags are those of UpgradeControl.                          *)
(***************************************************************************)
EXTENDS Integers

CONSTANTS
  Traders,       \* accounts that swap
  Recipients,    \* accounts that the fee may be sent to
  Payable,       \* those of them that accept the native currency
  Router,        \* the router's own account
  Manager,       \* the PoolManager's
  Pools,         \* the states of the pool: its depth and its price in tenths
  Amounts,       \* amounts of swaps, payments and approvals
  Values,        \* amounts of native currency sent along
  Minimums,      \* the minimums of callers without a client
  Fees,          \* the fees the DAO may propose
  Balances,      \* the balances the accounts start with
  MaxSwaps       \* bound on the number of swaps and payments

ASSUME RouterAssumption ==
  /\ Payable \subseteq Recipients
  /\ Router \notin Traders /\ Manager \notin Traders \cup Recipients /\ Router # Manager
  /\ Pools \subseteq [depth : Nat, price : Nat]
  /\ Values \subseteq Nat /\ Amounts \cup {0} \subseteq Values /\ Minimums \subseteq Nat /\ Fees \subseteq Nat
  /\ MaxSwaps \in Nat

Currencies == {"native", "token"}
Accounts == Traders \cup Recipients \cup {Router, Manager}

ASSUME BalancesAssumption == Balances \in [Currencies -> [Accounts -> Nat]]

VARIABLES
  balance,      \* balance[currency][account]
  allowance,    \* what the router may take of each trader's tokens
  pool,         \* the state of the pool
  feeBps,
  feeRecipient,
  moves         \* how many swaps and payments were made

routerVars == <<balance, allowance, pool, feeBps, feeRecipient, moves>>

NoRecipient == "none"

RouterTypeOK ==
  /\ balance \in [Currencies -> [Accounts -> Nat]]
  /\ allowance \in [Traders -> Nat]
  /\ pool \in Pools
  /\ feeBps \in 0 .. 1000
  /\ feeRecipient \in Recipients \cup {NoRecipient}
  /\ moves \in 0 .. MaxSwaps

(***************************************************************************)
(* A swap                                                                  *)
(***************************************************************************)

Pay(b, currency, from, to, amount) ==
  LET taken == [b EXCEPT ![currency][from] = @ - amount]
  IN  [taken EXCEPT ![currency][to] = @ + amount]

\* The native currency is currency0.
Input(zeroForOne) == IF zeroForOne THEN "native" ELSE "token"
Output(zeroForOne) == IF zeroForOne THEN "token" ELSE "native"

Fee(amountIn) == (amountIn * feeBps) \div 10000

\* What the pool takes of an input, up to the price limit, and gives for it.
Taken(amount) == IF amount <= pool.depth THEN amount ELSE pool.depth
Given(amount) == (Taken(amount) * pool.price) \div 10

\* A wrong variant for the runs: the fee is charged on top of what the pool is asked to take.
PoolAmountInOnTop(amountIn) == amountIn

PoolAmountIn(amountIn) == amountIn - Fee(amountIn)

\* A wrong variant for the runs: the value sent is not compared with the input.
AnyValueMatches(input, value, amountIn) == TRUE

ValueMatches(input, value, amountIn) == value = IF input = "native" THEN amountIn ELSE 0

\* The accounts once the value is received, the pool is paid, the fee is paid and the output is
\* taken.  Native input is paid by the router, tokens by the trader.
Received(input, trader, value) == Pay(balance, "native", trader, Router, value)

Settled(input, trader, value, amountIn) ==
  LET payer == IF input = "native" THEN Router ELSE trader
      paid == Pay(Received(input, trader, value), input, payer, Manager, Taken(PoolAmountIn(amountIn)))
  IN  IF Fee(amountIn) = 0 THEN paid ELSE Pay(paid, input, payer, feeRecipient, Fee(amountIn))

\* What transferFrom asks for, for the pool's part and the fee together.
Covered(trader, cost) == cost <= balance["token"][trader] /\ cost <= allowance[trader]

swapExactInputSingle(trader, zeroForOne, amountIn, amountOutMinimum, value) ==
  LET input == Input(zeroForOne)
      output == Output(zeroForOne)
      taken == Taken(PoolAmountIn(amountIn))
      given == Given(PoolAmountIn(amountIn))
      cost == taken + Fee(amountIn)
  IN  /\ moves < MaxSwaps
      /\ amountIn > 0
      /\ value <= balance["native"][trader]
      /\ ValueMatches(input, value, amountIn)
      /\ taken > 0 /\ given > 0
      /\ given >= amountOutMinimum
      /\ IF input = "native"
         THEN /\ cost <= balance["native"][Router] + value
              /\ Fee(amountIn) > 0 => feeRecipient \in Payable
              /\ allowance' = allowance
         ELSE /\ Covered(trader, cost)
              /\ allowance' = [allowance EXCEPT ![trader] = @ - cost]
      /\ given <= balance[output][Manager]
      /\ balance' = Pay(Settled(input, trader, value, amountIn), output, Manager, trader, given)
      /\ pool' \in Pools
      /\ moves' = moves + 1
      /\ UNCHANGED <<feeBps, feeRecipient>>

(***************************************************************************)
(* What happens around it                                                  *)
(***************************************************************************)

\* onlyGovernance
setFee(feeBps_, feeRecipient_) ==
  /\ feeBps_ <= 1000
  /\ feeBps' = feeBps_
  /\ feeRecipient' = feeRecipient_
  /\ UNCHANGED <<balance, allowance, pool, moves>>

\* Anybody may send the router native currency.
receive(trader, amount) ==
  /\ moves < MaxSwaps
  /\ moves' = moves + 1
  /\ amount <= balance["native"][trader]
  /\ balance' = Pay(balance, "native", trader, Router, amount)
  /\ UNCHANGED <<allowance, pool, feeBps, feeRecipient>>

\* The token's approve, for the router.
approve(trader, amount) ==
  /\ allowance' = [allowance EXCEPT ![trader] = amount]
  /\ UNCHANGED <<balance, pool, feeBps, feeRecipient, moves>>

\* The swaps and the liquidity of others.
MovePool ==
  /\ pool' \in Pools
  /\ UNCHANGED <<balance, allowance, feeBps, feeRecipient, moves>>

RouterInit ==
  /\ balance = Balances
  /\ allowance = [t \in Traders |-> 0]
  /\ pool \in Pools
  /\ feeBps = 0
  /\ feeRecipient = NoRecipient
  /\ moves = 0

\* What does not depend on the client.
MarketStep ==
  \/ MovePool
  \/ \E fee \in Fees, r \in Recipients : setFee(fee, r)
  \/ \E t \in Traders, a \in Amounts : receive(t, a)

\* A swap of a caller without a client, whose value and minimum may be anything.
DirectSwap(t) ==
  \E z \in BOOLEAN, a \in Amounts, v \in Values, m \in Minimums :
    swapExactInputSingle(t, z, a, m, v)

CallerStep(t) == DirectSwap(t) \/ \E a \in Amounts \cup {0} : approve(t, a)

RouterNext == MarketStep \/ \E t \in Traders : CallerStep(t)

RouterSpec == RouterInit /\ [][RouterNext]_routerVars

(***************************************************************************)
(* Properties                                                              *)
(***************************************************************************)

\* What was sent to the router or left there by an earlier swap never pays for a later one:
\* address(this).balance in _settle covers more than the trader's own value, and only the
\* equality of value and input keeps a swap from using the difference.  What a swap itself
\* leaves is the native input that the pool did not take, to the unit, and no token; it keeps
\* its fee too if it is the recipient.
StrandedUntouched ==
  [][/\ \A c \in Currencies : balance'[c][Router] >= balance[c][Router]
     /\ \A t \in Traders, z \in BOOLEAN, a \in Amounts, m \in Minimums, v \in Values :
          swapExactInputSingle(t, z, a, m, v) =>
            LET untaken == IF z THEN (a - Fee(a)) - Taken(a - Fee(a)) ELSE 0
                kept == IF feeRecipient = Router THEN Fee(a) ELSE 0
            IN  /\ balance'[Input(z)][Router] = balance[Input(z)][Router] + untaken + kept
                /\ balance'[Output(z)][Router] = balance[Output(z)][Router]]_routerVars

\* Whoever swaps pays no more than the input asked for, the fee included, whatever the fee and the
\* pool are when the swap is mined; tokens of others are never spent.
CostWithinInput ==
  [][\A t \in Traders, z \in BOOLEAN, a \in Amounts, m \in Minimums, v \in Values :
       swapExactInputSingle(t, z, a, m, v) =>
         /\ balance'[Input(z)][t] >= balance[Input(z)][t] - a
         /\ balance'[Output(z)][t] >= balance[Output(z)][t] + m
         /\ \A u \in Traders \ {t}, c \in Currencies : balance'[c][u] >= balance[c][u]]_routerVars

\* test/MarketplaceV4SwapRouter.ts:279: nothing is left in the router after a swap.
SwapsPassThrough ==
  [][(\E t \in Traders, z \in BOOLEAN, a \in Amounts, m \in Minimums,
        v \in Values : swapExactInputSingle(t, z, a, m, v)) =>
       \A c \in Currencies : balance'[c][Router] = balance[c][Router]]_routerVars
=============================================================================
