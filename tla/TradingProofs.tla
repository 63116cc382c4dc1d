---------------------------- MODULE TradingProofs ----------------------------
(***************************************************************************)
(* Proofs about src/client/trading.ts for every instance: its swaps, with  *)
(* the router that makes them, for all accounts, pools, fees, amounts and  *)
(* tabs, and its lists of pools, for every page size, chain and set of     *)
(* events.                                                                 *)
(***************************************************************************)
EXTENDS MarketplaceSwapClient, EventPages, FiniteSetTheorems, TLAPS

(***************************************************************************)
(* Arithmetic and payments                                                 *)
(***************************************************************************)

Ledgers == [Currencies -> [Accounts -> Nat]]

\* Type correctness and what setFee leaves behind: whoever charges a fee has somewhere to send it.
RouterInv ==
  /\ RouterTypeOK
  /\ feeBps > 0 => feeRecipient \in Recipients

\* A fee of at most a tenth fits in the input.
LEMMA FeeFits ==
  ASSUME NEW a \in Nat, NEW bps \in 0 .. 1000
  PROVE  (a * bps) \div 10000 \in Nat /\ (a * bps) \div 10000 <= a
<1>1. a * bps \in Nat /\ a * bps <= a * 1000
  BY SMT
<1>2. \A p \in Nat : p <= a * 1000 => p \div 10000 \in Nat /\ p \div 10000 <= a
  BY SMT
<1> QED BY <1>1, <1>2

\* The pool takes at most what it is offered and both amounts are natural.
LEMMA PoolFacts ==
  ASSUME RouterTypeOK, NEW a \in Nat
  PROVE  Taken(a) \in Nat /\ Taken(a) <= a /\ Given(a) \in Nat
<1>1. pool.depth \in Nat /\ pool.price \in Nat
  BY RouterAssumption DEF RouterTypeOK
<1>2. Taken(a) \in Nat /\ Taken(a) <= a
  BY <1>1 DEF Taken
<1>3. Taken(a) * pool.price \in Nat
  BY <1>1, <1>2
<1>4. \A p \in Nat : p \div 10 \in Nat
  BY SMT
<1> QED BY <1>2, <1>3, <1>4 DEF Given

\* A payment moves its amount and nothing else.
LEMMA PayFacts ==
  ASSUME NEW b \in Ledgers, NEW currency \in Currencies, NEW from \in Accounts, NEW to \in Accounts,
         NEW amount \in Nat, amount <= b[currency][from]
  PROVE  /\ Pay(b, currency, from, to, amount) \in Ledgers
         /\ \A c \in Currencies \ {currency} : Pay(b, currency, from, to, amount)[c] = b[c]
         /\ \A x \in Accounts :
              Pay(b, currency, from, to, amount)[currency][x]
                = b[currency][x] - (IF x = from THEN amount ELSE 0) + (IF x = to THEN amount ELSE 0)
<1> DEFINE taken == [b EXCEPT ![currency][from] = @ - amount]
           paid == [taken EXCEPT ![currency][to] = @ + amount]
<1>1. taken = [b EXCEPT ![currency] = [b[currency] EXCEPT ![from] = b[currency][from] - amount]]
  BY DEF Ledgers
<1>2. b[currency][from] - amount \in Nat
  BY DEF Ledgers
<1>3. taken \in Ledgers
  BY <1>1, <1>2 DEF Ledgers
<1>4. /\ \A c \in Currencies \ {currency} : taken[c] = b[c]
      /\ \A x \in Accounts :
           taken[currency][x] = b[currency][x] - (IF x = from THEN amount ELSE 0)
  BY <1>1 DEF Ledgers
<1> HIDE DEF taken
<1>5. paid = [taken EXCEPT ![currency] = [taken[currency] EXCEPT ![to] = taken[currency][to] + amount]]
  BY <1>3 DEF Ledgers
<1>6. paid \in Ledgers
  BY <1>3, <1>5 DEF Ledgers
<1>7. /\ \A c \in Currencies \ {currency} : paid[c] = taken[c]
      /\ \A x \in Accounts :
           paid[currency][x] = taken[currency][x] + (IF x = to THEN amount ELSE 0)
  BY <1>3, <1>5 DEF Ledgers
<1>8. Pay(b, currency, from, to, amount) = paid
  BY DEF Pay, taken
<1> HIDE DEF paid
<1>9. \A x \in Accounts :
        paid[currency][x]
          = b[currency][x] - (IF x = from THEN amount ELSE 0) + (IF x = to THEN amount ELSE 0)
  BY <1>4, <1>7
<1> QED BY <1>4, <1>6, <1>7, <1>8, <1>9

(***************************************************************************)
(* Swaps                                                                   *)
(***************************************************************************)

LEMMA AccountFacts ==
  /\ Traders \subseteq Accounts /\ Recipients \subseteq Accounts
  /\ Router \in Accounts /\ Manager \in Accounts
  /\ \A t \in Traders : t # Router /\ t # Manager
  /\ \A r \in Recipients : r # Manager
  /\ Router # Manager
  /\ "native" \in Currencies /\ "token" \in Currencies /\ "native" # "token"
BY RouterAssumption DEF Accounts, Currencies

\* Who pays for an input once the value is received.
Payer(z, trader) == IF z THEN Router ELSE trader

\* The payments of a swap, one after the other, all of them covered.
Payments(trader, z, a, m, v, taken, fee, given, r, b1, b2, b3) ==
  /\ taken + fee <= a /\ given >= m
  /\ fee = Fee(a) /\ taken = Taken(a - fee)
  /\ r # Manager
  /\ (fee > 0 => r = feeRecipient)
  /\ (fee > 0 => r \in Recipients) /\ (fee = 0 => r = trader)
  /\ (z => v = a) /\ (~z => v = 0)
  /\ v <= balance["native"][trader]
  /\ b1 = Pay(balance, "native", trader, Router, v)
  /\ taken <= b1[Input(z)][Payer(z, trader)]
  /\ b2 = Pay(b1, Input(z), Payer(z, trader), Manager, taken)
  /\ fee <= b2[Input(z)][Payer(z, trader)]
  /\ b3 = IF fee = 0 THEN b2 ELSE Pay(b2, Input(z), Payer(z, trader), r, fee)
  /\ given <= b3[Output(z)][Manager]
  /\ balance' = Pay(b3, Output(z), Manager, trader, given)
  /\ ~z => taken + fee <= allowance[trader]
  /\ allowance' = IF z THEN allowance ELSE [allowance EXCEPT ![trader] = @ - (taken + fee)]

LEMMA SwapPayments ==
  ASSUME RouterInv, NEW trader \in Traders, NEW z \in BOOLEAN, NEW a \in Nat, NEW m \in Nat,
         NEW v \in Nat, swapExactInputSingle(trader, z, a, m, v)
  PROVE  \E taken, fee, given \in Nat, r \in Accounts, b1, b2, b3 \in Ledgers :
           Payments(trader, z, a, m, v, taken, fee, given, r, b1, b2, b3)
<1> DEFINE taken == Taken(PoolAmountIn(a))
           fee == Fee(a)
           given == Given(PoolAmountIn(a))
           p == Payer(z, trader)
           in == Input(z)
           out == Output(z)
           r == IF fee = 0 THEN trader ELSE feeRecipient
           b1 == Pay(balance, "native", trader, Router, v)
           b2 == Pay(b1, in, p, Manager, taken)
           b3 == IF fee = 0 THEN b2 ELSE Pay(b2, in, p, r, fee)
<1>1. fee \in Nat /\ fee <= a
  <2>1. feeBps \in 0 .. 1000
    BY DEF RouterInv, RouterTypeOK
  <2> QED BY <2>1, FeeFits DEF Fee
<1>2. PoolAmountIn(a) \in Nat /\ PoolAmountIn(a) = a - fee
  BY <1>1 DEF PoolAmountIn
<1>3. taken \in Nat /\ given \in Nat /\ taken + fee <= a
  <2>1. taken \in Nat /\ given \in Nat /\ taken <= PoolAmountIn(a)
    BY <1>2, PoolFacts DEF RouterInv
  <2> HIDE DEF taken, given, fee
  <2> QED BY <1>1, <1>2, <2>1
<1>4. in \in Currencies /\ out \in Currencies /\ in # out /\ (in = "native" <=> z) /\ (out = "token" <=> z)
  BY DEF Input, Output, Currencies
<1>5. fee > 0 => feeRecipient \in Recipients
  <2>1. fee = (a * feeBps) \div 10000
    BY DEF Fee
  <2>2. CASE feeBps = 0
    <3>1. a * feeBps = 0
      BY <2>2
    <3>2. 0 \div 10000 = 0
      BY SMT
    <3> QED BY <2>1, <3>1, <3>2
  <2>3. CASE feeBps # 0
    BY <2>3 DEF RouterInv, RouterTypeOK
  <2> QED BY <2>2, <2>3
<1>6. /\ r \in Accounts /\ r # Manager /\ (fee > 0 => r \in Recipients) /\ (fee = 0 => r = trader)
      /\ (fee > 0 => r = feeRecipient)
  <2> HIDE DEF fee
  <2> QED BY <1>1, <1>5, AccountFacts
<1>7. p \in Accounts /\ p # Manager
  BY AccountFacts DEF Payer
<1>8. /\ v <= balance["native"][trader]
      /\ v = IF in = "native" THEN a ELSE 0
      /\ given >= m
      /\ IF in = "native"
         THEN taken + fee <= balance["native"][Router] + v /\ allowance' = allowance
         ELSE /\ taken + fee <= balance["token"][trader]
              /\ taken + fee <= allowance[trader]
              /\ allowance' = [allowance EXCEPT ![trader] = @ - (taken + fee)]
      /\ given <= balance[out][Manager]
      /\ balance' = Pay(b3, out, Manager, trader, given)
  <2>1. balance' = Pay(Settled(in, trader, v, a), out, Manager, trader, given)
    BY DEF swapExactInputSingle
  <2>2. Settled(in, trader, v, a) = b3
    BY <1>4 DEF Settled, Received, Payer
  <2> QED BY <2>1, <2>2 DEF swapExactInputSingle, ValueMatches, Covered
<1>22. fee = Fee(a) /\ taken = Taken(a - fee)
  BY <1>2
<1> HIDE DEF taken, fee, given, in, out, p, r
<1>9. balance \in Ledgers
  BY DEF RouterInv, RouterTypeOK, Ledgers
<1>10. /\ b1 \in Ledgers
       /\ \A c \in Currencies \ {"native"} : b1[c] = balance[c]
       /\ \A x \in Accounts :
            b1["native"][x] = balance["native"][x] - (IF x = trader THEN v ELSE 0)
                                                   + (IF x = Router THEN v ELSE 0)
  BY <1>8, <1>9, AccountFacts, PayFacts
<1>11. taken + fee <= b1[in][p]
  <2>1. CASE z
    <3>1. in = "native" /\ p = Router
      BY <1>4, <2>1 DEF p, Payer
    <3>2. balance["native"][Router] \in Nat
      BY <1>9, AccountFacts DEF Ledgers
    <3>3. b1["native"][Router] = balance["native"][Router] + v
      BY <1>10, <3>2, AccountFacts
    <3>4. taken + fee <= balance["native"][Router] + v
      BY <1>8, <3>1
    <3> QED BY <3>1, <3>3, <3>4
  <2>2. CASE ~z
    <3>1. in = "token" /\ p = trader
      BY <1>4, <2>2 DEF p, Payer, Currencies
    <3>2. b1["token"] = balance["token"]
      BY <1>10, AccountFacts
    <3> QED BY <1>8, <3>1, <3>2, AccountFacts
  <2> QED BY <2>1, <2>2
<1>12. b1[in][p] \in Nat
  BY <1>4, <1>7, <1>10 DEF Ledgers
<1>13. taken <= b1[in][p]
  BY <1>1, <1>3, <1>11, <1>12
<1> HIDE DEF b1
<1>14. /\ b2 \in Ledgers
       /\ \A c \in Currencies \ {in} : b2[c] = b1[c]
       /\ \A x \in Accounts :
            b2[in][x] = b1[in][x] - (IF x = p THEN taken ELSE 0) + (IF x = Manager THEN taken ELSE 0)
  BY <1>3, <1>4, <1>7, <1>10, <1>13, AccountFacts, PayFacts
<1>15. fee <= b2[in][p]
  BY <1>1, <1>3, <1>7, <1>11, <1>12, <1>14
<1> HIDE DEF b2
<1>16. b3 \in Ledgers /\ \A c \in Currencies \ {in} : b3[c] = b2[c]
  <2>1. CASE fee = 0
    BY <1>14, <2>1
  <2>2. CASE fee # 0
    BY <1>1, <1>4, <1>6, <1>7, <1>14, <1>15, <2>2, PayFacts
  <2> QED BY <2>1, <2>2
<1> HIDE DEF b3
<1>17. given <= b3[out][Manager]
  <2>1. b3[out] = b1[out]
    BY <1>4, <1>14, <1>16
  <2>2. b1[out][Manager] = balance[out][Manager]
    <3>1. CASE out = "native"
      BY <1>9, <1>10, <3>1, AccountFacts DEF Ledgers
    <3>2. CASE out # "native"
      BY <1>4, <1>10, <3>2
    <3> QED BY <3>1, <3>2
  <2> QED BY <1>8, <2>1, <2>2
<1>18. (z => v = a) /\ (~z => v = 0)
  BY <1>4, <1>8
<1>19. /\ ~z => taken + fee <= allowance[trader]
       /\ allowance' = IF z THEN allowance ELSE [allowance EXCEPT ![trader] = @ - (taken + fee)]
  BY <1>4, <1>8
<1>20. /\ b1 = Pay(balance, "native", trader, Router, v)
       /\ b2 = Pay(b1, Input(z), Payer(z, trader), Manager, taken)
       /\ b3 = IF fee = 0 THEN b2 ELSE Pay(b2, Input(z), Payer(z, trader), r, fee)
       /\ in = Input(z) /\ out = Output(z) /\ p = Payer(z, trader)
  BY DEF b1, b2, b3, in, out, p
<1>21. Payments(trader, z, a, m, v, taken, fee, given, r, b1, b2, b3)
  BY <1>3, <1>6, <1>8, <1>13, <1>15, <1>17, <1>18, <1>19, <1>20, <1>22 DEF Payments
<1> QED BY <1>1, <1>3, <1>6, <1>10, <1>14, <1>16, <1>21

\* What a swap leaves in the router: the native input that the pool does not take, and the fee if
\* the router is its recipient.
Untaken(z, a) == IF z THEN (a - Fee(a)) - Taken(a - Fee(a)) ELSE 0
OwnFee(a) == IF feeRecipient = Router THEN Fee(a) ELSE 0

\* What a swap does to each account: the amounts that the properties are about.
SwapEffect(trader, z, a, m) ==
  /\ balance' \in Ledgers
  /\ Untaken(z, a) \in Nat /\ OwnFee(a) \in Nat
  /\ balance'[Input(z)][Router] = balance[Input(z)][Router] + Untaken(z, a) + OwnFee(a)
  /\ balance'[Output(z)][Router] = balance[Output(z)][Router]
  /\ balance'[Input(z)][trader] >= balance[Input(z)][trader] - a
  /\ balance'[Output(z)][trader] >= balance[Output(z)][trader] + m
  /\ \A u \in Traders \ {trader}, c \in Currencies : balance'[c][u] >= balance[c][u]
  /\ \A u \in Traders \ ({trader} \cup Recipients), c \in Currencies : balance'[c][u] = balance[c][u]
  /\ allowance' \in [Traders -> Nat]

LEMMA SwapMoves ==
  ASSUME RouterInv, NEW trader \in Traders, NEW z \in BOOLEAN, NEW a \in Nat, NEW m \in Nat,
         NEW v \in Nat, swapExactInputSingle(trader, z, a, m, v)
  PROVE  SwapEffect(trader, z, a, m)
<1> DEFINE in == Input(z)
           out == Output(z)
           p == Payer(z, trader)
<1>1. PICK taken, fee, given \in Nat, r \in Accounts, b1, b2, b3 \in Ledgers :
        Payments(trader, z, a, m, v, taken, fee, given, r, b1, b2, b3)
  BY SwapPayments
<1>2. /\ Currencies = {in, out} /\ in # out
      /\ z => in = "native" /\ p = Router
      /\ ~z => in = "token" /\ out = "native" /\ p = trader
  BY DEF Input, Output, Currencies, Payer
<1>3. balance \in Ledgers /\ allowance \in [Traders -> Nat]
  BY DEF RouterInv, RouterTypeOK, Ledgers
<1>4. /\ taken + fee <= a /\ given >= m /\ r # Manager
      /\ fee = Fee(a) /\ taken = Taken(a - fee) /\ (fee > 0 => r = feeRecipient)
      /\ (fee > 0 => r \in Recipients) /\ (fee = 0 => r = trader)
      /\ (z => v = a) /\ (~z => v = 0)
      /\ v <= balance["native"][trader]
      /\ taken <= b1[in][p] /\ fee <= b2[in][p] /\ given <= b3[out][Manager]
  BY <1>1 DEF Payments
<1>5. b1 = Pay(balance, "native", trader, Router, v)
  BY <1>1 DEF Payments
<1>6. b2 = Pay(b1, in, p, Manager, taken)
  BY <1>1 DEF Payments
<1>7. b3 = IF fee = 0 THEN b2 ELSE Pay(b2, in, p, r, fee)
  BY <1>1 DEF Payments
<1>8. balance' = Pay(b3, out, Manager, trader, given)
  BY <1>1 DEF Payments
<1>9. p \in Accounts /\ p # Manager /\ in \in Currencies /\ out \in Currencies /\ trader \in Accounts
  BY <1>2, AccountFacts DEF Payer
<1> HIDE DEF in, out, p
<1>10. \A x \in Accounts :
         /\ z => b1[in][x] = balance[in][x] - (IF x = trader THEN a ELSE 0)
                                            + (IF x = Router THEN a ELSE 0)
         /\ ~z => b1[in][x] = balance[in][x]
         /\ b1[out][x] = balance[out][x]
  <2>1. /\ \A c \in Currencies \ {"native"} : b1[c] = balance[c]
        /\ \A x \in Accounts :
             b1["native"][x] = balance["native"][x] - (IF x = trader THEN v ELSE 0)
                                                    + (IF x = Router THEN v ELSE 0)
    <3>1. /\ balance \in Ledgers /\ "native" \in Currencies /\ Router \in Accounts
          /\ trader \in Accounts /\ v \in Nat /\ v <= balance["native"][trader]
      BY <1>3, <1>4, <1>9, AccountFacts
    <3> QED BY <1>5, <3>1, PayFacts
  <2>2. CASE z
    BY <1>2, <1>4, <1>9, <2>1, <2>2
  <2>3. CASE ~z
    <3>1. b1[in] = balance[in]
      BY <1>2, <1>9, <2>1, <2>3
    <3>2. ASSUME NEW x \in Accounts PROVE b1[out][x] = balance[out][x]
      <4>1. balance["native"][x] \in Nat
        BY <1>3, AccountFacts DEF Ledgers
      <4>2. b1["native"][x] = balance["native"][x]
        BY <1>4, <2>1, <2>3, <4>1
      <4> QED BY <1>2, <2>3, <4>2
    <3> QED BY <2>3, <3>1, <3>2
  <2> QED BY <2>2, <2>3
<1>11. \A x \in Accounts :
         /\ b2[in][x] = b1[in][x] - (IF x = p THEN taken ELSE 0) + (IF x = Manager THEN taken ELSE 0)
         /\ b2[out][x] = b1[out][x]
  <2>1. /\ b1 \in Ledgers /\ in \in Currencies /\ p \in Accounts /\ Manager \in Accounts
        /\ taken \in Nat /\ taken <= b1[in][p] /\ out \in Currencies \ {in}
    BY <1>2, <1>4, <1>9, AccountFacts
  <2>2. /\ \A c \in Currencies \ {in} : b2[c] = b1[c]
        /\ \A x \in Accounts :
             b2[in][x] = b1[in][x] - (IF x = p THEN taken ELSE 0)
                                   + (IF x = Manager THEN taken ELSE 0)
    BY <1>6, <2>1, PayFacts
  <2> QED BY <2>1, <2>2
<1>12. \A x \in Accounts :
         /\ b3[in][x] = b2[in][x] - (IF x = p THEN fee ELSE 0)
                                  + (IF x = r /\ fee > 0 THEN fee ELSE 0)
         /\ b3[out][x] = b2[out][x]
  <2>1. CASE fee = 0
    <3>1. \A x \in Accounts : b2[in][x] \in Nat
      BY <1>9 DEF Ledgers
    <3> QED BY <1>7, <2>1, <3>1
  <2>2. CASE fee # 0
    <3>1. b3 = Pay(b2, in, p, r, fee) /\ fee > 0
      BY <1>7, <2>2
    <3> QED BY <1>2, <1>4, <1>9, <3>1, PayFacts
  <2> QED BY <2>1, <2>2
<1>13. /\ balance' \in Ledgers
       /\ \A x \in Accounts :
            /\ balance'[in][x] = b3[in][x]
            /\ balance'[out][x] = b3[out][x] - (IF x = Manager THEN given ELSE 0)
                                             + (IF x = trader THEN given ELSE 0)
  <2>1. /\ b3 \in Ledgers /\ out \in Currencies /\ Manager \in Accounts /\ trader \in Accounts
        /\ given \in Nat /\ given <= b3[out][Manager] /\ in \in Currencies \ {out}
    BY <1>2, <1>4, <1>9, AccountFacts
  <2>2. /\ balance' \in Ledgers
        /\ \A c \in Currencies \ {out} : balance'[c] = b3[c]
        /\ \A x \in Accounts :
             balance'[out][x] = b3[out][x] - (IF x = Manager THEN given ELSE 0)
                                           + (IF x = trader THEN given ELSE 0)
    BY <1>8, <2>1, PayFacts
  <2> QED BY <2>1, <2>2
<1>14. \A x \in Accounts : balance[in][x] \in Nat /\ balance[out][x] \in Nat
  BY <1>3, <1>9 DEF Ledgers
<1>15. \A x \in Accounts : x # Manager /\ x # trader => balance'[out][x] = balance[out][x]
  BY <1>10, <1>11, <1>12, <1>13, <1>14
<1>16. \A x \in Accounts : x \notin {Manager, trader, Router} =>
         balance'[in][x] = balance[in][x] + (IF x = r /\ fee > 0 THEN fee ELSE 0)
  <2>1. SUFFICES ASSUME NEW x \in Accounts, x \notin {Manager, trader, Router}
                 PROVE  balance'[in][x] = balance[in][x] + (IF x = r /\ fee > 0 THEN fee ELSE 0)
    OBVIOUS
  <2>2. x # p
    BY <1>2, <2>1
  <2>3. b1[in][x] = balance[in][x]
    BY <1>10, <1>14, <2>1
  <2> QED BY <1>11, <1>12, <1>13, <1>14, <2>1, <2>2, <2>3
<1>17. balance'[in][trader] >= balance[in][trader] - a
  <2>1. CASE z
    <3>1. p # trader /\ trader # Router /\ trader # Manager
      BY <1>2, <2>1, AccountFacts
    <3>2. b1[in][trader] = balance[in][trader] - a
      BY <1>9, <1>10, <1>14, <2>1, <3>1
    <3> QED BY <1>9, <1>11, <1>12, <1>13, <1>14, <3>1, <3>2
  <2>2. CASE ~z
    <3>1. p = trader /\ trader # Manager
      BY <1>2, <2>2, AccountFacts
    <3>2. b1[in][trader] = balance[in][trader]
      BY <1>9, <1>10, <2>2
    <3> QED BY <1>4, <1>9, <1>11, <1>12, <1>13, <1>14, <3>1, <3>2
  <2> QED BY <2>1, <2>2
<1>18. balance'[out][trader] >= balance[out][trader] + m
  <2>1. trader # Manager
    BY AccountFacts
  <2> QED BY <1>4, <1>9, <1>10, <1>11, <1>12, <1>13, <1>14, <2>1
<1>24. /\ Untaken(z, a) = IF z THEN a - taken - fee ELSE 0
       /\ OwnFee(a) = IF Router = r /\ fee > 0 THEN fee ELSE 0
       /\ Untaken(z, a) \in Nat /\ OwnFee(a) \in Nat
  <2>1. Untaken(z, a) = IF z THEN (a - fee) - taken ELSE 0
    BY <1>4 DEF Untaken
  <2>2. OwnFee(a) = IF feeRecipient = Router THEN fee ELSE 0
    BY <1>4 DEF OwnFee
  <2> QED BY <1>4, <2>1, <2>2
<1>19. balance'[in][Router] = balance[in][Router] + Untaken(z, a) + OwnFee(a)
  <2>1. Router \in Accounts /\ Router # Manager /\ Router # trader
    BY AccountFacts
  <2>2. CASE z
    <3>1. p = Router
      BY <1>2, <2>2
    <3>2. b1[in][Router] = balance[in][Router] + a
      BY <1>10, <1>14, <2>1, <2>2
    <3>3. balance'[in][Router]
            = balance[in][Router] + a - taken - fee + (IF Router = r /\ fee > 0 THEN fee ELSE 0)
      BY <1>11, <1>12, <1>13, <1>14, <2>1, <3>1, <3>2
    <3> QED BY <1>14, <1>24, <2>1, <2>2, <3>3
  <2>3. CASE ~z
    <3>1. p # Router
      BY <1>2, <2>1, <2>3
    <3>2. b1[in][Router] = balance[in][Router]
      BY <1>10, <2>1, <2>3
    <3>3. balance'[in][Router]
            = balance[in][Router] + (IF Router = r /\ fee > 0 THEN fee ELSE 0)
      BY <1>11, <1>12, <1>13, <1>14, <2>1, <3>1, <3>2
    <3> QED BY <1>14, <1>24, <2>1, <2>3, <3>3
  <2> QED BY <2>2, <2>3
<1>20. balance'[out][Router] = balance[out][Router]
  <2>1. Router \in Accounts /\ Router # Manager /\ Router # trader
    BY AccountFacts
  <2> QED BY <1>14, <1>15, <2>1
<1>21. ASSUME NEW u \in Traders \ {trader}
       PROVE  /\ balance'[in][u] >= balance[in][u] /\ balance'[out][u] = balance[out][u]
              /\ u \notin Recipients => balance'[in][u] = balance[in][u]
  <2>1. u \in Accounts /\ u \notin {Manager, trader, Router}
    BY AccountFacts
  <2>2. balance'[in][u] = balance[in][u] + (IF u = r /\ fee > 0 THEN fee ELSE 0)
    BY <1>16, <2>1
  <2> QED BY <1>4, <1>14, <1>15, <2>1, <2>2
<1>22. allowance' \in [Traders -> Nat]
  <2>1. /\ ~z => taken + fee <= allowance[trader]
        /\ allowance' = IF z THEN allowance ELSE [allowance EXCEPT ![trader] = @ - (taken + fee)]
    BY <1>1 DEF Payments
  <2>2. ~z => allowance[trader] - (taken + fee) \in Nat
    BY <1>3, <2>1
  <2> QED BY <1>3, <2>1, <2>2
<1>23. \A u \in Traders \ {trader}, c \in Currencies : balance'[c][u] >= balance[c][u]
  <2>1. SUFFICES ASSUME NEW u \in Traders \ {trader}, NEW c \in Currencies
                 PROVE  balance'[c][u] >= balance[c][u]
    OBVIOUS
  <2>2. u \in Accounts
    BY AccountFacts
  <2> QED BY <1>2, <1>14, <1>21, <2>2
<1> QED BY <1>2, <1>13, <1>17, <1>18, <1>19, <1>20, <1>21, <1>22, <1>23, <1>24
        DEF SwapEffect, in, out

(***************************************************************************)
(* Every step of the router                                                *)
(***************************************************************************)

Swapped == \E t \in Traders, z \in BOOLEAN, a, m, v \in Nat : swapExactInputSingle(t, z, a, m, v)

Approved == \E t \in Traders, a \in Nat : approve(t, a)

RouterMove == MarketStep \/ Swapped \/ Approved \/ UNCHANGED routerVars

LEMMA AmountFacts ==
  Amounts \subseteq Nat /\ 0 \in Nat /\ Values \subseteq Nat /\ Minimums \subseteq Nat /\ Fees \subseteq Nat
BY RouterAssumption

LEMMA RouterStarts == RouterInit => RouterInv
<1> SUFFICES ASSUME RouterInit PROVE RouterInv
  OBVIOUS
<1>1. allowance \in [Traders -> Nat] /\ balance \in [Currencies -> [Accounts -> Nat]]
  BY BalancesAssumption DEF RouterInit
<1>2. feeBps = 0 /\ feeRecipient = NoRecipient /\ moves = 0 /\ pool \in Pools
  BY DEF RouterInit
<1> QED BY <1>1, <1>2, RouterAssumption DEF RouterInv, RouterTypeOK

\* The types are kept, and the router never loses anything.
LEMMA RouterMoves ==
  ASSUME RouterInv, RouterMove
  PROVE  RouterInv' /\ \A c \in Currencies : balance'[c][Router] >= balance[c][Router]
<1>1. balance \in Ledgers /\ \A c \in Currencies : balance[c][Router] \in Nat
  BY AccountFacts DEF RouterInv, RouterTypeOK, Ledgers
<1>2. ASSUME balance' = balance PROVE \A c \in Currencies : balance'[c][Router] >= balance[c][Router]
  BY <1>1, <1>2
<1>3. CASE UNCHANGED routerVars
  BY <1>2, <1>3 DEF routerVars, RouterInv, RouterTypeOK
<1>4. CASE MovePool
  BY <1>2, <1>4 DEF MovePool, RouterInv, RouterTypeOK
<1>5. CASE \E fee \in Fees, r \in Recipients : setFee(fee, r)
  <2>1. PICK fee \in Fees, r \in Recipients : setFee(fee, r)
    BY <1>5
  <2>2. fee \in 0 .. 1000
    BY <2>1, AmountFacts DEF setFee
  <2> QED BY <1>2, <2>1, <2>2 DEF setFee, RouterInv, RouterTypeOK
<1>6. CASE \E t \in Traders, a \in Amounts : receive(t, a)
  <2>1. PICK t \in Traders, a \in Amounts : receive(t, a)
    BY <1>6
  <2>2. /\ balance' = Pay(balance, "native", t, Router, a) /\ a <= balance["native"][t]
        /\ moves' \in 0 .. MaxSwaps
        /\ UNCHANGED <<allowance, pool, feeBps, feeRecipient>>
    BY <2>1, RouterAssumption DEF receive, RouterInv, RouterTypeOK
  <2>3. /\ balance' \in Ledgers
        /\ \A c \in Currencies \ {"native"} : balance'[c] = balance[c]
        /\ \A x \in Accounts :
             balance'["native"][x] = balance["native"][x] - (IF x = t THEN a ELSE 0)
                                                          + (IF x = Router THEN a ELSE 0)
    BY <1>1, <2>2, AccountFacts, AmountFacts, PayFacts
  <2>4. balance'["native"][Router] = balance["native"][Router] + a
    BY <1>1, <2>3, AccountFacts
  <2>5. \A c \in Currencies : balance'[c][Router] >= balance[c][Router]
    <3>1. ASSUME NEW c \in Currencies PROVE balance'[c][Router] >= balance[c][Router]
      <4>1. CASE c = "native"
        BY <1>1, <2>4, <4>1, AmountFacts
      <4>2. CASE c # "native"
        BY <1>1, <2>3, <4>2
      <4> QED BY <4>1, <4>2
    <3> QED BY <3>1
  <2>6. RouterInv'
    BY <2>2, <2>3 DEF RouterInv, RouterTypeOK, Ledgers
  <2> QED BY <2>5, <2>6
<1>7. CASE Approved
  <2>1. PICK t \in Traders, a \in Nat : approve(t, a)
    BY <1>7 DEF Approved
  <2>2. allowance' \in [Traders -> Nat]
    BY <2>1 DEF approve, RouterInv, RouterTypeOK
  <2> QED BY <1>2, <2>1, <2>2 DEF approve, RouterInv, RouterTypeOK
<1>8. CASE Swapped
  <2>1. PICK t \in Traders, z \in BOOLEAN, a, m, v \in Nat : swapExactInputSingle(t, z, a, m, v)
    BY <1>8 DEF Swapped
  <2>2. SwapEffect(t, z, a, m)
    BY <2>1, SwapMoves
  <2>3. /\ pool' \in Pools /\ moves' \in 0 .. MaxSwaps /\ UNCHANGED <<feeBps, feeRecipient>>
    BY <2>1, RouterAssumption DEF swapExactInputSingle, RouterInv, RouterTypeOK
  <2>4. RouterInv'
    BY <2>2, <2>3 DEF SwapEffect, RouterInv, RouterTypeOK, Ledgers
  <2>5. \A c \in Currencies : balance'[c][Router] >= balance[c][Router]
    <3>1. /\ balance'[Input(z)][Router] >= balance[Input(z)][Router]
          /\ balance'[Output(z)][Router] >= balance[Output(z)][Router]
          /\ Currencies = {Input(z), Output(z)}
      BY <1>1, <2>2 DEF SwapEffect, Input, Output, Currencies
    <3> QED BY <3>1
  <2> QED BY <2>4, <2>5
<1> QED BY <1>3, <1>4, <1>5, <1>6, <1>7, <1>8 DEF RouterMove, MarketStep

LEMMA DirectSwapIsMove == ASSUME NEW t \in Traders, DirectSwap(t) PROVE RouterMove
<1>1. PICK z \in BOOLEAN, a \in Amounts, v \in Values, m \in Minimums :
        swapExactInputSingle(t, z, a, m, v)
  BY DEF DirectSwap
<1> QED BY <1>1, AmountFacts DEF RouterMove, Swapped

LEMMA RouterNextMoves == [RouterNext]_routerVars => RouterMove
<1>1. ASSUME NEW t \in Traders, CallerStep(t) PROVE RouterMove
  <2>1. CASE DirectSwap(t)
    BY <2>1, DirectSwapIsMove
  <2>2. CASE \E a \in Amounts \cup {0} : approve(t, a)
    BY <2>2, AmountFacts DEF RouterMove, Approved
  <2> QED BY <1>1, <2>1, <2>2 DEF CallerStep
<1> QED BY <1>1 DEF RouterNext, RouterMove

(***************************************************************************)
(* The sessions of the client                                              *)
(***************************************************************************)

Busy == {"asking", "reviewed", "rechecking", "checked", "reset", "approve", "send"}

Asked ==
  [phase : Busy, zeroForOne : BOOLEAN, amountIn : Amounts, slippage : SlippageBps, fee : 0 .. 1000,
   minimumOut : Nat, accepted : Nat]

\* From the moment a quote is accepted its minimum is the one that will be sent.
SessionsInv ==
  /\ session \in [Sessions -> {Idle} \cup Asked]
  /\ \A s \in Sessions :
       Now(s) \in Busy \ {"asking", "reviewed"} => session[s].accepted = session[s].minimumOut

LEMMA BusySession ==
  ASSUME SessionsInv, NEW s \in Sessions, Now(s) # "idle"
  PROVE  session[s] \in Asked
BY DEF SessionsInv, Now, Idle

\* A session that changes, while the others do not.
LEMMA SessionChanges ==
  ASSUME SessionsInv, NEW s \in Sessions, NEW q \in {Idle} \cup Asked,
         q.phase \in Busy \ {"asking", "reviewed"} => q.accepted = q.minimumOut,
         session' = [session EXCEPT ![s] = q]
  PROVE  SessionsInv'
<1>1. session \in [Sessions -> {Idle} \cup Asked]
  BY DEF SessionsInv
<1>2. session'[s] = q /\ \A r \in Sessions \ {s} : session'[r] = session[r]
  BY <1>1
<1>3. session' \in [Sessions -> {Idle} \cup Asked]
  BY <1>1
<1> QED BY <1>2, <1>3 DEF SessionsInv, Now

LEMMA QuitKeeps ==
  ASSUME SessionsInv, NEW s \in Sessions, Quit(s)
  PROVE  SessionsInv'
<1>1. Idle.phase \notin Busy
  BY DEF Idle, Busy
<1> QED BY <1>1, SessionChanges DEF Quit

LEMMA GotoKeeps ==
  ASSUME SessionsInv, NEW s \in Sessions, NEW phase \in Busy, Now(s) # "idle", Goto(s, phase),
         phase \in {"asking", "reviewed"} \/ Now(s) \in Busy \ {"asking", "reviewed"}
  PROVE  SessionsInv'
<1> DEFINE q == [session[s] EXCEPT !.phase = phase]
<1>1. session[s] \in Asked
  BY BusySession
<1>2. q \in Asked /\ q.phase = phase /\ q.accepted = session[s].accepted /\ q.minimumOut = session[s].minimumOut
  BY <1>1 DEF Asked
<1>3. session' = [session EXCEPT ![s] = q]
  BY DEF Goto
<1>4. q.phase \in Busy \ {"asking", "reviewed"} => q.accepted = q.minimumOut
  BY <1>2 DEF SessionsInv
<1> HIDE DEF q
<1> QED BY <1>2, <1>3, <1>4, SessionChanges

\* A quote of an accepted input is a natural minimum.
LEMMA QuoteFacts ==
  ASSUME RouterInv, NEW q \in Asked
  PROVE  MinimumOut(q) \in Nat
<1>1. q.amountIn \in Nat
  <2>1. q.amountIn \in Amounts
    BY DEF Asked
  <2> QED BY <2>1, AmountFacts
<1>2. q.fee \in 0 .. 1000
  BY DEF Asked
<1>3. q.slippage \in 1 .. 1000
  <2>1. q.slippage \in SlippageBps
    BY DEF Asked
  <2>2. SlippageBps \subseteq 1 .. 1000
    BY ClientAssumption
  <2> QED BY <2>1, <2>2
<1>4. PICK a \in Nat : a = q.amountIn
  BY <1>1
<1>5. PICK bps \in 0 .. 1000 : bps = q.fee
  BY <1>2
<1>6. PICK slip \in 1 .. 1000 : slip = q.slippage
  BY <1>3
<1> DEFINE offered == a - (a * bps) \div 10000
           given == Given(offered)
           kept == 10000 - slip
<1>7. offered \in Nat
  BY FeeFits
<1>8. given \in Nat
  <2> HIDE DEF offered
  <2> QED BY <1>7, PoolFacts DEF RouterInv
<1>9. kept \in Nat
  OBVIOUS
<1> HIDE DEF given, kept
<1>10. given * kept \in Nat
  BY <1>8, <1>9
<1>11. \A n \in Nat : n \div 10000 \in Nat
  BY SMT
<1>12. MinimumOut(q) = (given * kept) \div 10000
  BY <1>4, <1>5, <1>6 DEF MinimumOut, AmountOut, given, kept
<1> QED BY <1>10, <1>11, <1>12

\* What Accept makes of a session.
LEMMA AcceptedIsAsked ==
  ASSUME NEW q \in Asked, NEW fee \in 0 .. 1000
  PROVE  LET r == [q EXCEPT !.phase = "rechecking", !.fee = fee, !.accepted = q.minimumOut]
         IN  r \in Asked /\ r.accepted = r.minimumOut
<1> DEFINE q1 == [q EXCEPT !.phase = "rechecking"]
           q2 == [q1 EXCEPT !.fee = fee]
           q3 == [q2 EXCEPT !.accepted = q.minimumOut]
<1>1. q1 \in Asked /\ q1.minimumOut = q.minimumOut
  BY DEF Asked, Busy
<1>2. q2 \in Asked /\ q2.minimumOut = q.minimumOut
  <2> HIDE DEF q1
  <2> QED BY <1>1 DEF Asked
<1>3. q3 \in Asked /\ q3.minimumOut = q.minimumOut /\ q3.accepted = q.minimumOut
  <2>1. q.minimumOut \in Nat
    BY DEF Asked
  <2> HIDE DEF q2
  <2> QED BY <1>2, <2>1 DEF Asked
<1>4. [q EXCEPT !.phase = "rechecking", !.fee = fee, !.accepted = q.minimumOut] = q3
  OBVIOUS
<1> QED BY <1>3, <1>4

\* What a session does to the router and to the others.
LEMMA SessionMoves ==
  ASSUME RouterInv, SessionsInv, NEW s \in Sessions, SessionStep(s)
  PROVE  /\ SessionsInv'
         /\ \/ UNCHANGED routerVars
            \/ \E a \in Nat : approve(Trader[s], a)
            \/ /\ Now(s) = "send" /\ session[s] \in Asked /\ session'[s] = Idle
               /\ swapExactInputSingle(Trader[s], session[s].zeroForOne, session[s].amountIn,
                                       session[s].minimumOut,
                                       IF session[s].zeroForOne THEN session[s].amountIn ELSE 0)
<1> USE DEF Busy
<1>1. ASSUME Now(s) # "idle"
      PROVE  session[s] \in Asked /\ session[s].amountIn \in Nat
  <2>1. session[s] \in Asked
    BY <1>1, BusySession
  <2> QED BY <2>1, AmountFacts DEF Asked
<1>2. ASSUME NEW z \in BOOLEAN, NEW a \in Amounts, NEW b \in SlippageBps, Ask(s, z, a, b)
      PROVE  SessionsInv' /\ UNCHANGED routerVars
  <2> DEFINE q == [phase |-> "asking", zeroForOne |-> z, amountIn |-> a,
                   slippage |-> b, fee |-> feeBps, minimumOut |-> 0, accepted |-> 0]
  <2>1. q \in Asked /\ q.phase = "asking"
    BY DEF Asked, RouterInv, RouterTypeOK
  <2>2. session' = [session EXCEPT ![s] = q] /\ UNCHANGED routerVars
    BY <1>2 DEF Ask
  <2> HIDE DEF q
  <2> QED BY <2>1, <2>2, SessionChanges
<1>3. CASE Quote(s)
  <2>1. UNCHANGED routerVars /\ Now(s) = "asking"
    BY <1>3 DEF Quote
  <2>2. CASE Quit(s)
    BY <2>1, <2>2, QuitKeeps
  <2>3. CASE ~Quit(s)
    <3> DEFINE q == [session[s] EXCEPT !.phase = "reviewed", !.minimumOut = MinimumOut(session[s])]
    <3>1. session' = [session EXCEPT ![s] = q]
      BY <1>3, <2>3 DEF Quote
    <3>2. session[s] \in Asked /\ MinimumOut(session[s]) \in Nat
      BY <1>1, <2>1, QuoteFacts
    <3>3. q \in Asked /\ q.phase = "reviewed"
      BY <3>2 DEF Asked
    <3> HIDE DEF q
    <3> QED BY <2>1, <3>1, <3>3, SessionChanges
  <2> QED BY <2>2, <2>3
<1>4. CASE Accept(s)
  <2> DEFINE q == [session[s] EXCEPT !.phase = "rechecking", !.fee = feeBps,
                                     !.accepted = session[s].minimumOut]
  <2>1. UNCHANGED routerVars /\ Now(s) = "reviewed" /\ session' = [session EXCEPT ![s] = q]
    BY <1>4 DEF Accept
  <2>2. session[s] \in Asked /\ feeBps \in 0 .. 1000
    BY <1>1, <2>1 DEF RouterInv, RouterTypeOK
  <2>3. q \in Asked /\ q.accepted = q.minimumOut
    BY <2>2, AcceptedIsAsked
  <2> HIDE DEF q
  <2> QED BY <2>1, <2>3, SessionChanges
<1>5. CASE Recheck(s)
  <2>1. UNCHANGED routerVars /\ Now(s) = "rechecking"
    BY <1>5 DEF Recheck
  <2>2. Quit(s) \/ Goto(s, "checked")
    BY <1>5 DEF Recheck
  <2> QED BY <2>1, <2>2, QuitKeeps, GotoKeeps
<1>6. CASE ReadAllowance(s)
  <2>1. UNCHANGED routerVars /\ Now(s) = "checked"
    BY <1>6 DEF ReadAllowance
  <2>2. PICK phase \in {"send", "approve", "reset"} : Goto(s, phase)
    BY <1>6 DEF ReadAllowance
  <2> QED BY <2>1, <2>2, GotoKeeps
<1>7. CASE ResetAllowance(s)
  <2>1. Now(s) = "reset" /\ approve(Trader[s], 0) /\ Goto(s, "approve")
    BY <1>7 DEF ResetAllowance
  <2>2. SessionsInv'
    BY <2>1, GotoKeeps
  <2> QED BY <2>1, <2>2, AmountFacts
<1>8. CASE ApproveInput(s)
  <2>1. Now(s) = "approve" /\ approve(Trader[s], session[s].amountIn) /\ Goto(s, "send")
    BY <1>8 DEF ApproveInput
  <2>2. SessionsInv'
    BY <2>1, GotoKeeps
  <2> QED BY <1>1, <2>1, <2>2
<1>9. CASE Send(s)
  <2>1. /\ Now(s) = "send" /\ Quit(s)
        /\ swapExactInputSingle(Trader[s], session[s].zeroForOne, session[s].amountIn,
                                session[s].minimumOut,
                                IF session[s].zeroForOne THEN session[s].amountIn ELSE 0)
    BY <1>9 DEF Send
  <2>2. SessionsInv' /\ session[s] \in Asked
    BY <1>1, <2>1, QuitKeeps
  <2>3. session'[s] = Idle
    BY <2>1 DEF Quit, SessionsInv
  <2> QED BY <2>1, <2>2, <2>3
<1>10. CASE Leave(s)
  BY <1>10, QuitKeeps DEF Leave
<1> QED BY <1>2, <1>3, <1>4, <1>5, <1>6, <1>7, <1>8, <1>9, <1>10 DEF SessionStep

\* The step of a client is one of the router's or none.
LEMMA SwapNextMoves ==
  ASSUME RouterInv, SessionsInv, [SwapNext]_swapVars
  PROVE  SessionsInv' /\ RouterMove
<1>1. ASSUME UNCHANGED session PROVE SessionsInv'
  BY <1>1 DEF SessionsInv, Now
<1>2. CASE UNCHANGED swapVars
  BY <1>1, <1>2 DEF swapVars, RouterMove
<1>3. ASSUME NEW s \in Sessions, SessionStep(s) PROVE SessionsInv' /\ RouterMove
  <2>1. Trader[s] \in Traders
    BY ClientAssumption
  <2>2. SessionsInv'
    BY <1>3, SessionMoves
  <2>3. CASE \E a \in Nat : approve(Trader[s], a)
    BY <2>1, <2>2, <2>3 DEF RouterMove, Approved
  <2>4. CASE UNCHANGED routerVars
    BY <2>2, <2>4 DEF RouterMove
  <2>5. CASE /\ session[s] \in Asked
             /\ swapExactInputSingle(Trader[s], session[s].zeroForOne, session[s].amountIn,
                                     session[s].minimumOut,
                                     IF session[s].zeroForOne THEN session[s].amountIn ELSE 0)
    <3>1. /\ session[s].zeroForOne \in BOOLEAN /\ session[s].amountIn \in Nat
          /\ session[s].minimumOut \in Nat
          /\ (IF session[s].zeroForOne THEN session[s].amountIn ELSE 0) \in Nat
      BY <2>5, AmountFacts DEF Asked
    <3>2. Swapped
      BY <2>1, <2>5, <3>1 DEF Swapped
    <3> QED BY <2>2, <3>2 DEF RouterMove
  <2> QED BY <1>3, <2>3, <2>4, <2>5, SessionMoves
<1>4. CASE UNCHANGED session /\ \E t \in Traders \ Clients : DirectSwap(t)
  BY <1>1, <1>4, DirectSwapIsMove
<1>5. CASE UNCHANGED session /\ MarketStep
  BY <1>1, <1>5 DEF RouterMove
<1> QED BY <1>2, <1>3, <1>4, <1>5 DEF SwapNext

\* Nobody but a session that sends lets an account with a client gain.
LEMMA OnlyReviewed ==
  ASSUME Clients \cap Recipients = {},
         RouterInv, SessionsInv, [SwapNext]_swapVars, NEW t \in Clients
  PROVE  LET gained(c) == balance'[c][t] - balance[c][t]
         IN  (gained("native") > 0 \/ gained("token") > 0) =>
               \E s \in Sessions :
                 /\ Trader[s] = t /\ Now(s) = "send" /\ session'[s] = Idle
                 /\ gained(Input(session[s].zeroForOne)) >= - session[s].amountIn
                 /\ gained(Output(session[s].zeroForOne)) >= session[s].accepted
<1> DEFINE gained(c) == balance'[c][t] - balance[c][t]
           Reviewed == \E s \in Sessions :
                         /\ Trader[s] = t /\ Now(s) = "send" /\ session'[s] = Idle
                         /\ gained(Input(session[s].zeroForOne)) >= - session[s].amountIn
                         /\ gained(Output(session[s].zeroForOne)) >= session[s].accepted
           Loses == \A c \in Currencies : balance'[c][t] <= balance[c][t]
<1>1. t \in Traders /\ t \in Accounts /\ t # Router /\ t # Manager /\ t \notin Recipients
  BY AccountFacts, ClientAssumption DEF Clients
<1>2. balance \in Ledgers /\ \A c \in Currencies : balance[c][t] \in Nat
  BY <1>1 DEF RouterInv, RouterTypeOK, Ledgers
<1>3. balance' \in Ledgers /\ \A c \in Currencies : balance'[c][t] \in Nat
  <2>1. RouterInv'
    BY SwapNextMoves, RouterMoves
  <2> QED BY <1>1, <2>1 DEF RouterInv, RouterTypeOK, Ledgers
<1>4. SUFFICES Loses \/ Reviewed
  <2>1. ASSUME Loses PROVE ~(gained("native") > 0 \/ gained("token") > 0)
    BY <1>2, <1>3, <2>1, AccountFacts
  <2> QED BY <2>1
<1> HIDE DEF Reviewed
<1>5. ASSUME balance' = balance PROVE Loses
  BY <1>2, <1>5
<1>6. ASSUME NEW u \in Traders \ {t}, NEW z \in BOOLEAN, NEW a \in Nat, NEW m \in Nat, NEW v \in Nat,
             swapExactInputSingle(u, z, a, m, v)
      PROVE  Loses
  <2>1. SwapEffect(u, z, a, m)
    BY <1>6, SwapMoves
  <2>2. \A c \in Currencies : balance'[c][t] = balance[c][t]
    BY <1>1, <1>6, <2>1 DEF SwapEffect
  <2> QED BY <1>2, <2>2
<1>7. CASE UNCHANGED swapVars
  BY <1>5, <1>7 DEF swapVars, routerVars
<1>8. CASE MarketStep
  <2>1. CASE \E u \in Traders, a \in Amounts : receive(u, a)
    <3>1. PICK u \in Traders, a \in Amounts : receive(u, a)
      BY <2>1
    <3>2. balance' = Pay(balance, "native", u, Router, a) /\ a <= balance["native"][u]
      BY <3>1 DEF receive
    <3>3. /\ \A c \in Currencies \ {"native"} : balance'[c] = balance[c]
          /\ \A x \in Accounts :
               balance'["native"][x] = balance["native"][x] - (IF x = u THEN a ELSE 0)
                                                            + (IF x = Router THEN a ELSE 0)
      BY <1>2, <3>2, AccountFacts, AmountFacts, PayFacts
    <3>4. balance'["native"][t] <= balance["native"][t]
      BY <1>1, <1>2, <3>3, AccountFacts, AmountFacts
    <3>5. ASSUME NEW c \in Currencies PROVE balance'[c][t] <= balance[c][t]
      <4>1. CASE c = "native"
        BY <3>4, <4>1
      <4>2. CASE c # "native"
        BY <1>2, <3>3, <4>2
      <4> QED BY <4>1, <4>2
    <3> QED BY <3>5
  <2>2. CASE MovePool \/ \E fee \in Fees, r \in Recipients : setFee(fee, r)
    BY <1>5, <2>2 DEF MovePool, setFee
  <2> QED BY <1>8, <2>1, <2>2 DEF MarketStep
<1>9. CASE \E u \in Traders \ Clients : DirectSwap(u)
  <2>1. PICK u \in Traders \ Clients : DirectSwap(u)
    BY <1>9
  <2>2. PICK z \in BOOLEAN, a \in Amounts, v \in Values, m \in Minimums :
          swapExactInputSingle(u, z, a, m, v)
    BY <2>1 DEF DirectSwap
  <2> QED BY <1>6, <2>1, <2>2, AmountFacts
<1>10. ASSUME NEW s \in Sessions, SessionStep(s) PROVE Loses \/ Reviewed
  <2> DEFINE z == session[s].zeroForOne
             a == session[s].amountIn
             m == session[s].minimumOut
             v == IF z THEN a ELSE 0
  <2>1. Trader[s] \in Traders
    BY ClientAssumption
  <2>2. CASE UNCHANGED routerVars \/ \E x \in Nat : approve(Trader[s], x)
    BY <1>5, <2>2 DEF routerVars, approve
  <2>3. CASE /\ Now(s) = "send" /\ session[s] \in Asked /\ session'[s] = Idle
             /\ swapExactInputSingle(Trader[s], z, a, m, v)
    <3>1. z \in BOOLEAN /\ a \in Nat /\ m \in Nat /\ v \in Nat
      BY <2>3, AmountFacts DEF Asked
    <3>2. m = session[s].accepted
      BY <2>3 DEF SessionsInv, Busy
    <3>3. swapExactInputSingle(Trader[s], z, a, m, v)
      BY <2>3
    <3> HIDE DEF z, a, m, v
    <3>4. CASE Trader[s] # t
      BY <1>6, <2>1, <3>1, <3>3, <3>4
    <3>5. CASE Trader[s] = t
      <4>1. SwapEffect(t, z, a, m)
        BY <1>1, <3>1, <3>3, <3>5, SwapMoves
      <4>2. /\ balance'[Input(z)][t] >= balance[Input(z)][t] - a
            /\ balance'[Output(z)][t] >= balance[Output(z)][t] + m
        BY <4>1 DEF SwapEffect
      <4>3. Input(z) \in Currencies /\ Output(z) \in Currencies
        BY DEF Input, Output, Currencies
      <4>4. gained(Input(z)) >= - a /\ gained(Output(z)) >= m
        BY <1>2, <1>3, <3>1, <4>2, <4>3
      <4>5. /\ gained(Input(session[s].zeroForOne)) >= - session[s].amountIn
            /\ gained(Output(session[s].zeroForOne)) >= session[s].accepted
        BY <3>2, <4>4 DEF z, a, m
      <4> QED BY <2>3, <3>5, <4>5 DEF Reviewed
    <3> QED BY <3>4, <3>5
  <2> QED BY <1>10, <2>2, <2>3, SessionMoves
<1> QED BY <1>7, <1>8, <1>9, <1>10 DEF SwapNext

(***************************************************************************)
(* The theorems about swaps                                                *)
(***************************************************************************)

TradingInv == RouterInv /\ SessionsInv

LEMMA TradingStarts == SwapInit => TradingInv
<1> SUFFICES ASSUME SwapInit PROVE TradingInv
  OBVIOUS
<1>1. session = [s \in Sessions |-> Idle]
  BY DEF SwapInit
<1>2. SessionsInv
  BY <1>1 DEF SessionsInv, Now, Idle, Busy
<1> QED BY <1>2, RouterStarts DEF SwapInit, TradingInv

LEMMA TradingKept == TradingInv /\ [SwapNext]_swapVars => TradingInv'
BY SwapNextMoves, RouterMoves DEF TradingInv

\* The router alone keeps its types, whoever calls it with whatever value and minimum.
THEOREM RouterTypeCorrect == RouterSpec => []RouterTypeOK
<1>1. RouterInv => RouterTypeOK
  BY DEF RouterInv
<1>2. RouterInv /\ [RouterNext]_routerVars => RouterInv'
  BY RouterNextMoves, RouterMoves
<1> QED BY <1>1, <1>2, RouterStarts, PTL DEF RouterSpec

\* The types of the router and of its client, the fee that setFee bounds and the recipient that a
\* fee is charged for hold for all accounts, pools, amounts and tabs.
THEOREM TradingTypeCorrect == SwapSpec => [](RouterTypeOK /\ SessionsInv)
<1>1. TradingInv => RouterTypeOK /\ SessionsInv
  BY DEF TradingInv, RouterInv
<1> QED BY <1>1, TradingStarts, TradingKept, PTL DEF SwapSpec

\* What StrandedUntouched says of one step.
Stranded ==
  /\ \A c \in Currencies : balance'[c][Router] >= balance[c][Router]
  /\ \A t \in Traders, z \in BOOLEAN, a \in Amounts, m \in Minimums, v \in Values :
       swapExactInputSingle(t, z, a, m, v) =>
         /\ balance'[Input(z)][Router] = balance[Input(z)][Router] + Untaken(z, a) + OwnFee(a)
         /\ balance'[Output(z)][Router] = balance[Output(z)][Router]

\* Whatever the step and whoever takes it.
LEMMA MoveStrands == RouterInv /\ RouterMove => Stranded
<1> SUFFICES ASSUME RouterInv, RouterMove PROVE Stranded
  OBVIOUS
<1>1. \A c \in Currencies : balance'[c][Router] >= balance[c][Router]
  BY RouterMoves
<1>2. ASSUME NEW t \in Traders, NEW z \in BOOLEAN, NEW a \in Amounts, NEW m \in Minimums,
             NEW v \in Values, swapExactInputSingle(t, z, a, m, v)
      PROVE  /\ balance'[Input(z)][Router] = balance[Input(z)][Router] + Untaken(z, a) + OwnFee(a)
             /\ balance'[Output(z)][Router] = balance[Output(z)][Router]
  <2>1. SwapEffect(t, z, a, m)
    BY <1>2, AmountFacts, SwapMoves
  <2> QED BY <2>1 DEF SwapEffect
<1> QED BY <1>1, <1>2 DEF Stranded

\* The property says this of every step; what differs is that its amounts are named here.
LEMMA StrandedIsTheProperty == StrandedUntouched <=> [][Stranded]_routerVars
BY DEF StrandedUntouched, Stranded, Untaken, OwnFee

\* No step, with whichever fee, recipient, pool and value, makes the router pay with currency
\* that it had before: _settle never reaches what was left in it.  A swap leaves in it what the
\* pool did not take of a native input, no more and no less.
THEOREM RouterKeepsStranded == SwapSpec => StrandedUntouched
<1>1. TradingInv /\ [SwapNext]_swapVars => [Stranded]_routerVars
  BY SwapNextMoves, MoveStrands DEF TradingInv
<1>2. SwapSpec => [][Stranded]_routerVars
  BY <1>1, TradingStarts, TradingKept, PTL DEF SwapSpec
<1> QED BY <1>2, StrandedIsTheProperty

\* The same when nobody uses the client and whoever calls chooses value and minimum freely.
THEOREM RouterAloneKeepsStranded == RouterSpec => StrandedUntouched
<1>1. RouterInv /\ [RouterNext]_routerVars => RouterInv' /\ [Stranded]_routerVars
  BY RouterNextMoves, RouterMoves, MoveStrands
<1>2. RouterSpec => [][Stranded]_routerVars
  BY <1>1, RouterStarts, PTL DEF RouterSpec
<1> QED BY <1>2, StrandedIsTheProperty

\* Whatever fee and pool a swap meets when it is mined, the trader pays at most the input, gets
\* the minimum, and no other trader pays.
THEOREM SwapsCostTheirInput == SwapSpec => CostWithinInput
<1> DEFINE Bound ==
      \A t \in Traders, z \in BOOLEAN, a \in Amounts, m \in Minimums, v \in Values :
        swapExactInputSingle(t, z, a, m, v) =>
          /\ balance'[Input(z)][t] >= balance[Input(z)][t] - a
          /\ balance'[Output(z)][t] >= balance[Output(z)][t] + m
          /\ \A u \in Traders \ {t}, c \in Currencies : balance'[c][u] >= balance[c][u]
<1>1. ASSUME TradingInv PROVE Bound
  BY <1>1, AmountFacts, SwapMoves DEF TradingInv, SwapEffect
<1>2. TradingInv /\ [SwapNext]_swapVars => [Bound]_routerVars
  BY <1>1
<1> QED BY <1>2, TradingStarts, TradingKept, PTL DEF SwapSpec, CostWithinInput

\* As long as the fee is not sent to an account that uses the client, such an account gains only
\* by a swap that one of its tabs sent, for at most its input and at least the minimum that was
\* accepted, however fee, pool and allowance changed meanwhile.
THEOREM ClientSwapsAreReviewed ==
  ASSUME Clients \cap Recipients = {}
  PROVE  SwapSpec => ReviewedSwap
<1>1. TradingInv /\ [SwapNext]_swapVars =>
        [\A t \in Clients :
           LET gained(c) == balance'[c][t] - balance[c][t]
           IN  (gained("native") > 0 \/ gained("token") > 0) =>
                 \E s \in Sessions :
                   /\ Trader[s] = t /\ Now(s) = "send" /\ session'[s] = Idle
                   /\ gained(Input(session[s].zeroForOne)) >= - session[s].amountIn
                   /\ gained(Output(session[s].zeroForOne)) >= session[s].accepted]_swapVars
  BY OnlyReviewed DEF TradingInv
<1> QED BY <1>1, TradingStarts, TradingKept, PTL DEF SwapSpec, ReviewedSwap

(***************************************************************************)
(* Pages of events                                                         *)
(***************************************************************************)

\* The list ends below the page that waits for its logs, and no event is ahead of the chain.
PagesInv ==
  /\ PagesTypeOK
  /\ next <= upTo /\ upTo <= head
  /\ \A e \in Events : block[e] <= head
  /\ Waiting => next \in Nat /\ window = WindowTo(next)
  /\ ShownOnce

\* A window is a range that ends with the block asked for; older blocks are left for nextBlock.
LEMMA WindowIsARange ==
  ASSUME NEW to \in Nat
  PROVE  /\ WindowTo(to) \in Windows
         /\ WindowTo(to).toBlock = to
         /\ WindowTo(to).nextBlock = WindowTo(to).fromBlock - 1
         /\ WindowTo(to).fromBlock <= to
         /\ WindowTo(to) # NoWindow
  BY PagesAssumption DEF WindowTo, Windows, FromBlock, NoWindow, Null

\* No pool has the token on both sides: one filter at most returns an event.
LEMMA FoundOnce ==
  ASSUME NEW e \in Events, query \in Queries
  PROVE  IF Kept(query, e)
         THEN Cardinality({f \in Filters(query) : Matches(f, e)}) = IF Wanted(e) THEN 1 ELSE 0
         ELSE ~Wanted(e)
<1> DEFINE F == {f \in Filters(query) : Matches(f, e)}
<1>1. Kind[e] \in Kinds
  BY PagesAssumption
<1>2. Cardinality({}) = 0 /\ \A f : Cardinality({f}) = 1
  BY FS_EmptySet, FS_Singleton
<1>3. CASE query = "pools"
  <2>1. CASE Wanted(e)
    <3>1. F = {Kind[e]}
      BY <1>3, <2>1 DEF Filters, Matches, Wanted
    <3> QED
      BY <3>1, <1>2, <2>1, <1>3 DEF Kept
  <2>2. CASE ~Wanted(e)
    <3>1. F = {}
      BY <1>3, <2>2 DEF Filters, Matches, Wanted
    <3> QED
      BY <3>1, <1>2, <2>2, <1>3 DEF Kept
  <2> QED
    BY <2>1, <2>2
<1>4. CASE query = "saved"
  <2>1. Kept(query, e) => (Wanted(e) <=> e \in Saved)
    BY <1>4, <1>1, PagesAssumption DEF Wanted, Kept, Kinds
  <2>2. F = IF e \in Saved THEN {"id"} ELSE {}
    BY <1>4 DEF Filters, Matches
  <2>3. ~Kept(query, e) => ~Wanted(e)
    BY <1>4 DEF Kept, Wanted
  <2> QED
    BY <2>1, <2>2, <2>3, <1>2
<1>5. CASE query = "proposals"
  <2>1. F = IF Wanted(e) THEN {"proposal"} ELSE {}
    BY <1>5 DEF Filters, Matches, Wanted
  <2> QED
    BY <2>1, <1>2, <1>5 DEF Kept
<1> QED
  BY <1>3, <1>4, <1>5 DEF Queries

LEMMA PagesInit == Init => PagesInv
  BY PagesAssumption
  DEF Init, PagesInv, PagesTypeOK, ShownOnce, Waiting, Windows, NoWindow, Null

LEMMA PagesStep == PagesInv /\ [Next]_pagesVars => PagesInv'
<1> SUFFICES ASSUME PagesInv, [Next]_pagesVars
             PROVE  PagesInv'
  OBVIOUS
<1> USE DEF PagesInv, PagesTypeOK
<1>1. CASE Mine
  <2>1. /\ head' = head + 1 /\ block' \in [Events -> Nat \cup {Null}]
        /\ \A e \in Events : block'[e] = block[e] \/ (block[e] = Null /\ block'[e] = head + 1)
        /\ UNCHANGED <<query, window, upTo, next, shown, opens>>
    BY <1>1 DEF Mine
  <2>2. ASSUME NEW e \in Events
        PROVE  shown[e] = IF Wanted(e)' /\ next < block'[e] /\ block'[e] <= upTo THEN 1 ELSE 0
    <3>1. Wanted(e)' = Wanted(e)
      BY <2>1 DEF Wanted
    <3>2. /\ shown[e] = IF Wanted(e) /\ next < block[e] /\ block[e] <= upTo THEN 1 ELSE 0
          /\ block[e] \in Nat \cup {Null} /\ upTo <= head
          /\ next \in Nat \cup {Null} /\ upTo \in Nat \cup {Null}
      BY DEF ShownOnce
    <3> QED
      BY <2>1, <3>1, <3>2 DEF Null
  <2>3. ShownOnce'
    BY <2>1, <2>2 DEF ShownOnce
  <2> QED
    BY <2>1, <2>3 DEF Waiting, Null
<1>2. CASE Open
  <2>1. /\ window' = WindowTo(head) /\ next' = head /\ upTo' = head /\ opens' = opens + 1
        /\ query' \in Queries
        /\ shown' = [e \in Events |-> 0]
        /\ UNCHANGED <<head, block>>
    BY <1>2 DEF Open, eventBlockWindow
  <2>2. ShownOnce'
    BY <2>1 DEF ShownOnce, Null
  <2> QED
    BY <2>1, <2>2, WindowIsARange DEF Waiting
<1>3. CASE More
  <2>1. /\ next \in Nat
        /\ window' = WindowTo(next)
        /\ UNCHANGED <<head, block, query, upTo, next, shown, opens>>
    BY <1>3 DEF More, eventBlockWindow
  <2>2. ShownOnce'
    BY <2>1 DEF ShownOnce, Wanted
  <2> QED
    BY <2>1, <2>2, WindowIsARange DEF Waiting
<1>4. CASE Answer
  <2>1. /\ next \in Nat /\ window = WindowTo(next)
        /\ next' = window.nextBlock /\ window' = NoWindow
        /\ UNCHANGED <<head, block, query, upTo, opens>>
    BY <1>4 DEF Answer
  <2>2. /\ window \in Windows /\ window.toBlock = next /\ window.fromBlock <= next
        /\ next' = window.fromBlock - 1
    BY <2>1, WindowIsARange
  <2>3. ASSUME NEW e \in Events
        PROVE  shown'[e] = IF Wanted(e)' /\ next' < block[e] /\ block[e] <= upTo THEN 1 ELSE 0
    <3> DEFINE n == Cardinality({f \in Filters(query) : Matches(f, e)})
    <3>1. shown'[e] = shown[e] + IF block[e] \in window.fromBlock .. next /\ Kept(query, e)
                                 THEN n ELSE 0
      BY <1>4, <2>2 DEF Answer
    <3>2. Wanted(e)' = Wanted(e)
      BY <2>1 DEF Wanted
    <3>3. IF Kept(query, e) THEN n = IF Wanted(e) THEN 1 ELSE 0 ELSE ~Wanted(e)
      BY FoundOnce
    <3> HIDE DEF n
    <3> QED
      BY <3>1, <3>2, <3>3, <2>2 DEF ShownOnce, Windows, Null
  <2>4. shown' \in [Events -> Nat]
    <3>1. shown' = [e \in Events |-> shown'[e]]
      BY <1>4 DEF Answer
    <3>2. \A e \in Events : shown'[e] \in Nat
      BY <2>3
    <3> QED
      BY <3>1, <3>2
  <2>5. window' \in Windows
    BY <2>1 DEF Windows, NoWindow, Null
  <2>6. ShownOnce'
    BY <2>1, <2>3 DEF ShownOnce
  <2>7. next' \in Nat \cup {Null} /\ next' <= upTo'
    BY <2>1, <2>2 DEF Windows, Null
  <2> QED
    BY <2>1, <2>4, <2>5, <2>6, <2>7 DEF Waiting
<1>5. CASE UNCHANGED pagesVars
  BY <1>5 DEF pagesVars, ShownOnce, Wanted, Waiting
<1> QED
  BY <1>1, <1>2, <1>3, <1>4, <1>5 DEF Next

\* However the chain grows between the calls of listPools or listProposals, the pages add up
\* to each wanted event once, for every page size and every set of events.
THEOREM PagesShowOnce == Spec => []ShownOnce
<1>1. PagesInv => ShownOnce
  BY DEF PagesInv
<1> QED
  BY <1>1, PagesInit, PagesStep, PTL DEF Spec
=============================================================================
