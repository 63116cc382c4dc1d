---------------------------- MODULE V4Positions -----------------------------
(***************************************************************************)
(* V4PositionClient of src/client/v4Positions.ts: liquidity positions in   *)
(* pools of currency0 and the token, quoted, approved, minted, inspected,  *)
(* reduced and burnt, with an await between any two of these steps.        *)
(*                                                                         *)
(* The PositionManager, Permit2 and the pools are external and modelled as *)
(* the client uses them; a transaction that reverts, is mined past its     *)
(* deadline or finds Permit2's approval expired changes nothing, and the   *)
(* caller leaves.  All positions are full range, so that liquidity L is    *)
(* worth L / sqrt(price) of currency0 and L * sqrt(price) of currency1.    *)
(***************************************************************************)
EXTENDS Integers, Sequences

CONSTANTS
  Pools,
  NativePools,    \* those whose currency0 is the native currency
  Accounts,
  Sessions,       \* open tabs
  Signer,         \* the account of each session
  Funds,          \* what every account has of every currency
  Roots,          \* square roots of prices, in units of 1 / Scale
  Start,          \* the root each pool starts with
  Scale,
  Budgets,        \* pairs of amounts to provide
  SlippageBps,
  MaxAmount,      \* the largest maximum the manager takes, 2^128 - 1
  ForeignLogs,    \* what the hooks and the currency of a foreign pool log during a mint
  Requests,       \* mints whose limits the caller chose without a quote
  Limits,         \* the least amounts of withdrawals
  Shares,         \* the halves of its liquidity that are withdrawn from a position
  MaxPositions,   \* bound on positions
  MaxTrades       \* bound on trades of others

ASSUME PositionsAssumption ==
  /\ NativePools \subseteq Pools
  /\ Signer \in [Sessions -> Accounts]
  /\ Scale \in Nat \ {0} /\ Roots \subseteq Nat \ {0} /\ Start \in [Pools -> Roots]
  /\ Budgets \subseteq Nat \X Nat /\ Limits \subseteq Nat \X Nat
  /\ MaxAmount \in Nat
  /\ Requests \subseteq [pool : Pools, liquidity : Nat,
                         maximum : (0 .. MaxAmount) \X (0 .. MaxAmount)]
  /\ SlippageBps \subseteq 1 .. 1000 /\ Shares \subseteq 0 .. 2
  /\ Funds \in Nat /\ MaxPositions \in Nat /\ MaxTrades \in Nat

Manager == "position manager"
Zero == "zero address"

ASSUME ManagerAssumption == Manager \notin Accounts

\* A Transfer event: whom it comes from and the id it names, which that of an ERC-20 does not.
NoId == 0
Log == [from : Accounts \cup {Zero}, id : Nat]

ASSUME LogsAssumption == ForeignLogs \subseteq Seq(Log)

VARIABLES
  root,       \* the price of each pool
  balance,    \* balance[account][currency]
  allowance,  \* what Permit2 may take of each account, by currency
  permit,     \* what Permit2 lets the PositionManager take of it
  positions,  \* the positions in the order of their ids
  session,    \* what each tab knows and does next
  trades

vars == <<root, balance, allowance, permit, positions, session, trades>>

Currencies == {"native", "other", "token"}

\* The pool's currency0 and currency1.
Key(p) == <<IF p \in NativePools THEN "native" ELSE "other", "token">>

\* A position that was burnt is the manager's; the tab that minted it is history, read by no guard.
PositionsTypeOK ==
  /\ root \in [Pools -> Roots]
  /\ balance \in [Accounts \cup {Manager} -> [Currencies -> Nat]]
  /\ allowance \in [Accounts -> [Currencies -> Nat]]
  /\ permit \in [Accounts -> [Currencies -> Nat]]
  /\ positions \in Seq([pool : Pools, owner : Accounts \cup {Manager},
                        liquidity : Nat, fees : Nat, minter : Sessions])
  /\ session \in [Sessions ->
       [phase : {"idle"}]
       \cup [phase : {"quoted", "allowed0", "allowed1"}, pool : Pools, budget : Nat \X Nat,
             liquidity : Nat, maximum : Nat \X Nat]
       \cup [phase : {"minted"}, pool : Pools, receipt : Seq(Log)]
       \cup [phase : {"own", "verified", "reduced"}, pool : Pools, id : Nat]
       \cup [phase : {"managing"}, pool : Pools, id : Nat, liquidity : Nat]]
  /\ trades \in 0 .. MaxTrades

Idle == [phase |-> "idle"]
Now(s) == session[s].phase
Become(s, state) == session' = [session EXCEPT ![s] = state]

(***************************************************************************)
(* Amounts                                                                 *)
(***************************************************************************)

Up(a, b) == (a + b - 1) \div b

\* What a mint costs, rounded up, and what liquidity returns, rounded down.
Cost(l, r) == <<Up(l * Scale, r), Up(l * r, Scale)>>
Worth(l, r) == <<(l * Scale) \div r, (l * r) \div Scale>>

Within(a, b) == a[1] <= b[1] /\ a[2] <= b[2]

\* The root of a price that moved to bps ten-thousandths of itself.
Moved(r, bps) ==
  CHOOSE x \in 0 .. 2 * r :
    x * x * 10000 <= r * r * bps /\ r * r * bps < (x + 1) * (x + 1) * 10000

\* The most liquidity that two amounts pay for.
Liquidity(a, r) ==
  LET l0 == (a[1] * r) \div Scale
      l1 == (a[2] * Scale) \div r
  IN  IF l0 <= l1 THEN l0 ELSE l1

\* mintAmountsWithSlippage: each amount at the price that is worst for it.
WithSlippage(l, r, bps) ==
  <<Cost(l, Moved(r, 10000 - bps))[1], Cost(l, Moved(r, 10000 + bps))[2]>>

\* A wrong variant for the runs: the slippage comes on top of the budgets.
SlippageOnTop(p, b, bps) ==
  LET l == Liquidity(b, root[p])
  IN  {q \in {[phase |-> "quoted", pool |-> p, budget |-> b, liquidity |-> l,
               maximum |-> WithSlippage(l, root[p], bps)]} : l > 0}

\* The quote, if there is one: it leaves room for the slippage within the budgets.
quoteFullRange(p, b, bps) ==
  LET scaled == <<(b[1] * 10000) \div (10000 + bps), (b[2] * 10000) \div (10000 + bps)>>
      l == Liquidity(scaled, root[p])
  IN  {q \in {[phase |-> "quoted", pool |-> p, budget |-> b, liquidity |-> l,
               maximum |-> WithSlippage(l, root[p], bps)]} :
         /\ p \in NativePools /\ l > 0 /\ Within(q.maximum, b)
         /\ q.maximum \in (0 .. MaxAmount) \X (0 .. MaxAmount)}

(***************************************************************************)
(* Before a mint                                                           *)
(***************************************************************************)

Quote(s) ==
  /\ Now(s) = "idle" /\ Len(positions) < MaxPositions
  /\ \E p \in Pools, b \in Budgets, bps \in SlippageBps :
       \E q \in quoteFullRange(p, b, bps) : Become(s, q)
  /\ UNCHANGED <<root, balance, allowance, permit, positions, trades>>

\* A caller of mintPosition may as well choose its limits itself.
Ask(s) ==
  /\ Now(s) = "idle" /\ Len(positions) < MaxPositions
  /\ \E r \in Requests :
       Become(s, [phase |-> "quoted", pool |-> r.pool, budget |-> r.maximum,
                  liquidity |-> r.liquidity, maximum |-> r.maximum])
  /\ UNCHANGED <<root, balance, allowance, permit, positions, trades>>

\* approveCurrency, its first and its second transaction; nothing for the native currency.
Allow(s) ==
  /\ Now(s) = "quoted" /\ Len(positions) < MaxPositions
  /\ \E i \in 1 .. 2 :
       LET c == Key(session[s].pool)[i] IN
         /\ c # "native"
         /\ allowance' = [allowance EXCEPT ![Signer[s]][c] = session[s].maximum[i]]
         /\ Become(s, [session[s] EXCEPT !.phase = IF i = 1 THEN "allowed0" ELSE "allowed1"])
  /\ UNCHANGED <<root, balance, permit, positions, trades>>

Permit(s) ==
  /\ Now(s) \in {"allowed0", "allowed1"}
  /\ LET i == IF Now(s) = "allowed0" THEN 1 ELSE 2 IN
       permit' = [permit EXCEPT ![Signer[s]][Key(session[s].pool)[i]] = session[s].maximum[i]]
  /\ Become(s, [session[s] EXCEPT !.phase = "quoted"])
  /\ UNCHANGED <<root, balance, allowance, positions, trades>>

(***************************************************************************)
(* A mint                                                                  *)
(***************************************************************************)

\* Currency0 comes out of the value sent along, if it is native; all else goes through Permit2.
Native(q) == q.pool \in NativePools
ThroughPermit(q) == IF Native(q) THEN {2} ELSE {1, 2}

\* A wrong variant for the runs: no sweep.
LeftBehind(b, account) == b

\* The last action of a native mint: what the manager still holds goes to the signer.
Swept(b, account) ==
  [b EXCEPT ![account]["native"] = @ + b[Manager]["native"], ![Manager]["native"] = 0]

\* The balances once the value is received, the pair is settled and the rest is swept.
Paid(q, account, cost) ==
  LET c == Key(q.pool)
      token == [balance EXCEPT ![account][c[2]] = @ - cost[2]]
  IN  IF Native(q)
      THEN Swept([token EXCEPT ![account]["native"] = @ - q.maximum[1],
                               ![Manager]["native"] = @ + q.maximum[1] - cost[1]], account)
      ELSE [token EXCEPT ![account][c[1]] = @ - cost[1]]

\* Of an allowance by currency, what remains when a mint has taken its cost.
Less(granted, q, cost) ==
  [c \in Currencies |->
    IF \E i \in ThroughPermit(q) : c = Key(q.pool)[i]
    THEN granted[c] - cost[CHOOSE i \in ThroughPermit(q) : c = Key(q.pool)[i]]
    ELSE granted[c]]

\* The Transfer events of a mint, in order: the manager makes the NFT before it touches the pool,
\* whose hooks and currency may log anything, and the signer's payments come last.
Logs(q, account, id, foreign) ==
  LET payment == [from |-> account, id |-> NoId]
  IN  (<<[from |-> Zero, id |-> id]>> \o foreign)
        \o (IF Native(q) THEN <<payment>> ELSE <<payment, payment>>)

Mint(s) ==
  LET q == session[s]
      account == Signer[s]
      cost == Cost(q.liquidity, root[q.pool])
  IN  /\ Now(s) = "quoted"
      /\ Len(positions) < MaxPositions
      /\ Within(cost, q.maximum)
      /\ Native(q) => q.maximum[1] <= balance[account]["native"]
      /\ \A i \in ThroughPermit(q) :
           LET c == Key(q.pool)[i] IN
             cost[i] <= balance[account][c] /\ cost[i] <= allowance[account][c]
             /\ cost[i] <= permit[account][c]
      /\ balance' = Paid(q, account, cost)
      /\ allowance' = [allowance EXCEPT ![account] = Less(@, q, cost)]
      /\ permit' = [permit EXCEPT ![account] = Less(@, q, cost)]
      /\ \E recipient \in Accounts :
           positions' = Append(positions, [pool |-> q.pool, owner |-> recipient, minter |-> s,
                                           liquidity |-> q.liquidity, fees |-> 0])
      /\ \E foreign \in IF Native(q) THEN {<<>>} ELSE ForeignLogs :
           Become(s, [phase |-> "minted", pool |-> q.pool,
                      receipt |-> Logs(q, account, Len(positions) + 1, foreign)])
      /\ UNCHANGED <<root, trades>>

FromZero(receipt) == {i \in DOMAIN receipt : receipt[i].from = Zero}

\* Wrong variants for the runs: the id before the manager's next one, and the last such event.
LatestTokenId(receipt) == {Len(positions)}
LastFromZero(receipt) ==
  {receipt[i].id : i \in {k \in FromZero(receipt) : \A j \in FromZero(receipt) : j <= k}} \ {NoId}

\* The id in the first Transfer from the zero address, whichever contract logged it; none, when
\* the call throws, if there is no such event or it names no id.
decodeMintedTokenId(receipt) ==
  {receipt[i].id : i \in {k \in FromZero(receipt) : \A j \in FromZero(receipt) : k <= j}} \ {NoId}

\* A call that throws is one that Leaves.
Decode(s) ==
  /\ Now(s) = "minted"
  /\ \E id \in decodeMintedTokenId(session[s].receipt) :
       Become(s, [phase |-> "own", pool |-> session[s].pool, id |-> id])
  /\ UNCHANGED <<root, balance, allowance, permit, positions, trades>>

(***************************************************************************)
(* Managing a position                                                     *)
(***************************************************************************)

\* verifyPosition: the owner and the pool, then the liquidity.  An owner's first look at its own
\* mint needs no check; what was read may be outdated when it is used.
Verify(s) ==
  /\ Now(s) = "idle"
  /\ \E i \in DOMAIN positions :
       /\ positions[i].owner = Signer[s]
       /\ Become(s, [phase |-> "verified", pool |-> positions[i].pool, id |-> i])
  /\ UNCHANGED <<root, balance, allowance, permit, positions, trades>>

ReadLiquidity(s) ==
  /\ Now(s) \in {"own", "verified", "reduced"}
  /\ Become(s, [phase |-> "managing", pool |-> session[s].pool, id |-> session[s].id,
                liquidity |-> positions[session[s].id].liquidity])
  /\ UNCHANGED <<root, balance, allowance, permit, positions, trades>>

\* What a withdrawal of l pays its caller: the principal and the fees.
Withdrawn(p, l) == LET w == Worth(l, root[p.pool]) IN <<w[1], w[2] + p.fees>>

PaidOut(p, l) ==
  [balance EXCEPT ![p.owner] = [c \in Currencies |->
     @[c] + (IF \E i \in 1 .. 2 : c = Key(p.pool)[i]
             THEN Withdrawn(p, l)[CHOOSE i \in 1 .. 2 : c = Key(p.pool)[i]] ELSE 0)]]

\* decreaseLiquidity and, for no liquidity and no limits, collectFees.
Decrease(s) ==
  LET i == session[s].id
      p == positions[i]
  IN  /\ Now(s) = "managing"
      /\ p.owner = Signer[s]
      /\ \E l \in {(session[s].liquidity * n) \div 2 : n \in Shares}, least \in Limits :
           /\ l <= p.liquidity
           /\ Within(least, Worth(l, root[p.pool]))
           /\ balance' = PaidOut(p, l)
           /\ positions' = [positions EXCEPT ![i] = [p EXCEPT !.liquidity = @ - l, !.fees = 0]]
           /\ Become(s, [phase |-> "reduced", pool |-> p.pool, id |-> i])
      /\ UNCHANGED <<root, allowance, permit, trades>>

\* burnEmptyPosition does not look whether the position is empty: the manager withdraws whatever
\* is left, with limits of zero, and burns the position.
Burn(s) ==
  LET i == session[s].id
      p == positions[i]
  IN  /\ Now(s) \in {"own", "verified", "managing", "reduced"}
      /\ p.owner = Signer[s]
      /\ balance' = PaidOut(p, p.liquidity)
      /\ positions' = [positions EXCEPT ![i] =
                         [p EXCEPT !.liquidity = 0, !.fees = 0, !.owner = Manager]]
      /\ Become(s, Idle)
      /\ UNCHANGED <<root, allowance, permit, trades>>

(***************************************************************************)
(* What happens around it                                                  *)
(***************************************************************************)

\* A transaction reverts or expires, the user declines or closes the tab.
Leave(s) ==
  /\ Now(s) # "idle"
  /\ Become(s, Idle)
  /\ UNCHANGED <<root, balance, allowance, permit, positions, trades>>

\* The position is an NFT that its owner may give away.
Give ==
  /\ \E i \in DOMAIN positions, a \in Accounts :
       /\ positions[i].owner \in Accounts \ {a}
       /\ positions' = [positions EXCEPT ![i] = [positions[i] EXCEPT !.owner = a]]
  /\ UNCHANGED <<root, balance, allowance, permit, session, trades>>

\* Others trade: the price moves and the positions in the pool earn fees.
Trade ==
  /\ trades < MaxTrades
  /\ trades' = trades + 1
  /\ \E p \in Pools, r \in Roots :
       /\ r # root[p]
       /\ root' = [root EXCEPT ![p] = r]
       /\ positions' = [i \in DOMAIN positions |->
            IF positions[i].pool = p /\ positions[i].liquidity > 0
            THEN [positions[i] EXCEPT !.fees = @ + 1] ELSE positions[i]]
  /\ UNCHANGED <<balance, allowance, permit, session>>

Init ==
  /\ root = Start
  /\ balance = [a \in Accounts \cup {Manager} |->
                 [c \in Currencies |-> IF a = Manager THEN 0 ELSE Funds]]
  /\ allowance = [a \in Accounts |-> [c \in Currencies |-> 0]]
  /\ permit = allowance
  /\ positions = <<>>
  /\ session = [s \in Sessions |-> Idle]
  /\ trades = 0

SessionStep(s) ==
  \/ Quote(s) \/ Ask(s) \/ Allow(s) \/ Permit(s) \/ Mint(s) \/ Decode(s)
  \/ Verify(s) \/ ReadLiquidity(s) \/ Decrease(s) \/ Burn(s) \/ Leave(s)

Next == (\E s \in Sessions : SessionStep(s)) \/ Give \/ Trade

Spec == Init /\ [][Next]_vars

(***************************************************************************)
(* Properties                                                              *)
(***************************************************************************)

Spent(a, c) == balance[a][c] - balance'[a][c]

\* A mint costs no more than the budgets the user entered before the quote, though the price moved
\* at any await since, and though other tabs approved other amounts; nothing but a mint costs an
\* account anything.
MintWithinBudget ==
  [][\A a \in Accounts :
       (\E c \in Currencies : Spent(a, c) > 0) =>
         \E s \in Sessions :
           /\ Signer[s] = a /\ Now(s) = "quoted" /\ session'[s].phase = "minted"
           /\ \A i \in 1 .. 2 : Spent(a, Key(session[s].pool)[i]) <= session[s].budget[i]]_vars

\* The value of a native mint is its maximum: what the mint did not cost is never left in the
\* PositionManager, where the next caller's sweep would take it.
NothingLeftInManager == \A c \in Currencies : balance[Manager][c] = 0

\* However mints and their confirmations interleave, and whatever a foreign pool logs in the same
\* transaction, the id a tab is told, which its withdrawals and burns will name, is of a position
\* that this tab minted, and in the pool it was minted for.
MintedIdIsOwn ==
  \A s \in Sessions : Now(s) = "own" =>
    /\ positions[session[s].id].minter = s
    /\ positions[session[s].id].pool = session[s].pool
=============================================================================
