# Verification of the marketplace contracts

TLA+ models of the Liberland marketplace contracts (`contracts/evm/*.sol`) and of the clients and the
deployment that drive them (`src/client/*.ts`, `src/deployment/*.ts`), model-checked with TLC and, where
that is possible, proved with TLAPS. Paths below are those of the repository.

## 1. The system

A *venture* deploys one set of contracts from a browser. Holders of its token root part of their balance,
which gives votes and rewards; a DAO decides by proposals, which reach the contracts after a vote and a
timelock; a router swaps the token in a Uniswap V4 pool for a fee that the DAO sets.

| Component | State it keeps | Operations | Talks to |
|---|---|---|---|
| `MarketplaceToken.sol` | balances, allowances, rooted ("soulbound") balances and since when, delegates, checkpointed votes, owner, governance, upgrade flags | ERC-20, `soulbound`, `soulboundFor`, `unsoulbound`, `delegate`, `setGovernance` | called by holders and by the DAO |
| `MarketplaceDAO.sol`, governor | proposals, votes, settings, quorum fractions | `propose`, `cancel`, `castVote`, `queue`, `execute`, `relay`, settings | reads the token's past votes; schedules and executes in the timelock |
| `MarketplaceTimelock.sol` | operations with their times, roles | schedule, execute, `enableUpgrades`, `disableUpgradesPermanently` | calls the DAO and itself |
| `MarketplaceDAO.sol`, rewards | reward per period, last claims | `claimReward`, `setRewardPerPeriod`, `setRedemptionRate`, `fundRewardReserve`, `prebindTokens` | reads and moves the token; mints the reward token |
| `MarketplaceLPToken.sol` | reward balances, redemption rate; its token balance is the reserve | `mint`, `redeem`, `setRedemptionRate` | pays from its token balance |
| `MarketplaceV4SwapRouter.sol` | fee, fee recipient, native currency it holds | `swapExactInputSingle`, `unlockCallback`, `setFee`, `receive` | PoolManager, the token |
| upgrade control of all five | `upgradesEnabled`, `upgradesPermanentlyDisabled`, implementation | `enableUpgrades`, `disableUpgradesPermanently`, `upgradeToAndCall` | proposals, directly or through `relay` |
| `governance.ts` | none | composes and sends proposals, votes, queues, executes; reads pages of proposals in many awaits | DAO, timelock, token |
| `venture.ts` | none | root, delegate, transfer, claim, redeem; reads an account in ten parallel reads | token, DAO, reward token |
| `trading.ts` | none | quotes, checks, approves and swaps in five awaits or more; pages through pools | router, quoter, token |
| `browser.ts`, `transactionUtils.ts` | the journal of `{label, hash}` kept by the caller | eighteen steps, each a transaction that is sent once or reused | every contract |
| `gasSponsorship.ts`, `MarketplaceForwarder.sol`, `permit` of `ethereum.ts` | nonces of the contracts | sign a request, submit a signed one | any contract |
| `v4Positions.ts` | none | quote, approve, mint, inspect, reduce, collect from and burn pool positions | PositionManager, Permit2, pools |
| `utils.ts` | none | windows of blocks for paging, confirmations | event logs |
| `ethereum.ts`, `thirdweb.ts`, `networks.ts`, types, scripts | none | connections, tables, console runners | - |

### What is hard about it

The contracts run one transaction at a time, and a transaction that fails has no effect. What is hard is
*sequence and time*: a token moves between balances, pockets, delegates and checkpoints; a proposal lives for
ten days, during which holders and other proposals change everything it was decided on or composed from; a
period for rewards runs through releases and claims. The TypeScript programs are hard in another way: between
two awaits the chain moves, a tab closes, another tab of the same wallet acts, and what was broadcast is not
yet recorded. `PROJECT.json` lists each hazard at its line with the properties that would catch it.

What makes each component correct:

- *token*: rooted units are within the balance and cannot leave it; every rooted unit is one vote of exactly one
  delegate; the rooted period is continuous; the checkpoint arithmetic never reverts.
- *rewards*: a claim is earned by a full, uninterrupted period since the last one; a redemption burns against a payout,
  and cannot gain by splitting; the DAO's composite calls keep the token sound.
- *governor*: no unit votes twice; nothing happens without vote and delay; a decision is final.
- *upgrades*: only voted, never after a freeze, and a composed proposal never fails for a reason the client could avoid.
- *deployment*: never a locked timelock or a token in nobody's hands, one record per step, a truthful manifest,
  a price per stop of one transaction at most, completion however often it is stopped.
- *router and trading client*: a swap costs at most its input, spends nothing of others, and is one the trader accepted.
- *signed requests*: what was signed is done once, where and when it was meant; signing anew never does it twice.
- *positions*: a mint stays within what its user entered, nothing is left for strangers, and the id a tab decodes from a
  receipt is that of the position it minted.
- *pages*: every event is shown once; what is shown as decided is what counts; a date shown is never too late; no page
  fails because its reads were answered at different blocks.

## 2. The modules

| Module | Models | Built on |
|---|---|---|
| `Holdings` | sums over accounts, credits and debits | - |
| `MarketplaceToken` | the token | `Holdings` |
| `RootedLedger` | what the token promises: two pockets per account | - |
| `MarketplaceRewards` | reward side of the DAO and the reward token | extends `MarketplaceToken` |
| `RewardLedger` | what the three contracts promise together: pockets, points and a reserve that pays for points | extends `RootedLedger` |
| `VentureAccount` | `readAccount` of `venture.ts` while the account goes on | extends `MarketplaceRewards` |
| `MarketplaceGovernor` | governor, timelock and the transactions of `governance.ts` | extends `MarketplaceToken` |
| `ProposalDecisions` | what the governor promises: each proposal decided once, each effect once | `Holdings` |
| `ProposalView` | what `listProposals` shows of a proposal while the vote goes on | extends `MarketplaceGovernor` |
| `UpgradeControl` | upgrade flags and `proposeUpgrade` | - |
| `Deployment` | browser deployment and the chain as far as it sees it | - |
| `MarketplaceV4SwapRouter` | the router and the pool around it | - |
| `MarketplaceSwapClient` | `quote` and `swap` in several tabs | extends `MarketplaceV4SwapRouter` |
| `SignedRequests` | requests and permits that are signed here and submitted anywhere | - |
| `V4Positions` | `v4Positions.ts` with manager, Permit2 and pools | - |
| `EventPages` | `eventBlockWindow` with the two lists that page through events | - |
| `MC...` | small instances for TLC; `MCVentureAccount` and `MCProposalView` are those of rewards and votes too | one each |
| `...Proofs` | theorems about token, rewards and account, governor and page, upgrades, deployment, requests and positions, and `TradingProofs` about router, client and event pages | one each |

Definitions called a *wrong variant* are plausible mistakes in the code (a dropped check, a stale read, a swapped
order). No specification uses them; each serves to show that a property notices the mistake.

### How a module corresponds to the code

**A transaction is an action.** A call that reverts has no effect, so its conditions are the action's guards and
everything it calls, in every contract, is part of the action. `now` is `block.timestamp` and moves by an action
of its own, so that several transactions can share a second.

**`MarketplaceToken`.** `Update` is `_update`, `Root` and `Release` are `_soulbound` and the body of `unsoulbound`;
OpenZeppelin's votes are `MoveDelegateVotes`, whose guard is the uint208 arithmetic of the checkpoints with `MaxVotes` in
the place of 2^208 - 1. A self-transfer reads the recipient's balance after the debit, as the library does.
`Zero` is the zero address as a delegate; `Unlimited` the allowance that is not used up. The step relation is the holders'
(`HolderStep`), those of owner and governance (`ControlStep`) and `Tick`. `unrootedAt` in `MarketplaceRewards` and
`votesBefore` and `polled` in `MarketplaceGovernor` record history: when an account last had nothing rooted, and the checkpoints
of the second before and of each snapshot. `delayThen` there, the timelock's delay when an operation was scheduled, is history that no guard reads.

**`MarketplaceRewards`.** A governed call is an action without a caller; `MarketplaceGovernor` says when one happens. `redeem` checks the
reserve by `balanceOf`, as the code does, and pays through the token's `_update`, which spends liquid units
only. `mintRewards` is the reward token's `mint` called by vote, which reaches it through the DAO's `relay`: points are made by
claims and by votes. `Whole` stands for `1 ether`. Rewards are minted up to `MaxRewards`, a bound.

**`VentureAccount`.** Each read is an action, answered at a moment of its own; the page then shows the date computed
from the answers, however old they become. Only the two reads that a date is computed from are modelled, the others are displayed as they come.

**`MarketplaceGovernor`.** A proposal makes one call: a change of a setting of the governor, of the quorum or of the timelock's delay
(`updateDelay`, the timelock's call to itself), or a release through `relay`. Its state (`Pending` to `Executed`) is recomputed from
clock, tally and polled checkpoints, as `state()` does; `ProposalState` puts these together. Anybody may queue and execute, and, the executor
role being open, execute a ready operation in the timelock directly (`executeBatch`). A call to the DAO fails on this
route, since `onlyGovernance` finds no announcement of the governor; a call of the timelock to itself needs none (`Callable`). `Elapse` is the clock together with the
checkpoints that the passing second fixes.

**`ProposalView`.** Of the reads of `listProposals`, the clock, the snapshot and the two lookups at a time computed from
them are modelled, each an action. State, tally and deadline are displayed as they come: they may be torn, which the next
reading mends, and the code promises no more.

**`UpgradeControl`.** The three reads of `proposeUpgrade` are actions of their own, with other proposals' executions between them. Votes
and delays are abstracted to "at any later time, or never". A proposal written by hand is one the client did not compose. A
contract sees who calls: `MayControl` is `onlyGovernance`, `onlyDAO` and the timelock's self-call, `Reaches` says whose call arrives on
which route (what the DAO relays comes from the DAO, and it relays for the timelock alone), and `Route` is the choice of
`proposeUpgrade` between the two. Hand-written proposals take either route, and `CallByAccount` is a transaction of an outsider, to the contract
or to the DAO's `relay`.

**`Deployment`.** A run is at one step, in one of the phases between the awaits of `executeDeploymentTransaction`:
reading the chain, sending, recording, waiting. A transaction is its place in `txs`, which stands for hash and created
address. What the chain reads answer follows from the mined transactions. `Stop` ends the run anywhere, `Drop` lets
the network forget what is pending, and a run begins with the journal as it is and any of the options.
A stopped run keeps nothing but what `onSubmitted` persisted.

**`MarketplaceV4SwapRouter`.** A swap is one action from `swapExactInputSingle` to `take`. The pool is external: it takes what it has
the depth for and gives at its price; both change arbitrarily between transactions. Accounts in `Payable` accept native currency.

**`MarketplaceSwapClient`.** One action per await of `quote` and `swap`; a session is one tab.

**`SignedRequests`.** `Read` takes the nonce and the network, `Sign` is the wallet's answer, `Reject` its refusal or a closed
page. A signed request is public from then on: `Accept` may happen on every chain, at any time and as often as a
relayer likes, guarded by what the contract checks. A tab stays on one chain between its reads of nonce and network. A
call that fails reverts with its nonce, so that acceptance is success; `executeBatch` of the library is not used by `src/`.
`seen` and `runs` record history.

**`V4Positions`.** One action per transaction or read that a later step depends on. Quotes follow the SDK's arithmetic
for full ranges, with roots of prices from a short ladder and every rounding as in the code; `Moved` is the price after
slippage. `Leave` stands for a revert, a deadline or permit that expired, and a closed tab. What a user may do
in its wallet without the client (`Give`) and what others do to the pool (`Trade`) are actions too. A mint may name any recipient.
Its receipt is the sequence of its Transfer events: the manager makes the NFT before it touches the pool, then the hooks and the
currency of a foreign pool log what they like (`ForeignLogs`: an ERC-20 mint, whose event has the same topic and no id, the mint of
another collection), the payments come last. `decodeMintedTokenId` takes the first one from the zero address, whichever
contract emitted it, as the code does, and has no answer where the code throws; that the first one is the manager's own is what
`MintedIdIsOwn` shows, against the position's `minter`, which is history. `burnEmptyPosition` does not look whether the position
is empty and sets no limits, so that `Burn` takes any position the tab knows, with everything in it; no property speaks of such a burn,
since the client promises nothing about it.

**`EventPages`.** A call to a list is two actions, the read of the latest block with the window computed from it, and the
answer to its log queries; blocks are mined in between. A log that two filters match comes twice, as it would.

## 3. What is checked

Passing runs (two workers, each below three minutes on two cores):

| Run | Instance | Question and answer |
|---|---|---|
| `token` | a holder and the DAO, supply 2 (0 and 3 refused), allowances 1 and unlimited, time 1..3 | Votes follow delegation, each rooted unit counts once, the period is continuous, checkpoints never revert, and the token implements `RootedLedger`: rooted units are within the balance and leave it only after a release. |
| `rewards` | holder, DAO, reward contract and a page; supply 1, period 2, time 1..5, up to 2 rewards, claimed or minted by vote, reward and rate 0 or 1 of a whole of 2 | Claims are earned; redemption gains nothing by splitting; composite calls keep the token sound; no claim succeeds before the date shown; and the contracts implement `RewardLedger`: the reserve pays for points alone, what they are worth. |
| `proposal_page` | two holders, the DAO and a page, supply 1, one release, time 1..5 | No unit votes twice; the page never asks for the future, and what it shows as decided is. |
| `governor_calls` | 2 accounts, supply 2, three proposals: the timelock's delay from 1 to 0, the quorum from the whole to half, a release of 2; time 1..6 | Whatever is executed waited for the delay it was queued with; outcomes are final; and the governor implements `ProposalDecisions`: every proposal is decided once and has its own effect once, also when it is executed in the timelock and when a queued release no longer fits and reverts. |
| `upgrades` | token, DAO and timelock, two implementations and a wallet, 3 proposals on both routes, an outsider | Composed calls stay valid, on the route they take, until a freeze; every upgrade was voted, whoever calls; frozen is for good. |
| `deploy` | 17 steps, two options, 2 stops, 1 drop, fair | One record per step and one transaction more for each stop at most, timelock and token never lost, a truthful manifest, the search starts early enough, a finished deployment is always the same; with one option and nothing forgotten it is finished in the end. |
| `swaps` | 2 tabs of one account and a caller without a client, 2 swaps | Stranded currency is never spent and a swap strands exactly the native input the pool did not take, a swap costs at most its input, every trade of the client is one that a tab accepted. |
| `requests` | 2 tabs of one wallet, 2 contracts, 2 chains, 3 signed requests, time 1..2 | A request is accepted once and as signed, and only if its signer had seen every earlier one accepted. |
| `positions` | 2 tabs of one account and another account, a native pool and another, 2 positions, 1 trade | Mints within budgets, nothing left in the manager, and a decoded id is that of the tab's own mint, whatever others mint and a foreign pool logs. |
| `pages` | 4 events, 6 blocks, pages of 2 blocks, 3 kinds of lists, begun twice, fair | Every event is shown exactly once, and the first block is reached. |

`upgrades` also shows what the comment of `enableUpgrades` ("temporarily", `MarketplaceToken.sol:131`) leaves open: the flag
stays set after an upgrade, and what still holds then is that every upgrade was voted.

The window between broadcast and report (`transactionUtils.ts:55-73`) makes a resumed deployment send a creation again, although
`README.md:172` says that recovery never does so for a recorded one. `TimelockNeverLocked`, `TokenHandedToItsDAO` and
`ManifestTellsTheTruth` show that the contract left behind is unused, and `OneTransactionPerStep` that nothing but a stop
leaves one.

Each property has a mutant: one definition replaced by its wrong variant, with which the run finds it violated.

### Bounds, and why they are enough

- *Two token accounts*, one of them the DAO, can be delegator and delegate, spender, sender and recipient in every combination
  that two allow. What three or more add is a matter of proof: the token's theorems are about every set of accounts. Votes
  need two voters besides the DAO, which `proposal_page` has. `MaxVotes` equal to the supply makes any overcount a revert.
- *Time* goes as far as one proposal's whole life (delay 0, period 1, timelock 1) or two periods of rewards with an
  interruption. `proposal_page` has the constraint `ProposedEarly`: a proposal is made in the first second in which it
  can be, second 2, since a later one would not live to its execution within the bound. That of `governor_calls` has the changes of delay and
  quorum proposed by second 2 and the release by second 3: a release queued under the old delay may then still wait when the new one is
  in force, and the account has time to root and lose what it would release.
- *Points*: an account that calls nothing never redeems, so that `rewards` does not explore what follows once reward tokens are
  sent or minted to one (`PointsInPlay`); the step that brings them there is checked.
- *Three contracts* stand for five: the timelock, which freezes under other conditions and controls itself, the DAO, which the timelock controls,
  and the token for the three that the DAO controls by the same code.
  Three proposals suffice to compose one, execute another and freeze with a third.
- *Two stops and one drop* meet the three windows of a step in two runs, and their effect on a third.
- *Pools* with different depth and price are a price that moves either way and a pool that takes less than offered.
- *Three requests* are one, its repetition on another chain or contract, and one signed anew from another tab.
- *Positions*: roots 100 and 104 are the price of the quote and one within its slippage of 10 %, at which a mint with limits chosen
  without a quote no longer fits; withdrawals of nothing (fees) and of everything seen, with and without limits; two positions are those
  of two tabs or both of one, in either pool. `MaxAmount` stands for 2^128 - 1. The amounts are such that every rounding loses something.
- *Pages of two blocks* have a first, a middle and a shorter last page below a chain that grows by one or more blocks between them.
- `Proposals`, `Sessions`, `Tabs`, `Chains` and `Contracts` are symmetric where the cfg says so; no run with liveness uses symmetry.
- The type invariants of the modules with theorems are proved for every instance; only the token's, which the others build
  on, is a property of a run as well.

`CHECK_DEADLOCK FALSE` is set where the program really stops: a deployment waits for a forgotten transaction with no stops left,
and positions and the bounded reader of `pages` run out.

### Fairness

The contracts have none: nobody is obliged to call. `FairDeploySpec` assumes that the caller calls again after a stop
(`Begin`), that a run which can go on does (`RunStep`, the event loop), and that a pending transaction is mined
(`Mine`: its fee is twice the base fee, `transactionUtils.ts:32`). Stops are not fair and are bounded. `EventuallyDeployed`
has a premise: every run has the same options and nothing is forgotten by the network. Other options stop a run at the
first step that differs, and a recorded and forgotten transaction ends the deployment, both by intention (`README.md:172`).

`FairSpec` of `EventPages` assumes that a provider answers (`Answer`) and that the page asks for more as long as there is
more (`More`); blocks need not be mined. It proves nothing about a reader who stops scrolling, and claims nothing.

### Where the code differs from what it says

Two runs expect a violation, one property each.

- `deploy_pool`: a transaction is broadcast (`transactionUtils.ts:55`) two awaits before it is reported (`:73`). The calls of
  governance survive a stop in between, because the next run reads the chain before it sends them; the pool's
  initialization is not preceded by a read. Once on chain and not recorded it reverts
  in every later run, and none returns a manifest, although the deployment is complete.
- `router_partial`: a pool that takes a part of native input leaves the rest in the router, which has no way to return it; the fee
  is charged on the whole input. `StrandedUntouched` shows how much that is, exactly what the pool did not take, and that later
  swaps do not spend it either.

## 4. What is proved

For every set of accounts, supply, period, number of proposals and so on that the modules' assumptions admit
(`TokenAssumption`, `RewardsAssumption`, `ViewerAssumption`, `GovernorAssumption`, `ViewAssumption`, `UpgradeAssumption`,
`DeploymentAssumption`, `RouterAssumption`, `BalancesAssumption`, `ClientAssumption`, `RequestsAssumption`, `PositionsAssumption`, `ManagerAssumption`, `PagesAssumption`):

| Module | Theorems |
|---|---|
| `MarketplaceTokenProofs` | types, supply, rooted within balance, votes follow delegation, votes counted once, voting never reverts, continuous period, `Spec => Ledger!Spec`; the lemmas about sums that the next two rest on as well |
| `MarketplaceRewardsProofs` | types, reward supply, composite calls, `ClaimsAreEarned`, `ReserveBacksBurns`, `SplittingNeverPaysMore`, of the account page `NoClaimBeforeShown`, and `RewardsSpec => Purse!RewardSpec` |
| `MarketplaceGovernorProofs` | types, no double voting, the delay in force at queueing, finality, governed by proposals, `GovernorSpec => Decisions!Spec`; of the token below the governor `GovernorSpec => Ledger!Spec`, voting never reverts and continuous period; and of the proposal page `LookupsNeverRevert` and `ShownPollIsFinal` |
| `UpgradeControlProofs` | types, composed calls stay valid, upgrades are voted, frozen for good |
| `DeploymentProofs` | types, one record per step, `OneTransactionPerStep`, timelock never locked, token handed to its DAO, `ManifestTellsTheTruth`, `SearchMissesNothing`, `SameContracts` |
| `SignedRequestsProofs` | `RunsOnceAsSigned`, `EarlierRunsWereSeen` |
| `V4PositionsProofs` | types, `NothingLeftInManager`, `MintedIdIsOwn`, `MintWithinBudget` |
| `TradingProofs` | types of router and client, `StrandedUntouched`, `CostWithinInput`, `ReviewedSwap` (provided no fee recipient is the account of a client, which would earn fees besides), and of the event pages `ShownOnce` |

The arguments:

- **Sums.** `Total(f, S)` is the number of pairs of an account and a unit it holds, so its laws follow from the library's theorems
  about cardinality, without induction.
- **`TokenInv`.** That a release never takes more than the delegate has needs `VotesFollowDelegation` (the delegate's votes are the
  rooted units of those it represents); that a root fits the checkpoints needs, besides, that rooted units are within balances
  and balances within a supply of at most `MaxVotes`. No one of these is inductive alone; together they are. The refinement
  maps `liquid` to `liquidBalanceOf` and needs `RootedWithinBalance`, without which it would not be a natural number.
- **`RewardsInv`** adds `HistoryInv`: an account that has something rooted has had it since `soulboundSince`, and the last moment
  with nothing rooted is not later.
- **`GovernorInv`** bounds the tally of a proposal by the polled votes of those who voted, the polled votes by the polled total, and ties
  `eta`, `executed` and `done` together in their order. Finality compares the outcome's parts before and after each step: nothing that enters
  it changes once the vote is closed.
- **`GovernorImplementsDecisions`** maps `state` to `ProposalState`, which the governor does not keep but recomputes from clock, tally and
  polled checkpoints. For each state a lemma says what of the proposal's record it follows from, so that an action which leaves the
  record alone leaves the state alone; a passing second moves several states at once, and only from open to decided. `DecisionInv`
  adds to `GovernorInv` that only proposals are cancelled. `GovernedByProposals`, proved besides, is one consequence of the refinement.
- **The token under its governor.** `GovernorSpec` adds `relay` to the token's own steps. `GovernorStepIsTokenStep` says that every
  step of the governor is one of the token, a second, or leaves the token alone, which carries the token's refinement, its arithmetic and
  its periods over without proving them again.
- **`UpgradeInv`** says of each composed proposal that it enables what it needs unless it was enabled when composed, that it takes the route on
  which its target listens to the timelock, and that only a freeze takes the permission away. `NobodyElseReaches` is the lemma about callers: who is
  neither timelock nor DAO passes no access check on either route, so that all changes come from executed proposals.
- **`DeployInv`** says of each record that it is of the step it names, of each pending or mined call after the roles that the calls
  before it were mined for the same contracts, and of the run that the calls before its step are done. "Mined stays mined" is what makes the check before a call safe although it may be stale.
- **`SpentInv`** counts: what was broadcast is recorded, in transit to its record, or was left at a stop. The labels of the records,
  with that in transit, are different steps of the deployment, so that by the pigeonhole principle there are no more of them than steps.
- **`TruthInv`** says that the steps the run has passed were mined for the contracts of that run, and that a creation names
  only contracts created before it, so that a later step cannot change what an earlier one asked for.
- **`SearchInv`** is about order: the deployer's nonces have its transactions mined in the order they were sent, the journal lists them
  in that order and starts with the forwarder, so that no contract lies in a block before the forwarder's. Records stay and
  there is one per step, so that a later run finds the same, hence `SameContracts`.
- **`RouterInv`** and **`SessionsInv`** are types, with a fee of at most a tenth that always has a recipient, from which what the pool takes plus the fee fits
  the input; and that the minimum a session sends is the one its user accepted. The payments of a swap are covered one after the other in every
  order the code makes them, which is what keeps the router's own balance out of them. `SwapEffect` is the sum of these payments for each
  account; what remains for the router is the untaken native input, and its own fee if it is the recipient.
- **`RewardsImplementRewardLedger`** maps the pockets as the token does, and reads points and terms off the reward contracts. What is not
  a step of the token alone are the composite calls: a redemption is a burn and a payment from the reserve, a prebinding moves a unit from the
  treasury's liquid pocket into another's rooted one without it ever being liquid there. Payments of zero and self-payments are stutters of the pockets.
- **`ReserveIsBacked`** needs that nobody may spend the reserve by an allowance: the reward contract never approves anybody and
  is no holder, so its balance falls by `redeem` alone. `SplittingGainsNothing` is the law that quotients rounded down add
  up to no more than the quotient of the sum (`QuotientsAdd`).
- **`AccountInv`** says that what a page has read is at most what a read would answer now, and that the date it shows is at most
  that of the next claim while something is rooted, and never more than a period ahead otherwise: rooting again only moves claims later.
- **`ViewInv`** keeps the clock that was read at or before the present one, and the snapshot that was read equal to the proposal's
  (`SnapshotIsFinal`). A lookup at a snapshot before the page's clock is therefore one in the past, and polls of the past do not change.
- **`RequestsInv`** says of every signed or awaited request that its nonce is not above the contract's, and that, if the two are
  equal, its signer had seen every acceptance with the same nonces. A later acceptance moves the contract's nonce past all of them.
- **`PositionsInv`** is types, `NothingLeftInManager`, and of each tab (`Sound`) that its limits are within its budget, that a receipt it waits
  on begins with a Transfer from the zero address naming a position of this tab and pool, and that what it was told is such a position.
  `FirstDecoded` says that decoding then answers that id and no other. Positions never lose their minter and pool, by giving and burning
  neither, so that what a tab was told stays true.
- **`PagesInv`** is types, that `next`, `upTo` and `head` are in that order, that the window under way ends with `next`, and
  `ShownOnce` itself. The lemma it rests on, `WindowIsARange`, is the arithmetic of `eventBlockWindow`: the next page ends just
  below this one.

Only model-checked are the liveness properties (`EventuallyDeployed`, `HistoryIsLoaded`): fairness needs ENABLED, which TLAPS
cannot expand. No module is recursive: sums are cardinalities and the rest are functions.

## 5. What is not modelled

- `delegateBySig`, `castVoteBySig` and the sender of meta-transactions: they end in the modelled actions once a signature
  is accepted. Of `permit` and of relayed requests the signing and the acceptance are modelled, in `SignedRequests`, the
  call they make is the modelled one of its contract.
- Values that are read only to be displayed: settings, texts, the states and tallies of a page of proposals, token names.
- In `v4Positions.ts`, the encoding for the PositionManager and ranges other than full ones, which the client does not quote;
  in the deployment, fees, the arithmetic of the first price, a transaction replaced in the wallet, and a change of the chain
  by others than the deployer, who alone has any power over the contracts until the end.
- Batches of several calls in a hand-written proposal of the governor, proposals that carry native currency, ERC-721 and ERC-1155 hooks of
  the library; calls back into the router, which its guard refuses; batches of the forwarder.
- `scripts/`, except for the order in which `verify-hosted-liquidity.ts` calls the position client, which is that of the sessions of
  `V4Positions`: `deploy.ts` and the `verify-*` scripts call the modelled functions one after the other on a chain of their own,
  `estimate-deployment.ts` measures a deployment that it throws away, the rest build. They keep no state and meet no
  other actor, so that nothing but input and output is left to model.
- Tests, mocks, generated artifacts, network tables and type declarations.

Five hazards in `PROJECT.json` have no property, because the code promises none: a reward that changes for periods already
completed, settings without an upper bound, a deployment whose recorded transaction was dropped, a fee recipient
that refuses native currency, and a burn, which looks at nothing and sets no limits.

## 6. The plan

The order followed how much depends on a part: the token and its abstract ledger, rewards, governor, upgrades, deployment, router and
trading client came first, then signed requests, event pages, the account and proposal pages on top of rewards and governor,
and positions. All have theorems.

Three components have an abstract specification that they are proved to implement: the token `RootedLedger`, alone and under
its governor, rewards and token together `RewardLedger`, governor and timelock `ProposalDecisions`. What is left is the DAO as a
whole: rewards and governor over one token, governed calls reached through proposals only, with `RewardLedger` and
`ProposalDecisions` side by side as what it promises. Its instance has to be larger than those of the two parts, which is why they are
checked separately so far. The deployment and the signed requests, whose properties are proved one by one, could be given such a
specification too.
