-------------------------- MODULE MarketplaceToken --------------------------
(***************************************************************************)
(* contracts/evm/MarketplaceToken.sol: a fixed-supply ERC-20 whose holders *)
(* root ("soulbound") part of their balance.  Rooted tokens stay in the    *)
(* balance but cannot be spent, and they alone carry votes, which are      *)
(* counted for the account's delegate.                                     *)
(*                                                                         *)
(* A transaction is one action: it reverts as a whole when a guard fails,  *)
(* so a call that reverts is an action that is not enabled.  Several       *)
(* transactions may share a block, so now is advanced by its own action.   *)
(* The ERC-20, votes and ownership bases come from OpenZeppelin; they are  *)
(* modelled as far as the contract uses them.                              *)
(***************************************************************************)
EXTENDS Holdings

CONSTANTS
  Accounts,     \* addresses that may hold tokens, contracts included
  Zero,         \* address(0)
  Deployer,     \* initialOwner, who receives the initial supply
  MaxVotes,     \* type(uint208).max, the largest voting checkpoint
  Unlimited,    \* type(uint256).max, the allowance that is never used up
  Supplies,     \* the initial supplies a deployment may ask for
  Approvals,    \* the allowances an account may approve
  Controllers,  \* the addresses governance and ownership may be given to
  MaxTime       \* bound on block.timestamp

ASSUME TokenAssumption ==
  /\ IsFiniteSet(Accounts)
  /\ Zero \notin Accounts
  /\ Deployer \in Accounts
  /\ MaxVotes \in Nat
  /\ Unlimited \in Nat /\ MaxVotes < Unlimited
  /\ Supplies \subseteq Nat
  /\ Approvals \subseteq Nat
  /\ Controllers \subseteq Accounts
  /\ MaxTime \in Nat

VARIABLES
  supply,             \* totalSupply(), fixed by initialize
  balance,            \* ERC-20 balances, rooted tokens included
  allowance,          \* allowance[owner][spender]
  soulboundBalances,  \* the rooted part of each balance
  soulboundSince,     \* when the continuous rooted period began, 0 for none
  delegatee,          \* whom the account's rooted tokens vote for, or Zero
  votes,              \* latest voting checkpoint of each delegate
  totalVotes,         \* latest checkpoint of all voting units
  governance,         \* the DAO, Zero until set
  owner,              \* Ownable's owner, Zero once renounced
  now                 \* block.timestamp

erc20Vars  == <<supply, balance, allowance>>
rootVars   == <<soulboundBalances, soulboundSince, delegatee, votes, totalVotes>>
accessVars == <<governance, owner>>
tokenVars  == <<erc20Vars, rootVars, accessVars, now>>

TypeOK ==
  /\ supply \in Nat
  /\ balance \in [Accounts -> Nat]
  /\ allowance \in [Accounts -> [Accounts -> Nat]]
  /\ soulboundBalances \in [Accounts -> Nat]
  /\ soulboundSince \in [Accounts -> Nat]
  /\ delegatee \in [Accounts -> Accounts \cup {Zero}]
  /\ votes \in [Accounts -> Nat]
  /\ totalVotes \in Nat
  /\ governance \in Accounts \cup {Zero}
  /\ owner \in Accounts \cup {Zero}
  /\ now \in Nat /\ now > 0

-----------------------------------------------------------------------------
(* Deployment *)

\* Wrong variant: the initial supply is not compared with the checkpoint width.
InitializeAcceptsAny(n) == n # 0

\* The supplies initialize lets through.
InitializeAccepts(n) == n # 0 /\ n <= MaxVotes

\* The token right after initialize, whoever controls it.
InitTokens ==
  /\ supply \in { n \in Supplies : InitializeAccepts(n) }
  /\ balance = [a \in Accounts |-> IF a = Deployer THEN supply ELSE 0]
  /\ allowance = [a \in Accounts |-> [s \in Accounts |-> 0]]
  /\ soulboundBalances = [a \in Accounts |-> 0]
  /\ soulboundSince = [a \in Accounts |-> 0]
  /\ delegatee = [a \in Accounts |-> Zero]
  /\ votes = [a \in Accounts |-> 0]
  /\ totalVotes = 0
  /\ now = 1

Init ==
  /\ InitTokens
  /\ governance = Zero
  /\ owner = Deployer

-----------------------------------------------------------------------------
(* ERC-20 *)

liquidBalanceOf(a) == balance[a] - soulboundBalances[a]

\* Wrong variant: _update relies on the caller for the balance check.
CanSpendUnchecked(a, n) == n <= supply

\* Wrong variant: the plain ERC-20 check, which counts rooted tokens as spendable.
CanSpendRooted(a, n) == n <= balance[a]

\* The check _update makes before the tokens of account a move.
CanSpend(a, n) == n <= liquidBalanceOf(a)

\* The balances after n tokens moved; the recipient's is read after the debit.
Moved(from, to, n) == Credit(Debit(balance, from, n), to, n)

\* _update for two accounts: the transfer reverts unless the sender's liquid part covers it.
Update(from, to, n) ==
  /\ CanSpend(from, n)
  /\ balance' = Moved(from, to, n)

Transfer(sender, to, n) ==
  /\ Update(sender, to, n)
  /\ UNCHANGED <<supply, allowance, rootVars, accessVars, now>>

Approve(sender, spender, n) ==
  /\ allowance' = [allowance EXCEPT ![sender][spender] = n]
  /\ UNCHANGED <<supply, balance, rootVars, accessVars, now>>

\* An unlimited allowance is not used up.
TransferFrom(spender, from, to, n) ==
  /\ n <= allowance[from][spender]
  /\ allowance' = IF allowance[from][spender] = Unlimited THEN allowance
                  ELSE [allowance EXCEPT ![from][spender] = @ - n]
  /\ Update(from, to, n)
  /\ UNCHANGED <<supply, rootVars, accessVars, now>>

-----------------------------------------------------------------------------
(* Rooting and votes *)

\* Wrong variant: the old delegate keeps what the new one gets.
VotesCopied(from, to, n) == [d \in Accounts |-> votes[d] + (IF d = to THEN n ELSE 0)]

\* The delegates' votes after n of them went from one delegate to another.  Zero
\* stands for no delegate; a move from a delegate to itself changes nothing.
VotesMoved(from, to, n) ==
  [d \in Accounts |-> votes[d] - (IF d = from THEN n ELSE 0)
                               + (IF d = to THEN n ELSE 0)]

\* The uint208 arithmetic of that move does not revert.
VotesMovable(from, to, n) ==
  from # to => /\ from \in Accounts => n <= votes[from]
               /\ to \in Accounts => votes[to] + n <= MaxVotes

MoveDelegateVotes(from, to, n) ==
  /\ VotesMovable(from, to, n)
  /\ votes' = VotesMoved(from, to, n)

\* Wrong variant: an account that becomes its own delegate votes with the new tokens only.
RootVotingNewTokens(a, n) ==
  /\ soulboundBalances' = Credit(soulboundBalances, a, n)
  /\ soulboundSince' = IF soulboundSince[a] = 0
                       THEN [soulboundSince EXCEPT ![a] = now] ELSE soulboundSince
  /\ totalVotes' = totalVotes + n
  /\ delegatee' = [delegatee EXCEPT ![a] = IF @ = Zero THEN a ELSE @]
  /\ MoveDelegateVotes(Zero, delegatee'[a], n)

\* Wrong variant: every rooting restarts the account's period.
RootRestartingPeriod(a, n) ==
  /\ soulboundBalances' = Credit(soulboundBalances, a, n)
  /\ soulboundSince' = [soulboundSince EXCEPT ![a] = now]
  /\ totalVotes' = totalVotes + n
  /\ delegatee' = [delegatee EXCEPT ![a] = IF @ = Zero THEN a ELSE @]
  /\ MoveDelegateVotes(Zero, delegatee'[a],
                       IF delegatee[a] = Zero THEN soulboundBalances'[a] ELSE n)

\* What rooting n tokens does beyond the liquid-balance check.  An account that has no
\* delegate becomes its own, and then everything it has rooted starts to vote.
Root(a, n) ==
  /\ soulboundBalances' = Credit(soulboundBalances, a, n)
  /\ soulboundSince' = IF soulboundSince[a] = 0
                       THEN [soulboundSince EXCEPT ![a] = now] ELSE soulboundSince
  /\ totalVotes + n <= MaxVotes
  /\ totalVotes' = totalVotes + n
  /\ \/ /\ delegatee[a] # Zero
        /\ MoveDelegateVotes(Zero, delegatee[a], n)
        /\ UNCHANGED delegatee
     \/ /\ delegatee[a] = Zero
        /\ MoveDelegateVotes(Zero, a, soulboundBalances[a] + n)
        /\ delegatee' = [delegatee EXCEPT ![a] = a]

Soulbound(sender, n) ==
  /\ n # 0 /\ n <= liquidBalanceOf(sender)
  /\ Root(sender, n)
  /\ UNCHANGED <<erc20Vars, accessVars, now>>

SoulboundFor(sender, a, n) ==
  /\ sender = governance
  /\ n # 0 /\ n <= liquidBalanceOf(a)
  /\ Root(a, n)
  /\ UNCHANGED <<erc20Vars, accessVars, now>>

\* The votes are taken from the account's present delegate.
Release(a, n) ==
  /\ soulboundBalances' = Debit(soulboundBalances, a, n)
  /\ soulboundSince' = IF soulboundBalances[a] = n
                       THEN [soulboundSince EXCEPT ![a] = 0] ELSE soulboundSince
  /\ n <= totalVotes
  /\ totalVotes' = totalVotes - n
  /\ MoveDelegateVotes(delegatee[a], Zero, n)
  /\ UNCHANGED delegatee

Unsoulbound(sender, a, n) ==
  /\ sender = governance
  /\ n # 0 /\ n <= soulboundBalances[a]
  /\ Release(a, n)
  /\ UNCHANGED <<erc20Vars, accessVars, now>>

\* Votes.delegate; address(0) is a legal delegate and counts for nobody.
Delegate(sender, d) ==
  /\ delegatee' = [delegatee EXCEPT ![sender] = d]
  /\ MoveDelegateVotes(delegatee[sender], d, soulboundBalances[sender])
  /\ UNCHANGED <<erc20Vars, soulboundBalances, soulboundSince, totalVotes, accessVars, now>>

-----------------------------------------------------------------------------
(* Control *)

SetGovernance(sender, dao) ==
  /\ sender = owner
  /\ governance = Zero
  /\ governance' = dao
  /\ UNCHANGED <<erc20Vars, rootVars, owner, now>>

TransferOwnership(sender, newOwner) ==
  /\ sender = owner
  /\ owner' = newOwner
  /\ UNCHANGED <<erc20Vars, rootVars, governance, now>>

RenounceOwnership(sender) ==
  /\ sender = owner
  /\ owner' = Zero
  /\ UNCHANGED <<erc20Vars, rootVars, governance, now>>

\* A later block.
Tick ==
  /\ now < MaxTime
  /\ now' = now + 1
  /\ UNCHANGED <<erc20Vars, rootVars, accessVars>>

-----------------------------------------------------------------------------
\* The calls an account may make on its own behalf.
HolderStep(sender) ==
  \/ \E to \in Accounts, n \in 0 .. supply : Transfer(sender, to, n)
  \/ \E spender \in Accounts, n \in Approvals : Approve(sender, spender, n)
  \/ \E from, to \in Accounts, n \in 0 .. supply : TransferFrom(sender, from, to, n)
  \/ \E n \in 0 .. supply : Soulbound(sender, n)
  \/ \E d \in Accounts \cup {Zero} : Delegate(sender, d)

\* The calls only the governance or the owner may make.
ControlStep(sender) ==
  \/ \E a \in Accounts, n \in 0 .. supply : SoulboundFor(sender, a, n)
  \/ \E a \in Accounts, n \in 0 .. supply : Unsoulbound(sender, a, n)
  \/ \E dao \in Controllers : SetGovernance(sender, dao)
  \/ \E newOwner \in Controllers : TransferOwnership(sender, newOwner)
  \/ RenounceOwnership(sender)

Next ==
  \/ \E sender \in Accounts : HolderStep(sender) \/ ControlStep(sender)
  \/ Tick

Spec == Init /\ [][Next]_tokenVars

-----------------------------------------------------------------------------
(* Properties *)

\* The accounts whose rooted tokens vote through d.
Represented(d) == { a \in Accounts : delegatee[a] = d }

\* No transfer, to oneself or with an allowance, makes or loses tokens: the balances
\* always add up to the supply of initialize, which is all the contract ever mints.
SupplyConserved == Total(balance, Accounts) = supply

\* Whatever is transferred, rooted or released, the rooted part of an account is part of
\* its balance; otherwise balanceOf - _soulboundBalances reverts and the account is dead.
RootedWithinBalance == \A a \in Accounts : soulboundBalances[a] <= balance[a]

\* After any sequence of rootings, releases and delegations (to oneself, to others, to
\* nobody and back) a delegate has exactly the rooted tokens of those it represents.
VotesFollowDelegation ==
  \A d \in Accounts : votes[d] = Total(soulboundBalances, Represented(d))

\* The total the quorum is a fraction of is the sum of all rooted tokens, the tokens of
\* accounts without a delegate included.
TotalVotesCountRooted == totalVotes = Total(soulboundBalances, Accounts)

\* A rooted token counts for one delegate or, if its account has none, for nobody: however
\* tokens and delegations move, no token is counted twice.
VotesCountedOnce ==
  Total(votes, Accounts) + Total(soulboundBalances, Represented(Zero)) = totalVotes

\* soulboundSince is set, to a time that has come, exactly while something is rooted.
SinceTracksRooting ==
  \A a \in Accounts : /\ soulboundSince[a] = 0 <=> soulboundBalances[a] = 0
                      /\ soulboundSince[a] <= now

\* The checked uint208 arithmetic of the voting checkpoints never reverts a call whose
\* own conditions hold: what is liquid can be rooted, what is rooted can be released or
\* delegated anew.
VotingNeverReverts ==
  \A a \in Accounts :
    /\ \A n \in 0 .. liquidBalanceOf(a) :
         LET voter == IF delegatee[a] = Zero THEN a ELSE delegatee[a]
             gained == IF delegatee[a] = Zero THEN soulboundBalances[a] + n ELSE n
         IN  totalVotes + n <= MaxVotes /\ VotesMovable(Zero, voter, gained)
    /\ soulboundBalances[a] <= totalVotes
    /\ \A d \in Accounts \cup {Zero} : VotesMovable(delegatee[a], d, soulboundBalances[a])

\* Rooting more, releasing a part, transfers and delegation leave a running period alone:
\* it starts only from nothing rooted and ends only with nothing rooted.
ContinuousPeriod ==
  [][\A a \in Accounts : soulboundSince'[a] # soulboundSince[a] =>
       soulboundBalances[a] = 0 \/ soulboundBalances'[a] = 0]_tokenVars

\* The two pockets of RootedLedger, read off the contract's state.
Ledger == INSTANCE RootedLedger WITH
  liquid <- [a \in Accounts |-> liquidBalanceOf(a)],
  rooted <- soulboundBalances

\* Seen as two pockets per account the contract does nothing RootedLedger does not: no
\* call, with or without an allowance, lets a rooted token leave its account.
ImplementsLedger == Ledger!Spec
=============================================================================
