------------------------ MODULE MarketplaceGovernor ------------------------
(***************************************************************************)
(* contracts/evm/MarketplaceDAO.sol as a governor, its MarketplaceTimelock *)
(* and the MarketplaceToken they control: proposals, votes weighed at a    *)
(* snapshot, the timelock's delay and the calls a proposal makes.          *)
(*                                                                         *)
(* The governor and the timelock inherit their control from OpenZeppelin,  *)
(* which is modelled as far as the contracts configure and use it.  The    *)
(* model starts where the deployment ends: the DAO is the governance and   *)
(* the owner of the token, it alone schedules operations in the timelock,  *)
(* and anybody may execute them.  A proposal makes one call, as those of   *)
(* src/client/governance.ts do.                                            *)
(***************************************************************************)
EXTENDS MarketplaceToken

CONSTANTS
  Dao,               \* the DAO contract
  Proposals,         \* proposal ids: an id is the hash of the call and description
  Call,              \* Call[p]: the call of proposal p
  VotingDelay,       \* VOTING_DELAY
  VotingPeriod,      \* VOTING_PERIOD
  ProposalThreshold, \* PROPOSAL_THRESHOLD
  QuorumPercent,     \* QUORUM_PERCENT
  Denominator,       \* quorumDenominator(), 100
  TimelockDelay      \* TIMELOCK_DELAY

\* The numeric settings that proposals change: those of the governor, by the proposal kinds of
\* the client, and the timelock's minimum delay.
Settings == {"voting-delay", "voting-period", "proposal-threshold", "quorum", "timelock-delay"}

\* The calls: "unroot" goes through the DAO's relay to the token, a setting of the governor is
\* the timelock's call to the DAO, the timelock's delay its call to itself.
Calls ==
  [kind : {"unroot"}, account : Accounts, amount : Nat]
    \cup [kind : Settings, amount : Nat]

ASSUME GovernorAssumption ==
  /\ Dao \in Accounts
  /\ Call \in [Proposals -> Calls]
  /\ VotingDelay \in Nat
  /\ VotingPeriod \in Nat \ {0}
  /\ ProposalThreshold \in Nat
  /\ Denominator \in Nat \ {0}
  /\ QuorumPercent \in 0 .. Denominator
  /\ TimelockDelay \in Nat

VARIABLES
  settings,     \* the settings of governor and timelock, by name
  votesBefore,  \* the votes as getPastVotes(clock() - 1) answers
  proposer,     \* who proposed, Zero for an id that is not proposed
  snapshot,     \* proposalSnapshot: the time that decides the weight of a vote
  deadline,     \* proposalDeadline: the last time that may vote
  polled,       \* votes, their total and the quorum numerator as past lookups at the
                \* snapshot answer them, once that time is over
  hasVoted,     \* the accounts that voted
  tally,        \* votes against, for and abstaining
  canceled,     \* whether the proposal was cancelled
  executed,     \* whether the governor executed the proposal
  eta,          \* when its timelock operation is ready, 0 for not scheduled
  delayThen,    \* history: the timelock's delay when that operation was scheduled
  done          \* whether its timelock operation has been executed

proposalVars ==
  <<proposer, snapshot, deadline, hasVoted, tally, canceled, executed, eta, delayThen, done>>
governorVars == <<tokenVars, settings, votesBefore, polled, proposalVars>>

Supports == {"against", "for", "abstain"}

Polls == [votes : [Accounts -> Nat], total : Nat, numerator : Nat]

GovernorTypeOK ==
  /\ TypeOK
  /\ settings \in [Settings -> Nat]
  /\ votesBefore \in [Accounts -> Nat]
  /\ proposer \in [Proposals -> Accounts \cup {Zero}]
  /\ snapshot \in [Proposals -> Nat]
  /\ deadline \in [Proposals -> Nat]
  /\ polled \in [Proposals -> Polls]
  /\ hasVoted \in [Proposals -> SUBSET Accounts]
  /\ tally \in [Proposals -> [Supports -> Nat]]
  /\ canceled \in [Proposals -> BOOLEAN]
  /\ executed \in [Proposals -> BOOLEAN]
  /\ eta \in [Proposals -> Nat]
  /\ delayThen \in [Proposals -> Nat]
  /\ done \in [Proposals -> BOOLEAN]

-----------------------------------------------------------------------------
(* The state of a proposal *)

Proposed(p) == proposer[p] # Zero

\* Wrong variant: the quorum follows the tokens rooted now.
quorumNow(p) == (totalVotes * polled[p].numerator) \div Denominator

\* The votes a proposal needs: a share of all rooted tokens, both as of the snapshot.
quorum(p) == (polled[p].total * polled[p].numerator) \div Denominator

quorumReached(p) == quorum(p) <= tally[p]["for"] + tally[p]["abstain"]

voteSucceeded(p) == tally[p]["for"] > tally[p]["against"]

\* Neither executed through the governor nor cancelled; the clock and the votes decide.
Undecided(p) == Proposed(p) /\ ~executed[p] /\ ~canceled[p]

Pending(p)  == Undecided(p) /\ now <= snapshot[p]
Active(p)   == Undecided(p) /\ snapshot[p] < now /\ now <= deadline[p]
Closed(p)   == Undecided(p) /\ snapshot[p] < now /\ deadline[p] < now
Won(p)      == Closed(p) /\ quorumReached(p) /\ voteSucceeded(p)
Defeated(p) == Closed(p) /\ ~(quorumReached(p) /\ voteSucceeded(p))

\* A won proposal waits to be scheduled, then waits in the timelock, then is executed, if
\* not through the governor then by the timelock alone.
Succeeded(p) == Won(p) /\ eta[p] = 0
Queued(p)    == Won(p) /\ eta[p] # 0 /\ ~done[p]
Executed(p)  == executed[p] \/ (Won(p) /\ done[p])

\* The state as ProposalState names it.
ProposalState(p) ==
  CASE ~Proposed(p)            -> "unknown"
    [] canceled[p]             -> "canceled"
    [] Pending(p) \/ Active(p) -> "open"
    [] Defeated(p)             -> "defeated"
    [] Succeeded(p)            -> "succeeded"
    [] Queued(p)               -> "queued"
    [] Executed(p)             -> "executed"

-----------------------------------------------------------------------------
GovernorInit ==
  /\ InitTokens
  /\ governance = Dao
  /\ owner = Dao
  /\ settings = [s \in Settings |-> CASE s = "voting-delay"       -> VotingDelay
                                      [] s = "voting-period"      -> VotingPeriod
                                      [] s = "proposal-threshold" -> ProposalThreshold
                                      [] s = "quorum"             -> QuorumPercent
                                      [] s = "timelock-delay"     -> TimelockDelay]
  /\ votesBefore = [a \in Accounts |-> 0]
  /\ proposer = [p \in Proposals |-> Zero]
  /\ snapshot = [p \in Proposals |-> 0]
  /\ deadline = [p \in Proposals |-> 0]
  /\ polled = [p \in Proposals |->
                [votes |-> [a \in Accounts |-> 0], total |-> 0, numerator |-> 0]]
  /\ hasVoted = [p \in Proposals |-> {}]
  /\ tally = [p \in Proposals |-> [s \in Supports |-> 0]]
  /\ canceled = [p \in Proposals |-> FALSE]
  /\ executed = [p \in Proposals |-> FALSE]
  /\ eta = [p \in Proposals |-> 0]
  /\ delayThen = [p \in Proposals |-> 0]
  /\ done = [p \in Proposals |-> FALSE]

\* The proposer needs the votes it had before this second; the voting period follows the
\* settings of now.
propose(a, p) ==
  /\ ~Proposed(p)
  /\ votesBefore[a] >= settings["proposal-threshold"]
  /\ proposer' = [proposer EXCEPT ![p] = a]
  /\ snapshot' = [snapshot EXCEPT ![p] = now + settings["voting-delay"]]
  /\ deadline' = [deadline EXCEPT
                    ![p] = now + settings["voting-delay"] + settings["voting-period"]]
  /\ UNCHANGED <<tokenVars, settings, votesBefore, polled,
                 hasVoted, tally, canceled, executed, eta, delayThen, done>>

\* Only the proposer cancels, and only before the vote opens.
cancel(a, p) ==
  /\ Pending(p)
  /\ a = proposer[p]
  /\ canceled' = [canceled EXCEPT ![p] = TRUE]
  /\ UNCHANGED <<tokenVars, settings, votesBefore, polled,
                 proposer, snapshot, deadline, hasVoted, tally, executed, eta, delayThen, done>>

\* Wrong variant: the weight is the votes of the moment.
weightNow(a, p) == votes[a]

\* getPastVotes at the snapshot.
weight(a, p) == polled[p].votes[a]

\* An account without votes may vote too; it counts for nothing.
castVote(a, p, support) ==
  /\ Active(p)
  /\ a \notin hasVoted[p]
  /\ hasVoted' = [hasVoted EXCEPT ![p] = @ \cup {a}]
  /\ tally' = [tally EXCEPT ![p][support] = @ + weight(a, p)]
  /\ UNCHANGED <<tokenVars, settings, votesBefore, polled,
                 proposer, snapshot, deadline, canceled, executed, eta, delayThen, done>>

\* Anybody may schedule a proposal that succeeded, once, for the delay of this moment.
queue(p) ==
  /\ Succeeded(p)
  /\ eta' = [eta EXCEPT ![p] = now + settings["timelock-delay"]]
  /\ delayThen' = [delayThen EXCEPT ![p] = settings["timelock-delay"]]
  /\ UNCHANGED <<tokenVars, settings, votesBefore, polled,
                 proposer, snapshot, deadline, hasVoted, tally, canceled, executed, done>>

\* Wrong variant: an operation waits as long as the delay of the moment asks for, not that of
\* its scheduling.
ReadyByDelayOfNow(p) ==
  eta[p] # 0 /\ eta[p] - delayThen[p] + settings["timelock-delay"] <= now /\ ~done[p]

\* The timelock's operation may run.
Ready(p) == eta[p] # 0 /\ eta[p] <= now /\ ~done[p]

\* A call to one of the settings.
ChangeSetting(s, n) ==
  /\ s = "voting-period" => n # 0
  /\ s = "quorum" => n <= Denominator
  /\ settings' = [settings EXCEPT ![s] = n]
  /\ UNCHANGED tokenVars

\* What the proposal's call does; the proposal is not executed if the call reverts.
Perform(c) ==
  \/ /\ c.kind = "unroot"
     /\ Unsoulbound(Dao, c.account, c.amount)
     /\ UNCHANGED settings
  \/ c.kind \in Settings /\ ChangeSetting(c.kind, c.amount)

\* Wrong variant: neither the governor nor the timelock remembers the execution.
executeForgotten(p) ==
  /\ Queued(p) /\ Ready(p)
  /\ Perform(Call[p])
  /\ UNCHANGED <<votesBefore, polled, proposalVars>>

\* Execution through the governor, by anybody.
execute(p) ==
  /\ Queued(p) /\ Ready(p)
  /\ Perform(Call[p])
  /\ executed' = [executed EXCEPT ![p] = TRUE]
  /\ done' = [done EXCEPT ![p] = TRUE]
  /\ UNCHANGED <<votesBefore, polled, proposer, snapshot, deadline, hasVoted, tally,
                 canceled, eta, delayThen>>

\* The DAO refuses a call of its timelock that the governor did not announce, which its
\* execute alone does; a call of the timelock to itself needs no announcement.
Callable(c) == c.kind = "timelock-delay"

\* Execution in the timelock, past the governor, by anybody.
executeBatch(p) ==
  /\ Ready(p)
  /\ Callable(Call[p])
  /\ Perform(Call[p])
  /\ done' = [done EXCEPT ![p] = TRUE]
  /\ UNCHANGED <<votesBefore, polled, proposer, snapshot, deadline, hasVoted, tally,
                 canceled, executed, eta, delayThen>>

\* A later second: past lookups now answer for the one that ends.
Elapse ==
  /\ Tick
  /\ votesBefore' = votes
  /\ polled' = [p \in Proposals |->
       IF Proposed(p) /\ snapshot[p] = now
       THEN [votes |-> votes, total |-> totalVotes, numerator |-> settings["quorum"]]
       ELSE polled[p]]
  /\ UNCHANGED <<settings, proposalVars>>

\* The DAO calls the token through its proposals only.
TokenStep ==
  /\ \E sender \in Accounts \ {Dao} : HolderStep(sender)
  /\ UNCHANGED <<settings, votesBefore, polled, proposalVars>>

ProposalStep(p) ==
  \/ \E a \in Accounts \ {Dao} :
       \/ propose(a, p)
       \/ cancel(a, p)
       \/ \E support \in Supports : castVote(a, p, support)
  \/ queue(p)
  \/ execute(p)
  \/ executeBatch(p)

GovernorNext ==
  \/ \E p \in Proposals : ProposalStep(p)
  \/ TokenStep
  \/ Elapse

GovernorSpec == GovernorInit /\ [][GovernorNext]_governorVars

-----------------------------------------------------------------------------
(* Properties *)

\* However tokens are rooted, released and delegated anew before and during a vote, no
\* rooted token is counted twice: the votes cast never exceed the tokens rooted at the
\* snapshot.
NoDoubleVoting ==
  \A p \in Proposals :
    tally[p]["against"] + tally[p]["for"] + tally[p]["abstain"] <= polled[p].total

\* A vote that has closed stays as it ended, whatever happens to settings, rooted tokens
\* and delegates afterwards: a defeated proposal stays defeated, a won one can still be
\* scheduled and executed, and nothing revives a cancelled or executed one.
OutcomeFinal ==
  [][\A p \in Proposals :
       /\ Defeated(p) => Defeated(p)'
       /\ Won(p) => Won(p)' \/ Executed(p)'
       /\ Executed(p) => Executed(p)'
       /\ canceled[p] => canceled'[p] /\ ~Executed(p)']_governorVars

\* Whichever way a proposal is executed, it was won, and the whole delay that the timelock had
\* when it was scheduled passed after its vote closed: a proposal that shortens the delay, or
\* drops it, lets nothing through that was scheduled before.
ExecutedAfterDelay ==
  \A p \in Proposals :
    Executed(p) => /\ quorumReached(p) /\ voteSucceeded(p)
                   /\ deadline[p] + delayThen[p] < now

\* Settings change, and rooted tokens are released, only by the call of a proposal, and
\* one proposal does it once.
GovernedByProposals ==
  [][settings' # settings \/ (\E a \in Accounts : soulboundBalances'[a] < soulboundBalances[a])
       => \E p \in Proposals : done'[p] /\ ~done[p]]_governorVars

\* The proposals as ProposalDecisions sees them.
Decisions == INSTANCE ProposalDecisions WITH
  state <- [p \in Proposals |-> ProposalState(p)],
  rooted <- soulboundBalances

\* Clock, ballots, quorums, the timelock's operations and its open executor role add up to
\* this: every proposal is decided once, what won has exactly its own effect, once, and only
\* such an effect changes settings or takes rooted tokens from an account.
ImplementsDecisions == Decisions!Spec
=============================================================================
