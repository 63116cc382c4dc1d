---------------------- MODULE MarketplaceGovernorProofs ----------------------
(***************************************************************************)
(* What MarketplaceGovernor guarantees for every set of proposals, every   *)
(* setting and every delay: no token votes twice, a closed vote keeps its  *)
(* outcome, and nothing is executed before the timelock's delay is over;   *)
(* what a page of ProposalView shows of a proposal meanwhile; that the     *)
(* governor implements ProposalDecisions; and that the token below it      *)
(* keeps what it promises on its own.                                      *)
(***************************************************************************)
EXTENDS ProposalView, MarketplaceTokenProofs

\* The votes of a snapshot are among its rooted tokens, and a proposal's tally is the sum of
\* the snapshot votes of those who voted.  Nobody votes before the snapshot is over.
PollsSound ==
  \A p \in Proposals :
    /\ Total(polled[p].votes, Accounts) <= polled[p].total
    /\ tally[p]["against"] + tally[p]["for"] + tally[p]["abstain"]
         = Total(polled[p].votes, hasVoted[p])
    /\ hasVoted[p] # {} => Proposed(p) /\ snapshot[p] < now

\* What is scheduled was won when its vote closed, and what is done waited.
ScheduledWon ==
  \A p \in Proposals :
    /\ eta[p] # 0 => /\ Proposed(p) /\ ~canceled[p]
                     /\ snapshot[p] < now /\ deadline[p] < now
                     /\ quorumReached(p) /\ voteSucceeded(p)
                     /\ deadline[p] + delayThen[p] < eta[p]
    /\ done[p] => eta[p] # 0 /\ eta[p] <= now
    /\ executed[p] => done[p]

GovernorInv ==
  /\ TokenInv
  /\ GovernorTypeOK
  /\ PollsSound
  /\ ScheduledWon

\* The result of a vote depends on the poll and the tally alone.
LEMMA ResultKept ==
  ASSUME NEW p \in Proposals, polled'[p] = polled[p], tally'[p] = tally[p]
  PROVE  /\ quorumReached(p)' = quorumReached(p)
         /\ voteSucceeded(p)' = voteSucceeded(p)
<1>1. quorum(p)' = quorum(p) BY Zenon DEF quorum
<1>2. quorumReached(p)' = quorumReached(p) BY <1>1, Zenon DEF quorumReached
<1>3. voteSucceeded(p)' = voteSucceeded(p) BY Zenon DEF voteSucceeded
<1> QED BY <1>2, <1>3

-----------------------------------------------------------------------------
\* The deployed governor has no proposals, so no votes and nothing scheduled.
LEMMA InitGovernorInv == GovernorInit => GovernorInv
<1> SUFFICES ASSUME GovernorInit PROVE GovernorInv OBVIOUS
<1> USE TokenAssumption, GovernorAssumption DEF TokenAssumption, GovernorAssumption
<1>1. TokenInv BY InitTokensInv DEF GovernorInit
<1>2. GovernorTypeOK
  <2>1. settings \in [Settings -> Nat] BY DEF GovernorInit, Settings
  <2>2. polled \in [Proposals -> Polls] BY DEF GovernorInit, Polls
  <2>3. tally \in [Proposals -> [Supports -> Nat]] BY DEF GovernorInit
  <2>4. TypeOK BY <1>1 DEF TokenInv
  <2> QED BY <2>1, <2>2, <2>3, <2>4 DEF GovernorInit, GovernorTypeOK
<1>3. PollsSound
  <2> SUFFICES ASSUME NEW p \in Proposals
               PROVE  /\ Total(polled[p].votes, Accounts) <= polled[p].total
                      /\ tally[p]["against"] + tally[p]["for"] + tally[p]["abstain"]
                           = Total(polled[p].votes, hasVoted[p])
                      /\ hasVoted[p] = {}
    BY DEF PollsSound
  <2>1. /\ \A a \in Accounts : polled[p].votes[a] = 0
        /\ polled[p].total = 0 /\ hasVoted[p] = {}
        /\ tally[p] = [x \in Supports |-> 0]
    BY DEF GovernorInit
  <2>2. Total(polled[p].votes, Accounts) = 0 /\ Total(polled[p].votes, {}) = 0
    BY <2>1, ZeroTotal
  <2>3. tally[p]["against"] = 0 /\ tally[p]["for"] = 0 /\ tally[p]["abstain"] = 0
    BY <2>1 DEF Supports
  <2> QED BY <2>1, <2>2, <2>3
<1>4. ScheduledWon BY DEF GovernorInit, ScheduledWon
<1> QED BY <1>1, <1>2, <1>3, <1>4 DEF GovernorInv

\* A step of the second that leaves polls, tallies and voters alone keeps the polls sound.
LEMMA PollsKept ==
  ASSUME PollsSound, UNCHANGED <<polled, hasVoted, tally, now>>,
         \A p \in Proposals : \/ proposer'[p] = proposer[p] /\ snapshot'[p] = snapshot[p]
                              \/ hasVoted[p] = {}
  PROVE  PollsSound'
BY DEF PollsSound, Proposed

\* A step of the second that leaves the proposal alone leaves what is known of it alone.
LEMMA ScheduleKept ==
  ASSUME ScheduledWon, UNCHANGED <<polled, tally, proposalVars, now>>
  PROVE  ScheduledWon'
<1>1. ASSUME NEW p \in Proposals
      PROVE  quorumReached(p)' = quorumReached(p) /\ voteSucceeded(p)' = voteSucceeded(p)
  BY ResultKept
<1> QED BY <1>1 DEF ScheduledWon, Proposed, proposalVars

-----------------------------------------------------------------------------
\* Proposing: an id without a history gets a proposer, a snapshot and a deadline.
LEMMA ProposeKeepsInv ==
  ASSUME GovernorInv, NEW a \in Accounts, NEW p \in Proposals, propose(a, p)
  PROVE  GovernorInv'
<1> USE TokenAssumption DEF TokenAssumption
<1>1. TokenInv' BY NextKeepsTokenInv DEF GovernorInv, propose, tokenVars
<1>2. GovernorTypeOK'
  BY <1>1 DEF GovernorInv, TokenInv, TypeOK, GovernorTypeOK, Settings, propose
<1>3. PollsSound'
  BY PollsKept DEF GovernorInv, GovernorTypeOK, PollsSound, propose, Proposed, tokenVars
<1>4. ScheduledWon'
  <2>1. UNCHANGED <<polled, tally, canceled, executed, eta, delayThen, done, now>>
    BY DEF propose, tokenVars
  <2>2. \A q \in Proposals : q # p => /\ proposer'[q] = proposer[q]
                                      /\ snapshot'[q] = snapshot[q]
                                      /\ deadline'[q] = deadline[q]
    BY DEF GovernorInv, GovernorTypeOK, propose
  <2>3. eta[p] = 0 BY DEF GovernorInv, ScheduledWon, propose
  <2>4. \A q \in Proposals : /\ quorumReached(q)' = quorumReached(q)
                             /\ voteSucceeded(q)' = voteSucceeded(q)
    BY <2>1, ResultKept
  <2> QED BY <2>1, <2>2, <2>3, <2>4 DEF GovernorInv, ScheduledWon, Proposed
<1> QED BY <1>1, <1>2, <1>3, <1>4 DEF GovernorInv

\* Cancelling: only what is pending, so nothing scheduled.
LEMMA CancelKeepsInv ==
  ASSUME GovernorInv, NEW a \in Accounts, NEW p \in Proposals, cancel(a, p)
  PROVE  GovernorInv'
<1>1. TokenInv' BY NextKeepsTokenInv DEF GovernorInv, cancel, tokenVars
<1>2. GovernorTypeOK' BY <1>1 DEF GovernorInv, TokenInv, GovernorTypeOK, cancel
<1>3. PollsSound' BY PollsKept DEF GovernorInv, cancel, tokenVars
<1>4. ScheduledWon'
  <2>1. UNCHANGED <<polled, tally, proposer, snapshot, deadline, executed, eta, delayThen, done, now>>
    BY DEF cancel, tokenVars
  <2>2. \A q \in Proposals : q # p => canceled'[q] = canceled[q]
    BY DEF GovernorInv, GovernorTypeOK, cancel
  <2>3. eta[p] = 0
    BY DEF GovernorInv, GovernorTypeOK, TokenInv, TypeOK, ScheduledWon, cancel, Pending
  <2>4. \A q \in Proposals : /\ quorumReached(q)' = quorumReached(q)
                             /\ voteSucceeded(q)' = voteSucceeded(q)
    BY <2>1, ResultKept
  <2> QED BY <2>1, <2>2, <2>3, <2>4 DEF GovernorInv, ScheduledWon, Proposed
<1> QED BY <1>1, <1>2, <1>3, <1>4 DEF GovernorInv

\* Voting: one more voter, with the weight of the snapshot.
LEMMA CastVoteKeepsInv ==
  ASSUME GovernorInv, NEW a \in Accounts, NEW p \in Proposals, NEW support \in Supports,
         castVote(a, p, support)
  PROVE  GovernorInv'
<1> USE TokenAssumption DEF TokenAssumption
<1>0. /\ polled[p].votes \in [Accounts -> Nat] /\ weight(a, p) \in Nat
      /\ hasVoted[p] \subseteq Accounts /\ tally[p] \in [Supports -> Nat]
      /\ Proposed(p) /\ snapshot[p] < now /\ now <= deadline[p]
      /\ now \in Nat /\ deadline[p] \in Nat
  BY DEF GovernorInv, GovernorTypeOK, TypeOK, Polls, weight, castVote, Active, Undecided
<1>1. TokenInv' BY NextKeepsTokenInv DEF GovernorInv, castVote, tokenVars
<1>2. /\ UNCHANGED <<polled, proposer, snapshot, deadline, canceled, executed, eta, delayThen,
                     done, now>>
      /\ hasVoted'[p] = hasVoted[p] \cup {a} /\ a \notin hasVoted[p]
      /\ tally'[p] = [tally[p] EXCEPT ![support] = @ + weight(a, p)]
      /\ \A q \in Proposals \ {p} : hasVoted'[q] = hasVoted[q] /\ tally'[q] = tally[q]
  BY DEF GovernorInv, GovernorTypeOK, castVote, tokenVars
<1>3. GovernorTypeOK'
  <2>1. hasVoted' \in [Proposals -> SUBSET Accounts]
    BY DEF GovernorInv, GovernorTypeOK, castVote
  <2>2. tally' \in [Proposals -> [Supports -> Nat]]
    BY <1>0 DEF GovernorInv, GovernorTypeOK, castVote
  <2> QED BY <1>1, <2>1, <2>2 DEF GovernorInv, TokenInv, GovernorTypeOK, castVote
<1>4. PollsSound'
  <2>1. tally'[p]["against"] + tally'[p]["for"] + tally'[p]["abstain"]
          = tally[p]["against"] + tally[p]["for"] + tally[p]["abstain"] + weight(a, p)
    <3>1. /\ tally[p]["against"] \in Nat /\ tally[p]["for"] \in Nat
          /\ tally[p]["abstain"] \in Nat
      BY <1>0 DEF Supports
    <3>2. \A x \in Supports :
            tally'[p][x] = IF x = support THEN tally[p][x] + weight(a, p) ELSE tally[p][x]
      BY <1>0, <1>2
    <3> QED BY <1>0, <3>1, <3>2 DEF Supports
  <2>2. Total(polled[p].votes, hasVoted[p] \cup {a})
          = Total(polled[p].votes, hasVoted[p]) + weight(a, p)
    <3> DEFINE more == hasVoted[p] \cup {a}
    <3>1. /\ IsFiniteSet(more) /\ a \in more /\ more \ {a} = hasVoted[p]
          /\ \A b \in more : polled[p].votes[b] \in Nat
      <4>1. more \subseteq Accounts BY <1>0
      <4>2. IsFiniteSet(more) BY <4>1, FS_Subset
      <4> QED BY <1>0, <1>2, <4>1, <4>2
    <3> HIDE DEF more
    <3>2. Total(polled[p].votes, more) = Total(polled[p].votes, more \ {a}) + polled[p].votes[a]
      BY <3>1, SplitTotal
    <3> QED BY <3>1, <3>2 DEF more, weight
  <2>3. tally'[p]["against"] + tally'[p]["for"] + tally'[p]["abstain"]
          = Total(polled'[p].votes, hasVoted'[p])
    BY <1>2, <2>1, <2>2 DEF GovernorInv, PollsSound
  <2> QED BY <1>0, <1>2, <2>3 DEF GovernorInv, PollsSound, Proposed
<1>5. ScheduledWon'
  <2>1. eta[p] = 0 /\ ~done[p] /\ ~executed[p]
    BY <1>0 DEF GovernorInv, ScheduledWon
  <2>2. \A q \in Proposals \ {p} : /\ quorumReached(q)' = quorumReached(q)
                                   /\ voteSucceeded(q)' = voteSucceeded(q)
    BY <1>2, ResultKept
  <2> QED BY <1>2, <2>1, <2>2 DEF GovernorInv, ScheduledWon, Proposed
<1> QED BY <1>1, <1>3, <1>4, <1>5 DEF GovernorInv

\* Scheduling: the vote has closed, so the delay ends later than it did plus the delay.
LEMMA QueueKeepsInv ==
  ASSUME GovernorInv, NEW p \in Proposals, queue(p)
  PROVE  GovernorInv'
<1> DEFINE delay == settings["timelock-delay"]
<1>0. now \in Nat /\ deadline[p] \in Nat /\ delay \in Nat
  BY DEF GovernorInv, GovernorTypeOK, TypeOK, Settings
<1>1. TokenInv' BY NextKeepsTokenInv DEF GovernorInv, queue, tokenVars
<1>2. GovernorTypeOK' BY <1>0, <1>1 DEF GovernorInv, TokenInv, GovernorTypeOK, queue
<1>3. PollsSound' BY PollsKept DEF GovernorInv, queue, tokenVars
<1>4. ScheduledWon'
  <2>1. UNCHANGED <<polled, tally, proposer, snapshot, deadline, canceled, executed, done, now>>
    BY DEF queue, tokenVars
  <2>2. /\ \A q \in Proposals : q # p => eta'[q] = eta[q] /\ delayThen'[q] = delayThen[q]
        /\ eta'[p] = now + delay /\ delayThen'[p] = delay
    BY DEF GovernorInv, GovernorTypeOK, queue
  <2>3. /\ Proposed(p) /\ ~canceled[p] /\ snapshot[p] < now /\ deadline[p] < now
        /\ quorumReached(p) /\ voteSucceeded(p) /\ eta[p] = 0 /\ ~done[p]
    BY DEF queue, Succeeded, Won, Closed, Undecided, GovernorInv, ScheduledWon
  <2>4. \A q \in Proposals : /\ quorumReached(q)' = quorumReached(q)
                             /\ voteSucceeded(q)' = voteSucceeded(q)
    BY <2>1, ResultKept
  <2>5. deadline[p] + delay < now + delay BY <1>0, <2>3
  <2> HIDE DEF delay
  <2> QED BY <2>1, <2>2, <2>3, <2>4, <2>5 DEF GovernorInv, ScheduledWon, Proposed
<1> QED BY <1>1, <1>2, <1>3, <1>4 DEF GovernorInv

\* The call of a proposal keeps the token sound and the settings numbers.
LEMMA PerformKeepsToken ==
  ASSUME GovernorInv, NEW p \in Proposals, Perform(Call[p])
  PROVE  /\ TokenInv' /\ now' = now
         /\ settings' \in [Settings -> Nat]
<1> USE GovernorAssumption DEF GovernorAssumption
<1> DEFINE c == Call[p]
<1>0. TokenInv /\ settings \in [Settings -> Nat]
  BY DEF GovernorInv, GovernorTypeOK
<1>1. CASE c.kind = "unroot" /\ Unsoulbound(Dao, c.account, c.amount)
             /\ UNCHANGED settings
  <2>1. c \in [kind : {"unroot"}, account : Accounts, amount : Nat]
    BY <1>1 DEF Calls, Settings
  <2>2. c.account \in Accounts /\ c.amount \in Nat BY <2>1
  <2>3. RootParts' /\ now' = now
    BY <1>0, <1>1, <2>2, ReleaseKeepsInv DEF Unsoulbound, erc20Vars
  <2>4. TokenInv' BY <1>0, <1>1, <2>3, RootPartsKeepTokenInv DEF Unsoulbound
  <2> QED BY <1>0, <1>1, <2>3, <2>4
<1>2. CASE c.kind \in Settings /\ ChangeSetting(c.kind, c.amount)
  <2>1. c \in [kind : Settings, amount : Nat] BY <1>2 DEF Calls, Settings
  <2>2. c.amount \in Nat BY <2>1
  <2>3. TokenInv' BY <1>0, <1>2, NextKeepsTokenInv DEF ChangeSetting
  <2> QED BY <1>0, <1>2, <2>2, <2>3 DEF ChangeSetting, tokenVars
<1> QED BY <1>1, <1>2 DEF Perform

\* Executing, through the governor or past it.
LEMMA ExecuteKeepsInv ==
  ASSUME GovernorInv, NEW p \in Proposals, execute(p) \/ executeBatch(p)
  PROVE  GovernorInv'
<1>1. /\ TokenInv' /\ now' = now
      /\ settings' \in [Settings -> Nat]
  BY PerformKeepsToken DEF execute, executeBatch
<1>2. /\ UNCHANGED <<votesBefore, polled, proposer, snapshot, deadline, hasVoted, tally,
                     canceled, eta, delayThen>>
      /\ done' = [done EXCEPT ![p] = TRUE]
      /\ executed' = executed \/ executed' = [executed EXCEPT ![p] = TRUE]
      /\ Ready(p)
  BY DEF execute, executeBatch
<1>3. GovernorTypeOK' BY <1>1, <1>2 DEF GovernorInv, TokenInv, GovernorTypeOK
<1>4. PollsSound' BY <1>1, <1>2, PollsKept DEF GovernorInv
<1>5. ScheduledWon'
  <2>1. \A q \in Proposals : /\ quorumReached(q)' = quorumReached(q)
                             /\ voteSucceeded(q)' = voteSucceeded(q)
    BY <1>2, ResultKept
  <2>2. /\ \A q \in Proposals \ {p} : done'[q] = done[q] /\ executed'[q] = executed[q]
        /\ done'[p] /\ eta[p] # 0 /\ eta[p] <= now
    BY <1>2 DEF GovernorInv, GovernorTypeOK, Ready
  <2> QED BY <1>1, <1>2, <2>1, <2>2 DEF GovernorInv, ScheduledWon, Proposed
<1> QED BY <1>1, <1>3, <1>4, <1>5 DEF GovernorInv

\* Time: the second that ends answers the polls that waited for it, with votes that count
\* no rooted token twice.
LEMMA ElapseKeepsInv ==
  ASSUME GovernorInv, Elapse
  PROVE  GovernorInv'
<1> USE TokenAssumption DEF TokenAssumption
<1>0. /\ TokenInv /\ now \in Nat /\ now' = now + 1
      /\ UNCHANGED <<votes, totalVotes, settings, proposalVars>>
  BY DEF GovernorInv, GovernorTypeOK, TypeOK, Elapse, Tick, rootVars
<1>1. TokenInv' BY NextKeepsTokenInv DEF GovernorInv, Elapse, Next
<1> DEFINE asked(q) == Proposed(q) /\ snapshot[q] = now
           answer == [votes |-> votes, total |-> totalVotes, numerator |-> settings["quorum"]]
<1>2. /\ \A q \in Proposals : asked(q) => polled'[q] = answer
      /\ \A q \in Proposals : ~asked(q) => polled'[q] = polled[q]
  BY DEF Elapse
<1>3. answer \in Polls
  <2>1. votes \in [Accounts -> Nat] /\ totalVotes \in Nat BY <1>0 DEF TokenInv, TypeOK
  <2>2. settings["quorum"] \in Nat BY DEF GovernorInv, GovernorTypeOK, Settings
  <2> QED BY <2>1, <2>2 DEF Polls
<1>4. GovernorTypeOK'
  <2>1. polled' \in [Proposals -> Polls]
    BY <1>3 DEF Elapse, GovernorInv, GovernorTypeOK
  <2>2. votesBefore' \in [Accounts -> Nat] BY <1>0 DEF Elapse, TokenInv, TypeOK
  <2> QED BY <1>0, <1>1, <2>1, <2>2 DEF GovernorInv, TokenInv, GovernorTypeOK, proposalVars
<1>5. Total(votes, Accounts) <= totalVotes
  <2>1. Represented(Zero) \subseteq Accounts BY DEF Represented
  <2>2. IsFiniteSet(Represented(Zero)) BY <2>1, FS_Subset
  <2>3. /\ \A a \in Accounts : votes[a] \in Nat
        /\ \A a \in Represented(Zero) : soulboundBalances[a] \in Nat
    BY <1>0, <2>1 DEF TokenInv, TypeOK
  <2>4. Total(votes, Accounts) \in Nat /\ Total(soulboundBalances, Represented(Zero)) \in Nat
    BY <2>2, <2>3, UnitsFinite
  <2> QED BY <1>0, <2>4 DEF TokenInv, VotesCountedOnce
<1>6. PollsSound'
  <2> SUFFICES ASSUME NEW q \in Proposals
               PROVE  /\ Total(polled'[q].votes, Accounts) <= polled'[q].total
                      /\ tally[q]["against"] + tally[q]["for"] + tally[q]["abstain"]
                           = Total(polled'[q].votes, hasVoted[q])
                      /\ hasVoted[q] # {} => Proposed(q) /\ snapshot[q] < now'
    BY <1>0 DEF PollsSound, Proposed, proposalVars
  <2>0. /\ Total(polled[q].votes, Accounts) <= polled[q].total
        /\ tally[q]["against"] + tally[q]["for"] + tally[q]["abstain"]
             = Total(polled[q].votes, hasVoted[q])
        /\ hasVoted[q] # {} => Proposed(q) /\ snapshot[q] < now
        /\ snapshot[q] \in Nat
    BY DEF GovernorInv, GovernorTypeOK, PollsSound
  <2>1. CASE ~asked(q)
    <3>1. polled'[q] = polled[q] BY <1>2, <2>1
    <3> HIDE DEF asked
    <3> QED BY <1>0, <2>0, <3>1
  <2>2. CASE asked(q)
    <3>1. /\ polled'[q].votes = votes /\ polled'[q].total = totalVotes
          /\ hasVoted[q] = {}
      BY <1>0, <1>2, <2>0, <2>2
    <3>2. Total(polled[q].votes, {}) = 0 /\ Total(votes, {}) = 0 BY ZeroTotal
    <3> QED BY <1>0, <1>5, <2>0, <3>1, <3>2
  <2> QED BY <2>1, <2>2
<1>7. ScheduledWon'
  <2>1. ASSUME NEW q \in Proposals, eta[q] # 0
        PROVE  /\ quorumReached(q)' = quorumReached(q)
               /\ voteSucceeded(q)' = voteSucceeded(q)
    <3>1. snapshot[q] < now /\ snapshot[q] \in Nat
      BY <2>1 DEF GovernorInv, GovernorTypeOK, ScheduledWon
    <3>2. polled'[q] = polled[q] BY <1>0, <1>2, <3>1
    <3> QED BY <1>0, <3>2, ResultKept DEF proposalVars
  <2>2. \A q \in Proposals : snapshot[q] \in Nat /\ deadline[q] \in Nat /\ eta[q] \in Nat
    BY DEF GovernorInv, GovernorTypeOK
  <2> HIDE DEF asked, answer
  <2> QED BY <1>0, <2>1, <2>2 DEF GovernorInv, ScheduledWon, Proposed, proposalVars
<1> QED BY <1>1, <1>4, <1>6, <1>7 DEF GovernorInv

\* Calls of the token by its holders change nothing a proposal has been polled for.
LEMMA TokenStepKeepsInv ==
  ASSUME GovernorInv, TokenStep
  PROVE  GovernorInv'
<1>1. PICK sender \in Accounts : HolderStep(sender) BY DEF TokenStep
<1>2. TokenInv' BY <1>1, HolderStepKeepsInv DEF GovernorInv
<1>3. now' = now
  BY <1>1 DEF HolderStep, Transfer, Approve, TransferFrom, Soulbound, Delegate
<1>4. UNCHANGED <<settings, votesBefore, polled, proposalVars>>
  BY DEF TokenStep
<1>5. GovernorTypeOK' BY <1>2, <1>4 DEF GovernorInv, TokenInv, GovernorTypeOK, proposalVars
<1>6. PollsSound' BY <1>3, <1>4, PollsKept DEF GovernorInv, proposalVars
<1>7. ScheduledWon' BY <1>3, <1>4, ScheduleKept DEF GovernorInv, proposalVars
<1> QED BY <1>2, <1>5, <1>6, <1>7 DEF GovernorInv

\* Every step keeps the invariant.
LEMMA NextKeepsGovernorInv == GovernorInv /\ [GovernorNext]_governorVars => GovernorInv'
<1> SUFFICES ASSUME GovernorInv, [GovernorNext]_governorVars PROVE GovernorInv' OBVIOUS
<1>1. ASSUME NEW p \in Proposals, ProposalStep(p) PROVE GovernorInv'
  BY <1>1, ProposeKeepsInv, CancelKeepsInv, CastVoteKeepsInv, QueueKeepsInv, ExecuteKeepsInv
     DEF ProposalStep
<1>2. CASE TokenStep BY <1>2, TokenStepKeepsInv
<1>3. CASE Elapse BY <1>3, ElapseKeepsInv
<1>4. CASE UNCHANGED governorVars
  <2>1. TokenInv' BY <1>4, NextKeepsTokenInv DEF GovernorInv, governorVars
  <2>2. UNCHANGED <<settings, votesBefore, polled, proposalVars, now>>
    BY <1>4 DEF governorVars, tokenVars
  <2>3. GovernorTypeOK' BY <2>1, <2>2 DEF GovernorInv, TokenInv, GovernorTypeOK, proposalVars
  <2>4. PollsSound' BY <2>2, PollsKept DEF GovernorInv, proposalVars
  <2>5. ScheduledWon' BY <2>2, ScheduleKept DEF GovernorInv, proposalVars
  <2> QED BY <2>1, <2>3, <2>4, <2>5 DEF GovernorInv
<1> QED BY <1>1, <1>2, <1>3, <1>4 DEF GovernorNext

-----------------------------------------------------------------------------
\* No snapshot vote is cast twice, so no more votes are cast than tokens were rooted.
LEMMA GovernorInvVotes == GovernorInv => NoDoubleVoting
<1> SUFFICES ASSUME GovernorInv, NEW p \in Proposals
             PROVE  tally[p]["against"] + tally[p]["for"] + tally[p]["abstain"]
                      <= polled[p].total
  BY DEF NoDoubleVoting
<1> USE TokenAssumption DEF TokenAssumption
<1>1. /\ \A a \in Accounts : polled[p].votes[a] \in Nat
      /\ hasVoted[p] \in SUBSET Accounts /\ polled[p].total \in Nat
  BY DEF GovernorInv, GovernorTypeOK, Polls
<1>2. Total(polled[p].votes, hasVoted[p]) <= Total(polled[p].votes, Accounts)
  BY <1>1, MonotoneTotal
<1>3. /\ Total(polled[p].votes, Accounts) \in Nat
      /\ Total(polled[p].votes, hasVoted[p]) \in Nat
  <2>1. IsFiniteSet(hasVoted[p]) BY <1>1, FS_Subset
  <2> QED BY <1>1, <2>1, UnitsFinite
<1>4. /\ Total(polled[p].votes, Accounts) <= polled[p].total
      /\ tally[p]["against"] + tally[p]["for"] + tally[p]["abstain"]
           = Total(polled[p].votes, hasVoted[p])
  BY DEF GovernorInv, PollsSound
<1> QED BY <1>1, <1>2, <1>3, <1>4

\* What is executed was scheduled, hence won, and its time has come.
LEMMA GovernorInvDelay == GovernorInv => ExecutedAfterDelay
<1> SUFFICES ASSUME GovernorInv, NEW p \in Proposals, Executed(p)
             PROVE  /\ quorumReached(p) /\ voteSucceeded(p)
                    /\ deadline[p] + delayThen[p] < now
  BY DEF ExecutedAfterDelay
<1>1. done[p] BY DEF Executed, GovernorInv, ScheduledWon
<1>2. /\ eta[p] # 0 /\ eta[p] <= now /\ deadline[p] + delayThen[p] < eta[p]
      /\ quorumReached(p) /\ voteSucceeded(p)
  BY <1>1 DEF GovernorInv, ScheduledWon
<1>3. now \in Nat /\ deadline[p] \in Nat /\ eta[p] \in Nat /\ delayThen[p] \in Nat
  BY DEF GovernorInv, GovernorTypeOK, TypeOK
<1> QED BY <1>2, <1>3

\* The governor's invariant, the token's included, holds in every reachable state.
THEOREM GovernorInvariant == GovernorSpec => []GovernorInv
BY InitGovernorInv, NextKeepsGovernorInv, PTL DEF GovernorSpec

\* Every variable of the governor keeps its type: the clock, the settings, the polls and
\* the tallies stay numbers whatever proposals do.
THEOREM GovernorTypeCorrect == GovernorSpec => []GovernorTypeOK
<1>1. GovernorInv => GovernorTypeOK BY DEF GovernorInv
<1> QED BY <1>1, GovernorInvariant, PTL

\* However tokens and delegations move, the votes cast on a proposal never exceed the tokens
\* rooted at its snapshot.
THEOREM GovernorNoDoubleVoting == GovernorSpec => []NoDoubleVoting
BY GovernorInvariant, GovernorInvVotes, PTL

\* Nothing is executed, through the governor or past it, that was not won and did not wait
\* for the whole delay.
THEOREM GovernorExecutedAfterDelay == GovernorSpec => []ExecutedAfterDelay
BY GovernorInvariant, GovernorInvDelay, PTL

-----------------------------------------------------------------------------
\* What a step may not do to the outcome of a proposal.
OutcomeKept ==
  \A p \in Proposals :
    /\ Defeated(p) => Defeated(p)'
    /\ Won(p) => Won(p)' \/ Executed(p)'
    /\ Executed(p) => Executed(p)'
    /\ canceled[p] => canceled'[p] /\ ~Executed(p)'

\* A step keeps the outcome of a proposal whose vote has closed if it leaves the vote as it
\* is, does not turn time back and undoes nothing.
LEMMA OutcomeFramed ==
  ASSUME GovernorInv, now' \in Nat, now <= now', NEW p \in Proposals,
         UNCHANGED <<snapshot, deadline>>, proposer'[p] = proposer[p],
         snapshot[p] < now => polled'[p] = polled[p],
         snapshot[p] < now /\ deadline[p] < now => tally'[p] = tally[p],
         Closed(p) \/ executed[p] \/ canceled[p] => canceled'[p] = canceled[p],
         done[p] => done'[p],
         executed'[p] = executed[p] \/ (executed'[p] /\ done'[p] /\ Won(p))
  PROVE  /\ Defeated(p) => Defeated(p)'
         /\ Won(p) => Won(p)' \/ Executed(p)'
         /\ Executed(p) => Executed(p)'
         /\ canceled[p] => canceled'[p] /\ ~Executed(p)'
<1>1. /\ now \in Nat /\ snapshot[p] \in Nat /\ deadline[p] \in Nat
      /\ executed[p] \in BOOLEAN /\ canceled[p] \in BOOLEAN /\ done[p] \in BOOLEAN
  BY DEF GovernorInv, GovernorTypeOK, TypeOK
<1>2. executed[p] => done[p] /\ ~canceled[p]
  BY DEF GovernorInv, ScheduledWon
<1>3. snapshot[p] < now /\ deadline[p] < now =>
        /\ quorumReached(p)' = quorumReached(p)
        /\ voteSucceeded(p)' = voteSucceeded(p)
  BY ResultKept
<1> QED BY <1>1, <1>2, <1>3 DEF Defeated, Won, Executed, Closed, Undecided, Proposed

\* Proposing touches an id that has no outcome yet.
LEMMA ProposeKeepsOutcome ==
  ASSUME GovernorInv, NEW a \in Accounts, NEW q \in Proposals, propose(a, q)
  PROVE  OutcomeKept
<1> SUFFICES ASSUME NEW p \in Proposals
             PROVE  /\ Defeated(p) => Defeated(p)'
                    /\ Won(p) => Won(p)' \/ Executed(p)'
                    /\ Executed(p) => Executed(p)'
                    /\ canceled[p] => canceled'[p] /\ ~Executed(p)'
  BY DEF OutcomeKept
<1>1. /\ UNCHANGED <<polled, tally, canceled, executed, done, now>> /\ ~Proposed(q)
      /\ p # q => /\ proposer'[p] = proposer[p] /\ snapshot'[p] = snapshot[p]
                  /\ deadline'[p] = deadline[p]
  BY DEF GovernorInv, GovernorTypeOK, propose, tokenVars
<1>2. quorumReached(p)' = quorumReached(p) /\ voteSucceeded(p)' = voteSucceeded(p)
  BY <1>1, ResultKept
<1>3. executed[p] => done[p] /\ eta[p] # 0 BY DEF GovernorInv, ScheduledWon
<1>4. /\ eta[p] # 0 => Proposed(p) /\ ~canceled[p]
      /\ done[p] => eta[p] # 0
  BY DEF GovernorInv, ScheduledWon
<1>5. CASE p # q
  BY <1>1, <1>2, <1>3, <1>4, <1>5 DEF Defeated, Won, Executed, Closed, Undecided, Proposed
<1>6. CASE p = q
  BY <1>1, <1>2, <1>3, <1>4, <1>6 DEF Defeated, Won, Executed, Closed, Undecided, Proposed
<1> QED BY <1>5, <1>6

\* The steps on a proposal other than proposing it.
LEMMA ProposalStepKeepsOutcome ==
  ASSUME GovernorInv, NEW q \in Proposals,
         \/ \E a \in Accounts : cancel(a, q) \/ \E support \in Supports : castVote(a, q, support)
         \/ queue(q) \/ execute(q) \/ executeBatch(q)
  PROVE  OutcomeKept
<1> SUFFICES ASSUME NEW p \in Proposals
             PROVE  /\ Defeated(p) => Defeated(p)'
                    /\ Won(p) => Won(p)' \/ Executed(p)'
                    /\ Executed(p) => Executed(p)'
                    /\ canceled[p] => canceled'[p] /\ ~Executed(p)'
  BY DEF OutcomeKept
<1>0. /\ now \in Nat /\ snapshot \in [Proposals -> Nat] /\ deadline \in [Proposals -> Nat]
      /\ canceled \in [Proposals -> BOOLEAN] /\ executed \in [Proposals -> BOOLEAN]
      /\ done \in [Proposals -> BOOLEAN] /\ tally \in [Proposals -> [Supports -> Nat]]
  BY DEF GovernorInv, GovernorTypeOK, TypeOK
<1>1. ASSUME NEW a \in Accounts, cancel(a, q)
      PROVE  /\ UNCHANGED <<now, snapshot, deadline, proposer, polled, tally, executed, done>>
             /\ Closed(p) \/ executed[p] \/ canceled[p] => canceled'[p] = canceled[p]
  <2>1. UNCHANGED <<now, snapshot, deadline, proposer, polled, tally, executed, done>>
    BY <1>1 DEF cancel, tokenVars
  <2>2. /\ canceled' = [canceled EXCEPT ![q] = TRUE]
        /\ ~executed[q] /\ ~canceled[q] /\ now <= snapshot[q]
    BY <1>1 DEF cancel, Pending, Undecided
  <2>3. CASE p # q BY <1>0, <2>1, <2>2, <2>3
  <2>4. CASE p = q
    <3>1. ~Closed(p) BY <1>0, <2>2, <2>4 DEF Closed
    <3> QED BY <2>1, <2>2, <2>4, <3>1
  <2> QED BY <2>3, <2>4
<1>2. ASSUME NEW a \in Accounts, NEW support \in Supports, castVote(a, q, support)
      PROVE  /\ UNCHANGED <<now, snapshot, deadline, proposer, polled, canceled, executed, done>>
             /\ snapshot[p] < now /\ deadline[p] < now => tally'[p] = tally[p]
  BY <1>0, <1>2 DEF castVote, Active, Undecided, tokenVars
<1>3. ASSUME queue(q)
      PROVE  UNCHANGED <<now, snapshot, deadline, proposer, polled, tally, canceled,
                         executed, done>>
  BY <1>3 DEF queue, tokenVars
<1>4. ASSUME execute(q) \/ executeBatch(q)
      PROVE  /\ UNCHANGED <<now, snapshot, deadline, proposer, polled, tally, canceled>>
             /\ done[p] => done'[p]
             /\ executed'[p] = executed[p] \/ (executed'[p] /\ done'[p] /\ Won(p))
  <2>1. now' = now BY <1>4, PerformKeepsToken DEF execute, executeBatch
  <2>2. CASE execute(q) BY <1>0, <2>1, <2>2 DEF execute, Queued
  <2>3. CASE executeBatch(q) BY <1>0, <2>1, <2>3 DEF executeBatch
  <2> QED BY <1>4, <2>2, <2>3
<1>5. now <= now BY <1>0
<1> QED BY <1>0, <1>1, <1>2, <1>3, <1>4, <1>5, OutcomeFramed

\* A closed vote keeps its outcome, and nothing executed or cancelled comes back.
THEOREM GovernorOutcomeFinal == GovernorSpec => OutcomeFinal
<1>1. GovernorInv /\ [GovernorNext]_governorVars => [OutcomeKept]_governorVars
  <2> SUFFICES ASSUME GovernorInv, GovernorNext PROVE OutcomeKept OBVIOUS
  <2>1. ASSUME NEW p \in Proposals, ProposalStep(p) PROVE OutcomeKept
    BY <2>1, ProposeKeepsOutcome, ProposalStepKeepsOutcome DEF ProposalStep
  <2>2. CASE TokenStep
    <3>1. PICK sender \in Accounts : HolderStep(sender) BY <2>2 DEF TokenStep
    <3>2. now' = now
      BY <3>1 DEF HolderStep, Transfer, Approve, TransferFrom, Soulbound, Delegate
    <3>3. UNCHANGED <<polled, proposalVars>> BY <2>2 DEF TokenStep
    <3>4. now \in Nat /\ now <= now BY DEF GovernorInv, GovernorTypeOK, TypeOK
    <3> QED BY <3>2, <3>3, <3>4, OutcomeFramed DEF OutcomeKept, proposalVars
  <2>3. CASE Elapse
    <3>1. now \in Nat /\ now' = now + 1 /\ UNCHANGED proposalVars
      BY <2>3 DEF GovernorInv, GovernorTypeOK, TypeOK, Elapse, Tick
    <3>2. now' \in Nat /\ now <= now' BY <3>1
    <3>3. ASSUME NEW p \in Proposals, snapshot[p] < now PROVE polled'[p] = polled[p]
      <4>1. snapshot[p] # now BY <3>1, <3>3 DEF GovernorInv, GovernorTypeOK
      <4> QED BY <2>3, <4>1 DEF Elapse
    <3> QED BY <3>1, <3>2, <3>3, OutcomeFramed DEF OutcomeKept, proposalVars
  <2> QED BY <2>1, <2>2, <2>3 DEF GovernorNext
<1>2. GovernorSpec => [][OutcomeKept]_governorVars
  BY <1>1, GovernorInvariant, PTL DEF GovernorSpec
<1> QED BY <1>2 DEF OutcomeFinal, OutcomeKept

-----------------------------------------------------------------------------
\* Neither settings change nor rooted tokens are released but by the call of a proposal that
\* is executed for the first time.
THEOREM GovernorGoverned == GovernorSpec => GovernedByProposals
<1> DEFINE Changed == settings' # settings
                        \/ \E a \in Accounts : soulboundBalances'[a] < soulboundBalances[a]
           FirstTime == \E p \in Proposals : done'[p] /\ ~done[p]
<1>1. GovernorInv /\ [GovernorNext]_governorVars => [Changed => FirstTime]_governorVars
  <2> SUFFICES ASSUME GovernorInv, GovernorNext, Changed PROVE FirstTime OBVIOUS
  <2>0. /\ done \in [Proposals -> BOOLEAN] /\ soulboundBalances \in [Accounts -> Nat]
        /\ supply \in Nat
    BY DEF GovernorInv, GovernorTypeOK, TypeOK
  <2>1. ASSUME NEW p \in Proposals, execute(p) \/ executeBatch(p) PROVE FirstTime
    BY <2>0, <2>1 DEF execute, executeBatch, Ready
  <2>2. ASSUME UNCHANGED settings,
               \A a \in Accounts : ~(soulboundBalances'[a] < soulboundBalances[a])
        PROVE  FALSE
    BY <2>2
  <2>3. ASSUME UNCHANGED <<settings, soulboundBalances>> PROVE FALSE
    <3>1. \A a \in Accounts : ~(soulboundBalances'[a] < soulboundBalances[a]) BY <2>0, <2>3
    <3> QED BY <2>2, <2>3, <3>1
  <2>4. ASSUME NEW p \in Proposals, ProposalStep(p) PROVE FirstTime
    <3> HIDE DEF Changed, FirstTime
    <3> QED BY <2>1, <2>3, <2>4
        DEF ProposalStep, propose, cancel, castVote, queue, tokenVars, rootVars
  <2>5. CASE TokenStep
    <3>1. UNCHANGED settings BY <2>5 DEF TokenStep
    <3>2. PICK sender \in Accounts : HolderStep(sender) BY <2>5 DEF TokenStep
    <3>3. ASSUME NEW n \in 0 .. supply, Soulbound(sender, n) PROVE FALSE
      <4>1. \A a \in Accounts : ~(soulboundBalances'[a] < soulboundBalances[a])
        BY <2>0, <3>3 DEF Soulbound, Root, Credit
      <4> QED BY <2>2, <3>1, <4>1
    <3>4. ASSUME UNCHANGED soulboundBalances PROVE FALSE BY <2>3, <3>1, <3>4
    <3> QED BY <3>2, <3>3, <3>4
        DEF HolderStep, Transfer, Approve, TransferFrom, Delegate, rootVars
  <2>6. CASE Elapse
    <3>1. UNCHANGED <<settings, soulboundBalances>> BY <2>6 DEF Elapse, Tick, rootVars
    <3> QED BY <2>3, <3>1
  <2> QED BY <2>4, <2>5, <2>6 DEF GovernorNext
<1>2. GovernorSpec => [][Changed => FirstTime]_governorVars
  <2> HIDE DEF Changed, FirstTime
  <2> QED BY <1>1, GovernorInvariant, PTL DEF GovernorSpec
<1> QED BY <1>2 DEF GovernedByProposals

-----------------------------------------------------------------------------
(* The decisions about proposals *)

\* Nothing is cancelled that was not proposed.
CanceledProposed == \A p \in Proposals : canceled[p] => Proposed(p)

DecisionInv == GovernorInv /\ CanceledProposed

\* The deployed DAO has no proposals.
LEMMA InitDecisionInv == GovernorInit => DecisionInv
BY InitGovernorInv DEF GovernorInit, DecisionInv, CanceledProposed

\* Every step keeps it: what is cancelled was pending.
LEMMA NextKeepsDecisionInv == DecisionInv /\ [GovernorNext]_governorVars => DecisionInv'
<1> SUFFICES ASSUME DecisionInv, [GovernorNext]_governorVars PROVE DecisionInv' OBVIOUS
<1>1. GovernorInv' BY NextKeepsGovernorInv DEF DecisionInv
<1>2. /\ canceled \in [Proposals -> BOOLEAN] /\ proposer \in [Proposals -> Accounts \cup {Zero}]
  BY DEF DecisionInv, GovernorInv, GovernorTypeOK
<1>3. ASSUME UNCHANGED <<proposer, canceled>> PROVE CanceledProposed'
  BY <1>3 DEF DecisionInv, CanceledProposed, Proposed
<1>4. ASSUME NEW a \in Accounts, NEW p \in Proposals, propose(a, p) PROVE CanceledProposed'
  <2>1. Zero \notin Accounts BY TokenAssumption DEF TokenAssumption
  <2> QED BY <1>2, <1>4, <2>1 DEF propose, DecisionInv, CanceledProposed, Proposed
<1>5. ASSUME NEW a \in Accounts, NEW p \in Proposals, cancel(a, p) PROVE CanceledProposed'
  BY <1>2, <1>5 DEF cancel, Pending, Undecided, DecisionInv, CanceledProposed, Proposed
<1>6. ASSUME NEW p \in Proposals, ProposalStep(p) PROVE CanceledProposed'
  BY <1>3, <1>4, <1>5, <1>6 DEF ProposalStep, castVote, queue, execute, executeBatch
<1>7. TokenStep \/ Elapse \/ UNCHANGED governorVars => UNCHANGED <<proposer, canceled>>
  BY DEF TokenStep, Elapse, governorVars, proposalVars
<1> QED BY <1>1, <1>3, <1>6, <1>7 DEF GovernorNext, DecisionInv

\* In every reachable state only proposals are cancelled and quorums are shares.
LEMMA DecisionInvariant == GovernorSpec => []DecisionInv
BY InitDecisionInv, NextKeepsDecisionInv, PTL DEF GovernorSpec

\* The state of a proposal by what is recorded of it, the clock and the result of its vote.
Recorded(p) ==
  IF ~Proposed(p) THEN "unknown"
  ELSE IF canceled[p] THEN "canceled"
  ELSE IF done[p] THEN "executed"
  ELSE IF eta[p] # 0 THEN "queued"
  ELSE IF now <= snapshot[p] \/ now <= deadline[p] THEN "open"
  ELSE IF quorumReached(p) /\ voteSucceeded(p) THEN "succeeded" ELSE "defeated"

\* The contract's nested questions about a proposal have one answer, read off its record.
LEMMA StateIsRecorded == DecisionInv => \A p \in Proposals : ProposalState(p) = Recorded(p)
<1> SUFFICES ASSUME DecisionInv, NEW p \in Proposals PROVE ProposalState(p) = Recorded(p)
  OBVIOUS
<1>1. /\ canceled[p] => Proposed(p)
      /\ executed[p] => done[p]
      /\ done[p] => eta[p] # 0
      /\ eta[p] # 0 => /\ Proposed(p) /\ ~canceled[p]
                       /\ snapshot[p] < now /\ deadline[p] < now
                       /\ quorumReached(p) /\ voteSucceeded(p)
  BY DEF DecisionInv, GovernorInv, ScheduledWon, CanceledProposed
<1>2. /\ now \in Nat /\ snapshot[p] \in Nat /\ deadline[p] \in Nat
      /\ (now <= snapshot[p]) <=> ~(snapshot[p] < now)
      /\ (now <= deadline[p]) <=> ~(deadline[p] < now)
  <2>1. now \in Nat /\ snapshot[p] \in Nat /\ deadline[p] \in Nat
    BY DEF DecisionInv, GovernorInv, GovernorTypeOK, TypeOK
  <2> QED BY <2>1
<1> DEFINE wins == quorumReached(p) /\ voteSucceeded(p)
<1>3. Proposed(p) /\ ~canceled[p] /\ ~done[p] => Undecided(p) BY <1>1 DEF Undecided
<1>4. CASE ~Proposed(p) BY <1>1, <1>4 DEF ProposalState, Recorded, Pending, Active, Defeated,
        Succeeded, Queued, Executed, Won, Closed, Undecided
<1>5. CASE Proposed(p) /\ canceled[p]
  BY <1>1, <1>5 DEF ProposalState, Recorded, Pending, Active, Defeated,
        Succeeded, Queued, Executed, Won, Closed, Undecided
<1>6. CASE Proposed(p) /\ ~canceled[p] /\ done[p]
  BY <1>1, <1>2, <1>6 DEF ProposalState, Recorded, Pending, Active, Defeated,
        Succeeded, Queued, Executed, Won, Closed, Undecided
<1>7. CASE Proposed(p) /\ ~canceled[p] /\ ~done[p] /\ eta[p] # 0
  BY <1>1, <1>2, <1>7 DEF ProposalState, Recorded, Pending, Active, Defeated,
        Succeeded, Queued, Executed, Won, Closed, Undecided
<1>8. CASE Proposed(p) /\ ~canceled[p] /\ ~done[p] /\ eta[p] = 0
  BY <1>1, <1>2, <1>8 DEF ProposalState, Recorded, Pending, Active, Defeated,
        Succeeded, Queued, Executed, Won, Closed, Undecided
<1> QED BY <1>4, <1>5, <1>6, <1>7, <1>8

\* The same of all proposals, as a formula of its own so that it can be primed.
StatesRecorded == \A p \in Proposals : ProposalState(p) = Recorded(p)

\* It holds after a step as well.
LEMMA NextStateIsRecorded == DecisionInv' => StatesRecorded'
<1>1. DecisionInv => StatesRecorded BY StateIsRecorded DEF StatesRecorded
<1> QED BY <1>1, PTL

\* A step of the abstract specification, or none.
DecisionStep == [Decisions!Next]_(Decisions!decisions)

\* What the steps below have in common: the types and the states before and after.
LEMMA DecisionFacts ==
  ASSUME DecisionInv, [GovernorNext]_governorVars
  PROVE  /\ \A p \in Proposals : ProposalState(p) = Recorded(p) /\ ProposalState(p)' = Recorded(p)'
         /\ now \in Nat /\ now > 0
         /\ snapshot \in [Proposals -> Nat] /\ deadline \in [Proposals -> Nat]
         /\ canceled \in [Proposals -> BOOLEAN] /\ done \in [Proposals -> BOOLEAN]
         /\ eta \in [Proposals -> Nat] /\ proposer \in [Proposals -> Accounts \cup {Zero}]
         /\ tally \in [Proposals -> [Supports -> Nat]]
         /\ soulboundBalances \in [Accounts -> Nat] /\ supply \in Nat
<1>1. DecisionInv' BY NextKeepsDecisionInv
<1>2. StatesRecorded' BY <1>1, NextStateIsRecorded
<1> QED BY <1>2, StateIsRecorded
        DEF StatesRecorded, DecisionInv, GovernorInv, GovernorTypeOK, TypeOK

\* A proposal whose record does not change, in a step that takes no time and leaves its poll
\* and tally as they are, keeps its state.
LEMMA StateKept ==
  ASSUME DecisionInv, [GovernorNext]_governorVars, NEW p \in Proposals, now' = now,
         proposer'[p] = proposer[p], canceled'[p] = canceled[p], done'[p] = done[p],
         eta'[p] = eta[p], snapshot'[p] = snapshot[p], deadline'[p] = deadline[p],
         polled'[p] = polled[p],
         snapshot[p] < now /\ deadline[p] < now => tally'[p] = tally[p]
  PROVE  ProposalState(p)' = ProposalState(p)
<1>1. ProposalState(p) = Recorded(p) /\ ProposalState(p)' = Recorded(p)' BY DecisionFacts
<1>2. /\ now \in Nat /\ snapshot[p] \in Nat /\ deadline[p] \in Nat BY DecisionFacts
<1>3. CASE now <= snapshot[p] \/ now <= deadline[p]
  BY <1>1, <1>3 DEF Recorded, Proposed
<1>4. CASE snapshot[p] < now /\ deadline[p] < now
  <2>1. /\ quorumReached(p)' = quorumReached(p)
        /\ voteSucceeded(p)' = voteSucceeded(p)
    BY <1>4, ResultKept
  <2> QED BY <1>1, <2>1 DEF Recorded, Proposed
<1> QED BY <1>2, <1>3, <1>4

\* Steps that are none of a decision.
LEMMA AloneIsStutter ==
  ASSUME \A p \in Proposals : ProposalState(p)' = ProposalState(p),
         UNCHANGED <<settings, soulboundBalances>>
  PROVE  DecisionStep
BY DEF DecisionStep, Decisions!decisions, Decisions!governed

\* A step that changes the state of one proposal.
LEMMA OneBecomes ==
  ASSUME NEW q \in Proposals, NEW from, NEW to, ProposalState(q) = from, ProposalState(q)' = to,
         \A p \in Proposals \ {q} : ProposalState(p)' = ProposalState(p)
  PROVE  Decisions!Become(q, from, to)
BY DEF Decisions!Become

\* Proposing opens a proposal that has no state yet.
LEMMA ProposeDecides ==
  ASSUME DecisionInv, [GovernorNext]_governorVars, NEW a \in Accounts, NEW q \in Proposals,
         propose(a, q)
  PROVE  DecisionStep
<1>1. \A p \in Proposals \ {q} : ProposalState(p)' = ProposalState(p)
  BY StateKept, DecisionFacts DEF propose, tokenVars
<1>2. ProposalState(q) = "unknown" BY DecisionFacts DEF propose, Recorded
<1>3. ProposalState(q)' = "open"
  <2>1. ProposalState(q)' = Recorded(q)' BY DecisionFacts
  <2>2. a # Zero BY TokenAssumption DEF TokenAssumption
  <2>3. ~canceled[q] /\ eta[q] = 0 /\ ~done[q]
    BY DEF propose, DecisionInv, CanceledProposed, GovernorInv, ScheduledWon
  <2>4. settings["voting-delay"] \in Nat
    BY DEF DecisionInv, GovernorInv, GovernorTypeOK, Settings
  <2>5. now' <= snapshot'[q]
    BY <2>4, DecisionFacts DEF propose, tokenVars
  <2>6. Proposed(q)' BY <2>2, DecisionFacts DEF propose, Proposed
  <2> QED BY <2>1, <2>3, <2>5, <2>6 DEF propose, Recorded
<1>4. Decisions!Become(q, "unknown", "open") BY <1>1, <1>2, <1>3, OneBecomes
<1>5. UNCHANGED <<settings, soulboundBalances>>
  BY DEF propose, tokenVars, rootVars
<1> QED BY <1>4, <1>5 DEF DecisionStep, Decisions!Next, Decisions!Decide, Decisions!governed

\* Cancelling closes one that is open.
LEMMA CancelDecides ==
  ASSUME DecisionInv, [GovernorNext]_governorVars, NEW a \in Accounts, NEW q \in Proposals,
         cancel(a, q)
  PROVE  DecisionStep
<1>1. \A p \in Proposals \ {q} : ProposalState(p)' = ProposalState(p)
  BY StateKept, DecisionFacts DEF cancel, tokenVars
<1>2. Pending(q) /\ eta[q] = 0 /\ ~done[q]
  BY DecisionFacts DEF cancel, Pending, DecisionInv, GovernorInv, ScheduledWon
<1>3. ProposalState(q) = "open"
  BY <1>2, DecisionFacts DEF Recorded, Pending, Undecided
<1>4. ProposalState(q)' = "canceled"
  <2>1. ProposalState(q)' = Recorded(q)' BY DecisionFacts
  <2>2. canceled'[q] /\ proposer'[q] = proposer[q] BY DecisionFacts DEF cancel
  <2> QED BY <1>2, <2>1, <2>2 DEF Recorded, Pending, Undecided, Proposed
<1>5. Decisions!Become(q, "open", "canceled") BY <1>1, <1>3, <1>4, OneBecomes
<1>6. UNCHANGED <<settings, soulboundBalances>>
  BY DEF cancel, tokenVars, rootVars
<1> QED BY <1>5, <1>6 DEF DecisionStep, Decisions!Next, Decisions!Decide, Decisions!governed

\* Votes are counted while a proposal is open, so that none changes a state.
LEMMA CastVoteDecidesNothing ==
  ASSUME DecisionInv, [GovernorNext]_governorVars, NEW a \in Accounts, NEW q \in Proposals,
         NEW support \in Supports, castVote(a, q, support)
  PROVE  DecisionStep
<1>1. ASSUME NEW p \in Proposals, snapshot[p] < now, deadline[p] < now
      PROVE  tally'[p] = tally[p]
  BY <1>1, DecisionFacts DEF castVote, Active
<1>2. \A p \in Proposals : ProposalState(p)' = ProposalState(p)
  BY <1>1, StateKept DEF castVote, tokenVars
<1> QED BY <1>2, AloneIsStutter DEF castVote, tokenVars, rootVars

\* Scheduling takes one that succeeded.
LEMMA QueueDecides ==
  ASSUME DecisionInv, [GovernorNext]_governorVars, NEW q \in Proposals, queue(q)
  PROVE  DecisionStep
<1>1. \A p \in Proposals \ {q} : ProposalState(p)' = ProposalState(p)
  BY StateKept, DecisionFacts DEF queue, tokenVars
<1>2. /\ Proposed(q) /\ ~canceled[q] /\ eta[q] = 0 /\ ~done[q]
      /\ snapshot[q] < now /\ deadline[q] < now /\ quorumReached(q) /\ voteSucceeded(q)
  BY DEF queue, Succeeded, Won, Closed, Undecided, DecisionInv, GovernorInv, ScheduledWon
<1>3. ProposalState(q) = "succeeded"
  BY <1>2, DecisionFacts DEF Recorded
<1>4. ProposalState(q)' = "queued"
  <2>1. ProposalState(q)' = Recorded(q)' BY DecisionFacts
  <2>2. eta'[q] # 0
    <3>1. settings["timelock-delay"] \in Nat
      BY DEF DecisionInv, GovernorInv, GovernorTypeOK, Settings
    <3> QED BY <3>1, DecisionFacts DEF queue
  <2>3. UNCHANGED <<proposer, canceled, done>> BY DEF queue
  <2> QED BY <1>2, <2>1, <2>2, <2>3 DEF Recorded, Proposed
<1>5. Decisions!Become(q, "succeeded", "queued") BY <1>1, <1>3, <1>4, OneBecomes
<1>6. UNCHANGED <<settings, soulboundBalances>>
  BY DEF queue, tokenVars, rootVars
<1> QED BY <1>5, <1>6 DEF DecisionStep, Decisions!Next, Decisions!Decide, Decisions!governed

\* What a call does is what its decision may do.
LEMMA PerformIsEffect ==
  ASSUME DecisionInv, NEW q \in Proposals, Perform(Call[q])
  PROVE  Decisions!Effect(Call[q])
<1> DEFINE c == Call[q]
<1>1. CASE /\ c.kind = "unroot" /\ Unsoulbound(Dao, c.account, c.amount)
           /\ UNCHANGED settings
  BY <1>1 DEF Unsoulbound, Release, Debit, Decisions!Effect, Decisions!Debit
<1>2. CASE c.kind \in Settings /\ ChangeSetting(c.kind, c.amount)
  BY <1>2 DEF ChangeSetting, tokenVars, rootVars, Decisions!Effect
<1> QED BY <1>1, <1>2 DEF Perform

\* Executing, through the governor or past it, takes a scheduled one and has its call's effect.
LEMMA ExecuteDecides ==
  ASSUME DecisionInv, [GovernorNext]_governorVars, NEW q \in Proposals,
         execute(q) \/ executeBatch(q)
  PROVE  DecisionStep
<1>1. /\ UNCHANGED <<polled, proposer, snapshot, deadline, tally, canceled, eta>>
      /\ done' = [done EXCEPT ![q] = TRUE]
      /\ Perform(Call[q]) /\ Ready(q)
  BY DEF execute, executeBatch
<1>2. now' = now BY <1>1, PerformKeepsToken DEF DecisionInv
<1>3. \A p \in Proposals \ {q} : ProposalState(p)' = ProposalState(p)
  BY <1>1, <1>2, StateKept, DecisionFacts
<1>4. Proposed(q) /\ ~canceled[q] /\ eta[q] # 0 /\ ~done[q]
  BY <1>1 DEF Ready, DecisionInv, GovernorInv, ScheduledWon
<1>5. ProposalState(q) = "queued" BY <1>4, DecisionFacts DEF Recorded
<1>6. ProposalState(q)' = "executed"
  <2>1. ProposalState(q)' = Recorded(q)' BY DecisionFacts
  <2>2. done'[q] BY <1>1, DecisionFacts
  <2> QED BY <1>1, <1>4, <2>1, <2>2 DEF Recorded, Proposed
<1>7. Decisions!Become(q, "queued", "executed") BY <1>3, <1>5, <1>6, OneBecomes
<1>8. Decisions!Effect(Call[q]) BY <1>1, PerformIsEffect
<1> QED BY <1>7, <1>8 DEF DecisionStep, Decisions!Next, Decisions!Decide

\* Whatever holders do, rooted tokens do not become fewer.
LEMMA HoldersOnlyBind ==
  ASSUME DecisionInv, [GovernorNext]_governorVars, TokenStep
  PROVE  DecisionStep
<1>1. PICK sender \in Accounts : HolderStep(sender) BY DEF TokenStep
<1>2. now' = now
  BY <1>1 DEF HolderStep, Transfer, Approve, TransferFrom, Soulbound, Delegate
<1>3. UNCHANGED <<settings, polled, proposalVars>> BY DEF TokenStep
<1>4. \A p \in Proposals : ProposalState(p)' = ProposalState(p)
  BY <1>2, <1>3, StateKept DEF proposalVars
<1>5. CASE UNCHANGED soulboundBalances BY <1>3, <1>4, <1>5, AloneIsStutter
<1>6. ASSUME NEW n \in 0 .. supply, Soulbound(sender, n) PROVE DecisionStep
  <2>1. n \in Nat /\ soulboundBalances \in [Accounts -> Nat] BY DecisionFacts
  <2>2. /\ soulboundBalances' \in [Accounts -> Nat]
        /\ \A a \in Accounts : soulboundBalances'[a] >= soulboundBalances[a]
    BY <1>6, <2>1 DEF Soulbound, Root, Credit
  <2>3. [p \in Proposals |-> ProposalState(p)'] = [p \in Proposals |-> ProposalState(p)]
    BY <1>4
  <2> QED BY <1>3, <2>2, <2>3 DEF DecisionStep, Decisions!Next, Decisions!Bind
<1> QED BY <1>1, <1>5, <1>6
        DEF HolderStep, Transfer, Approve, TransferFrom, Delegate, rootVars

\* Time closes votes and decides nothing anew.
LEMMA TimeCloses ==
  ASSUME DecisionInv, [GovernorNext]_governorVars, Elapse
  PROVE  DecisionStep
<1>1. /\ UNCHANGED <<settings, soulboundBalances, proposalVars>>
      /\ now \in Nat /\ now' = now + 1
  BY DecisionFacts DEF Elapse, Tick, rootVars
<1>2. ASSUME NEW p \in Proposals
      PROVE  /\ ProposalState(p)' \in Decisions!States
             /\ ProposalState(p)' # ProposalState(p) =>
                  ProposalState(p) = "open" /\ ProposalState(p)' \in {"defeated", "succeeded"}
  <2>1. ProposalState(p) = Recorded(p) /\ ProposalState(p)' = Recorded(p)' BY DecisionFacts
  <2>2. snapshot[p] \in Nat /\ deadline[p] \in Nat BY DecisionFacts
  <2>3. Recorded(p)' \in Decisions!States BY DEF Recorded, Decisions!States
  <2>4. CASE now <= snapshot[p] \/ now <= deadline[p]
    BY <1>1, <2>1, <2>3, <2>4 DEF Recorded, Proposed, proposalVars
  <2>5. CASE snapshot[p] < now /\ deadline[p] < now
    <3>1. polled'[p] = polled[p] /\ tally'[p] = tally[p]
      <4>1. snapshot[p] # now BY <1>1, <2>2, <2>5
      <4> QED BY <1>1, <4>1 DEF Elapse, proposalVars
    <3>2. quorumReached(p)' = quorumReached(p) /\ voteSucceeded(p)' = voteSucceeded(p)
      BY <3>1, ResultKept
    <3>3. ~(now <= snapshot[p] \/ now <= deadline[p]) BY <1>1, <2>2, <2>5
    <3>4. ~(now' <= snapshot'[p] \/ now' <= deadline'[p])
      <4>1. ~(now + 1 <= snapshot[p] \/ now + 1 <= deadline[p]) BY <1>1, <2>2, <2>5
      <4> QED BY <1>1, <4>1 DEF proposalVars
    <3>5. Recorded(p)' = Recorded(p)
      BY <1>1, <3>2, <3>3, <3>4 DEF Recorded, Proposed, proposalVars
    <3> QED BY <2>1, <2>3, <3>5
  <2> QED BY <1>1, <2>2, <2>4, <2>5
<1>3. Decisions!Close BY <1>1, <1>2 DEF Decisions!Close, Decisions!governed
<1> QED BY <1>3 DEF DecisionStep, Decisions!Next

\* Every step of the governor is one of the abstract specification, or none.
LEMMA GovernorStepDecides == DecisionInv /\ [GovernorNext]_governorVars => DecisionStep
<1> SUFFICES ASSUME DecisionInv, [GovernorNext]_governorVars PROVE DecisionStep OBVIOUS
<1>1. ASSUME NEW p \in Proposals, ProposalStep(p) PROVE DecisionStep
  BY <1>1, ProposeDecides, CancelDecides, CastVoteDecidesNothing, QueueDecides, ExecuteDecides
     DEF ProposalStep
<1>2. CASE TokenStep BY <1>2, HoldersOnlyBind
<1>3. CASE Elapse BY <1>3, TimeCloses
<1>4. CASE UNCHANGED governorVars
  <2>1. \A p \in Proposals : ProposalState(p)' = ProposalState(p)
    BY <1>4, StateKept DEF governorVars, proposalVars, tokenVars
  <2> QED BY <1>4, <2>1, AloneIsStutter DEF governorVars, tokenVars, rootVars
<1> QED BY <1>1, <1>2, <1>3, <1>4 DEF GovernorNext

\* At deployment no proposal has a state.
LEMMA GovernorStartsUndecided == GovernorInit => Decisions!Init
<1> SUFFICES ASSUME GovernorInit PROVE Decisions!Init OBVIOUS
<1>1. \A p \in Proposals : ProposalState(p) = "unknown"
  <2>1. DecisionInv BY InitDecisionInv
  <2> QED BY <2>1, StateIsRecorded DEF GovernorInit, Recorded, Proposed
<1> QED BY <1>1 DEF GovernorInit, InitTokens, Decisions!Init

\* The governor implements ProposalDecisions: whatever is proposed, voted, scheduled and
\* executed, in whichever order and past the governor or not, every proposal is decided once
\* and has its own effect once.
THEOREM GovernorImplementsDecisions == GovernorSpec => ImplementsDecisions
<1>1. DecisionInv /\ [GovernorNext]_governorVars => DecisionStep BY GovernorStepDecides
<1>2. GovernorSpec => [][Decisions!Next]_(Decisions!decisions)
  BY <1>1, DecisionInvariant, PTL DEF GovernorSpec, DecisionStep
<1> QED BY <1>2, GovernorStartsUndecided, PTL
        DEF GovernorSpec, ImplementsDecisions, Decisions!Spec

-----------------------------------------------------------------------------
(* The token under its governor *)

\* The token's own calls and steps are those of MarketplaceToken, those that proposals make
\* included, so that every step of the governor is one of the token or leaves it alone.
LEMMA GovernorStepIsTokenStep ==
  ASSUME GovernorInv, [GovernorNext]_governorVars
  PROVE  [Next]_tokenVars
<1> USE TokenAssumption, GovernorAssumption DEF TokenAssumption, GovernorAssumption
<1>1. ASSUME UNCHANGED tokenVars PROVE [Next]_tokenVars BY <1>1
<1>2. ASSUME NEW p \in Proposals, Perform(Call[p]) PROVE [Next]_tokenVars
  <2>1. CASE Call[p].kind = "unroot" /\ Unsoulbound(Dao, Call[p].account, Call[p].amount)
    <3>1. Call[p] \in [kind : {"unroot"}, account : Accounts, amount : Nat]
      BY <2>1 DEF Calls, Settings
    <3>2. /\ Call[p].account \in Accounts /\ Call[p].amount \in Nat
          /\ Call[p].amount <= soulboundBalances[Call[p].account]
          /\ Dao \in Accounts
      BY <2>1, <3>1 DEF Unsoulbound
    <3>3. /\ soulboundBalances[Call[p].account] <= balance[Call[p].account]
          /\ balance \in [Accounts -> Nat] /\ soulboundBalances \in [Accounts -> Nat]
          /\ supply \in Nat
      BY <3>2 DEF GovernorInv, TokenInv, TypeOK, RootedWithinBalance
    <3>4. balance[Call[p].account] <= supply
      <4>1. /\ Total(balance, Accounts)
                  = Total(balance, Accounts \ {Call[p].account}) + balance[Call[p].account]
            /\ Total(balance, Accounts \ {Call[p].account}) \in Nat
        BY <3>2, <3>3, SplitTotal
      <4>2. Total(balance, Accounts) = supply
        BY DEF GovernorInv, TokenInv, SupplyConserved
      <4> QED BY <3>2, <3>3, <4>1, <4>2
    <3>5. Call[p].amount \in 0 .. supply BY <3>2, <3>3, <3>4
    <3> QED BY <2>1, <3>2, <3>5 DEF ControlStep, Next
  <2>2. CASE Call[p].kind \in Settings /\ ChangeSetting(Call[p].kind, Call[p].amount)
    BY <2>2 DEF ChangeSetting
  <2>3. CASE UNCHANGED <<tokenVars, settings>> BY <2>3
  <2> QED BY <1>2, <2>1, <2>2, <2>3 DEF Perform
<1>3. ASSUME NEW p \in Proposals, ProposalStep(p) PROVE [Next]_tokenVars
  BY <1>1, <1>2, <1>3
     DEF ProposalStep, propose, cancel, castVote, queue, execute, executeBatch
<1>4. CASE TokenStep BY <1>4 DEF TokenStep, Next
<1>5. CASE Elapse BY <1>5 DEF Elapse, Next
<1>6. CASE UNCHANGED governorVars BY <1>6 DEF governorVars
<1> QED BY <1>3, <1>4, <1>5, <1>6 DEF GovernorNext

\* The DAO starts with a token whose supply is in one liquid pocket.
LEMMA InitGovernedLedger == GovernorInit => Ledger!Init
<1> SUFFICES ASSUME GovernorInit PROVE Ledger!Init OBVIOUS
<1>1. supply \in Nat /\ supply \in Supplies /\ Deployer \in Accounts
  BY TokenAssumption DEF GovernorInit, InitTokens, TokenAssumption
<1>2. [a \in Accounts |-> liquidBalanceOf(a)]
        = [a \in Accounts |-> IF a = Deployer THEN supply ELSE 0]
  BY <1>1 DEF GovernorInit, InitTokens, liquidBalanceOf
<1>3. soulboundBalances = [a \in Accounts |-> 0] BY DEF GovernorInit, InitTokens
<1> QED BY <1>1, <1>2, <1>3 DEF Ledger!Init

\* Whatever proposals decide, with any settings they give themselves, the token they govern
\* still is the ledger of liquid and rooted pockets.
THEOREM GovernorKeepsLedger == GovernorSpec => ImplementsLedger
<1>1. GovernorInv => TokenInv BY DEF GovernorInv
<1>2. GovernorInv /\ [GovernorNext]_governorVars => LedgerStep
  BY <1>1, GovernorStepIsTokenStep, TokenStepIsLedgerStep
<1>3. GovernorSpec => [][Ledger!Next]_(Ledger!pockets)
  BY <1>2, GovernorInvariant, PTL DEF GovernorSpec, LedgerStep
<1> QED BY <1>3, InitGovernedLedger, PTL DEF GovernorSpec, ImplementsLedger, Ledger!Spec

\* The checkpoint arithmetic never stands in the way of what a proposal releases, nor of what
\* holders root or delegate while proposals are decided.
THEOREM GovernorVotingNeverReverts == GovernorSpec => []VotingNeverReverts
<1>1. GovernorInv => TokenInv BY DEF GovernorInv
<1> QED BY <1>1, TokenInvVotes, GovernorInvariant, PTL

\* However long a period of rooting lasts, no vote shifts its start.
THEOREM GovernorKeepsPeriods == GovernorSpec => ContinuousPeriod
<1>1. GovernorInv => TokenInv BY DEF GovernorInv
<1>2. GovernorInv /\ [GovernorNext]_governorVars => [PeriodKept]_tokenVars
  BY <1>1, GovernorStepIsTokenStep, NextKeepsPeriod
<1>3. GovernorSpec => [][PeriodKept]_tokenVars
  BY <1>2, GovernorInvariant, PTL DEF GovernorSpec
<1> QED BY <1>3 DEF ContinuousPeriod, PeriodKept

-----------------------------------------------------------------------------
(* The page of a proposal *)

\* What the page has read is not of the future, and the snapshot it read is the proposal's.
PageInv ==
  /\ timestamp \in Nat /\ timestamp <= now
  /\ timestamp # 0 => Proposed(Viewed)
  /\ read # 0 => timestamp # 0 /\ read = snapshot[Viewed]

\* Nothing is looked up before the snapshot is known.
Unanswered == read = 0 => DOMAIN answers = {}

ViewInv ==
  /\ GovernorInv
  /\ PageInv
  /\ Unanswered
  /\ ShownPollIsFinal

\* Nothing changes when the snapshot of a proposal is, nor, once it is past, what it holds.
LEMMA SnapshotIsFinal ==
  ASSUME GovernorInv, [GovernorNext]_governorVars, NEW p \in Proposals, Proposed(p)
  PROVE  /\ Proposed(p)' /\ snapshot'[p] = snapshot[p]
         /\ now' \in Nat /\ now <= now'
         /\ snapshot[p] < now => polled'[p] = polled[p]
<1>0. now \in Nat /\ now <= now /\ snapshot[p] \in Nat
  BY DEF GovernorInv, GovernorTypeOK, TypeOK
<1>1. ASSUME UNCHANGED <<now, polled>>, proposer'[p] = proposer[p], snapshot'[p] = snapshot[p]
      PROVE  /\ Proposed(p)' /\ snapshot'[p] = snapshot[p]
             /\ now' \in Nat /\ now <= now'
             /\ snapshot[p] < now => polled'[p] = polled[p]
  BY <1>0, <1>1 DEF Proposed
<1>2. ASSUME NEW q \in Proposals, ProposalStep(q)
      PROVE  UNCHANGED <<now, polled>> /\ proposer'[p] = proposer[p] /\ snapshot'[p] = snapshot[p]
  <2>1. ASSUME NEW a \in Accounts, propose(a, q)
        PROVE  /\ UNCHANGED <<now, polled>> /\ proposer'[p] = proposer[p]
               /\ snapshot'[p] = snapshot[p]
    <3>1. p # q BY <2>1 DEF propose
    <3>2. /\ UNCHANGED <<now, polled>>
          /\ proposer' = [proposer EXCEPT ![q] = a]
          /\ snapshot' = [snapshot EXCEPT ![q] = now + settings["voting-delay"]]
      BY <2>1 DEF propose, tokenVars
    <3> QED BY <3>1, <3>2 DEF GovernorInv, GovernorTypeOK
  <2>2. ASSUME execute(q) \/ executeBatch(q)
        PROVE  UNCHANGED <<now, polled, proposer, snapshot>>
    BY <2>2, PerformKeepsToken DEF execute, executeBatch
  <2>3. ASSUME NEW a \in Accounts, NEW support \in Supports,
               cancel(a, q) \/ castVote(a, q, support) \/ queue(q)
        PROVE  UNCHANGED <<now, polled, proposer, snapshot>>
    BY <2>3 DEF cancel, castVote, queue, tokenVars
  <2>4. CASE queue(q)
    BY <2>4 DEF queue, tokenVars
  <2> QED BY <1>2, <2>1, <2>2, <2>3, <2>4 DEF ProposalStep, Supports
<1>3. CASE TokenStep
  <2>1. PICK sender \in Accounts : HolderStep(sender) BY <1>3 DEF TokenStep
  <2>2. now' = now
    BY <2>1 DEF HolderStep, Transfer, Approve, TransferFrom, Soulbound, Delegate
  <2>3. UNCHANGED <<polled, proposer, snapshot>> BY <1>3 DEF TokenStep, proposalVars
  <2> QED BY <1>1, <2>2, <2>3
<1>4. CASE Elapse
  <2>1. now' = now + 1 /\ UNCHANGED <<proposer, snapshot>>
    BY <1>4 DEF Elapse, Tick, proposalVars
  <2>2. now' \in Nat /\ now <= now' BY <1>0, <2>1
  <2>3. snapshot[p] < now => polled'[p] = polled[p]
    <3>1. snapshot[p] < now => snapshot[p] # now BY <1>0
    <3> QED BY <1>4, <3>1 DEF Elapse
  <2> QED BY <2>1, <2>2, <2>3 DEF Proposed
<1>5. CASE UNCHANGED governorVars
  <2>1. UNCHANGED <<now, polled, proposer, snapshot>>
    BY <1>5 DEF governorVars, tokenVars, proposalVars
  <2> QED BY <1>1, <2>1
<1> QED BY <1>1, <1>2, <1>3, <1>4, <1>5 DEF GovernorNext

LEMMA InitViewInv == ViewInit => ViewInv
<1> SUFFICES ASSUME ViewInit PROVE ViewInv OBVIOUS
<1>1. GovernorInv BY InitGovernorInv DEF ViewInit
<1>2. now \in Nat BY <1>1 DEF GovernorInv, GovernorTypeOK, TypeOK
<1>3. PageInv BY <1>2 DEF ViewInit, PageInv
<1>4. ShownPollIsFinal BY DEF ViewInit, ShownPollIsFinal
<1>5. Unanswered BY DEF ViewInit, Unanswered
<1> QED BY <1>1, <1>3, <1>4, <1>5 DEF ViewInv

\* A step of the governor leaves what was shown of a poll that is over true.
LEMMA GovernorStepKeepsViewInv ==
  ASSUME ViewInv, [GovernorNext]_governorVars, UNCHANGED pageVars
  PROVE  ViewInv'
<1> USE ViewAssumption DEF ViewAssumption
<1>1. GovernorInv' BY NextKeepsGovernorInv DEF ViewInv
<1>2. UNCHANGED <<timestamp, before, read, answers>> BY DEF pageVars
<1>3. now \in Nat /\ now' \in Nat BY <1>1 DEF ViewInv, GovernorInv, GovernorTypeOK, TypeOK
<1>4. now <= now'
  <2>1. ASSUME NEW q \in Proposals, ProposalStep(q) PROVE now' = now
    BY <2>1, PerformKeepsToken
       DEF ViewInv, ProposalStep, propose, cancel, castVote, queue, execute, executeBatch, tokenVars
  <2>2. CASE TokenStep
    <3>1. PICK sender \in Accounts : HolderStep(sender) BY <2>2 DEF TokenStep
    <3> QED BY <1>3, <3>1 DEF HolderStep, Transfer, Approve, TransferFrom, Soulbound, Delegate
  <2>3. CASE Elapse BY <1>3, <2>3 DEF Elapse, Tick
  <2>4. CASE UNCHANGED governorVars BY <1>3, <2>4 DEF governorVars, tokenVars
  <2> QED BY <1>3, <2>1, <2>2, <2>3, <2>4 DEF GovernorNext
<1>5. PageInv'
  <2>1. timestamp # 0 => Proposed(Viewed)' /\ snapshot'[Viewed] = snapshot[Viewed]
    BY SnapshotIsFinal DEF ViewInv, PageInv
  <2> QED BY <1>2, <1>3, <1>4, <2>1 DEF ViewInv, PageInv
<1>6. ShownPollIsFinal'
  <2> SUFFICES ASSUME read # 0, read < timestamp
               PROVE  /\ "quorum" \in DOMAIN answers => answers["quorum"] = quorum(Viewed)'
                      /\ "votingPower" \in DOMAIN answers =>
                           answers["votingPower"] = weight(Viewer, Viewed)'
    BY <1>2, <1>3, <1>5 DEF ShownPollIsFinal, quorumIsProjected, ViewInv, PageInv, GovernorInv,
       GovernorTypeOK
  <2>1. Proposed(Viewed) /\ snapshot[Viewed] < now
    BY <1>3 DEF ViewInv, PageInv, GovernorInv, GovernorTypeOK
  <2>2. polled'[Viewed] = polled[Viewed] BY <2>1, SnapshotIsFinal DEF ViewInv
  <2>3. quorum(Viewed)' = quorum(Viewed) BY <2>2, Zenon DEF quorum
  <2>4. weight(Viewer, Viewed)' = weight(Viewer, Viewed) BY <2>2, Zenon DEF weight
  <2>5. ~quorumIsProjected
    BY DEF quorumIsProjected, ViewInv, PageInv, GovernorInv, GovernorTypeOK
  <2> QED BY <2>3, <2>4, <2>5 DEF ViewInv, ShownPollIsFinal
<1>7. Unanswered' BY <1>2 DEF ViewInv, Unanswered
<1> QED BY <1>1, <1>5, <1>6, <1>7 DEF ViewInv

\* The page's own reads: the clock and the snapshot come before any answer, and a lookup at a
\* snapshot that is past answers what the votes are counted with.
LEMMA ReadKeepsViewInv ==
  ASSUME ViewInv, ReadClock \/ ReadSnapshot \/ (\E l \in Lookups : Lookup(l))
  PROVE  ViewInv'
<1> USE ViewAssumption DEF ViewAssumption
<1>0. /\ now \in Nat /\ snapshot \in [Proposals -> Nat] /\ UNCHANGED governorVars
      /\ timestamp \in Nat
  BY DEF ViewInv, PageInv, GovernorInv, GovernorTypeOK, TypeOK, ReadClock, ReadSnapshot, Lookup
<1>1. GovernorInv' BY <1>0, NextKeepsGovernorInv DEF ViewInv
<1>2. /\ now' = now /\ snapshot' = snapshot /\ proposer' = proposer /\ polled' = polled
      /\ Proposed(Viewed)' = Proposed(Viewed)
      /\ quorum(Viewed)' = quorum(Viewed) /\ weight(Viewer, Viewed)' = weight(Viewer, Viewed)
  BY <1>0 DEF governorVars, tokenVars, proposalVars, Proposed, quorum, weight
<1>3. CASE ReadClock
  <2>1. timestamp' = now /\ read' = read /\ read = 0 /\ Proposed(Viewed)
    BY <1>3 DEF ReadClock, ViewInv, PageInv
  <2>2. PageInv' BY <1>0, <1>2, <2>1 DEF PageInv
  <2>3. ShownPollIsFinal' BY <2>1 DEF ShownPollIsFinal
  <2>4. Unanswered' BY <1>3 DEF ReadClock, ViewInv, Unanswered
  <2> QED BY <1>1, <2>2, <2>3, <2>4 DEF ViewInv
<1>4. CASE ReadSnapshot
  <2>1. /\ timestamp' = timestamp /\ timestamp # 0 /\ answers' = answers
        /\ read' = snapshot[Viewed] /\ read = 0
    BY <1>4 DEF ReadSnapshot
  <2>2. PageInv' BY <1>2, <2>1 DEF ViewInv, PageInv
  <2>3. DOMAIN answers = {} BY <2>1 DEF ViewInv, Unanswered
  <2>4. ShownPollIsFinal' BY <2>1, <2>3 DEF ShownPollIsFinal
  <2>5. Unanswered' BY <2>1, <2>3 DEF Unanswered
  <2> QED BY <1>1, <2>2, <2>4, <2>5 DEF ViewInv
<1>5. ASSUME NEW l \in Lookups, Lookup(l) PROVE ViewInv'
  <2>1. UNCHANGED <<timestamp, read>> /\ read # 0 BY <1>5 DEF Lookup
  <2>2. PageInv' BY <1>2, <2>1 DEF ViewInv, PageInv
  <2>3. ShownPollIsFinal'
    <3> SUFFICES ASSUME read < timestamp
                 PROVE  /\ "quorum" \in DOMAIN answers' => answers'["quorum"] = quorum(Viewed)
                        /\ "votingPower" \in DOMAIN answers' =>
                             answers'["votingPower"] = weight(Viewer, Viewed)
      BY <1>0, <1>2, <2>1 DEF ShownPollIsFinal, quorumIsProjected, ViewInv, PageInv
    <3>1. AnswerTo(l) = IF l = "quorum" THEN quorum(Viewed) ELSE weight(Viewer, Viewed)
      BY DEF AnswerTo, timepoint
    <3>2. /\ DOMAIN answers' = DOMAIN answers \cup {l}
          /\ \A k \in DOMAIN answers \cup {l} :
               answers'[k] = IF k = l THEN AnswerTo(l) ELSE answers[k]
      BY <1>5 DEF Lookup
    <3>3. /\ "quorum" \in DOMAIN answers => answers["quorum"] = quorum(Viewed)
          /\ "votingPower" \in DOMAIN answers => answers["votingPower"] = weight(Viewer, Viewed)
      BY <1>0, <2>1 DEF ViewInv, PageInv, ShownPollIsFinal, quorumIsProjected
    <3> QED BY <3>1, <3>2, <3>3 DEF Lookups
  <2>4. Unanswered' BY <2>1 DEF Unanswered
  <2> QED BY <1>1, <2>2, <2>3, <2>4 DEF ViewInv
<1> QED BY <1>3, <1>4, <1>5

\* What the page reads, at whatever moments, keeps the invariant of the page.
THEOREM ViewInvariant == ViewSpec => []ViewInv
<1>1. ViewInv /\ [ViewNext]_viewVars => ViewInv'
  <2> SUFFICES ASSUME ViewInv, [ViewNext]_viewVars PROVE ViewInv' OBVIOUS
  <2>1. CASE GovernorStep BY <2>1, GovernorStepKeepsViewInv DEF GovernorStep
  <2>2. CASE ReadClock \/ ReadSnapshot \/ \E l \in Lookups : Lookup(l) BY <2>2, ReadKeepsViewInv
  <2>3. CASE UNCHANGED viewVars BY <2>3, GovernorStepKeepsViewInv DEF viewVars
  <2> QED BY <2>1, <2>2, <2>3 DEF ViewNext
<1> QED BY <1>1, InitViewInv, PTL DEF ViewSpec

\* However long the page's reads take, no lookup asks for votes of a time that is not past.
THEOREM PageLookupsNeverRevert == ViewSpec => []LookupsNeverRevert
<1>1. ViewInv => LookupsNeverRevert
  <2> SUFFICES ASSUME ViewInv, read # 0 PROVE timepoint < now BY DEF LookupsNeverRevert
  <2>1. /\ now \in Nat /\ timestamp \in Nat /\ timestamp <= now
        /\ read \in Nat
    BY ViewAssumption
       DEF ViewAssumption, ViewInv, PageInv, GovernorInv, GovernorTypeOK, TypeOK
  <2> QED BY <2>1 DEF timepoint
<1> QED BY <1>1, ViewInvariant, PTL

\* A poll that the page shows as decided is the one votes are counted with, for good.
THEOREM PagePollsAreFinal == ViewSpec => []ShownPollIsFinal
<1>1. ViewInv => ShownPollIsFinal BY DEF ViewInv
<1> QED BY <1>1, ViewInvariant, PTL
=============================================================================
