\* One proposal to release rooted tokens, which one of the voters looks at.
CONSTANTS
  alice = alice
  bob = bob
  dao = dao
  none = none
  first = first
  Accounts <- MCAccounts
  Zero = none
  Deployer = alice
  MaxVotes = 1
  Unlimited = 2
  Supplies = {1}
  Approvals = {}
  Controllers <- MCControllers
  MaxTime = 5
  Dao = dao
  Proposals <- MCProposals
  Call <- MCCall
  VotingDelay = 0
  VotingPeriod = 1
  ProposalThreshold = 1
  QuorumPercent = 2
  Denominator = 2
  TimelockDelay = 1
  Viewer = bob
  Viewed = first
SPECIFICATION ViewSpec
INVARIANTS
  NoDoubleVoting
  LookupsNeverRevert
  ShownPollIsFinal
CONSTRAINT
  ProposedEarly
