\* Changes of the settings and of the timelock while other proposals are decided.
CONSTANTS
  alice = alice
  dao = dao
  none = none
  hurry = hurry
  ease = ease
  release = release
  Accounts <- MCAccounts
  Zero = none
  Deployer = alice
  MaxVotes = 2
  Unlimited = 3
  Supplies = {2}
  Approvals = {}
  Controllers <- MCControllers
  MaxTime = 6
  Dao = dao
  Proposals <- MCProposals
  Call <- MCCall
  VotingDelay = 0
  VotingPeriod = 1
  ProposalThreshold = 1
  QuorumPercent = 2
  Denominator = 2
  TimelockDelay = 1
SPECIFICATION GovernorSpec
INVARIANTS
  ExecutedAfterDelay
PROPERTIES
  OutcomeFinal
  ImplementsDecisions
CONSTRAINT
  ProposedEarly
