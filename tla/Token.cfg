\* Transfers, allowances, rooting, releasing and delegating between a holder and the DAO.
CONSTANTS
  alice = alice
  dao = dao
  none = none
  Accounts <- MCAccounts
  Zero = none
  Deployer = alice
  MaxVotes = 2
  Unlimited = 3
  Supplies = {0, 2, 3}
  Approvals = {1, 3}
  Controllers <- MCControllers
  MaxTime = 3
SPECIFICATION Spec
INVARIANTS
  TypeOK
  VotesFollowDelegation
  VotesCountedOnce
  VotingNeverReverts
PROPERTIES
  ContinuousPeriod
  ImplementsLedger
