\* Claims, redemptions and governed changes around one holder, whose account a page reads.
CONSTANTS
  alice = alice
  dao = dao
  reserve = reserve
  none = none
  Accounts <- MCAccounts
  Viewer = alice
  Zero = none
  Deployer = alice
  Holders <- MCHolders
  MaxVotes = 1
  Unlimited = 2
  Supplies = {1}
  Approvals = {}
  Controllers <- MCControllers
  MaxTime = 5
  Dao = dao
  RewardToken = reserve
  ClaimPeriod = 2
  Whole = 2
  RewardAmounts = {0, 1}
  MintAmounts = {2}
  MaxRewards = 2
SPECIFICATION AccountSpec
INVARIANTS
  SplittingNeverPaysMore
  RewardsKeepTokenSound
PROPERTIES
  NoClaimBeforeShown
  ClaimsAreEarned
  ImplementsRewardLedger
CONSTRAINT PointsInPlay
