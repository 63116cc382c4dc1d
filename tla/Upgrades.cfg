\* Three proposals about the upgrades of three contracts, executed in any order and at any time.
CONSTANTS
  token = token
  dao = dao
  timelock = timelock
  holder = holder
  v1 = v1
  v2 = v2
  wallet = wallet
  first = first
  second = second
  third = third
  Contracts <- MCContracts
  Timelock = timelock
  Dao = dao
  Accounts <- MCAccounts
  Addresses <- MCAddresses
  Implementations <- MCImplementations
  Original = v1
  Proposals <- MCProposals
SYMMETRY MCSymmetry
SPECIFICATION UpgradeSpec
INVARIANTS
  ComposedCallsStayValid
  UpgradesAreVoted
PROPERTIES
  FrozenForGood
