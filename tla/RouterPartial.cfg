\* A swap that the pool takes only a part of.
CONSTANTS
  alice = alice
  bob = bob
  treasury = treasury
  dao = dao
  router = router
  manager = manager
  Traders <- MCTraders
  Recipients <- MCRecipients
  Payable <- MCPayable
  Router = router
  Manager = manager
  Pools <- MCPools
  Amounts <- MCAmounts
  Values <- MCValues
  Minimums <- MCMinimums
  Fees <- MCFees
  Balances <- MCBalances
  MaxSwaps = 3
SPECIFICATION RouterSpec
PROPERTIES
  SwapsPassThrough
