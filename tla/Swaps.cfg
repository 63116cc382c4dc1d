\* Two tabs of one account and a caller without a client trade while the fee and the pool change.
CONSTANTS
  alice = alice
  bob = bob
  treasury = treasury
  router = router
  manager = manager
  first = first
  second = second
  Traders <- MCTraders
  Recipients <- MCRecipients
  Payable <- MCRecipients
  Router = router
  Manager = manager
  Pools <- MCPools
  Amounts <- MCAmounts
  Values <- MCValues
  Minimums <- MCMinimums
  Fees <- MCFees
  Balances <- MCBalances
  MaxSwaps = 2
  Sessions <- MCSessions
  Trader <- MCTrader
  SlippageBps <- MCSlippages
SYMMETRY MCSymmetry
SPECIFICATION SwapSpec
PROPERTIES
  StrandedUntouched
  CostWithinInput
  ReviewedSwap
