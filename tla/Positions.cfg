\* Two tabs of one account provide liquidity to a native pool and to another one.
CONSTANTS
  alice = alice
  bob = bob
  first = first
  second = second
  venture = venture
  foreign = foreign
  Pools <- MCPools
  NativePools <- MCNativePools
  Accounts <- MCAccounts
  Sessions <- MCSessions
  Signer <- MCSigner
  Funds = 150
  Roots <- MCRoots
  Start <- MCStart
  Scale = 100
  Budgets <- MCBudgets
  SlippageBps <- MCSlippages
  MaxAmount = 1000
  ForeignLogs <- MCForeignLogs
  Requests <- MCRequests
  Limits <- MCLimits
  Shares <- MCShares
  MaxPositions = 2
  MaxTrades = 1
\* Once MaxPositions positions were minted and burnt nothing is left to do.
CHECK_DEADLOCK FALSE
SYMMETRY MCSymmetry
SPECIFICATION Spec
INVARIANTS
  NothingLeftInManager
  MintedIdIsOwn
PROPERTIES
  MintWithinBudget
