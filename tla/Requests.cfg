\* Two tabs of one wallet sign for two contracts on two chains.
CONSTANTS
  alice = alice
  first = first
  second = second
  forwarder = forwarder
  token = token
  mainnet = mainnet
  fork = fork
  claim = claim
  Chains <- MCChains
  Contracts <- MCContracts
  Wallets <- MCWallets
  Calls <- MCCalls
  Deadlines <- MCDeadlines
  Tabs <- MCTabs
  Wallet <- MCWallet
  MaxSigned = 3
  MaxRuns = 3
  MaxTime = 2
SYMMETRY MCSymmetry
SPECIFICATION Spec
INVARIANTS
  RunsOnceAsSigned
  EarlierRunsWereSeen
