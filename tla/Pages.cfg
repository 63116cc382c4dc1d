\* Pages of two blocks on a chain that grows to block five.
CONSTANTS
  first = first
  second = second
  other = other
  proposal = proposal
  Events <- MCEvents
  Kind <- MCKind
  Saved <- MCSaved
  PageSize = 2
  MaxBlock = 5
  MaxOpens = 2
\* The chain and the reader are bounded.
CHECK_DEADLOCK FALSE
SPECIFICATION FairSpec
INVARIANTS
  ShownOnce
PROPERTIES
  HistoryIsLoaded
