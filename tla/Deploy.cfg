\* A deployment without a pool, stopped twice, with forgotten transactions and changed options.
CONSTANTS
  plain = plain
  renamed = renamed
  PoolWanted = FALSE
  Options <- MCOptions
  MaxStops = 2
  MaxDrops = 1
\* A run whose transaction is forgotten waits until it is stopped, which MaxStops may rule out.
CHECK_DEADLOCK FALSE
SPECIFICATION FairDeploySpec
INVARIANTS
  OneTransactionPerStep
  TimelockNeverLocked
  TokenHandedToItsDAO
  ManifestTellsTheTruth
  SearchMissesNothing
PROPERTIES
  SameContracts
  EventuallyDeployed
