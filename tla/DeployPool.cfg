\* A deployment with a pool, stopped once.
CONSTANTS
  plain = plain
  renamed = renamed
  PoolWanted = TRUE
  Options <- MCOneOption
  MaxStops = 1
  MaxDrops = 0
SPECIFICATION FairDeploySpec
PROPERTIES
  EventuallyDeployed
