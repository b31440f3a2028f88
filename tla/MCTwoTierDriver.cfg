\* The job, at a two-tier round another operator left anywhere, with crashes
\* and lost computations.
SPECIFICATION DriverSpec
CONSTANTS
  Entries = {1, 2, 3, 4, 5, 6, 7, 8, 9, 10, 11}
  Keys = {0, 1, 2}
  MAX_SHARDS = 2
  MAX_SHARD_SIZE = 5
  TOP_K = 2
  OtherResults = {1, 2, 3, 256, 257}
  MaxGenerations = 2
  MAX_TIER1_SHARDS = 3
  Tier1Layouts <- Supplied
  Scores <- Scored
  MaxMishaps = 2
PROPERTIES
  TwoTierRevealsUnlessWedged
CHECK_DEADLOCK FALSE
