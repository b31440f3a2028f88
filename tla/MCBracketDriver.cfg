\* The job, at a round another operator may have left anywhere, with crashes
\* and lost computations.
SPECIFICATION DriverSpec
CONSTANTS
  Entries = {1, 2, 3, 4}
  Keys = {0, 1}
  MAX_SHARDS = 2
  MAX_SHARD_SIZE = 3
  TOP_K = 2
  OtherResults = {}
  MaxGenerations = 2
  MaxMishaps = 2
  OtherOperator = TRUE
PROPERTIES
  RevealsUnlessWedged
CHECK_DEADLOCK FALSE
