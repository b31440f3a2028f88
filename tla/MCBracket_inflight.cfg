\* The partition re-pinned while a computation of the old one is in flight.
SPECIFICATION Spec
CONSTANTS
  Entries = {1, 2, 3}
  Keys = {0, 1}
  MAX_SHARDS = 2
  MAX_SHARD_SIZE = 3
  TOP_K = 1
  OtherResults = {}
  MaxGenerations = 2
INVARIANTS
  StaleResultsRejected
CHECK_DEADLOCK FALSE
