\* Every partition an operator may pin, every run of accounts a caller may
\* supply, every order of answers; then re-pinned, the old results still ready.
SPECIFICATION QuietSpec
CONSTANTS
  Entries = {1, 2, 3, 4}
  Keys = {0, 1}
  MAX_SHARDS = 2
  MAX_SHARD_SIZE = 4
  TOP_K = 2
  OtherResults = {}
  MaxGenerations = 2
INVARIANTS
  ShardsPartition
  PodiumAmongFinalists
PROPERTIES
  RevealKept
CHECK_DEADLOCK FALSE
