\* Seven entries, two pins and two promotions: every order of answers, the
\* results of the partition and of the semifinals before still ready.
SPECIFICATION TierSpec
CONSTANTS
  Entries = {1, 2, 3, 4, 5, 6, 7}
  Keys = {0, 1, 2}
  MAX_SHARDS = 2
  MAX_SHARD_SIZE = 3
  TOP_K = 2
  OtherResults = {1, 2, 3, 256, 257}
  MaxGenerations = 2
  MAX_TIER1_SHARDS = 3
  Tier1Layouts <- Supplied
  Scores <- Scored
INVARIANTS
  Tier1Partition
  PodiumAmongTier1Winners
  SemifinalsPartitionWinners
PROPERTIES
  RevealKept
CHECK_DEADLOCK FALSE
