SPECIFICATION FairSpec
CONSTANTS
  Players = {p1, p2}
  Nobody = Nobody
  Gardeners = {p1}
  STARTER_COUNT = 2
  FLOWER_COLLECTION_CAP = 2
  MAX_BREEDS_PER_ROUND = 1
  MAX_BREEDS_AS_PARENT = 2
  MaxIndex = 4
  MaxExperiments = 2
  MaxMints = 1
  MaxRounds = 1
INVARIANTS
  TypeOK
  StatusAccounted
  InUseNotSold
  MintedFlowersStay
  BreedingBudgetsExact
  NeverOvercounts
PROPERTIES
  PromiseKept
  ParentsUnlocked
  HybridsReleased
CHECK_DEADLOCK FALSE
