SPECIFICATION Spec
CONSTANTS
  Gardens <- MCGardens
  MaxFlowers = 3
  Dials <- MCDials
  Draws <- MCDraws
  Entropies <- MCEntropies
  Weights <- MCWeights
  ZeroGenome <- AtThresholds
INVARIANTS
  HintExplainsScore
PROPERTIES
  OffspringWellFormed
  BreedingFair
CHECK_DEADLOCK FALSE
