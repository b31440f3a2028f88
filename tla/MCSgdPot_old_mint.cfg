SPECIFICATION Spec
CONSTANTS
  NoMint = NoMint
  Mints = {m1, m2}
  Players = {1, 2}
  MaxRounds = 2
  Fee = 2
  Capacity = 2
  MaxDonated = 1
INVARIANTS
  SettlementMovedTheMoney
CHECK_DEADLOCK FALSE
