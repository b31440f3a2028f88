\* Two rounds and a mint migration between any two steps of either.
SPECIFICATION Spec
CONSTANTS
  NoMint = NoMint
  Mints = {m1, m2}
  Players = {1, 2}
  MaxRounds = 2
  Fee = 2
  Capacity = 2
  MaxDonated = 0
PROPERTIES
  PromiseKept
CHECK_DEADLOCK FALSE
