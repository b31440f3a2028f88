\* One round, one mint, three entrants: every grouping of refund batches,
\* donations between any two steps, reveals at any moment.
SPECIFICATION FairSpec
CONSTANTS
  NoMint = NoMint
  Mints = {m1}
  Players = {1, 2, 3, 4}
  MaxRounds = 1
  Fee = 4
  Capacity = 3
  MaxDonated = 2
INVARIANTS
  TypeOK
  PaidOrRefunded
  Solvent
  OnlySurplusIsSwept
  MoneyConserved
PROPERTIES
  SettledForGood
  EventuallySettled
CHECK_DEADLOCK FALSE
