SPECIFICATION FairSpec
CONSTANTS
  Entries = {e1, e2}
  MaxInFlight = 2
INVARIANTS
  CountedExactlyOnce
PROPERTIES
  ScoreIsFinal
  EventuallyScored
CHECK_DEADLOCK FALSE
