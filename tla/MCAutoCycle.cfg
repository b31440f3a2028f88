CONSTANTS
  Keys = {a, j, x}
  Controlled = {a, j}
  NoKey = nokey
  FirstAuthority = a
  MAX_OPERATORS = 2
  JobKey = j
  Runs = {r1, r2}
  SECONDS_PER_DAY = 3
  ROUND_ANCHOR_UTC_SECONDS = 0
  MIN_ROUND_DURATION_SECONDS = 2
  MIN_OPERATOR_CLOSE_DELAY_SECONDS = 1
  MaxRounds = 2
  MaxEntries = 1
  MaxTime = 4
  MaxByHand = 2
SPECIFICATION FairSpec
INVARIANTS OperatorsPacked AuthorityCanSign ScheduleKept JobsUpToDate
PROPERTIES LiveRoundsLeftOpen UnrevealedNotFinalized NextRoundOpens RevealedIsSettled
CHECK_DEADLOCK FALSE
