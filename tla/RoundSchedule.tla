--------------------------- MODULE RoundSchedule ---------------------------
(***************************************************************************)
(* When a round opened now stops taking entries: at the daily anchor, and  *)
(* never sooner than a floor (round_end_time of open_round.rs).            *)
(***************************************************************************)
EXTENDS Integers

CONSTANTS
  SECONDS_PER_DAY,
  ROUND_ANCHOR_UTC_SECONDS,        \* the anchor, a time of day
  MIN_ROUND_DURATION_SECONDS,      \* the floor
  MIN_OPERATOR_CLOSE_DELAY_SECONDS \* how long an operator must leave it open

\* The compile-time assertions of constants.rs.
ASSUME ScheduleAssumption ==
  /\ SECONDS_PER_DAY \in Nat \ {0}
  /\ ROUND_ANCHOR_UTC_SECONDS \in 0..(SECONDS_PER_DAY - 1)
  /\ MIN_ROUND_DURATION_SECONDS \in 0..(SECONDS_PER_DAY - 1)
  /\ MIN_OPERATOR_CLOSE_DELAY_SECONDS \in 0..(MIN_ROUND_DURATION_SECONDS - 1)

\* mutant: an anchor however near will do.
round_end_time_any(now) ==
  LET today == now - (now % SECONDS_PER_DAY) + ROUND_ANCHOR_UTC_SECONDS IN
  IF today <= now THEN today + SECONDS_PER_DAY ELSE today

\* The next anchor after now, a day later when it is nearer than the floor.
round_end_time(now) ==
  LET today == now - (now % SECONDS_PER_DAY) + ROUND_ANCHOR_UTC_SECONDS
      next == IF today <= now THEN today + SECONDS_PER_DAY ELSE today IN
  IF next - now < MIN_ROUND_DURATION_SECONDS THEN next + SECONDS_PER_DAY ELSE next

\* What the program's comments promise of a round's end.
on_schedule(start_time, end_time) ==
  /\ end_time % SECONDS_PER_DAY = ROUND_ANCHOR_UTC_SECONDS
  /\ end_time - start_time \in
       MIN_ROUND_DURATION_SECONDS..(SECONDS_PER_DAY + MIN_ROUND_DURATION_SECONDS - 1)
=============================================================================
