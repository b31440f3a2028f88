----------------------------- MODULE MCTwoTier -----------------------------
(***************************************************************************)
(* TwoTier on seven entries: the layouts an operator supplies and the      *)
(* scores the entries have.                                                *)
(***************************************************************************)
EXTENDS TwoTier

TrailingOne == << <<3, 3, 1>>, <<1, 4, 7>> >>
MiddleOne == << <<3, 1, 3>>, <<1, 4, 5>> >>
\* Its second bound leaves the first shard an entry short.
Short == << <<3, 2, 2>>, <<1, 3, 6>> >>
\* It misses an entry, and is refused.
Missing == << <<3, 3>>, <<1, 4>> >>

Supplied == << {TrailingOne, Missing}, {MiddleOne, Short, Missing} >>

\* The podium ties across shards; the partitions have different winners.
Scored == {<<0, 1, 0, 0, 2, 1, 2>>}
=============================================================================
