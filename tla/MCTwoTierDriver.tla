-------------------------- MODULE MCTwoTierDriver --------------------------
(***************************************************************************)
(* TwoTierDriver on eleven entries: what another operator pins by hand.    *)
(***************************************************************************)
EXTENDS TwoTierDriver

\* The winners of a partition with a trailing shard of one fit one semifinal.
TrailingOne == << <<5, 5, 1>>, <<1, 6, 11>> >>
Unlike == << <<3, 4, 4>>, <<1, 4, 8>> >>
\* Its second bound leaves the first shard an entry short.
Short == << <<5, 3, 3>>, <<1, 5, 9>> >>
Planned == << <<4, 4, 3>>, <<1, 5, 9>> >>

Supplied == << {TrailingOne, Unlike, Short}, {TrailingOne, Unlike, Planned} >>

\* The podium ties across shards, in every one of the partitions.
Scored == {<<0, 1, 0, 0, 2, 1, 2, 0, 2, 1, 0>>}
=============================================================================
