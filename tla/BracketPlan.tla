---------------------------- MODULE BracketPlan ----------------------------
(***************************************************************************)
(* The partition the daily job wants (scripts/auto-cycle.ts, planBracket)  *)
(* and what it asks of a result account, for the drivers of both brackets. *)
(***************************************************************************)
EXTENDS Bracket

ASSUME PlanAssumption == MAX_SHARD_SIZE > 0 /\ Entries # {}

N == Cardinality(Entries)

\* The fewest shards of at most MAX_SHARD_SIZE, balanced.
planShardSizes ==
  LET count == (N + MAX_SHARD_SIZE - 1) \div MAX_SHARD_SIZE IN
  [i \in 1..count |-> (N \div count) + (IF i <= N % count THEN 1 ELSE 0)]

PlanShards == DOMAIN planShardSizes

Least(S) == CHOOSE k \in S : \A j \in S : k <= j

\* Each shard's entries, and its first.
Chunk == [k \in PlanShards |->
  LET before == Total(SubSeq(planShardSizes, 1, k - 1)) IN
  {e \in Entries : Slot(Entries, e) \in (before + 1)..(before + planShardSizes[k])}]
Bound == [k \in PlanShards |-> Least(Chunk[k])]

Plan == [sizes |-> planShardSizes, bounds |-> Bound]

partitionMatches(pinned) ==
  pinned.shard_sizes = Plan.sizes /\ pinned.shard_bounds = Plan.bounds

\* The generation a result was stamped with is not looked at.
resultReady(i) == result[i].ready

\* Where the job expects the result that ends the round.
FinalIndex == IF shard_count = 1 THEN 1 ELSE FINAL_SHARD_INDEX
=============================================================================
