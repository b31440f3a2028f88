------------------------------ MODULE TwoTier ------------------------------
(***************************************************************************)
(* The two-tier reveal of a round too large for one tier of shards:        *)
(* init_tier1_bracket pins a partition of the entries in a Tier1State,     *)
(* each of its shards is revealed and its winners kept in ascending order, *)
(* promote_tier1 writes a partition of those winners into the round's      *)
(* BracketState, each semifinal is revealed, and module Bracket's final    *)
(* reveal and apply_bracket_result end the round.                          *)
(*                                                                         *)
(* A tier-1 shard's result is the account the bracket's shard of the same  *)
(* index would use; semifinals have accounts of their own, numbered here   *)
(* from 256.  init_bracket does not occur: no layout of MAX_SHARDS shards  *)
(* adds up to the entries of such a round.                                 *)
(***************************************************************************)
EXTENDS Bracket

Sets == INSTANCE FiniteSetsExt

CONSTANTS
  MAX_TIER1_SHARDS,  \* shards of the first tier
  Tier1Layouts,      \* bound: the layouts operators supply, by the call
  Scores             \* bound: the ranking keys of all entries considered

SINGLE_TIER_CAPACITY == MAX_SHARDS * MAX_SHARD_SIZE
MAX_TIER1_WINNERS == TOP_K * MAX_TIER1_SHARDS
SEMI == 255

ASSUME Tier1Assumption ==
  /\ MAX_TIER1_SHARDS \in Nat /\ MAX_TIER1_SHARDS < SEMI
  /\ MAX_TIER1_WINNERS <= SINGLE_TIER_CAPACITY
  /\ Cardinality(Entries) > SINGLE_TIER_CAPACITY
  /\ Scores \subseteq [Entries -> Keys]
  /\ Tier1Layouts \in Seq(SUBSET (Seq(Nat) \X Seq(Nat)))
  /\ OtherResults = (1..MAX_TIER1_SHARDS) \cup {SEMI + k : k \in 1..MAX_SHARDS}

VARIABLES
  tier1,  \* the Tier1State account, NoTier1 while there is none
  pins    \* bound: calls of init_tier1_bracket so far

allvars == <<vars, tier1, pins>>

NoTier1 ==
  [exists |-> FALSE, shard_sizes |-> <<>>, shard_bounds |-> <<>>, shard_done |-> {},
   winners |-> <<>>, promoted |-> FALSE, generation |-> 0]

\* The Clock slot of the n-th init_tier1_bracket: any number no bracket counter
\* reaches and no other init had.
Slot_at(n) == MaxGenerations + n

Tier1Shards == 1..Len(tier1.shard_sizes)
tier1_shards_collected == tier1.shard_done = Tier1Shards

TierInit ==
  /\ Init /\ key \in Scores
  /\ tier1 = NoTier1
  /\ pins = 0

-----------------------------------------------------------------------------
\* mutant: the sizes need not add up to participant_count.
valid_tier1_layout_any_total(sizes, bounds) ==
  /\ Len(sizes) \in 1..MAX_TIER1_SHARDS
  /\ Len(bounds) = Len(sizes)
  /\ \A k \in 1..Len(sizes) : sizes[k] \in 1..MAX_SHARD_SIZE
  /\ \A k \in 2..Len(bounds) : bounds[k] > bounds[k - 1]

valid_tier1_layout(sizes, bounds) ==
  /\ Len(sizes) \in 1..MAX_TIER1_SHARDS
  /\ Len(bounds) = Len(sizes)
  /\ \A k \in 1..Len(sizes) : sizes[k] \in 1..MAX_SHARD_SIZE
  /\ Total(sizes) = Cardinality(Entries)
  /\ \A k \in 2..Len(bounds) : bounds[k] > bounds[k - 1]
  /\ Total([k \in 1..Len(sizes) |-> taken(sizes[k])]) <= MAX_TIER1_WINNERS

init_tier1_bracket(sizes, bounds) ==
  /\ ~paused
  /\ ~scoring_revealed
  /\ ~tier1.exists
  /\ valid_tier1_layout(sizes, bounds)
  /\ tier1' = [NoTier1 EXCEPT !.exists = TRUE, !.shard_sizes = sizes,
                              !.shard_bounds = bounds, !.generation = Slot_at(pins + 1)]
  /\ pins' = pins + 1
  /\ UNCHANGED vars

\* Before the reveal, at any time: promoted or not.
close_tier1_bracket ==
  /\ ~scoring_revealed
  /\ tier1.exists
  /\ tier1' = NoTier1
  /\ UNCHANGED <<vars, pins>>

in_tier1_shard(S, k) ==
  /\ Cardinality(S) = tier1.shard_sizes[k]
  /\ tier1.shard_bounds[k] \in S
  /\ \A e \in S : e >= tier1.shard_bounds[k]
  /\ k < Len(tier1.shard_sizes) => \A e \in S : e < tier1.shard_bounds[k + 1]

\* The result is reset, stamped with the generation g and queued for.
QueueFor(i, S, g) ==
  /\ result' = [result EXCEPT ![i].ready = FALSE, ![i].generation = g]
  /\ computations' = computations \cup {[index |-> i, entries |-> S]}
  /\ UNCHANGED <<paused, key, bracket, scoring_revealed, top, tier1, pins>>

queue_tier1_shard_reveal(k, S) ==
  /\ ~paused
  /\ ~tier1.promoted
  /\ ~scoring_revealed
  /\ k \in Tier1Shards
  /\ in_tier1_shard(S, k)
  /\ QueueFor(k, S, tier1.generation)

\* mutant: winners are appended in the order of their ranks.
inserted_unsorted(new) == tier1.winners \o new

\* insert_winner_sorted, once per winner.
inserted(new) == Ascending(Range(tier1.winners) \cup Range(new))

\* What it refuses: a duplicate, or a winner too many.
insertable(new) ==
  LET n == Len(tier1.winners) + Len(new) IN
  /\ Cardinality(Range(tier1.winners) \cup Range(new)) = n
  /\ n <= MAX_TIER1_WINNERS

\* mutant: a result of an earlier Tier1State will do.
usable_in_tier1_any_generation(k) == result[k].ready

usable_in_tier1(k) == result[k].ready /\ result[k].generation = tier1.generation

collect_tier1_winners(k, S) ==
  LET slots == result[k].slots
      n == tier1.shard_sizes[k]
      new == [i \in 1..taken(n) |-> AtSlot(S, slots[i])] IN
  /\ k \in Tier1Shards
  /\ usable_in_tier1(k)
  /\ ~tier1.promoted
  /\ k \notin tier1.shard_done
  /\ in_tier1_shard(S, k)
  /\ \A i \in 1..taken(n) : slots[i] <= n
  /\ insertable(new)
  /\ tier1' = [tier1 EXCEPT !.winners = inserted(new), !.shard_done = @ \cup {k}]
  /\ UNCHANGED <<vars, pins>>

-----------------------------------------------------------------------------
\* mutant: the remainder is dropped.
semifinal_sizes_floor(n) ==
  LET count == (n + MAX_SHARD_SIZE - 1) \div MAX_SHARD_SIZE IN
  [k \in 1..count |-> n \div count]

\* The fewest semifinals of at most MAX_SHARD_SIZE winners, balanced.
semifinal_sizes(n) ==
  LET count == (n + MAX_SHARD_SIZE - 1) \div MAX_SHARD_SIZE IN
  [k \in 1..count |-> (n \div count) + (IF k <= n % count THEN 1 ELSE 0)]

Start(sizes, k) == Total(SubSeq(sizes, 1, k - 1))

\* Nothing here asks whether the round is revealed already.
promote_tier1 ==
  LET sizes == semifinal_sizes(Len(tier1.winners)) IN
  /\ ~paused
  /\ tier1.exists
  /\ ~tier1.promoted
  /\ tier1_shards_collected
  /\ Len(sizes) \in 1..MAX_SHARDS
  /\ bracket' = pinned_bracket(sizes,
       [k \in 1..Len(sizes) |-> tier1.winners[Start(sizes, k) + 1]])
  /\ tier1' = [tier1 EXCEPT !.promoted = TRUE]
  /\ UNCHANGED <<paused, key, result, computations, scoring_revealed, top, pins>>

\* The winners in semifinal k, and the one at slot i of it.
SemifinalPlace(k, i) == tier1.winners[Start(bracket.shard_sizes, k) + i]
Semifinal(k) == {SemifinalPlace(k, i) : i \in 1..bracket.shard_sizes[k]}

queue_semifinal_reveal(k) ==
  /\ ~paused
  /\ tier1.promoted
  /\ ~scoring_revealed
  /\ k \in Shards
  /\ QueueFor(SEMI + k, Semifinal(k), bracket.generation)

collect_semifinal_winners(k) ==
  LET slots == result[SEMI + k].slots
      n == bracket.shard_sizes[k] IN
  /\ tier1.promoted
  /\ k \in Shards
  /\ usable(SEMI + k)
  /\ uncollected(k)
  /\ \A i \in 1..taken(n) : slots[i] <= n
  /\ Len(bracket.finalists) + taken(n) <= TOP_K * MAX_SHARDS
  /\ bracket' = [bracket EXCEPT
       !.finalists = @ \o [i \in 1..taken(n) |-> SemifinalPlace(k, slots[i])],
       !.shards_collected = @ \cup {k}]
  /\ UNCHANGED <<paused, key, result, computations, scoring_revealed, top, tier1, pins>>

-----------------------------------------------------------------------------
Tier1Step ==
  \/ /\ pins < Len(Tier1Layouts)
     /\ \E l \in Tier1Layouts[pins + 1] : init_tier1_bracket(l[1], l[2])
  \/ close_tier1_bracket
  \/ \E k \in Tier1Shards : \E S \in Sets!kSubset(tier1.shard_sizes[k], Entries) :
       queue_tier1_shard_reveal(k, S) \/ collect_tier1_winners(k, S)
  \/ bracket.generation < MaxGenerations /\ promote_tier1

SemifinalStep ==
  \E k \in Shards : queue_semifinal_reveal(k) \/ collect_semifinal_winners(k)

\* Module Bracket's share of a two-tier round.
EndgameStep ==
  /\ \/ \E b \in BOOLEAN : SetPaused(b)
     \/ \E S \in Sets!kSubset(Len(bracket.finalists), Entries) : queue_final(S)
     \/ \E c \in computations : reveal_top3_v5_callback(c) \/ Abort(c)
     \/ \E i \in Indices : apply_bracket_result(i)
  /\ UNCHANGED <<tier1, pins>>

(***************************************************************************)
(* Two things are asked of the operator, and the daily job does the first: *)
(* a promoted bracket is run with the semifinal instructions, and, as in   *)
(* Bracket's QuietSpec, nothing is in flight when a partition is pinned    *)
(* again, nor any answer the new bracket could take when winners are       *)
(* promoted again.                                                         *)
(***************************************************************************)
TierNext ==
  /\ Tier1Step \/ SemifinalStep \/ EndgameStep
  /\ pins' # pins => computations = {}
  /\ bracket'.generation # bracket.generation => \A c \in computations : c.index < SEMI

TierSpec == TierInit /\ [][TierNext]_allvars

-----------------------------------------------------------------------------
(***************************************************************************)
(* Properties.                                                             *)
(***************************************************************************)
Tier1Interval(k) ==
  {e \in Entries : /\ e >= tier1.shard_bounds[k]
                   /\ k < Len(tier1.shard_sizes) => e < tier1.shard_bounds[k + 1]}

\* With every tier-1 shard collected its shards were a partition of the
\* round's entries: nobody is left out of the first tier or ranked twice.
Tier1Partition ==
  tier1.exists /\ tier1_shards_collected =>
    /\ \A e \in Entries : \E k \in Tier1Shards : e \in Tier1Interval(k)
    /\ \A k \in Tier1Shards : Cardinality(Tier1Interval(k)) = tier1.shard_sizes[k]

\* The first tier keeps its winners strictly ascending, whatever order its
\* shards are collected in, and none of the podium is lost in it.
PodiumAmongTier1Winners ==
  /\ \A i \in 2..Len(tier1.winners) : tier1.winners[i - 1] < tier1.winners[i]
  /\ tier1.exists /\ tier1_shards_collected =>
       Range(Podium(key)) \subseteq Range(tier1.winners)

\* A partition init_tier1_bracket accepted never strands the round at the
\* promotion, and the promoted bracket partitions the winners: every winner in
\* exactly one semifinal, each semifinal within one computation, starting at
\* the bound written for it.
SemifinalsPartitionWinners ==
  /\ tier1.exists /\ tier1_shards_collected =>
       Len(semifinal_sizes(Len(tier1.winners))) \in 1..MAX_SHARDS
  /\ tier1.promoted =>
       /\ Total(bracket.shard_sizes) = Len(tier1.winners)
       /\ \A k \in Shards : /\ bracket.shard_sizes[k] \in 1..MAX_SHARD_SIZE
                            /\ bracket.shard_bounds[k] = SemifinalPlace(k, 1)
=============================================================================
