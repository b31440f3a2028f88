------------------------------ MODULE Bracket ------------------------------
(***************************************************************************)
(* The single-tier bracket reveal: init_bracket pins a partition of the    *)
(* round's entries into shards, queue_shard_reveal sends one shard (or the *)
(* shard winners, the FINAL reveal) to the MPC cluster, the callback       *)
(* stores the winning slots in the shard's result account,                 *)
(* collect_shard_winners turns slots into finalists and                    *)
(* apply_bracket_result writes the round's winners.                        *)
(*                                                                         *)
(* An entry is a number, its place in the byte order of entry pubkeys.     *)
(* The caller supplies the entry accounts of every call; a strictly        *)
(* ascending run of accounts is a set of entries, and slot i of it is the  *)
(* i-th smallest.  Scoring is over: the round is CLOSED or FINALIZED and   *)
(* every entry scored (module Scoring), and key[e] is what the circuit     *)
(* ranks an entry by, score * 8 + rarity.  Shards are numbered from 1.     *)
(* The MPC cluster answers a queued computation at any later time, in any  *)
(* order, or never.                                                        *)
(***************************************************************************)
EXTENDS Integers, FiniteSets, Sequences, Functions

CONSTANTS
  Entries,         \* the round's entries
  Keys,            \* ranking keys entries may have
  MAX_SHARDS,      \* shards a bracket may have
  MAX_SHARD_SIZE,  \* entries one shard may have
  TOP_K,           \* SHARD_WINNERS and REVEAL_TOP_K, both 3 in the code
  OtherResults,    \* indices of the round's further result accounts (module TwoTier)
  MaxGenerations   \* bound: calls of init_bracket

ASSUME EntriesAssumption == Entries \subseteq Nat \ {0} /\ IsFiniteSet(Entries)
ASSUME KeysAssumption == Keys \subseteq Nat
ASSUME SizesAssumption ==
  /\ MAX_SHARDS \in Nat /\ MAX_SHARDS < 255
  /\ MAX_SHARD_SIZE \in Nat /\ TOP_K \in Nat \ {0} /\ MaxGenerations \in Nat

ASSUME ResultsAssumption == OtherResults \subseteq Nat \ {255}

VARIABLES
  paused,            \* config.paused
  key,               \* each entry's ranking key, fixed once scored
  bracket,           \* the BracketState account
  result,            \* the RevealTop3V3Result accounts, by shard index
  computations,      \* reveal computations queued and not yet answered
  scoring_revealed,  \* round.scoring_revealed
  top                \* round.top1/2/3

vars == <<paused, key, bracket, result, computations, scoring_revealed, top>>

FINAL_SHARD_INDEX == 255
Indices == 1..MAX_SHARDS \cup {FINAL_SHARD_INDEX} \cup OtherResults

Smaller(a, b) == IF a < b THEN a ELSE b

NoResult == [ready |-> FALSE, generation |-> 0, slots |-> <<>>]

NoBracket ==
  [shard_sizes |-> <<>>, shard_bounds |-> <<>>, shards_collected |-> {},
   finalists |-> <<>>, final_queued |-> FALSE, applied |-> FALSE, generation |-> 0]

shard_count == Len(bracket.shard_sizes)
Shards == 1..shard_count

Init ==
  /\ paused = FALSE
  /\ key \in [Entries -> Keys]
  /\ bracket = NoBracket
  /\ result = [i \in Indices |-> NoResult]
  /\ computations = {}
  /\ scoring_revealed = FALSE
  /\ top = <<>>

-----------------------------------------------------------------------------
(***************************************************************************)
(* Slots and the circuit.                                                  *)
(***************************************************************************)
\* The slot of entry e in the ascending run S, and the entry at slot i of it.
Slot(S, e) == Cardinality({f \in S : f <= e})
AtSlot(S, i) == CHOOSE e \in S : Slot(S, e) = i
Ascending(S) == [i \in 1..Cardinality(S) |-> AtSlot(S, i)]

\* A higher key wins, a tie goes to the lower slot: a total order on entries,
\* the same whichever run they are compared in.
Beats(k, e, f) == k[e] > k[f] \/ (k[e] = k[f] /\ e < f)

Best(k, S, i) ==
  CHOOSE e \in S : Cardinality({f \in S : Beats(k, f, e)}) = i - 1

\* The slots reveal_top3_v5 answers with: ranks past the end of the run name
\* the padding slots, masked to the lowest key.
reveal_top3(S) ==
  [i \in 1..TOP_K |-> IF i <= Cardinality(S) THEN Slot(S, Best(key, S, i)) ELSE i]

-----------------------------------------------------------------------------
SetPaused(b) ==
  /\ paused' = b
  /\ UNCHANGED <<key, bracket, result, computations, scoring_revealed, top>>

\* The sizes' sum, as the number of places they make: place i of shard k.
Places(sizes) == UNION {{k} \X (1..sizes[k]) : k \in 1..Len(sizes)}
Total(sizes) == Cardinality(Places(sizes))

valid_layout(sizes, bounds) ==
  /\ Len(sizes) \in 1..MAX_SHARDS
  /\ Len(bounds) = Len(sizes)
  /\ \A k \in 1..Len(sizes) : sizes[k] \in 1..MAX_SHARD_SIZE
  /\ Total(sizes) = Cardinality(Entries)
  /\ \A k \in 2..Len(bounds) : bounds[k] > bounds[k - 1]

\* mutant: what was collected under the last partition is kept.
pinned_bracket_uncleared(sizes, bounds) ==
  [bracket EXCEPT !.shard_sizes = sizes, !.shard_bounds = bounds,
                  !.generation = bracket.generation + 1]

\* Whatever the last partition had collected is dropped, its generation outdated.
pinned_bracket(sizes, bounds) ==
  [NoBracket EXCEPT !.shard_sizes = sizes, !.shard_bounds = bounds,
                    !.generation = bracket.generation + 1]

init_bracket(sizes, bounds) ==
  /\ ~paused
  /\ ~scoring_revealed
  /\ valid_layout(sizes, bounds)
  /\ bracket' = pinned_bracket(sizes, bounds)
  /\ UNCHANGED <<paused, key, result, computations, scoring_revealed, top>>

-----------------------------------------------------------------------------
all_shards_collected == bracket.shards_collected = Shards

needs_final_reveal == shard_count > 1

\* mutant: the shard's upper bound is not checked.
in_shard_unbounded(S, k) ==
  /\ Cardinality(S) = bracket.shard_sizes[k]
  /\ bracket.shard_bounds[k] \in S
  /\ \A e \in S : e >= bracket.shard_bounds[k]

\* The run starts at shard k's bound, stays below the next and has its size.
in_shard(S, k) ==
  /\ Cardinality(S) = bracket.shard_sizes[k]
  /\ bracket.shard_bounds[k] \in S
  /\ \A e \in S : e >= bracket.shard_bounds[k]
  /\ k < shard_count => \A e \in S : e < bracket.shard_bounds[k + 1]

\* The result is reset and stamped, then the computation queued.
Queue(i, S) ==
  /\ result' = [result EXCEPT ![i].ready = FALSE, ![i].generation = bracket.generation]
  /\ computations' = computations \cup {[index |-> i, entries |-> S]}

queue_shard(k, S) ==
  /\ ~paused
  /\ ~scoring_revealed
  /\ k \in Shards
  /\ in_shard(S, k)
  /\ Queue(k, S)
  /\ UNCHANGED <<paused, key, bracket, scoring_revealed, top>>

\* The finalists are rewritten in the order the final slots will index.
queue_final(S) ==
  /\ ~paused
  /\ ~scoring_revealed
  /\ shard_count > 0
  /\ needs_final_reveal
  /\ all_shards_collected
  /\ ~bracket.applied
  /\ Cardinality(S) = Len(bracket.finalists)
  /\ S \subseteq Range(bracket.finalists)
  /\ Queue(FINAL_SHARD_INDEX, S)
  /\ bracket' = [bracket EXCEPT !.finalists = Ascending(S), !.final_queued = TRUE]
  /\ UNCHANGED <<paused, key, scoring_revealed, top>>

queue_shard_reveal(S) == (\E k \in Shards : queue_shard(k, S)) \/ queue_final(S)

\* The callback knows the result account it was queued for and nothing else.
reveal_top3_v5_callback(c) ==
  /\ computations' = computations \ {c}
  /\ result' = [result EXCEPT ![c.index].ready = TRUE,
                              ![c.index].slots = reveal_top3(c.entries)]
  /\ UNCHANGED <<paused, key, bracket, scoring_revealed, top>>

\* The computation is aborted, or its answer does not verify.
Abort(c) ==
  /\ computations' = computations \ {c}
  /\ UNCHANGED <<paused, key, bracket, result, scoring_revealed, top>>

-----------------------------------------------------------------------------
\* mutant: the result's generation is not compared.
usable_any_generation(i) == result[i].ready

usable(i) == result[i].ready /\ result[i].generation = bracket.generation

uncollected(k) == k \notin bracket.shards_collected

taken(n) == Smaller(TOP_K, n)

collect_shard_winners(k, S) ==
  LET slots == result[k].slots
      n == bracket.shard_sizes[k] IN
  /\ k \in Shards
  /\ usable(k)
  /\ uncollected(k)
  /\ in_shard(S, k)
  /\ \A i \in 1..taken(n) : slots[i] <= n
  /\ Len(bracket.finalists) + taken(n) <= TOP_K * MAX_SHARDS
  /\ bracket' = [bracket EXCEPT
       !.finalists = @ \o [i \in 1..taken(n) |-> AtSlot(S, slots[i])],
       !.shards_collected = @ \cup {k}]
  /\ UNCHANGED <<paused, key, result, computations, scoring_revealed, top>>

\* One shard: its ranking is the round's, and finalists are in rank order.
winners_of_one_shard ==
  [i \in 1..Smaller(TOP_K, Len(bracket.finalists)) |-> bracket.finalists[i]]

\* Several: the final reveal's slots index the ascending finalists.
winners_of_final(slots) ==
  [i \in 1..Smaller(TOP_K, Len(bracket.finalists)) |-> bracket.finalists[slots[i]]]

apply_bracket_result(i) ==
  LET slots == result[i].slots
      n == Len(bracket.finalists) IN
  /\ shard_count > 0
  /\ ~bracket.applied
  /\ all_shards_collected
  /\ usable(i)
  /\ ~scoring_revealed
  /\ \/ /\ ~needs_final_reveal
        /\ i = 1
        /\ ~bracket.final_queued
        /\ top' = winners_of_one_shard
     \/ /\ needs_final_reveal
        /\ i = FINAL_SHARD_INDEX
        /\ bracket.final_queued
        /\ \A j \in 1..Smaller(TOP_K, n) : slots[j] <= n
        /\ top' = winners_of_final(slots)
  /\ scoring_revealed' = TRUE
  /\ bracket' = [bracket EXCEPT !.applied = TRUE]
  /\ UNCHANGED <<paused, key, result, computations>>

-----------------------------------------------------------------------------
\* The layouts worth supplying: every one init_bracket accepts, whether or not
\* it is the partition planBracket would compute.
Layouts ==
  {l \in UNION {[1..n -> 1..MAX_SHARD_SIZE] \X [1..n -> Entries] : n \in 1..MAX_SHARDS} :
     valid_layout(l[1], l[2])}

Next ==
  \/ \E b \in BOOLEAN : SetPaused(b)
  \/ bracket.generation < MaxGenerations /\ \E l \in Layouts : init_bracket(l[1], l[2])
  \/ \E S \in SUBSET Entries :
       \/ queue_shard_reveal(S)
       \/ \E k \in Shards : collect_shard_winners(k, S)
  \/ \E c \in computations : reveal_top3_v5_callback(c) \/ Abort(c)
  \/ \E i \in Indices : apply_bracket_result(i)

Spec == Init /\ [][Next]_vars

(***************************************************************************)
(* An operator who re-pins the partition only while no computation is in   *)
(* flight: what the generation stamp needs (see StaleResultsRejected).     *)
(***************************************************************************)
QuietNext ==
  /\ Next
  /\ bracket'.generation # bracket.generation => computations = {}

QuietSpec == Init /\ [][QuietNext]_vars

-----------------------------------------------------------------------------
(***************************************************************************)
(* Properties.                                                             *)
(***************************************************************************)
Interval(k) ==
  {e \in Entries : /\ e >= bracket.shard_bounds[k]
                   /\ k < shard_count => e < bracket.shard_bounds[k + 1]}

\* Once every shard has been collected the shards were a partition of the
\* round's entries, each interval holding exactly its declared size, though
\* no call ever sees more than one shard (state.rs: no drops, no duplicates,
\* nothing smuggled in).
ShardsPartition ==
  shard_count > 0 /\ all_shards_collected =>
    /\ \A e \in Entries : \E k \in Shards : e \in Interval(k)
    /\ \A k \in Shards : Cardinality(Interval(k)) = bracket.shard_sizes[k]

Podium(k) == [i \in 1..Smaller(TOP_K, Cardinality(Entries)) |-> Best(k, Entries, i)]

\* Whoever belongs on the podium has survived the shards: with every shard
\* collected the finalists are distinct and the true winners are among them.
PodiumAmongFinalists ==
  shard_count > 0 /\ all_shards_collected =>
    /\ Cardinality(Range(bracket.finalists)) = Len(bracket.finalists)
    /\ Range(Podium(key)) \subseteq Range(bracket.finalists)

Promise == INSTANCE RevealPromise WITH
  scores <- key, revealed <- scoring_revealed, winners <- top

\* The bracket implements RevealPromise: the round's winners appear in one
\* step, are the best of ALL its entries in order, whatever the partition,
\* the accounts supplied and the order of answers, and never change.
RevealKept == Promise!Spec

\* What state.rs claims of BracketState.generation: a re-init cannot smuggle a
\* stale, differently-partitioned result back in; so the winners written are
\* the round's.
StaleResultsRejected == scoring_revealed => top = Podium(key)
=============================================================================
