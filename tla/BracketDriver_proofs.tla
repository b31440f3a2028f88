------------------------ MODULE BracketDriver_proofs ------------------------
(***************************************************************************)
(* Theorems about the daily job's reveal of a single-tier round, for every *)
(* set of entries and keys, number and size of shards and length of        *)
(* podium, whatever partition and answers another operator left (with      *)
(* nothing in flight, OtherPinned), and any number of crashes and lost     *)
(* computations.                                                           *)
(*                                                                         *)
(* Bracket_proofs shows that the bracket keeps RevealPromise when nothing  *)
(* is in flight at a re-pin.  JobKeepsPromise shows that the job is such   *)
(* an operator, though it never looks: a computation in flight is one of   *)
(* the planned partition, and a run that finds the planned partition does  *)
(* not pin (JobInv).  A crash between the two keeps that, as the next run  *)
(* reads the partition from the chain again.                               *)
(***************************************************************************)
EXTENDS BracketDriver, Bracket_proofs

-----------------------------------------------------------------------------
(***************************************************************************)
(* The inductive invariant.                                                *)
(***************************************************************************)
Stations ==
  {"idle", "pin", "survey", "grace", "queue", "await", "collect",
   "queueFinal", "awaitFinal", "apply"}

matches == partitionMatches(bracket)

\* Where the run stands tells whether the planned partition is pinned, and a
\* computation in flight that it is.
JobInv ==
  /\ pc \in Stations
  /\ needQueue \in SUBSET PlanShards
  /\ pc = "pin" => ~matches
  /\ pc \notin {"idle", "pin"} => matches
  /\ computations # {} => matches

DriverInv == QuietInv /\ JobInv

-----------------------------------------------------------------------------
(***************************************************************************)
(* Wherever another operator left the round.                               *)
(***************************************************************************)
LEMMA OtherQuiet == OtherPinned => QuietInv /\ computations = {}
<1>. SUFFICES ASSUME OtherPinned PROVE QuietInv
  BY DEF OtherPinned
<1>1. PICK l \in Layouts :
        bracket = [NoBracket EXCEPT !.shard_sizes = l[1], !.shard_bounds = l[2], !.generation = 1]
  BY DEF OtherPinned
<1>2. PICK answered \in SUBSET {k \in Shards : in_shard(OtherRun(k), k)} :
        result = [i \in Indices |->
          IF i \in answered
          THEN [ready |-> TRUE, generation |-> 1, slots |-> reveal_top3(OtherRun(i))]
          ELSE NoResult]
  BY DEF OtherPinned
<1>3. /\ l[1] \in Seq(Nat) /\ l[2] \in Seq(Entries)
      /\ Len(l[1]) \in 1..MAX_SHARDS /\ Len(l[2]) = Len(l[1])
      /\ Total(l[1]) = Cardinality(Entries)
      /\ \A k \in 2..Len(l[2]) : l[2][k] > l[2][k - 1]
  BY LayoutsType DEF valid_layout
<1>4. bracket = [shard_sizes |-> l[1], shard_bounds |-> l[2], shards_collected |-> {},
                 finalists |-> <<>>, final_queued |-> FALSE, applied |-> FALSE,
                 generation |-> 1]
  <2>. DEFINE sizes == l[1]
              bounds == l[2]
  <2>1. bracket = [NoBracket EXCEPT !.shard_sizes = sizes, !.shard_bounds = bounds,
                                    !.generation = 1]
    BY <1>1
  <2>. HIDE DEF sizes, bounds
  <2>2. bracket = [shard_sizes |-> sizes, shard_bounds |-> bounds, shards_collected |-> {},
                   finalists |-> <<>>, final_queued |-> FALSE, applied |-> FALSE,
                   generation |-> 1]
    BY <2>1 DEF NoBracket
  <2>. QED BY <2>2 DEF sizes, bounds
<1>5. bracket \in BracketType
  BY <1>3, <1>4 DEF BracketType
<1>6. KeyOK /\ computations = {}
  BY KeysAssumption DEF OtherPinned, KeyOK
<1>7. \A k : OtherRun(k) \in SUBSET Entries
  BY DEF OtherRun, Interval
<1>8. ASSUME NEW i \in Indices
      PROVE  /\ result[i] \in ResultType /\ result[i].generation <= 1
             /\ result[i].ready => /\ result[i].slots = reveal_top3(OtherRun(i))
                                   /\ result[i].slots \in [1..TOP_K -> Nat \ {0}]
                                   /\ i \in Shards /\ in_shard(OtherRun(i), i)
  <2>1. CASE i \in answered
    <3>. DEFINE slots == reveal_top3(OtherRun(i))
    <3>1. result[i] = [ready |-> TRUE, generation |-> 1, slots |-> slots]
      BY <1>2, <2>1
    <3>2. slots \in [1..TOP_K -> Nat \ {0}] /\ slots \in Seq(Nat \ {0})
      BY <1>6, <1>7, RevealType
    <3>. HIDE DEF slots
    <3>3. result[i] \in ResultType /\ result[i].generation = 1 /\ result[i].slots = slots
      BY <3>1, <3>2 DEF ResultType
    <3>. QED BY <2>1, <3>2, <3>3 DEF slots
  <2>2. CASE i \notin answered
    <3>1. result[i] = NoResult
      BY <1>2, <2>2
    <3>. QED BY <3>1 DEF NoResult, ResultType
  <2>. QED BY <2>1, <2>2
<1>9. TypeOK
  <2>1. result \in [Indices -> ResultType]
    <3>1. result = [i \in Indices |-> result[i]]
      BY <1>2
    <3>. QED BY <1>8, <3>1
  <2>. QED BY <1>5, <1>6, <1>8, <2>1 DEF TypeOK
<1>10. Layout
  <2>1. \A k \in 1..Len(l[1]) : l[2][k] \in Nat
    <3>1. \A k \in 1..Len(l[1]) : l[2][k] \in Entries
      BY <1>3
    <3>. QED BY <3>1, EntriesAssumption
  <2>2. bracket.shard_sizes = l[1] /\ bracket.shard_bounds = l[2]
    BY <1>4
  <2>. QED BY <1>3, <2>1, <2>2, SizesAssumption DEF Layout, Divides, shard_count
<1>11. Gathered /\ CollectedHaveRuns
  BY <1>4 DEF Gathered, FinalistsDistinct, OneShardRanked, FinalInOrder, finalists,
             CollectedHaveRuns
<1>12. ComputationsAsked /\ ResultsAsked
  <2>1. bracket.generation = 1
    BY <1>4
  <2>. QED BY <1>6, <1>7, <1>8, <2>1 DEF ComputationsAsked, ResultsAsked, Asked, usable
<1>. QED BY <1>9, <1>10, <1>11, <1>12 DEF QuietInv, Pinned

LEMMA InitDriver == DriverInit => DriverInv
<1>. SUFFICES ASSUME DriverInit PROVE DriverInv
  OBVIOUS
<1>1. QuietInv /\ computations = {}
  BY InitQuiet, OtherQuiet DEF DriverInit, Init
<1>2. JobInv
  BY <1>1 DEF DriverInit, JobInv, Stations
<1>. QED BY <1>1, <1>2 DEF DriverInv

-----------------------------------------------------------------------------
(***************************************************************************)
(* Every step keeps it.                                                    *)
(***************************************************************************)
\* The invariant of the bracket holds on when nothing on chain has moved.
LEMMA AsideKeeps ==
  ASSUME DriverInv, ChainUnchanged
  PROVE  QuietInv' /\ matches' = matches /\ computations' = computations
<1>1. UNCHANGED <<bracket, key, result, computations>>
  BY DEF ChainUnchanged, vars
<1>2. Pinned'
  BY PinnedByOther DEF ChainUnchanged, DriverInv, QuietInv
<1>. QED BY <1>1, <1>2, QuietByOther DEF DriverInv, matches, partitionMatches

LEMMA Asides ==
  ASSUME DriverInv,
         \/ StartRun \/ Survey \/ GraceOver \/ QueuedAll \/ Landed
         \/ CollectedAll \/ FinalLanded \/ Throw \/ Crash
  PROVE  DriverInv'
<1>1. ChainUnchanged
  BY DEF StartRun, Survey, GraceOver, QueuedAll, Landed, CollectedAll, FinalLanded, Throw, Crash
<1>2. QuietInv' /\ matches' = matches /\ computations' = computations
  BY <1>1, AsideKeeps
<1>3. JobInv'
  <2>1. CASE StartRun
    BY <1>2, <2>1 DEF StartRun, must_pin, DriverInv, JobInv, Stations, matches
  <2>2. CASE Survey
    BY <1>2, <2>2 DEF Survey, DriverInv, JobInv, Stations
  <2>3. CASE GraceOver
    BY <1>2, <2>3 DEF GraceOver, missing, DriverInv, JobInv, Stations
  <2>4. CASE QueuedAll \/ Landed \/ CollectedAll \/ FinalLanded
    BY <1>2, <2>4 DEF QueuedAll, Landed, CollectedAll, FinalLanded, DriverInv, JobInv, Stations
  <2>5. CASE Throw \/ Crash
    <3>1. pc' = "idle" /\ needQueue' = needQueue
      BY <2>5 DEF Throw, Crash
    <3>. QED BY <1>2, <3>1 DEF DriverInv, JobInv, Stations
  <2>. QED BY <2>1, <2>2, <2>3, <2>4, <2>5
<1>. QED BY <1>2, <1>3 DEF DriverInv

\* A run that pins finds another partition, so nothing is in flight.
LEMMA Pins ==
  ASSUME DriverInv, Pin
  PROVE  DriverInv'
<1>1. /\ init_bracket(planShardSizes, Bound) /\ pc = "pin" /\ pc' = "survey"
      /\ needQueue' = needQueue
  BY DEF Pin, Plan
<1>2. planShardSizes \in Seq(Nat) /\ Bound \in Seq(Entries)
  BY PlanSizes, PlanBounds
<1>3. computations = {}
  BY <1>1 DEF DriverInv, JobInv
<1>4. Pinned'
  BY <1>1, <1>2, PinnedByInit DEF DriverInv, QuietInv
<1>5. QuietInv'
  BY <1>1, <1>3, <1>4, QuietByRepin DEF DriverInv
<1>6. matches'
  <2>1. bracket \in BracketType /\ bracket' = pinned_bracket(planShardSizes, Bound)
    BY <1>1 DEF init_bracket, DriverInv, QuietInv, Pinned, TypeOK
  <2>2. bracket'.shard_sizes = planShardSizes /\ bracket'.shard_bounds = Bound
    BY <1>2, <2>1, PinnedBracketType
  <2>. QED BY <2>2 DEF matches, partitionMatches, Plan
<1>. QED BY <1>1, <1>5, <1>6 DEF DriverInv, JobInv, Stations

\* What the job supplies for a shard is a set of the round's entries.
LEMMA Supplied ==
  ASSUME NEW S \in SUBSET PlanShards, S # {}
  PROVE  Least(S) \in S /\ Chunk[Least(S)] \in SUBSET Entries
<1>1. S \in SUBSET Nat
  BY PlanSizes
<1>2. Least(S) \in S
  BY <1>1, LeastOf
<1>. QED BY <1>2, ChunkCounted

LEMMA QueuesShard ==
  ASSUME DriverInv, QueueShard
  PROVE  DriverInv'
<1>. DEFINE k == Least(needQueue)
            S == Chunk[k]
<1>1. /\ queue_shard(k, S) /\ needQueue # {} /\ needQueue' = needQueue \ {k}
      /\ pc = "queue" /\ pc' = pc
  BY DEF QueueShard
<1>2. S \in SUBSET Entries
  BY <1>1, Supplied DEF DriverInv, JobInv
<1>3. k \in Shards /\ UNCHANGED bracket
  BY <1>1 DEF queue_shard
<1>. HIDE DEF k, S
<1>4. Pinned'
  BY <1>1, <1>2, <1>3, PinnedByQueue DEF queue_shard_reveal, DriverInv, QuietInv
<1>5. QuietInv'
  BY <1>1, <1>2, <1>3, <1>4, QuietByQueueShard DEF DriverInv
<1>6. matches'
  BY <1>1, <1>3 DEF DriverInv, JobInv, matches, partitionMatches
<1>. QED BY <1>1, <1>5, <1>6 DEF DriverInv, JobInv, Stations

LEMMA CollectsShard ==
  ASSUME DriverInv, CollectShard
  PROVE  DriverInv'
<1>. DEFINE k == Least(uncollectedShards)
            S == Chunk[k]
<1>1. /\ collect_shard_winners(k, S) /\ uncollectedShards # {}
      /\ pc = "collect" /\ UNCHANGED <<pc, needQueue>>
  BY DEF CollectShard, CollectNext, drvars
<1>2. S \in SUBSET Entries
  BY <1>1, Supplied DEF uncollectedShards
<1>3. k \in Shards /\ computations' = computations
  BY <1>1 DEF collect_shard_winners
<1>. HIDE DEF k, S
<1>4. Pinned'
  BY <1>1, <1>2, <1>3, PinnedByCollect DEF DriverInv, QuietInv
<1>5. QuietInv'
  BY <1>1, <1>2, <1>3, <1>4, QuietByCollect DEF DriverInv
<1>6. matches'
  <2>1. UNCHANGED <<bracket.shard_sizes, bracket.shard_bounds>>
    <3>1. PICK f, c : bracket' = [bracket EXCEPT !.finalists = f, !.shards_collected = c]
      BY <1>1 DEF collect_shard_winners
    <3>. QED BY <3>1 DEF DriverInv, QuietInv, Pinned, TypeOK, BracketType
  <2>. QED BY <1>1, <2>1 DEF DriverInv, JobInv, matches, partitionMatches
<1>. QED BY <1>1, <1>5, <1>6 DEF DriverInv, JobInv, Stations

LEMMA QueuesFinal ==
  ASSUME DriverInv, QueueFinal
  PROVE  DriverInv'
<1>. DEFINE S == Range(bracket.finalists)
<1>1. queue_final(S) /\ pc = "queueFinal" /\ pc' = "awaitFinal" /\ needQueue' = needQueue
  BY DEF QueueFinal
<1>2. S \in SUBSET Entries
  <2>1. bracket.finalists \in Seq(Entries)
    BY DEF DriverInv, QuietInv, Pinned, TypeOK, BracketType
  <2>. QED BY <2>1 DEF Range
<1>. HIDE DEF S
<1>3. Pinned'
  BY <1>1, <1>2, PinnedByQueue DEF queue_shard_reveal, DriverInv, QuietInv
<1>4. QuietInv'
  BY <1>1, <1>2, <1>3, QuietByQueueFinal DEF DriverInv
<1>5. matches'
  <2>1. UNCHANGED <<bracket.shard_sizes, bracket.shard_bounds>>
    <3>1. PICK f : bracket' = [bracket EXCEPT !.finalists = f, !.final_queued = TRUE]
      BY <1>1 DEF queue_final
    <3>. QED BY <3>1 DEF DriverInv, QuietInv, Pinned, TypeOK, BracketType
  <2>. QED BY <1>1, <2>1 DEF DriverInv, JobInv, matches, partitionMatches
<1>. QED BY <1>1, <1>4, <1>5 DEF DriverInv, JobInv, Stations

\* The result the job looks for is one of the round's accounts.
LEMMA FinalIndexType ==
  ASSUME DriverInv, apply_bracket_result(FinalIndex)
  PROVE  FinalIndex \in Indices
<1>1. shard_count = 1 => 1 \in 1..MAX_SHARDS
  BY SizesAssumption DEF DriverInv, QuietInv, Pinned, Layout
<1>. QED BY <1>1, IndicesType DEF FinalIndex

LEMMA Applies ==
  ASSUME DriverInv, Apply
  PROVE  DriverInv'
<1>1. /\ apply_bracket_result(FinalIndex) /\ FinalIndex \in Indices
      /\ pc' = "idle" /\ pc = "apply" /\ needQueue' = needQueue
  BY FinalIndexType DEF Apply
<1>2. bracket' = [bracket EXCEPT !.applied = TRUE] /\ UNCHANGED <<key, result, computations>>
  BY <1>1 DEF apply_bracket_result
<1>3. UNCHANGED <<bracket.generation, bracket.shard_sizes, bracket.shard_bounds,
                  bracket.shards_collected, bracket.finalists, bracket.final_queued>>
  BY <1>2 DEF DriverInv, QuietInv, Pinned, TypeOK, BracketType
<1>4. Pinned'
  BY <1>1, PinnedByApply DEF DriverInv, QuietInv
<1>5. QuietInv'
  BY <1>2, <1>3, <1>4, QuietByOther DEF DriverInv
<1>6. matches'
  BY <1>1, <1>3 DEF DriverInv, JobInv, matches, partitionMatches
<1>. QED BY <1>1, <1>5, <1>6 DEF DriverInv, JobInv, Stations

LEMMA Answers ==
  ASSUME DriverInv, NEW c \in computations, reveal_top3_v5_callback(c) \/ Abort(c),
         UNCHANGED <<pc, needQueue>>
  PROVE  DriverInv'
<1>1. UNCHANGED bracket /\ computations' \subseteq computations
  BY DEF reveal_top3_v5_callback, Abort
<1>2. Pinned'
  BY PinnedByAnswer DEF DriverInv, QuietInv
<1>3. QuietInv'
  BY <1>2, QuietByAnswer DEF DriverInv
<1>4. JobInv'
  BY <1>1 DEF DriverInv, JobInv, Stations, matches, partitionMatches
<1>. QED BY <1>3, <1>4 DEF DriverInv

LEMMA DriverInvStep == DriverInv /\ [DriverNext]_allvars => DriverInv'
<1>. SUFFICES ASSUME DriverInv, [DriverNext]_allvars PROVE DriverInv'
  OBVIOUS
<1>1. CASE UNCHANGED allvars
  <2>1. ChainUnchanged /\ UNCHANGED <<pc, needQueue>>
    BY <1>1 DEF allvars, drvars, ChainUnchanged
  <2>. QED BY <2>1, AsideKeeps DEF DriverInv, JobInv, Stations
<1>2. CASE DriverStep
  BY <1>2, Asides, Pins, QueuesShard, CollectsShard, QueuesFinal, Applies DEF DriverStep
<1>3. CASE Crash
  BY <1>3, Asides
<1>4. CASE \E i \in Indices : Answer(i)
  BY <1>4, Answers DEF Answer, drvars
<1>5. CASE Lose
  BY <1>5, Answers DEF Lose
<1>. QED BY <1>1, <1>2, <1>3, <1>4, <1>5 DEF DriverNext

LEMMA DriverAlways == DriverSpec => []DriverInv
BY InitDriver, DriverInvStep, PTL DEF DriverSpec

-----------------------------------------------------------------------------
(***************************************************************************)
(* What it gives.                                                          *)
(***************************************************************************)
\* The job is an operator QuietSpec allows: no run pins a partition with a
\* computation in flight, though none asks, and a run a crash cut off between
\* its look at the chain and its transaction included.
QuietRepins == bracket'.generation # bracket.generation => computations = {}

THEOREM JobRepinsQuietly == DriverSpec => [][QuietRepins]_allvars
<1>1. DriverInv /\ [DriverNext]_allvars => [QuietRepins]_allvars
  <2>. SUFFICES ASSUME DriverInv, DriverNext PROVE QuietRepins
    OBVIOUS
  <2>1. CASE Pin
    BY <2>1 DEF Pin, DriverInv, JobInv, QuietRepins
  <2>2. CASE UNCHANGED bracket
    BY <2>2 DEF QuietRepins
  <2>3. CASE CollectShard \/ QueueFinal \/ Apply
    <3>1. ASSUME NEW f, NEW c, bracket' = [bracket EXCEPT !.finalists = f, !.shards_collected = c]
          PROVE  bracket'.generation = bracket.generation
      BY <3>1 DEF DriverInv, QuietInv, Pinned, TypeOK, BracketType
    <3>2. ASSUME NEW f, bracket' = [bracket EXCEPT !.finalists = f, !.final_queued = TRUE]
          PROVE  bracket'.generation = bracket.generation
      BY <3>2 DEF DriverInv, QuietInv, Pinned, TypeOK, BracketType
    <3>3. ASSUME bracket' = [bracket EXCEPT !.applied = TRUE]
          PROVE  bracket'.generation = bracket.generation
      BY <3>3 DEF DriverInv, QuietInv, Pinned, TypeOK, BracketType
    <3>. QED BY <2>3, <3>1, <3>2, <3>3 DEF CollectShard, CollectNext, QueueFinal, Apply,
             collect_shard_winners, queue_final, apply_bracket_result, QuietRepins
  <2>4. DriverNext /\ ~(Pin \/ CollectShard \/ QueueFinal \/ Apply) => UNCHANGED bracket
    BY DEF DriverNext, DriverStep, StartRun, Survey, GraceOver, QueueShard, queue_shard,
           QueuedAll, Landed, CollectedAll, FinalLanded, Throw, Crash, Answer, Lose,
           reveal_top3_v5_callback, Abort, ChainUnchanged, vars
  <2>. QED BY <2>1, <2>2, <2>3, <2>4
<1>. QED BY <1>1, DriverAlways, PTL DEF DriverSpec

\* What a run supplies for a shard, it supplies to the partition it was cut
\* for: every chunk it queues or collects with passes the shard's checks.
SuppliesRuns ==
  pc \in {"queue", "collect"} => \A k \in PlanShards : k \in Shards /\ in_shard(Chunk[k], k)

THEOREM JobSuppliesRuns == DriverSpec => []SuppliesRuns
<1>1. DriverInv => SuppliesRuns
  <2>. SUFFICES ASSUME DriverInv, pc \in {"queue", "collect"}
                PROVE  \A k \in PlanShards : k \in Shards /\ in_shard(Chunk[k], k)
    BY DEF SuppliesRuns
  <2>1. partitionMatches(bracket)
    BY DEF DriverInv, JobInv, matches
  <2>. QED BY <2>1, PlanFits
<1>. QED BY <1>1, DriverAlways, PTL

\* The round's winners appear in one step, are the best of all its entries in
\* order and never change, from any partition and answers another operator
\* left with nothing in flight, through any number of crashes, timeouts and lost computations.
THEOREM JobKeepsPromise == DriverSpec => RevealKept
<1>1. DriverInit => Promise!Init
  BY DEF DriverInit, OtherPinned, Init, Promise!Init
<1>2. DriverInv /\ [DriverNext]_allvars => [Promise!Reveal]_(Promise!vars)
  <2>. SUFFICES ASSUME DriverInv, [DriverNext]_allvars
                PROVE  [Promise!Reveal]_(Promise!vars)
    OBVIOUS
  <2>1. CASE UNCHANGED <<key, scoring_revealed, top>>
    BY <2>1 DEF Promise!vars
  <2>2. CASE Apply
    <3>1. apply_bracket_result(FinalIndex) /\ FinalIndex \in Indices
      BY <2>2, FinalIndexType DEF Apply
    <3>2. top' = Podium(key)
      BY <3>1, AppliedIsPodium DEF DriverInv
    <3>3. ~scoring_revealed /\ scoring_revealed' /\ UNCHANGED key
      BY <3>1 DEF apply_bracket_result
    <3>. QED BY <3>2, <3>3 DEF Promise!Reveal
  <2>3. DriverNext /\ ~Apply => UNCHANGED <<key, scoring_revealed, top>>
    BY DEF DriverNext, DriverStep, StartRun, Pin, Survey, GraceOver, QueueShard, QueuedAll,
           Landed, CollectShard, CollectNext, CollectedAll, QueueFinal, FinalLanded, Throw,
           Crash, Answer, Lose, init_bracket, queue_shard, queue_final, collect_shard_winners,
           reveal_top3_v5_callback, Abort, ChainUnchanged, vars
  <2>. QED BY <2>1, <2>2, <2>3 DEF allvars, vars
<1>. QED BY <1>1, <1>2, DriverAlways, PTL DEF DriverSpec, RevealKept, Promise!Spec

-----------------------------------------------------------------------------
(***************************************************************************)
(* A run that pins again trusts no result of the partition it replaced.    *)
(***************************************************************************)
Stamped(k) == result[k].generation = bracket.generation

\* It queues every shard, waits for every shard, and so collects with results
\* of its own partition.
RepinInv ==
  repin =>
    /\ pc # "grace"
    /\ pc = "queue" => awaited = PlanShards /\ \A k \in PlanShards \ needQueue : Stamped(k)
    /\ pc = "await" => awaited = PlanShards /\ \A k \in PlanShards : Stamped(k)
    /\ pc \in {"collect", "queueFinal", "awaitFinal", "apply"} =>
         \A k \in PlanShards : usable(k)

\* The shards' accounts, while the planned partition is pinned.
LEMMA PlanIndices ==
  ASSUME DriverInv, pc \notin {"idle", "pin"}, NEW k \in PlanShards
  PROVE  k \in Indices /\ k # FINAL_SHARD_INDEX
<1>1. k \in Shards
  BY PlanFits DEF DriverInv, JobInv, matches
<1>. QED BY <1>1, ShardsType DEF DriverInv, QuietInv, Pinned

LEMMA RepinAsides ==
  ASSUME DriverInv, RepinInv,
         \/ StartRun \/ Survey \/ GraceOver \/ QueuedAll \/ Landed
         \/ CollectedAll \/ FinalLanded \/ Throw \/ Crash
  PROVE  RepinInv'
<1>1. ChainUnchanged
  BY DEF StartRun, Survey, GraceOver, QueuedAll, Landed, CollectedAll, FinalLanded, Throw, Crash
<1>2. \A k : (Stamped(k)' <=> Stamped(k)) /\ (usable(k)' <=> usable(k))
  BY <1>1 DEF ChainUnchanged, vars, Stamped, usable
<1>3. CASE StartRun
  BY <1>3 DEF StartRun, RepinInv
<1>4. CASE Survey
  BY <1>4 DEF Survey, must_queue, RepinInv
<1>5. CASE GraceOver
  BY <1>5 DEF GraceOver, RepinInv
<1>6. CASE QueuedAll
  BY <1>2, <1>6 DEF QueuedAll, RepinInv
<1>7. CASE Landed
  <2>. SUFFICES ASSUME repin, NEW k \in PlanShards PROVE usable(k)
    BY <1>2, <1>7 DEF Landed, RepinInv
  <2>1. result[k].ready /\ Stamped(k)
    BY <1>7 DEF Landed, RepinInv, resultReady
  <2>. QED BY <2>1 DEF usable, Stamped
<1>8. CASE CollectedAll \/ FinalLanded
  BY <1>2, <1>8 DEF CollectedAll, FinalLanded, RepinInv
<1>9. CASE Throw \/ Crash
  <2>1. pc' = "idle"
    BY <1>9 DEF Throw, Crash
  <2>. QED BY <2>1 DEF RepinInv
<1>. QED BY <1>3, <1>4, <1>5, <1>6, <1>7, <1>8, <1>9

LEMMA RepinByQueueShard ==
  ASSUME DriverInv, RepinInv, QueueShard
  PROVE  RepinInv'
<1>. DEFINE k == Least(needQueue)
<1>1. /\ queue_shard(k, Chunk[k]) /\ needQueue # {} /\ needQueue' = needQueue \ {k}
      /\ pc = "queue" /\ UNCHANGED <<pc, repin, awaited>>
  BY DEF QueueShard
<1>2. k \in PlanShards
  BY <1>1, Supplied DEF DriverInv, JobInv
<1>3. /\ result' = [result EXCEPT ![k].ready = FALSE, ![k].generation = bracket.generation]
      /\ bracket' = bracket
  BY <1>1 DEF queue_shard, Queue
<1>. HIDE DEF k
<1>4. ASSUME NEW j \in PlanShards, j = k \/ Stamped(j) PROVE Stamped(j)'
  <2>1. j \in Indices /\ result \in [Indices -> ResultType]
    BY <1>1, PlanIndices DEF DriverInv, QuietInv, Pinned, TypeOK
  <2>. QED BY <1>3, <1>4, <2>1 DEF Stamped, ResultType
<1>5. repin => awaited = PlanShards /\ \A j \in PlanShards \ needQueue : Stamped(j)
  BY <1>1 DEF RepinInv
<1>6. repin => \A j \in PlanShards \ needQueue' : Stamped(j)'
  BY <1>1, <1>4, <1>5
<1>. QED BY <1>1, <1>5, <1>6 DEF RepinInv

\* A step that leaves the planned shards' results as usable and as stamped.
LEMMA RepinKept ==
  ASSUME RepinInv, UNCHANGED <<repin, needQueue, awaited>>,
         \/ pc' = pc
         \/ pc = "queueFinal" /\ pc' = "awaitFinal",
         pc \notin {"idle", "pin"} => \A k \in PlanShards :
           (Stamped(k) => Stamped(k)') /\ (usable(k) => usable(k)')
  PROVE  RepinInv'
BY DEF RepinInv

LEMMA GenerationKept ==
  ASSUME DriverInv, CollectShard \/ QueueFinal
  PROVE  bracket'.generation = bracket.generation
<1>1. CASE CollectShard
  <2>1. PICK f, c : bracket' = [bracket EXCEPT !.finalists = f, !.shards_collected = c]
    BY <1>1 DEF CollectShard, CollectNext, collect_shard_winners
  <2>. QED BY <2>1 DEF DriverInv, QuietInv, Pinned, TypeOK, BracketType
<1>2. CASE QueueFinal
  <2>1. PICK f : bracket' = [bracket EXCEPT !.finalists = f, !.final_queued = TRUE]
    BY <1>2 DEF QueueFinal, queue_final
  <2>. QED BY <2>1 DEF DriverInv, QuietInv, Pinned, TypeOK, BracketType
<1>. QED BY <1>1, <1>2

LEMMA RepinStep == DriverInv /\ RepinInv /\ [DriverNext]_allvars => RepinInv'
<1>. SUFFICES ASSUME DriverInv, RepinInv, [DriverNext]_allvars PROVE RepinInv'
  OBVIOUS
<1>1. CASE UNCHANGED allvars
  BY <1>1 DEF allvars, drvars, vars, RepinInv, Stamped, usable
<1>2. CASE \/ StartRun \/ Survey \/ GraceOver \/ QueuedAll \/ Landed
           \/ CollectedAll \/ FinalLanded \/ Throw \/ Crash
  BY <1>2, RepinAsides
<1>3. CASE Pin
  <2>1. pc' = "survey"
    BY <1>3 DEF Pin
  <2>. QED BY <2>1 DEF RepinInv
<1>4. CASE QueueShard
  BY <1>4, RepinByQueueShard
<1>5. CASE CollectShard
  <2>1. UNCHANGED <<result, drvars>>
    BY <1>5 DEF CollectShard, CollectNext, collect_shard_winners
  <2>. QED BY <1>5, <2>1, GenerationKept, RepinKept DEF drvars, Stamped, usable
<1>6. CASE QueueFinal
  <2>1. /\ result' = [result EXCEPT ![FINAL_SHARD_INDEX].ready = FALSE,
                                    ![FINAL_SHARD_INDEX].generation = bracket.generation]
        /\ pc = "queueFinal" /\ pc' = "awaitFinal" /\ UNCHANGED <<repin, needQueue, awaited>>
    BY <1>6 DEF QueueFinal, queue_final, Queue
  <2>2. ASSUME NEW k \in PlanShards PROVE result'[k] = result[k]
    <3>1. k \in Indices /\ k # FINAL_SHARD_INDEX /\ result \in [Indices -> ResultType]
      BY <2>1, PlanIndices DEF DriverInv, QuietInv, Pinned, TypeOK
    <3>. QED BY <2>1, <3>1
  <2>. QED BY <1>6, <2>1, <2>2, GenerationKept, RepinKept DEF Stamped, usable
<1>7. CASE Apply
  <2>1. pc' = "idle"
    BY <1>7 DEF Apply
  <2>. QED BY <2>1 DEF RepinInv
<1>8. CASE (\E i \in Indices : Answer(i)) \/ Lose
  <2>1. PICK c \in computations : reveal_top3_v5_callback(c) \/ Abort(c)
    BY <1>8 DEF Answer, Lose
  <2>2. UNCHANGED <<pc, repin, needQueue, awaited, bracket>>
    BY <1>8 DEF Answer, Lose, drvars, reveal_top3_v5_callback, Abort
  <2>3. ASSUME pc \notin {"idle", "pin"}, NEW k \in PlanShards
        PROVE  /\ result'[k].generation = result[k].generation
               /\ result[k].ready => result'[k].ready
    <3>1. k \in Indices /\ c.index \in Indices /\ result \in [Indices -> ResultType]
      BY <2>3, PlanIndices DEF DriverInv, QuietInv, Pinned, TypeOK
    <3>2. CASE reveal_top3_v5_callback(c)
      <4>. DEFINE slots == reveal_top3(c.entries)
      <4>1. result' = [result EXCEPT ![c.index].ready = TRUE, ![c.index].slots = slots]
        BY <3>2 DEF reveal_top3_v5_callback
      <4>. HIDE DEF slots
      <4>. QED BY <3>1, <4>1 DEF ResultType
    <3>3. CASE Abort(c)
      BY <3>3 DEF Abort
    <3>. QED BY <2>1, <3>2, <3>3
  <2>. QED BY <2>2, <2>3, RepinKept DEF Stamped, usable
<1>. QED BY <1>1, <1>2, <1>3, <1>4, <1>5, <1>6, <1>7, <1>8 DEF DriverNext, DriverStep

\* A run that pinned the partition again and is not cut off collects with
\* results of that partition only: whatever stands in the shards' accounts from
\* before, none of it is taken for an answer, and the program refuses none of
\* the results the run has waited for.
RepinnedRunIsSafe ==
  repin /\ pc = "collect" => \A k \in PlanShards : usable(k)

THEOREM RepinTrustsNoOldResult == DriverSpec => []RepinnedRunIsSafe
<1>1. DriverInit => RepinInv
  BY DEF DriverInit, RepinInv
<1>2. RepinInv => RepinnedRunIsSafe
  BY DEF RepinInv, RepinnedRunIsSafe
<1>. QED BY <1>1, <1>2, DriverAlways, RepinStep, PTL DEF DriverSpec
=============================================================================
