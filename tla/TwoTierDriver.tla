--------------------------- MODULE TwoTierDriver ---------------------------
(***************************************************************************)
(* The daily job's reveal of a round too large for one tier                *)
(* (scripts/auto-cycle.ts, runBracketReveal with runTwoTier and runTier)   *)
(* driving module TwoTier: replace a Tier1State that has another partition *)
(* unless it is promoted, reveal and collect its shards, promote, reveal   *)
(* and collect the semifinals, final, apply.  As in BracketDriver a run    *)
(* may be cut off anywhere and the next one starts over from the chain.    *)
(*                                                                         *)
(* Before the job's first run another operator works on the round by hand  *)
(* and leaves it wherever it is, with nothing in flight.                   *)
(***************************************************************************)
EXTENDS TwoTier, BracketPlan

CONSTANT MaxMishaps  \* bound: crashes of the job and computations lost

ASSUME TwoTierDriverAssumption ==
  /\ MaxMishaps \in Nat /\ Len(planShardSizes) <= MAX_TIER1_SHARDS
  /\ MaxGenerations > 0

VARIABLES
  pc,        \* where the run stands; "idle" between runs, "hand" before the first
  tier,      \* the tier runTier is at: "one" or "semi"
  repin,     \* this run replaces the partition (forceRequeue)
  needQueue, \* shards this run has still to queue
  awaited,   \* shards this run waits for
  mishaps,   \* history: crashes and lost computations so far
  replaced   \* history: some run has set out to replace the partition

progress == <<pc, tier, repin, needQueue, awaited>>
drvars == <<progress, mishaps, replaced>>
drivervars == <<allvars, drvars>>

DriverInit ==
  /\ TierInit
  /\ pc = "hand" /\ tier = "one" /\ repin = FALSE /\ needQueue = {} /\ awaited = {}
  /\ mishaps = 0 /\ replaced = FALSE

-----------------------------------------------------------------------------
(***************************************************************************)
(* By hand.  The other operator supplies the first entries of each shard's *)
(* interval, goes from shard to shard, and is one TierSpec allows: a       *)
(* second partition is pinned when nothing of the first is in flight, and  *)
(* winners are promoted when no answer their bracket could take is.        *)
(***************************************************************************)
HandRun(k) ==
  {e \in Tier1Interval(k) : Slot(Tier1Interval(k), e) <= tier1.shard_sizes[k]}

HandTier1 ==
  LET unqueued == {k \in Tier1Shards : result[k].generation # tier1.generation}
      uncollectedByHand == Tier1Shards \ tier1.shard_done IN
  \/ /\ pins < Len(Tier1Layouts) /\ computations = {}
     /\ \E l \in Tier1Layouts[pins + 1] : init_tier1_bracket(l[1], l[2])
  \/ close_tier1_bracket
  \/ unqueued # {} /\ queue_tier1_shard_reveal(Least(unqueued), HandRun(Least(unqueued)))
  \/ /\ uncollectedByHand # {}
     /\ collect_tier1_winners(Least(uncollectedByHand), HandRun(Least(uncollectedByHand)))
  \/ /\ bracket.generation + 1 < MaxGenerations /\ \A c \in computations : c.index < SEMI
     /\ promote_tier1

HandSemifinals ==
  LET unqueued == {k \in Shards : result[SEMI + k].generation # bracket.generation}
      uncollectedByHand == Shards \ bracket.shards_collected IN
  \/ unqueued # {} /\ queue_semifinal_reveal(Least(unqueued))
  \/ uncollectedByHand # {} /\ collect_semifinal_winners(Least(uncollectedByHand))
  \/ /\ ~bracket.final_queued /\ queue_final(Range(bracket.finalists))
     /\ UNCHANGED <<tier1, pins>>
  \/ apply_bracket_result(FinalIndex) /\ UNCHANGED <<tier1, pins>>

ByHand ==
  /\ pc = "hand"
  /\ HandTier1 \/ HandSemifinals
  /\ UNCHANGED drvars

HandOver ==
  /\ pc = "hand" /\ computations = {}
  /\ pc' = "idle"
  /\ UNCHANGED <<allvars, tier, repin, needQueue, awaited, mishaps, replaced>>

-----------------------------------------------------------------------------
(***************************************************************************)
(* The job.                                                                *)
(***************************************************************************)
\* A promoted tier 1 is never disturbed.
must_replace == tier1.exists /\ ~tier1.promoted /\ ~partitionMatches(tier1)

StartRun ==
  /\ pc = "idle" /\ ~scoring_revealed
  /\ pc' = IF must_replace THEN "close" ELSE IF ~tier1.exists THEN "pin" ELSE "survey"
  /\ tier' = IF tier1.promoted THEN "semi" ELSE "one"
  /\ repin' = must_replace
  /\ replaced' = (replaced \/ must_replace)
  /\ needQueue' = {} /\ awaited' = {}
  /\ UNCHANGED <<allvars, mishaps>>

\* What the job's own steps do not touch: a step that sends nothing, and one
\* whose transaction is part of it.
Aside == UNCHANGED <<allvars, tier, repin, mishaps, replaced>>
Sending == UNCHANGED <<tier, repin, awaited, mishaps, replaced>>

Close ==
  /\ pc = "close" /\ close_tier1_bracket
  /\ pc' = "pin"
  /\ Sending /\ UNCHANGED needQueue

Pin ==
  /\ pc = "pin" /\ init_tier1_bracket(Plan.sizes, Plan.bounds)
  /\ pc' = "survey"
  /\ Sending /\ UNCHANGED needQueue

\* What runTier is told of the tier it is at.
count == IF tier = "one" THEN PlanShards ELSE Shards
resultAt(k) == IF tier = "one" THEN k ELSE SEMI + k
done == IF tier = "one" THEN tier1.shard_done ELSE bracket.shards_collected
queueOne(k) ==
  IF tier = "one" THEN queue_tier1_shard_reveal(k, Chunk[k]) ELSE queue_semifinal_reveal(k)
collectOne(k) ==
  IF tier = "one" THEN collect_tier1_winners(k, Chunk[k]) ELSE collect_semifinal_winners(k)

\* mutant: results of the replaced partition are trusted.
must_queue_unforced(k) == ~resultReady(resultAt(k))

must_queue(k) == repin \/ ~resultReady(resultAt(k))

Survey ==
  LET need == {k \in count : must_queue(k)}
      inFlight == {k \in need : result[resultAt(k)].generation > 0} IN
  /\ pc = "survey"
  /\ IF ~repin /\ inFlight # {}
     THEN pc' = "grace" /\ needQueue' = {} /\ awaited' = inFlight
     ELSE pc' = "queue" /\ needQueue' = need /\ awaited' = need
  /\ Aside

\* RESUME_GRACE_MS are over, or every result has come in before that.
GraceOver ==
  LET missing == {k \in count : ~resultReady(resultAt(k))} IN
  /\ pc = "grace"
  /\ pc' = "queue" /\ needQueue' = missing /\ awaited' = missing
  /\ Aside

QueueShard ==
  /\ pc = "queue" /\ needQueue # {}
  /\ queueOne(Least(needQueue))
  /\ needQueue' = needQueue \ {Least(needQueue)}
  /\ Sending /\ UNCHANGED pc

QueuedAll ==
  /\ pc = "queue" /\ needQueue = {}
  /\ pc' = "await"
  /\ Aside /\ UNCHANGED <<needQueue, awaited>>

Landed ==
  /\ pc = "await" /\ \A k \in awaited : resultReady(resultAt(k))
  /\ pc' = "collect"
  /\ Aside /\ UNCHANGED <<needQueue, awaited>>

CollectShard ==
  /\ pc = "collect" /\ count \ done # {}
  /\ collectOne(Least(count \ done))
  /\ UNCHANGED drvars

CollectedAll ==
  /\ pc = "collect" /\ count \ done = {}
  /\ pc' = IF tier = "one" THEN "promote"
           ELSE IF shard_count = 1 THEN "apply"
           ELSE IF bracket.final_queued THEN "awaitFinal" ELSE "queueFinal"
  /\ Aside /\ UNCHANGED <<needQueue, awaited>>

\* The semifinals are run without forceRequeue.
Promote ==
  /\ pc = "promote" /\ promote_tier1
  /\ pc' = "survey" /\ tier' = "semi" /\ repin' = FALSE
  /\ UNCHANGED <<needQueue, awaited, mishaps, replaced>>

QueueFinal ==
  /\ pc = "queueFinal"
  /\ queue_final(Range(bracket.finalists)) /\ UNCHANGED <<tier1, pins>>
  /\ pc' = "awaitFinal"
  /\ Sending /\ UNCHANGED needQueue

FinalLanded ==
  /\ pc = "awaitFinal" /\ resultReady(FINAL_SHARD_INDEX)
  /\ pc' = "apply"
  /\ Aside /\ UNCHANGED <<needQueue, awaited>>

Apply ==
  /\ pc = "apply"
  /\ apply_bracket_result(FinalIndex) /\ UNCHANGED <<tier1, pins>>
  /\ pc' = "idle"
  /\ Sending /\ UNCHANGED needQueue

TimedOut ==
  \/ pc = "await" /\ \E k \in awaited : ~resultReady(resultAt(k))
  \/ pc = "awaitFinal" /\ ~resultReady(FINAL_SHARD_INDEX)

Rejected ==
  \/ pc = "close" /\ ~ENABLED close_tier1_bracket
  \/ pc = "pin" /\ ~ENABLED init_tier1_bracket(Plan.sizes, Plan.bounds)
  \/ pc = "queue" /\ needQueue # {} /\ ~ENABLED queueOne(Least(needQueue))
  \/ pc = "collect" /\ count \ done # {} /\ ~ENABLED collectOne(Least(count \ done))
  \/ pc = "promote" /\ ~ENABLED promote_tier1
  \/ pc = "queueFinal" /\ ~ENABLED queue_final(Range(bracket.finalists))
  \/ pc = "apply" /\ ~ENABLED apply_bracket_result(FinalIndex)

\* The run throws: a wait timed out with a result missing, or a transaction
\* was rejected.
Throw ==
  /\ TimedOut \/ Rejected
  /\ pc' = "idle"
  /\ Aside /\ UNCHANGED <<needQueue, awaited>>

JobStep ==
  \/ StartRun \/ Close \/ Pin \/ Survey \/ GraceOver \/ QueueShard \/ QueuedAll \/ Landed
  \/ CollectShard \/ CollectedAll \/ Promote \/ QueueFinal \/ FinalLanded \/ Apply \/ Throw

-----------------------------------------------------------------------------
Crash ==
  /\ pc \notin {"idle", "hand"} /\ mishaps < MaxMishaps
  /\ pc' = "idle" /\ mishaps' = mishaps + 1
  /\ UNCHANGED <<allvars, tier, repin, needQueue, awaited, replaced>>

Answer ==
  /\ \E c \in computations : reveal_top3_v5_callback(c)
  /\ UNCHANGED <<tier1, pins, drvars>>

Lose ==
  /\ mishaps < MaxMishaps
  /\ \E c \in computations : Abort(c)
  /\ mishaps' = mishaps + 1
  /\ UNCHANGED <<tier1, pins, progress, replaced>>

DriverNext == ByHand \/ HandOver \/ JobStep \/ Crash \/ Answer \/ Lose

(***************************************************************************)
(* The other operator stops at last, the scheduler starts the job again    *)
(* and again and the job runs; while somebody waits again and again, some  *)
(* answer comes in at last (one landing between the look at the results    *)
(* and the queue that follows it is reset by that queue).                  *)
(***************************************************************************)
AnswerInTime == pc \in {"hand", "grace", "await", "awaitFinal"} /\ Answer

DriverSpec ==
  /\ DriverInit /\ [][DriverNext]_drivervars
  /\ WF_drivervars(HandOver \/ JobStep)
  /\ SF_drivervars(AnswerInTime)

-----------------------------------------------------------------------------
\* A shard of the tier the next run will be at has a result of another
\* generation: the job takes it for an answer, the program refuses it.
HasOldResult(shards, offset, generation) ==
  \E k \in shards : resultReady(offset + k) /\ result[offset + k].generation # generation

\* The partition was pinned afresh by somebody who did not replace another, or
\* by a run that was cut off before it had queued every shard again.
WedgedInTier1 ==
  /\ tier1.exists /\ ~tier1.promoted /\ partitionMatches(tier1)
  /\ HasOldResult(PlanShards \ tier1.shard_done, 0, tier1.generation)
  /\ mishaps > 0 \/ ~replaced

\* Winners had been promoted and revealed before, from another Tier1State.
WedgedInSemifinals ==
  /\ tier1.promoted /\ bracket.generation > 1
  /\ HasOldResult(Shards \ bracket.shards_collected, SEMI, bracket.generation)

\* The other operator's partition has its winners in one semifinal, and the
\* result that would end the round is not where the program looks for it.
OneSemifinal == tier1.promoted /\ ~needs_final_reveal /\ all_shards_collected

\* The final was queued and its computation is gone without an answer.
FinalLost ==
  /\ tier1.promoted /\ bracket.final_queued
  /\ ~result[FINAL_SHARD_INDEX].ready
  /\ mishaps > 0 /\ \A c \in computations : c.index # FINAL_SHARD_INDEX

Revealed == scoring_revealed /\ top = Podium(key)

\* The job's comment claims to take a round from wherever it stands to
\* scoring_revealed.  What it does: the podium of a two-tier round is revealed
\* in the end, wherever another operator left it and through crashes, timeouts
\* and lost computations, unless the round stands in one of four named places
\* no run gets away from.
TwoTierRevealsUnlessWedged ==
  <>(\/ Revealed
     \/ pc = "idle" /\ (WedgedInTier1 \/ WedgedInSemifinals \/ OneSemifinal \/ FinalLost))
=============================================================================
