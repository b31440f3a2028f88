--------------------------- MODULE BracketDriver ---------------------------
(***************************************************************************)
(* The daily job's reveal of one round (scripts/auto-cycle.ts,             *)
(* runBracketReveal with runSingleTier and runTier) driving module         *)
(* Bracket.  The job plans the partition, pins it unless it finds it       *)
(* pinned, queues every shard that has no result, waits, collects, and     *)
(* runs the endgame.  It holds nothing across runs but what is on chain:   *)
(* Crash models a killed process, a transaction that never confirmed and   *)
(* an RPC failure alike, and the next run starts over.                     *)
(*                                                                         *)
(* Another operator (a manual run, an earlier release) may have pinned     *)
(* some partition before, and have the answers of some of its shards.      *)
(***************************************************************************)
EXTENDS BracketPlan

CONSTANTS
  MaxMishaps,      \* bound: crashes of the job and computations lost
  OtherOperator    \* whether another operator may have pinned before

ASSUME DriverAssumption ==
  /\ MaxMishaps \in Nat /\ OtherOperator \in BOOLEAN
  /\ N <= MAX_SHARDS * MAX_SHARD_SIZE

VARIABLES
  pc,        \* where the run stands; "idle" between runs
  repin,     \* the partition was re-pinned by this run (forceRequeue)
  needQueue, \* shards this run has still to queue
  awaited,   \* shards this run waits for
  mishaps    \* history: crashes and lost computations so far

drvars == <<pc, repin, needQueue, awaited, mishaps>>
allvars == <<vars, drvars>>

\* Whatever the job's transactions do not touch.
ChainUnchanged == UNCHANGED vars

\* The entries another operator would have supplied for shard k.
OtherRun(k) ==
  {e \in Interval(k) : Slot(Interval(k), e) <= bracket.shard_sizes[k]}

OtherPinned ==
  /\ paused = FALSE /\ scoring_revealed = FALSE /\ top = <<>>
  /\ key \in [Entries -> Keys]
  /\ \E l \in Layouts :
       bracket = [NoBracket EXCEPT !.shard_sizes = l[1], !.shard_bounds = l[2], !.generation = 1]
  /\ \E answered \in SUBSET {k \in Shards : in_shard(OtherRun(k), k)} :
       result = [i \in Indices |->
         IF i \in answered
         THEN [ready |-> TRUE, generation |-> 1, slots |-> reveal_top3(OtherRun(i))]
         ELSE NoResult]
  /\ computations = {}

DriverInit ==
  /\ Init \/ (OtherOperator /\ OtherPinned)
  /\ pc = "idle" /\ repin = FALSE /\ needQueue = {} /\ awaited = {} /\ mishaps = 0

-----------------------------------------------------------------------------
pinned == bracket.generation > 0

must_pin == ~partitionMatches(bracket)

StartRun ==
  /\ pc = "idle" /\ ~scoring_revealed
  /\ pc' = IF must_pin THEN "pin" ELSE "survey"
  /\ repin' = (pinned /\ must_pin)
  /\ needQueue' = {} /\ awaited' = {}
  /\ ChainUnchanged /\ UNCHANGED mishaps

Pin ==
  /\ pc = "pin"
  /\ init_bracket(Plan.sizes, Plan.bounds)
  /\ pc' = "survey"
  /\ UNCHANGED <<repin, needQueue, awaited, mishaps>>

missing == {k \in PlanShards : ~resultReady(k)}

\* mutant: results of the replaced partition are trusted.
must_queue_unforced(k) == ~resultReady(k)

must_queue(k) == repin \/ ~resultReady(k)

\* runTier: what has to be queued, unless some of it may still be in flight.
Survey ==
  LET need == {k \in PlanShards : must_queue(k)}
      inFlight == {k \in need : result[k].generation > 0} IN
  /\ pc = "survey"
  /\ IF ~repin /\ inFlight # {}
     THEN pc' = "grace" /\ needQueue' = {} /\ awaited' = inFlight
     ELSE pc' = "queue" /\ needQueue' = need /\ awaited' = need
  /\ ChainUnchanged /\ UNCHANGED <<repin, mishaps>>

\* RESUME_GRACE_MS are over, or every result has come in before that.
GraceOver ==
  /\ pc = "grace"
  /\ pc' = "queue" /\ needQueue' = missing /\ awaited' = missing
  /\ ChainUnchanged /\ UNCHANGED <<repin, mishaps>>

QueueShard ==
  /\ pc = "queue" /\ needQueue # {}
  /\ LET k == Least(needQueue) IN queue_shard(k, Chunk[k]) /\ needQueue' = needQueue \ {k}
  /\ UNCHANGED <<pc, repin, awaited, mishaps>>

QueuedAll ==
  /\ pc = "queue" /\ needQueue = {}
  /\ pc' = "await"
  /\ ChainUnchanged /\ UNCHANGED <<repin, needQueue, awaited, mishaps>>

Landed ==
  /\ pc = "await"
  /\ \A k \in awaited : resultReady(k)
  /\ pc' = "collect"
  /\ ChainUnchanged /\ UNCHANGED <<repin, needQueue, awaited, mishaps>>

uncollectedShards == PlanShards \ bracket.shards_collected

CollectNext ==
  LET k == Least(uncollectedShards) IN collect_shard_winners(k, Chunk[k])

CollectShard ==
  /\ pc = "collect" /\ uncollectedShards # {}
  /\ CollectNext
  /\ UNCHANGED drvars

CollectedAll ==
  /\ pc = "collect" /\ uncollectedShards = {}
  /\ pc' = IF shard_count = 1 THEN "apply"
           ELSE IF bracket.final_queued THEN "awaitFinal" ELSE "queueFinal"
  /\ ChainUnchanged /\ UNCHANGED <<repin, needQueue, awaited, mishaps>>

QueueFinal ==
  /\ pc = "queueFinal"
  /\ queue_final(Range(bracket.finalists))
  /\ pc' = "awaitFinal"
  /\ UNCHANGED <<repin, needQueue, awaited, mishaps>>

FinalLanded ==
  /\ pc = "awaitFinal" /\ resultReady(FINAL_SHARD_INDEX)
  /\ pc' = "apply"
  /\ ChainUnchanged /\ UNCHANGED <<repin, needQueue, awaited, mishaps>>

Apply ==
  /\ pc = "apply"
  /\ apply_bracket_result(FinalIndex)
  /\ pc' = "idle"
  /\ UNCHANGED <<repin, needQueue, awaited, mishaps>>

-----------------------------------------------------------------------------
\* The run throws: a wait timed out with a result missing, or a transaction
\* was rejected.
TimedOut ==
  \/ pc = "await" /\ \E k \in awaited : ~resultReady(k)
  \/ pc = "awaitFinal" /\ ~resultReady(FINAL_SHARD_INDEX)

Rejected ==
  \/ pc = "pin" /\ ~ENABLED init_bracket(Plan.sizes, Plan.bounds)
  \/ pc = "queue" /\ needQueue # {} /\ ~ENABLED queue_shard(Least(needQueue), Chunk[Least(needQueue)])
  \/ pc = "collect" /\ uncollectedShards # {} /\ ~ENABLED CollectNext
  \/ pc = "queueFinal" /\ ~ENABLED queue_final(Range(bracket.finalists))
  \/ pc = "apply" /\ ~ENABLED apply_bracket_result(FinalIndex)

Throw ==
  /\ TimedOut \/ Rejected
  /\ pc' = "idle"
  /\ ChainUnchanged /\ UNCHANGED <<repin, needQueue, awaited, mishaps>>

Crash ==
  /\ pc # "idle" /\ mishaps < MaxMishaps
  /\ pc' = "idle"
  /\ mishaps' = mishaps + 1
  /\ ChainUnchanged /\ UNCHANGED <<repin, needQueue, awaited>>

-----------------------------------------------------------------------------
Answer(i) ==
  /\ \E c \in computations : c.index = i /\ reveal_top3_v5_callback(c)
  /\ UNCHANGED drvars

Lose ==
  /\ mishaps < MaxMishaps
  /\ \E c \in computations : Abort(c)
  /\ mishaps' = mishaps + 1
  /\ UNCHANGED <<pc, repin, needQueue, awaited>>

DriverStep ==
  \/ StartRun \/ Pin \/ Survey \/ GraceOver \/ QueueShard \/ QueuedAll \/ Landed
  \/ CollectShard \/ CollectedAll \/ QueueFinal \/ FinalLanded \/ Apply \/ Throw

DriverNext ==
  \/ DriverStep
  \/ Crash
  \/ \E i \in Indices : Answer(i)
  \/ Lose

(***************************************************************************)
(* The scheduler starts the job again and again and the job runs; a        *)
(* computation queued again and again is at last answered while a run      *)
(* waits for it (an answer landing between the look at the results and the *)
(* queue that follows it is reset by that queue).                          *)
(***************************************************************************)
AnswerInTime(i) == pc \in {"grace", "await", "awaitFinal"} /\ Answer(i)

DriverSpec ==
  /\ DriverInit /\ [][DriverNext]_allvars
  /\ WF_allvars(DriverStep)
  /\ \A i \in Indices : SF_allvars(AnswerInTime(i))

-----------------------------------------------------------------------------
\* The final reveal was queued and its computation is gone without an answer:
\* the case the job's comment declares not to heal.
FinalLost ==
  /\ bracket.final_queued
  /\ ~result[FINAL_SHARD_INDEX].ready
  /\ \A c \in computations : c.index # FINAL_SHARD_INDEX

\* The planned partition is pinned, a result of an earlier one still stands
\* where an uncollected shard's should, and no run is on its way to replace it.
WedgedOnOldResult ==
  /\ pc = "idle" /\ pinned /\ partitionMatches(bracket)
  /\ \E k \in uncollectedShards : resultReady(k) /\ result[k].generation # bracket.generation

Revealed == scoring_revealed /\ top = Podium(key)

\* The job's comment claims to take a round from wherever it stands to
\* scoring_revealed.  What it does: the round's podium is revealed in the end,
\* from any partition and results another operator left, through crashes,
\* timeouts and lost computations, unless a mishap took the final reveal's
\* computation or cut the run off between re-pinning and re-queueing.
RevealsUnlessWedged ==
  <>(Revealed \/ (mishaps > 0 /\ (FinalLost \/ WedgedOnOldResult)))
=============================================================================
