----------------------------- MODULE AutoCycle -----------------------------
(***************************************************************************)
(* The daily job (scripts/auto-cycle.ts): settle older rounds, close the   *)
(* round that is over, score it, reveal it, finalize it, pay its pot, open *)
(* the next.  It is started by a schedule and by every deploy, may be      *)
(* killed anywhere, and keeps nothing between runs: each run finds out     *)
(* from the chain how far the last one got.  Runs overlap here as if there *)
(* were no lock file (which does not always keep a second run away, see    *)
(* the README), and people act on the rounds besides.                      *)
(*                                                                         *)
(* A round's scoring is a count, its bracket and its pot one step each     *)
(* (modules Scoring, BracketDriver and SgdPot have the rest).  A read of   *)
(* the chain and the transaction sent on it are one step where the program *)
(* checks the condition again: losing that race is a transaction refused,  *)
(* which ends a run as being killed does.  Vault rent is left out.  The    *)
(* job's clock is the chain's.  The pinned mint does not move, so that the *)
(* pot of a round with entries is not empty (the job leaves an empty one   *)
(* unsettled), and POT_LEDGER_FIRST_ROUND is 1.                            *)
(***************************************************************************)
EXTENDS Admin, RoundSchedule

CONSTANTS
  Runs,                \* runs that can be under way at once
  JobKey,              \* the key the job signs with
  MaxRounds,           \* bound: rounds opened
  MaxEntries,          \* bound: entries of a round
  MaxTime,             \* bound: the clock
  MaxByHand            \* bound: instructions sent by hand

ASSUME JobAssumption ==
  /\ JobKey \in Controlled
  /\ {MaxRounds, MaxEntries, MaxTime, MaxByHand} \subseteq Nat

VARIABLES
  now,           \* unix time, the chain's and the job's
  current_round, \* config.current_round
  round,         \* the CompetitionRound accounts
  settlement,    \* the state of each RoundSettlement
  job,           \* the runs
  by_hand        \* instructions sent by hand so far

chainVars == <<now, current_round, round, settlement>>
vars == <<adminVars, chainVars, job, by_hand>>

Rounds == 1..MaxRounds

NoRound == [status |-> "NONE", start_time |-> 0, end_time |-> 0,
            participant_count |-> 0, scored_count |-> 0, scoring_revealed |-> FALSE]

\* current, owing: rounds read at the start; entries: participant_count as
\* the run last read it; finalized: status = FINALIZED at that time.
Idle == [pc |-> "idle", current |-> 0, owing |-> {}, entries |-> 0, finalized |-> FALSE]

Init ==
  /\ AdminInit
  /\ now = 0
  /\ current_round = 0
  /\ round = [k \in Rounds |-> NoRound]
  /\ settlement = [k \in Rounds |-> "NONE"]
  /\ job = [j \in Runs |-> Idle]
  /\ by_hand = 0

Goto(j, pc) == job' = [job EXCEPT ![j].pc = pc]
End(j) == job' = [job EXCEPT ![j] = Idle]

-----------------------------------------------------------------------------
(***************************************************************************)
(* The program's instructions, as far as the job tells their effects       *)
(* apart.                                                                  *)
(***************************************************************************)
open_round(signer) ==
  LET k == current_round + 1 IN
  /\ k \in Rounds
  /\ ~paused
  /\ is_operator_or_authority(signer)
  /\ current_round > 0 => round[current_round].status = "FINALIZED"
  /\ round' = [round EXCEPT ![k] =
       [NoRound EXCEPT !.status = "OPEN", !.start_time = now,
                       !.end_time = round_end_time(now)]]
  /\ current_round' = k
  /\ UNCHANGED <<now, settlement>>

submit_entry(k) ==
  /\ ~paused
  /\ round[k].status = "OPEN" /\ now < round[k].end_time
  /\ round[k].participant_count < MaxEntries
  /\ round' = [round EXCEPT ![k].participant_count = @ + 1]
  /\ UNCHANGED <<now, current_round, settlement>>

close_round(k, signer) ==
  /\ is_operator_or_authority(signer)
  /\ round[k].status = "OPEN"
  /\ \/ signer = authority
     \/ now - round[k].start_time >= MIN_OPERATOR_CLOSE_DELAY_SECONDS
  /\ round' = [round EXCEPT ![k].status = "CLOSED"]
  /\ UNCHANGED <<now, current_round, settlement>>

\* Scores until n entries of the round are scored.
score_entries(k, n) ==
  /\ n > round[k].scored_count => ~paused /\ round[k].status = "CLOSED"
  /\ round' = [round EXCEPT ![k].scored_count = n]
  /\ UNCHANGED <<now, current_round, settlement>>

reveal(k, signer) ==
  /\ ~paused
  /\ is_operator_or_authority(signer)
  /\ round[k].status \in {"CLOSED", "FINALIZED"}
  /\ round[k].participant_count > 0
  /\ round[k].scored_count = round[k].participant_count
  /\ ~round[k].scoring_revealed
  /\ round' = [round EXCEPT ![k].scoring_revealed = TRUE]
  /\ UNCHANGED <<now, current_round, settlement>>

finalize_round(k, signer) ==
  /\ is_operator_or_authority(signer)
  /\ round[k].status = "CLOSED"
  /\ round' = [round EXCEPT ![k].status = "FINALIZED"]
  /\ UNCHANGED <<now, current_round, settlement>>

distributable(k, signer) ==
  /\ is_operator_or_authority(signer)
  /\ settlement[k] = "NONE"
  /\ round[k].status = "FINALIZED" /\ round[k].scoring_revealed

distribute_pot(k, signer) ==
  /\ distributable(k, signer)
  /\ settlement' = [settlement EXCEPT ![k] = "PAID"]
  /\ UNCHANGED <<now, current_round, round>>

\* The first batch of a refund: nobody distributes after it.
refund_unrevealed_pot(k, signer) ==
  /\ signer = authority
  /\ settlement[k] = "NONE"
  /\ round[k].status = "FINALIZED" /\ ~round[k].scoring_revealed
  /\ round[k].participant_count > 0
  /\ settlement' = [settlement EXCEPT ![k] = "REFUNDING"]
  /\ UNCHANGED <<now, current_round, round>>

-----------------------------------------------------------------------------
(***************************************************************************)
(* main, once it has the lock.                                             *)
(***************************************************************************)
by_job == UNCHANGED <<adminVars, by_hand>>
nothing_sent == by_job /\ UNCHANGED chainVars

\* The RPC node and the MPC cluster may fail until the clock stops.
failing == now < MaxTime

\* mutant: a payout is tried again only in the run that finalizes the round.
owing_none == {}

\* Rounds with no settlement account (owingRounds).
owing == {k \in 1..current_round : settlement[k] = "NONE"}

\* A key without powers ends the run at once.
Start(j) ==
  /\ job[j].pc = "idle"
  /\ is_operator_or_authority(JobKey)
  /\ job' = [job EXCEPT ![j] =
       IF current_round = 0 THEN [@ EXCEPT !.pc = "open"]
       ELSE [@ EXCEPT !.pc = "backlog", !.current = current_round, !.owing = owing]]
  /\ nothing_sent

\* settleBacklog, one owing round after the other, whatever becomes of each.
SettleBacklog(j) ==
  /\ job[j].pc = "backlog"
  /\ \/ /\ job[j].owing = {}
        /\ Goto(j, "look")
        /\ nothing_sent
     \/ \E k \in job[j].owing :
          /\ \A i \in job[j].owing : k <= i
          /\ job' = [job EXCEPT ![j].owing = @ \ {k}]
          /\ \/ distribute_pot(k, JobKey) /\ by_job
             \/ (failing \/ ~distributable(k, JobKey)) /\ nothing_sent

\* mutant: a run goes on only with a round it closes itself.
closeRoundAction_own_round(k) ==
  IF round[k].status = "OPEN" /\ now >= round[k].end_time THEN "close" ELSE "too-early"

\* mutant: an OPEN round is closed, whatever the time.
closeRoundAction_by_status(k) == IF round[k].status # "OPEN" THEN "not-open" ELSE "close"

closeRoundAction(k) ==
  IF round[k].status # "OPEN" THEN "not-open"
  ELSE IF now < round[k].end_time THEN "too-early" ELSE "close"

Look(j) ==
  LET k == job[j].current
      action == closeRoundAction(k) IN
  /\ job[j].pc = "look"
  /\ job' = [job EXCEPT ![j] =
       CASE action = "too-early" -> Idle
         [] action = "close" -> [@ EXCEPT !.pc = "close"]
         [] action = "not-open" -> [@ EXCEPT !.pc = "score",
              !.entries = round[k].participant_count,
              !.finalized = round[k].status = "FINALIZED"]]
  /\ nothing_sent

Close(j) ==
  LET k == job[j].current IN
  /\ job[j].pc = "close"
  /\ close_round(k, JobKey)
  /\ job' = [job EXCEPT ![j].pc = "score", ![j].entries = round[k].participant_count]
  /\ by_job

\* Steps 2 and 2b: entries are scored as far as the cluster goes; if some are
\* left the run ends here, the rest being deferred to a later one.
Score(j) ==
  LET k == job[j].current IN
  /\ job[j].pc = "score"
  /\ \/ /\ job[j].finalized \/ job[j].entries = 0
        /\ Goto(j, "reveal")
        /\ nothing_sent
     \/ /\ ~job[j].finalized
        /\ \E n \in round[k].scored_count..job[j].entries :
             /\ n = job[j].entries \/ failing
             /\ score_entries(k, n)
             /\ IF n = job[j].entries THEN Goto(j, "reveal") ELSE End(j)
        /\ by_job

\* mutant: a reveal that fails does not stop the run.
failed_reveal_ignored(j) == Goto(j, "finalize")

failed_reveal(j) == End(j)

\* Step 3; runBracketReveal throws when it does not get there.
RevealRound(j) ==
  LET k == job[j].current
      skipped == \/ round[k].status = "FINALIZED"
                 \/ round[k].scoring_revealed
                 \/ job[j].entries = 0 IN
  /\ job[j].pc = "reveal"
  /\ \/ skipped /\ Goto(j, "finalize") /\ nothing_sent
     \/ ~skipped /\ reveal(k, JobKey) /\ Goto(j, "finalize") /\ by_job
     \/ ~skipped /\ failing /\ failed_reveal(j) /\ nothing_sent

Finalize(j) ==
  LET k == job[j].current IN
  /\ job[j].pc = "finalize"
  /\ \/ round[k].status = "FINALIZED" /\ Goto(j, "payout") /\ nothing_sent
     \/ finalize_round(k, JobKey) /\ Goto(j, "payout") /\ by_job

\* Step 4b; a payout that fails does not stop the run.
Payout(j) ==
  /\ job[j].pc = "payout"
  /\ Goto(j, "open")
  /\ \/ distribute_pot(job[j].current, JobKey) /\ by_job
     \/ /\ failing \/ ~distributable(job[j].current, JobKey)
        /\ nothing_sent

\* Step 5.
OpenNext(j) ==
  /\ job[j].pc = "open"
  /\ current_round = job[j].current
  /\ open_round(JobKey)
  /\ End(j)
  /\ by_job

JobStep(j) ==
  \/ SettleBacklog(j) \/ Look(j) \/ Close(j) \/ Score(j) \/ RevealRound(j)
  \/ Finalize(j) \/ Payout(j) \/ OpenNext(j)

\* There is no way on: the transaction is refused.
refused(j) == ~ENABLED JobStep(j)

\* The run is killed, or dies of an error: a read that fails, a refusal.
Die(j) ==
  /\ job[j].pc # "idle"
  /\ failing \/ refused(j)
  /\ End(j)
  /\ nothing_sent

-----------------------------------------------------------------------------
(***************************************************************************)
(* Everybody else.                                                         *)
(***************************************************************************)
Tick ==
  /\ now < MaxTime
  /\ now' = now + 1
  /\ UNCHANGED <<adminVars, current_round, round, settlement, job, by_hand>>

Enter ==
  /\ \E k \in 1..current_round : submit_entry(k)
  /\ UNCHANGED <<adminVars, job, by_hand>>

\* Operators and the authority act on rounds by hand (scripts/operator.ts):
\* they may close early, score, reveal late, finalize a round that is not
\* revealed, settle it and open the next.
OperateByHand(signer) ==
  \E k \in 1..current_round :
       \/ \E n \in round[k].scored_count..round[k].participant_count :
            score_entries(k, n)
       \/ close_round(k, signer)
       \/ reveal(k, signer)
       \/ finalize_round(k, signer)
       \/ distribute_pot(k, signer)
       \/ refund_unrevealed_pot(k, signer)

ByHand ==
  /\ by_hand < MaxByHand
  /\ by_hand' = by_hand + 1
  /\ \/ \E signer \in Controlled :
          (OperateByHand(signer) \/ open_round(signer)) /\ UNCHANGED adminVars
     \/ AdminNext /\ UNCHANGED chainVars
  /\ UNCHANGED job

Next ==
  \/ \E j \in Runs : Start(j) \/ JobStep(j) \/ Die(j)
  \/ Tick
  \/ Enter
  \/ ByHand

Spec == Init /\ [][Next]_vars

\* The schedule starts the job again and again, what has been started goes on,
\* and time passes.
Fairness ==
  /\ WF_vars(Tick)
  /\ \A j \in Runs : WF_vars(Start(j)) /\ WF_vars(JobStep(j) \/ Die(j))

FairSpec == Spec /\ Fairness

-----------------------------------------------------------------------------
(***************************************************************************)
(* Properties.                                                             *)
(***************************************************************************)
Pcs == {"idle", "backlog", "look", "close", "score", "reveal", "finalize", "payout", "open"}

RoundType ==
  [status : {"NONE", "OPEN", "CLOSED", "FINALIZED"}, start_time : Nat, end_time : Int,
   participant_count : Nat, scored_count : Nat, scoring_revealed : BOOLEAN]

JobType == [pc : Pcs, current : Nat, owing : SUBSET Rounds, entries : Nat,
            finalized : BOOLEAN]

TypeOK ==
  /\ now \in Nat /\ by_hand \in Nat
  /\ current_round \in 0..MaxRounds
  /\ round \in [Rounds -> RoundType]
  /\ \A k \in Rounds : round[k].status = "NONE" <=> k > current_round
  /\ settlement \in [Rounds -> {"NONE", "PAID", "REFUNDING"}]
  /\ job \in [Runs -> JobType]

\* What a run goes on to do still fits the round, whatever other runs and
\* people have done since it read the chain: a round about to be closed is
\* over; one past that stage takes no more entries and has as many as the run
\* believes; one about to be finalized is revealed, or never will be, or has
\* been finalized by somebody else.
up_to_date(j) ==
  LET r == job[j]
      k == r.current IN
  /\ r.pc \notin {"idle", "open"} => k \in 1..current_round
  /\ r.pc = "close" => now >= round[k].end_time
  /\ r.pc \in {"score", "reveal", "finalize"} =>
       round[k].status # "OPEN" /\ r.entries = round[k].participant_count
  /\ r.pc = "finalize" =>
       r.entries = 0 \/ round[k].scoring_revealed \/ round[k].status = "FINALIZED"

JobsUpToDate == \A j \in Runs : up_to_date(j)

ByJob == \E j \in Runs : job'[j] # job[j]

\* The job never ends a day early: no run, however often deploys start one and
\* whatever key it signs with, closes a round before its end_time.
LiveRoundsLeftOpen ==
  [][\A k \in Rounds :
       ByJob /\ round[k].status = "OPEN" /\ round'[k].status = "CLOSED"
         => now >= round[k].end_time]_vars

\* The job never strands winners: no run, whatever others do to the round
\* meanwhile, finalizes a round that has entries and is not revealed, which
\* every later run would skip.
UnrevealedNotFinalized ==
  [][\A k \in Rounds :
       ByJob /\ round[k].status = "CLOSED" /\ round'[k].status = "FINALIZED"
         => round[k].participant_count = 0 \/ round[k].scoring_revealed]_vars

\* Whatever the hour it was opened at, a round ends at the anchor, after
\* MIN_ROUND_DURATION_SECONDS at least and before a day more than that: the
\* schedule does not drift, and no round is over before an operator's key may
\* close it.
ScheduleKept ==
  \A k \in Rounds :
    round[k].status # "NONE" => on_schedule(round[k].start_time, round[k].end_time)

Workable == ~paused /\ is_operator_or_authority(JobKey)

\* The day goes on: once a round is over the next one is opened, from
\* wherever the last run, or somebody by hand, left it, if the game is in the
\* end neither paused nor the job's key without powers.
NextRoundOpens ==
  \A k \in 1..(MaxRounds - 1) :
    <>[]Workable =>
      (round[k].status # "NONE" /\ now >= round[k].end_time ~> current_round > k)

\* Every revealed round is settled, the current one or one of long ago, the
\* payout having failed or the run having died before it.
RevealedIsSettled ==
  \A k \in Rounds :
    <>[]is_operator_or_authority(JobKey) =>
      (round[k].scoring_revealed /\ round[k].status = "FINALIZED"
         ~> settlement[k] # "NONE")
=============================================================================
