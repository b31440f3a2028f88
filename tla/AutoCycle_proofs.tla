-------------------------- MODULE AutoCycle_proofs -------------------------
(***************************************************************************)
(* Administration: the authority can always sign and operator slots stay   *)
(* packed.  The schedule: every round ends at the anchor.  The daily job,  *)
(* for any number of runs at once: it closes no live round and finalizes   *)
(* no unrevealed one, because what a run remembers stays true of the round *)
(* (JobsUpToDate): rounds only move onward.                                *)
(***************************************************************************)
EXTENDS AutoCycle, TLAPS

(***************************************************************************)
(* Administration.                                                         *)
(***************************************************************************)
AdminInv ==
  /\ authority \in Controlled
  /\ pending_authority \in Keys \cup {NoKey}
  /\ operators \in [Slots -> Keys \cup {NoKey}]
  /\ OperatorsPacked

LEMMA AdminInitially == AdminInit => AdminInv
BY KeysAssumption, SlotsAssumption DEF AdminInit, AdminInv, OperatorsPacked, Slots

\* Removing the key in slot pos leaves the slots packed.
LEMMA Removal ==
  ASSUME AdminInv, NEW signer, NEW key \in Keys, remove_operator(signer, key)
  PROVE  /\ operators' \in [Slots -> Keys \cup {NoKey}]
         /\ OperatorsPacked'
<1>1. PICK pos \in 1..operator_count : operators' = removed(pos)
  BY DEF remove_operator
<1>2. /\ operator_count \in Nat /\ operator_count <= MAX_OPERATORS
      /\ operator_count >= 1 /\ MAX_OPERATORS \in Nat
  BY <1>1, SlotsAssumption DEF AdminInv, OperatorsPacked
<1>3. operator_count' = operator_count - 1
  BY DEF remove_operator
<1>4. \A i \in Slots :
        operators'[i] = IF i < pos \/ i > operator_count THEN operators[i]
                        ELSE IF i = operator_count THEN NoKey ELSE operators[i + 1]
  BY <1>1 DEF removed
<1>5. \A i \in Slots : operators'[i] \in Keys \cup {NoKey}
  BY <1>2, <1>4 DEF Slots, AdminInv
<1>6. operators' \in [Slots -> Keys \cup {NoKey}]
  BY <1>1, <1>5 DEF removed
<1>7. \A i \in Slots : operators'[i] # NoKey <=> i <= operator_count'
  BY <1>1, <1>2, <1>3, <1>4 DEF Slots, AdminInv, OperatorsPacked
<1>8. ASSUME NEW i \in 1..operator_count', NEW k \in 1..operator_count',
             operators'[i] = operators'[k]
      PROVE  i = k
  <2>. DEFINE from(m) == IF m < pos THEN m ELSE m + 1
  <2>1. from(i) \in 1..operator_count /\ from(k) \in 1..operator_count
    BY <1>2, <1>3
  <2>2. operators'[i] = operators[from(i)] /\ operators'[k] = operators[from(k)]
    BY <1>2, <1>3, <1>4 DEF Slots
  <2>3. from(i) = from(k)
    BY <1>8, <2>1, <2>2 DEF AdminInv, OperatorsPacked
  <2>. QED
    BY <1>1, <1>3, <2>3
<1>. QED
  BY <1>2, <1>3, <1>6, <1>7, <1>8 DEF OperatorsPacked

LEMMA Addition ==
  ASSUME AdminInv, NEW signer, NEW key \in Keys, add_operator(signer, key)
  PROVE  /\ operators' \in [Slots -> Keys \cup {NoKey}]
         /\ OperatorsPacked'
<1>1. /\ operators' = [operators EXCEPT ![operator_count + 1] = key]
      /\ operator_count' = operator_count + 1
      /\ operator_count < MAX_OPERATORS
      /\ \A i \in 1..operator_count : operators[i] # key
  BY DEF add_operator, addable, Active
<1>2. operator_count \in 0..MAX_OPERATORS /\ operator_count + 1 \in Slots
  BY <1>1, SlotsAssumption DEF AdminInv, OperatorsPacked, Slots
<1>3. /\ \A i \in Slots : operators'[i] = IF i = operator_count + 1 THEN key ELSE operators[i]
      /\ operators' \in [Slots -> Keys \cup {NoKey}]
  BY <1>1, <1>2 DEF AdminInv
<1>4. \A i \in Slots : operators'[i] # NoKey <=> i <= operator_count'
  BY <1>1, <1>2, <1>3, KeysAssumption DEF Slots, AdminInv, OperatorsPacked
<1>5. \A i, k \in 1..operator_count' : operators'[i] = operators'[k] => i = k
  BY <1>1, <1>2, <1>3 DEF Slots, AdminInv, OperatorsPacked
<1>. QED
  BY <1>1, <1>2, <1>3, <1>4, <1>5, SlotsAssumption DEF OperatorsPacked

LEMMA AdminStep == AdminInv /\ AdminNext => AdminInv'
<1>. SUFFICES ASSUME AdminInv, NEW signer \in Controlled,
                     \/ \E key \in Keys :
                          \/ propose_authority_transfer(signer, key)
                          \/ add_operator(signer, key)
                          \/ remove_operator(signer, key)
                     \/ accept_authority_transfer(signer)
                     \/ cancel_authority_transfer(signer)
                     \/ \E b \in BOOLEAN : set_paused(signer, b)
              PROVE  AdminInv'
  BY DEF AdminNext
<1>1. ASSUME NEW key \in Keys, propose_authority_transfer(signer, key) PROVE AdminInv'
  BY <1>1 DEF propose_authority_transfer, handover, AdminInv, OperatorsPacked
<1>2. ASSUME NEW key \in Keys, add_operator(signer, key) PROVE AdminInv'
  BY <1>2, Addition DEF add_operator, AdminInv
<1>3. ASSUME NEW key \in Keys, remove_operator(signer, key) PROVE AdminInv'
  BY <1>3, Removal DEF remove_operator, AdminInv
<1>4. ASSUME accept_authority_transfer(signer) PROVE AdminInv'
  BY <1>4 DEF accept_authority_transfer, AdminInv, OperatorsPacked
<1>5. ASSUME cancel_authority_transfer(signer) PROVE AdminInv'
  BY <1>5 DEF cancel_authority_transfer, AdminInv, OperatorsPacked
<1>6. ASSUME NEW b \in BOOLEAN, set_paused(signer, b) PROVE AdminInv'
  BY <1>6 DEF set_paused, AdminInv, OperatorsPacked
<1>. QED
  BY <1>1, <1>2, <1>3, <1>4, <1>5, <1>6

LEMMA AdminKept == AdminInv /\ UNCHANGED adminVars => AdminInv'
BY DEF AdminInv, adminVars, OperatorsPacked

(***************************************************************************)
(* The schedule.                                                           *)
(***************************************************************************)
LEMMA RemainderUnique ==
  ASSUME NEW d \in Nat \ {0}, NEW q \in Int, NEW a \in 0..(d - 1)
  PROVE  (q * d + a) % d = a
OBVIOUS

LEMMA Division ==
  ASSUME NEW d \in Nat \ {0}, NEW t \in Int
  PROVE  /\ t % d \in 0..(d - 1)
         /\ \E q \in Int : t - (t % d) = q * d
<1>1. t \div d \in Int /\ t % d \in 0..(d - 1)
  OBVIOUS
<1>2. t - (t % d) = (t \div d) * d
  OBVIOUS
<1>. QED
  BY <1>1, <1>2

LEMMA RoundEnds ==
  ASSUME NEW t \in Nat
  PROVE  round_end_time(t) \in Int /\ on_schedule(t, round_end_time(t))
<1>. DEFINE D == SECONDS_PER_DAY
            A == ROUND_ANCHOR_UTC_SECONDS
<1>0. D \in Nat \ {0} /\ t \in Int
  BY ScheduleAssumption
<1>1. PICK q \in Int : t - (t % D) = q * D
  BY <1>0, Division
<1>2. t % D \in 0..(D - 1)
  BY <1>0, Division
<1>3. PICK c \in 0..2 : round_end_time(t) = t - (t % D) + A + c * D
  BY <1>2, ScheduleAssumption DEF round_end_time
<1>4. q + c \in Int /\ round_end_time(t) = (q + c) * D + A
  BY <1>1, <1>3, ScheduleAssumption
<1>5. round_end_time(t) % D = A
  BY <1>4, RemainderUnique, ScheduleAssumption
<1>6. round_end_time(t) - t \in
        MIN_ROUND_DURATION_SECONDS..(D + MIN_ROUND_DURATION_SECONDS - 1)
  BY <1>2, ScheduleAssumption DEF round_end_time
<1>7. round_end_time(t) \in Int
  BY <1>4, ScheduleAssumption
<1>. QED
  BY <1>5, <1>6, <1>7 DEF on_schedule
(***************************************************************************)
(* The chain only moves onward.                                            *)
(***************************************************************************)
ChainTyped ==
  /\ now \in Nat
  /\ current_round \in 0..MaxRounds
  /\ round \in [Rounds -> RoundType]
  /\ \A k \in Rounds : round[k].status = "NONE" <=> k > current_round
  /\ settlement \in [Rounds -> {"NONE", "PAID", "REFUNDING"}]

Onward ==
  /\ now' >= now
  /\ current_round' >= current_round
  /\ \A k \in 1..current_round :
       /\ round'[k].end_time = round[k].end_time
       /\ round[k].status # "OPEN" =>
            /\ round'[k].status # "OPEN"
            /\ round'[k].participant_count = round[k].participant_count
       /\ round[k].scoring_revealed => round'[k].scoring_revealed
       /\ round[k].status = "FINALIZED" => round'[k].status = "FINALIZED"

ChainKept == ChainTyped' /\ ScheduleKept' /\ Onward

LEMMA BoundsTyped == MaxRounds \in Nat /\ MaxTime \in Nat
BY JobAssumption

LEMMA ChainStill ==
  ChainTyped /\ ScheduleKept /\ UNCHANGED chainVars => ChainKept
BY BoundsTyped DEF ChainKept, ChainTyped, ScheduleKept, Onward, chainVars

LEMMA Opened ==
  ASSUME ChainTyped, ScheduleKept, NEW signer, open_round(signer)
  PROVE  ChainKept
<1>. DEFINE k == current_round + 1
            new == [NoRound EXCEPT !.status = "OPEN", !.start_time = now,
                                   !.end_time = round_end_time(now)]
<1>1. /\ k \in Rounds /\ round' = [round EXCEPT ![k] = new] /\ current_round' = k
      /\ UNCHANGED <<now, settlement>>
  BY DEF open_round
<1>2. round_end_time(now) \in Int /\ on_schedule(now, round_end_time(now))
  BY RoundEnds DEF ChainTyped
<1>3. new \in RoundType /\ new.status = "OPEN"
  BY <1>2 DEF NoRound, RoundType, ChainTyped
<1>4. new.start_time = now /\ new.end_time = round_end_time(now)
  BY DEF NoRound
<1>. HIDE DEF new
<1>5. /\ round' \in [Rounds -> RoundType] /\ round'[k] = new
      /\ \A i \in Rounds : i # k => round'[i] = round[i]
  BY <1>1, <1>3 DEF ChainTyped
<1>6. ChainTyped'
  BY <1>1, <1>3, <1>5, BoundsTyped DEF ChainTyped, Rounds
<1>7. ScheduleKept'
  BY <1>1, <1>2, <1>4, <1>5 DEF ScheduleKept
<1>8. \A i \in 1..current_round : i \in Rounds /\ i # k
  BY BoundsTyped DEF ChainTyped, Rounds
<1>9. Onward
  BY <1>1, <1>5, <1>8, BoundsTyped DEF Onward, ChainTyped
<1>. QED
  BY <1>6, <1>7, <1>9 DEF ChainKept

\* One round k changes, to new, and nothing else does.
LEMMA OneRound ==
  ASSUME ChainTyped, ScheduleKept, NEW k \in Rounds, NEW new \in RoundType,
         round' = [round EXCEPT ![k] = new],
         UNCHANGED <<now, current_round, settlement>>,
         new.status = "NONE" <=> round[k].status = "NONE",
         new.start_time = round[k].start_time,
         new.end_time = round[k].end_time,
         round[k].status # "OPEN" =>
           new.status # "OPEN" /\ new.participant_count = round[k].participant_count,
         round[k].scoring_revealed => new.scoring_revealed,
         round[k].status = "FINALIZED" => new.status = "FINALIZED"
  PROVE  ChainKept
<1>1. /\ round' \in [Rounds -> RoundType] /\ round'[k] = new
      /\ \A i \in Rounds : i # k => round'[i] = round[i]
  BY DEF ChainTyped
<1>2. ChainTyped'
  BY <1>1 DEF ChainTyped
<1>3. ScheduleKept'
  BY <1>1 DEF ScheduleKept
<1>4. \A i \in 1..current_round : i \in Rounds
  BY BoundsTyped DEF ChainTyped, Rounds
<1>5. Onward
  BY <1>1, <1>4 DEF Onward, ChainTyped
<1>. QED
  BY <1>2, <1>3, <1>5 DEF ChainKept

LEMMA Instructions ==
  ASSUME ChainTyped, ScheduleKept, NEW k \in Rounds, NEW signer,
         \/ submit_entry(k)
         \/ close_round(k, signer)
         \/ \E n \in Nat : score_entries(k, n)
         \/ reveal(k, signer)
         \/ finalize_round(k, signer)
         \/ distribute_pot(k, signer)
         \/ refund_unrevealed_pot(k, signer)
  PROVE  ChainKept
<1>0. round[k] \in RoundType
  BY DEF ChainTyped
<1>1. CASE submit_entry(k)
  <2>. DEFINE new == [round[k] EXCEPT !.participant_count = @ + 1]
  <2>1. new \in RoundType /\ round' = [round EXCEPT ![k] = new]
    BY <1>0, <1>1 DEF submit_entry, RoundType, ChainTyped
  <2>. QED
    BY <1>0, <1>1, <2>1, OneRound DEF submit_entry, RoundType
<1>2. CASE close_round(k, signer)
  <2>. DEFINE new == [round[k] EXCEPT !.status = "CLOSED"]
  <2>1. new \in RoundType /\ round' = [round EXCEPT ![k] = new]
    BY <1>0, <1>2 DEF close_round, RoundType, ChainTyped
  <2>. QED
    BY <1>0, <1>2, <2>1, OneRound DEF close_round, RoundType
<1>3. ASSUME NEW n \in Nat, score_entries(k, n) PROVE ChainKept
  <2>. DEFINE new == [round[k] EXCEPT !.scored_count = n]
  <2>1. new \in RoundType /\ round' = [round EXCEPT ![k] = new]
    BY <1>0, <1>3 DEF score_entries, RoundType, ChainTyped
  <2>. QED
    BY <1>0, <1>3, <2>1, OneRound DEF score_entries, RoundType
<1>4. CASE reveal(k, signer)
  <2>. DEFINE new == [round[k] EXCEPT !.scoring_revealed = TRUE]
  <2>1. new \in RoundType /\ round' = [round EXCEPT ![k] = new]
    BY <1>0, <1>4 DEF reveal, RoundType, ChainTyped
  <2>. QED
    BY <1>0, <1>4, <2>1, OneRound DEF reveal, RoundType
<1>5. CASE finalize_round(k, signer)
  <2>. DEFINE new == [round[k] EXCEPT !.status = "FINALIZED"]
  <2>1. new \in RoundType /\ round' = [round EXCEPT ![k] = new]
    BY <1>0, <1>5 DEF finalize_round, RoundType, ChainTyped
  <2>. QED
    BY <1>0, <1>5, <2>1, OneRound DEF finalize_round, RoundType
<1>6. CASE distribute_pot(k, signer) \/ refund_unrevealed_pot(k, signer)
  <2>1. UNCHANGED <<now, current_round, round>>
    BY <1>6 DEF distribute_pot, refund_unrevealed_pot
  <2>2. settlement' \in [Rounds -> {"NONE", "PAID", "REFUNDING"}]
    BY <1>6 DEF distribute_pot, refund_unrevealed_pot, ChainTyped
  <2>. QED
    BY <2>1, <2>2, BoundsTyped DEF ChainKept, ChainTyped, ScheduleKept, Onward
<1>. QED
  BY <1>1, <1>2, <1>3, <1>4, <1>5, <1>6
(***************************************************************************)
(* The runs.                                                               *)
(***************************************************************************)
JobsTyped == job \in [Runs -> JobType]

\* Run record r is up to date after the step.
Fits(r) ==
  LET k == r.current IN
  /\ r.pc \notin {"idle", "open"} => k \in 1..current_round'
  /\ r.pc = "close" => now' >= round'[k].end_time
  /\ r.pc \in {"score", "reveal", "finalize"} =>
       round'[k].status # "OPEN" /\ r.entries = round'[k].participant_count
  /\ r.pc = "finalize" =>
       r.entries = 0 \/ round'[k].scoring_revealed \/ round'[k].status = "FINALIZED"

LEMMA StillFits ==
  ASSUME ChainTyped, ChainKept, NEW j \in Runs, up_to_date(j)
  PROVE  Fits(job[j])
<1>. DEFINE k == job[j].current
<1>1. /\ now \in Nat /\ now' \in Nat /\ now' >= now
      /\ current_round \in Nat /\ current_round' \in Nat
      /\ current_round' >= current_round
  BY BoundsTyped DEF ChainTyped, ChainKept, Onward
<1>2. ASSUME k \in 1..current_round
      PROVE  /\ round'[k].end_time = round[k].end_time /\ round[k].end_time \in Int
             /\ round[k].status # "OPEN" =>
                  /\ round'[k].status # "OPEN"
                  /\ round'[k].participant_count = round[k].participant_count
             /\ round[k].scoring_revealed => round'[k].scoring_revealed
             /\ round[k].status = "FINALIZED" => round'[k].status = "FINALIZED"
  <2>1. k \in Rounds
    BY <1>2, BoundsTyped DEF ChainTyped, Rounds
  <2>2. round[k] \in RoundType
    BY <2>1 DEF ChainTyped
  <2>. QED
    BY <1>2, <2>2 DEF ChainKept, Onward, RoundType
<1>3. CASE k \in 1..current_round
  BY <1>1, <1>2, <1>3 DEF up_to_date, Fits
<1>4. CASE k \notin 1..current_round
  BY <1>4 DEF up_to_date, Fits
<1>. QED
  BY <1>3, <1>4

LEMMA JobMove ==
  ASSUME ChainTyped, ChainKept, JobsTyped, JobsUpToDate,
         NEW j \in Runs, NEW r \in JobType, Fits(r),
         job' = [job EXCEPT ![j] = r]
  PROVE  JobsTyped' /\ JobsUpToDate'
<1>1. /\ JobsTyped' /\ job'[j] = r
      /\ \A i \in Runs : i # j => job'[i] = job[i]
  BY DEF JobsTyped
<1>2. \A i \in Runs : Fits(job[i])
  BY StillFits DEF JobsUpToDate
<1>3. \A i \in Runs : Fits(job'[i]) => up_to_date(i)'
  BY DEF Fits, up_to_date
<1>. QED
  BY <1>1, <1>2, <1>3 DEF JobsUpToDate

LEMMA JobsStay ==
  ASSUME ChainTyped, ChainKept, JobsTyped, JobsUpToDate, UNCHANGED job
  PROVE  JobsTyped' /\ JobsUpToDate'
<1>1. \A i \in Runs : Fits(job[i])
  BY StillFits DEF JobsUpToDate
<1>2. \A i \in Runs : Fits(job'[i]) => up_to_date(i)'
  BY DEF Fits, up_to_date
<1>. QED
  BY <1>1, <1>2 DEF JobsUpToDate, JobsTyped

LEMMA IdleFits == Idle \in JobType /\ Fits(Idle)
BY DEF Idle, JobType, Pcs, Fits

\* A run that only moves on, to a stage where what it remembers is enough.
LEMMA Moved ==
  ASSUME ChainTyped, ChainKept, JobsTyped, JobsUpToDate,
         NEW j \in Runs, NEW pc \in Pcs, Goto(j, pc),
         Fits([job[j] EXCEPT !.pc = pc])
  PROVE  JobsTyped' /\ JobsUpToDate'
<1>1. [job[j] EXCEPT !.pc = pc] \in JobType
  BY DEF JobsTyped, JobType
<1>2. job' = [job EXCEPT ![j] = [job[j] EXCEPT !.pc = pc]]
  BY DEF Goto, JobsTyped, JobType
<1>. QED
  BY <1>1, <1>2, JobMove

LEMMA Ended ==
  ASSUME ChainTyped, ChainKept, JobsTyped, JobsUpToDate, NEW j \in Runs, End(j)
  PROVE  JobsTyped' /\ JobsUpToDate'
BY IdleFits, JobMove DEF End

(***************************************************************************)
(* The steps of a run.                                                     *)
(***************************************************************************)
CycleInv == ChainTyped /\ ScheduleKept /\ JobsTyped /\ JobsUpToDate

\* The step keeps the rounds moving onward and the runs up to date.
Kept == ChainKept /\ JobsTyped' /\ JobsUpToDate'

LEMMA NothingSent == CycleInv /\ nothing_sent => ChainKept
BY ChainStill DEF CycleInv, nothing_sent

LEMMA StartKept ==
  ASSUME CycleInv, NEW j \in Runs, Start(j)
  PROVE  Kept
<1>. DEFINE r == IF current_round = 0 THEN [job[j] EXCEPT !.pc = "open"]
                 ELSE [job[j] EXCEPT !.pc = "backlog", !.current = current_round,
                                     !.owing = owing]
<1>1. ChainKept
  BY NothingSent DEF Start
<1>2. /\ job' = [job EXCEPT ![j] = r]
      /\ UNCHANGED current_round
  BY DEF Start, nothing_sent, chainVars, CycleInv, JobsTyped
<1>3. /\ owing \in SUBSET Rounds
      /\ current_round \in Nat
      /\ job[j] \in JobType
  BY BoundsTyped DEF owing, Rounds, CycleInv, ChainTyped, JobsTyped
<1>4. r \in JobType
  BY <1>3 DEF JobType, Pcs
<1>5. Fits(r)
  BY <1>2, <1>3 DEF Fits, JobType
<1>. QED
  BY <1>1, <1>2, <1>4, <1>5, JobMove DEF CycleInv, Kept

LEMMA SettleBacklogKept ==
  ASSUME CycleInv, NEW j \in Runs, SettleBacklog(j)
  PROVE  Kept
<1>0. job[j] \in JobType /\ up_to_date(j) /\ job[j].pc = "backlog"
  BY DEF CycleInv, JobsTyped, JobsUpToDate, SettleBacklog
<1>1. CASE job[j].owing = {} /\ Goto(j, "look") /\ nothing_sent
  <2>1. ChainKept /\ Fits(job[j])
    BY <1>0, <1>1, NothingSent, StillFits DEF CycleInv
  <2>2. Fits([job[j] EXCEPT !.pc = "look"])
    BY <1>0, <2>1 DEF Fits, JobType
  <2>. QED
    BY <1>1, <2>1, <2>2, Moved DEF CycleInv, Kept, Pcs
<1>2. ASSUME NEW k \in job[j].owing,
             job' = [job EXCEPT ![j].owing = @ \ {k}],
             distribute_pot(k, JobKey) \/ nothing_sent
      PROVE  Kept
  <2>. DEFINE r == [job[j] EXCEPT !.owing = @ \ {k}]
  <2>1. ChainKept
    <3>1. k \in Rounds
      BY <1>0 DEF JobType
    <3>. QED
      BY <1>2, <3>1, NothingSent, Instructions DEF CycleInv
  <2>2. Fits(job[j])
    BY <1>0, <2>1, StillFits DEF CycleInv
  <2>3. r \in JobType /\ Fits(r)
    BY <1>0, <2>2 DEF JobType, Fits
  <2>4. job' = [job EXCEPT ![j] = r]
    BY <1>2
  <2>. QED
    BY <2>1, <2>3, <2>4, JobMove DEF CycleInv, Kept
<1>. QED
  BY <1>1, <1>2 DEF SettleBacklog

LEMMA LookKept ==
  ASSUME CycleInv, NEW j \in Runs, Look(j)
  PROVE  Kept
<1>. DEFINE k == job[j].current
            going == [job[j] EXCEPT !.pc = "close"]
            closed == [job[j] EXCEPT !.pc = "score",
                         !.entries = round[k].participant_count,
                         !.finalized = round[k].status = "FINALIZED"]
<1>1. ChainKept /\ UNCHANGED <<now, current_round, round>>
  BY NothingSent DEF Look, nothing_sent, chainVars
<1>2. /\ job[j] \in JobType /\ k \in 1..current_round
      /\ k \in Rounds /\ round[k] \in RoundType
  <2>1. job[j] \in JobType /\ k \in 1..current_round
    BY DEF CycleInv, JobsTyped, JobsUpToDate, Look, up_to_date
  <2>2. k \in Rounds
    BY <2>1, BoundsTyped DEF CycleInv, ChainTyped, Rounds
  <2>. QED
    BY <2>1, <2>2 DEF CycleInv, ChainTyped
<1>3. /\ going \in JobType
      /\ round[k].participant_count \in Nat
      /\ closed \in JobType
  BY <1>2 DEF JobType, RoundType, Pcs
<1>4. closeRoundAction(k) \in {"not-open", "too-early", "close"}
  BY DEF closeRoundAction
<1>5. CASE closeRoundAction(k) = "too-early"
  <2>1. End(j)
    BY <1>5 DEF Look, End, CycleInv, JobsTyped
  <2>. QED
    BY <1>1, <2>1, Ended DEF CycleInv, Kept
<1>6. CASE closeRoundAction(k) = "close"
  <2>1. job' = [job EXCEPT ![j] = going]
    BY <1>6 DEF Look, CycleInv, JobsTyped
  <2>2. ~(now < round[k].end_time)
    BY <1>6 DEF closeRoundAction
  <2>3. now >= round[k].end_time
    BY <1>2, <2>2 DEF CycleInv, ChainTyped, RoundType
  <2>4. Fits(going)
    BY <1>1, <1>2, <2>3 DEF Fits, JobType
  <2>. QED
    BY <1>1, <1>3, <2>1, <2>4, JobMove DEF CycleInv, Kept
<1>7. CASE closeRoundAction(k) = "not-open"
  <2>1. job' = [job EXCEPT ![j] = closed]
    BY <1>7 DEF Look, CycleInv, JobsTyped
  <2>2. round[k].status # "OPEN"
    BY <1>7 DEF closeRoundAction
  <2>3. Fits(closed)
    BY <1>1, <1>2, <2>2 DEF Fits, JobType
  <2>. QED
    BY <1>1, <1>3, <2>1, <2>3, JobMove DEF CycleInv, Kept
<1>. QED
  BY <1>4, <1>5, <1>6, <1>7

\* The round a run works on.
LEMMA RunsRound ==
  ASSUME CycleInv, NEW j \in Runs, job[j].pc \notin {"idle", "open"}
  PROVE  /\ job[j] \in JobType /\ up_to_date(j)
         /\ job[j].current \in 1..current_round
         /\ job[j].current \in Rounds
         /\ round[job[j].current] \in RoundType
<1>1. job[j] \in JobType /\ up_to_date(j) /\ job[j].current \in 1..current_round
  BY DEF CycleInv, JobsTyped, JobsUpToDate, up_to_date
<1>2. job[j].current \in Rounds
  BY <1>1, BoundsTyped DEF CycleInv, ChainTyped, Rounds
<1>. QED
  BY <1>1, <1>2 DEF CycleInv, ChainTyped

LEMMA CloseKept ==
  ASSUME CycleInv, NEW j \in Runs, Close(j)
  PROVE  Kept
<1>. DEFINE k == job[j].current
            r == [job[j] EXCEPT !.pc = "score", !.entries = round[k].participant_count]
<1>1. /\ job[j] \in JobType /\ k \in 1..current_round /\ k \in Rounds
      /\ round[k] \in RoundType
  BY RunsRound DEF Close
<1>2. ChainKept
  BY <1>1, Instructions DEF Close, CycleInv
<1>3. /\ round' = [round EXCEPT ![k].status = "CLOSED"]
      /\ UNCHANGED current_round
  BY DEF Close, close_round
<1>4. round'[k].status = "CLOSED" /\ round'[k].participant_count = round[k].participant_count
  BY <1>1, <1>3 DEF CycleInv, ChainTyped, RoundType
<1>5. r \in JobType /\ job' = [job EXCEPT ![j] = r]
  BY <1>1 DEF JobType, RoundType, Pcs, Close, CycleInv, JobsTyped
<1>6. Fits(r)
  BY <1>1, <1>3, <1>4 DEF Fits, JobType
<1>. QED
  BY <1>2, <1>5, <1>6, JobMove DEF CycleInv, Kept

LEMMA ScoreKept ==
  ASSUME CycleInv, NEW j \in Runs, Score(j)
  PROVE  Kept
<1>. DEFINE k == job[j].current
            r == [job[j] EXCEPT !.pc = "reveal"]
<1>1. /\ job[j] \in JobType /\ k \in Rounds /\ round[k] \in RoundType
      /\ job[j].pc = "score" /\ up_to_date(j)
  BY RunsRound DEF Score
<1>2. ChainKept
  <2>1. CASE nothing_sent
    BY <2>1, NothingSent
  <2>2. ASSUME NEW n \in round[k].scored_count..job[j].entries, score_entries(k, n)
        PROVE  ChainKept
    <3>1. n \in Nat
      BY <1>1 DEF RoundType, JobType
    <3>. QED
      BY <1>1, <2>2, <3>1, Instructions DEF CycleInv
  <2>. QED
    BY <2>1, <2>2 DEF Score
<1>3. Fits(job[j])
  BY <1>1, <1>2, StillFits DEF CycleInv
<1>4. Fits(r)
  BY <1>1, <1>3 DEF Fits, JobType
<1>5. Goto(j, "reveal") \/ End(j)
  BY DEF Score
<1>. QED
  BY <1>2, <1>4, <1>5, Moved, Ended DEF CycleInv, Kept, Pcs

LEMMA RevealRoundKept ==
  ASSUME CycleInv, NEW j \in Runs, RevealRound(j)
  PROVE  Kept
<1>. DEFINE k == job[j].current
            r == [job[j] EXCEPT !.pc = "finalize"]
<1>1. /\ job[j] \in JobType /\ k \in Rounds /\ round[k] \in RoundType
      /\ job[j].pc = "reveal" /\ up_to_date(j)
  BY RunsRound DEF RevealRound
<1>2. ChainKept
  BY <1>1, NothingSent, Instructions DEF RevealRound, CycleInv
<1>3. Fits(job[j])
  BY <1>1, <1>2, StillFits DEF CycleInv
<1>4. CASE End(j)
  BY <1>2, <1>4, Ended DEF CycleInv, Kept
<1>5. CASE /\ Goto(j, "finalize")
           /\ \/ /\ nothing_sent
                 /\ \/ round[k].status = "FINALIZED"
                    \/ round[k].scoring_revealed
                    \/ job[j].entries = 0
              \/ reveal(k, JobKey)
  <2>1. job[j].entries = 0 \/ round'[k].scoring_revealed \/ round'[k].status = "FINALIZED"
    <3>1. CASE reveal(k, JobKey)
      BY <1>1, <3>1 DEF reveal, CycleInv, ChainTyped, RoundType
    <3>2. CASE nothing_sent /\ ~reveal(k, JobKey)
      BY <1>5, <3>2 DEF nothing_sent, chainVars
    <3>. QED
      BY <1>5, <3>1, <3>2
  <2>2. Fits(r)
    BY <1>1, <1>3, <2>1 DEF Fits, JobType
  <2>. QED
    BY <1>2, <1>5, <2>2, Moved DEF CycleInv, Kept, Pcs
<1>. QED
  BY <1>4, <1>5 DEF RevealRound, failed_reveal

LEMMA FinalizeKept ==
  ASSUME CycleInv, NEW j \in Runs, Finalize(j)
  PROVE  Kept
<1>. DEFINE k == job[j].current
<1>1. /\ job[j] \in JobType /\ k \in Rounds
      /\ job[j].pc = "finalize" /\ up_to_date(j)
  BY RunsRound DEF Finalize
<1>2. ChainKept
  BY <1>1, NothingSent, Instructions DEF Finalize, CycleInv
<1>3. Fits(job[j])
  BY <1>1, <1>2, StillFits DEF CycleInv
<1>4. Fits([job[j] EXCEPT !.pc = "payout"])
  BY <1>1, <1>3 DEF Fits, JobType
<1>. QED
  BY <1>2, <1>4, Moved DEF Finalize, CycleInv, Kept, Pcs

LEMMA PayoutKept ==
  ASSUME CycleInv, NEW j \in Runs, Payout(j)
  PROVE  Kept
<1>1. /\ job[j] \in JobType /\ job[j].current \in Rounds
  BY RunsRound DEF Payout
<1>2. ChainKept
  BY <1>1, NothingSent, Instructions DEF Payout, CycleInv
<1>3. Fits([job[j] EXCEPT !.pc = "open"])
  BY <1>1 DEF Fits, JobType
<1>. QED
  BY <1>2, <1>3, Moved DEF Payout, CycleInv, Kept, Pcs

LEMMA RunKept ==
  ASSUME CycleInv, NEW j \in Runs, Start(j) \/ JobStep(j) \/ Die(j)
  PROVE  Kept
<1>1. CASE OpenNext(j)
  <2>1. ChainKept /\ End(j)
    BY <1>1, Opened DEF OpenNext, CycleInv
  <2>. QED
    BY <2>1, Ended DEF CycleInv, Kept
<1>2. CASE Die(j)
  <2>1. ChainKept /\ End(j)
    BY <1>2, NothingSent DEF Die
  <2>. QED
    BY <2>1, Ended DEF CycleInv, Kept
<1>. QED
  BY <1>1, <1>2, StartKept, SettleBacklogKept, LookKept, CloseKept, ScoreKept,
     RevealRoundKept, FinalizeKept, PayoutKept DEF JobStep

(***************************************************************************)
(* Every step.                                                             *)
(***************************************************************************)
LEMMA OthersKept ==
  ASSUME CycleInv, Tick \/ Enter \/ ByHand \/ UNCHANGED vars
  PROVE  Kept
<1>1. ChainKept
  <2>0. \A k \in 1..current_round : k \in Rounds /\ round[k] \in RoundType
    BY BoundsTyped DEF CycleInv, ChainTyped, Rounds
  <2>1. CASE Tick
    BY <2>1, BoundsTyped
       DEF Tick, CycleInv, ChainKept, ChainTyped, ScheduleKept, Onward
  <2>2. CASE Enter
    BY <2>0, <2>2, Instructions DEF Enter, CycleInv
  <2>3. ASSUME NEW signer, OperateByHand(signer) PROVE ChainKept
    <3>1. PICK k \in 1..current_round :
             \/ \E n \in round[k].scored_count..round[k].participant_count :
                  score_entries(k, n)
             \/ close_round(k, signer)
             \/ reveal(k, signer)
             \/ finalize_round(k, signer)
             \/ distribute_pot(k, signer)
             \/ refund_unrevealed_pot(k, signer)
      BY <2>3 DEF OperateByHand
    <3>2. round[k].scored_count..round[k].participant_count \subseteq Nat
      BY <2>0 DEF RoundType
    <3>. QED
      BY <2>0, <3>1, <3>2, Instructions DEF CycleInv
  <2>4. CASE ByHand
    BY <2>3, <2>4, Opened, ChainStill DEF ByHand, CycleInv
  <2>5. CASE UNCHANGED vars
    BY <2>5, ChainStill DEF vars, CycleInv
  <2>. QED
    BY <2>1, <2>2, <2>4, <2>5
<1>2. UNCHANGED job
  BY DEF Tick, Enter, ByHand, vars
<1>. QED
  BY <1>1, <1>2, JobsStay DEF CycleInv, Kept

LEMMA CycleStep == CycleInv /\ [Next]_vars => Kept
BY RunKept, OthersKept DEF Next

LEMMA AdminAlways == AdminInv /\ [Next]_vars => AdminInv'
<1>. SUFFICES ASSUME AdminInv, [Next]_vars PROVE AdminInv'
  OBVIOUS
<1>1. ASSUME NEW j \in Runs, Start(j) \/ JobStep(j) \/ Die(j)
      PROVE  UNCHANGED adminVars
  BY <1>1 DEF Start, JobStep, SettleBacklog, Look, Close, Score, RevealRound, Finalize,
              Payout, OpenNext, Die, nothing_sent, by_job
<1>2. ASSUME Tick \/ Enter \/ UNCHANGED vars
      PROVE  UNCHANGED adminVars
  BY <1>2 DEF Tick, Enter, vars
<1>3. CASE ByHand
  BY <1>3, AdminStep, AdminKept DEF ByHand
<1>. QED
  BY <1>1, <1>2, <1>3, AdminKept DEF Next

LEMMA Initially == Init => AdminInv /\ CycleInv
<1>. SUFFICES ASSUME Init PROVE AdminInv /\ CycleInv
  OBVIOUS
<1>1. AdminInv
  BY AdminInitially DEF Init
<1>2. ChainTyped /\ ScheduleKept
  BY BoundsTyped DEF Init, ChainTyped, ScheduleKept, NoRound, RoundType, Rounds
<1>3. JobsTyped /\ JobsUpToDate
  BY DEF Init, JobsTyped, JobsUpToDate, up_to_date, Idle, JobType, Pcs
<1>. QED
  BY <1>1, <1>2, <1>3 DEF CycleInv

LEMMA AdminInvariant == Spec => []AdminInv
<1>1. Init => AdminInv
  BY Initially
<1>. QED
  BY <1>1, AdminAlways, PTL DEF Spec

LEMMA CycleInvariant == Spec => []CycleInv
<1>1. Init => CycleInv
  BY Initially
<1>2. CycleInv /\ [Next]_vars => CycleInv'
  BY CycleStep DEF Kept, ChainKept, CycleInv
<1>. QED
  BY <1>1, <1>2, PTL DEF Spec

(***************************************************************************)
(* The theorems.                                                           *)
(***************************************************************************)
\* Through any handovers, refused, cancelled or accepted, the authority stays
\* a key somebody can sign with: a mistyped key cannot take the program away.
THEOREM AuthoritySafe == Spec => []AuthorityCanSign
<1>1. AdminInv => AuthorityCanSign
  BY DEF AdminInv, AuthorityCanSign
<1>. QED
  BY <1>1, AdminInvariant, PTL

\* Whatever operators come and go, operator slots hold distinct keys, packed
\* at the front, with operator_count of them in use: nobody removed keeps
\* powers and nobody added lacks them.
THEOREM OperatorsSafe == Spec => []OperatorsPacked
<1>1. AdminInv => OperatorsPacked
  BY DEF AdminInv
<1>. QED
  BY <1>1, AdminInvariant, PTL

\* Every round ends at the anchor of some day, after the minimum duration and
\* before a day more than that, for any day length, anchor and minimum.
THEOREM ScheduleSafe == Spec => []ScheduleKept
<1>1. CycleInv => ScheduleKept
  BY DEF CycleInv
<1>. QED
  BY <1>1, CycleInvariant, PTL

\* What a run goes on to do still fits the round it read, whatever any number
\* of other runs and people do between its read and its transaction.
THEOREM JobsSafe == Spec => []JobsUpToDate
<1>1. CycleInv => JobsUpToDate
  BY DEF CycleInv
<1>. QED
  BY <1>1, CycleInvariant, PTL

\* The steps of a run that change the status of a round.
LEMMA StatusSteps ==
  ASSUME CycleInv, NEW j \in Runs, Start(j) \/ JobStep(j) \/ Die(j),
         NEW k \in Rounds, round'[k].status # round[k].status
  PROVE  \/ round'[k].status = "OPEN"
         \/ Close(j) /\ k = job[j].current
         \/ Finalize(j) /\ k = job[j].current /\ round'[k].status = "FINALIZED"
<1>0. round \in [Rounds -> RoundType]
  BY DEF CycleInv, ChainTyped
<1>1. CASE UNCHANGED round
  BY <1>1
<1>2. CASE Score(j)
  <2>1. PICK n \in round[job[j].current].scored_count..job[j].entries :
          score_entries(job[j].current, n)
    BY <1>1, <1>2 DEF Score, nothing_sent, chainVars
  <2>. QED
    BY <1>0, <2>1 DEF score_entries, RoundType
<1>3. CASE Close(j)
  BY <1>0, <1>3 DEF Close, close_round, RoundType
<1>4. CASE RevealRound(j)
  BY <1>0, <1>1, <1>4 DEF RevealRound, reveal, nothing_sent, chainVars, RoundType
<1>5. CASE Finalize(j)
  <2>1. finalize_round(job[j].current, JobKey)
    BY <1>1, <1>5 DEF Finalize, nothing_sent, chainVars
  <2>. QED
    BY <1>0, <1>5, <2>1 DEF finalize_round, RoundType
<1>6. CASE OpenNext(j)
  BY <1>0, <1>6 DEF OpenNext, open_round, NoRound
<1>7. CASE Start(j) \/ SettleBacklog(j) \/ Look(j) \/ Payout(j) \/ Die(j)
  <2>1. UNCHANGED round
    BY <1>7 DEF Start, SettleBacklog, Look, Payout, Die, distribute_pot,
                nothing_sent, chainVars
  <2>. QED
    BY <2>1
<1>. QED
  BY <1>2, <1>3, <1>4, <1>5, <1>6, <1>7 DEF JobStep

LEMMA ByARun ==
  ASSUME [Next]_vars, ByJob
  PROVE  \E j \in Runs : Start(j) \/ JobStep(j) \/ Die(j)
BY DEF Next, ByJob, Tick, Enter, ByHand, vars

\* No run closes a round before its end_time.
THEOREM LiveRoundsSafe == Spec => LiveRoundsLeftOpen
<1>1. ASSUME CycleInv, [Next]_vars, ByJob, NEW k \in Rounds,
             round[k].status = "OPEN", round'[k].status = "CLOSED"
      PROVE  now >= round[k].end_time
  <2>1. PICK j \in Runs : Start(j) \/ JobStep(j) \/ Die(j)
    BY <1>1, ByARun
  <2>2. Close(j) /\ k = job[j].current
    BY <1>1, <2>1, StatusSteps
  <2>. QED
    BY <1>1, <2>2 DEF Close, CycleInv, JobsUpToDate, up_to_date
<1>2. CycleInv /\ [Next]_vars =>
        [\A k \in Rounds :
           ByJob /\ round[k].status = "OPEN" /\ round'[k].status = "CLOSED"
             => now >= round[k].end_time]_vars
  BY <1>1
<1>. QED
  BY <1>2, CycleInvariant, PTL DEF Spec, LiveRoundsLeftOpen

\* No run finalizes a round that has entries and is not revealed.
THEOREM UnrevealedSafe == Spec => UnrevealedNotFinalized
<1>1. ASSUME CycleInv, [Next]_vars, ByJob, NEW k \in Rounds,
             round[k].status = "CLOSED", round'[k].status = "FINALIZED"
      PROVE  round[k].participant_count = 0 \/ round[k].scoring_revealed
  <2>1. PICK j \in Runs : Start(j) \/ JobStep(j) \/ Die(j)
    BY <1>1, ByARun
  <2>2. CASE Close(j) /\ k = job[j].current
    BY <1>1, <2>2 DEF Close, close_round
  <2>3. CASE Finalize(j) /\ k = job[j].current
    BY <1>1, <2>3 DEF Finalize, CycleInv, JobsUpToDate, up_to_date
  <2>. QED
    BY <1>1, <2>1, <2>2, <2>3, StatusSteps
<1>2. CycleInv /\ [Next]_vars =>
        [\A k \in Rounds :
           ByJob /\ round[k].status = "CLOSED" /\ round'[k].status = "FINALIZED"
             => round[k].participant_count = 0 \/ round[k].scoring_revealed]_vars
  BY <1>1
<1>. QED
  BY <1>2, CycleInvariant, PTL DEF Spec, UnrevealedNotFinalized
=============================================================================
