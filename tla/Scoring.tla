------------------------------ MODULE Scoring ------------------------------
(***************************************************************************)
(* Scoring a closed round's entries: queue_score_entry sends one entry to  *)
(* the MPC cluster, score_entry_v2_callback stores its score and counts    *)
(* it, cancel_stuck_score lets anybody clear an entry whose callback has   *)
(* not come within SCORE_TIMEOUT_SECONDS, so that it can be queued again   *)
(* while the first computation may still be answered.                      *)
(*                                                                         *)
(* A computation is identified by its entry and a number distinguishing    *)
(* those in flight at the same time; the number stands for the ciphertext  *)
(* it will store.  It is answered in any order, or never.                  *)
(***************************************************************************)
EXTENDS Integers, FiniteSets

CONSTANTS
  Entries,      \* the round's entries; participant_count is their number
  MaxInFlight   \* bound: computations of one entry in flight at once

ASSUME EntriesAssumption == IsFiniteSet(Entries)
ASSUME InFlightAssumption == MaxInFlight \in Nat \ {0}

VARIABLES
  paused,        \* config.paused
  status,        \* round.status
  entry,         \* the CompetitionEntry accounts
  scored_count,  \* round.scored_count
  computations   \* scoring computations queued and not yet answered

vars == <<paused, status, entry, scored_count, computations>>

\* timed_out: SCORE_TIMEOUT_SECONDS have passed since queued_at.
NewEntry == [scored |-> FALSE, encrypted_score |-> 0, score_queued |-> FALSE,
             timed_out |-> FALSE, score_error_code |-> FALSE]

Init ==
  /\ paused = FALSE
  /\ status = "CLOSED"
  /\ entry = [e \in Entries |-> NewEntry]
  /\ scored_count = 0
  /\ computations = {}

-----------------------------------------------------------------------------
SetPaused(b) ==
  /\ paused' = b
  /\ UNCHANGED <<status, entry, scored_count, computations>>

\* finalize_round asks nothing about scores.
finalize_round ==
  /\ status = "CLOSED"
  /\ status' = "FINALIZED"
  /\ UNCHANGED <<paused, entry, scored_count, computations>>

queueable(e) == ~entry[e].scored /\ ~entry[e].score_queued

queue_score_entry(e, c) ==
  /\ ~paused
  /\ status = "CLOSED"
  /\ queueable(e)
  /\ c \notin computations /\ c.entry = e
  /\ computations' = computations \cup {c}
  /\ entry' = [entry EXCEPT ![e].score_queued = TRUE, ![e].timed_out = FALSE]
  /\ UNCHANGED <<paused, status, scored_count>>

\* mutant: an answer is taken whether or not the entry has its score.
answerable_always(e) == TRUE

answerable(e) == ~entry[e].scored

score_success(c) ==
  /\ answerable(c.entry)
  /\ entry' = [entry EXCEPT ![c.entry] =
       [@ EXCEPT !.scored = TRUE, !.encrypted_score = c.nr, !.score_queued = FALSE]]
  /\ scored_count' = scored_count + 1

score_failure(c) ==
  /\ answerable(c.entry)
  /\ entry' = [entry EXCEPT ![c.entry] =
       [@ EXCEPT !.score_error_code = TRUE, !.score_queued = FALSE]]
  /\ UNCHANGED scored_count

score_ignored(c) == ~answerable(c.entry) /\ UNCHANGED <<entry, scored_count>>

score_entry_v2_callback(c) ==
  /\ c \in computations
  /\ computations' = computations \ {c}
  /\ score_success(c) \/ score_failure(c) \/ score_ignored(c)
  /\ UNCHANGED <<paused, status>>

\* The cluster never answers.
Lose(c) ==
  /\ computations' = computations \ {c}
  /\ UNCHANGED <<paused, status, entry, scored_count>>

Tick(e) ==
  /\ entry[e].score_queued /\ ~entry[e].timed_out
  /\ entry' = [entry EXCEPT ![e].timed_out = TRUE]
  /\ UNCHANGED <<paused, status, scored_count, computations>>

\* mutant: only an entry whose computation has failed before is cleared.
cancellable_when_answered(e) ==
  entry[e].score_queued /\ entry[e].timed_out /\ entry[e].score_error_code

cancellable(e) == ~entry[e].scored /\ entry[e].score_queued /\ entry[e].timed_out

\* Not gated by the pause.
cancel_stuck_score(e) ==
  /\ cancellable(e)
  /\ entry' = [entry EXCEPT ![e].score_queued = FALSE]
  /\ UNCHANGED <<paused, status, scored_count, computations>>

-----------------------------------------------------------------------------
Computations == [entry : Entries, nr : 1..MaxInFlight]

Next ==
  \/ \E b \in BOOLEAN : SetPaused(b)
  \/ finalize_round
  \/ \E e \in Entries :
       \/ \E c \in Computations : queue_score_entry(e, c)
       \/ Tick(e)
       \/ cancel_stuck_score(e)
  \/ \E c \in computations : score_entry_v2_callback(c) \/ Lose(c)

Spec == Init /\ [][Next]_vars

(***************************************************************************)
(* The daily job queues every unscored entry and cancels a stuck one once  *)
(* it may (scoreEntryWithRecovery), the clock advances, the pause is       *)
(* lifted, and a computation queued again and again at last succeeds.      *)
(***************************************************************************)
Fairness ==
  /\ WF_vars(SetPaused(FALSE))
  /\ \A e \in Entries :
       /\ SF_vars(\E c \in Computations : queue_score_entry(e, c))
       /\ WF_vars(Tick(e))
       /\ WF_vars(cancel_stuck_score(e))
       /\ SF_vars(\E c \in computations :
            c.entry = e /\ score_entry_v2_callback(c) /\ entry'[e].scored)

FairSpec == Spec /\ Fairness

-----------------------------------------------------------------------------
(***************************************************************************)
(* Properties.                                                             *)
(***************************************************************************)
EntryType ==
  [scored : BOOLEAN, encrypted_score : 0..MaxInFlight, score_queued : BOOLEAN,
   timed_out : BOOLEAN, score_error_code : BOOLEAN]

\* scored_count never exceeds the number of entries.
TypeOK ==
  /\ paused \in BOOLEAN
  /\ status \in {"CLOSED", "FINALIZED"}
  /\ entry \in [Entries -> EntryType]
  /\ scored_count \in 0..Cardinality(Entries)
  /\ computations \subseteq Computations

\* scored_count is exact: every entry counts once however often it was queued,
\* cancelled, answered late or answered twice; so init_bracket's test
\* scored_count == participant_count means that every entry has its score.
CountedExactlyOnce ==
  scored_count = Cardinality({e \in Entries : entry[e].scored})

\* A score, once stored, is never replaced by a later answer: the reveal reads
\* the ciphertext in place, in several computations.
ScoreIsFinal ==
  [][\A e \in Entries : entry[e].scored =>
       /\ entry'[e].scored
       /\ entry'[e].encrypted_score = entry[e].encrypted_score]_vars

\* Every entry of a round that stays CLOSED gets its score: no sequence of
\* lost, failed and late computations leaves an entry neither in flight nor
\* queueable nor cancellable.
EventuallyScored ==
  \A e \in Entries : <>(entry[e].scored \/ status = "FINALIZED")
=============================================================================
