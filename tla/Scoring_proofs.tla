--------------------------- MODULE Scoring_proofs ---------------------------
(***************************************************************************)
(* Scoring is counted exactly once and never rescored, for any number of   *)
(* entries and of computations in flight.  The inductive invariant is      *)
(* Counted: the account types without the bound on scored_count, and the   *)
(* count itself; the bound follows from the count.                         *)
(***************************************************************************)
EXTENDS Scoring, FiniteSetTheorems, TLAPS

Scored == {e \in Entries : entry[e].scored}

Counted ==
  /\ paused \in BOOLEAN
  /\ status \in {"CLOSED", "FINALIZED"}
  /\ entry \in [Entries -> EntryType]
  /\ computations \subseteq Computations
  /\ scored_count = Cardinality(Scored)

\* The entries scored so far are finitely many, and at most all of them.
LEMMA ScoredFinite ==
  /\ IsFiniteSet(Scored)
  /\ Cardinality(Scored) \in 0..Cardinality(Entries)
<1>1. Scored \subseteq Entries
  BY DEF Scored
<1>2. /\ IsFiniteSet(Scored) /\ Cardinality(Scored) <= Cardinality(Entries)
      /\ Cardinality(Entries) \in Nat
  BY <1>1, EntriesAssumption, FS_Subset, FS_CardinalityType
<1>3. Cardinality(Scored) \in Nat
  BY <1>2, FS_CardinalityType
<1>. QED
  BY <1>2, <1>3

\* An entry account changed in its flags alone keeps its type, and the set of
\* scored entries when its scored field is left alone.
LEMMA FlagsOnly ==
  ASSUME Counted, NEW e \in Entries, NEW a \in EntryType,
         entry' = [entry EXCEPT ![e] = a], a.scored = entry[e].scored
  PROVE  entry' \in [Entries -> EntryType] /\ Scored' = Scored
BY DEF Counted, Scored

\* The first successful answer adds its entry to the scored ones: one more.
LEMMA OneMore ==
  ASSUME Counted, NEW c \in Computations, score_success(c)
  PROVE  /\ entry' \in [Entries -> EntryType]
         /\ scored_count' = Cardinality(Scored')
<1>1. c.entry \in Entries /\ c.nr \in 0..MaxInFlight
  BY InFlightAssumption DEF Computations
<1>2. entry[c.entry] \in EntryType
  BY <1>1 DEF Counted
<1>. DEFINE a == [entry[c.entry] EXCEPT !.scored = TRUE, !.encrypted_score = c.nr,
                                        !.score_queued = FALSE]
<1>3. a \in EntryType /\ a.scored = TRUE
  BY <1>1, <1>2 DEF EntryType
<1>4. entry' = [entry EXCEPT ![c.entry] = a]
  BY DEF score_success
<1>. HIDE DEF a
<1>5. entry' \in [Entries -> EntryType]
  BY <1>1, <1>3, <1>4 DEF Counted
<1>6. c.entry \notin Scored
  BY DEF score_success, answerable, Scored
<1>7. Scored' = Scored \cup {c.entry}
  BY <1>1, <1>3, <1>4 DEF Counted, Scored
<1>8. Cardinality(Scored') = Cardinality(Scored) + 1
  BY <1>6, <1>7, ScoredFinite, FS_AddElement
<1>. QED
  BY <1>5, <1>8 DEF Counted, score_success

LEMMA CountedInit == Init => Counted
<1>. SUFFICES ASSUME Init PROVE Counted
  OBVIOUS
<1>1. entry \in [Entries -> EntryType]
  BY InFlightAssumption DEF Init, NewEntry, EntryType
<1>2. Scored = {}
  BY DEF Init, NewEntry, Scored
<1>. QED
  BY <1>1, <1>2, FS_EmptySet DEF Init, Counted

LEMMA CountedStep == Counted /\ [Next]_vars => Counted'
<1>. SUFFICES ASSUME Counted, [Next]_vars PROVE Counted'
  OBVIOUS
<1>. USE DEF Counted
<1>1. ASSUME NEW b \in BOOLEAN, SetPaused(b) PROVE Counted'
  BY <1>1 DEF SetPaused, Scored
<1>2. CASE finalize_round
  BY <1>2 DEF finalize_round, Scored
<1>3. ASSUME NEW e \in Entries, NEW c \in Computations, queue_score_entry(e, c)
      PROVE  Counted'
  <2>. DEFINE a == [entry[e] EXCEPT !.score_queued = TRUE, !.timed_out = FALSE]
  <2>1. a \in EntryType /\ a.scored = entry[e].scored
    BY DEF EntryType
  <2>2. entry' = [entry EXCEPT ![e] = a]
    BY <1>3 DEF queue_score_entry
  <2>. HIDE DEF a
  <2>3. entry' \in [Entries -> EntryType] /\ Scored' = Scored
    BY <2>1, <2>2, FlagsOnly
  <2>. QED
    BY <1>3, <2>3 DEF queue_score_entry
<1>4. ASSUME NEW e \in Entries, Tick(e) PROVE Counted'
  <2>. DEFINE a == [entry[e] EXCEPT !.timed_out = TRUE]
  <2>1. a \in EntryType /\ a.scored = entry[e].scored
    BY DEF EntryType
  <2>2. entry' = [entry EXCEPT ![e] = a]
    BY <1>4 DEF Tick
  <2>. HIDE DEF a
  <2>3. entry' \in [Entries -> EntryType] /\ Scored' = Scored
    BY <2>1, <2>2, FlagsOnly
  <2>. QED
    BY <1>4, <2>3 DEF Tick
<1>5. ASSUME NEW e \in Entries, cancel_stuck_score(e) PROVE Counted'
  <2>. DEFINE a == [entry[e] EXCEPT !.score_queued = FALSE]
  <2>1. a \in EntryType /\ a.scored = entry[e].scored
    BY DEF EntryType
  <2>2. entry' = [entry EXCEPT ![e] = a]
    BY <1>5 DEF cancel_stuck_score
  <2>. HIDE DEF a
  <2>3. entry' \in [Entries -> EntryType] /\ Scored' = Scored
    BY <2>1, <2>2, FlagsOnly
  <2>. QED
    BY <1>5, <2>3 DEF cancel_stuck_score
<1>6. ASSUME NEW c \in computations, score_entry_v2_callback(c) PROVE Counted'
  <2>1. c \in Computations /\ c.entry \in Entries
    BY DEF Computations
  <2>2. CASE score_success(c)
    BY <1>6, <2>1, <2>2, OneMore DEF score_entry_v2_callback
  <2>3. CASE score_failure(c)
    <3>. DEFINE a == [entry[c.entry] EXCEPT !.score_error_code = TRUE, !.score_queued = FALSE]
    <3>1. a \in EntryType /\ a.scored = entry[c.entry].scored
      BY <2>1 DEF EntryType
    <3>2. entry' = [entry EXCEPT ![c.entry] = a]
      BY <2>3 DEF score_failure
    <3>. HIDE DEF a
    <3>3. entry' \in [Entries -> EntryType] /\ Scored' = Scored
      BY <2>1, <3>1, <3>2, FlagsOnly
    <3>. QED
      BY <1>6, <2>3, <3>3 DEF score_entry_v2_callback, score_failure
  <2>4. CASE score_ignored(c)
    BY <1>6, <2>4 DEF score_entry_v2_callback, score_ignored, Scored
  <2>. QED
    BY <1>6, <2>2, <2>3, <2>4 DEF score_entry_v2_callback
<1>7. ASSUME NEW c \in computations, Lose(c) PROVE Counted'
  BY <1>7 DEF Lose, Scored
<1>8. CASE UNCHANGED vars
  BY <1>8 DEF vars, Scored
<1>. QED
  BY <1>1, <1>2, <1>3, <1>4, <1>5, <1>6, <1>7, <1>8 DEF Next

-----------------------------------------------------------------------------
\* Every entry is counted once, whatever was cancelled, retried or answered
\* late: scored_count is the number of entries that have a score.
THEOREM CountIsExact == Spec => []CountedExactlyOnce
<1>1. Counted => CountedExactlyOnce
  BY DEF Counted, CountedExactlyOnce, Scored
<1>. QED
  BY <1>1, CountedInit, CountedStep, PTL DEF Spec

\* The types hold, the bound of scored_count by the number of entries included.
THEOREM ScoringTypes == Spec => []TypeOK
<1>1. Counted => TypeOK
  BY ScoredFinite DEF Counted, TypeOK
<1>. QED
  BY <1>1, CountedInit, CountedStep, PTL DEF Spec

\* No later answer replaces a stored score.
THEOREM NoRescore == Spec => ScoreIsFinal
<1>. DEFINE Kept ==
              \A e \in Entries : entry[e].scored =>
                entry'[e].scored /\ entry'[e].encrypted_score = entry[e].encrypted_score
<1>1. Counted /\ [Next]_vars =>
        [\A e \in Entries : entry[e].scored =>
           /\ entry'[e].scored
           /\ entry'[e].encrypted_score = entry[e].encrypted_score]_vars
  <2>. SUFFICES ASSUME Counted, Next PROVE Kept
    OBVIOUS
  <2>. USE DEF Counted
  <2>1. ASSUME NEW b \in BOOLEAN, SetPaused(b) PROVE Kept
    BY <2>1 DEF SetPaused
  <2>2. CASE finalize_round
    BY <2>2 DEF finalize_round
  <2>3. ASSUME NEW e \in Entries, NEW c \in Computations, queue_score_entry(e, c)
        PROVE  Kept
    BY <2>3 DEF queue_score_entry, EntryType
  <2>4. ASSUME NEW e \in Entries, Tick(e) PROVE Kept
    BY <2>4 DEF Tick, EntryType
  <2>5. ASSUME NEW e \in Entries, cancel_stuck_score(e) PROVE Kept
    BY <2>5 DEF cancel_stuck_score, EntryType
  <2>6. ASSUME NEW c \in computations, score_entry_v2_callback(c) PROVE Kept
    <3>1. c.entry \in Entries
      BY DEF Computations
    <3>2. CASE score_success(c)
      BY <3>1, <3>2 DEF score_success, answerable, EntryType
    <3>3. CASE score_failure(c)
      BY <3>1, <3>3 DEF score_failure, answerable, EntryType
    <3>4. CASE score_ignored(c)
      BY <3>4 DEF score_ignored
    <3>. QED
      BY <2>6, <3>2, <3>3, <3>4 DEF score_entry_v2_callback
  <2>7. ASSUME NEW c \in computations, Lose(c) PROVE Kept
    BY <2>7 DEF Lose
  <2>. QED
    BY <2>1, <2>2, <2>3, <2>4, <2>5, <2>6, <2>7 DEF Next
<1>. QED
  BY <1>1, CountedInit, CountedStep, PTL DEF Spec, ScoreIsFinal
=============================================================================
