---------------------------- MODULE SgdPot_proofs ----------------------------
(***************************************************************************)
(* Theorems about SgdPot, for every set of players, mints and rounds.      *)
(*                                                                         *)
(* TypeCorrect: no field leaves its range.  OneOutcome: a pot is never     *)
(* both paid out and refunded; PaidOrRefunded is not inductive by itself,  *)
(* because nothing in it ties the money that has moved to the settlement   *)
(* state that decides what may move next, which is what Tied adds.         *)
(* NoReplay: a terminal settlement is never touched again.                 *)
(*                                                                         *)
(* Then where a round's base units can go: SolventAlways (what is owed is  *)
(* always in the vault) without any further assumption, SweepsOnlySurplus  *)
(* (the authority never receives an entrant's money) under the one         *)
(* condition the code leaves to the authority, MintMovesWhenSettled.       *)
(* Solvent is not inductive: that a fee lands in the vault its round will  *)
(* be settled from needs Lifecycle, by which only the current round takes  *)
(* entries and the mint does not move under it.  ConservesMoney needs the  *)
(* books too: an equation for a round's own vault breaks if its prizes     *)
(* come out of another.  PotKeepsPromise is the refinement of PotPromise.  *)
(***************************************************************************)
EXTENDS SgdPot, TLAPS, FiniteSetTheorems, FunctionTheorems

-----------------------------------------------------------------------------
\* Every share of a pot that covers its k <= 3 winners is a natural number:
\* the last winner's remainder never underflows.
LEMMA ShareType ==
  ASSUME NEW pot \in Nat, NEW k \in 1..3, NEW i \in 1..k
  PROVE  Share(pot, i, k) \in Nat
<1>1. pot \div k \in Nat /\ pot \div k <= pot
  BY SMT
<1>2. CASE k = 1
  BY <1>1, <1>2 DEF Share
<1>3. CASE k = 2
  <2>1. (pot \div 2) * 1 <= pot
    BY SMT
  <2> QED BY <1>1, <1>3, <2>1 DEF Share
<1>4. CASE k = 3
  <2>1. (pot \div 3) * 2 <= pot
    BY SMT
  <2> QED BY <1>1, <1>4, <2>1 DEF Share
<1> QED BY <1>2, <1>3, <1>4

\* What distribute_pot writes in the ledger is an amount for every player.
LEMMA PrizesType ==
  ASSUME NEW top \in Podium, NEW pot \in Nat
  PROVE  Prizes(top, pot) \in [Players -> Nat] /\ Len(top) \in 0..3
<1>1. PICK n \in 0..3 : top \in [1..n -> Players]
  BY DEF Podium
<1>2. Len(top) = n
  BY <1>1, top \in Seq(Players)
<1>3. ASSUME NEW p \in Players, \E i \in 1..Len(top) : top[i] = p
      PROVE  Share(pot, CHOOSE i \in 1..Len(top) : top[i] = p, Len(top)) \in Nat
  <2> DEFINE i == CHOOSE i \in 1..Len(top) : top[i] = p
  <2>1. i \in 1..n
    BY <1>2, <1>3
  <2>2. n \in 1..3
    BY <2>1
  <2> QED BY <2>1, <2>2, <1>2, ShareType
<1> QED BY <1>2, <1>3 DEF Prizes

\* The terms a refund freezes are in range, and cover what is owed: the
\* subtraction that gives the surplus never underflows.
LEMMA RefundTermsType ==
  ASSUME TypeOK, NEW r \in Rounds, sgd_mint \in Mints
  PROVE  RefundTerms(r) \in SettlementType
<1> DEFINE n == round[r].participant_count
           pot == balance[<<sgd_mint, r>>]
           affordable == IF n = 0 THEN 0 ELSE pot \div n
           each == IF affordable < Fee THEN affordable ELSE Fee
<1>1. n \in Nat /\ pot \in Nat /\ Fee \in Nat
  BY FeeAssumption, BoundsAssumption DEF TypeOK, Vaults, RoundType
<1>2. affordable \in Nat /\ affordable * n <= pot
  <2>1. CASE n = 0
    BY <2>1, <1>1
  <2>2. CASE n # 0
    <3>1. \A a, b \in Nat : b # 0 => a \div b \in Nat /\ (a \div b) * b <= a
      BY SMT
    <3> QED BY <2>2, <1>1, <3>1
  <2> QED BY <2>1, <2>2
<1>3. each \in 0..Fee /\ each <= affordable
  BY <1>1, <1>2
<1>4. each * n <= affordable * n
  <2>1. \A a, b, c \in Nat : a <= b => a * c <= b * c
    BY SMT
  <2> HIDE DEF n, affordable, each
  <2>2. each \in Nat
    BY <1>1, <1>3
  <2> QED BY <1>1, <1>2, <1>3, <2>1, <2>2
<1>5. pot - each * n \in Nat
  <2>1. each * n \in Nat /\ affordable * n \in Nat
    BY <1>1, <1>2, <1>3
  <2> HIDE DEF n, affordable, each, pot
  <2> QED BY <1>1, <1>2, <1>4, <2>1
<1>6. RefundTerms(r) = [state |-> "PENDING", total_settled |-> 0,
                        recipient_count |-> 0, entrant_count |-> n,
                        per_entrant |-> each, surplus |-> pot - each * n,
                        cursor |-> 0]
  BY DEF RefundTerms
<1> HIDE DEF n, affordable, each, pot
<1> QED BY <1>1, <1>3, <1>5, <1>6 DEF SettlementType

\* A ledger stays one when a field is replaced by another of its type.
LEMMA LedgerFields ==
  ASSUME NEW l \in LedgerType
  PROVE  /\ \A m \in Mints : [l EXCEPT !.mint = m] \in LedgerType
         /\ \A f \in [Players -> Nat] : [l EXCEPT !.refund = f] \in LedgerType
         /\ \A f \in [Mints -> Nat] : [l EXCEPT !.swept = f] \in LedgerType
         /\ \A f \in [Mints -> 0..MaxDonated] : [l EXCEPT !.donated = f] \in LedgerType
<1>1. \A m \in Mints : [l EXCEPT !.mint = m] \in LedgerType
  BY DEF LedgerType
<1>2. \A f \in [Players -> Nat] : [l EXCEPT !.refund = f] \in LedgerType
  BY DEF LedgerType
<1>3. \A f \in [Mints -> Nat] : [l EXCEPT !.swept = f] \in LedgerType
  BY DEF LedgerType
<1>4. \A f \in [Mints -> 0..MaxDonated] : [l EXCEPT !.donated = f] \in LedgerType
  BY DEF LedgerType
<1> QED BY <1>1, <1>2, <1>3, <1>4

\* A batch is a finite set, so it has a natural number of entrants.
LEMMA BatchCount ==
  ASSUME TypeOK, NEW r \in Rounds, NEW batch \in SUBSET entries[r]
  PROVE  Cardinality(batch) \in Nat /\ IsFiniteSet(batch)
<1>1. batch \subseteq Players
  BY DEF TypeOK
<1>2. IsFiniteSet(batch)
  BY <1>1, PlayersAssumption, FS_Subset
<1> QED BY <1>2, FS_CardinalityType

\* Paying a batch keeps every field in its range: the vault covers the batch,
\* so its balance does not underflow.
LEMMA PayBatchType ==
  ASSUME TypeOK, NEW r \in Rounds, sgd_mint \in Mints,
         NEW s \in SettlementType,
         NEW batch \in SUBSET entries[r], NEW last \in batch,
         PayBatch(r, s, batch, last)
  PROVE  TypeOK'
<1> DEFINE v == <<sgd_mint, r>>
           n == Cardinality(batch)
           count == s.recipient_count + n
           paid == n * s.per_entrant
<1>1. n \in Nat /\ last \in Players /\ v \in Vaults
  BY BatchCount DEF TypeOK, Vaults
<1>2. s.per_entrant \in Nat /\ s.per_entrant \in 0..Fee /\ s.recipient_count \in Nat
      /\ s.total_settled \in Nat
  BY FeeAssumption DEF SettlementType
<1>3. count \in Nat /\ paid \in Nat
  BY <1>1, <1>2
<1>4. balance' \in [Vaults -> Nat]
  <2>1. balance[v] \in Nat /\ balance[v] >= paid
    BY <1>1 DEF TypeOK, PayBatch
  <2>2. balance' = [balance EXCEPT ![v] = @ - paid]
    BY DEF PayBatch
  <2> HIDE DEF paid, v
  <2>3. balance[v] - paid \in Nat
    BY <1>3, <2>1
  <2> QED BY <2>2, <2>3 DEF TypeOK
<1>5. settlement' \in [Rounds -> SettlementType]
  <2> DEFINE t == [s EXCEPT !.state = refund_state(s, count), !.total_settled = @ + paid,
                            !.recipient_count = count, !.cursor = last]
  <2>1. settlement' = [settlement EXCEPT ![r] = t]
    BY DEF PayBatch
  <2>2. s.total_settled + paid \in Nat
    BY <1>2, <1>3
  <2>3. refund_state(s, count) \in {"PENDING", "REFUNDED"}
    BY DEF refund_state
  <2>4. t \in SettlementType
    <3> HIDE DEF count, paid
    <3> QED BY <1>1, <1>3, <2>2, <2>3 DEF SettlementType
  <2> HIDE DEF t
  <2> QED BY <2>1, <2>4 DEF TypeOK
<1>6. ledger' \in [Rounds -> LedgerType]
  <2> DEFINE f == [p \in Players |->
                     IF p \in batch THEN ledger[r].refund[p] + s.per_entrant
                                    ELSE ledger[r].refund[p]]
  <2>1. ledger' = [ledger EXCEPT ![r].refund = f]
    BY DEF PayBatch
  <2>2. f \in [Players -> Nat]
    BY <1>2 DEF TypeOK, LedgerType
  <2> HIDE DEF f
  <2>3. [ledger[r] EXCEPT !.refund = f] \in LedgerType
    BY <2>2, LedgerFields DEF TypeOK
  <2> QED BY <2>1, <2>3 DEF TypeOK
<1>7. UNCHANGED <<paused, sgd_mint, current_round, round, entries, vaults>>
  BY DEF PayBatch
<1> QED BY <1>4, <1>5, <1>6, <1>7 DEF TypeOK

\* A vault named by the config's mint exists only once a mint is pinned.
LEMMA PinnedMint ==
  ASSUME TypeOK, NEW r \in Rounds, <<sgd_mint, r>> \in vaults
  PROVE  sgd_mint \in Mints /\ <<sgd_mint, r>> \in Vaults
BY DEF TypeOK, Vaults

\* The account open_round writes is in range.
LEMMA NewRoundType == NewRound \in RoundType
<1>1. <<>> \in Podium
  BY <<>> \in [1..0 -> Players] DEF Podium
<1>2. 1 \in 1..Len(Clock)
  BY DEF Clock
<1> QED BY <1>1, <1>2, BoundsAssumption DEF NewRound, RoundType

-----------------------------------------------------------------------------
\* No account field ever leaves its range, whatever the interleaving: no round
\* is overfull, no vault is overdrawn, no u64 subtraction underflows
\* (submit_entry, distribute_pot, refund_unrevealed_pot, close_pot_vault).
THEOREM TypeCorrect == Spec => []TypeOK
<1>1. Init => TypeOK
  <2> SUFFICES ASSUME Init PROVE TypeOK
    OBVIOUS
  <2>1. NoRound \in RoundType
    BY NewRoundType DEF NoRound, RoundType
  <2>2. NewSettlement \in SettlementType
    BY FeeAssumption DEF NewSettlement, SettlementType
  <2>3. NewLedger \in LedgerType
    BY BoundsAssumption DEF NewLedger, LedgerType
  <2>4. round \in [Rounds -> RoundType] /\ settlement \in [Rounds -> SettlementType]
        /\ ledger \in [Rounds -> LedgerType]
    BY <2>1, <2>2, <2>3 DEF Init
  <2>5. entries \in [Rounds -> SUBSET Players] /\ balance \in [Vaults -> Nat]
    BY DEF Init
  <2>6. current_round \in 0..MaxRounds /\ vaults \subseteq Vaults
    BY BoundsAssumption DEF Init
  <2> QED BY <2>4, <2>5, <2>6 DEF Init, TypeOK
<1>2. TypeOK /\ [Next]_vars => TypeOK'
  <2> SUFFICES ASSUME TypeOK, [Next]_vars PROVE TypeOK'
    OBVIOUS
  <2> USE DEF TypeOK
  <2>1. ASSUME NEW b \in BOOLEAN, SetPaused(b) PROVE TypeOK'
    BY <2>1 DEF SetPaused
  <2>2. ASSUME NEW m \in Mints, set_sgd_mint(m) \/ update_sgd_mint(m) PROVE TypeOK'
    BY <2>2 DEF set_sgd_mint, update_sgd_mint
  <2>3. ASSUME open_round PROVE TypeOK'
    <3> DEFINE r == current_round + 1
    <3>1. r \in Rounds /\ sgd_mint \in Mints
      BY <2>3 DEF open_round
    <3>2. NewRound \in RoundType
      BY NewRoundType
    <3>3. current_round' \in 0..MaxRounds /\ round' \in [Rounds -> RoundType]
      BY <2>3, <3>1, <3>2 DEF open_round, Rounds
    <3>4. vaults' \subseteq Vaults
      BY <2>3, <3>1 DEF open_round, Vaults
    <3>5. ledger' \in [Rounds -> LedgerType]
      <4>1. [ledger[r] EXCEPT !.mint = sgd_mint] \in LedgerType
        BY <3>1, LedgerFields
      <4> HIDE DEF r
      <4> QED BY <2>3, <3>1, <4>1 DEF open_round, r
    <3> QED BY <2>3, <3>3, <3>4, <3>5 DEF open_round
  <2>4. ASSUME NEW r \in Rounds, NEW q \in Players, submit_entry(r, q) PROVE TypeOK'
    <3>1. <<sgd_mint, r>> \in Vaults
      BY <2>4, PinnedMint DEF submit_entry
    <3>2. balance' \in [Vaults -> Nat]
      BY <2>4, <3>1, FeeAssumption DEF submit_entry
    <3>3. round' \in [Rounds -> RoundType]
      <4>1. round[r].participant_count + 1 \in 0..Capacity
        BY <2>4, BoundsAssumption DEF submit_entry, accepting, RoundType
      <4> QED BY <2>4, <4>1 DEF submit_entry, RoundType
    <3>4. entries' \in [Rounds -> SUBSET Players]
      BY <2>4 DEF submit_entry
    <3> QED BY <2>4, <3>2, <3>3, <3>4 DEF submit_entry
  <2>5. ASSUME NEW r \in Rounds, NEW s \in {"authority", "operator"}, close_round(r, s)
        PROVE TypeOK'
    BY <2>5 DEF close_round, RoundType
  <2>6. ASSUME NEW r \in Rounds, finalize_round(r) PROVE TypeOK'
    BY <2>6 DEF finalize_round, RoundType
  <2>7. ASSUME NEW r \in Rounds, NEW top \in Tops(r), apply_bracket_result(r, top)
        PROVE TypeOK'
    <3>1. PICK n \in 1..3 : top \in [1..n -> entries[r]]
      BY <2>7 DEF Tops
    <3>2. entries[r] \subseteq Players /\ n \in 0..3
      BY <3>1
    <3>3. top \in [1..n -> Players]
      BY <3>1, <3>2
    <3>4. top \in Podium
      BY <3>2, <3>3 DEF Podium
    <3>5. [round[r] EXCEPT !.scoring_revealed = TRUE, !.top = top] \in RoundType
      <4> round[r] \in RoundType
        OBVIOUS
      <4> QED BY <3>4 DEF RoundType
    <3> QED BY <2>7, <3>5 DEF apply_bracket_result
  <2>8. ASSUME NEW r \in Rounds, Tick(r) PROVE TypeOK'
    <3>1. Len(Clock) = 4
      BY DEF Clock
    <3>2. round[r].clock + 1 \in 1..Len(Clock)
      BY <2>8, <3>1 DEF Tick, RoundType
    <3>3. [round[r] EXCEPT !.clock = @ + 1] \in RoundType
      <4> round[r] \in RoundType
        OBVIOUS
      <4> QED BY <3>2 DEF RoundType
    <3> QED BY <2>8, <3>3 DEF Tick
  <2>9. ASSUME NEW r \in Rounds, distribute_pot(r) PROVE TypeOK'
    <3> DEFINE v == <<sgd_mint, r>>
               top == round[r].top
               pot == balance[v]
    <3>1. v \in Vaults
      BY <2>9, PinnedMint DEF distribute_pot
    <3>2. pot \in Nat
      BY <3>1
    <3>3. top \in Podium
      BY DEF RoundType
    <3>4. Len(top) \in Nat /\ Prizes(top, pot) \in [Players -> Nat]
      <4> HIDE DEF top, pot
      <4> QED BY <3>2, <3>3, PrizesType
    <3>5. settlement[r] \in SettlementType /\ ledger[r] \in LedgerType
      OBVIOUS
    <3>6. CASE UNCHANGED <<balance, ledger>>
      <4>1. settlement' = [settlement EXCEPT ![r] = [@ EXCEPT !.state = "PAID"]]
            \/ settlement' = [settlement EXCEPT ![r] =
                 [@ EXCEPT !.state = "PAID", !.total_settled = pot,
                           !.recipient_count = Len(top)]]
        BY <2>9 DEF distribute_pot
      <4> HIDE DEF v, top, pot
      <4>2. [settlement[r] EXCEPT !.state = "PAID"] \in SettlementType
        BY <3>5 DEF SettlementType
      <4>3. [settlement[r] EXCEPT !.state = "PAID", !.total_settled = pot,
                                  !.recipient_count = Len(top)] \in SettlementType
        BY <3>2, <3>4, <3>5 DEF SettlementType
      <4>4. settlement' \in [Rounds -> SettlementType]
        BY <4>1, <4>2, <4>3
      <4> QED BY <2>9, <3>6, <4>4 DEF distribute_pot
    <3>7. CASE ~UNCHANGED <<balance, ledger>>
      <4>1. /\ settlement' = [settlement EXCEPT ![r] =
                 [@ EXCEPT !.state = "PAID", !.total_settled = pot,
                           !.recipient_count = Len(top)]]
            /\ balance' = [balance EXCEPT ![v] = 0]
            /\ ledger' = [ledger EXCEPT ![r] = [@ EXCEPT !.prize = Prizes(top, pot)]]
        BY <2>9, <3>7 DEF distribute_pot
      <4> HIDE DEF v, top, pot
      <4>2. [settlement[r] EXCEPT !.state = "PAID", !.total_settled = pot,
                                  !.recipient_count = Len(top)] \in SettlementType
        BY <3>2, <3>4, <3>5 DEF SettlementType
      <4>3. [ledger[r] EXCEPT !.prize = Prizes(top, pot)] \in LedgerType
        BY <3>4, <3>5 DEF LedgerType
      <4>4. settlement' \in [Rounds -> SettlementType] /\ ledger' \in [Rounds -> LedgerType]
        BY <4>1, <4>2, <4>3
      <4>5. balance' \in [Vaults -> Nat]
        BY <3>1, <4>1
      <4> QED BY <2>9, <4>4, <4>5 DEF distribute_pot
    <3> QED BY <3>6, <3>7
  <2>10. ASSUME NEW r \in Rounds, refund_unrevealed_pot(r) PROVE TypeOK'
    <3>1. refundable(r)
      BY <2>10 DEF refund_unrevealed_pot, refund_nothing, refund_first_batch,
                   refund_next_batch
    <3>2. sgd_mint \in Mints
      BY <3>1, PinnedMint DEF refundable
    <3>3. RefundTerms(r) \in SettlementType
      BY <3>2, RefundTermsType
    <3>4. CASE refund_nothing(r)
      <4>1. [RefundTerms(r) EXCEPT !.state = "REFUNDED"] \in SettlementType
        BY <3>3 DEF SettlementType
      <4> QED BY <3>4, <4>1 DEF refund_nothing
    <3>5. ASSUME NEW batch \in SUBSET entries[r], NEW last \in batch,
                 refund_first_batch(r, batch, last)
          PROVE TypeOK'
      BY <3>2, <3>3, <3>5, PayBatchType DEF refund_first_batch
    <3>6. ASSUME NEW batch \in SUBSET entries[r], NEW last \in batch,
                 refund_next_batch(r, batch, last)
          PROVE TypeOK'
      <4>1. settlement[r] \in SettlementType
        OBVIOUS
      <4> QED BY <3>2, <3>6, <4>1, PayBatchType DEF refund_next_batch
    <3> QED BY <2>10, <3>4, <3>5, <3>6 DEF refund_unrevealed_pot
  <2>11. ASSUME NEW r \in Rounds, close_pot_vault(r) PROVE TypeOK'
    <3> DEFINE v == <<sgd_mint, r>>
    <3>1. v \in Vaults /\ sgd_mint \in Mints
      BY <2>11, PinnedMint DEF close_pot_vault
    <3>2. ledger[r].swept[sgd_mint] + balance[v] \in Nat
      BY <3>1 DEF LedgerType
    <3>3. ledger' \in [Rounds -> LedgerType]
      <4> DEFINE f == [ledger[r].swept EXCEPT ![sgd_mint] = @ + balance[v]]
      <4>1. f \in [Mints -> Nat]
        BY <3>1, <3>2 DEF LedgerType
      <4>2. [ledger[r] EXCEPT !.swept = f] \in LedgerType
        BY <4>1, LedgerFields
      <4>3. ledger' = [ledger EXCEPT ![r] = [ledger[r] EXCEPT !.swept = f]]
        BY <2>11 DEF close_pot_vault
      <4> HIDE DEF f
      <4> QED BY <4>2, <4>3
    <3>4. balance' \in [Vaults -> Nat] /\ vaults' \subseteq Vaults
      BY <2>11, <3>1 DEF close_pot_vault
    <3> QED BY <2>11, <3>3, <3>4 DEF close_pot_vault
  <2>12. ASSUME NEW v \in Vaults, CreateVault(v) PROVE TypeOK'
    BY <2>12 DEF CreateVault
  <2>13. ASSUME NEW v \in Vaults, Donate(v) PROVE TypeOK'
    <3>1. PICK m \in Mints, r \in Rounds : v = <<m, r>>
      BY DEF Vaults
    <3> DEFINE given == ledger[r].donated[m] + 1
    <3>2. given \in 0..MaxDonated
      BY <2>13, <3>1, BoundsAssumption DEF Donate, LedgerType
    <3>3. ledger' = [ledger EXCEPT ![r].donated = [ledger[r].donated EXCEPT ![m] = given]]
      BY <2>13, <3>1 DEF Donate
    <3>4. ledger' \in [Rounds -> LedgerType]
      <4> HIDE DEF given
      <4>1. [ledger[r].donated EXCEPT ![m] = given] \in [Mints -> 0..MaxDonated]
        BY <3>2 DEF LedgerType
      <4>2. [ledger[r] EXCEPT !.donated = [ledger[r].donated EXCEPT ![m] = given]] \in LedgerType
        BY <4>1, LedgerFields
      <4> QED BY <3>3, <4>2
    <3>5. balance' \in [Vaults -> Nat]
      BY <2>13 DEF Donate
    <3> QED BY <2>13, <3>4, <3>5 DEF Donate
  <2>14. CASE UNCHANGED vars
    BY <2>14 DEF vars
  <2> QED BY <2>1, <2>2, <2>3, <2>4, <2>5, <2>6, <2>7, <2>8, <2>9, <2>10, <2>11,
             <2>12, <2>13, <2>14 DEF Next
<1> QED BY <1>1, <1>2, PTL DEF Spec

-----------------------------------------------------------------------------
(***************************************************************************)
(* The three things a step can do to round r's settlement and to the       *)
(* money its people have received.                                         *)
(***************************************************************************)
Untouched(r) ==
  /\ settlement'[r] = settlement[r]
  /\ ledger'[r].prize = ledger[r].prize
  /\ ledger'[r].refund = ledger[r].refund

Distributed(r) ==
  /\ settlement[r].state = "NONE"
  /\ settlement'[r].state = "PAID"
  /\ ledger'[r].refund = ledger[r].refund

RefundedSome(r) ==
  /\ settlement[r].state \in {"NONE", "PENDING"}
  /\ settlement'[r].state \in {"PENDING", "REFUNDED"}
  /\ ledger'[r].prize = ledger[r].prize

\* A batch of refunds belongs to a settlement that is not terminal.
LEMMA PayBatchKind ==
  ASSUME TypeOK, NEW q \in Rounds, NEW s \in SettlementType,
         settlement[q].state \in {"NONE", "PENDING"},
         NEW batch \in SUBSET entries[q], NEW last \in batch,
         PayBatch(q, s, batch, last),
         NEW r \in Rounds
  PROVE  Untouched(r) \/ RefundedSome(r)
<1>1. settlement \in [Rounds -> SettlementType] /\ ledger \in [Rounds -> LedgerType]
  BY DEF TypeOK
<1>2. CASE r # q
  BY <1>1, <1>2 DEF PayBatch, Untouched
<1>3. CASE r = q
  <2> DEFINE n == Cardinality(batch)
             count == s.recipient_count + n
  <2>1. settlement'[q] = [s EXCEPT !.state = refund_state(s, count),
                                   !.total_settled = @ + n * s.per_entrant,
                                   !.recipient_count = count, !.cursor = last]
    BY <1>1 DEF PayBatch
  <2>2. refund_state(s, count) \in {"PENDING", "REFUNDED"}
    BY DEF refund_state
  <2> HIDE DEF count, n
  <2>3. settlement'[q].state \in {"PENDING", "REFUNDED"}
    BY <2>1, <2>2 DEF SettlementType
  <2>4. ledger'[q].prize = ledger[q].prize
    BY <1>1 DEF PayBatch, LedgerType
  <2> QED BY <1>3, <2>3, <2>4 DEF RefundedSome
<1> QED BY <1>2, <1>3

LEMMA StepKinds ==
  ASSUME TypeOK, [Next]_vars, NEW r \in Rounds
  PROVE  Untouched(r) \/ Distributed(r) \/ RefundedSome(r)
<1>0. settlement \in [Rounds -> SettlementType] /\ ledger \in [Rounds -> LedgerType]
  BY DEF TypeOK
<1>1. CASE UNCHANGED <<settlement, ledger>>
  BY <1>1 DEF Untouched
<1>2. CASE open_round
  BY <1>0, <1>2 DEF open_round, Untouched, LedgerType
<1>3. ASSUME NEW q \in Rounds, close_pot_vault(q)
      PROVE  Untouched(r)
  <2> DEFINE swept == [ledger[q].swept EXCEPT ![sgd_mint] = @ + balance[<<sgd_mint, q>>]]
  <2>1. ledger' = [ledger EXCEPT ![q] = [@ EXCEPT !.swept = swept]]
    BY <1>3 DEF close_pot_vault
  <2> HIDE DEF swept
  <2> QED BY <1>0, <1>3, <2>1 DEF close_pot_vault, Untouched, LedgerType
<1>4. ASSUME NEW v \in Vaults, Donate(v)
      PROVE  Untouched(r)
  <2> DEFINE donated == [ledger[v[2]].donated EXCEPT ![v[1]] = @ + 1]
  <2>1. ledger' = [ledger EXCEPT ![v[2]] = [@ EXCEPT !.donated = donated]]
    BY <1>4 DEF Donate
  <2> HIDE DEF donated
  <2>2. v[2] \in Rounds
    BY DEF Vaults
  <2> QED BY <1>0, <1>4, <2>1, <2>2 DEF Donate, Untouched, LedgerType
<1>5. ASSUME NEW q \in Rounds, distribute_pot(q)
      PROVE  Untouched(r) \/ Distributed(r)
  <2>1. settlement[q].state = "NONE"
    BY <1>5 DEF distribute_pot, unspoken_for
  <2>2. CASE r # q
    BY <1>0, <1>5, <2>2 DEF distribute_pot, Untouched
  <2>3. CASE r = q
    <3>1. settlement'[q].state = "PAID"
      BY <1>0, <1>5 DEF distribute_pot, SettlementType
    <3>2. ledger'[q].refund = ledger[q].refund
      BY <1>0, <1>5 DEF distribute_pot, LedgerType
    <3> QED BY <2>1, <2>3, <3>1, <3>2 DEF Distributed
  <2> QED BY <2>2, <2>3
<1>6. ASSUME NEW q \in Rounds, refund_unrevealed_pot(q)
      PROVE  Untouched(r) \/ RefundedSome(r)
  <2>1. refundable(q)
    BY <1>6 DEF refund_unrevealed_pot, refund_nothing, refund_first_batch,
                refund_next_batch
  <2>2. RefundTerms(q) \in SettlementType
    BY <2>1, PinnedMint, RefundTermsType DEF refundable
  <2>3. CASE refund_nothing(q)
    <3>1. settlement[q].state = "NONE" /\ UNCHANGED ledger
      BY <2>3 DEF refund_nothing
    <3>2. r # q => settlement'[r] = settlement[r]
      BY <1>0, <2>3 DEF refund_nothing
    <3>3. settlement'[q].state = "REFUNDED"
      BY <1>0, <2>2, <2>3 DEF refund_nothing, SettlementType
    <3> QED BY <3>1, <3>2, <3>3 DEF Untouched, RefundedSome
  <2>4. ASSUME NEW batch \in SUBSET entries[q], NEW last \in batch,
               refund_first_batch(q, batch, last)
        PROVE  Untouched(r) \/ RefundedSome(r)
    BY <2>2, <2>4, PayBatchKind DEF refund_first_batch
  <2>5. ASSUME NEW batch \in SUBSET entries[q], NEW last \in batch,
               refund_next_batch(q, batch, last)
        PROVE  Untouched(r) \/ RefundedSome(r)
    BY <1>0, <2>5, PayBatchKind DEF refund_next_batch
  <2> QED BY <1>6, <2>3, <2>4, <2>5 DEF refund_unrevealed_pot
<1> QED
  BY <1>1, <1>2, <1>3, <1>4, <1>5, <1>6
  DEF Next, vars, SetPaused, set_sgd_mint, update_sgd_mint, submit_entry, close_round,
      finalize_round, apply_bracket_result, Tick, CreateVault

-----------------------------------------------------------------------------
\* What ties the money that has moved to the state that decides what may move.
Tied ==
  \A r \in Rounds :
    /\ Paid(r) # {} => settlement[r].state = "PAID"
    /\ Refunded(r) # {} => settlement[r].state \in {"PENDING", "REFUNDED"}

LEMMA TiedInv == Spec => []Tied
<1>1. Init => Tied
  BY DEF Init, Tied, Paid, Refunded, NewLedger
<1>2. TypeOK /\ Tied /\ [Next]_vars => Tied'
  <2> SUFFICES ASSUME TypeOK, Tied, [Next]_vars, NEW r \in Rounds
               PROVE  /\ Paid(r)' # {} => settlement'[r].state = "PAID"
                      /\ Refunded(r)' # {} =>
                           settlement'[r].state \in {"PENDING", "REFUNDED"}
    BY DEF Tied
  <2>1. CASE Untouched(r)
    BY <2>1 DEF Untouched, Tied, Paid, Refunded
  <2>2. CASE Distributed(r)
    BY <2>2 DEF Distributed, Tied, Paid, Refunded
  <2>3. CASE RefundedSome(r)
    BY <2>3 DEF RefundedSome, Tied, Paid, Refunded
  <2> QED BY <2>1, <2>2, <2>3, StepKinds
<1> QED BY <1>1, <1>2, TypeCorrect, PTL DEF Spec

\* PAID and REFUNDED are mutually exclusive in money, not only in the state
\* byte: no round ever both pays a winner and refunds an entrant, whatever
\* distributions, refund batches, late reveals and mint moves interleave.
THEOREM OneOutcome == Spec => []PaidOrRefunded
<1>1. Tied => PaidOrRefunded
  BY DEF Tied, PaidOrRefunded
<1> QED BY <1>1, TiedInv, PTL

\* Once a settlement is terminal no instruction changes it: neither a replayed
\* distribution nor a further refund batch (distribute_pot.rs state match,
\* refund_unrevealed_pot.rs state gate).
THEOREM NoReplay == Spec => SettledForGood
<1>1. TypeOK /\ [Next]_vars =>
        [\A r \in Rounds : is_terminal(settlement[r]) => settlement'[r] = settlement[r]]_vars
  BY StepKinds DEF Untouched, Distributed, RefundedSome, is_terminal
<1> QED BY <1>1, TypeCorrect, PTL DEF Spec, SettledForGood

-----------------------------------------------------------------------------
Own(r) == <<ledger[r].mint, r>>

\* Rounds follow one another; the one in progress has the mint of the config,
\* and no settlement before it is finalized.
Lifecycle ==
  \A r \in Rounds :
    /\ r > current_round => round[r].status = "NONE"
    /\ r <= current_round => round[r].status # "NONE"
    /\ r < current_round => round[r].status = "FINALIZED"
    /\ round[r].status = "NONE" => round[r].participant_count = 0
    /\ round[r].status # "NONE" => ledger[r].mint \in Mints
    /\ round[r].status \in {"OPEN", "CLOSED"} => ledger[r].mint = sgd_mint
    /\ round[r].status # "FINALIZED" => settlement[r].state = "NONE"
    /\ round[r].scoring_revealed =>
         /\ round[r].status \in {"CLOSED", "FINALIZED"}
         /\ round[r].participant_count > 0
         /\ Len(round[r].top) = WinnerCount(r)

-----------------------------------------------------------------------------
\* What a batch of refunds leaves alone, and that it writes one settlement.
LEMMA PayBatchFrame ==
  ASSUME TypeOK, NEW q \in Rounds, NEW s \in SettlementType,
         NEW batch \in SUBSET entries[q], NEW last \in batch,
         PayBatch(q, s, batch, last)
  PROVE  /\ UNCHANGED <<sgd_mint, current_round, round, entries, vaults>>
         /\ \A r \in Rounds : r # q => settlement'[r] = settlement[r]
         /\ \A r \in Rounds : /\ ledger'[r].mint = ledger[r].mint
                              /\ ledger'[r].swept = ledger[r].swept
                              /\ ledger'[r].donated = ledger[r].donated
<1>1. settlement \in [Rounds -> SettlementType] /\ ledger \in [Rounds -> LedgerType]
  BY DEF TypeOK
<1>2. \A r \in Rounds : r # q => settlement'[r] = settlement[r]
  BY <1>1 DEF PayBatch
<1>3. \A r \in Rounds : /\ ledger'[r].mint = ledger[r].mint
                        /\ ledger'[r].swept = ledger[r].swept
                        /\ ledger'[r].donated = ledger[r].donated
  BY <1>1 DEF PayBatch, LedgerType
<1> QED BY <1>2, <1>3 DEF PayBatch

\* A refund instruction touches a finalized round and no other.
LEMMA RefundFrame ==
  ASSUME TypeOK, NEW q \in Rounds, refund_unrevealed_pot(q)
  PROVE  /\ refundable(q) /\ sgd_mint \in Mints
         /\ UNCHANGED <<sgd_mint, current_round, round, entries, vaults>>
         /\ \A r \in Rounds : r # q => settlement'[r] = settlement[r]
         /\ \A r \in Rounds : /\ ledger'[r].mint = ledger[r].mint
                              /\ ledger'[r].swept = ledger[r].swept
                              /\ ledger'[r].donated = ledger[r].donated
<1>0. settlement \in [Rounds -> SettlementType]
  BY DEF TypeOK
<1>1. refundable(q)
  BY DEF refund_unrevealed_pot, refund_nothing, refund_first_batch, refund_next_batch
<1>2. sgd_mint \in Mints
  BY <1>1, PinnedMint DEF refundable
<1>3. RefundTerms(q) \in SettlementType
  BY <1>2, RefundTermsType
<1>4. CASE refund_nothing(q)
  BY <1>0, <1>1, <1>2, <1>4 DEF refund_nothing
<1>5. ASSUME NEW batch \in SUBSET entries[q], NEW last \in batch,
             PayBatch(q, RefundTerms(q), batch, last)
             \/ PayBatch(q, settlement[q], batch, last)
      PROVE  /\ UNCHANGED <<sgd_mint, current_round, round, entries, vaults>>
             /\ \A r \in Rounds : r # q => settlement'[r] = settlement[r]
             /\ \A r \in Rounds : /\ ledger'[r].mint = ledger[r].mint
                                  /\ ledger'[r].swept = ledger[r].swept
                                  /\ ledger'[r].donated = ledger[r].donated
  <2>1. CASE PayBatch(q, RefundTerms(q), batch, last)
    BY <1>3, <2>1, PayBatchFrame
  <2>2. CASE PayBatch(q, settlement[q], batch, last)
    BY <1>0, <2>2, PayBatchFrame
  <2> QED BY <1>5, <2>1, <2>2
<1> QED BY <1>1, <1>2, <1>4, <1>5 DEF refund_unrevealed_pot, refund_first_batch,
                                      refund_next_batch

\* A refund instruction pays out of one vault.
LEMMA BatchPays ==
  ASSUME TypeOK, NEW q \in Rounds, refund_unrevealed_pot(q)
  PROVE  \/ balance' = balance
         \/ \E x \in Int : balance' = [balance EXCEPT ![<<sgd_mint, q>>] = x]
<1> DEFINE v == <<sgd_mint, q>>
<1>1. /\ sgd_mint \in Mints /\ settlement[q] \in SettlementType
      /\ RefundTerms(q) \in SettlementType /\ v \in Vaults
  BY RefundFrame, RefundTermsType DEF TypeOK, Vaults
<1>2. ASSUME NEW s \in SettlementType, NEW batch \in SUBSET entries[q],
             NEW last \in batch, PayBatch(q, s, batch, last)
      PROVE  \E x \in Int : balance' = [balance EXCEPT ![v] = x]
  <2> DEFINE x == balance[v] - Cardinality(batch) * s.per_entrant
  <2>1. x \in Int
    BY <1>1, BatchCount, FeeAssumption DEF TypeOK, SettlementType
  <2>2. balance' = [balance EXCEPT ![v] = x]
    BY <1>2 DEF PayBatch
  <2> HIDE DEF x
  <2> QED BY <2>1, <2>2
<1>3. CASE refund_nothing(q)
  BY <1>3 DEF refund_nothing
<1>4. ASSUME NEW batch \in SUBSET entries[q], NEW last \in batch,
             refund_first_batch(q, batch, last) \/ refund_next_batch(q, batch, last)
      PROVE  \E x \in Int : balance' = [balance EXCEPT ![v] = x]
  <2>1. \E s \in {RefundTerms(q), settlement[q]} : PayBatch(q, s, batch, last)
    BY <1>4 DEF refund_first_batch, refund_next_batch
  <2> QED BY <1>1, <1>2, <2>1
<1> QED BY <1>3, <1>4 DEF refund_unrevealed_pot

\* A distribution touches a finalized round and no other.
LEMMA DistributeFrame ==
  ASSUME TypeOK, NEW q \in Rounds, distribute_pot(q)
  PROVE  /\ round[q].status = "FINALIZED" /\ sgd_mint \in Mints
         /\ UNCHANGED <<sgd_mint, current_round, round, entries, vaults>>
         /\ \A r \in Rounds : r # q => settlement'[r] = settlement[r]
         /\ \A r \in Rounds : /\ ledger'[r].mint = ledger[r].mint
                              /\ ledger'[r].swept = ledger[r].swept
                              /\ ledger'[r].donated = ledger[r].donated
<1>1. settlement \in [Rounds -> SettlementType] /\ ledger \in [Rounds -> LedgerType]
  BY DEF TypeOK
<1>2. \A r \in Rounds : r # q => settlement'[r] = settlement[r]
  BY <1>1 DEF distribute_pot
<1>3. \A r \in Rounds : /\ ledger'[r].mint = ledger[r].mint
                        /\ ledger'[r].swept = ledger[r].swept
                        /\ ledger'[r].donated = ledger[r].donated
  <2> DEFINE f == Prizes(round[q].top, balance[<<sgd_mint, q>>])
  <2>1. ledger' = ledger \/ ledger' = [ledger EXCEPT ![q] = [@ EXCEPT !.prize = f]]
    BY DEF distribute_pot
  <2> HIDE DEF f
  <2>2. CASE ledger' = ledger
    BY <2>2
  <2>3. CASE ledger' = [ledger EXCEPT ![q] = [@ EXCEPT !.prize = f]]
    BY <1>1, <2>3 DEF LedgerType
  <2> QED BY <2>1, <2>2, <2>3
<1>4. sgd_mint \in Mints
  BY PinnedMint DEF distribute_pot
<1> QED BY <1>2, <1>3, <1>4 DEF distribute_pot

\* Closing, finalizing, revealing and the clock move no money, and leave the
\* entrants of every round and its existence alone.
LEMMA RoundOnly ==
  ASSUME TypeOK, NEW q \in Rounds,
         \/ \E s \in {"authority", "operator"} : close_round(q, s)
         \/ finalize_round(q)
         \/ \E top \in Tops(q) : apply_bracket_result(q, top)
         \/ Tick(q)
  PROVE  /\ settlement' = settlement /\ balance' = balance /\ ledger' = ledger
         /\ sgd_mint' = sgd_mint
         /\ \A r \in Rounds :
              /\ round'[r].participant_count = round[r].participant_count
              /\ round[r].status = "NONE" => round'[r].status = "NONE"
              /\ round[r].status = "FINALIZED" => round'[r].status = "FINALIZED"
<1>1. round \in [Rounds -> RoundType]
  BY DEF TypeOK
<1>2. ASSUME NEW s \in {"authority", "operator"}, close_round(q, s)
      PROVE  /\ settlement' = settlement /\ balance' = balance /\ ledger' = ledger
             /\ sgd_mint' = sgd_mint
             /\ round' = [round EXCEPT ![q].status = "CLOSED"]
             /\ round[q].status = "OPEN"
  BY <1>2 DEF close_round
<1>3. CASE \E s \in {"authority", "operator"} : close_round(q, s)
  BY <1>1, <1>2, <1>3 DEF RoundType
<1>4. CASE finalize_round(q)
  BY <1>1, <1>4 DEF finalize_round, RoundType
<1>5. ASSUME NEW top \in Tops(q), apply_bracket_result(q, top)
      PROVE  /\ settlement' = settlement /\ balance' = balance /\ ledger' = ledger
             /\ sgd_mint' = sgd_mint
             /\ \A r \in Rounds : /\ round'[r].participant_count = round[r].participant_count
                                  /\ round'[r].status = round[r].status
  <2>1. round' = [round EXCEPT ![q] = [@ EXCEPT !.scoring_revealed = TRUE, !.top = top]]
    BY <1>1, <1>5 DEF apply_bracket_result, RoundType
  <2>2. \A r \in Rounds : /\ round'[r].participant_count = round[r].participant_count
                           /\ round'[r].status = round[r].status
    BY <1>1, <2>1 DEF RoundType
  <2> QED BY <1>5, <2>2 DEF apply_bracket_result
<1>6. CASE \E top \in Tops(q) : apply_bracket_result(q, top)
  BY <1>5, <1>6
<1>7. CASE Tick(q)
  BY <1>1, <1>7 DEF Tick, RoundType
<1> QED BY <1>3, <1>4, <1>6, <1>7

\* Only finalize_round finalizes.
LEMMA NotFinalized ==
  ASSUME TypeOK, NEW q \in Rounds, NEW r \in Rounds,
         \/ \E s \in {"authority", "operator"} : close_round(q, s)
         \/ \E top \in Tops(q) : apply_bracket_result(q, top)
         \/ Tick(q),
         round'[r].status = "FINALIZED"
  PROVE  round[r].status = "FINALIZED"
<1>1. round \in [Rounds -> RoundType]
  BY DEF TypeOK
<1>2. ASSUME NEW s \in {"authority", "operator"}, close_round(q, s)
      PROVE  round' = [round EXCEPT ![q] = [@ EXCEPT !.status = "CLOSED"]]
  BY <1>2 DEF close_round
<1>3. CASE \E s \in {"authority", "operator"} : close_round(q, s)
  BY <1>1, <1>2, <1>3 DEF RoundType
<1>4. ASSUME NEW top \in Tops(q), apply_bracket_result(q, top)
      PROVE  round'[r].status = round[r].status
  BY <1>1, <1>4 DEF apply_bracket_result, RoundType
<1>5. CASE Tick(q)
  BY <1>1, <1>5 DEF Tick, RoundType
<1> QED BY <1>3, <1>4, <1>5

-----------------------------------------------------------------------------
\* The order of rounds, and the mint of the one in progress (open_round,
\* update_sgd_mint and their guards on the current round).
LEMMA LifecycleInv == Spec => []Lifecycle
<1>1. Init => Lifecycle
  <2> SUFFICES ASSUME Init PROVE Lifecycle
    OBVIOUS
  <2>1. \A r \in Rounds : r > current_round
    BY DEF Init, Rounds
  <2>2. \A r \in Rounds : round[r] = NoRound /\ settlement[r] = NewSettlement
    BY DEF Init
  <2>3. /\ NoRound.status = "NONE" /\ NoRound.participant_count = 0
        /\ NoRound.scoring_revealed = FALSE
    BY DEF NoRound, NewRound
  <2>4. NewSettlement.state = "NONE"
    BY DEF NewSettlement
  <2>5. \A r \in Rounds : r \in Nat
    BY DEF Rounds
  <2>6. current_round = 0
    BY DEF Init
  <2> QED BY <2>1, <2>2, <2>3, <2>4, <2>5, <2>6 DEF Lifecycle
<1>2. TypeOK /\ Lifecycle /\ [Next]_vars => Lifecycle'
  <2> SUFFICES ASSUME TypeOK, Lifecycle, [Next]_vars PROVE Lifecycle'
    OBVIOUS
  <2>0. /\ round \in [Rounds -> RoundType] /\ settlement \in [Rounds -> SettlementType]
        /\ ledger \in [Rounds -> LedgerType] /\ current_round \in Nat
        /\ \A r \in Rounds : r \in Nat /\ r > 0
    BY BoundsAssumption DEF TypeOK, Rounds
  <2>1. ASSUME NEW m \in Mints, set_sgd_mint(m) PROVE Lifecycle'
    <3>1. \A r \in Rounds : round[r].status \notin {"OPEN", "CLOSED"}
      BY <2>1, MintsAssumption DEF Lifecycle, set_sgd_mint
    <3> QED BY <2>1, <3>1 DEF Lifecycle, set_sgd_mint, WinnerCount
  <2>2. ASSUME NEW m \in Mints, update_sgd_mint(m) PROVE Lifecycle'
    <3>1. \A r \in Rounds : round[r].status \notin {"OPEN", "CLOSED"}
      BY <2>0, <2>2 DEF Lifecycle, update_sgd_mint
    <3> QED BY <2>2, <3>1 DEF Lifecycle, update_sgd_mint, WinnerCount
  <2>3. ASSUME open_round PROVE Lifecycle'
    <3> DEFINE n == current_round + 1
    <3>1. /\ n \in Rounds /\ current_round' = n /\ sgd_mint \in Mints
          /\ UNCHANGED <<sgd_mint, settlement>>
          /\ round'[n] = NewRound /\ ledger'[n].mint = sgd_mint
          /\ settlement[n].state = "NONE"
      <4>1. sgd_mint \in Mints
        BY <2>3 DEF open_round, TypeOK
      <4>2. n > current_round
        BY <2>0
      <4>3. /\ n \in Rounds /\ current_round' = n /\ UNCHANGED <<sgd_mint, settlement>>
            /\ round' = [round EXCEPT ![n] = NewRound]
            /\ ledger' = [ledger EXCEPT ![n] = [@ EXCEPT !.mint = sgd_mint]]
        BY <2>3 DEF open_round
      <4> HIDE DEF n
      <4>4. round[n].status = "NONE" /\ settlement[n].state = "NONE"
        BY <2>0, <4>2, <4>3 DEF Lifecycle
      <4>5. round'[n] = NewRound /\ ledger'[n].mint = sgd_mint
        BY <2>0, <4>3 DEF LedgerType
      <4> QED BY <4>1, <4>3, <4>4, <4>5
    <3>2. \A r \in Rounds : r # n => round'[r] = round[r] /\ ledger'[r] = ledger[r]
      BY <2>0, <2>3 DEF open_round
    <3>3. \A r \in Rounds : r < n => round[r].status = "FINALIZED"
      BY <2>0, <2>3 DEF open_round, Lifecycle
    <3>4. \A r \in Rounds : r > n => round[r].status = "NONE"
      BY <2>0 DEF Lifecycle
    <3> SUFFICES ASSUME NEW r \in Rounds PROVE Lifecycle!(r)'
      BY DEF Lifecycle
    <3>5. CASE r = n
      BY <2>0, <3>1, <3>5 DEF NewRound
    <3>6. CASE r # n
      BY <2>0, <3>1, <3>2, <3>3, <3>4, <3>6 DEF Lifecycle, WinnerCount
    <3> QED BY <3>5, <3>6
  <2>4. ASSUME NEW q \in Rounds, NEW p \in Players, submit_entry(q, p) PROVE Lifecycle'
    BY <2>0, <2>4 DEF Lifecycle, submit_entry, accepting, RoundType, WinnerCount
  <2>5. ASSUME NEW q \in Rounds, NEW s \in {"authority", "operator"}, close_round(q, s)
        PROVE Lifecycle'
    BY <2>0, <2>5 DEF Lifecycle, close_round, RoundType, WinnerCount
  <2>6. ASSUME NEW q \in Rounds, finalize_round(q) PROVE Lifecycle'
    BY <2>0, <2>6 DEF Lifecycle, finalize_round, RoundType, WinnerCount
  <2>7. ASSUME NEW q \in Rounds, NEW top \in Tops(q), apply_bracket_result(q, top)
        PROVE Lifecycle'
    BY <2>0, <2>7 DEF Lifecycle, apply_bracket_result, RoundType, WinnerCount
  <2>8. ASSUME NEW q \in Rounds, Tick(q) PROVE Lifecycle'
    BY <2>0, <2>8 DEF Lifecycle, Tick, RoundType, WinnerCount
  <2>9. ASSUME NEW q \in Rounds, distribute_pot(q) PROVE Lifecycle'
    <3>1. /\ round[q].status = "FINALIZED"
          /\ UNCHANGED <<sgd_mint, current_round, round>>
          /\ \A r \in Rounds : r # q => settlement'[r] = settlement[r]
          /\ \A r \in Rounds : ledger'[r].mint = ledger[r].mint
      BY <2>9, DistributeFrame
    <3> QED BY <3>1 DEF Lifecycle, WinnerCount
  <2>10. ASSUME NEW q \in Rounds, refund_unrevealed_pot(q) PROVE Lifecycle'
    <3>1. /\ round[q].status = "FINALIZED"
          /\ UNCHANGED <<sgd_mint, current_round, round>>
          /\ \A r \in Rounds : r # q => settlement'[r] = settlement[r]
          /\ \A r \in Rounds : ledger'[r].mint = ledger[r].mint
      BY <2>10, RefundFrame DEF refundable
    <3> QED BY <3>1 DEF Lifecycle, WinnerCount
  <2>11. ASSUME NEW q \in Rounds, close_pot_vault(q) PROVE Lifecycle'
    <3>1. /\ UNCHANGED <<sgd_mint, current_round, round, settlement>>
          /\ \A r \in Rounds : ledger'[r].mint = ledger[r].mint
      BY <2>0, <2>11 DEF close_pot_vault, LedgerType
    <3> QED BY <3>1 DEF Lifecycle, WinnerCount
  <2>12. ASSUME NEW v \in Vaults, Donate(v) PROVE Lifecycle'
    <3>1. /\ UNCHANGED <<sgd_mint, current_round, round, settlement>>
          /\ \A r \in Rounds : ledger'[r].mint = ledger[r].mint
      BY <2>0, <2>12 DEF Donate, LedgerType
    <3> QED BY <3>1 DEF Lifecycle, WinnerCount
  <2>13. CASE UNCHANGED <<sgd_mint, current_round, round, settlement, ledger>>
    BY <2>13 DEF Lifecycle, WinnerCount
  <2> QED BY <2>1, <2>2, <2>3, <2>4, <2>5, <2>6, <2>7, <2>8, <2>9, <2>10, <2>11,
             <2>12, <2>13 DEF Next, vars, SetPaused, CreateVault
<1> QED BY <1>1, <1>2, TypeCorrect, PTL DEF Spec
-----------------------------------------------------------------------------
(***************************************************************************)
(* Solvent, and the bound on the cursor that makes it inductive.           *)
(***************************************************************************)
SolventFor(r) ==
  LET s == settlement[r]
      held == balance[Own(r)] IN
  /\ round[r].status # "NONE" /\ s.state = "NONE" =>
       held >= Fee * round[r].participant_count
  /\ s.state = "PENDING" =>
       /\ s.recipient_count <= s.entrant_count
       /\ held >= s.per_entrant * (s.entrant_count - s.recipient_count)

Backed == \A r \in Rounds : SolventFor(r)

\* A round whose settlement and entrants stay put stays solvent as long as its
\* vault does not lose anything.
LEMMA BackedByMore ==
  ASSUME TypeOK, Lifecycle, Backed, NEW r \in Rounds,
         settlement'[r] = settlement[r],
         round'[r].participant_count = round[r].participant_count,
         round[r].status = "NONE" => round'[r].status = "NONE",
         ledger'[r].mint = ledger[r].mint,
         round[r].status # "NONE" =>
           balance'[Own(r)] \in Nat /\ balance'[Own(r)] >= balance[Own(r)]
  PROVE  SolventFor(r)'
<1>1. /\ settlement[r] \in SettlementType /\ round[r] \in RoundType
      /\ Fee * round[r].participant_count \in Int
  BY FeeAssumption, BoundsAssumption DEF TypeOK, RoundType
<1>2. CASE round[r].status = "NONE"
  BY <1>1, <1>2 DEF Lifecycle, SolventFor
<1>3. CASE round[r].status # "NONE"
  <2>1. balance[Own(r)] \in Nat
    BY <1>3 DEF TypeOK, Lifecycle, Own, Vaults
  <2>2. Own(r)' = Own(r)
    BY DEF Own
  <2>3. SolventFor(r)
    BY DEF Backed
  <2> DEFINE owed == settlement[r].per_entrant
                       * (settlement[r].entrant_count - settlement[r].recipient_count)
  <2>4. owed \in Int
    BY <1>1, FeeAssumption DEF SettlementType
  <2> HIDE DEF owed
  <2>5. /\ settlement[r].state = "NONE" =>
             balance[Own(r)] >= Fee * round[r].participant_count
        /\ settlement[r].state = "PENDING" =>
             settlement[r].recipient_count <= settlement[r].entrant_count
             /\ balance[Own(r)] >= owed
    BY <1>3, <2>3 DEF SolventFor, owed
  <2>6. /\ settlement'[r].state = "NONE" =>
             balance'[Own(r)] >= Fee * round'[r].participant_count
        /\ settlement'[r].state = "PENDING" =>
             settlement'[r].recipient_count <= settlement'[r].entrant_count
             /\ balance'[Own(r)] >= owed
    BY <1>1, <1>3, <2>1, <2>4, <2>5
  <2> QED BY <2>2, <2>6 DEF SolventFor, owed
<1> QED BY <1>2, <1>3

\* The terms of a refund: at most the fee each, for every entrant.
LEMMA Terms ==
  ASSUME TypeOK, NEW r \in Rounds, sgd_mint \in Mints
  PROVE  /\ RefundTerms(r).entrant_count = round[r].participant_count
         /\ RefundTerms(r).recipient_count = 0
         /\ RefundTerms(r).per_entrant \in 0..Fee
<1>1. RefundTerms(r).per_entrant \in 0..Fee
  BY RefundTermsType DEF SettlementType
<1>2. RefundTerms(r).entrant_count = round[r].participant_count
      /\ RefundTerms(r).recipient_count = 0
  BY DEF RefundTerms
<1> QED BY <1>1, <1>2

\* A batch leaves in the round's own vault at least what is still owed, if it
\* was there before: another mint's vault may have paid for it.
LEMMA PayBatchSolvent ==
  ASSUME TypeOK, Lifecycle, NEW r \in Rounds, sgd_mint \in Mints,
         round[r].status # "NONE",
         NEW s \in SettlementType,
         s.recipient_count <= s.entrant_count,
         balance[Own(r)] >= s.per_entrant * (s.entrant_count - s.recipient_count),
         NEW batch \in SUBSET entries[r], NEW last \in batch,
         PayBatch(r, s, batch, last)
  PROVE  SolventFor(r)'
<1> DEFINE n == Cardinality(batch)
           count == s.recipient_count + n
           each == s.per_entrant
           paid == n * each
           v == <<sgd_mint, r>>
<1>1. /\ n \in Nat /\ each \in Nat /\ s.recipient_count \in Nat
      /\ s.entrant_count \in Nat /\ n <= s.entrant_count - s.recipient_count
  BY BatchCount, FeeAssumption DEF SettlementType, PayBatch
<1>2. /\ count \in Nat /\ count <= s.entrant_count /\ paid \in Nat
  BY <1>1
<1>3. /\ Own(r)' = Own(r) /\ Own(r) \in Vaults /\ v \in Vaults
      /\ balance[Own(r)] \in Nat /\ balance[v] \in Nat
  BY PayBatchFrame DEF Own, Lifecycle, TypeOK, Vaults
<1>4. /\ balance' = [balance EXCEPT ![v] = @ - paid]
      /\ settlement' = [settlement EXCEPT ![r] =
           [s EXCEPT !.state = refund_state(s, count), !.total_settled = @ + paid,
                     !.recipient_count = count, !.cursor = last]]
  BY DEF PayBatch
<1>5. /\ settlement'[r].state \in {"PENDING", "REFUNDED"}
      /\ settlement'[r].recipient_count = count
      /\ settlement'[r].entrant_count = s.entrant_count
      /\ settlement'[r].per_entrant = each
  <2>1. refund_state(s, count) \in {"PENDING", "REFUNDED"}
    BY DEF refund_state
  <2> HIDE DEF count, paid
  <2> QED BY <1>4, <2>1 DEF TypeOK, SettlementType
<1>6. balance'[Own(r)] \in Nat /\ balance'[Own(r)] >= balance[Own(r)] - paid
  <2> balance' \in [Vaults -> Nat]
    BY PayBatchType DEF TypeOK
  <2> HIDE DEF paid, v
  <2> QED BY <1>2, <1>3, <1>4 DEF TypeOK
<1>7. each * (s.entrant_count - count)
        = each * (s.entrant_count - s.recipient_count) - paid
  <2>1. \A a, b, c, d \in Nat : a * (b - (c + d)) = a * (b - c) - d * a
    BY SMT
  <2> HIDE DEF n, each
  <2> QED BY <1>1, <2>1
<1>8. each * (s.entrant_count - s.recipient_count) \in Int
  BY <1>1
<1>9. balance'[Own(r)] >= each * (s.entrant_count - count)
  <2> HIDE DEF paid, each, count
  <2> QED BY <1>2, <1>3, <1>6, <1>7, <1>8 DEF each
<1> HIDE DEF n, count, each, paid, v
<1> QED BY <1>2, <1>3, <1>5, <1>9 DEF SolventFor

\* Every round stays solvent: what one round's deposits, batches and sweep do to
\* its vault does not reach another's.
LEMMA BackedInv == Spec => []Backed
<1>1. Init => Backed
  <2> SUFFICES ASSUME Init, NEW r \in Rounds PROVE SolventFor(r)
    BY DEF Backed
  <2>1. NoRound.status = "NONE" /\ NewSettlement.state = "NONE"
    BY DEF NoRound, NewRound, NewSettlement
  <2> QED BY <2>1 DEF Init, SolventFor
<1>2. TypeOK /\ Lifecycle /\ Backed /\ [Next]_vars => Backed'
  <2> SUFFICES ASSUME TypeOK, Lifecycle, Backed, [Next]_vars, NEW r \in Rounds
               PROVE  SolventFor(r)'
    BY DEF Backed
  <2>0. /\ round \in [Rounds -> RoundType] /\ settlement \in [Rounds -> SettlementType]
        /\ ledger \in [Rounds -> LedgerType] /\ balance \in [Vaults -> Nat]
        /\ Fee \in Nat /\ round[r].participant_count \in Nat
    BY FeeAssumption, BoundsAssumption DEF TypeOK, RoundType
  <2>00. round[r].status # "NONE" => Own(r) \in Vaults
    BY DEF Lifecycle, Own, Vaults
  <2>1. ASSUME settlement'[r] = settlement[r],
               round'[r].participant_count = round[r].participant_count,
               round[r].status = "NONE" => round'[r].status = "NONE",
               ledger'[r].mint = ledger[r].mint,
               round[r].status # "NONE" =>
                 balance'[Own(r)] = balance[Own(r)]
        PROVE  SolventFor(r)'
    BY <2>0, <2>00, <2>1, BackedByMore
  <2>2. CASE open_round
    <3> DEFINE n == current_round + 1
    <3>1. n \in Rounds /\ settlement[n].state = "NONE"
      BY <2>2 DEF open_round, Lifecycle, TypeOK
    <3>2. CASE r # n
      BY <2>0, <2>1, <2>2, <3>2 DEF open_round
    <3>3. CASE r = n
      <4>1. /\ round'[r] = NewRound /\ settlement' = settlement /\ balance' = balance
            /\ sgd_mint \in Mints /\ ledger'[r].mint = sgd_mint
        BY <2>0, <2>2, <3>1, <3>3 DEF open_round, TypeOK, LedgerType
      <4>2. balance'[Own(r)'] \in Nat
        BY <2>0, <4>1 DEF Own, Vaults
      <4> QED BY <2>0, <3>1, <3>3, <4>1, <4>2 DEF SolventFor, NewRound
    <3> QED BY <3>2, <3>3
  <2>3. ASSUME NEW q \in Rounds, NEW p \in Players, submit_entry(q, p)
        PROVE  SolventFor(r)'
    <3>1. sgd_mint \in Mints /\ <<sgd_mint, q>> \in Vaults
      BY <2>3, PinnedMint DEF submit_entry
    <3>2. CASE r # q
      BY <2>0, <2>1, <2>3, <3>1, <3>2 DEF submit_entry, Own
    <3>3. CASE r = q
      <4>1. /\ round[r].status = "OPEN" /\ ledger[r].mint = sgd_mint
            /\ settlement[r].state = "NONE"
            /\ UNCHANGED <<settlement, ledger>>
        BY <2>3, <3>3 DEF submit_entry, accepting, Lifecycle
      <4>2. /\ round'[r].participant_count = round[r].participant_count + 1
            /\ balance'[Own(r)] = balance[Own(r)] + Fee
        BY <2>0, <2>3, <3>1, <3>3, <4>1 DEF submit_entry, Own, RoundType
      <4>3. balance[Own(r)] \in Nat
            /\ balance[Own(r)] >= Fee * round[r].participant_count
        BY <2>0, <2>00, <4>1 DEF Backed, SolventFor
      <4>4. \A a, b \in Nat : a * (b + 1) = a * b + a
        BY SMT
      <4>5. balance'[Own(r)] >= Fee * round'[r].participant_count
        <5> DEFINE b == balance[Own(r)]
                   c == round[r].participant_count
        <5>1. Fee * (c + 1) = Fee * c + Fee /\ Fee * c \in Nat
          BY <2>0, <4>4
        <5> QED BY <2>0, <4>2, <4>3, <5>1
      <4> QED BY <4>1, <4>5 DEF SolventFor, Own
    <3> QED BY <3>2, <3>3
  <2>4. ASSUME NEW q \in Rounds, distribute_pot(q) PROVE SolventFor(r)'
    <3>1. CASE r # q
      <4>1. balance'[Own(r)] = balance[Own(r)] \/ round[r].status = "NONE"
        <5>1. balance' = balance \/ balance' = [balance EXCEPT ![<<sgd_mint, q>>] = 0]
          BY <2>4 DEF distribute_pot
        <5> QED BY <2>0, <2>00, <3>1, <5>1 DEF Own
      <4> QED BY <2>1, <2>4, <3>1, <4>1, DistributeFrame
    <3>2. CASE r = q
      <4>1. settlement'[q].state = "PAID"
        BY <2>0, <2>4 DEF distribute_pot, SettlementType
      <4> QED BY <3>2, <4>1 DEF SolventFor
    <3> QED BY <3>1, <3>2
  <2>5. ASSUME NEW q \in Rounds, refund_unrevealed_pot(q) PROVE SolventFor(r)'
    <3>1. /\ round[q].status = "FINALIZED" /\ sgd_mint \in Mints
      BY <2>5, RefundFrame DEF refundable
    <3>2. CASE r # q
      <4>1. round[r].status # "NONE" => balance'[Own(r)] = balance[Own(r)]
        <5>1. balance' = balance
              \/ \E x \in Int : balance' = [balance EXCEPT ![<<sgd_mint, q>>] = x]
          BY <2>5, BatchPays
        <5> QED BY <2>0, <2>00, <3>2, <5>1 DEF Own
      <4> QED BY <2>1, <2>5, <3>2, <4>1, RefundFrame
    <3>3. CASE r = q
      <4>1. CASE refund_nothing(q)
        <5>1. settlement'[q].state = "REFUNDED"
          BY <2>0, <3>1, <4>1, RefundTermsType DEF refund_nothing, SettlementType
        <5> QED BY <3>3, <5>1 DEF SolventFor
      <4>2. ASSUME NEW batch \in SUBSET entries[q], NEW last \in batch,
                   refund_first_batch(q, batch, last)
            PROVE  SolventFor(r)'
        <5> DEFINE s == RefundTerms(q)
        <5>1. s \in SettlementType
          BY <3>1, RefundTermsType
        <5>2. /\ s.entrant_count = round[q].participant_count /\ s.recipient_count = 0
              /\ s.per_entrant \in 0..Fee
          BY <3>1, Terms
        <5>3. balance[Own(q)] \in Nat
              /\ balance[Own(q)] >= Fee * round[q].participant_count
          BY <2>0, <2>00, <3>1, <3>3, <4>2 DEF Backed, SolventFor, refund_first_batch
        <5>4. \A a, b, c \in Nat : a <= b => a * (c - 0) <= b * c
          BY SMT
        <5> HIDE DEF s
        <5>5. s.per_entrant * (s.entrant_count - s.recipient_count)
                <= Fee * round[q].participant_count
          BY <2>0, <3>3, <5>2, <5>4
        <5>6. balance[Own(q)] >= s.per_entrant * (s.entrant_count - s.recipient_count)
          <6>1. Fee * round[q].participant_count \in Nat
                /\ s.per_entrant * (s.entrant_count - s.recipient_count) \in Int
            BY <2>0, <3>3, <5>2
          <6> QED BY <5>3, <5>5, <6>1
        <5>7. s.recipient_count <= s.entrant_count
          BY <2>0, <3>3, <5>2
        <5>8. PayBatch(q, s, batch, last)
          BY <4>2 DEF s, refund_first_batch
        <5> QED BY <3>1, <3>3, <5>1, <5>6, <5>7, <5>8, PayBatchSolvent
      <4>3. ASSUME NEW batch \in SUBSET entries[q], NEW last \in batch,
                   refund_next_batch(q, batch, last)
            PROVE  SolventFor(r)'
        <5> DEFINE s == settlement[q]
        <5>1. s \in SettlementType /\ s.state = "PENDING"
          BY <2>0, <4>3 DEF refund_next_batch
        <5>2. s.recipient_count <= s.entrant_count
              /\ balance[Own(q)] >= s.per_entrant * (s.entrant_count - s.recipient_count)
          BY <5>1 DEF Backed, SolventFor
        <5>3. PayBatch(q, s, batch, last)
          BY <4>3 DEF refund_next_batch
        <5> HIDE DEF s
        <5> QED BY <3>1, <3>3, <5>1, <5>2, <5>3, PayBatchSolvent
      <4> QED BY <2>5, <4>1, <4>2, <4>3 DEF refund_unrevealed_pot
    <3> QED BY <3>2, <3>3
  <2>6. ASSUME NEW q \in Rounds, close_pot_vault(q) PROVE SolventFor(r)'
    <3>1. /\ ledger'[r].mint = ledger[r].mint /\ UNCHANGED <<settlement, round>>
          /\ balance' = [balance EXCEPT ![<<sgd_mint, q>>] = 0]
      BY <2>0, <2>6 DEF close_pot_vault, LedgerType
    <3>2. CASE r # q
      BY <2>0, <2>00, <2>1, <3>1, <3>2 DEF Own
    <3>3. CASE r = q
      <4>1. \/ settlement[r].state = "NONE" /\ round[r].participant_count = 0
               /\ round[r].status = "FINALIZED"
            \/ settlement[r].state \in {"PAID", "REFUNDED"}
        BY <2>6, <3>3 DEF close_pot_vault, vault_closable, is_terminal
      <4>2. CASE settlement[r].state \in {"PAID", "REFUNDED"}
        BY <3>1, <4>2 DEF SolventFor
      <4>3. CASE settlement[r].state = "NONE" /\ round[r].participant_count = 0
                 /\ round[r].status = "FINALIZED"
        <5>1. balance'[Own(r)] >= 0
          BY <2>0, <2>00, <3>1, <4>3
        <5>2. Own(r)' = Own(r)
          BY <3>1 DEF Own
        <5> QED BY <2>0, <3>1, <4>3, <5>1, <5>2 DEF SolventFor
      <4> QED BY <4>1, <4>2, <4>3
    <3> QED BY <3>2, <3>3
  <2>7. ASSUME NEW v \in Vaults, Donate(v) PROVE SolventFor(r)'
    <3>1. /\ ledger'[r].mint = ledger[r].mint /\ UNCHANGED <<settlement, round>>
          /\ balance' = [balance EXCEPT ![v] = @ + 1]
      BY <2>0, <2>7 DEF Donate, LedgerType
    <3>2. round[r].status # "NONE" =>
            balance'[Own(r)] \in Nat /\ balance'[Own(r)] >= balance[Own(r)]
      BY <2>0, <2>00, <3>1
    <3> QED BY <3>1, <3>2, BackedByMore
  <2>8. ASSUME NEW q \in Rounds,
               \/ \E s \in {"authority", "operator"} : close_round(q, s)
               \/ finalize_round(q)
               \/ \E top \in Tops(q) : apply_bracket_result(q, top)
               \/ Tick(q)
        PROVE  SolventFor(r)'
    BY <2>1, <2>8, RoundOnly
  <2>9. CASE UNCHANGED <<round, settlement, balance, ledger>>
    BY <2>1, <2>9
  <2> QED BY <2>2, <2>3, <2>4, <2>5, <2>6, <2>7, <2>8, <2>9
      DEF Next, vars, SetPaused, set_sgd_mint, update_sgd_mint, CreateVault
<1> QED BY <1>1, <1>2, TypeCorrect, LifecycleInv, PTL DEF Spec

\* What is still owed out of a round's pot is always in the vault its entrants
\* paid into, so no refund batch fails with PotTooSmall and no fee is spent on
\* anything else while nothing is decided: for every number of rounds, mints and
\* entrants, mint moves included (submit_entry, refund_unrevealed_pot,
\* close_pot_vault).
THEOREM SolventAlways == Spec => []Solvent
<1>1. Backed => Solvent
  BY DEF Backed, SolventFor, Solvent, Own
<1> QED BY <1>1, BackedInv, PTL

-----------------------------------------------------------------------------
(***************************************************************************)
(* What the sweep takes.  update_sgd_mint looks at the current round only, *)
(* so it may leave an older round's money under a mint the config no       *)
(* longer names; the condition under which that never happens:             *)
(***************************************************************************)
InPlay(r) == round[r].participant_count > 0 /\ ~is_terminal(settlement[r])

MintMovesWhenSettled ==
  [][sgd_mint' # sgd_mint => \A r \in Rounds : ~InPlay(r)]_vars

Unsettled(r) == round[r].status # "FINALIZED" \/ InPlay(r)

\* The entrants' money a vault of round r under mint m still holds.
Owing(r, m) ==
  LET s == settlement[r] IN
  IF m # ledger[r].mint THEN 0
  ELSE IF s.state = "NONE" THEN Fee * round[r].participant_count
  ELSE Fee * (s.entrant_count - s.recipient_count)

\* A round's books: until it is settled its vaults hold exactly what was given
\* and what is owed; from then on no more than what was given and not swept.
Books(r) ==
  /\ InPlay(r) => ledger[r].mint = sgd_mint
  /\ settlement[r].state = "PENDING" =>
       /\ round[r].participant_count > 0
       /\ settlement[r].entrant_count = round[r].participant_count
       /\ settlement[r].per_entrant = Fee
       /\ settlement[r].recipient_count <= settlement[r].entrant_count
  /\ Unsettled(r) =>
       \A m \in Mints : /\ ledger[r].swept[m] = 0
                        /\ balance[<<m, r>>] = ledger[r].donated[m] + Owing(r, m)
  /\ ~Unsettled(r) =>
       \A m \in Mints : balance[<<m, r>>] + ledger[r].swept[m] <= ledger[r].donated[m]

AllBooks == \A r \in Rounds : Books(r)

\* The books of a round no step of which moves anything stay as they are.
LEMMA BooksFrame ==
  ASSUME NEW r \in Rounds, Books(r),
         settlement'[r] = settlement[r],
         round'[r].participant_count = round[r].participant_count,
         round'[r].status = "FINALIZED" <=> round[r].status = "FINALIZED",
         ledger'[r].mint = ledger[r].mint,
         ledger'[r].swept = ledger[r].swept,
         ledger'[r].donated = ledger[r].donated,
         \A m \in Mints : balance'[<<m, r>>] = balance[<<m, r>>],
         InPlay(r) => sgd_mint' = sgd_mint
  PROVE  Books(r)'
<1>1. /\ InPlay(r)' <=> InPlay(r)
      /\ Unsettled(r)' <=> Unsettled(r)
  BY DEF InPlay, Unsettled, is_terminal
<1>2. \A m \in Mints : Owing(r, m)' = Owing(r, m)
  BY DEF Owing
<1> QED BY <1>1, <1>2 DEF Books

\* A pot that holds every fee affords every refund in full.
LEMMA FeeAffordable ==
  ASSUME NEW n \in Nat \ {0}, NEW fee \in Nat, NEW pot \in Nat, pot >= fee * n
  PROVE  pot \div n >= fee
<1> DEFINE q == pot \div n
<1>1. \A a \in Nat, b \in Nat \ {0} : a \div b \in Nat /\ a < (a \div b) * b + b
  BY SMT
<1>2. q \in Nat /\ pot < q * n + n
  BY <1>1
<1>3. \A a, b, c \in Nat : a + 1 <= b => a * c + c <= b * c
  BY SMT
<1> HIDE DEF q
<1>4. ASSUME q < fee PROVE FALSE
  <2>1. q * n + n <= fee * n
    BY <1>2, <1>3, <1>4
  <2>2. q * n \in Nat /\ fee * n \in Nat
    BY <1>2
  <2> QED BY <1>2, <2>1, <2>2
<1> QED BY <1>2, <1>4 DEF q

\* A round in play is refunded the whole fee each.
LEMMA TermsInPlay ==
  ASSUME TypeOK, NEW r \in Rounds, sgd_mint \in Mints, Books(r), InPlay(r),
         settlement[r].state = "NONE"
  PROVE  RefundTerms(r).per_entrant = Fee
<1> DEFINE n == round[r].participant_count
           pot == balance[<<sgd_mint, r>>]
<1>1. n \in Nat \ {0} /\ Fee \in Nat /\ pot \in Nat
  BY FeeAssumption, BoundsAssumption DEF TypeOK, RoundType, InPlay, Vaults
<1>2. pot >= Fee * n
  <2>1. ledger[r].mint = sgd_mint /\ Unsettled(r)
    BY DEF Books, Unsettled
  <2>2. pot = ledger[r].donated[sgd_mint] + Fee * n
    BY <2>1 DEF Books, Owing
  <2>3. ledger[r].donated[sgd_mint] \in Nat
    BY BoundsAssumption DEF TypeOK, LedgerType
  <2>4. Fee * n \in Nat
    BY <1>1
  <2> QED BY <2>2, <2>3, <2>4
<1> HIDE DEF n, pot
<1>3. pot \div n >= Fee /\ pot \div n \in Nat
  BY <1>1, <1>2, FeeAffordable
<1>4. RefundTerms(r).per_entrant =
        (IF (IF n = 0 THEN 0 ELSE pot \div n) < Fee
         THEN (IF n = 0 THEN 0 ELSE pot \div n) ELSE Fee)
  BY DEF RefundTerms, n, pot
<1> QED BY <1>1, <1>3, <1>4

\* A batch of a round in play pays the whole fee each, out of its own vault.
LEMMA PayBatchBooks ==
  ASSUME TypeOK, Lifecycle, NEW r \in Rounds, Books(r), InPlay(r),
         round[r].status = "FINALIZED", sgd_mint \in Mints,
         NEW s \in SettlementType,
         s.per_entrant = Fee,
         s.entrant_count = round[r].participant_count,
         s.recipient_count <= s.entrant_count,
         Owing(r, ledger[r].mint) = Fee * (s.entrant_count - s.recipient_count),
         NEW batch \in SUBSET entries[r], NEW last \in batch,
         PayBatch(r, s, batch, last)
  PROVE  Books(r)'
<1> DEFINE n == Cardinality(batch)
           count == s.recipient_count + n
           paid == n * Fee
           v == <<sgd_mint, r>>
           owed == Fee * (s.entrant_count - s.recipient_count)
           left == Fee * (s.entrant_count - count)
<1>1. /\ n \in Nat /\ Fee \in Nat /\ s.recipient_count \in Nat
      /\ s.entrant_count \in Nat /\ n <= s.entrant_count - s.recipient_count
      /\ round[r].participant_count > 0
  BY BatchCount, FeeAssumption DEF SettlementType, PayBatch, InPlay
<1>2. /\ count \in Nat /\ count <= s.entrant_count /\ paid \in Nat
      /\ owed \in Nat /\ left \in Nat
  BY <1>1
<1>3. left = owed - paid
  <2>1. \A a, b, c, d \in Nat : a * (b - (c + d)) = a * (b - c) - d * a
    BY SMT
  <2> HIDE DEF n
  <2> QED BY <1>1, <2>1
<1>4. /\ balance' = [balance EXCEPT ![v] = @ - paid]
      /\ settlement' = [settlement EXCEPT ![r] =
           [s EXCEPT !.state = refund_state(s, count), !.total_settled = @ + paid,
                     !.recipient_count = count, !.cursor = last]]
      /\ UNCHANGED <<round, sgd_mint>>
  BY DEF PayBatch
<1>5. /\ settlement'[r].state = IF count = s.entrant_count THEN "REFUNDED" ELSE "PENDING"
      /\ settlement'[r].recipient_count = count
      /\ settlement'[r].entrant_count = s.entrant_count
      /\ settlement'[r].per_entrant = Fee
  <2>1. refund_state(s, count) = IF count = s.entrant_count THEN "REFUNDED" ELSE "PENDING"
    BY DEF refund_state
  <2> HIDE DEF count, paid
  <2> QED BY <1>4, <2>1 DEF TypeOK, SettlementType
<1>6. /\ ledger'[r].mint = ledger[r].mint /\ ledger'[r].swept = ledger[r].swept
      /\ ledger'[r].donated = ledger[r].donated
  BY PayBatchFrame
<1>7. ledger[r].mint = sgd_mint /\ Unsettled(r)
  BY DEF Books, Unsettled
<1>8. ASSUME NEW m \in Mints
      PROVE  /\ ledger'[r].swept[m] = 0
             /\ balance'[<<m, r>>] = ledger'[r].donated[m]
                                      + (IF m = sgd_mint THEN left ELSE 0)
             /\ ledger'[r].donated[m] \in Nat
  <2>1. /\ ledger[r].swept[m] = 0
        /\ balance[<<m, r>>] = ledger[r].donated[m]
                                + (IF m = sgd_mint THEN owed ELSE 0)
    <3>1. Owing(r, m) = IF m = sgd_mint THEN owed ELSE 0
      BY <1>7 DEF Owing
    <3> HIDE DEF owed
    <3> QED BY <1>7, <3>1 DEF Books
  <2>2. ledger[r].donated[m] \in Nat /\ <<m, r>> \in Vaults /\ v \in Vaults
    BY BoundsAssumption DEF TypeOK, LedgerType, Vaults
  <2>3. balance'[<<m, r>>] = balance[<<m, r>>] - (IF m = sgd_mint THEN paid ELSE 0)
    <3>1. balance \in [Vaults -> Nat]
      BY DEF TypeOK
    <3> HIDE DEF paid
    <3> QED BY <1>4, <2>2, <3>1
  <2> HIDE DEF paid, owed, left
  <2> QED BY <1>2, <1>3, <1>6, <2>1, <2>2, <2>3
<1> HIDE DEF n, count, paid, v, owed
<1>9. CASE count = s.entrant_count
  <2>1. left = 0
    <3>1. \A a, b \in Nat : a * (b - b) = 0
      BY SMT
    <3> QED BY <1>1, <1>9, <3>1
  <2>2. /\ settlement'[r].state = "REFUNDED" /\ ~InPlay(r)' /\ ~Unsettled(r)'
    BY <1>4, <1>5, <1>9 DEF InPlay, Unsettled, is_terminal
  <2> HIDE DEF left
  <2>3. \A m \in Mints : balance'[<<m, r>>] + ledger'[r].swept[m] <= ledger'[r].donated[m]
    BY <1>8, <2>1
  <2> QED BY <2>2, <2>3 DEF Books
<1>10. CASE count # s.entrant_count
  <2>1. /\ settlement'[r].state = "PENDING" /\ InPlay(r)' /\ Unsettled(r)'
    BY <1>1, <1>4, <1>5, <1>10 DEF InPlay, Unsettled, is_terminal
  <2>2. \A m \in Mints : Owing(r, m)' = IF m = sgd_mint THEN left ELSE 0
    BY <1>5, <1>6, <1>7, <2>1 DEF Owing
  <2> HIDE DEF left
  <2>3. \A m \in Mints : /\ ledger'[r].swept[m] = 0
                         /\ balance'[<<m, r>>] = ledger'[r].donated[m] + Owing(r, m)'
    BY <1>8, <2>2
  <2>4. ledger'[r].mint = sgd_mint'
    BY <1>4, <1>6, <1>7
  <2> QED BY <1>1, <1>2, <1>4, <1>5, <2>1, <2>3, <2>4 DEF Books
<1> QED BY <1>9, <1>10

\* A distribution of a round in play empties its vault into its winners' hands.
LEMMA DistributeBooks ==
  ASSUME TypeOK, Lifecycle, NEW r \in Rounds, Books(r), distribute_pot(r)
  PROVE  Books(r)'
<1> DEFINE v == <<sgd_mint, r>>
           k == Len(round[r].top)
<1>1. /\ sgd_mint \in Mints /\ v \in Vaults /\ UNCHANGED <<sgd_mint, round>>
      /\ ledger'[r].mint = ledger[r].mint /\ ledger'[r].swept = ledger[r].swept
      /\ ledger'[r].donated = ledger[r].donated
      /\ round[r].status = "FINALIZED"
  BY DistributeFrame DEF Vaults
<1>2. /\ settlement[r].state = "NONE" /\ round[r].scoring_revealed
      /\ settlement'[r].state = "PAID"
  <2>1. settlement \in [Rounds -> SettlementType]
    BY DEF TypeOK
  <2>2. settlement'[r].state = "PAID"
    BY <2>1 DEF distribute_pot, SettlementType
  <2> QED BY <2>2 DEF distribute_pot, unspoken_for
<1>3. /\ round[r].participant_count \in Nat \ {0} /\ k \in 1..3
      /\ Fee \in Nat \ {0}
  <2>1. round[r].participant_count \in Nat
    BY BoundsAssumption DEF TypeOK, RoundType
  <2>2. round[r].participant_count > 0 /\ k = WinnerCount(r)
    BY <1>2 DEF Lifecycle
  <2> QED BY <2>1, <2>2, FeeAssumption DEF WinnerCount
<1>4. InPlay(r) /\ Unsettled(r) /\ ledger[r].mint = sgd_mint
  BY <1>2, <1>3 DEF InPlay, Unsettled, is_terminal, Books
<1>5. /\ \A m \in Mints :
           /\ ledger[r].swept[m] = 0
           /\ ledger[r].donated[m] \in Nat
           /\ m # sgd_mint => balance[<<m, r>>] = ledger[r].donated[m]
      /\ balance[v] # 0
  <2>1. \A m \in Mints : ledger[r].donated[m] \in Nat
    BY BoundsAssumption DEF TypeOK, LedgerType
  <2>2. \A m \in Mints : m # sgd_mint => Owing(r, m) = 0
    BY <1>4 DEF Owing
  <2>3. Owing(r, sgd_mint) = Fee * round[r].participant_count
    BY <1>2, <1>4 DEF Owing
  <2>4. \A a, b \in Nat \ {0} : a * b \in Nat /\ a * b > 0
    BY SMT
  <2>5. Owing(r, sgd_mint) \in Nat /\ Owing(r, sgd_mint) > 0
    BY <1>3, <2>3, <2>4
  <2> QED BY <1>1, <1>4, <2>1, <2>2, <2>5 DEF Books
<1>6. balance' = [balance EXCEPT ![v] = 0]
  <2>1. \/ k = 0 \/ balance[v] = 0
        \/ balance' = [balance EXCEPT ![v] = 0]
    BY DEF distribute_pot
  <2> HIDE DEF k, v
  <2>2. k # 0
    BY <1>3
  <2> QED BY <1>5, <2>1, <2>2
<1> HIDE DEF k
<1>7. \A m \in Mints : balance'[<<m, r>>] + ledger'[r].swept[m] <= ledger'[r].donated[m]
  <2>1. balance \in [Vaults -> Nat]
    BY DEF TypeOK
  <2>2. ASSUME NEW m \in Mints, m = sgd_mint
        PROVE  balance'[<<m, r>>] = 0
    BY <1>1, <1>6, <2>1, <2>2
  <2>3. ASSUME NEW m \in Mints, m # sgd_mint
        PROVE  balance'[<<m, r>>] = ledger[r].donated[m]
    <3>1. <<m, r>> \in Vaults /\ <<m, r>> # v
      BY <2>3 DEF Vaults
    <3>2. balance'[<<m, r>>] = balance[<<m, r>>]
      BY <1>6, <2>1, <3>1
    <3> QED BY <1>5, <2>3, <3>2
  <2>4. ASSUME NEW m \in Mints
        PROVE  /\ balance'[<<m, r>>] <= ledger[r].donated[m]
               /\ balance'[<<m, r>>] \in Nat
    BY <1>5, <2>2, <2>3
  <2> QED BY <1>1, <1>5, <2>4
<1>8. ~InPlay(r)' /\ ~Unsettled(r)'
  BY <1>1, <1>2 DEF InPlay, Unsettled, is_terminal
<1> QED BY <1>2, <1>7, <1>8 DEF Books

\* The books are kept by every step, if the mint moves only between settled
\* rounds.
LEMMA BooksStep ==
  ASSUME TypeOK, Lifecycle, AllBooks, [Next]_vars,
         sgd_mint' # sgd_mint => \A q \in Rounds : ~InPlay(q),
         NEW r \in Rounds
  PROVE  Books(r)'
<1>0. /\ round \in [Rounds -> RoundType] /\ settlement \in [Rounds -> SettlementType]
      /\ ledger \in [Rounds -> LedgerType] /\ balance \in [Vaults -> Nat]
      /\ Fee \in Nat /\ round[r].participant_count \in Nat
      /\ \A m \in Mints : <<m, r>> \in Vaults /\ ledger[r].donated[m] \in Nat
                                            /\ ledger[r].swept[m] \in Nat
  BY FeeAssumption, BoundsAssumption DEF TypeOK, RoundType, LedgerType, Vaults
<1>1. Books(r)
  BY DEF AllBooks
<1>2. ASSUME settlement'[r] = settlement[r],
             round'[r].participant_count = round[r].participant_count,
             round'[r].status = "FINALIZED" <=> round[r].status = "FINALIZED",
             ledger'[r].mint = ledger[r].mint,
             ledger'[r].swept = ledger[r].swept,
             ledger'[r].donated = ledger[r].donated,
             \A m \in Mints : balance'[<<m, r>>] = balance[<<m, r>>]
      PROVE  Books(r)'
  <2>1. InPlay(r) => sgd_mint' = sgd_mint
    OBVIOUS
  <2> QED BY <1>1, <1>2, <2>1, BooksFrame
<1>3. CASE open_round
  <2> DEFINE n == current_round + 1
  <2>1. n \in Rounds /\ round[n].status = "NONE" /\ sgd_mint \in Mints
    BY <1>3 DEF open_round, Lifecycle, TypeOK
  <2>2. CASE r # n
    BY <1>0, <1>2, <1>3, <2>2 DEF open_round
  <2>3. CASE r = n
    <3>1. /\ round'[r] = NewRound /\ settlement'[r] = settlement[r] /\ balance' = balance
          /\ ledger'[r].swept = ledger[r].swept /\ ledger'[r].donated = ledger[r].donated
      BY <1>0, <1>3, <2>1, <2>3 DEF open_round, LedgerType
    <3>2. settlement[r].state = "NONE" /\ round[r].participant_count = 0
      BY <2>1, <2>3 DEF Lifecycle
    <3>3. \A m \in Mints : Owing(r, m) = 0 /\ Owing(r, m)' = 0
      BY <1>0, <3>1, <3>2 DEF Owing, NewRound
    <3>4. ~InPlay(r)' /\ Unsettled(r)' /\ Unsettled(r)
      BY <2>1, <2>3, <3>1 DEF InPlay, Unsettled, NewRound
    <3> QED BY <1>1, <3>1, <3>2, <3>3, <3>4 DEF Books
  <2> QED BY <2>2, <2>3
<1>4. ASSUME NEW q \in Rounds, NEW p \in Players, submit_entry(q, p)
      PROVE  Books(r)'
  <2>1. sgd_mint \in Mints /\ <<sgd_mint, q>> \in Vaults
    BY <1>4, PinnedMint DEF submit_entry
  <2>2. CASE r # q
    BY <1>0, <1>2, <1>4, <2>2 DEF submit_entry
  <2>3. CASE r = q
    <3>1. /\ round[r].status = "OPEN" /\ ledger[r].mint = sgd_mint
          /\ settlement[r].state = "NONE"
          /\ UNCHANGED <<sgd_mint, settlement, ledger>>
      BY <1>4, <2>3 DEF submit_entry, accepting, Lifecycle
    <3>2. /\ round'[r].participant_count = round[r].participant_count + 1
          /\ round'[r].status = "OPEN"
          /\ balance' = [balance EXCEPT ![<<sgd_mint, r>>] = @ + Fee]
      BY <1>0, <1>4, <2>3, <3>1 DEF submit_entry, RoundType
    <3>3. \A a, b \in Nat : a * (b + 1) = a * b + a /\ a * b \in Nat
      BY SMT
    <3>4. /\ Owing(r, sgd_mint) = Fee * round[r].participant_count
          /\ Owing(r, sgd_mint)' = Fee * round[r].participant_count + Fee
          /\ \A m \in Mints : m # sgd_mint => Owing(r, m) = 0 /\ Owing(r, m)' = 0
      BY <1>0, <3>1, <3>2, <3>3 DEF Owing
    <3>5. /\ Unsettled(r) /\ Unsettled(r)'
          /\ \A m \in Mints : /\ ledger[r].swept[m] = 0
                               /\ balance[<<m, r>>] = ledger[r].donated[m] + Owing(r, m)
      BY <1>1, <3>1, <3>2 DEF Unsettled, Books
    <3>6. ASSUME NEW m \in Mints
          PROVE  balance'[<<m, r>>] = ledger'[r].donated[m] + Owing(r, m)'
      <4> DEFINE fees == Fee * round[r].participant_count
      <4>1. fees \in Nat
        BY <1>0, <3>3
      <4> HIDE DEF fees
      <4>2. CASE m = sgd_mint
        BY <1>0, <3>1, <3>2, <3>4, <3>5, <4>1, <4>2 DEF fees
      <4>3. CASE m # sgd_mint
        <5>1. balance'[<<m, r>>] = balance[<<m, r>>]
          BY <1>0, <3>2, <4>3
        <5> QED BY <3>1, <3>4, <3>5, <4>3, <5>1
      <4> QED BY <4>2, <4>3
    <3> QED BY <3>1, <3>5, <3>6 DEF Books
  <2> QED BY <2>2, <2>3
<1>5. ASSUME NEW q \in Rounds, distribute_pot(q) PROVE Books(r)'
  <2>1. CASE r # q
    <3>1. \A m \in Mints : balance'[<<m, r>>] = balance[<<m, r>>]
      <4>1. balance' = balance \/ balance' = [balance EXCEPT ![<<sgd_mint, q>>] = 0]
        BY <1>5 DEF distribute_pot
      <4> QED BY <1>0, <2>1, <4>1
    <3> QED BY <1>2, <1>5, <2>1, <3>1, DistributeFrame
  <2>2. CASE r = q
    BY <1>1, <1>5, <2>2, DistributeBooks
  <2> QED BY <2>1, <2>2
<1>6. ASSUME NEW q \in Rounds, refund_unrevealed_pot(q) PROVE Books(r)'
  <2>1. /\ round[q].status = "FINALIZED" /\ sgd_mint \in Mints
        /\ RefundTerms(q) \in SettlementType
    BY <1>6, RefundFrame, RefundTermsType DEF refundable
  <2>2. CASE r # q
    <3>1. \A m \in Mints : balance'[<<m, r>>] = balance[<<m, r>>]
      <4>1. balance' = balance
            \/ \E x \in Int : balance' = [balance EXCEPT ![<<sgd_mint, q>>] = x]
        BY <1>6, BatchPays
      <4> QED BY <1>0, <2>2, <4>1
    <3> QED BY <1>2, <1>6, <2>2, <3>1, RefundFrame
  <2>3. CASE r = q
    <3>1. CASE refund_nothing(q)
      <4>1. ~InPlay(r)
        <5>1. ASSUME InPlay(r) PROVE FALSE
          <6>1. settlement[r].state = "NONE"
            BY <2>3, <3>1 DEF refund_nothing
          <6>2. RefundTerms(r).per_entrant = Fee
            BY <1>1, <2>1, <5>1, <6>1, TermsInPlay
          <6>3. RefundTerms(r).entrant_count = round[r].participant_count
            BY <2>1, Terms
          <6> QED BY <2>3, <3>1, <5>1, <6>2, <6>3, FeeAssumption DEF refund_nothing, InPlay
        <5> QED BY <5>1
      <4>2. /\ UNCHANGED <<round, ledger, balance>>
            /\ settlement'[r].state = "REFUNDED"
        BY <1>0, <2>1, <2>3, <3>1 DEF refund_nothing, SettlementType
      <4>3. ~Unsettled(r) /\ ~Unsettled(r)' /\ ~InPlay(r)'
        BY <2>1, <2>3, <4>1, <4>2 DEF Unsettled, InPlay, is_terminal
      <4> QED BY <1>1, <4>2, <4>3 DEF Books
    <3>2. ASSUME NEW batch \in SUBSET entries[q], NEW last \in batch,
                 refund_first_batch(q, batch, last)
          PROVE  Books(r)'
      <4> DEFINE s == RefundTerms(q)
      <4>1. /\ s.entrant_count = round[q].participant_count /\ s.recipient_count = 0
            /\ settlement[q].state = "NONE" /\ s.entrant_count > 0
            /\ PayBatch(q, s, batch, last)
        BY <2>1, <3>2, Terms DEF refund_first_batch
      <4> HIDE DEF s
      <4>2. InPlay(q)
        BY <4>1 DEF InPlay, is_terminal
      <4>3. s.per_entrant = Fee
        BY <1>1, <2>1, <2>3, <4>1, <4>2, TermsInPlay DEF s
      <4>4. Owing(q, ledger[q].mint) = Fee * (s.entrant_count - s.recipient_count)
        BY <1>0, <2>3, <4>1 DEF Owing
      <4>5. s \in SettlementType /\ s.recipient_count <= s.entrant_count
        BY <2>1, <4>1 DEF s, SettlementType
      <4> QED BY <1>1, <2>1, <2>3, <4>1, <4>2, <4>3, <4>4, <4>5, PayBatchBooks
    <3>3. ASSUME NEW batch \in SUBSET entries[q], NEW last \in batch,
                 refund_next_batch(q, batch, last)
          PROVE  Books(r)'
      <4> DEFINE s == settlement[q]
      <4>1. s.state = "PENDING" /\ PayBatch(q, s, batch, last) /\ s \in SettlementType
        BY <1>0, <3>3 DEF refund_next_batch
      <4>2. /\ s.per_entrant = Fee /\ s.entrant_count = round[q].participant_count
            /\ round[q].participant_count > 0 /\ s.recipient_count <= s.entrant_count
        BY <1>1, <2>3, <4>1 DEF Books
      <4>3. InPlay(q)
        BY <4>1, <4>2 DEF InPlay, is_terminal
      <4>4. Owing(q, ledger[q].mint) = Fee * (s.entrant_count - s.recipient_count)
        BY <4>1 DEF Owing
      <4> HIDE DEF s
      <4> QED BY <1>1, <2>1, <2>3, <4>1, <4>2, <4>3, <4>4, PayBatchBooks
    <3> QED BY <1>6, <3>1, <3>2, <3>3 DEF refund_unrevealed_pot
  <2> QED BY <2>2, <2>3
<1>7. ASSUME NEW q \in Rounds, close_pot_vault(q) PROVE Books(r)'
  <2> DEFINE v == <<sgd_mint, q>>
  <2>1. /\ v \in vaults /\ vault_closable(q) /\ UNCHANGED <<round, settlement, sgd_mint>>
        /\ balance' = [balance EXCEPT ![v] = 0]
        /\ ledger' = [ledger EXCEPT ![q] = [@ EXCEPT !.swept =
                       [ledger[q].swept EXCEPT ![sgd_mint] = @ + balance[v]]]]
    BY <1>7 DEF close_pot_vault
  <2>2. sgd_mint \in Mints /\ v \in Vaults
    BY <2>1, PinnedMint
  <2>3. CASE r # q
    <3>1. \A m \in Mints : balance'[<<m, r>>] = balance[<<m, r>>]
      BY <1>0, <2>1, <2>3
    <3>2. ledger'[r] = ledger[r]
      BY <1>0, <2>1, <2>3
    <3> QED BY <1>2, <2>1, <3>1, <3>2
  <2>4. CASE r = q
    <3>1. ~InPlay(r) \/ round[r].status # "FINALIZED"
      BY <2>1, <2>4 DEF vault_closable, InPlay
    <3>2. ~Unsettled(r) /\ ~InPlay(r)
      BY <2>1, <2>4, <3>1 DEF vault_closable, Lifecycle, Unsettled, InPlay, is_terminal
    <3>3. ~Unsettled(r)' /\ ~InPlay(r)'
      BY <2>1, <3>2 DEF Unsettled, InPlay, is_terminal
    <3>4. /\ ledger'[r].donated = ledger[r].donated
          /\ ledger'[r].swept = [ledger[r].swept EXCEPT ![sgd_mint] = @ + balance[v]]
      <4> DEFINE f == [ledger[q].swept EXCEPT ![sgd_mint] = @ + balance[v]]
      <4>1. ledger' = [ledger EXCEPT ![q] = [@ EXCEPT !.swept = f]]
        BY <2>1
      <4> HIDE DEF f
      <4>2. ledger'[r].donated = ledger[r].donated /\ ledger'[r].swept = f
        BY <1>0, <2>4, <4>1 DEF LedgerType
      <4> QED BY <2>4, <4>2 DEF f
    <3>5. ledger[r].swept \in [Mints -> Nat]
      BY <1>0 DEF LedgerType
    <3>6. ASSUME NEW m \in Mints
          PROVE  balance'[<<m, r>>] + ledger'[r].swept[m] <= ledger'[r].donated[m]
      <4>1. balance[<<m, r>>] + ledger[r].swept[m] <= ledger[r].donated[m]
        BY <1>1, <3>2 DEF Books
      <4>2. CASE m = sgd_mint
        BY <1>0, <2>1, <2>2, <2>4, <3>4, <3>5, <4>1, <4>2
      <4>3. CASE m # sgd_mint
        <5>1. balance'[<<m, r>>] = balance[<<m, r>>] /\ ledger'[r].swept[m] = ledger[r].swept[m]
          BY <1>0, <2>1, <3>4, <3>5, <4>3
        <5> QED BY <3>4, <4>1, <5>1
      <4> QED BY <4>2, <4>3
    <3>7. settlement[r].state # "PENDING"
      BY <2>1, <2>4 DEF vault_closable, is_terminal
    <3> QED BY <2>1, <3>3, <3>6, <3>7 DEF Books
  <2> QED BY <2>3, <2>4
<1>8. ASSUME NEW v \in Vaults, Donate(v) PROVE Books(r)'
  <2>1. PICK o \in Mints, q \in Rounds : v = <<o, q>>
    BY DEF Vaults
  <2>2. /\ UNCHANGED <<round, settlement, sgd_mint>>
        /\ balance' = [balance EXCEPT ![v] = @ + 1]
        /\ ledger' = [ledger EXCEPT ![q] = [@ EXCEPT !.donated =
                       [ledger[q].donated EXCEPT ![o] = @ + 1]]]
    BY <1>8, <2>1 DEF Donate
  <2>3. CASE r # q
    <3>1. \A m \in Mints : balance'[<<m, r>>] = balance[<<m, r>>]
      BY <1>0, <2>1, <2>2, <2>3
    <3>2. ledger'[r] = ledger[r]
      BY <1>0, <2>2, <2>3
    <3> QED BY <1>2, <2>2, <3>1, <3>2
  <2>4. CASE r = q
    <3>1. /\ ledger'[r].swept = ledger[r].swept /\ ledger'[r].mint = ledger[r].mint
          /\ ledger'[r].donated = [ledger[r].donated EXCEPT ![o] = @ + 1]
      <4> DEFINE f == [ledger[q].donated EXCEPT ![o] = @ + 1]
      <4>1. ledger' = [ledger EXCEPT ![q] = [@ EXCEPT !.donated = f]]
        BY <2>2
      <4> HIDE DEF f
      <4>2. /\ ledger'[r].swept = ledger[r].swept /\ ledger'[r].mint = ledger[r].mint
            /\ ledger'[r].donated = f
        BY <1>0, <2>4, <4>1 DEF LedgerType
      <4> QED BY <2>4, <4>2 DEF f
    <3>2. ledger[r].donated \in [Mints -> 0..MaxDonated] /\ MaxDonated \in Nat
      BY <1>0, BoundsAssumption DEF LedgerType
    <3>3. ASSUME NEW m \in Mints
          PROVE  \E d \in {0, 1} : /\ balance'[<<m, r>>] = balance[<<m, r>>] + d
                                   /\ ledger'[r].donated[m] = ledger[r].donated[m] + d
      <4>1. CASE m = o
        BY <1>0, <2>1, <2>2, <2>4, <3>1, <3>2, <4>1
      <4>2. CASE m # o
        <5>1. /\ balance'[<<m, r>>] = balance[<<m, r>>]
              /\ ledger'[r].donated[m] = ledger[r].donated[m]
          BY <1>0, <2>1, <2>2, <3>1, <3>2, <4>2
        <5> QED BY <1>0, <5>1
      <4> QED BY <4>1, <4>2
    <3>4. /\ InPlay(r)' <=> InPlay(r)
          /\ Unsettled(r)' <=> Unsettled(r)
          /\ \A m \in Mints : Owing(r, m)' = Owing(r, m)
      BY <2>2, <3>1 DEF InPlay, Unsettled, Owing
    <3>5. ASSUME Unsettled(r), NEW m \in Mints
          PROVE  /\ ledger'[r].swept[m] = 0
                 /\ balance'[<<m, r>>] = ledger'[r].donated[m] + Owing(r, m)'
      <4>1. /\ ledger[r].swept[m] = 0
            /\ balance[<<m, r>>] = ledger[r].donated[m] + Owing(r, m)
        BY <1>1, <3>5 DEF Books
      <4>2. Owing(r, m) \in Int
        BY <1>0 DEF Owing, SettlementType
      <4> QED BY <1>0, <3>1, <3>3, <3>4, <4>1, <4>2
    <3>6. ASSUME ~Unsettled(r), NEW m \in Mints
          PROVE  balance'[<<m, r>>] + ledger'[r].swept[m] <= ledger'[r].donated[m]
      <4>1. balance[<<m, r>>] + ledger[r].swept[m] <= ledger[r].donated[m]
        BY <1>1, <3>6 DEF Books
      <4> QED BY <1>0, <3>1, <3>3, <4>1
    <3> QED BY <1>1, <2>2, <3>1, <3>4, <3>5, <3>6 DEF Books
  <2> QED BY <2>3, <2>4
<1>9. ASSUME NEW q \in Rounds, finalize_round(q) PROVE Books(r)'
  <2>1. /\ UNCHANGED <<settlement, ledger, balance, sgd_mint>>
        /\ round[q].status = "CLOSED"
        /\ round' = [round EXCEPT ![q] = [@ EXCEPT !.status = "FINALIZED"]]
    BY <1>9 DEF finalize_round
  <2>2. CASE r # q
    BY <1>0, <1>2, <2>1, <2>2
  <2>3. CASE r = q
    <3>1. /\ round'[r].participant_count = round[r].participant_count
          /\ round'[r].status = "FINALIZED"
      BY <1>0, <2>1, <2>3 DEF RoundType
    <3>2. /\ settlement[r].state = "NONE" /\ Unsettled(r)
          /\ InPlay(r)' <=> InPlay(r)
          /\ \A m \in Mints : Owing(r, m)' = Owing(r, m)
      BY <2>1, <2>3, <3>1 DEF Lifecycle, Unsettled, InPlay, Owing
    <3>3. \A m \in Mints : /\ ledger[r].swept[m] = 0
                           /\ balance[<<m, r>>] = ledger[r].donated[m] + Owing(r, m)
      BY <1>1, <3>2 DEF Books
    <3>4. CASE Unsettled(r)'
      BY <1>1, <2>1, <3>1, <3>2, <3>3, <3>4 DEF Books
    <3>5. CASE ~Unsettled(r)'
      <4>1. round[r].participant_count = 0
        BY <1>0, <2>1, <3>1, <3>2, <3>5 DEF Unsettled, InPlay, is_terminal
      <4>2. \A m \in Mints : Owing(r, m) = 0
        BY <1>0, <3>2, <4>1 DEF Owing
      <4>3. \A m \in Mints : balance'[<<m, r>>] + ledger'[r].swept[m] <= ledger'[r].donated[m]
        BY <1>0, <2>1, <3>3, <4>2
      <4>4. ~InPlay(r)' /\ settlement'[r].state # "PENDING"
        BY <2>1, <3>2, <3>5 DEF Unsettled
      <4> QED BY <3>5, <4>3, <4>4 DEF Books
    <3> QED BY <3>4, <3>5
  <2> QED BY <2>2, <2>3
<1>10. ASSUME NEW q \in Rounds,
              \/ \E s \in {"authority", "operator"} : close_round(q, s)
              \/ \E top \in Tops(q) : apply_bracket_result(q, top)
              \/ Tick(q)
       PROVE  Books(r)'
  <2>1. /\ settlement' = settlement /\ balance' = balance /\ ledger' = ledger
        /\ round'[r].participant_count = round[r].participant_count
        /\ round[r].status = "FINALIZED" => round'[r].status = "FINALIZED"
    BY <1>10, RoundOnly
  <2>2. round'[r].status = "FINALIZED" => round[r].status = "FINALIZED"
    BY <1>10, NotFinalized
  <2> QED BY <1>2, <2>1, <2>2
<1>11. CASE UNCHANGED <<round, settlement, balance, ledger>>
  BY <1>2, <1>11
<1> QED BY <1>3, <1>4, <1>5, <1>6, <1>7, <1>8, <1>9, <1>10, <1>11
    DEF Next, vars, SetPaused, set_sgd_mint, update_sgd_mint, CreateVault

LEMMA BooksKept == Spec /\ MintMovesWhenSettled => []AllBooks
<1>1. Init => AllBooks
  <2> SUFFICES ASSUME Init, NEW r \in Rounds PROVE Books(r)
    BY DEF AllBooks
  <2>1. /\ NoRound.status = "NONE" /\ NoRound.participant_count = 0
        /\ NewSettlement.state = "NONE" /\ NewLedger.mint = NoMint
        /\ \A m \in Mints : NewLedger.swept[m] = 0 /\ NewLedger.donated[m] = 0
    BY DEF NoRound, NewRound, NewSettlement, NewLedger
  <2>2. /\ round[r] = NoRound /\ settlement[r] = NewSettlement /\ ledger[r] = NewLedger
        /\ \A m \in Mints : balance[<<m, r>>] = 0
    BY DEF Init, Vaults
  <2>3. ~InPlay(r) /\ Unsettled(r)
    BY <2>1, <2>2 DEF InPlay, Unsettled
  <2>4. \A m \in Mints : Owing(r, m) = 0
    BY <2>1, <2>2, MintsAssumption DEF Owing
  <2> QED BY <2>1, <2>2, <2>3, <2>4 DEF Books
<1>2. /\ TypeOK /\ Lifecycle /\ AllBooks /\ [Next]_vars
      /\ [sgd_mint' # sgd_mint => \A r \in Rounds : ~InPlay(r)]_vars
      => AllBooks'
  <2> SUFFICES ASSUME TypeOK, Lifecycle, AllBooks, [Next]_vars,
                      [sgd_mint' # sgd_mint => \A r \in Rounds : ~InPlay(r)]_vars,
                      NEW r \in Rounds
               PROVE  Books(r)'
    BY DEF AllBooks
  <2>1. sgd_mint' # sgd_mint => \A q \in Rounds : ~InPlay(q)
    BY DEF vars
  <2> QED BY <2>1, BooksStep
<1> QED BY <1>1, <1>2, TypeCorrect, LifecycleInv, PTL DEF Spec, MintMovesWhenSettled

\* What close_pot_vault sweeps to the authority never exceeds what was donated
\* to that vault, as long as the authority moves the mint only when every round
\* with entrants is settled; update_sgd_mint requires it of the current round.
THEOREM SweepsOnlySurplus == Spec /\ MintMovesWhenSettled => []OnlySurplusIsSwept
<1>1. TypeOK /\ AllBooks => OnlySurplusIsSwept
  <2> SUFFICES ASSUME TypeOK, AllBooks, NEW r \in Rounds, NEW m \in Mints
               PROVE  ledger[r].swept[m] <= ledger[r].donated[m]
    BY DEF OnlySurplusIsSwept
  <2>1. /\ ledger[r].swept[m] \in Nat /\ ledger[r].donated[m] \in Nat
        /\ balance[<<m, r>>] \in Nat
    BY BoundsAssumption DEF TypeOK, LedgerType, Vaults
  <2>2. CASE Unsettled(r)
    BY <2>1, <2>2 DEF AllBooks, Books
  <2>3. CASE ~Unsettled(r)
    BY <2>1, <2>3 DEF AllBooks, Books
  <2> QED BY <2>2, <2>3
<1> QED BY <1>1, TypeCorrect, BooksKept, PTL

-----------------------------------------------------------------------------
(***************************************************************************)
(* Conservation.  An amount is counted unit by unit (Units), so that sums  *)
(* over the players are cardinalities and need no induction: raising every *)
(* member of a set by the same amount adds a product, and the prizes of a  *)
(* podium are three such raises.                                           *)
(***************************************************************************)
\* The units added by raising f by c at every player of B.
LEMMA RaisedUnits ==
  ASSUME NEW f \in [Players -> Nat], NEW B \in SUBSET Players, NEW c \in Nat
  PROVE  LET T == UNION {{p} \X ((f[p] + 1)..(f[p] + c)) : p \in B}
         IN  IsFiniteSet(T) /\ Cardinality(T) = Cardinality(B) * c
<1> DEFINE T == UNION {{p} \X ((f[p] + 1)..(f[p] + c)) : p \in B}
           D == B \X (1..c)
           h == [x \in D |-> <<x[1], f[x[1]] + x[2]>>]
<1>1. IsFiniteSet(D) /\ Cardinality(D) = Cardinality(B) * c
  <2>1. IsFiniteSet(B)
    BY PlayersAssumption, FS_Subset
  <2>2. IsFiniteSet(1..c) /\ Cardinality(1..c) = c
    BY FS_Interval
  <2> QED BY <2>1, <2>2, FS_Product
<1>2. h \in [D -> T]
  <2> SUFFICES ASSUME NEW x \in D PROVE <<x[1], f[x[1]] + x[2]>> \in T
    OBVIOUS
  <2>1. x[1] \in B /\ x[2] \in 1..c /\ f[x[1]] \in Nat
    OBVIOUS
  <2>2. f[x[1]] + x[2] \in (f[x[1]] + 1)..(f[x[1]] + c)
    BY <2>1
  <2>3. <<x[1], f[x[1]] + x[2]>> \in {x[1]} \X ((f[x[1]] + 1)..(f[x[1]] + c))
    BY <2>2
  <2> QED BY <2>1, <2>3
<1>3. \A x, y \in D : h[x] = h[y] => x = y
  <2> SUFFICES ASSUME NEW x \in D, NEW y \in D, h[x] = h[y] PROVE x = y
    OBVIOUS
  <2>1. x[1] = y[1] /\ f[x[1]] + x[2] = f[y[1]] + y[2]
    OBVIOUS
  <2>2. x[2] \in Nat /\ y[2] \in Nat /\ f[x[1]] \in Nat
    OBVIOUS
  <2>3. x[2] = y[2]
    BY <2>1, <2>2
  <2> QED BY <2>1, <2>3
<1>4. \A t \in T : \E x \in D : h[x] = t
  <2> SUFFICES ASSUME NEW t \in T PROVE \E x \in D : h[x] = t
    OBVIOUS
  <2>1. PICK p \in B : t \in {p} \X ((f[p] + 1)..(f[p] + c))
    OBVIOUS
  <2>2. /\ t = <<p, t[2]>> /\ t[2] \in (f[p] + 1)..(f[p] + c) /\ f[p] \in Nat
    BY <2>1
  <2>3. t[2] - f[p] \in 1..c /\ f[p] + (t[2] - f[p]) = t[2]
    BY <2>2
  <2>4. <<p, t[2] - f[p]>> \in D
    BY <2>3
  <2>5. h[<<p, t[2] - f[p]>>] = t
    BY <2>2, <2>3, <2>4
  <2> QED BY <2>4, <2>5
<1> HIDE DEF h, D, T
<1>5. h \in Bijection(D, T)
  BY <1>2, <1>3, <1>4, Fun_IsBij
<1>6. ExistsBijection(D, T)
  BY <1>5, Fun_ExistsBij
<1>7. IsFiniteSet(T) /\ Cardinality(T) = Cardinality(D)
  BY <1>1, <1>6, FS_Bijection
<1> QED BY <1>1, <1>7 DEF T

LEMMA UnitsFinite ==
  ASSUME NEW f \in [Players -> Nat]
  PROVE  IsFiniteSet(Units(f)) /\ Sum(f) \in Nat
<1> DEFINE S == {{p} \X (1..f[p]) : p \in Players}
           g == [p \in Players |-> {p} \X (1..f[p])]
<1>1. \A p \in Players : IsFiniteSet({p} \X (1..f[p]))
  <2> TAKE p \in Players
  <2>1. IsFiniteSet(1..f[p])
    BY FS_Interval
  <2>2. IsFiniteSet({p})
    BY FS_Singleton
  <2> QED BY <2>1, <2>2, FS_Product
<1>2. IsFiniteSet(S)
  <2>1. g \in [Players -> S] /\ \A t \in S : \E p \in Players : g[p] = t
    OBVIOUS
  <2> HIDE DEF g, S
  <2>2. g \in Surjection(Players, S)
    BY <2>1, Fun_IsSurj
  <2> QED BY <2>2, PlayersAssumption, FS_Surjection
<1>3. \A t \in S : IsFiniteSet(t)
  BY <1>1
<1>4. IsFiniteSet(UNION S)
  <2> HIDE DEF S
  <2> QED BY <1>2, <1>3, FS_UNION
<1>5. IsFiniteSet(Units(f))
  BY <1>4 DEF Units
<1> QED BY <1>5, FS_CardinalityType DEF Sum

\* Nobody received anything.
LEMMA SumZero ==
  ASSUME NEW f, \A p \in Players : f[p] = 0
  PROVE  Sum(f) = 0
<1>1. Units(f) = {}
  BY DEF Units
<1> QED BY <1>1, FS_EmptySet DEF Sum

\* Raising everybody in B by c raises the sum by c for each of them.
LEMMA SumRaised ==
  ASSUME NEW f \in [Players -> Nat], NEW g \in [Players -> Nat],
         NEW B \in SUBSET Players, NEW c \in Nat,
         \A p \in Players : g[p] = IF p \in B THEN f[p] + c ELSE f[p]
  PROVE  Sum(g) = Sum(f) + Cardinality(B) * c
<1> DEFINE T == UNION {{p} \X ((f[p] + 1)..(f[p] + c)) : p \in B}
<1>1. IsFiniteSet(T) /\ Cardinality(T) = Cardinality(B) * c
  BY RaisedUnits
<1>2. Units(g) = Units(f) \cup T
  <2>1. ASSUME NEW u \in Units(g) PROVE u \in Units(f) \cup T
    <3>1. PICK p \in Players : u \in {p} \X (1..g[p])
      BY DEF Units
    <3>2. u = <<p, u[2]>> /\ u[2] \in 1..g[p] /\ f[p] \in Nat
      BY <3>1
    <3>3. u[2] \in 1..f[p] \/ (p \in B /\ u[2] \in (f[p] + 1)..(f[p] + c))
      <4>1. p \in B => g[p] = f[p] + c
        OBVIOUS
      <4>2. p \notin B => g[p] = f[p]
        OBVIOUS
      <4> QED BY <3>2, <4>1, <4>2
    <3>4. CASE u[2] \in 1..f[p]
      BY <3>2, <3>4 DEF Units
    <3>5. CASE p \in B /\ u[2] \in (f[p] + 1)..(f[p] + c)
      <4>1. u \in {p} \X ((f[p] + 1)..(f[p] + c))
        BY <3>2, <3>5
      <4> QED BY <3>5, <4>1
    <3> QED BY <3>3, <3>4, <3>5
  <2>2. ASSUME NEW u \in Units(f) PROVE u \in Units(g)
    <3>1. PICK p \in Players : u \in {p} \X (1..f[p])
      BY <2>2 DEF Units
    <3>2. u = <<p, u[2]>> /\ u[2] \in 1..f[p] /\ f[p] \in Nat
      BY <3>1
    <3>3. u[2] \in 1..g[p]
      BY <3>2
    <3> QED BY <3>2, <3>3 DEF Units
  <2>3. ASSUME NEW u \in T PROVE u \in Units(g)
    <3>1. PICK p \in B : u \in {p} \X ((f[p] + 1)..(f[p] + c))
      BY <2>3
    <3>2. u = <<p, u[2]>> /\ u[2] \in (f[p] + 1)..(f[p] + c) /\ f[p] \in Nat
      BY <3>1
    <3>3. u[2] \in 1..g[p] /\ p \in Players
      BY <3>2
    <3> QED BY <3>2, <3>3 DEF Units
  <2> QED BY <2>1, <2>2, <2>3
<1>3. Units(f) \cap T = {}
  <2> SUFFICES ASSUME NEW u \in Units(f), u \in T PROVE FALSE
    OBVIOUS
  <2>1. PICK p \in Players : u \in {p} \X (1..f[p])
    BY DEF Units
  <2>2. PICK q \in B : u \in {q} \X ((f[q] + 1)..(f[q] + c))
    OBVIOUS
  <2>3. p = q /\ u[2] \in 1..f[p] /\ u[2] \in (f[p] + 1)..(f[p] + c) /\ f[p] \in Nat
    BY <2>1, <2>2
  <2> QED BY <2>3
<1> HIDE DEF T
<1>4. IsFiniteSet(Units(f)) /\ Sum(f) \in Nat
  BY UnitsFinite
<1>5. Cardinality(Units(g)) = Cardinality(Units(f)) + Cardinality(T) - Cardinality(Units(f) \cap T)
  BY <1>1, <1>2, <1>4, FS_Union
<1>6. Cardinality(Units(f) \cap T) = 0
  BY <1>3, FS_EmptySet
<1>7. Cardinality(B) \in Nat
  BY PlayersAssumption, FS_Subset, FS_CardinalityType
<1>8. Cardinality(B) * c \in Nat
  BY <1>7
<1> QED BY <1>1, <1>4, <1>5, <1>6, <1>8 DEF Sum

\* The shares of a pot are paid one winner at a time, and add up to it: the
\* remainder of the division is with the last winner, not left over.
LEMMA SumPrizes ==
  ASSUME NEW top \in Podium, NEW pot \in Nat, Len(top) # 0,
         \A i, j \in 1..Len(top) : top[i] = top[j] => i = j
  PROVE  Sum(Prizes(top, pot)) = pot
<1> DEFINE k == Len(top)
           share(i) == Share(pot, i, k)
           rank(p) == CHOOSE i \in 1..k : top[i] = p
           paid(n) == [p \in Players |-> IF \E i \in 1..n : top[i] = p
                                         THEN share(rank(p)) ELSE 0]
<1>1. k \in 1..3 /\ \A i \in 1..k : top[i] \in Players
  <2>1. PICK n \in 0..3 : top \in [1..n -> Players]
    BY DEF Podium
  <2>2. Len(top) = n
    BY <2>1, top \in Seq(Players)
  <2> QED BY <2>1, <2>2
<1>2. \A i \in 1..k : share(i) \in Nat
  BY <1>1, ShareType
<1>3. \A i \in 1..k : rank(top[i]) = i
  <2> TAKE i \in 1..k
  <2>1. /\ rank(top[i]) \in 1..k
        /\ top[rank(top[i])] = top[i]
    OBVIOUS
  <2> QED BY <2>1
<1> HIDE DEF share, rank, k
<1>4. ASSUME NEW n \in 0..k
      PROVE  paid(n) \in [Players -> Nat]
  <2> SUFFICES ASSUME NEW p \in Players, NEW i \in 1..n, top[i] = p
               PROVE  share(rank(p)) \in Nat
    OBVIOUS
  <2>1. i \in 1..k
    BY <1>1
  <2> QED BY <1>2, <1>3, <2>1
<1>5. ASSUME NEW n \in 1..k
      PROVE  Sum(paid(n)) = Sum(paid(n - 1)) + share(n)
  <2>0. Cardinality({top[n]}) = 1
    BY FS_Singleton
  <2>1. /\ top[n] \in Players /\ {top[n]} \in SUBSET Players /\ share(n) \in Nat
        /\ n - 1 \in 0..k /\ n \in 0..k
    BY <1>1, <1>2
  <2>2. ASSUME NEW p \in Players
        PROVE  paid(n)[p] = IF p \in {top[n]} THEN paid(n - 1)[p] + share(n)
                                              ELSE paid(n - 1)[p]
    <3>1. CASE p = top[n]
      <4>1. ~\E i \in 1..(n - 1) : top[i] = p
        <5> SUFFICES ASSUME NEW i \in 1..(n - 1), top[i] = top[n] PROVE FALSE
          BY <3>1
        <5>1. i \in 1..k /\ n \in 1..k /\ i # n
          BY <1>1
        <5> QED BY <5>1 DEF k
      <4>2. paid(n - 1)[p] = 0
        BY <4>1
      <4>3. \E i \in 1..n : top[i] = p
        BY <1>1, <3>1
      <4>4. paid(n)[p] = share(n)
        BY <1>3, <3>1, <4>3
      <4> QED BY <2>1, <3>1, <4>2, <4>4
    <3>2. CASE p # top[n]
      <4>1. (\E i \in 1..n : top[i] = p) <=> (\E i \in 1..(n - 1) : top[i] = p)
        BY <1>1, <3>2
      <4> QED BY <3>2, <4>1
    <3> QED BY <3>1, <3>2
  <2>3. paid(n) \in [Players -> Nat] /\ paid(n - 1) \in [Players -> Nat]
    BY <1>4, <2>1
  <2> HIDE DEF paid
  <2>4. Sum(paid(n)) = Sum(paid(n - 1)) + 1 * share(n)
    BY <2>0, <2>1, <2>2, <2>3, SumRaised, SMTT(30)
  <2> QED BY <2>1, <2>4
<1>6. Sum(paid(0)) = 0
  <2>1. \A p \in Players : paid(0)[p] = 0
    OBVIOUS
  <2> HIDE DEF paid
  <2> QED BY <2>1, SumZero
<1>7. paid(k) = Prizes(top, pot)
  BY DEF Prizes, share, rank, k
<1>8. pot \div k \in Nat
  BY <1>1, SMT
<1> HIDE DEF paid
<1>9. CASE k = 1
  <2>1. share(1) = pot
    BY <1>8, <1>9 DEF share, Share
  <2> QED BY <1>5, <1>6, <1>7, <1>9, <2>1
<1>10. CASE k = 2
  <2>1. share(1) + share(2) = pot
    BY <1>8, <1>10 DEF share, Share
  <2>2. Sum(paid(1)) = share(1) /\ Sum(paid(2)) = Sum(paid(1)) + share(2)
    BY <1>2, <1>5, <1>6, <1>10
  <2> QED BY <1>2, <1>7, <1>10, <2>1, <2>2
<1>11. CASE k = 3
  <2>1. share(1) + share(2) + share(3) = pot
    BY <1>8, <1>11 DEF share, Share
  <2>2. /\ Sum(paid(1)) = share(1) /\ Sum(paid(2)) = Sum(paid(1)) + share(2)
        /\ Sum(paid(3)) = Sum(paid(2)) + share(3)
    BY <1>2, <1>5, <1>6, <1>11
  <2> QED BY <1>2, <1>7, <1>11, <2>1, <2>2
<1> QED BY <1>1, <1>9, <1>10, <1>11

-----------------------------------------------------------------------------
\* The equation of MoneyConserved for the vault of round r under mint m.
Conserved(r, m) ==
  balance[<<m, r>>] + Sum(ledger[r].prize) + Sum(ledger[r].refund) + ledger[r].swept[m]
    = Fee * round[r].participant_count + ledger[r].donated[m]

\* Every amount the equation adds is a natural number.
LEMMA Amounts ==
  ASSUME TypeOK, NEW r \in Rounds, NEW m \in Mints
  PROVE  /\ balance[<<m, r>>] \in Nat /\ ledger[r].swept[m] \in Nat
         /\ ledger[r].donated[m] \in Nat /\ Fee * round[r].participant_count \in Nat
         /\ ledger[r].prize \in [Players -> Nat] /\ Sum(ledger[r].prize) \in Nat
         /\ ledger[r].refund \in [Players -> Nat] /\ Sum(ledger[r].refund) \in Nat
<1>1. /\ ledger[r].prize \in [Players -> Nat] /\ ledger[r].refund \in [Players -> Nat]
      /\ balance[<<m, r>>] \in Nat /\ ledger[r].swept[m] \in Nat
      /\ ledger[r].donated[m] \in Nat
  BY BoundsAssumption DEF TypeOK, LedgerType, Vaults
<1>2. Fee * round[r].participant_count \in Nat
  BY BoundsAssumption, FeeAssumption DEF TypeOK, RoundType
<1> QED BY <1>1, <1>2, UnitsFinite

\* A round nothing has been paid out of yet.
LEMMA NothingPaid ==
  ASSUME TypeOK, Tied, NEW r \in Rounds, settlement[r].state = "NONE"
  PROVE  /\ Sum(ledger[r].prize) = 0 /\ Sum(ledger[r].refund) = 0
         /\ \A p \in Players : ledger[r].refund[p] = 0
<1>1. ledger[r].prize \in [Players -> Nat] /\ ledger[r].refund \in [Players -> Nat]
  BY DEF TypeOK, LedgerType
<1>2. \A p \in Players : ledger[r].prize[p] = 0 /\ ledger[r].refund[p] = 0
  BY <1>1 DEF Tied, Paid, Refunded
<1> QED BY <1>2, SumZero

\* A podium names nobody twice.
Distinct(top) == \A i, j \in 1..Len(top) : top[i] = top[j] => i = j
DistinctPodiums == \A r \in Rounds : Distinct(round[r].top)

LEMMA DistinctInv == Spec => []DistinctPodiums
<1>0. NewRound.top = <<>> /\ NoRound.top = <<>> /\ Distinct(<<>>)
  BY DEF NewRound, NoRound, Distinct
<1>1. Init => DistinctPodiums
  BY <1>0 DEF Init, DistinctPodiums
<1>2. TypeOK /\ DistinctPodiums /\ [Next]_vars => DistinctPodiums'
  <2> SUFFICES ASSUME TypeOK, DistinctPodiums, [Next]_vars, NEW r \in Rounds
               PROVE  Distinct(round'[r].top)
    BY DEF DistinctPodiums
  <2>0. round \in [Rounds -> RoundType] /\ Distinct(round[r].top)
    BY DEF TypeOK, DistinctPodiums
  <2>1. CASE round'[r].top = round[r].top
    BY <2>0, <2>1
  <2>2. CASE open_round
    <3>1. round' = [round EXCEPT ![current_round + 1] = NewRound]
      BY <2>2 DEF open_round
    <3> QED BY <1>0, <2>0, <3>1
  <2>3. ASSUME NEW q \in Rounds, NEW top \in Tops(q), apply_bracket_result(q, top)
        PROVE  Distinct(round'[r].top)
    <3>1. /\ Distinct(top)
          /\ round' = [round EXCEPT ![q] = [@ EXCEPT !.scoring_revealed = TRUE, !.top = top]]
      BY <2>3 DEF apply_bracket_result, Distinct
    <3>2. CASE r = q
      <4>1. round'[r].top = top
        BY <2>0, <3>1, <3>2 DEF RoundType
      <4> QED BY <3>1, <4>1
    <3>3. CASE r # q
      BY <2>0, <3>1, <3>3
    <3> QED BY <3>2, <3>3
  <2>4. ASSUME NEW q \in Rounds,
               \/ \E p \in Players : submit_entry(q, p)
               \/ \E s \in {"authority", "operator"} : close_round(q, s)
               \/ finalize_round(q) \/ Tick(q)
        PROVE  round'[r].top = round[r].top
    <3>1. \E x : \/ round' = [round EXCEPT ![q] = [@ EXCEPT !.participant_count = x]]
                 \/ round' = [round EXCEPT ![q] = [@ EXCEPT !.clock = x]]
                 \/ round' = [round EXCEPT ![q] = [@ EXCEPT !.status = x]]
      <4>1. CASE \E p \in Players : submit_entry(q, p)
        BY <4>1 DEF submit_entry
      <4>2. CASE \E s \in {"authority", "operator"} : close_round(q, s)
        BY <4>2 DEF close_round
      <4>3. CASE finalize_round(q)
        BY <4>3 DEF finalize_round
      <4>4. CASE Tick(q)
        BY <4>4 DEF Tick
      <4> QED BY <2>4, <4>1, <4>2, <4>3, <4>4
    <3>2. ASSUME NEW x, round' = [round EXCEPT ![q] = [@ EXCEPT !.participant_count = x]]
          PROVE  round'[r].top = round[r].top
      BY <2>0, <3>2 DEF RoundType
    <3>3. ASSUME NEW x, round' = [round EXCEPT ![q] = [@ EXCEPT !.clock = x]]
          PROVE  round'[r].top = round[r].top
      BY <2>0, <3>3 DEF RoundType
    <3>4. ASSUME NEW x, round' = [round EXCEPT ![q] = [@ EXCEPT !.status = x]]
          PROVE  round'[r].top = round[r].top
      BY <2>0, <3>4 DEF RoundType
    <3> QED BY <3>1, <3>2, <3>3, <3>4
  <2>5. ASSUME NEW q \in Rounds, refund_unrevealed_pot(q) PROVE round'[r].top = round[r].top
    BY <2>5, RefundFrame
  <2>6. ASSUME NEW q \in Rounds, distribute_pot(q) \/ close_pot_vault(q)
        PROVE round'[r].top = round[r].top
    BY <2>6 DEF distribute_pot, close_pot_vault
  <2> QED BY <2>1, <2>2, <2>3, <2>4, <2>5, <2>6
          DEF Next, vars, SetPaused, set_sgd_mint, update_sgd_mint, CreateVault, Donate
<1> QED BY <1>1, <1>2, TypeCorrect, PTL DEF Spec

\* A distribution moves the whole balance, unit for unit, to the winners.
LEMMA DistributeConserves ==
  ASSUME TypeOK, Tied, Lifecycle, DistinctPodiums, NEW r \in Rounds, Books(r),
         distribute_pot(r), Conserved(r, ledger[r].mint)
  PROVE  Conserved(r, ledger[r].mint)'
<1> DEFINE v == <<sgd_mint, r>>
           top == round[r].top
           pot == balance[v]
<1>1. /\ sgd_mint \in Mints /\ UNCHANGED round
      /\ ledger'[r].mint = ledger[r].mint /\ ledger'[r].swept = ledger[r].swept
      /\ ledger'[r].donated = ledger[r].donated
      /\ settlement[r].state = "NONE" /\ round[r].scoring_revealed
  BY DistributeFrame DEF distribute_pot, unspoken_for
<1>2. ledger[r].mint = sgd_mint
  BY <1>1 DEF Lifecycle, Books, InPlay, is_terminal
<1>3. /\ balance \in [Vaults -> Nat] /\ ledger \in [Rounds -> LedgerType] /\ v \in Vaults
      /\ top \in Podium /\ Distinct(top) /\ pot \in Nat
  BY <1>1 DEF TypeOK, RoundType, DistinctPodiums, Vaults
<1>4. CASE UNCHANGED <<balance, ledger>>
  BY <1>1, <1>4 DEF Conserved
<1>5. CASE /\ Len(top) > 0
           /\ balance' = [balance EXCEPT ![v] = 0]
           /\ ledger' = [ledger EXCEPT ![r].prize = Prizes(top, pot)]
  <2>1. ledger'[r].prize = Prizes(top, pot) /\ ledger'[r].refund = ledger[r].refund
    <3> DEFINE f == Prizes(top, pot)
    <3>1. ledger' = [ledger EXCEPT ![r] = [@ EXCEPT !.prize = f]]
      BY <1>5
    <3> HIDE DEF f
    <3>2. ledger'[r].prize = f /\ ledger'[r].refund = ledger[r].refund
      <4>1. ledger'[r] = [ledger[r] EXCEPT !.prize = f]
        BY <1>3, <3>1
      <4>2. ledger[r] \in LedgerType
        BY <1>3
      <4> QED BY <4>1, <4>2 DEF LedgerType
    <3> QED BY <3>2 DEF f
  <2>2. Sum(Prizes(top, pot)) = pot
    <3>1. Len(top) # 0
      BY <1>5
    <3>2. \A i, j \in 1..Len(top) : top[i] = top[j] => i = j
      BY <1>3 DEF Distinct
    <3> HIDE DEF top, pot
    <3> QED BY <1>3, <3>1, <3>2, SumPrizes
  <2>3. Sum(ledger[r].prize) = 0 /\ Sum(ledger[r].refund) = 0
    BY <1>1, NothingPaid
  <2>4. balance'[v] = 0
    BY <1>3, <1>5
  <2> HIDE DEF top, pot, v
  <2>5. Sum(ledger'[r].prize) = pot /\ Sum(ledger'[r].refund) = 0
    BY <2>1, <2>2, <2>3
  <2>6. /\ pot \in Nat /\ ledger[r].swept[sgd_mint] \in Nat
        /\ pot + 0 + 0 + ledger[r].swept[sgd_mint]
             = Fee * round[r].participant_count + ledger[r].donated[sgd_mint]
    BY <1>1, <1>2, <1>3, <2>3, Amounts DEF Conserved, pot, v
  <2> QED BY <1>1, <1>2, <2>4, <2>5, <2>6 DEF Conserved, v
<1> QED BY <1>4, <1>5 DEF distribute_pot

\* A batch of refunds moves what it takes out of the vault to its entrants.
LEMMA PayBatchConserves ==
  ASSUME TypeOK, NEW r \in Rounds, NEW s \in SettlementType,
         NEW batch \in SUBSET entries[r], NEW last \in batch,
         PayBatch(r, s, batch, last),
         sgd_mint \in Mints, ledger[r].mint = sgd_mint, Conserved(r, sgd_mint)
  PROVE  Conserved(r, ledger[r].mint)'
<1> DEFINE v == <<sgd_mint, r>>
           n == Cardinality(batch)
           each == s.per_entrant
           given == [p \in Players |-> IF p \in batch THEN ledger[r].refund[p] + each
                                                      ELSE ledger[r].refund[p]]
<1>1. /\ UNCHANGED round
      /\ ledger'[r].mint = ledger[r].mint /\ ledger'[r].swept = ledger[r].swept
      /\ ledger'[r].donated = ledger[r].donated
  BY PayBatchFrame
<1>2. /\ balance \in [Vaults -> Nat] /\ ledger \in [Rounds -> LedgerType]
      /\ batch \in SUBSET Players /\ each \in Nat /\ n \in Nat /\ v \in Vaults
      /\ ledger[r].refund \in [Players -> Nat]
  BY BatchCount, FeeAssumption DEF TypeOK, SettlementType, LedgerType, Vaults
<1>3. balance' = [balance EXCEPT ![v] = @ - n * each]
  BY DEF PayBatch
<1>4. ledger'[r].prize = ledger[r].prize /\ ledger'[r].refund = given
  <2>1. ledger' = [ledger EXCEPT ![r] = [@ EXCEPT !.refund = given]]
    BY <1>2 DEF PayBatch
  <2> HIDE DEF given
  <2> QED BY <1>2, <2>1 DEF LedgerType
<1>5. Sum(given) = Sum(ledger[r].refund) + n * each
  <2>1. given \in [Players -> Nat]
    BY <1>2
  <2>2. \A p \in Players : given[p] = IF p \in batch THEN ledger[r].refund[p] + each
                                                     ELSE ledger[r].refund[p]
    OBVIOUS
  <2> HIDE DEF given, each
  <2> QED BY <1>2, <2>1, <2>2, SumRaised
<1>6. n * each \in Nat
  BY <1>2
<1>7. balance'[v] = balance[v] - n * each
  BY <1>2, <1>3
<1> HIDE DEF n, each, given
<1> DEFINE moved == n * each
<1>8. moved \in Nat /\ balance'[v] = balance[v] - moved
  BY <1>6, <1>7
<1>9. Sum(ledger'[r].refund) = Sum(ledger[r].refund) + moved
  BY <1>4, <1>5
<1> HIDE DEF moved
<1> QED BY <1>1, <1>4, <1>8, <1>9, Amounts DEF Conserved

\* A refund instruction of a round in play, or one that finds nothing to give.
LEMMA RefundConserves ==
  ASSUME TypeOK, Lifecycle, NEW r \in Rounds, Books(r),
         refund_unrevealed_pot(r), Conserved(r, ledger[r].mint)
  PROVE  Conserved(r, ledger[r].mint)'
<1>1. /\ sgd_mint \in Mints /\ RefundTerms(r) \in SettlementType
      /\ settlement[r] \in SettlementType
  BY RefundFrame, RefundTermsType DEF TypeOK
<1>2. CASE refund_nothing(r)
  BY <1>2 DEF refund_nothing, Conserved
<1>3. ASSUME NEW batch \in SUBSET entries[r], NEW last \in batch,
             refund_first_batch(r, batch, last)
      PROVE  Conserved(r, ledger[r].mint)'
  <2>1. /\ PayBatch(r, RefundTerms(r), batch, last)
        /\ settlement[r].state = "NONE" /\ RefundTerms(r).entrant_count > 0
    BY <1>3 DEF refund_first_batch
  <2>2. RefundTerms(r).entrant_count = round[r].participant_count
    BY <1>1, Terms
  <2>3. ledger[r].mint = sgd_mint
    BY <2>1, <2>2 DEF Books, InPlay, is_terminal
  <2> QED BY <1>1, <2>1, <2>3, PayBatchConserves
<1>4. ASSUME NEW batch \in SUBSET entries[r], NEW last \in batch,
             refund_next_batch(r, batch, last)
      PROVE  Conserved(r, ledger[r].mint)'
  <2>1. PayBatch(r, settlement[r], batch, last) /\ settlement[r].state = "PENDING"
    BY <1>4 DEF refund_next_batch
  <2>2. ledger[r].mint = sgd_mint
    BY <2>1 DEF Books, InPlay, is_terminal
  <2> QED BY <1>1, <2>1, <2>2, PayBatchConserves
<1> QED BY <1>2, <1>3, <1>4 DEF refund_unrevealed_pot

\* The sweep moves a balance to the authority's side of the equation.
LEMMA SweepConserves ==
  ASSUME TypeOK, NEW r \in Rounds, ledger[r].mint \in Mints,
         close_pot_vault(r), Conserved(r, ledger[r].mint)
  PROVE  Conserved(r, ledger[r].mint)'
<1> DEFINE v == <<sgd_mint, r>>
           m == ledger[r].mint
           swept == [ledger[r].swept EXCEPT ![sgd_mint] = @ + balance[v]]
<1>1. /\ UNCHANGED round /\ balance' = [balance EXCEPT ![v] = 0]
      /\ ledger' = [ledger EXCEPT ![r] = [@ EXCEPT !.swept = swept]]
      /\ sgd_mint \in Mints /\ v \in Vaults
  BY PinnedMint DEF close_pot_vault
<1>2. /\ balance \in [Vaults -> Nat] /\ ledger \in [Rounds -> LedgerType]
      /\ ledger[r].swept \in [Mints -> Nat] /\ <<m, r>> \in Vaults
  BY DEF TypeOK, LedgerType, Vaults
<1>3. /\ ledger'[r].prize = ledger[r].prize /\ ledger'[r].refund = ledger[r].refund
      /\ ledger'[r].mint = ledger[r].mint /\ ledger'[r].donated = ledger[r].donated
      /\ ledger'[r].swept = swept
  <2> HIDE DEF swept
  <2> QED BY <1>1, <1>2 DEF LedgerType
<1>4. balance'[<<m, r>>] + swept[m] = balance[<<m, r>>] + ledger[r].swept[m]
  <2>1. CASE m = sgd_mint
    BY <1>1, <1>2, <2>1
  <2>2. CASE m # sgd_mint
    <3>1. balance'[<<m, r>>] = balance[<<m, r>>] /\ swept[m] = ledger[r].swept[m]
      BY <1>1, <1>2, <2>2
    <3> QED BY <3>1
  <2> QED BY <2>1, <2>2
<1>5. balance'[<<m, r>>] \in Nat /\ swept[m] \in Nat
  BY <1>1, <1>2
<1> HIDE DEF swept
<1> QED BY <1>1, <1>3, <1>4, <1>5, Amounts DEF Conserved, m

\* A donation is on both sides.
LEMMA DonateConserves ==
  ASSUME TypeOK, NEW r \in Rounds, ledger[r].mint \in Mints, NEW o \in Mints,
         Donate(<<o, r>>), Conserved(r, ledger[r].mint)
  PROVE  Conserved(r, ledger[r].mint)'
<1> DEFINE v == <<o, r>>
           m == ledger[r].mint
           donated == [ledger[r].donated EXCEPT ![o] = @ + 1]
<1>1. /\ UNCHANGED round /\ balance' = [balance EXCEPT ![v] = @ + 1]
      /\ ledger' = [ledger EXCEPT ![r] = [@ EXCEPT !.donated = donated]] /\ v \in Vaults
  BY DEF Donate, Vaults
<1>2. /\ balance \in [Vaults -> Nat] /\ ledger \in [Rounds -> LedgerType]
      /\ ledger[r].donated \in [Mints -> 0..MaxDonated] /\ MaxDonated \in Nat
      /\ <<m, r>> \in Vaults
  BY BoundsAssumption DEF TypeOK, LedgerType, Vaults
<1>3. /\ ledger'[r].prize = ledger[r].prize /\ ledger'[r].refund = ledger[r].refund
      /\ ledger'[r].mint = ledger[r].mint /\ ledger'[r].swept = ledger[r].swept
      /\ ledger'[r].donated = donated
  <2> HIDE DEF donated
  <2> QED BY <1>1, <1>2 DEF LedgerType
<1>4. \E d \in {0, 1} : /\ balance'[<<m, r>>] = balance[<<m, r>>] + d
                        /\ donated[m] = ledger[r].donated[m] + d
  <2>1. CASE m = o
    BY <1>1, <1>2, <2>1
  <2>2. CASE m # o
    <3>1. balance'[<<m, r>>] = balance[<<m, r>>] /\ donated[m] = ledger[r].donated[m]
      BY <1>1, <1>2, <2>2
    <3>2. balance[<<m, r>>] \in Nat /\ ledger[r].donated[m] \in Nat
      BY <1>2
    <3> QED BY <3>1, <3>2
  <2> QED BY <2>1, <2>2
<1> HIDE DEF donated
<1> QED BY <1>1, <1>3, <1>4, Amounts DEF Conserved, m

\* An entry pays its fee into its round's own vault.
LEMMA EntryConserves ==
  ASSUME TypeOK, Lifecycle, NEW r \in Rounds, NEW p \in Players,
         submit_entry(r, p), Conserved(r, ledger[r].mint)
  PROVE  Conserved(r, ledger[r].mint)'
<1> DEFINE v == <<sgd_mint, r>>
           n == round[r].participant_count
<1>1. /\ ledger' = ledger /\ balance' = [balance EXCEPT ![v] = @ + Fee]
      /\ round' = [round EXCEPT ![r].participant_count = @ + 1]
      /\ ledger[r].mint = sgd_mint /\ sgd_mint \in Mints /\ v \in Vaults
  BY PinnedMint DEF submit_entry, accepting, Lifecycle
<1>2. /\ balance \in [Vaults -> Nat] /\ round \in [Rounds -> RoundType]
      /\ Fee \in Nat /\ n \in Nat
  BY FeeAssumption, BoundsAssumption DEF TypeOK, RoundType
<1>3. balance'[v] = balance[v] + Fee /\ round'[r].participant_count = n + 1
  BY <1>1, <1>2 DEF RoundType
<1>4. Fee * (n + 1) = Fee * n + Fee
  <2>1. \A a, b \in Nat : a * (b + 1) = a * b + a
    BY SMT
  <2> QED BY <1>2, <2>1
<1> DEFINE fees == Fee * n
<1>5. fees \in Nat /\ Fee * round'[r].participant_count = fees + Fee
  BY <1>2, <1>3, <1>4
<1>6. /\ balance[v] + Sum(ledger[r].prize) + Sum(ledger[r].refund) + ledger[r].swept[sgd_mint]
           = fees + ledger[r].donated[sgd_mint]
  BY <1>1 DEF Conserved
<1> HIDE DEF fees, n, v
<1>7. balance'[v] + Sum(ledger[r].prize) + Sum(ledger[r].refund) + ledger[r].swept[sgd_mint]
        = (fees + Fee) + ledger[r].donated[sgd_mint]
  <2>1. /\ balance[v] \in Nat /\ Sum(ledger[r].prize) \in Nat
        /\ Sum(ledger[r].refund) \in Nat /\ ledger[r].swept[sgd_mint] \in Nat
        /\ ledger[r].donated[sgd_mint] \in Nat
    BY <1>1, Amounts DEF v
  <2>2. fees \in Nat /\ balance'[v] = balance[v] + Fee /\ Fee \in Nat
    BY <1>2, <1>3, <1>5
  <2> QED BY <1>6, <2>1, <2>2
<1> QED BY <1>1, <1>5, <1>7 DEF Conserved, v

\* A round opens with nothing owed, received or swept.
LEMMA OpenConserves ==
  ASSUME TypeOK, Tied, Lifecycle, NEW r \in Rounds, Books(r),
         open_round, r = current_round + 1
  PROVE  Conserved(r, ledger[r].mint)'
<1>1. /\ round[r].status = "NONE" /\ settlement[r].state = "NONE"
      /\ round[r].participant_count = 0 /\ sgd_mint \in Mints
  BY DEF Lifecycle, TypeOK, open_round
<1>2. /\ Unsettled(r) /\ ledger[r].swept[sgd_mint] = 0
      /\ balance[<<sgd_mint, r>>] = ledger[r].donated[sgd_mint] + Owing(r, sgd_mint)
  BY <1>1 DEF Unsettled, Books
<1>3. Fee * 0 = 0 /\ Owing(r, sgd_mint) = 0
  BY <1>1, FeeAssumption DEF Owing
<1>4. Sum(ledger[r].prize) = 0 /\ Sum(ledger[r].refund) = 0
  BY <1>1, NothingPaid
<1>5. /\ balance' = balance /\ round'[r].participant_count = 0
      /\ ledger'[r] = [ledger[r] EXCEPT !.mint = sgd_mint]
  BY DEF open_round, TypeOK, NewRound
<1>6. /\ ledger'[r].mint = sgd_mint /\ ledger'[r].prize = ledger[r].prize
      /\ ledger'[r].refund = ledger[r].refund /\ ledger'[r].swept = ledger[r].swept
      /\ ledger'[r].donated = ledger[r].donated
  BY <1>5 DEF TypeOK, LedgerType
<1>7. ledger[r].donated[sgd_mint] \in Nat
  BY <1>1, Amounts
<1> QED BY <1>2, <1>3, <1>4, <1>5, <1>6, <1>7 DEF Conserved

\* Nothing of the equation changes.
LEMMA ConservedFrame ==
  ASSUME NEW r \in Rounds, ledger[r].mint \in Mints, Conserved(r, ledger[r].mint),
         ledger'[r] = ledger[r],
         round'[r].participant_count = round[r].participant_count,
         \A m \in Mints : balance'[<<m, r>>] = balance[<<m, r>>]
  PROVE  Conserved(r, ledger[r].mint)'
BY DEF Conserved

\* Sweeping and donating leave the mint a round took its fees in alone.
LEMMA SweepMint ==
  ASSUME TypeOK, NEW r \in Rounds,
         \/ \E q \in Rounds : close_pot_vault(q)
         \/ \E v \in Vaults : Donate(v)
  PROVE  ledger'[r].mint = ledger[r].mint
<1>0. ledger \in [Rounds -> LedgerType]
  BY DEF TypeOK
<1>1. ASSUME NEW q \in Rounds, close_pot_vault(q) PROVE ledger'[r].mint = ledger[r].mint
  <2>1. \E x : ledger' = [ledger EXCEPT ![q] = [@ EXCEPT !.swept = x]]
    BY <1>1 DEF close_pot_vault
  <2> QED BY <1>0, <2>1 DEF LedgerType
<1>2. ASSUME NEW v \in Vaults, Donate(v) PROVE ledger'[r].mint = ledger[r].mint
  <2>1. v[2] \in Rounds /\ \E x : ledger' = [ledger EXCEPT ![v[2]] = [@ EXCEPT !.donated = x]]
    BY <1>2 DEF Donate, Vaults
  <2> QED BY <1>0, <2>1 DEF LedgerType
<1> QED BY <1>1, <1>2

\* Every step conserves a round's money, if the mint moves only between
\* settled rounds.
ConservedOnce(r) == ledger[r].mint # NoMint => Conserved(r, ledger[r].mint)

LEMMA ConservedStep ==
  ASSUME TypeOK, Tied, Lifecycle, DistinctPodiums, AllBooks, [Next]_vars,
         NEW r \in Rounds, ConservedOnce(r)
  PROVE  ConservedOnce(r)'
<1>0. /\ ledger \in [Rounds -> LedgerType] /\ round \in [Rounds -> RoundType]
      /\ balance \in [Vaults -> Nat] /\ ledger[r].mint \in Mints \cup {NoMint}
      /\ Books(r) /\ NoMint \notin Mints
      /\ \A m \in Mints : <<m, r>> \in Vaults
  BY MintsAssumption DEF TypeOK, AllBooks, LedgerType, Vaults
<1>1. CASE open_round
  <2> DEFINE n == current_round + 1
  <2>1. CASE r = n
    BY <1>0, <1>1, <2>1, OpenConserves DEF ConservedOnce
  <2>2. CASE r # n
    <3>1. /\ ledger'[r] = ledger[r] /\ round'[r] = round[r] /\ balance' = balance
      BY <1>0, <1>1, <2>2 DEF open_round
    <3> QED BY <1>0, <3>1, ConservedFrame DEF ConservedOnce
  <2> QED BY <2>1, <2>2
<1>2. ASSUME ledger[r].mint = NoMint, ~open_round
      PROVE  ledger'[r].mint = NoMint
  <2>1. ASSUME NEW q \in Rounds, distribute_pot(q) PROVE ledger'[r].mint = ledger[r].mint
    BY <2>1, DistributeFrame
  <2>2. ASSUME NEW q \in Rounds, refund_unrevealed_pot(q)
        PROVE  ledger'[r].mint = ledger[r].mint
    BY <2>2, RefundFrame
  <2>3. ASSUME NEW q \in Rounds, close_pot_vault(q) PROVE ledger'[r].mint = ledger[r].mint
    BY <2>3, SweepMint
  <2>4. ASSUME NEW v \in Vaults, Donate(v) PROVE ledger'[r].mint = ledger[r].mint
    BY <2>4, SweepMint
  <2> QED BY <1>2, <2>1, <2>2, <2>3, <2>4
          DEF Next, vars, SetPaused, set_sgd_mint, update_sgd_mint, submit_entry, close_round,
              finalize_round, apply_bracket_result, Tick, CreateVault
<1>3. CASE ledger[r].mint # NoMint /\ ~open_round
  <2> SUFFICES Conserved(r, ledger[r].mint)'
    BY DEF ConservedOnce
  <2>0. ledger[r].mint \in Mints /\ Conserved(r, ledger[r].mint)
    BY <1>0, <1>3 DEF ConservedOnce
  <2>1. ASSUME ledger'[r] = ledger[r],
               round'[r].participant_count = round[r].participant_count,
               \A m \in Mints : balance'[<<m, r>>] = balance[<<m, r>>]
        PROVE  Conserved(r, ledger[r].mint)'
    BY <2>0, <2>1, ConservedFrame
  <2>2. ASSUME NEW q \in Rounds, NEW p \in Players, submit_entry(q, p)
        PROVE  Conserved(r, ledger[r].mint)'
    <3>1. CASE q # r
      <4>1. /\ round'[r] = round[r] /\ ledger' = ledger
            /\ balance' = [balance EXCEPT ![<<sgd_mint, q>>] = @ + Fee]
        BY <1>0, <2>2, <3>1 DEF submit_entry
      <4> QED BY <1>0, <2>1, <3>1, <4>1
    <3> QED BY <2>0, <2>2, <3>1, EntryConserves
  <2>3. ASSUME NEW q \in Rounds, distribute_pot(q) PROVE Conserved(r, ledger[r].mint)'
    <3>1. CASE q # r
      <4>1. /\ round' = round
            /\ balance' = balance \/ balance' = [balance EXCEPT ![<<sgd_mint, q>>] = 0]
            /\ ledger' = ledger \/ \E x : ledger' = [ledger EXCEPT ![q] = x]
        BY <2>3 DEF distribute_pot
      <4> QED BY <1>0, <2>1, <3>1, <4>1
    <3> QED BY <1>0, <2>0, <2>3, <3>1, DistributeConserves
  <2>4. ASSUME NEW q \in Rounds, refund_unrevealed_pot(q) PROVE Conserved(r, ledger[r].mint)'
    <3>1. CASE q # r
      <4>1. /\ round' = round
            /\ balance' = balance
               \/ \E x \in Int : balance' = [balance EXCEPT ![<<sgd_mint, q>>] = x]
        BY <2>4, RefundFrame, BatchPays
      <4>2. ledger' = ledger \/ \E x : ledger' = [ledger EXCEPT ![q] = x]
        BY <2>4 DEF refund_unrevealed_pot, refund_nothing, refund_first_batch,
                    refund_next_batch, PayBatch
      <4> QED BY <1>0, <2>1, <3>1, <4>1, <4>2
    <3> QED BY <1>0, <2>0, <2>4, <3>1, RefundConserves
  <2>5. ASSUME NEW q \in Rounds, close_pot_vault(q) PROVE Conserved(r, ledger[r].mint)'
    <3>1. CASE q # r
      <4>1. /\ round' = round /\ balance' = [balance EXCEPT ![<<sgd_mint, q>>] = 0]
            /\ \E x : ledger' = [ledger EXCEPT ![q] = x]
        BY <2>5 DEF close_pot_vault
      <4> QED BY <1>0, <2>1, <3>1, <4>1
    <3> QED BY <2>0, <2>5, <3>1, SweepConserves
  <2>6. ASSUME NEW v \in Vaults, Donate(v) PROVE Conserved(r, ledger[r].mint)'
    <3>1. PICK o \in Mints, q \in Rounds : v = <<o, q>>
      BY DEF Vaults
    <3>2. CASE q # r
      <4>1. /\ round' = round /\ \E x : balance' = [balance EXCEPT ![<<o, q>>] = x]
            /\ \E x : ledger' = [ledger EXCEPT ![q] = x]
        BY <2>6, <3>1 DEF Donate
      <4> QED BY <1>0, <2>1, <3>2, <4>1
    <3> QED BY <2>0, <2>6, <3>1, <3>2, DonateConserves
  <2>7. ASSUME NEW q \in Rounds,
               \/ \E s \in {"authority", "operator"} : close_round(q, s)
               \/ finalize_round(q)
               \/ \E top \in Tops(q) : apply_bracket_result(q, top)
               \/ Tick(q)
        PROVE  Conserved(r, ledger[r].mint)'
    <3>1. /\ balance' = balance /\ ledger' = ledger
          /\ round'[r].participant_count = round[r].participant_count
      BY <2>7, RoundOnly
    <3> QED BY <2>1, <3>1
  <2>8. CASE UNCHANGED <<round, balance, ledger>>
    BY <2>1, <2>8
  <2> QED BY <1>3, <2>2, <2>3, <2>4, <2>5, <2>6, <2>7, <2>8
          DEF Next, vars, SetPaused, set_sgd_mint, update_sgd_mint, CreateVault
<1> QED BY <1>1, <1>2, <1>3 DEF ConservedOnce

\* No base unit is lost or made up between the vault, the winners, the
\* entrants and the sweep, as long as the authority moves the mint only when
\* every round with entrants is settled: a distribution's shares, with the
\* remainder of the division, come to exactly the pot, and every refund batch
\* to exactly what left the vault.
THEOREM ConservesMoney == Spec /\ MintMovesWhenSettled => []MoneyConserved
<1> DEFINE Once == \A r \in Rounds : ConservedOnce(r)
<1>1. Init => Once
  BY DEF Init, ConservedOnce, NewLedger
<1>2. TypeOK /\ Tied /\ Lifecycle /\ DistinctPodiums /\ AllBooks /\ Once /\ [Next]_vars
      => Once'
  BY ConservedStep
<1>3. Once => MoneyConserved
  BY DEF ConservedOnce, Conserved, MoneyConserved
<1> HIDE DEF Once
<1> QED BY <1>1, <1>2, <1>3, TypeCorrect, TiedInv, LifecycleInv, DistinctInv, BooksKept,
           PTL DEF Spec

-----------------------------------------------------------------------------
(***************************************************************************)
(* The settlement of every round implements PotPromise.                    *)
(*                                                                         *)
(* Each step maps to a step or a stutter of PotPromise under an invariant  *)
(* in three parts: Tied (above), Entrants (the counter of a round is the   *)
(* number of its entries, and its podium is among them) and Batches (a     *)
(* refund in progress has reached the recipients it counts, each below its *)
(* cursor).                                                                *)
(***************************************************************************)
Entrants ==
  \A r \in Rounds :
    /\ Cardinality(entries[r]) = round[r].participant_count
    /\ round[r].scoring_revealed =>
         \A i \in 1..Len(round[r].top) : round[r].top[i] \in entries[r]

\* The refund of round r has got as far as s says.
Reached(r, s) ==
  /\ s.entrant_count = Cardinality(entries[r])
  /\ s.per_entrant > 0
  /\ Refunded(r) \subseteq entries[r]
  /\ Cardinality(Refunded(r)) = s.recipient_count
  /\ \A p \in Refunded(r) : ledger[r].refund[p] = s.per_entrant /\ p <= s.cursor

Batches ==
  \A r \in Rounds :
    settlement[r].state = "PENDING" => Reached(r, settlement[r])

-----------------------------------------------------------------------------
\* Only submit_entry changes who is in a round, while it is open and unsettled.
LEMMA EntriesStep ==
  ASSUME TypeOK, Lifecycle, [Next]_vars, NEW r \in Rounds
  PROVE  \/ entries'[r] = entries[r]
         \/ /\ round[r].status = "OPEN"
            /\ settlement[r].state = "NONE"
            /\ UNCHANGED <<settlement, ledger>>
            /\ \E p \in Players : submit_entry(r, p)
<1>0. entries \in [Rounds -> SUBSET Players] /\ settlement \in [Rounds -> SettlementType]
  BY DEF TypeOK
<1>1. CASE UNCHANGED entries
  BY <1>1
<1>2. ASSUME NEW q \in Rounds, NEW p \in Players, submit_entry(q, p)
      PROVE  \/ entries'[r] = entries[r]
             \/ /\ round[r].status = "OPEN"
                /\ settlement[r].state = "NONE"
                /\ UNCHANGED <<settlement, ledger>>
                /\ submit_entry(r, p)
  <2>1. CASE q # r
    BY <1>0, <1>2, <2>1 DEF submit_entry
  <2>2. CASE q = r
    BY <1>2, <2>2 DEF submit_entry, accepting, Lifecycle
  <2> QED BY <2>1, <2>2
<1>3. ASSUME NEW q \in Rounds, refund_unrevealed_pot(q)
      PROVE  UNCHANGED entries
  BY <1>3, RefundFrame
<1>4. (\E q \in Rounds, p \in Players : submit_entry(q, p)) \/ UNCHANGED entries
  BY <1>3
  DEF Next, vars, SetPaused, set_sgd_mint, update_sgd_mint, open_round, close_round,
      finalize_round, apply_bracket_result, Tick, distribute_pot, close_pot_vault,
      CreateVault, Donate
<1> QED BY <1>1, <1>2, <1>4

\* A step other than an entry leaves a round's entrants alone, and names a
\* podium among them if it does.
PodiumStep(r) ==
  /\ round'[r].participant_count = round[r].participant_count
  /\ UNCHANGED entries
  /\ round'[r].scoring_revealed =>
       \/ round[r].scoring_revealed /\ round'[r].top = round[r].top
       \/ \A i \in 1..Len(round'[r].top) : round'[r].top[i] \in entries[r]

LEMMA RoundStep ==
  ASSUME TypeOK, Lifecycle, [Next]_vars, NEW r \in Rounds
  PROVE  \/ PodiumStep(r)
         \/ \E q \in Rounds, p \in Players : submit_entry(q, p)
<1>0. round \in [Rounds -> RoundType]
  BY DEF TypeOK
<1>1. CASE UNCHANGED <<round, entries>>
  BY <1>1 DEF PodiumStep
<1>2. CASE open_round
  <2>1. PICK c \in Rounds : c = current_round + 1 /\ round' = [round EXCEPT ![c] = NewRound]
                            /\ UNCHANGED entries
    BY <1>2 DEF open_round
  <2>2. c > current_round
    BY <2>1, BoundsAssumption DEF TypeOK
  <2>3. round[c].participant_count = 0
    BY <2>2 DEF Lifecycle
  <2>4. NewRound.participant_count = 0 /\ NewRound.scoring_revealed = FALSE
    BY DEF NewRound
  <2> QED BY <1>0, <2>1, <2>3, <2>4 DEF PodiumStep
<1>3. ASSUME NEW q \in Rounds, NEW signer \in {"authority", "operator"},
             close_round(q, signer)
      PROVE  /\ round' = [round EXCEPT ![q] = [@ EXCEPT !.status = "CLOSED"]]
             /\ UNCHANGED entries
  BY <1>3 DEF close_round
<1>4. ASSUME NEW q \in Rounds, NEW signer \in {"authority", "operator"},
             close_round(q, signer)
      PROVE  /\ round'[r].participant_count = round[r].participant_count
             /\ round'[r].scoring_revealed = round[r].scoring_revealed
             /\ round'[r].top = round[r].top
             /\ UNCHANGED entries
  <2>1. round' = [round EXCEPT ![q] = [@ EXCEPT !.status = "CLOSED"]] /\ UNCHANGED entries
    BY <1>3, <1>4
  <2> QED BY <1>0, <2>1 DEF RoundType
<1>5. ASSUME NEW q \in Rounds, finalize_round(q) \/ Tick(q)
      PROVE  /\ round'[r].participant_count = round[r].participant_count
             /\ round'[r].scoring_revealed = round[r].scoring_revealed
             /\ round'[r].top = round[r].top
             /\ UNCHANGED entries
  <2>1. CASE finalize_round(q)
    <3>1. round' = [round EXCEPT ![q] = [@ EXCEPT !.status = "FINALIZED"]] /\ UNCHANGED entries
      BY <2>1 DEF finalize_round
    <3> QED BY <1>0, <3>1 DEF RoundType
  <2>2. CASE Tick(q)
    <3> DEFINE c == round[q].clock + 1
    <3>1. round' = [round EXCEPT ![q] = [@ EXCEPT !.clock = c]] /\ UNCHANGED entries
      BY <2>2 DEF Tick
    <3> HIDE DEF c
    <3> QED BY <1>0, <3>1 DEF RoundType
  <2> QED BY <1>5, <2>1, <2>2
<1>6. ASSUME NEW q \in Rounds, NEW top \in Tops(q), apply_bracket_result(q, top)
      PROVE  PodiumStep(r)
  <2>1. CASE q # r
    BY <1>0, <1>6, <2>1 DEF apply_bracket_result, PodiumStep
  <2>2. CASE q = r
    <3>1. /\ round'[r].top = top
          /\ round'[r].participant_count = round[r].participant_count
      BY <1>0, <1>6, <2>2 DEF apply_bracket_result, RoundType
    <3> QED BY <1>6, <2>2, <3>1 DEF apply_bracket_result, PodiumStep
  <2> QED BY <2>1, <2>2
<1>7. ASSUME NEW q \in Rounds, refund_unrevealed_pot(q)
      PROVE  UNCHANGED <<round, entries>>
  BY <1>7, RefundFrame
<1> QED
  BY <1>1, <1>2, <1>4, <1>5, <1>6, <1>7
  DEF Next, vars, SetPaused, set_sgd_mint, update_sgd_mint, distribute_pot,
      close_pot_vault, CreateVault, Donate, PodiumStep

\* One entry more is one entrant more.
LEMMA EntryCounted ==
  ASSUME TypeOK, Entrants, NEW q \in Rounds, NEW p \in Players, submit_entry(q, p)
  PROVE  Entrants'
<1>0. /\ round \in [Rounds -> RoundType] /\ entries \in [Rounds -> SUBSET Players]
      /\ p \notin entries[q]
      /\ entries' = [entries EXCEPT ![q] = @ \cup {p}]
      /\ round' = [round EXCEPT ![q].participant_count = @ + 1]
  BY DEF TypeOK, submit_entry
<1>1. SUFFICES ASSUME NEW r \in Rounds
               PROVE  /\ Cardinality(entries'[r]) = round'[r].participant_count
                      /\ round'[r].scoring_revealed =>
                           \A i \in 1..Len(round'[r].top) : round'[r].top[i] \in entries'[r]
  BY DEF Entrants
<1>2. CASE r # q
  BY <1>0, <1>2 DEF Entrants
<1>3. CASE r = q
  <2>1. IsFiniteSet(entries[q])
    BY <1>0, PlayersAssumption, FS_Subset
  <2>2. Cardinality(entries[q] \cup {p}) = Cardinality(entries[q]) + 1
    BY <1>0, <2>1, FS_AddElement
  <2>3. /\ round'[q].participant_count = round[q].participant_count + 1
        /\ round'[q].scoring_revealed = round[q].scoring_revealed
        /\ round'[q].top = round[q].top
        /\ entries'[q] = entries[q] \cup {p}
    BY <1>0 DEF RoundType
  <2> QED BY <1>3, <2>2, <2>3 DEF Entrants
<1> QED BY <1>2, <1>3

\* submit_entry counts its entry; apply_bracket_result only takes entrants.
LEMMA EntrantsInv == Spec => []Entrants
<1>1. Init => Entrants
  <2>1. NoRound.participant_count = 0 /\ NoRound.scoring_revealed = FALSE
    BY DEF NoRound, NewRound
  <2>2. Cardinality({}) = 0
    BY FS_EmptySet
  <2>3. Init => \A r \in Rounds : round[r] = NoRound /\ entries[r] = {}
    BY DEF Init
  <2> QED BY <2>1, <2>2, <2>3 DEF Entrants
<1>2. TypeOK /\ Lifecycle /\ Entrants /\ [Next]_vars => Entrants'
  <2> SUFFICES ASSUME TypeOK, Lifecycle, Entrants, [Next]_vars PROVE Entrants'
    OBVIOUS
  <2>1. CASE \E q \in Rounds, p \in Players : submit_entry(q, p)
    BY <2>1, EntryCounted
  <2>2. CASE ~\E q \in Rounds, p \in Players : submit_entry(q, p)
    <3> SUFFICES ASSUME NEW r \in Rounds
                 PROVE  /\ Cardinality(entries'[r]) = round'[r].participant_count
                        /\ round'[r].scoring_revealed =>
                             \A i \in 1..Len(round'[r].top) : round'[r].top[i] \in entries'[r]
      BY DEF Entrants
    <3>1. /\ round'[r].participant_count = round[r].participant_count /\ UNCHANGED entries
          /\ round'[r].scoring_revealed =>
               \/ round[r].scoring_revealed /\ round'[r].top = round[r].top
               \/ \A i \in 1..Len(round'[r].top) : round'[r].top[i] \in entries[r]
      <4>1. PodiumStep(r)
        BY <2>2, RoundStep
      <4> QED BY <4>1 DEF PodiumStep
    <3>2. /\ Cardinality(entries[r]) = round[r].participant_count
          /\ round[r].scoring_revealed =>
               \A i \in 1..Len(round[r].top) : round[r].top[i] \in entries[r]
      BY DEF Entrants
    <3>3. entries'[r] = entries[r]
      BY <3>1
    <3>4. ASSUME round'[r].scoring_revealed
          PROVE  \A i \in 1..Len(round'[r].top) : round'[r].top[i] \in entries[r]
      <4>1. CASE round[r].scoring_revealed /\ round'[r].top = round[r].top
        BY <3>2, <4>1
      <4> QED BY <3>1, <3>4, <4>1
    <3> QED BY <3>1, <3>2, <3>3, <3>4
  <2> QED BY <2>1, <2>2
<1> QED BY <1>1, <1>2, TypeCorrect, LifecycleInv, PTL DEF Spec

-----------------------------------------------------------------------------
(***************************************************************************)
(* Refunds.                                                                *)
(***************************************************************************)
\* A batch above the cursor reaches new people, and the settlement counts them.
LEMMA BatchReaches ==
  ASSUME TypeOK, NEW q \in Rounds, NEW s \in SettlementType, Reached(q, s),
         NEW batch \in SUBSET entries[q], NEW last \in batch,
         PayBatch(q, s, batch, last)
  PROVE  /\ \A p \in batch : ledger[q].refund[p] = 0
         /\ \A p \in Players : ledger'[q].refund[p] =
              IF p \in batch THEN s.per_entrant ELSE ledger[q].refund[p]
         /\ settlement'[q].per_entrant = s.per_entrant
         /\ settlement'[q].state = refund_state(s, Cardinality(Refunded(q)'))
         /\ Reached(q, settlement[q])'
<1> DEFINE n == Cardinality(batch)
           count == s.recipient_count + n
           each == s.per_entrant
           R == Refunded(q)
<1>0. /\ settlement \in [Rounds -> SettlementType] /\ ledger \in [Rounds -> LedgerType]
      /\ ledger[q].refund \in [Players -> Nat] /\ entries[q] \subseteq Players
      /\ each \in Nat /\ each > 0 /\ s.cursor \in Nat /\ s.recipient_count \in Nat
  <2>1. /\ settlement \in [Rounds -> SettlementType] /\ ledger \in [Rounds -> LedgerType]
        /\ entries[q] \subseteq Players
    BY DEF TypeOK
  <2>2. ledger[q].refund \in [Players -> Nat]
    BY <2>1 DEF LedgerType
  <2>3. s.per_entrant \in 0..Fee /\ s.cursor \in Players \cup {0} /\ s.recipient_count \in Nat
    BY DEF SettlementType
  <2>4. s.per_entrant > 0
    BY DEF Reached
  <2>5. each \in Nat /\ each > 0 /\ s.cursor \in Nat
    <3>1. \A x \in 0..Fee : x \in Nat
      BY FeeAssumption
    <3>2. \A x \in Players \cup {0} : x \in Nat
      BY PlayersAssumption
    <3> QED BY <2>3, <2>4, <3>1, <3>2
  <2> QED BY <2>1, <2>2, <2>3, <2>5
<1>1. IsFiniteSet(batch) /\ n \in Nat
  BY BatchCount
<1>2. ASSUME NEW p \in batch PROVE p \in Players /\ p \in Nat /\ p > s.cursor /\ p <= last
  BY <1>0, PlayersAssumption DEF PayBatch, in_order
<1>3. \A p \in batch : p \notin R
  BY <1>0, <1>2 DEF Reached
<1>4. \A p \in batch : ledger[q].refund[p] = 0
  BY <1>0, <1>2, <1>3 DEF Refunded
<1>5. \A p \in Players : ledger'[q].refund[p] =
        IF p \in batch THEN each ELSE ledger[q].refund[p]
  <2>1. ledger'[q].refund =
          [p \in Players |-> IF p \in batch THEN ledger[q].refund[p] + each
                                            ELSE ledger[q].refund[p]]
    BY <1>0 DEF PayBatch, LedgerType
  <2> HIDE DEF each
  <2> QED BY <1>0, <1>4, <2>1
<1>6. Refunded(q)' = R \cup batch
  <2> HIDE DEF each
  <2> QED BY <1>0, <1>2, <1>5 DEF Refunded
<1>7. Cardinality(R \cup batch) = count
  <2>1. IsFiniteSet(R) /\ Cardinality(R) = s.recipient_count
    <3>1. R \subseteq Players /\ IsFiniteSet(Players)
      BY PlayersAssumption DEF Refunded
    <3>2. Cardinality(R) = s.recipient_count
      BY DEF Reached
    <3> HIDE DEF R
    <3> QED BY <3>1, <3>2, FS_Subset
  <2>2. R \cap batch = {}
    BY <1>3
  <2>3. Cardinality(R \cup batch) = Cardinality(R) + Cardinality(batch)
                                      - Cardinality(R \cap batch)
    BY <1>1, <2>1, FS_Union
  <2>4. Cardinality({}) = 0
    BY FS_EmptySet
  <2>5. Cardinality(R \cap batch) = 0
    BY <2>2, <2>4
  <2>6. s.recipient_count \in Nat
    BY <1>0
  <2> HIDE DEF R
  <2> QED BY <1>1, <2>1, <2>3, <2>5, <2>6
<1>8. /\ settlement'[q].state = refund_state(s, count)
      /\ settlement'[q].recipient_count = count
      /\ settlement'[q].entrant_count = s.entrant_count
      /\ settlement'[q].per_entrant = each
      /\ settlement'[q].cursor = last
  <2> DEFINE state == refund_state(s, count)
             total == s.total_settled + n * s.per_entrant
  <2>1. settlement' = [settlement EXCEPT ![q] =
          [s EXCEPT !.state = state, !.total_settled = total,
                    !.recipient_count = count, !.cursor = last]]
    BY DEF PayBatch
  <2> HIDE DEF count, total, state
  <2> QED BY <1>0, <2>1 DEF SettlementType, state
<1>9. entries' = entries
  BY DEF PayBatch
<1>10. Reached(q, settlement[q])'
  <2>1. R \cup batch \subseteq entries[q]
    BY DEF Reached
  <2>2. ASSUME NEW p \in R \cup batch
        PROVE  ledger'[q].refund[p] = each /\ p <= last
    <3>1. CASE p \in batch
      BY <1>2, <1>5, <3>1
    <3>2. CASE p \notin batch
      <4>1. /\ p \in Nat /\ p \in Players /\ p <= s.cursor /\ last \in Nat
            /\ last > s.cursor /\ ledger[q].refund[p] = each
        BY <1>0, <1>2, <2>2, <3>2, PlayersAssumption DEF Reached, Refunded
      <4>2. p <= last
        BY <1>0, <4>1
      <4> QED BY <1>5, <3>2, <4>1, <4>2
    <3> QED BY <3>1, <3>2
  <2> HIDE DEF R, count, each
  <2> QED BY <1>0, <1>6, <1>7, <1>8, <1>9, <2>1, <2>2 DEF Reached, each
<1> HIDE DEF count, R
<1> QED BY <1>4, <1>5, <1>6, <1>7, <1>8, <1>10

\* The terms of a first batch describe a refund that has reached nobody.
LEMMA FirstReached ==
  ASSUME TypeOK, Tied, Entrants, NEW q \in Rounds, sgd_mint \in Mints,
         settlement[q].state = "NONE", RefundTerms(q).per_entrant > 0
  PROVE  Reached(q, RefundTerms(q))
<1>1. Refunded(q) = {}
  BY DEF Tied
<1>2. RefundTerms(q).entrant_count = Cardinality(entries[q])
      /\ RefundTerms(q).recipient_count = 0
  BY Terms DEF Entrants
<1>3. Cardinality({}) = 0
  BY FS_EmptySet
<1> QED BY <1>1, <1>2, <1>3 DEF Reached

\* A batch, the first or another, starts from where the refund has got to.
LEMMA SomeBatch ==
  ASSUME TypeOK, Tied, Entrants, Batches, NEW q \in Rounds,
         refund_unrevealed_pot(q), ~refund_nothing(q)
  PROVE  \E s \in SettlementType : \E batch \in SUBSET entries[q] : \E last \in batch :
           /\ PayBatch(q, s, batch, last)
           /\ Reached(q, s)
           /\ settlement[q].state = "PENDING" => s = settlement[q]
<1>1. RefundTerms(q) \in SettlementType /\ settlement[q] \in SettlementType /\ sgd_mint \in Mints
  BY RefundFrame, RefundTermsType DEF TypeOK
<1>2. ASSUME NEW batch \in SUBSET entries[q], NEW last \in batch,
             refund_first_batch(q, batch, last)
      PROVE  /\ PayBatch(q, RefundTerms(q), batch, last)
             /\ Reached(q, RefundTerms(q))
             /\ settlement[q].state = "NONE"
  BY <1>1, <1>2, FirstReached DEF refund_first_batch
<1>3. ASSUME NEW batch \in SUBSET entries[q], NEW last \in batch,
             refund_next_batch(q, batch, last)
      PROVE  /\ PayBatch(q, settlement[q], batch, last)
             /\ Reached(q, settlement[q])
  BY <1>3 DEF refund_next_batch, Batches
<1> QED BY <1>1, <1>2, <1>3 DEF refund_unrevealed_pot

\* A round's settlement and payouts are the business of two instructions, each
\* about its own round.
LEMMA Movers ==
  ASSUME TypeOK, [Next]_vars, NEW r \in Rounds
  PROVE  Untouched(r) \/ distribute_pot(r) \/ refund_unrevealed_pot(r)
<1>0. settlement \in [Rounds -> SettlementType] /\ ledger \in [Rounds -> LedgerType]
  BY DEF TypeOK
<1>1. CASE UNCHANGED <<settlement, ledger>>
  BY <1>1 DEF Untouched
<1>2. CASE open_round
  BY <1>0, <1>2 DEF open_round, Untouched, LedgerType
<1>3. ASSUME NEW q \in Rounds, close_pot_vault(q) PROVE Untouched(r)
  <2> DEFINE swept == [ledger[q].swept EXCEPT ![sgd_mint] = @ + balance[<<sgd_mint, q>>]]
  <2>1. ledger' = [ledger EXCEPT ![q] = [@ EXCEPT !.swept = swept]]
    BY <1>3 DEF close_pot_vault
  <2> HIDE DEF swept
  <2> QED BY <1>0, <1>3, <2>1 DEF close_pot_vault, Untouched, LedgerType
<1>4. ASSUME NEW v \in Vaults, Donate(v) PROVE Untouched(r)
  <2> DEFINE donated == [ledger[v[2]].donated EXCEPT ![v[1]] = @ + 1]
  <2>1. ledger' = [ledger EXCEPT ![v[2]] = [@ EXCEPT !.donated = donated]]
    BY <1>4 DEF Donate
  <2> HIDE DEF donated
  <2>2. v[2] \in Rounds
    BY DEF Vaults
  <2> QED BY <1>0, <1>4, <2>1, <2>2 DEF Donate, Untouched, LedgerType
<1>5. ASSUME NEW q \in Rounds, distribute_pot(q), q # r PROVE Untouched(r)
  BY <1>0, <1>5 DEF distribute_pot, Untouched
<1>6. ASSUME NEW q \in Rounds, NEW s \in SettlementType, NEW batch \in SUBSET entries[q],
             NEW last \in batch, PayBatch(q, s, batch, last), q # r
      PROVE  Untouched(r)
  BY <1>0, <1>6 DEF PayBatch, Untouched
<1>7. ASSUME NEW q \in Rounds, refund_unrevealed_pot(q), q # r PROVE Untouched(r)
  <2>1. RefundTerms(q) \in SettlementType /\ settlement[q] \in SettlementType
    BY <1>0, <1>7, RefundFrame, RefundTermsType
  <2>2. CASE refund_nothing(q)
    BY <1>0, <1>7, <2>2 DEF refund_nothing, Untouched
  <2>3. ASSUME NEW batch \in SUBSET entries[q], NEW last \in batch,
               refund_first_batch(q, batch, last) \/ refund_next_batch(q, batch, last)
        PROVE  Untouched(r)
    BY <1>6, <1>7, <2>1, <2>3 DEF refund_first_batch, refund_next_batch
  <2> QED BY <1>7, <2>2, <2>3 DEF refund_unrevealed_pot
<1> QED
  BY <1>1, <1>2, <1>3, <1>4, <1>5, <1>7
  DEF Next, vars, SetPaused, set_sgd_mint, update_sgd_mint, submit_entry, close_round,
      finalize_round, apply_bracket_result, Tick, CreateVault

\* A refund in progress has reached whom it counts (the cursor keeps a batch
\* from reaching anybody twice).
LEMMA BatchesInv == Spec => []Batches
<1>1. Init => Batches
  <2>1. NewSettlement.state = "NONE"
    BY DEF NewSettlement
  <2> QED BY <2>1 DEF Init, Batches
<1>2. TypeOK /\ Tied /\ Lifecycle /\ Entrants /\ Batches /\ [Next]_vars => Batches'
  <2> SUFFICES ASSUME TypeOK, Tied, Lifecycle, Entrants, Batches, [Next]_vars,
                      NEW r \in Rounds, settlement'[r].state = "PENDING"
               PROVE  Reached(r, settlement[r])'
    BY DEF Batches
  <2>1. CASE Untouched(r)
    <3>1. settlement[r].state = "PENDING" /\ settlement'[r] = settlement[r]
      BY <2>1 DEF Untouched
    <3>2. entries'[r] = entries[r]
      BY <3>1, EntriesStep
    <3>3. Refunded(r)' = Refunded(r) /\ ledger'[r].refund = ledger[r].refund
      BY <2>1 DEF Untouched, Refunded
    <3> QED BY <3>1, <3>2, <3>3 DEF Batches, Reached
  <2>2. CASE distribute_pot(r)
    <3>1. settlement'[r].state = "PAID"
      BY <2>2 DEF distribute_pot, TypeOK, SettlementType
    <3> QED BY <3>1
  <2>3. CASE refund_unrevealed_pot(r)
    <3>1. ~refund_nothing(r)
      <4>1. RefundTerms(r) \in SettlementType
        BY <2>3, RefundFrame, RefundTermsType
      <4> QED BY <4>1 DEF refund_nothing, TypeOK, SettlementType
    <3>2. PICK s \in SettlementType, batch \in SUBSET entries[r] : \E last \in batch :
            PayBatch(r, s, batch, last) /\ Reached(r, s)
      BY <2>3, <3>1, SomeBatch
    <3> QED BY <3>2, BatchReaches
  <2> QED BY <2>1, <2>2, <2>3, Movers
<1> QED BY <1>1, <1>2, TypeCorrect, TiedInv, LifecycleInv, EntrantsInv, PTL DEF Spec

-----------------------------------------------------------------------------
(***************************************************************************)
(* The refinement.                                                         *)
(***************************************************************************)
\* A round whose people, settlement and payouts stay is at a stutter.
LEMMA Stutters ==
  ASSUME NEW r \in Rounds, Untouched(r), entries'[r] = entries[r]
  PROVE  UNCHANGED Promise(r)!vars
BY DEF Promise!vars, Untouched

LEMMA EntersPromise ==
  ASSUME TypeOK, NEW r \in Rounds, NEW p \in Players, submit_entry(r, p),
         settlement[r].state = "NONE"
  PROVE  Promise(r)!Enter
<1>1. entries'[r] = entries[r] \cup {p} /\ UNCHANGED <<settlement, ledger>>
  BY DEF submit_entry, TypeOK
<1>2. entries[r] \subseteq Players
  BY DEF TypeOK
<1> QED BY <1>1, <1>2 DEF Promise!Enter

\* The shares of a pot differ by its remainder only.
LEMMA SharesEven ==
  ASSUME NEW pot \in Nat, NEW k \in 1..3, NEW i \in 1..k, NEW j \in 1..k
  PROVE  Share(pot, i, k) - Share(pot, j, k) <= 2
<1>1. pot \div k \in Nat
  BY SMT
<1>2. pot - (pot \div k) * (k - 1) \in Int
  BY <1>1
<1>3. /\ pot - (pot \div k) * (k - 1) - pot \div k <= 2
      /\ pot \div k - (pot - (pot \div k) * (k - 1)) <= 2
  <2>1. CASE k = 1
    BY <2>1, SMT
  <2>2. CASE k = 2
    BY <2>2, SMT
  <2>3. CASE k = 3
    BY <2>3, SMT
  <2> QED BY <2>1, <2>2, <2>3
<1>4. Share(pot, i, k) \in {pot \div k, pot - (pot \div k) * (k - 1)}
      /\ Share(pot, j, k) \in {pot \div k, pot - (pot \div k) * (k - 1)}
  BY DEF Share
<1> HIDE DEF Share
<1> QED BY <1>1, <1>2, <1>3, <1>4

LEMMA AtMostThree ==
  ASSUME NEW a, NEW b, NEW c, NEW S \in SUBSET {a, b, c}
  PROVE  Cardinality(S) <= 3
<1>1. IsFiniteSet({}) /\ Cardinality({}) = 0
  BY FS_EmptySet
<1>2. IsFiniteSet({a}) /\ Cardinality({a}) = 1
  <2>1. {a} = {} \cup {a}
    OBVIOUS
  <2> QED BY <1>1, <2>1, FS_AddElement
<1>3. IsFiniteSet({a, b}) /\ Cardinality({a, b}) \in 1..2
  <2>1. {a, b} = {a} \cup {b}
    OBVIOUS
  <2> QED BY <1>2, <2>1, FS_AddElement
<1>4. IsFiniteSet({a, b, c}) /\ Cardinality({a, b, c}) \in 1..3
  <2>1. {a, b, c} = {a, b} \cup {c}
    OBVIOUS
  <2> QED BY <1>3, <2>1, FS_AddElement
<1>5. IsFiniteSet(S) /\ Cardinality(S) <= Cardinality({a, b, c})
  BY <1>4, FS_Subset
<1>6. Cardinality(S) \in Nat
  BY <1>5, FS_CardinalityType
<1> QED BY <1>4, <1>5, <1>6

\* Nobody has received anything from a pot that is not settled either way, and
\* no prize from one that is being refunded.
LEMMA NothingReceived ==
  ASSUME TypeOK, Tied, NEW r \in Rounds
  PROVE  /\ settlement[r].state \in {"NONE", "PENDING"} =>
              \A p \in Players : ledger[r].prize[p] = 0
         /\ settlement[r].state = "NONE" => \A p \in Players : ledger[r].refund[p] = 0
<1>1. ledger[r].prize \in [Players -> Nat] /\ ledger[r].refund \in [Players -> Nat]
  BY DEF TypeOK, LedgerType
<1>2. settlement[r].state \in {"NONE", "PENDING"} => Paid(r) = {}
  BY DEF Tied
<1>3. settlement[r].state = "NONE" => Refunded(r) = {}
  BY DEF Tied
<1>4. \A p \in Players : ledger[r].prize[p] \in Nat /\ ledger[r].refund[p] \in Nat
  BY <1>1
<1>5. ASSUME settlement[r].state \in {"NONE", "PENDING"}, NEW p \in Players
      PROVE  ledger[r].prize[p] = 0
  <2>1. Paid(r) = {}
    BY <1>2, <1>5
  <2>2. ~(ledger[r].prize[p] > 0)
    BY <1>5, <2>1 DEF Paid
  <2>3. ledger[r].prize[p] \in Nat
    BY <1>4
  <2> QED BY <2>2, <2>3
<1>6. ASSUME settlement[r].state = "NONE", NEW p \in Players
      PROVE  ledger[r].refund[p] = 0
  <2>1. Refunded(r) = {}
    BY <1>3, <1>6
  <2>2. ~(ledger[r].refund[p] > 0)
    BY <1>6, <2>1 DEF Refunded
  <2>3. ledger[r].refund[p] \in Nat
    BY <1>4
  <2> QED BY <2>2, <2>3
<1> QED BY <1>5, <1>6

Prized(top, pot) == {p \in Players : Prizes(top, pot)[p] > 0}

\* Whoever gets a share of a pot is on the podium, and shares are even.
LEMMA PrizesEven ==
  ASSUME NEW top \in Podium, NEW pot \in Nat
  PROVE  /\ \A p \in Prized(top, pot) : \E i \in 1..Len(top) : top[i] = p
         /\ Cardinality(Prized(top, pot)) <= 3
         /\ \A p, q \in Prized(top, pot) : Prizes(top, pot)[p] - Prizes(top, pot)[q] <= 2
<1> DEFINE W == Prized(top, pot)
<1>1. Len(top) \in 0..3
  BY PrizesType
<1>2. ASSUME NEW p \in W
      PROVE  /\ p \in Players /\ \E i \in 1..Len(top) : top[i] = p
             /\ \E i \in 1..Len(top) : Prizes(top, pot)[p] = Share(pot, i, Len(top))
  <2>1. p \in Players /\ Prizes(top, pot)[p] > 0
    BY <1>2 DEF Prized
  <2>2. \E i \in 1..Len(top) : top[i] = p
    BY <2>1 DEF Prizes
  <2>3. Prizes(top, pot)[p] = Share(pot, CHOOSE i \in 1..Len(top) : top[i] = p, Len(top))
    BY <2>1, <2>2 DEF Prizes
  <2>4. (CHOOSE i \in 1..Len(top) : top[i] = p) \in 1..Len(top)
    BY <2>2
  <2> QED BY <2>1, <2>2, <2>3, <2>4
<1>3. W \subseteq {top[1], top[2], top[3]}
  <2> SUFFICES ASSUME NEW p \in W PROVE p \in {top[1], top[2], top[3]}
    OBVIOUS
  <2>1. PICK i \in 1..Len(top) : top[i] = p
    BY <1>2
  <2>2. i = 1 \/ i = 2 \/ i = 3
    <3>1. \A k \in 0..3 : \A j \in 1..k : j = 1 \/ j = 2 \/ j = 3
      BY SMT
    <3> QED BY <1>1, <2>1, <3>1
  <2> QED BY <2>1, <2>2
<1>4. Cardinality(W) <= 3
  BY <1>3, AtMostThree
<1>5. ASSUME NEW p \in W, NEW q \in W
      PROVE  Prizes(top, pot)[p] - Prizes(top, pot)[q] <= 2
  <2>1. PICK i \in 1..Len(top) : Prizes(top, pot)[p] = Share(pot, i, Len(top))
    BY <1>2
  <2>2. PICK j \in 1..Len(top) : Prizes(top, pot)[q] = Share(pot, j, Len(top))
    BY <1>2
  <2>3. Len(top) \in 1..3
    BY <1>1
  <2> QED BY <2>1, <2>2, <2>3, SharesEven
<1> QED BY <1>2, <1>4, <1>5

\* PotPromise counts as this module does.
LEMMA SameCardinality ==
  ASSUME NEW r \in Rounds, NEW S
  PROVE  Promise(r)!Cardinality(S) = Cardinality(S)
BY DEF Promise!Cardinality, Cardinality

LEMMA PaysPromise ==
  ASSUME TypeOK, Tied, Entrants, NEW r \in Rounds, distribute_pot(r)
  PROVE  Promise(r)!PayWinners
<1> DEFINE v == <<sgd_mint, r>>
           top == round[r].top
           pot == balance[v]
           received == [p \in Players |-> ledger'[r].prize[p] + ledger'[r].refund[p]]
           winners == {p \in Players : received[p] > 0}
<1>0. /\ settlement \in [Rounds -> SettlementType] /\ ledger \in [Rounds -> LedgerType]
      /\ top \in Podium /\ pot \in Nat /\ settlement[r].state = "NONE"
  <2>1. v \in Vaults
    BY DistributeFrame DEF Vaults
  <2> QED BY <2>1 DEF TypeOK, RoundType, distribute_pot, unspoken_for
<1>1. /\ settlement'[r].state = "PAID"
      /\ settlement'[r].per_entrant = settlement[r].per_entrant
      /\ entries' = entries
  BY <1>0 DEF distribute_pot, SettlementType
<1>2. \A p \in Players : ledger[r].prize[p] = 0 /\ ledger[r].refund[p] = 0
  BY <1>0, NothingReceived
<1>3. /\ winners \subseteq entries[r]
      /\ Cardinality(winners) <= 3
      /\ \A p, q \in winners : received[p] - received[q] <= 2
  <2>1. CASE ledger' = ledger
    <3>1. winners = {}
      BY <1>2, <2>1
    <3>2. Cardinality({}) = 0
      BY FS_EmptySet
    <3> HIDE DEF winners, received
    <3> QED BY <3>1, <3>2
  <2>2. CASE ledger' = [ledger EXCEPT ![r].prize = Prizes(top, pot)]
    <3>1. ledger'[r].prize = Prizes(top, pot) /\ ledger'[r].refund = ledger[r].refund
      <4> DEFINE f == Prizes(top, pot)
      <4>1. ledger' = [ledger EXCEPT ![r] = [@ EXCEPT !.prize = f]]
        BY <2>2
      <4> HIDE DEF f
      <4>2. ledger'[r].prize = f /\ ledger'[r].refund = ledger[r].refund
        BY <1>0, <4>1 DEF LedgerType
      <4> QED BY <4>2 DEF f
    <3>2. Prizes(top, pot) \in [Players -> Nat]
      BY <1>0, PrizesType
    <3> HIDE DEF top, pot, v
    <3>3. \A p \in Players : received[p] = Prizes(top, pot)[p]
      BY <1>2, <3>1, <3>2
    <3> HIDE DEF received
    <3>4. winners = Prized(top, pot)
      BY <3>3 DEF Prized
    <3>5. \A p \in winners : p \in Players
      OBVIOUS
    <3> HIDE DEF winners
    <3>6. /\ \A p \in winners : \E i \in 1..Len(top) : top[i] = p
          /\ Cardinality(winners) <= 3
          /\ \A p, q \in winners : Prizes(top, pot)[p] - Prizes(top, pot)[q] <= 2
      <4>1. top \in Podium /\ pot \in Nat
        BY <1>0
      <4> QED BY <3>4, <4>1, PrizesEven
    <3>7. \A i \in 1..Len(top) : top[i] \in entries[r]
      BY DEF Entrants, distribute_pot, top
    <3> QED BY <3>3, <3>5, <3>6, <3>7
  <2> QED BY <2>1, <2>2 DEF distribute_pot
<1>4. Promise(r)!Cardinality(winners) <= 3
  BY <1>3, SameCardinality
<1> QED BY <1>0, <1>1, <1>3, <1>4 DEF Promise!PayWinners

\* The first call on a round with nothing to hand back ends its refund.
LEMMA NothingPromise ==
  ASSUME TypeOK, Tied, Entrants, NEW r \in Rounds, refund_unrevealed_pot(r), refund_nothing(r)
  PROVE  Promise(r)!Refund
<1>0. /\ settlement \in [Rounds -> SettlementType] /\ settlement[r].state = "NONE"
      /\ RefundTerms(r) \in SettlementType /\ sgd_mint \in Mints
      /\ UNCHANGED <<entries, ledger>>
  BY RefundFrame, RefundTermsType DEF TypeOK, refund_nothing
<1>1. /\ settlement'[r].state = "REFUNDED"
      /\ settlement'[r].per_entrant = RefundTerms(r).per_entrant
  BY <1>0 DEF refund_nothing, SettlementType
<1>2. \A p \in Players : ledger[r].prize[p] = 0 /\ ledger[r].refund[p] = 0
  BY <1>0, NothingReceived
<1>3. entries[r] = {} \/ RefundTerms(r).per_entrant = 0
  <2>1. RefundTerms(r).entrant_count = Cardinality(entries[r])
    BY <1>0, Terms DEF Entrants
  <2>2. IsFiniteSet(entries[r])
    BY PlayersAssumption, FS_Subset DEF TypeOK
  <2>3. Cardinality(entries[r]) = 0 => entries[r] = {}
    BY <2>2, FS_EmptySet
  <2> QED BY <2>1, <2>3 DEF refund_nothing
<1>4. entries[r] \subseteq Players
  BY DEF TypeOK
<1> QED BY <1>0, <1>1, <1>2, <1>3, <1>4 DEF Promise!Refund

\* A batch gives new people what the others got, and ends the refund exactly
\* when nobody is left.
LEMMA BatchPromise ==
  ASSUME TypeOK, Tied, Entrants, Batches, NEW r \in Rounds,
         refund_unrevealed_pot(r), ~refund_nothing(r)
  PROVE  Promise(r)!Refund
<1>1. PICK s \in SettlementType, batch \in SUBSET entries[r] : \E last \in batch :
        /\ PayBatch(r, s, batch, last) /\ Reached(r, s)
        /\ settlement[r].state = "PENDING" => s = settlement[r]
  BY SomeBatch
<1> DEFINE each == s.per_entrant
           R == Refunded(r)'
<1>2. /\ \A p \in batch : ledger[r].refund[p] = 0
      /\ \A p \in Players : ledger'[r].refund[p] =
           IF p \in batch THEN each ELSE ledger[r].refund[p]
      /\ settlement'[r].per_entrant = each
      /\ settlement'[r].state = refund_state(s, Cardinality(R))
      /\ Reached(r, settlement[r])'
  BY <1>1, BatchReaches
<1>3. /\ settlement[r].state \in {"NONE", "PENDING"}
      /\ \A p \in Players : ledger[r].prize[p] = 0 /\ ledger'[r].prize[p] = 0
  <2>1. settlement[r].state \in {"NONE", "PENDING"}
    BY DEF refund_unrevealed_pot, refund_nothing, refund_first_batch, refund_next_batch
  <2>2. ledger'[r].prize = ledger[r].prize
    BY <1>1 DEF PayBatch, TypeOK, LedgerType
  <2> QED BY <2>1, <2>2, NothingReceived
<1>4. /\ entries' = entries /\ entries[r] \subseteq Players /\ each \in Nat /\ each > 0
      /\ \A p \in Players : ledger[r].refund[p] \in Nat
  <2>1. \A x \in 0..Fee : x \in Nat
    BY FeeAssumption
  <2>2. each \in 0..Fee /\ each > 0
    BY <1>1 DEF SettlementType, Reached
  <2> QED BY <1>1, <2>1, <2>2 DEF PayBatch, TypeOK, LedgerType
<1>5. settlement'[r].state = IF \A p \in entries[r] : ledger'[r].refund[p] = each
                             THEN "REFUNDED" ELSE "PENDING"
  <2>1. /\ R \subseteq entries[r]
        /\ \A p \in R : ledger'[r].refund[p] = each
    BY <1>2, <1>4 DEF Reached
  <2>2. IsFiniteSet(entries[r])
    BY <1>4, PlayersAssumption, FS_Subset
  <2>3. Cardinality(R) = Cardinality(entries[r]) <=> R = entries[r]
    BY <2>1, <2>2, FS_Subset
  <2>4. R = entries[r] <=> \A p \in entries[r] : ledger'[r].refund[p] = each
    <3>1. \A p \in entries[r] : ledger'[r].refund[p] = each => p \in R
      BY <1>4 DEF Refunded
    <3> QED BY <2>1, <3>1
  <2>5. s.entrant_count = Cardinality(entries[r])
    BY <1>1 DEF Reached
  <2> QED BY <1>2, <2>3, <2>4, <2>5 DEF refund_state
<1> DEFINE got(p) == ledger[r].prize[p] + ledger[r].refund[p]
           gets(p) == ledger'[r].prize[p] + ledger'[r].refund[p]
<1>6. \A p \in Players : got(p) = ledger[r].refund[p] /\ gets(p) = ledger'[r].refund[p]
  BY <1>2, <1>3, <1>4
<1>7. \A p \in Players : gets(p) # got(p) => p \in entries[r] /\ got(p) = 0 /\ gets(p) = each
  BY <1>2, <1>6
<1>8. settlement'[r].state = IF \A p \in entries[r] : gets(p) = each
                             THEN "REFUNDED" ELSE "PENDING"
  BY <1>4, <1>5, <1>6
<1>9. settlement[r].state = "PENDING" => settlement'[r].per_entrant = settlement[r].per_entrant
  BY <1>1, <1>2
<1> HIDE DEF each
<1> QED BY <1>2, <1>3, <1>4, <1>7, <1>8, <1>9 DEF Promise!Refund

-----------------------------------------------------------------------------
\* Every step of the machine is a step of every round's promise, or a stutter.
LEMMA PromiseStep ==
  ASSUME TypeOK, Tied, Lifecycle, Entrants, Batches, [Next]_vars, NEW r \in Rounds
  PROVE  [Promise(r)!Next]_(Promise(r)!vars)
<1>1. CASE distribute_pot(r)
  BY <1>1, PaysPromise DEF Promise!Next
<1>2. CASE refund_unrevealed_pot(r)
  BY <1>2, NothingPromise, BatchPromise DEF Promise!Next
<1>3. CASE Untouched(r) /\ entries'[r] = entries[r]
  BY <1>3, Stutters
<1>4. CASE Untouched(r) /\ entries'[r] # entries[r]
  BY <1>4, EntriesStep, EntersPromise DEF Promise!Next
<1> QED BY <1>1, <1>2, <1>3, <1>4, Movers

LEMMA PromiseInit ==
  ASSUME Init, NEW r \in Rounds
  PROVE  Promise(r)!Init
<1>1. /\ settlement[r] = NewSettlement /\ entries[r] = {} /\ ledger[r] = NewLedger
  BY DEF Init
<1>2. NewSettlement.state = "NONE" /\ NewSettlement.per_entrant = 0
  BY DEF NewSettlement
<1>3. \A p \in Players : NewLedger.prize[p] = 0 /\ NewLedger.refund[p] = 0
  BY DEF NewLedger
<1> QED BY <1>1, <1>2, <1>3 DEF Promise!Init

\* Every round's settlement implements PotPromise: whatever distributions,
\* slices of entrants, late reveals and mint moves interleave, either the podium
\* shares one payment evenly or every entrant gets the same amount once
\* (distribute_pot, refund_unrevealed_pot).
THEOREM PotKeepsPromise == Spec => PromiseKept
<1>1. Init => \A r \in Rounds : Promise(r)!Init
  BY PromiseInit
<1>2. TypeOK /\ Tied /\ Lifecycle /\ Entrants /\ Batches /\ [Next]_vars
        => [\A r \in Rounds : [Promise(r)!Next]_(Promise(r)!vars)]_vars
  BY PromiseStep
<1> QED BY <1>1, <1>2, TypeCorrect, TiedInv, LifecycleInv, EntrantsInv, BatchesInv, PTL
        DEF Spec, PromiseKept
=============================================================================
