------------------------------- MODULE SgdPot -------------------------------
(***************************************************************************)
(* The $SGD entry fee and the per-round prize pot: the life of a           *)
(* competition round as far as money is concerned (open_round,             *)
(* submit_entry, close_round, finalize_round), the RoundSettlement state   *)
(* machine (distribute_pot, refund_unrevealed_pot), the vault close        *)
(* (close_pot_vault) and the pinned mint (set_sgd_mint, update_sgd_mint).  *)
(*                                                                         *)
(* A round's vault is the associated token account of the round's pot      *)
(* authority for ONE mint, and every pot instruction derives it from the   *)
(* mint the config names when it runs; so vaults are indexed by mint and   *)
(* round.  Creating an associated token account and transferring into one  *)
(* are permissionless, hence CreateVault and Donate.                       *)
(*                                                                         *)
(* A player stands for the entry account (round, player) too: the entry's  *)
(* pubkey order, on which refund batches depend, is the order of Players.  *)
(* How winners are found is the business of module Bracket; here a reveal  *)
(* lands at any moment the bracket allows, naming any winners it could.    *)
(***************************************************************************)
EXTENDS Integers, FiniteSets, Sequences

CONSTANTS
  Players,       \* entrants, in the pubkey order of their entry accounts
  Mints,         \* six-decimal mints the authority may pin
  NoMint,        \* Pubkey::default() in config.sgd_mint
  MaxRounds,     \* bound: rounds opened
  Fee,           \* ENTRY_FEE_SGD
  Capacity,      \* ROUND_CAPACITY
  MaxDonated     \* bound: base units donated into one vault

ASSUME PlayersAssumption == Players \subseteq Nat \ {0} /\ IsFiniteSet(Players)
ASSUME MintsAssumption == NoMint \notin Mints
ASSUME BoundsAssumption == MaxRounds \in Nat /\ Capacity \in Nat /\ MaxDonated \in Nat
ASSUME FeeAssumption == Fee \in Nat \ {0}

VARIABLES
  paused,        \* config.paused
  sgd_mint,      \* config.sgd_mint
  current_round, \* config.current_round
  round,         \* the CompetitionRound accounts
  entries,       \* the players holding a CompetitionEntry of each round
  settlement,    \* the RoundSettlement accounts
  vaults,        \* the vault accounts that exist, as pairs <<mint, round>>
  balance,       \* base units in each of them
  ledger         \* history: what each round's money became

vars == <<paused, sgd_mint, current_round, round, entries, settlement,
          vaults, balance, ledger>>

Rounds == 1..MaxRounds
Vaults == Mints \X Rounds

(***************************************************************************)
(* A round's clock moves through the instants the guards tell apart: the   *)
(* operator may close once it is no longer "fresh"                         *)
(* (MIN_OPERATOR_CLOSE_DELAY), entries stop at end_time ("over"), refunds  *)
(* start POT_REFUND_MIN_AGE after it ("aged").                             *)
(***************************************************************************)
Clock == <<"fresh", "running", "over", "aged">>

NewRound == [status |-> "OPEN", clock |-> 1, participant_count |-> 0,
             scoring_revealed |-> FALSE, top |-> <<>>]
NoRound == [NewRound EXCEPT !.status = "NONE"]

NewSettlement == [state |-> "NONE", total_settled |-> 0, recipient_count |-> 0,
                  entrant_count |-> 0, per_entrant |-> 0, surplus |-> 0,
                  cursor |-> 0]

(***************************************************************************)
(* History, never read by an action: the mint entrants paid in, prizes and *)
(* refunds received, base units swept to the authority and donated.        *)
(***************************************************************************)
NewLedger == [mint |-> NoMint,
              prize |-> [p \in Players |-> 0],
              refund |-> [p \in Players |-> 0],
              swept |-> [m \in Mints |-> 0],
              donated |-> [m \in Mints |-> 0]]

\* mutant: a refund in progress counts as finished.
is_terminal_or_pending(s) == s.state # "NONE"

is_terminal(s) == s.state \in {"PAID", "REFUNDED"}

Init ==
  /\ paused = FALSE
  /\ sgd_mint = NoMint
  /\ current_round = 0
  /\ round = [r \in Rounds |-> NoRound]
  /\ entries = [r \in Rounds |-> {}]
  /\ settlement = [r \in Rounds |-> NewSettlement]
  /\ vaults = {}
  /\ balance = [v \in Vaults |-> 0]
  /\ ledger = [r \in Rounds |-> NewLedger]

-----------------------------------------------------------------------------
(***************************************************************************)
(* Administration.                                                         *)
(***************************************************************************)
SetPaused(b) ==
  /\ paused' = b
  /\ UNCHANGED <<sgd_mint, current_round, round, entries, settlement, vaults,
                 balance, ledger>>

set_sgd_mint(m) ==
  /\ sgd_mint = NoMint
  /\ sgd_mint' = m
  /\ UNCHANGED <<paused, current_round, round, entries, settlement, vaults,
                 balance, ledger>>

update_sgd_mint(m) ==
  /\ current_round > 0
  /\ round[current_round].status = "FINALIZED"
  /\ \/ round[current_round].participant_count = 0
     \/ is_terminal(settlement[current_round])
  /\ m # sgd_mint
  /\ sgd_mint' = m
  /\ UNCHANGED <<paused, current_round, round, entries, settlement, vaults,
                 balance, ledger>>

-----------------------------------------------------------------------------
(***************************************************************************)
(* The round.                                                              *)
(***************************************************************************)
open_round ==
  LET r == current_round + 1 IN
  /\ r \in Rounds
  /\ ~paused
  /\ sgd_mint # NoMint
  /\ current_round > 0 => round[current_round].status = "FINALIZED"
  /\ round' = [round EXCEPT ![r] = NewRound]
  /\ current_round' = r
  /\ vaults' = vaults \cup {<<sgd_mint, r>>}
  /\ ledger' = [ledger EXCEPT ![r].mint = sgd_mint]
  /\ UNCHANGED <<paused, sgd_mint, entries, settlement, balance>>

\* mutant: the RoundFull check is dropped.
accepting_overfull(r) ==
  round[r].status = "OPEN" /\ Clock[round[r].clock] \in {"fresh", "running"}

accepting(r) ==
  /\ round[r].status = "OPEN"
  /\ Clock[round[r].clock] \in {"fresh", "running"}
  /\ round[r].participant_count < Capacity

submit_entry(r, p) ==
  LET v == <<sgd_mint, r>> IN
  /\ ~paused
  /\ p \notin entries[r]
  /\ accepting(r)
  /\ v \in vaults
  /\ balance' = [balance EXCEPT ![v] = @ + Fee]
  /\ entries' = [entries EXCEPT ![r] = @ \cup {p}]
  /\ round' = [round EXCEPT ![r].participant_count = @ + 1]
  /\ UNCHANGED <<paused, sgd_mint, current_round, settlement, vaults, ledger>>

\* The authority may close at any time, an operator only after the delay.
close_round(r, signer) ==
  /\ round[r].status = "OPEN"
  /\ signer # "authority" => Clock[round[r].clock] # "fresh"
  /\ round' = [round EXCEPT ![r].status = "CLOSED"]
  /\ UNCHANGED <<paused, sgd_mint, current_round, entries, settlement, vaults,
                 balance, ledger>>

finalize_round(r) ==
  /\ round[r].status = "CLOSED"
  /\ round' = [round EXCEPT ![r].status = "FINALIZED"]
  /\ UNCHANGED <<paused, sgd_mint, current_round, entries, settlement, vaults,
                 balance, ledger>>

WinnerCount(r) == IF round[r].participant_count < 3 THEN round[r].participant_count ELSE 3

\* The bracket's result is applied: it may land before or after finalization.
apply_bracket_result(r, top) ==
  /\ round[r].status \in {"CLOSED", "FINALIZED"}
  /\ round[r].participant_count > 0
  /\ ~round[r].scoring_revealed
  /\ Len(top) = WinnerCount(r)
  /\ \A i \in 1..Len(top) : top[i] \in entries[r]
  /\ \A i, j \in 1..Len(top) : top[i] = top[j] => i = j
  /\ round' = [round EXCEPT ![r].scoring_revealed = TRUE, ![r].top = top]
  /\ UNCHANGED <<paused, sgd_mint, current_round, entries, settlement, vaults,
                 balance, ledger>>

\* Deadlines are ordered as the rounds are: an older round is never behind.
Tick(r) ==
  /\ round[r].status # "NONE"
  /\ round[r].clock < Len(Clock)
  /\ \A q \in 1..(r - 1) : round[q].clock > round[r].clock
  /\ round' = [round EXCEPT ![r].clock = @ + 1]
  /\ UNCHANGED <<paused, sgd_mint, current_round, entries, settlement, vaults,
                 balance, ledger>>

-----------------------------------------------------------------------------
(***************************************************************************)
(* Settling the pot.                                                       *)
(***************************************************************************)
\* mutant: the truncation remainder is left in the vault's books as paid.
Share_truncated(pot, i, k) == pot \div k

\* What the winner of rank i of k takes: equal shares, the remainder last.
Share(pot, i, k) == IF i = k THEN pot - (pot \div k) * (k - 1) ELSE pot \div k

Prizes(top, pot) ==
  [p \in Players |->
     IF \E i \in 1..Len(top) : top[i] = p
     THEN Share(pot, CHOOSE i \in 1..Len(top) : top[i] = p, Len(top))
     ELSE 0]

\* mutant: only a finished settlement is in the way, as with the two old markers.
unspoken_for_unless_done(s) == ~is_terminal(s)

\* mutant: nothing is in the way.
unspoken_for_always(s) == TRUE

\* No outcome has been started: what distribute_pot asks of the settlement.
unspoken_for(s) == s.state = "NONE"

distribute_pot(r) ==
  LET v == <<sgd_mint, r>>
      top == round[r].top
      k == Len(top)
      pot == balance[v] IN
  /\ v \in vaults
  /\ unspoken_for(settlement[r])
  /\ round[r].status = "FINALIZED"
  /\ round[r].scoring_revealed
  /\ \/ /\ k = 0 \/ pot = 0
        /\ settlement' = [settlement EXCEPT ![r].state = "PAID"]
        /\ UNCHANGED <<balance, ledger>>
     \/ /\ k > 0 /\ pot >= k
        /\ settlement' = [settlement EXCEPT ![r].state = "PAID",
                                            ![r].total_settled = pot,
                                            ![r].recipient_count = k]
        /\ balance' = [balance EXCEPT ![v] = 0]
        /\ ledger' = [ledger EXCEPT ![r].prize = Prizes(top, pot)]
  /\ UNCHANGED <<paused, sgd_mint, current_round, round, entries, vaults>>

refundable(r) ==
  /\ <<sgd_mint, r>> \in vaults
  /\ round[r].status = "FINALIZED"
  /\ ~round[r].scoring_revealed
  /\ Clock[round[r].clock] = "aged"

\* The terms a refund's first batch freezes.
RefundTerms(r) ==
  LET n == round[r].participant_count
      pot == balance[<<sgd_mint, r>>]
      affordable == IF n = 0 THEN 0 ELSE pot \div n
      each == IF affordable < Fee THEN affordable ELSE Fee IN
  [state |-> "PENDING", total_settled |-> 0, recipient_count |-> 0,
   entrant_count |-> n, per_entrant |-> each, surplus |-> pot - each * n,
   cursor |-> 0]

\* mutant: the cursor comparison is not strict.
in_order_weakly(s, batch, last) == \A p \in batch : p >= s.cursor /\ p <= last

\* Strictly ascending from the cursor up to last.
in_order(s, batch, last) == \A p \in batch : p > s.cursor /\ p <= last

refund_state(s, count) ==
  IF count = s.entrant_count THEN "REFUNDED" ELSE "PENDING"

\* Pays the entries of batch, all above the cursor; last is the highest.
PayBatch(r, s, batch, last) ==
  LET v == <<sgd_mint, r>>
      n == Cardinality(batch)
      count == s.recipient_count + n IN
  /\ in_order(s, batch, last)
  /\ n <= s.entrant_count - s.recipient_count
  /\ balance[v] >= n * s.per_entrant
  /\ balance' = [balance EXCEPT ![v] = @ - n * s.per_entrant]
  /\ settlement' = [settlement EXCEPT ![r] =
       [s EXCEPT !.state = refund_state(s, count),
                 !.total_settled = @ + n * s.per_entrant,
                 !.recipient_count = count,
                 !.cursor = last]]
  /\ ledger' = [ledger EXCEPT ![r].refund =
       [p \in Players |-> IF p \in batch THEN @[p] + s.per_entrant ELSE @[p]]]
  /\ UNCHANGED <<paused, sgd_mint, current_round, round, entries, vaults>>

\* First call on a round with nothing to hand back.
refund_nothing(r) ==
  LET s == RefundTerms(r) IN
  /\ refundable(r)
  /\ settlement[r].state = "NONE"
  /\ s.entrant_count = 0 \/ s.per_entrant = 0
  /\ settlement' = [settlement EXCEPT ![r] = [s EXCEPT !.state = "REFUNDED"]]
  /\ UNCHANGED <<paused, sgd_mint, current_round, round, entries, vaults,
                 balance, ledger>>

refund_first_batch(r, batch, last) ==
  LET s == RefundTerms(r) IN
  /\ refundable(r)
  /\ settlement[r].state = "NONE"
  /\ s.entrant_count > 0 /\ s.per_entrant > 0
  /\ batch \subseteq entries[r] /\ last \in batch
  /\ PayBatch(r, s, batch, last)

refund_next_batch(r, batch, last) ==
  /\ refundable(r)
  /\ settlement[r].state = "PENDING"
  /\ batch \subseteq entries[r] /\ last \in batch
  /\ PayBatch(r, settlement[r], batch, last)

refund_unrevealed_pot(r) ==
  \/ refund_nothing(r)
  \/ \E batch \in SUBSET entries[r] : \E last \in batch :
       refund_first_batch(r, batch, last) \/ refund_next_batch(r, batch, last)

\* mutant: the RoundHadEntrants check is dropped.
vault_closable_with_entrants(r) ==
  round[r].status = "FINALIZED" /\ (settlement[r].state = "NONE" \/ is_terminal(settlement[r]))

\* Settled, or finalized with nobody in it and never settled.
vault_closable(r) ==
  IF settlement[r].state = "NONE"
  THEN round[r].status = "FINALIZED" /\ round[r].participant_count = 0
  ELSE is_terminal(settlement[r])

close_pot_vault(r) ==
  LET v == <<sgd_mint, r>> IN
  /\ v \in vaults
  /\ vault_closable(r)
  /\ ledger' = [ledger EXCEPT ![r].swept[sgd_mint] = @ + balance[v]]
  /\ balance' = [balance EXCEPT ![v] = 0]
  /\ vaults' = vaults \ {v}
  /\ UNCHANGED <<paused, sgd_mint, current_round, round, entries, settlement>>

-----------------------------------------------------------------------------
(***************************************************************************)
(* What the token program lets anyone do.                                  *)
(***************************************************************************)
CreateVault(v) ==
  /\ v \notin vaults
  /\ vaults' = vaults \cup {v}
  /\ UNCHANGED <<paused, sgd_mint, current_round, round, entries, settlement,
                 balance, ledger>>

Donate(v) ==
  /\ v \in vaults
  /\ ledger[v[2]].donated[v[1]] < MaxDonated
  /\ balance' = [balance EXCEPT ![v] = @ + 1]
  /\ ledger' = [ledger EXCEPT ![v[2]].donated[v[1]] = @ + 1]
  /\ UNCHANGED <<paused, sgd_mint, current_round, round, entries, settlement,
                 vaults>>

-----------------------------------------------------------------------------
Tops(r) == UNION {[1..n -> entries[r]] : n \in 1..3}

Next ==
  \/ \E b \in BOOLEAN : SetPaused(b)
  \/ \E m \in Mints : set_sgd_mint(m) \/ update_sgd_mint(m)
  \/ open_round
  \/ \E r \in Rounds :
       \/ \E p \in Players : submit_entry(r, p)
       \/ \E signer \in {"authority", "operator"} : close_round(r, signer)
       \/ finalize_round(r)
       \/ \E top \in Tops(r) : apply_bracket_result(r, top)
       \/ Tick(r)
       \/ distribute_pot(r)
       \/ refund_unrevealed_pot(r)
       \/ close_pot_vault(r)
  \/ \E v \in Vaults : CreateVault(v) \/ Donate(v)

Spec == Init /\ [][Next]_vars

(***************************************************************************)
(* The clock advances, the daily operator job pays a revealed round, and   *)
(* the authority keeps presenting a next slice of an unrevealed round's    *)
(* entrants.                                                               *)
(***************************************************************************)
RefundNextSlice(r) ==
  LET left == {p \in entries[r] : p > settlement[r].cursor} IN
  \/ refund_nothing(r)
  \/ \E last \in left :
       LET batch == {p \in left : p <= last} IN
       refund_first_batch(r, batch, last) \/ refund_next_batch(r, batch, last)

Fairness ==
  \A r \in Rounds :
    WF_vars(Tick(r)) /\ WF_vars(distribute_pot(r)) /\ WF_vars(RefundNextSlice(r))

FairSpec == Spec /\ Fairness

-----------------------------------------------------------------------------
(***************************************************************************)
(* Properties.                                                             *)
(***************************************************************************)
Podium == UNION {[1..n -> Players] : n \in 0..3}

RoundType ==
  [status : {"NONE", "OPEN", "CLOSED", "FINALIZED"}, clock : 1..Len(Clock),
   participant_count : 0..Capacity, scoring_revealed : BOOLEAN,
   top : Podium]

SettlementType ==
  [state : {"NONE", "PENDING", "PAID", "REFUNDED"}, total_settled : Nat,
   recipient_count : Nat, entrant_count : Nat, per_entrant : 0..Fee,
   surplus : Nat, cursor : Players \cup {0}]

LedgerType ==
  [mint : Mints \cup {NoMint}, prize : [Players -> Nat], refund : [Players -> Nat],
   swept : [Mints -> Nat], donated : [Mints -> 0..MaxDonated]]

\* Every account field stays in its range: in particular no round takes more
\* entries than max_participants and no vault is overdrawn.
TypeOK ==
  /\ paused \in BOOLEAN
  /\ sgd_mint \in Mints \cup {NoMint}
  /\ current_round \in 0..MaxRounds
  /\ round \in [Rounds -> RoundType]
  /\ entries \in [Rounds -> SUBSET Players]
  /\ settlement \in [Rounds -> SettlementType]
  /\ vaults \subseteq Vaults
  /\ balance \in [Vaults -> Nat]
  /\ ledger \in [Rounds -> LedgerType]

Paid(r) == {p \in Players : ledger[r].prize[p] > 0}
Refunded(r) == {p \in Players : ledger[r].refund[p] > 0}

\* A round's money leaves it one way only: once any winner has been paid no
\* entrant is ever refunded, and once any entrant has been refunded no winner
\* is ever paid (constants.rs: PAID and REFUNDED mutually exclusive), across
\* every interleaving of distributions, refund batches and late reveals.
PaidOrRefunded == \A r \in Rounds : Paid(r) = {} \/ Refunded(r) = {}

\* The vault a round's entrants paid into covers what is still owed out of it:
\* every fee while nothing is decided, and the rest of the flat refund while
\* one is in progress; so no batch can fail with PotTooSmall.
Solvent ==
  \A r \in Rounds :
    LET s == settlement[r]
        held == balance[<<ledger[r].mint, r>>] IN
    /\ round[r].status # "NONE" /\ s.state = "NONE" =>
         held >= Fee * round[r].participant_count
    /\ s.state = "PENDING" =>
         held >= s.per_entrant * (s.entrant_count - s.recipient_count)

\* What close_pot_vault sweeps to the authority is never an entrant's money:
\* it never exceeds what was donated to that vault.
OnlySurplusIsSwept ==
  \A r \in Rounds, m \in Mints : ledger[r].swept[m] <= ledger[r].donated[m]

\* The base units an amount for every player comes to, counted one by one.
Units(f) == UNION {{p} \X (1..f[p]) : p \in Players}
Sum(f) == Cardinality(Units(f))

\* A round's money is conserved as long as the mint moves only between settled
\* rounds: what entrants paid and donors gave is in the vault, or with winners or
\* entrants, or swept; so a distribution never strands or invents a base unit.
MoneyConserved ==
  \A r \in Rounds : ledger[r].mint # NoMint =>
    LET m == ledger[r].mint IN
    balance[<<m, r>>] + Sum(ledger[r].prize) + Sum(ledger[r].refund) + ledger[r].swept[m]
      = Fee * round[r].participant_count + ledger[r].donated[m]

\* A terminal settlement never changes again: no replay, no second outcome.
SettledForGood ==
  [][\A r \in Rounds : is_terminal(settlement[r]) => settlement'[r] = settlement[r]]_vars

-----------------------------------------------------------------------------
(***************************************************************************)
(* The settlement of each round implements PotPromise.                     *)
(***************************************************************************)
Promise(r) == INSTANCE PotPromise WITH
  People <- Players,
  outcome <- settlement[r].state,
  entrants <- entries[r],
  each <- settlement[r].per_entrant,
  received <- [p \in Players |-> ledger[r].prize[p] + ledger[r].refund[p]]

\* Every round keeps the promise: one outcome, winners sharing evenly in one
\* step, or every entrant the same amount back exactly once.  (The conjunction
\* of every Promise(r)!Spec, with the quantifiers inside the boxes.)
PromiseKept ==
  /\ \A r \in Rounds : Promise(r)!Init
  /\ [][\A r \in Rounds : [Promise(r)!Next]_(Promise(r)!vars)]_vars

-----------------------------------------------------------------------------
\* An entrant left out of a batch that a later one was in is out of reach for
\* good; refund_unrevealed_pot's doc calls that stuck state visible.
Skipped(r) ==
  /\ settlement[r].state = "PENDING"
  /\ \E p \in entries[r] : p <= settlement[r].cursor /\ ledger[r].refund[p] = 0

\* A finalized round's pot is eventually settled, unless its refund has begun
\* and either skipped somebody or was overtaken by the round's reveal.
EventuallySettled ==
  \A r \in Rounds :
    round[r].status = "FINALIZED" /\ round[r].participant_count > 0
      ~> \/ is_terminal(settlement[r])
         \/ Skipped(r)
         \/ settlement[r].state = "PENDING" /\ round[r].scoring_revealed

\* What update_sgd_mint's doc says of the settlement it relies on: it cannot be
\* created except by the instruction that actually moved the money; so a round
\* that took fees and is settled has paid somebody.
SettlementMovedTheMoney ==
  \A r \in Rounds :
    is_terminal(settlement[r]) /\ round[r].participant_count > 0 =>
      Paid(r) \cup Refunded(r) # {}
=============================================================================
