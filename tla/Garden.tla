------------------------------- MODULE Garden -------------------------------
(***************************************************************************)
(* Players, their flowers, breeding experiments and flower NFTs.           *)
(*                                                                         *)
(* start_breeding locks two flowers and pre-creates the offspring;         *)
(* breed_v5_callback, or after a timeout cancel_expired_experiment,        *)
(* unlocks them.  submit_entry commits a flower to a round, release_flower *)
(* returns it.  A flower may be minted as an NFT, which trades without     *)
(* this program running: the flower's owner is then a cache, reconciled by *)
(* sync_flower_owner at the head of most instructions, which also moves    *)
(* the collection counters of the two profiles.  While the flower is in    *)
(* use its token is frozen.                                                *)
(*                                                                         *)
(* An instruction's signer is its first argument when it matters.  Fees,   *)
(* rounds' deadlines and capacity are module SgdPot's.                     *)
(***************************************************************************)
EXTENDS Integers, FiniteSets

CONSTANTS
  Players,
  Nobody,                 \* no player
  Gardeners,              \* bound: the players who claim starters
  STARTER_COUNT,
  FLOWER_COLLECTION_CAP,
  MAX_BREEDS_PER_ROUND,
  MAX_BREEDS_AS_PARENT,
  MaxIndex,               \* bound: flower indices per player
  MaxExperiments,         \* bound: experiments per player
  MaxMints,               \* bound: flowers minted
  MaxRounds               \* bound: rounds opened

ASSUME PlayersAssumption == IsFiniteSet(Players) /\ Gardeners \subseteq Players /\ Nobody \notin Players
ASSUME NumbersAssumption ==
  /\ STARTER_COUNT \in Nat /\ FLOWER_COLLECTION_CAP \in Nat
  /\ MAX_BREEDS_PER_ROUND \in Nat \ {0} /\ MAX_BREEDS_AS_PARENT \in Nat
  /\ MaxIndex \in Nat /\ MaxExperiments \in Nat /\ MaxMints \in Nat /\ MaxRounds \in Nat
  /\ STARTER_COUNT <= MaxIndex

\* Accounts derived from a player and a number: flowers and experiments.
Flowers == Players \X (0..MaxIndex - 1)
Experiments == Players \X (0..MaxExperiments - 1)
Rounds == 1..MaxRounds
NoKey == <<Nobody, 0>>    \* the default pubkey

VARIABLES
  paused,         \* config.paused
  current_round,  \* config.current_round
  round_status,   \* of each round
  profile,        \* the PlayerProfile accounts
  flower,         \* the FlowerRecord accounts
  nft,            \* each flower's mint and the one token account that holds it
  experiment,     \* the Experiment accounts
  computations,   \* experiments queued with the MPC cluster and not answered
  entry           \* the CompetitionEntry accounts, by round and player

rounds == <<current_round, round_status>>
vars == <<paused, rounds, profile, flower, nft, experiment, computations, entry>>

NoProfile ==
  [exists |-> FALSE, starter_claimed |-> FALSE, total_flowers |-> 0,
   active_experiment_count |-> 0, total_experiments |-> 0, next_flower_index |-> 0,
   breeds_this_round |-> 0, last_breed_round |-> 0]

\* cooling: transfer_cooldown_active, true from last_transfer_at until the
\* round then running has ended.
NoFlower ==
  [status |-> "NONE", owner |-> Nobody, genome |-> "NONE", source_experiment |-> NoKey,
   bred |-> 0, cooling |-> FALSE]

Starter(p) == [NoFlower EXCEPT !.status = "ACTIVE", !.owner = p, !.genome = "STARTER"]
Offspring(p, x) ==
  [NoFlower EXCEPT !.status = "LOCKED", !.owner = p, !.genome = "ENCRYPTED",
                   !.source_experiment = x]

NeverMinted == [state |-> "NEVER", holder |-> Nobody, frozen |-> FALSE]
Burned == [state |-> "BURNED", holder |-> Nobody, frozen |-> FALSE]
HeldBy(p) == [state |-> "HELD", holder |-> p, frozen |-> FALSE]

NoExperiment ==
  [status |-> "NONE", parents |-> {}, offspring |-> NoKey, timed_out |-> FALSE]

NoEntry == [status |-> "NONE", flower |-> NoKey]

Init ==
  /\ paused = FALSE
  /\ current_round = 0
  /\ round_status = [r \in Rounds |-> "NONE"]
  /\ profile = [p \in Players |-> NoProfile]
  /\ flower = [f \in Flowers |-> NoFlower]
  /\ nft = [f \in Flowers |-> NeverMinted]
  /\ experiment = [x \in Experiments |-> NoExperiment]
  /\ computations = {}
  /\ entry = [r \in Rounds |-> [p \in Players |-> NoEntry]]

-----------------------------------------------------------------------------
(***************************************************************************)
(* Configuration, rounds, profiles.                                        *)
(***************************************************************************)
SetPaused(b) ==
  /\ paused' = b
  /\ UNCHANGED <<rounds, profile, flower, nft, experiment, computations, entry>>

open_round ==
  /\ ~paused
  /\ current_round < MaxRounds
  /\ current_round > 0 => round_status[current_round] = "FINALIZED"
  /\ current_round' = current_round + 1
  /\ round_status' = [round_status EXCEPT ![current_round + 1] = "OPEN"]
  /\ UNCHANGED <<paused, profile, flower, nft, experiment, computations, entry>>

\* close_round and finalize_round, neither gated by the pause.
advance_round(from, to) ==
  /\ current_round > 0 /\ round_status[current_round] = from
  /\ round_status' = [round_status EXCEPT ![current_round] = to]
  /\ UNCHANGED <<paused, current_round, profile, flower, nft, experiment, computations, entry>>

close_round == advance_round("OPEN", "CLOSED")
finalize_round == advance_round("CLOSED", "FINALIZED")

create_profile(p) ==
  /\ ~paused
  /\ ~profile[p].exists
  /\ profile' = [profile EXCEPT ![p].exists = TRUE]
  /\ UNCHANGED <<paused, rounds, flower, nft, experiment, computations, entry>>

Starters(p) == {p} \X (0..STARTER_COUNT - 1)

\* The counters are set, not raised, and the flower accounts must be new.
claim_starters(p) ==
  /\ ~paused
  /\ profile[p].exists
  /\ p \in Gardeners
  /\ ~profile[p].starter_claimed
  /\ \A f \in Starters(p) : flower[f].status = "NONE"
  /\ flower' = [f \in Flowers |->
       IF f \in Starters(p) THEN Starter(p) ELSE flower[f]]
  /\ profile' = [profile EXCEPT ![p].starter_claimed = TRUE,
                                ![p].total_flowers = STARTER_COUNT,
                                ![p].next_flower_index = STARTER_COUNT]
  /\ UNCHANGED <<paused, rounds, nft, experiment, computations, entry>>

-----------------------------------------------------------------------------
(***************************************************************************)
(* Ownership: sync_flower_owner and the token lock.                        *)
(***************************************************************************)
Less(n) == IF n > 0 THEN n - 1 ELSE 0

\* The NFT has changed hands since the record was last looked at.
changed_hands(f) == nft[f].state = "HELD" /\ nft[f].holder # flower[f].owner

sync_allowed(f) == changed_hands(f) => profile[nft[f].holder].exists

\* The record and the profiles after the sync.
synced_flower(f) ==
  IF changed_hands(f)
  THEN [flower[f] EXCEPT !.owner = nft[f].holder, !.cooling = TRUE]
  ELSE flower[f]

bump_total_flowers(profiles, p, up) ==
  [profiles EXCEPT ![p].total_flowers = IF up THEN @ + 1 ELSE Less(@)]

\* mutant: the seller keeps counting the flower.
synced_profiles_buyer_only(f) ==
  IF changed_hands(f) THEN bump_total_flowers(profile, nft[f].holder, TRUE) ELSE profile

synced_profiles(f) ==
  IF changed_hands(f)
  THEN bump_total_flowers(bump_total_flowers(profile, flower[f].owner, FALSE),
                          nft[f].holder, TRUE)
  ELSE profile

\* mutant: a flower in use stays transferable.
locked_token_left_thawed(n) == n

\* freeze_flower_if_minted: nothing for a flower never minted, or burned.
locked_token(n) == IF n.state = "HELD" THEN [n EXCEPT !.frozen = TRUE] ELSE n

-----------------------------------------------------------------------------
(***************************************************************************)
(* Breeding.                                                               *)
(***************************************************************************)
\* mutant: the limit is tested after the count, one too late.
breeds_left_and_one_more(p) ==
  profile[p].last_breed_round = current_round =>
    profile[p].breeds_this_round <= MAX_BREEDS_PER_ROUND

breeds_left(p) ==
  profile[p].last_breed_round = current_round =>
    profile[p].breeds_this_round < MAX_BREEDS_PER_ROUND

under_collection_cap(p) ==
  profile[p].total_flowers - STARTER_COUNT < FLOWER_COLLECTION_CAP

\* mutant: the form the code once had, which admits a submitted parent.
may_be_parent_unless_locked(f) ==
  /\ flower[f].status \in {"ACTIVE", "SUBMITTED"}
  /\ flower[f].bred < MAX_BREEDS_AS_PARENT

may_be_parent(f) ==
  /\ flower[f].status = "ACTIVE"
  /\ flower[f].bred < MAX_BREEDS_AS_PARENT

bred_once_more(a) ==
  [a EXCEPT !.total_experiments = a.total_experiments + 1,
            !.active_experiment_count = a.active_experiment_count + 1,
            !.total_flowers = a.total_flowers + 1,
            !.next_flower_index = a.next_flower_index + 1,
            !.last_breed_round = current_round,
            !.breeds_this_round =
              IF a.last_breed_round = current_round THEN a.breeds_this_round + 1 ELSE 1]

\* A sync that finds a transfer starts the cooldown that then refuses the
\* breeding: whatever is bred was in sync before.
start_breeding(p, S) ==
  LET child == <<p, profile[p].next_flower_index>>
      x == <<p, profile[p].total_experiments>> IN
  /\ ~paused
  /\ profile[p].exists
  /\ breeds_left(p)
  /\ under_collection_cap(p)
  /\ child \in Flowers /\ flower[child].status = "NONE"
  /\ x \in Experiments /\ experiment[x].status = "NONE"
  /\ \A f \in S :
       /\ may_be_parent(f)
       /\ sync_allowed(f)
       /\ synced_flower(f).owner = p
       /\ ~synced_flower(f).cooling
  /\ flower' = [f \in Flowers |->
       IF f \in S THEN [flower[f] EXCEPT !.status = "LOCKED", !.bred = @ + 1]
       ELSE IF f = child THEN Offspring(p, x)
       ELSE flower[f]]
  /\ nft' = [f \in Flowers |-> IF f \in S THEN locked_token(nft[f]) ELSE nft[f]]
  /\ experiment' = [experiment EXCEPT ![x] =
       [status |-> "QUEUED", parents |-> S, offspring |-> child, timed_out |-> FALSE]]
  /\ computations' = computations \cup {x}
  /\ profile' = [profile EXCEPT ![p] = bred_once_more(@)]
  /\ UNCHANGED <<paused, rounds, entry>>

\* mutant: resolved again.
unresolved_or_expired(x) == experiment[x].status \in {"QUEUED", "EXPIRED"}

\* ~callback_processed, which whatever resolves the experiment sets.
unresolved(x) == experiment[x].status = "QUEUED"

Resolve(x, status, activated) ==
  /\ experiment' = [experiment EXCEPT ![x].status = status]
  /\ flower' = [f \in Flowers |->
       IF f \in activated THEN [flower[f] EXCEPT !.status = "ACTIVE"] ELSE flower[f]]
  /\ profile' = [profile EXCEPT ![x[1]].active_experiment_count = Less(@)]

breed_success(x) ==
  Resolve(x, "COMPLETED", experiment[x].parents \cup {experiment[x].offspring})
breed_failure(x) == Resolve(x, "FAILED", experiment[x].parents)

breed_v5_callback(x) ==
  /\ x \in computations
  /\ computations' = computations \ {x}
  /\ \/ unresolved(x) /\ (breed_success(x) \/ breed_failure(x))
     \/ ~unresolved(x) /\ UNCHANGED <<experiment, flower, profile>>
  /\ UNCHANGED <<paused, rounds, nft, entry>>

\* mutant: gated by the pause like the rest.
cancellable_unless_paused(x) ==
  ~paused /\ experiment[x].status = "QUEUED" /\ experiment[x].timed_out

cancellable(x) == experiment[x].status = "QUEUED" /\ experiment[x].timed_out

\* The computation may still be answered, later.
cancel_expired_experiment(x) ==
  /\ cancellable(x)
  /\ Resolve(x, "EXPIRED", experiment[x].parents)
  /\ UNCHANGED <<paused, rounds, nft, computations, entry>>

reclaimable(x) ==
  LET child == experiment[x].offspring IN
  /\ experiment[x].status \in {"FAILED", "EXPIRED"}
  /\ flower[child].source_experiment = x
  /\ flower[child].status = "LOCKED"

reclaim_dead_offspring(x) ==
  LET child == experiment[x].offspring IN
  /\ reclaimable(x)
  /\ flower' = [flower EXCEPT ![child] = NoFlower]
  /\ profile' = [profile EXCEPT ![flower[child].owner].total_flowers = Less(@)]
  /\ UNCHANGED <<paused, rounds, nft, experiment, computations, entry>>

\* mutant: asks for the supply, as it once did, and not for the mint.
never_minted_or_burned(f) == nft[f].state # "HELD"

never_minted(f) == nft[f].state = "NEVER"

close_flower(p, f) ==
  /\ ~paused
  /\ flower[f].owner = p
  /\ flower[f].status = "ACTIVE" /\ flower[f].genome = "ENCRYPTED"
  /\ never_minted(f)
  /\ flower' = [flower EXCEPT ![f] = NoFlower]
  /\ profile' = [profile EXCEPT ![p].total_flowers = Less(@)]
  /\ UNCHANGED <<paused, rounds, nft, experiment, computations, entry>>

-----------------------------------------------------------------------------
(***************************************************************************)
(* NFTs.                                                                   *)
(***************************************************************************)
\* With the mint gate enabled.
mint_flower_nft(p, f) ==
  /\ ~paused
  /\ flower[f].owner = p
  /\ flower[f].status = "ACTIVE" /\ flower[f].genome = "ENCRYPTED"
  /\ nft[f] = NeverMinted
  /\ Cardinality({g \in Flowers : nft[g].state # "NEVER"}) < MaxMints
  /\ nft' = [nft EXCEPT ![f] = HeldBy(p)]
  /\ UNCHANGED <<paused, rounds, profile, flower, experiment, computations, entry>>

burn_flower_nft(p, f) ==
  /\ ~paused
  /\ flower[f].owner = p /\ flower[f].status = "ACTIVE"
  /\ nft[f] = HeldBy(p)
  /\ nft' = [nft EXCEPT ![f] = Burned]
  /\ UNCHANGED <<paused, rounds, profile, flower, experiment, computations, entry>>

\* mutant: any frozen flower is thawed.
thawable_in_use(f) == flower[f].status # "NONE"

thawable(f) == flower[f].status = "ACTIVE"

thaw_flower_nft(f) ==
  /\ thawable(f)
  /\ nft[f].state = "HELD" /\ nft[f].frozen
  /\ sync_allowed(f)
  /\ flower' = [flower EXCEPT ![f] = synced_flower(f)]
  /\ profile' = synced_profiles(f)
  /\ nft' = [nft EXCEPT ![f].frozen = FALSE]
  /\ UNCHANGED <<paused, rounds, experiment, computations, entry>>

-----------------------------------------------------------------------------
(***************************************************************************)
(* The competition's hold on flowers.                                      *)
(***************************************************************************)
\* The caller's profile was read before the sync and is written back after it.
submit_entry(p, f) ==
  /\ ~paused
  /\ profile[p].exists
  /\ current_round > 0 /\ round_status[current_round] = "OPEN"
  /\ entry[current_round][p] = NoEntry
  /\ flower[f].status = "ACTIVE"
  /\ sync_allowed(f)
  /\ synced_flower(f).owner = p
  /\ flower' = [flower EXCEPT ![f] = [synced_flower(f) EXCEPT !.status = "SUBMITTED"]]
  /\ profile' = [synced_profiles(f) EXCEPT ![p] = profile[p]]
  /\ nft' = [nft EXCEPT ![f] = locked_token(@)]
  /\ entry' = [entry EXCEPT ![current_round][p] = [status |-> "SUBMITTED", flower |-> f]]
  /\ UNCHANGED <<paused, rounds, experiment, computations>>

releasable(e) == e.status = "SUBMITTED"

release_flower(r, p) ==
  LET f == entry[r][p].flower IN
  /\ ~paused
  /\ round_status[r] = "FINALIZED"
  /\ releasable(entry[r][p])
  /\ flower[f].status = "SUBMITTED" /\ flower[f].genome = "ENCRYPTED"
  /\ sync_allowed(f)
  /\ flower' = [flower EXCEPT ![f] = [synced_flower(f) EXCEPT !.status = "ACTIVE"]]
  /\ profile' = synced_profiles(f)
  /\ entry' = [entry EXCEPT ![r][p].status = "RELEASED"]
  /\ UNCHANGED <<paused, rounds, nft, experiment, computations>>

\* What it does to flowers; the hint itself is not modelled here.
queue_private_hint(p, f) ==
  /\ current_round > 0 /\ round_status[current_round] = "OPEN"
  /\ flower[f].status \in {"ACTIVE", "SUBMITTED"}
  /\ sync_allowed(f)
  /\ synced_flower(f).owner = p
  /\ flower' = [flower EXCEPT ![f] = synced_flower(f)]
  /\ profile' = synced_profiles(f)
  /\ UNCHANGED <<paused, rounds, nft, experiment, computations, entry>>

-----------------------------------------------------------------------------
(***************************************************************************)
(* What happens without this program: the token program and Metaplex refuse*)
(* to move or burn a frozen token, and the clock runs.  A computation the   *)
(* cluster never answers is one whose callback is never taken.             *)
(***************************************************************************)
Transfer(f, q) ==
  /\ nft[f].state = "HELD" /\ ~nft[f].frozen /\ nft[f].holder # q
  /\ nft' = [nft EXCEPT ![f] = HeldBy(q)]
  /\ UNCHANGED <<paused, rounds, profile, flower, experiment, computations, entry>>

RawBurn(f) ==
  /\ nft[f].state = "HELD" /\ ~nft[f].frozen
  /\ nft' = [nft EXCEPT ![f] = Burned]
  /\ UNCHANGED <<paused, rounds, profile, flower, experiment, computations, entry>>

\* EXPERIMENT_TIMEOUT_SECONDS have passed.
Tick(x) ==
  /\ unresolved(x) /\ ~experiment[x].timed_out
  /\ experiment' = [experiment EXCEPT ![x].timed_out = TRUE]
  /\ UNCHANGED <<paused, rounds, profile, flower, nft, computations, entry>>

CooldownOver(f) ==
  /\ flower[f].cooling
  /\ flower' = [flower EXCEPT ![f].cooling = FALSE]
  /\ UNCHANGED <<paused, rounds, profile, nft, experiment, computations, entry>>

-----------------------------------------------------------------------------
Pairs == {S \in SUBSET Flowers : Cardinality(S) = 2}

Next ==
  \/ \E b \in BOOLEAN : SetPaused(b)
  \/ open_round \/ close_round \/ finalize_round
  \/ \E p \in Players :
       \/ create_profile(p)
       \/ claim_starters(p)
       \/ \E S \in Pairs : start_breeding(p, S)
       \/ \E f \in Flowers :
            \/ close_flower(p, f) \/ mint_flower_nft(p, f) \/ burn_flower_nft(p, f)
            \/ submit_entry(p, f) \/ queue_private_hint(p, f)
            \/ Transfer(f, p)
       \/ \E r \in Rounds : release_flower(r, p)
  \/ \E f \in Flowers : thaw_flower_nft(f) \/ RawBurn(f) \/ CooldownOver(f)
  \/ \E x \in Experiments :
       \/ breed_v5_callback(x) \/ cancel_expired_experiment(x)
       \/ reclaim_dead_offspring(x) \/ Tick(x)

Spec == Init /\ [][Next]_vars

(***************************************************************************)
(* Anybody may cancel what has timed out and release what a finalized      *)
(* round holds; the daily job closes and finalizes; the pause is lifted    *)
(* now and then.                                                           *)
(***************************************************************************)
Fairness ==
  /\ WF_vars(close_round \/ finalize_round)
  /\ WF_vars(SetPaused(FALSE))
  /\ \A x \in Experiments : WF_vars(Tick(x) \/ cancel_expired_experiment(x))
  /\ \A r \in Rounds, p \in Players : SF_vars(release_flower(r, p))

FairSpec == Spec /\ Fairness

-----------------------------------------------------------------------------
(***************************************************************************)
(* Properties.                                                             *)
(***************************************************************************)
ProfileType ==
  [exists : BOOLEAN, starter_claimed : BOOLEAN, total_flowers : Nat,
   active_experiment_count : Nat, total_experiments : Nat, next_flower_index : Nat,
   breeds_this_round : 0..MAX_BREEDS_PER_ROUND, last_breed_round : 0..MaxRounds]
FlowerType ==
  [status : {"NONE", "ACTIVE", "LOCKED", "SUBMITTED"}, owner : Players \cup {Nobody},
   genome : {"NONE", "STARTER", "ENCRYPTED"},
   source_experiment : Experiments \cup {NoKey}, bred : 0..MAX_BREEDS_AS_PARENT,
   cooling : BOOLEAN]
NftType ==
  {NeverMinted, Burned} \cup [state : {"HELD"}, holder : Players, frozen : BOOLEAN]
ExperimentType ==
  {NoExperiment} \cup
  [status : {"QUEUED", "COMPLETED", "FAILED", "EXPIRED"},
   parents : SUBSET Flowers, offspring : Flowers, timed_out : BOOLEAN]
EntryType == {NoEntry} \cup [status : {"SUBMITTED", "RELEASED"}, flower : Flowers]

TypeOK ==
  /\ paused \in BOOLEAN
  /\ current_round \in 0..MaxRounds
  /\ round_status \in [Rounds -> {"NONE", "OPEN", "CLOSED", "FINALIZED"}]
  /\ profile \in [Players -> ProfileType]
  /\ flower \in [Flowers -> FlowerType]
  /\ nft \in [Flowers -> NftType]
  /\ experiment \in [Experiments -> ExperimentType]
  /\ computations \subseteq Experiments
  /\ entry \in [Rounds -> [Players -> EntryType]]

needs(x, f) == unresolved(x) /\ f \in experiment[x].parents

\* x is to deliver f.  (claim_starters sets next_flower_index back, so an older
\* experiment may have had its offspring at f's address.)
delivers(x, f) ==
  /\ experiment[x].status \in {"QUEUED", "FAILED", "EXPIRED"}
  /\ experiment[x].offspring = f /\ flower[f].source_experiment = x

\* A flower's status and whoever holds it agree: it is LOCKED because it is a
\* parent of exactly one unresolved experiment, or the offspring of one that has
\* not completed; it is SUBMITTED because exactly one unreleased entry names it.
StatusAccounted ==
  \A f \in Flowers :
    /\ flower[f].status = "LOCKED" =>
         Cardinality({x \in Experiments : needs(x, f) \/ delivers(x, f)}) = 1
    /\ flower[f].status = "SUBMITTED" =>
         Cardinality({e \in Rounds \X Players :
           entry[e[1]][e[2]] = [status |-> "SUBMITTED", flower |-> f]}) = 1
    /\ \A x \in Experiments :
         unresolved(x) /\ f \in experiment[x].parents \cup {experiment[x].offspring}
           => flower[f].status = "LOCKED"
    /\ \A r \in Rounds, p \in Players :
         entry[r][p] = [status |-> "SUBMITTED", flower |-> f]
           => flower[f].status = "SUBMITTED"

\* A flower in use cannot be sold, burned or used by anybody but its holder:
\* its token, if it has one, is frozen and held by the recorded owner.
InUseNotSold ==
  \A f \in Flowers :
    flower[f].status \in {"LOCKED", "SUBMITTED"} /\ nft[f].state = "HELD"
      => nft[f].frozen /\ nft[f].holder = flower[f].owner

\* A mint outlives its token, so a flower that was ever minted never goes.
MintedFlowersStay ==
  \A f \in Flowers : nft[f].state # "NEVER" => flower[f].status # "NONE"

\* The only flower ever bred at its address.
first_here(f) ==
  \A x \in Experiments : experiment[x].offspring = f => flower[f].source_experiment = x

\* Each experiment costs each parent one use, never refunded, never twice; and
\* the profile's count of experiments in flight is exact, late callbacks, cancels
\* and their order notwithstanding.
BreedingBudgetsExact ==
  /\ \A f \in Flowers : flower[f].genome = "ENCRYPTED" /\ first_here(f) =>
       flower[f].bred = Cardinality({x \in Experiments : f \in experiment[x].parents})
  /\ \A p \in Players :
       profile[p].active_experiment_count =
         Cardinality({x \in Experiments : x[1] = p /\ unresolved(x)})

\* The collection counter errs on the player's side only: it never counts a
\* flower whose record does not name the player, whatever the order in which
\* sales are noticed, submit_entry's write over the sync's included (sync.rs
\* owes equality: one off the old owner, one more for the new).
NeverOvercounts ==
  \A p \in Players :
    profile[p].total_flowers <= Cardinality({f \in Flowers : flower[f].owner = p})

(***************************************************************************)
(* Flowers implement FlowerPromise: a token's holder has the flower, the   *)
(* recorded owner has a flower without one; a flower is in use by the      *)
(* player of the entry or the experiment that names it.                    *)
(***************************************************************************)
entrants_with(f) == {p \in Players : \E r \in Rounds :
  entry[r][p] = [status |-> "SUBMITTED", flower |-> f]}
breeders_with(f) == {x[1] : x \in {y \in Experiments : needs(y, f) \/ delivers(y, f)}}

Promise(f) == INSTANCE FlowerPromise WITH
  People <- Players,
  holder <- IF nft[f].state = "HELD" THEN nft[f].holder ELSE flower[f].owner,
  users <- entrants_with(f) \cup breeders_with(f)

\* Only its holder puts a flower to use, in the competition or as a parent, and
\* it stays the holder's until it is free, however stale the record was.  (The
\* conjunction of every Promise(f)!Spec, with the quantifiers inside the boxes.)
PromiseKept ==
  /\ \A f \in Flowers : Promise(f)!Init
  /\ [][\A f \in Flowers : [Promise(f)!Next]_(Promise(f)!vars)]_vars

\* Parents are never stuck: whatever becomes of the computation, and however
\* long the game is paused, they are unlocked.
ParentsUnlocked == \A x \in Experiments : unresolved(x) ~> ~unresolved(x)

HoldsHybrid(e) == e.status = "SUBMITTED" /\ flower[e.flower].genome = "ENCRYPTED"

\* A submitted hybrid can be had back once its round is over, whoever has sold
\* or bought what meanwhile.  (A starter cannot: release_flower's known limitation.)
HybridsReleased ==
  \A r \in Rounds, p \in Players :
    HoldsHybrid(entry[r][p]) ~> entry[r][p].status = "RELEASED"
=============================================================================
