# Secret Garden: TLA+ models, model checks and proofs

Secret Garden is a Solana/Anchor game program (`programs/secret-garden`) whose
secret arithmetic runs as Arcium MPC circuits (`encrypted-ixs`) and whose daily
competition is driven by a scheduled job (`scripts/auto-cycle.ts`). Players own
encrypted flowers, enter one in a daily round for a fee in the $SGD token, the
MPC cluster scores and ranks the entries without revealing them, and the
round's pot is paid to the winners or, if the round is never revealed, refunded.

A Solana instruction is atomic: it runs to the end or changes nothing. The
difficulty of this program is therefore not inside an instruction but between
instructions: anybody may submit them in any order, most operations of the game
take several of them, MPC computations are queued by one instruction and
answered later by another (the callback) in any order or never, and the
accounts are all there is to tell a legal sequence from an illegal one. One TLA+
action is one instruction, callback, or environment step.

## Inventory

Paths are relative to `programs/secret-garden/src/` unless they say otherwise.

| Component | State | Operations | What makes it correct |
|---|---|---|---|
| Round lifecycle (`instructions/open_round.rs`, `submit_entry.rs`, `close_round.rs`, `finalize_round.rs`) | `CompetitionRound`, `CompetitionEntry`, `config.current_round` | open, submit, close, finalize | one entry per player, no entry past capacity or end time |
| Prize pot (`distribute_pot.rs`, `refund_unrevealed_pot.rs`, `close_pot_vault.rs`, `set_sgd_mint.rs`, `update_sgd_mint.rs`) | `RoundSettlement`, one vault per round and mint, `config.sgd_mint` | distribute, refund a batch, close a vault, pin or move the mint | the pot has one outcome; refunds are flat and complete; no fee is swept or stranded |
| Entry scoring (`lib.rs` queue_score_entry, score_entry_v2_callback, cancel_stuck_score) | `entry.scored/score_queued/queued_at`, `round.scored_count` | queue, callback, cancel | every entry counted exactly once, its score final, none stuck |
| Single-tier bracket (`lib.rs` init_bracket to apply_bracket_result) | `BracketState`, a `RevealTop3V3Result` per shard, `round.top1/2/3` | pin, queue shard or final, callback, collect, apply | the winners are the best of all entries, written once |
| Two-tier bracket (`lib.rs` init_tier1_bracket to collect_semifinal_winners) | `Tier1State`, semifinal results | pin, close, queue, collect, promote, semifinals | as above for 53 to 221 entries |
| Reveal driver (`scripts/auto-cycle.ts` createBracketRevealer) | nothing but chain state | plan, pin, queue, wait, collect, endgame | resumes from wherever the round stands |
| Daily cycle (`scripts/auto-cycle.ts` main, `operator.ts`) | a lock file | settle older rounds, close, score, reveal, finalize, pay, reclaim, open | never acts on a live round, resumes after any interruption, leaves no round unsettled |
| Breeding (`lib.rs` start_breeding to close_flower) | `FlowerRecord`, `BreedingExperiment`, `PlayerProfile` counters | start, callback, cancel, reclaim, close | parents never stay locked; counters equal the flowers owned |
| Flower NFTs and ownership (`sync.rs`, `freeze.rs`, `mint_/thaw_/burn_/release_flower*.rs`) | flower status and owner, token delegate and freeze state | mint, freeze, thaw, sync, release, burn | a flower in use cannot be sold; counters follow transfers |
| Private hints (`lib.rs` queue_private_hint) | one `HintResult` per player | queue, callback | the hint shown is the one asked for |
| Administration (`transfer_authority.rs`, operators, switches) | `GameConfig` | propose, accept, cancel; add, remove; switches | the authority can always sign, no operator is lost or left behind |
| Circuits (`encrypted-ixs/src/lib.rs`) | none | breed_v5, score_entry_v2, private_hint, reveal_top3_v5 | ranking is a total order; genomes stay in range; hint and score agree |

Interactions: `scored_count == participant_count` (scoring) admits
`init_bracket`; `apply_bracket_result` sets `scoring_revealed` and the winners,
which `distribute_pot` reads and `refund_unrevealed_pot` refuses;
`update_sgd_mint` looks at the current round's settlement; `open_round` needs the
previous round FINALIZED. All instructions share the pause switch in `GameConfig`;
recovery instructions (cancel, collect, apply, settle) ignore it.

Hard behaviours: reveals landing between refund batches; mints moving between a
round and its settlement; callbacks that come late, after a retry, or for a
superseded partition; partitions verified piecewise across transactions; the job
killed between any two transactions; ties and short shards in the ranking;
remainders of integer division. `PROJECT.json` lists each at its line.

## Modules

| Module | Models | Notes |
|---|---|---|
| `SgdPot` | rounds, vaults, settlements, the pinned mint | a reveal lands at any moment the bracket could apply one |
| `PotPromise` | what a settlement promises (abstract) | implemented by `SgdPot`, property `PromiseKept` |
| `SgdPot_proofs` | theorems about `SgdPot`: types, one outcome, where a round's money can go; it implements `PotPromise` | |
| `TwoTier`, `MCTwoTier` | the two-tier bracket, composed with `Bracket`'s final | implements `RevealPromise` too |
| `Bracket` | the single-tier bracket and the ranking circuit | callers supply any accounts, the cluster answers in any order |
| `RevealPromise` | one step names the whole podium (abstract) | implemented by `Bracket`, property `RevealKept` |
| `Bracket_proofs` | theorems about `Bracket` and `BracketPlan`; it keeps `RevealPromise` | |
| `BracketDriver_proofs` | theorems about `BracketDriver`: the job is an operator that keeps it | on `Bracket_proofs` |
| `TwoTier_proofs` | the same for `TwoTier` and `TwoTierDriver` | on `Bracket_proofs` |
| `BracketPlan` | the partition the job computes | used by both drivers |
| `BracketDriver` | the job's reveal of one tier, composed with `Bracket` | crashes, timeouts, rejected transactions |
| `TwoTierDriver`, `MCTwoTierDriver` | the job's reveal of two tiers, composed with `TwoTier` | ditto, after another operator has worked on the round |
| `Scoring`, `Scoring_proofs` | scoring of entries, its theorems | |
| `Garden` | profiles, flowers, breeding, flower NFTs and the competition's hold on flowers | tokens trade between any two steps |
| `FlowerPromise` | one flower: who has it, who is using it (abstract) | implemented by `Garden` for every flower, property `PromiseKept` |
| `Garden_proofs` | theorems about `Garden`; it keeps `FlowerPromise`, status and users agree | |
| `Genetics` | breed_v5 and what its callback unpacks | pure operators |
| `Evaluation`, `MCEvaluation` | target traits, hints, scores: what a flower is worth in a round | bred by `Genetics` |
| `Evaluation_proofs` | theorems about `Evaluation` and `Genetics` | |
| `Admin` | authority, operators, pause | a component of `AutoCycle` |
| `RoundSchedule` | round_end_time | ditto |
| `AutoCycle`, `AutoCycle_proofs` | the daily job, composed with `Admin`, `RoundSchedule` and its own view of rounds | runs overlap and die; people act between their steps |

`Bracket` starts where `Scoring` ends (every entry scored), and its
`apply_bracket_result` is the step `SgdPot` has under the same name. `submit_entry`
and the round's instructions are in `SgdPot` for their money and in `Garden` for
their flowers.

### State and actions

*SgdPot.* `round[r]`, `settlement[r]` are the accounts; a vault is a pair
(mint, round), since every pot instruction derives the vault from the mint pinned
when it runs. A round's clock takes the four values the guards distinguish.
`ledger` is history that no guard reads. `CreateVault` and `Donate` are what the
token program lets anyone do. Refund batches are sets of entries above the
cursor, applied in pubkey order.

*Bracket.* An entry is its place in pubkey order, so a strictly ascending run of
accounts is a set and slot `i` its `i`-th member. Shard indices start at 1.
`result[i]` keeps what the account keeps; `computations` holds what is in flight,
with the entries each was queued over, which is all the callback knows. Two
identical computations in flight are one member: answering both has the effect of
answering the later one. `error_code` is never set by the code and is left out,
as are event and score fields. SHARD_WINNERS and REVEAL_TOP_K, both 3, are the
one constant TOP_K. Signer checks are left out throughout: an action is taken by
somebody allowed to take it.

*BracketDriver, TwoTierDriver.* `pc` walks through runBracketReveal; everything a run knows is in
`repin`, `needQueue`, `awaited` and lost when it ends. A transaction the program
would reject throws (`Rejected` uses ENABLED of the instruction).
`OtherPinned` starts the job on a partition pinned by somebody else, with the
answers of any of its shards. The pause switch stays off. In `TwoTierDriver` the other
operator's work is steps instead (`ByHand`), shard by shard, until `HandOver`, at which
nothing may be in flight (as `TierNext` asks); `runTier` is one machine for both of its
tiers (`count`, `resultAt`, `queueOne`, `collectOne`).

*Scoring.* Time is one bit per entry, whether SCORE_TIMEOUT_SECONDS have passed.
A computation carries a number so that two of one entry can be told apart.

*Garden.* A flower or an experiment is a pair of its player and its index, as its
address is derived. `nft[f]` is the mint (a burned one stays BURNED, since burning
does not close the mint) and the one token account holding it. `flower[f].owner` is a
cache: `sync_flower_owner` is part of each instruction that calls it (`synced_flower`,
`synced_profiles`), never a step of its own. `cooling` stands for
transfer_cooldown_active (now is before the end of the round that was running at
`last_transfer_at`), and ends by `CooldownOver`.
- `start_breeding` syncs both parents, but a sync that finds a sale starts the
  cooldown that refuses the breeding, so the step is guarded by its absence. The
  parents are distinct because Anchor refuses one mutable account given twice.
- `submit_entry` writes back the caller's profile as read before the sync:
  `[synced_profiles(f) EXCEPT ![p] = profile[p]]`.
- A computation never answered is one whose callback is never taken; one answered
  late stays in `computations` after the cancel.
- The pause gates what the code gates by it: not cancel, reclaim, thaw, hints,
  callbacks, close and finalize.
- The mint switch is on, and the program is the token's delegate whenever it
  freezes (the code fails otherwise). Of a hint, only the sync is here; the rest is
  `Evaluation`'s.

*TwoTier.* Extends `Bracket` and its variables: the promoted bracket is the round's
`BracketState`, written by `promote_tier1` instead of `init_bracket`, and the final,
the callback and `apply_bracket_result` are `Bracket`'s own actions. A tier-1 shard's
result account is the one `Bracket`'s shard of the same index would use, a
semifinal's has an address of its own (`SEMI + k`, the constant `OtherResults`). A
Tier1State's generation is the Clock slot of its init, here a number no other init
and no bracket counter has (two inits in one slot would share it). `winners` is the
sorted array, a slot of a semifinal a position in it. A round of this size admits no
`init_bracket`. The operator is asked for two things: the semifinal instructions are
used on a promoted bracket (the single-tier ones accept it too, over any entries
between two bounds), and nothing is in flight at a re-pin, nor any semifinal or final
answer when winners are promoted again.

*Genetics, Evaluation.* The circuits as operators on bytes, `% 256` where they
compute in u8 (the circuit's comments argue that nothing wraps; were they wrong, the
model would wrap too). A flower comes with one of the rarities the code writes (0 to 5). Random bytes are an argument. A starter's account holds zeros for
a ciphertext, and what those decrypt to is unknown: the constant `ZeroGenome`.
`target_traits` is the partial Fisher-Yates over the gated pool. A bit mask of slots is
the set of their indices. `crossed` is history: whether the last hint was asked for
while an answer about another flower was due.

*Admin.* Keys are addresses; those in `Controlled` have somebody who can sign with
them. `removed` is the left shift of the slots and the cleared tail.

*AutoCycle.* One action per step of main, whose local variables are the record `job[j]`
and are lost when the run ends. A read and the transaction sent on it are one action
only where the program checks the same condition again; between a run's actions
anything may happen, another run included. The bracket, the scores and the pot are one
step each here, their own modules have them step by step. `ByHand` is operator.ts and
the authority's tools: any instruction on any round, a bounded number of times. A run
that meets a refusal dies (`refused`), and may die anywhere while the clock is running.

## Runs

| Run | Question | Bounds, and why they are enough |
|---|---|---|
| `pot_one` | conservation, solvency, one outcome, no replay, every finalized round settled | 1 round, 4 players of capacity 3 (the fourth is refused), fee 4, 2 donated units: remainders 1 and 2 of thirds and halves occur, batches split 3 entrants in every way |
| `pot_mints` | is PotPromise kept (flat refunds, once each) while the mint moves? | 2 rounds, 2 mints, 2 players: an old unsettled round beside a current one is the smallest case where the pinned mint is the wrong one |
| `pot_old_mint` (violation) | does a settled round have moved money? | |
| `bracket` | every partition of 4 entries into at most 2 shards, every choice of bounds, every set of accounts supplied, pinned once or twice, nothing in flight at the re-pin | TOP_K 2 of 4 entries: a shard of 3 or 4 eliminates somebody, and the final another; keys 0 and 1 give every pattern of ties, and key 0 meets the padding; two generations make the old slots resolve to other entries |
| `bracket_inflight` (violation) | two generations with a computation in flight | |
| `two_tier` | is the podium found by two tiers, whatever was pinned, closed, promoted before? | 7 entries where one tier holds 6, at most 3 tier-1 shards of at most 3, TOP_K 2: 5 winners in 2 semifinals of 3 and 2, a final of 4; a second pin with another layout, one that leaves a shard an entry short, or a total that is refused; two promotions. Ties cross shards. 382,126 states |
| `driver` | does the job reveal the podium from wherever the round stands? | two mishaps (crash or lost computation) anywhere; any foreign partition of 4 entries with the answers of any of its shards |
| `two_tier_driver` | does the job reveal the podium of a two-tier round from wherever it stands? | 11 entries planned as 4+4+3, so 6 winners in 2 semifinals and a final of 4; before the job, another operator has pinned up to two of four partitions (one with its winners in one semifinal, one that cannot be finished), closed, revealed and promoted as far as they liked; then two mishaps anywhere; 194,491 states |
| `scoring` | exact count, final scores, none stuck | 2 entries with 2 computations each in flight: one late and one current |
| `garden` | do uses of a flower exclude each other and sales, are counters right, does nothing stay locked, is FlowerPromise implemented? | 2 players, one of them with starters (2), flower indices up to 4, 2 experiments, 1 round, 1 mint: two breedings with a common parent, one after the other, the first answered late; a hybrid minted, sold, resold, entered or bred by its buyer, burned; 88,504 states. Limits (cap 2, 1 breeding a round, 2 as a parent) are at their boundary |
| `evaluation` | does a hint explain the score, is what is bred well formed, is breeding fair? | the code's own constants; flowers with every gene at its threshold or one below, generations 1 and 15 (16 is where the bonus stops), dials 0, 7, 128 and 255, rolls at each end of each comparison, entropies with every byte at a boundary and weights 0, 128, 255; one breeding, then a round with both hints in flight |
| `cycle` | does the job keep off live rounds, never finalize an unrevealed one, and go on? | 2 runs at once, 2 rounds, a day of 3 units with the floor at 2 and the operators' delay at 1, clock to 4: a round opened on the anchor and one before it; 2 instructions by hand between any steps, which is what undoing or overtaking a run takes; the job's key an operator, the authority or nobody |

Every property of a passing run has a mutant: the definition with a plausible bug,
under which the run finds the property violated. The mutants stand before the
definitions they replace.

`CHECK_DEADLOCK FALSE` everywhere: a round that has been settled, revealed or
scored is finished.

### Where the code and its own comments disagree

Shown by a run of their own:

* `pot_old_mint`: a round settled after the mint moved is marked PAID against the
  empty vault of the new mint while the fees stay in the old one.
* `bracket_inflight`: the generation stamped on a result protects against old
  results but not against an old computation that lands after the result has been
  re-queued: a wrong winner can be written. (The computation's answer would have to
  carry the generation, or the re-queue use a fresh result account.) Promoting the
  winners of a second Tier1State while the first one's final is in flight does the
  same, which is why `TierNext` leaves that out.

Met on the way, and named as the exception in a property that holds without it:

* A reveal landing between two batches of a refund leaves the settlement PENDING for
  ever (`refund_unrevealed_pot.rs:162` re-checks on every batch): `EventuallySettled`.
* A run cut off between re-pinning and re-queueing leaves results that all later runs
  trust and the program rejects (`auto-cycle.ts:1177`); and a lost final is never
  queued again, since the job believes the comment on `final_queued`, which
  `queue_shard_reveal` does not read: `RevealsUnlessWedged`, `TwoTierRevealsUnlessWedged`.
* The job forces a re-queue only when it finds another partition to replace
  (`auto-cycle.ts:1279`). A Tier1State that somebody closed is pinned afresh without it,
  and semifinals always run without it, so old results are trusted and every later run is
  refused: `TwoTierRevealsUnlessWedged` (`WedgedInTier1`, `WedgedInSemifinals`). No crash
  is needed.
* `apply_bracket_result` on a promoted bracket of one semifinal wants the result of
  shard 0, and that account holds a tier-1 shard's (`lib.rs:1437`). 53 entries as
  13+13+13+13+1 get there; the job's balanced plan does not: `OneSemifinal` in the same
  property.
* A buyer who enters a bought flower before any other instruction has noticed the
  sale is not credited with it: the sync raises the count in the raw profile account,
  and Anchor's exit handler overwrites it with the typed copy read earlier
  (`submit_entry.rs:159`). `NeverOvercounts` shows that the error is always on that side.
* Two hints asked for in a row: the account does not say which it waits for, so the
  first answer makes it ready with the other flower's bits (`state.rs:514` says a client
  never mistakes one): `HintExplainsScore`.

Read off the code, and part of the models:

* `start_breeding` does not ask whether starters were claimed. A buyer who breeds first
  has an offspring at index 0, where `claim_starters` then fails until that flower is
  closed (`state.rs:222` says this cannot be).
* A bought flower burned through Metaplex before any sync goes back to the seller's
  record, although `sync.rs:137` says a burn only happens when the two agree.
* Starters may be hinted at and entered (`tests/release-flower.ts:483` enters one), and
  both read the zeros of their ciphertext, not the genome breeding derives from the
  species; and `release_flower` refuses starters for ever after.
* The lock file is created and then written, and an empty one counts as ancient, so two
  runs may both hold it (`auto-cycle.ts:333`); the program's checks, not the lock, are
  what `cycle` relies on.
* `tools/soil-mutant-difftest/src/lib.rs:50` still quotes the mutant threshold of an
  earlier circuit.

### Fairness

*pot_one*: the clock advances, the daily job pays a revealed finalized round (weak
fairness of distribute_pot), and the authority keeps presenting a next slice of an
unrevealed round's entrants (weak fairness of RefundNextSlice). It may leave an
entrant out of a slice, the stuck state the code's comment accepts: `Skipped`.
*driver*: the scheduler starts the job daily and the job runs (weak fairness of
DriverStep); an answer is given to a computation queued again and again while a
run waits (strong fairness); mishaps are finitely many. *two_tier_driver*: the same, with
strong fairness of some answer, whichever; and the other operator stops (HandOver). *scoring*: the pause is
lifted, the clock advances, cancel is permissionless (weak fairness), entries are
queued and answered if they are queueable, and in flight, again and again (strong
fairness). *garden*: the clock advances and anybody cancels an expired experiment
(weak fairness), the daily job closes and finalizes rounds (weak), the pause is
lifted (weak), and a player whose flower can be released again and again releases it
(strong, since the pause may come and go). No callback is assumed. *cycle*: the schedule
starts runs and what is started goes on or dies (weak), and the clock advances (weak).
Failures are possible until the clock stops, and not after: without an end to them
nothing would ever finish. The pause and the job's powers are premises of the two
liveness properties, since people may take either away for good. `two_tier`,
`evaluation` and `bracket` are checked for safety only.

## Proofs

`SgdPot_proofs`: **TypeCorrect** (`Spec => []TypeOK`), **OneOutcome**
(`Spec => []PaidOrRefunded`), **NoReplay** (`Spec => SettledForGood`), for all
finite sets of players, all mints, fees, capacities and bounds. The argument:
`StepKinds` says that a step of the machine leaves a round's settlement and payouts
alone, or distributes its pot from state NONE, or refunds some of it from NONE or
PENDING. `PaidOrRefunded` is not inductive, since it says nothing of `settlement`;
its strengthening `Tied` ties payouts to the state (prizes only when PAID, refunds
only when PENDING or REFUNDED) and is preserved by each of the three kinds.

In the same module, **SolventAlways** (`Spec => []Solvent`) and **SweepsOnlySurplus**
(`Spec /\ MintMovesWhenSettled => []OnlySurplusIsSwept`). That a fee lands in the vault
its round is settled from needs `Lifecycle`: only the current round takes entries, its
mint is the pinned one and it has no settlement. `Backed` then bounds each round's own
vault from below, and `Books` says exactly what a round's vaults hold until it is
settled. The second theorem has a condition, since the code does not ensure it:
`update_sgd_mint` looks at the current round only, so the mint may leave while an older
round's pot is in play, that round may be marked PAID against the new mint's empty
vault (the finding of `pot_old_mint`), and once the mint is moved back
`close_pot_vault` sweeps the fees. With the condition it does not happen, for any
number of mints; `pot_one`, with one mint, meets the condition. **ConservesMoney**
(`Spec /\ MintMovesWhenSettled => []MoneyConserved`) has the same condition, since the
equation is that of a round's own vault, and the same `Books`: they say that what a
distribution or a batch takes is taken from that vault, and that it opens with nothing
owed. A sum over the players counts base units (`Units`), so it is a cardinality and needs
no recursion: raising a set of players by one amount adds a product (`SumRaised`), a refund
batch is one such raise and the prizes of a podium are three (`SumPrizes`), whose places
`DistinctPodiums` keeps apart.

**PotKeepsPromise** (`Spec => PromiseKept`): each step of the
machine is, for each round, a step of `PotPromise` or a stutter. Besides `Tied` and
`Lifecycle` this needs `Entrants` (a round's counter is the number of its entries, and
a revealed podium is among them) and `Batches` (a refund in progress has reached
exactly the recipients it counts, at the frozen amount, none above its cursor), by
which a batch reaches new people only and the counter ends the refund exactly when
nobody is left.

`Scoring_proofs`: **CountIsExact** (`Spec => []CountedExactlyOnce`), **ScoringTypes**
and **NoRescore** (`Spec => ScoreIsFinal`), for every finite set of entries. The
inductive invariant `Counted` is the types plus the count; the bound of
`scored_count` is left out of it and follows from the count, because a step that
adds one to the counter keeps the bound only if it adds an element to the set.

`Bracket_proofs`: **CollectedArePartition** (`Spec => []ShardsPartition`),
**PodiumSurvivesShards** (`QuietSpec => []PodiumAmongFinalists`) and
**BracketKeepsPromise** (`QuietSpec => RevealKept`), for every finite set of entries,
all keys, every layout and supply of accounts, any length of podium and any number of
re-pins. The first needs no assumption on the operator: runs of entries that start at
ascending bounds and stay below the next are disjoint, and disjoint runs with as many
places as the round has entries leave none out (`NoneLeftOut`, the pigeonhole); so the
run a shard was collected with can only be its interval. The other two assume what
`MCBracket_inflight` shows is needed, nothing in flight at a re-pin. Their inductive
invariant `QuietInv` says that every computation, and every result of this generation,
was asked for by this bracket (`ComputationsAsked`, `ResultsAsked`), and that the
finalists are the winners those results name (`Gathered`). A shard may be revealed over
one run and collected with another; until the last shard is in, both are remembered
(`HasWinners`), and then they are one. That the podium survives is a fact of ranks: an
entry's rank in a run is no worse than in the round (`RankInRun`), and a run that has
the whole podium ranks it as the round does (`PodiumInRun`). A sum of shard sizes is
written as a number of places because a recursive sum is out of TLAPS's reach.
Two more theorems there are about the operators of `BracketPlan`, in any state:
**PlanIsValid** (the partition the job plans is one `init_bracket` accepts, if the round
fits one tier) and **PlanFits** (while it is pinned, every chunk passes the checks of its
shard). They rest on the arithmetic of balanced sizes (`BalancedSizes`, `PlanSizes`) and
on `ChunkCounted`: entries of consecutive slots are as many as their slots.

`BracketDriver_proofs`: **JobKeepsPromise** (`DriverSpec => RevealKept`) for the job's
reveal of one tier, for every set of entries, limits, and any number of crashes and lost
computations. `BracketKeepsPromise` assumes of the operator that nothing is in flight at a
re-pin; the job never looks, and **JobRepinsQuietly**
(`DriverSpec => [][QuietRepins]_allvars`) shows that it need not. The inductive invariant
adds to `QuietInv` where the run stands (`JobInv`): a computation in flight is one of the
planned partition, past the pin the planned partition is pinned, and a run only pins what
is not pinned. A crash keeps it because the next run compares the plan with the chain
again. What remains an assumption is the start: whoever had the round before leaves it
with nothing in flight (`OtherPinned`). **JobSuppliesRuns** (`DriverSpec => []SuppliesRuns`)
is `PlanFits` along the run: no queue or collect of the job is refused for its entries.
**RepinTrustsNoOldResult** (`DriverSpec => []RepinnedRunIsSafe`) is what forceRequeue is
for: a run that replaced the partition collects results of the new one only, since it
queues every shard before it waits for any (`RepinInv`). It is of the run that re-pinned;
for the runs after a crash it is false, which is the first of the exceptions above.

`TwoTier_proofs`: **Tier1IsPartition** (`TierSpec => []Tier1Partition`),
**PodiumSurvivesTier1State** (`TierSpec => []PodiumAmongTier1Winners`),
**SemifinalsArePartition** (`TierSpec => []SemifinalsPartitionWinners`) and
**TwoTierKeepsPromise** (`TierSpec => RevealKept`), for every set of entries, all keys,
layouts, numbers of winners and limits. `TierSpec` has the conditions `QuietSpec` has:
nothing in flight at a pin, no bracket's question in flight at a promotion. The lemmas of
`Bracket_proofs` on runs, places and ranks are of any sizes and bounds and serve the
first tier as they stand. The inductive invariant `TierInv` goes up the tiers. The first
(`Tier1Gathered`) is as in one tier. A semifinal is a stretch of the ascending winners
(`SemifinalsGathered`): no winner is inserted after promotion, so the slice is the same
when its result is collected as when it was queued, and the sizes `promote_tier1` writes
add up to the number of winners (`Sum`, again a number of places). `FinalGathered` says
the finalists have the podium once all semifinals are in; it does not mention the
Tier1State, because `close_tier1_bracket` may remove that first. `Tier1Answers` and
`BracketAnswers` keep the tiers apart: a tier-1 answer is stamped with a Clock slot,
above every bracket generation, which is what rules out the endgame's taking result 0 of
tier 1 for a final (`TierAppliedIsPodium`), and what strands the
round with one semifinal.

For the job on two tiers the same module proves **TwoTierPlanIsValid** (`init_tier1_bracket`
takes the plan, the bound on winners included), **TwoTierJobSuppliesRuns**
(`DriverSpec => []SuppliesRuns`), **TwoTierJobRepinsQuietly**
(`DriverSpec => [][QuietRepins]_drivervars`) and **TwoTierJobKeepsPromise**
(`DriverSpec => RevealKept`). Every step of `DriverSpec` is one that `TierInv` survives
(`DriverMoves`), given `JobInv`: a computation in flight has the planned partition, or
promoted winners, behind it, and before a promotion it is one of the first tier. What the
operator before the job does by hand is a part of `DriverSpec`, with the conditions of
`TierSpec` as guards: it re-pins with nothing in flight, promotes with no semifinal or
final answer due, and hands over with nothing in flight. `MaxGenerations` bounds
promotions, so the job needs one left (`MaxGenerations > 0`).

`Garden_proofs`: **TypeCorrect** (`Spec => []TypeOK`), **NeverSoldInUse**
(`Spec => []InUseNotSold`) and **MintedStay** (`Spec => []MintedFlowersStay`), for
every set of players and all limits and bounds. Neither invariant is inductive:
`MintedFlowersStay` needs that what `reclaim_dead_offspring` removes was never
minted, and `InUseNotSold` that a resolution unlocks nobody else's flower. The
inductive invariant `Kept` adds `Breeding`: the flowers an unresolved experiment
uses are LOCKED (`UsesLocked`) and nobody else's (`UsesDisjoint`), the offspring of
an experiment that has not completed is LOCKED and has no mint (`UnbornLocked`) and
is nobody's parent (`ParentsBorn`), and knows its experiment (`OffspringUnborn`).
Most steps change one flower (`OneFlower`); breeding, resolving and claiming
starters have a lemma each. TLC checked `Kept` on the instance of `garden` before it
was proved. Two more theorems there count: **BudgetsExact**
(`Spec => []BreedingBudgetsExact`) and **NeverOvercounted** (`Spec => []NeverOvercounts`).
A parent's uses are counted by experiments that name it, so a flower that appears must
not be named yet: `Pedigree` says that a parent is a starter, which never goes, or some
experiment's offspring. The collection counter follows every change of owner within one
(`OwnedFrame`), whichever instruction notices a sale, and `submit_entry`'s write over
the sync's only lowers it.

The last two are **StatusSafe** (`Spec => []StatusAccounted`) and
**GardenKeepsPromise** (`Spec => PromiseKept`). Both come from one lemma, `StepMoves`:
a step makes each flower appear, vanish, be put to use, be freed or traded, or leaves it
alone, and each of these moves keeps `Accounted` (the status says who is using the
flower) and is a step of `FlowerPromise`. The theorems cover what the instance of
`garden` is too small for: `claim_starters` sets `next_flower_index` back
(`claim_starters.rs:158`), so a flower's address can be used again while an older failed
experiment still names it as its offspring. This is why `delivers` asks the flower which
experiment it is from, as `reclaim_dead_offspring` does. (`lib.rs:786` says of
`next_flower_index` that it stays monotonic.)

`Evaluation_proofs`: **OffspringSafe** (`Spec => OffspringWellFormed`), from the
arithmetic of `breed_v5` on bytes and from unpacking what the callback packed,
**BreedingIsFair** (`Spec => BreedingFair`), from counting rolls (the stronger of two
genes has 160 of the 256 plus a quarter of the dial, from either slot; a mutant 4 plus an
eighth of the soil) and from the lift's range, 0 to 53, in which the tiers' boundaries stay
apart, and **HintSafe** (`Spec => []HintExplainsScore`), for all gardens, dials and draws. The
last speaks of the last moment only; what keeps it true is `Answered` (a ready hint
no other question crossed is about the flower asked about, against the round's
targets) with `Scored` (a score is that of the flower entered).

`AutoCycle_proofs`: **AuthoritySafe**, **OperatorsSafe**, **ScheduleSafe**, **JobsSafe**
(`Spec => []` of `AuthorityCanSign`, `OperatorsPacked`, `ScheduleKept`, `JobsUpToDate`),
**LiveRoundsSafe** and **UnrevealedSafe** (`Spec => LiveRoundsLeftOpen`, `Spec =>
UnrevealedNotFinalized`), for any number of overlapping runs, rounds, keys, operator
slots and instructions by hand and any schedule the code's compile-time assertions
allow. What the job may not do follows from what it knows: `JobsUpToDate` is the
inductive invariant, and holds across everybody else's steps because a round's status
only advances, its entries are fixed once it is closed, and the clock does not go back.
`UnrevealedSafe` is then a step from it. Each kind of step (the job's, by hand, the
administration's, the clock) has its lemma. `ScheduleSafe` is arithmetic on the anchor.

Assumptions are those named in the modules; TLC evaluates them in every run.

Only model-checked: everything temporal with fairness, of which TLAPS has no ENABLED to
speak with: `EventuallySettled`, `EventuallyScored`, `RevealsUnlessWedged`,
`TwoTierRevealsUnlessWedged`, `ParentsUnlocked`, `HybridsReleased`, `NextRoundOpens` and
`RevealedIsSettled`; that is, that the machine gets on, not that it does no wrong. Every
other property of a passing run is a theorem, under the conditions named with it above.

## Not modelled

* Account migrations (`migrate_*`, `operator_migrate_flower`, `realloc_flower_genome`):
  byte layout of accounts of older versions.
* `set_minting_enabled`, `set_mutant_weight`, `init_flower_collection`: each writes one
  field that nothing else writes; the mint gate is taken as open and the weight is an
  input of `open_round` in `Evaluation`.
* Of the job: the lock file (runs overlap instead), vault-rent reclaim (its program
  half, close_pot_vault, is in `SgdPot`), the retries of one score within a run (the
  program half is `Scoring`), Supabase, and a Tier1State of an older account layout, which
  the job closes and replaces as it does an unfamiliar partition.
* `reveal_top3`, the first ranking circuit, which no instruction queues any more.
* Tests, difference testers, and what a web client does.

Of what is modelled, fees of breeding and minting, metadata, deadlines of computations
and rent are abstracted.

## Plan

1. The vault-rent reclaim of the job composed with `SgdPot`.
