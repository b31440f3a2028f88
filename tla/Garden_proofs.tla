---------------------------- MODULE Garden_proofs ---------------------------
(***************************************************************************)
(* Garden is well typed; a flower in use is not sold; a minted flower      *)
(* stays; breeding budgets are exact and collections never overcounted;    *)
(* every flower implements FlowerPromise and its status says who uses it.  *)
(*                                                                         *)
(* The second and the third need Breeding: the flowers an unresolved       *)
(* experiment uses are LOCKED and no other unresolved experiment's, and a  *)
(* flower bred by an experiment that has not completed is LOCKED, was      *)
(* never minted and is nobody's parent.  So what reclaim_dead_offspring    *)
(* removes has no mint, and what a resolution unlocks is not held by       *)
(* another breeding.                                                       *)
(***************************************************************************)
EXTENDS Garden, FiniteSetTheorems, TLAPS

USE DEF rounds

Statuses == {"NONE", "ACTIVE", "LOCKED", "SUBMITTED"}

LEMMA FlowerFields ==
  ASSUME NEW a \in FlowerType
  PROVE  /\ \A s \in Statuses : [a EXCEPT !.status = s] \in FlowerType
         /\ \A q \in Players : [a EXCEPT !.owner = q, !.cooling = TRUE] \in FlowerType
         /\ [a EXCEPT !.cooling = FALSE] \in FlowerType
         /\ a.bred < MAX_BREEDS_AS_PARENT =>
              [a EXCEPT !.status = "LOCKED", !.bred = @ + 1] \in FlowerType
<1>1. \A s \in Statuses : [a EXCEPT !.status = s] \in FlowerType
  BY DEF FlowerType, Statuses
<1>2. \A q \in Players : [a EXCEPT !.owner = q, !.cooling = TRUE] \in FlowerType
  BY DEF FlowerType
<1>3. [a EXCEPT !.cooling = FALSE] \in FlowerType
  BY DEF FlowerType
<1>4. ASSUME a.bred < MAX_BREEDS_AS_PARENT
      PROVE  [a EXCEPT !.status = "LOCKED", !.bred = @ + 1] \in FlowerType
  <2>1. a.bred + 1 \in 0..MAX_BREEDS_AS_PARENT
    BY <1>4, NumbersAssumption DEF FlowerType
  <2>. QED
    BY <2>1 DEF FlowerType
<1>. QED
  BY <1>1, <1>2, <1>3, <1>4

LEMMA NewFlowers ==
  /\ NoFlower \in FlowerType
  /\ \A p \in Players : Starter(p) \in FlowerType
  /\ \A p \in Players, x \in Experiments : Offspring(p, x) \in FlowerType
<1>1. 0 \in 0..MAX_BREEDS_AS_PARENT
  BY NumbersAssumption
<1>2. NoFlower \in FlowerType
  BY <1>1 DEF NoFlower, FlowerType
<1>3. ASSUME NEW p \in Players PROVE Starter(p) \in FlowerType
  BY <1>2 DEF Starter, FlowerType
<1>4. ASSUME NEW p \in Players, NEW x \in Experiments PROVE Offspring(p, x) \in FlowerType
  BY <1>2 DEF Offspring, FlowerType
<1>. QED
  BY <1>2, <1>3, <1>4

LEMMA ProfileFields ==
  ASSUME NEW a \in ProfileType
  PROVE  /\ [a EXCEPT !.total_flowers = Less(@)] \in ProfileType
         /\ [a EXCEPT !.total_flowers = @ + 1] \in ProfileType
         /\ [a EXCEPT !.active_experiment_count = Less(@)] \in ProfileType
         /\ [a EXCEPT !.exists = TRUE] \in ProfileType
         /\ [a EXCEPT !.starter_claimed = TRUE, !.total_flowers = STARTER_COUNT, !.next_flower_index = STARTER_COUNT] \in ProfileType
<1>1. /\ Less(a.total_flowers) \in Nat /\ Less(a.active_experiment_count) \in Nat
      /\ a.total_flowers + 1 \in Nat /\ STARTER_COUNT \in Nat
  BY NumbersAssumption DEF ProfileType, Less
<1>. QED
  BY <1>1 DEF ProfileType

LEMMA TokenFields ==
  ASSUME NEW n \in NftType
  PROVE  /\ locked_token(n) \in NftType
         /\ n.state = "HELD" => [n EXCEPT !.frozen = FALSE] \in NftType
         /\ \A p \in Players : HeldBy(p) \in NftType
         /\ Burned \in NftType
<1>1. \/ n \in {NeverMinted, Burned}
      \/ n \in [state : {"HELD"}, holder : Players, frozen : BOOLEAN]
  BY DEF NftType
<1>2. CASE n \in {NeverMinted, Burned}
  <2>1. n.state # "HELD" /\ locked_token(n) = n
    BY <1>2 DEF NeverMinted, Burned, locked_token
  <2>. QED
    BY <2>1, <1>2 DEF NftType, HeldBy
<1>3. CASE n \in [state : {"HELD"}, holder : Players, frozen : BOOLEAN]
  BY <1>3 DEF NftType, locked_token, HeldBy
<1>. QED
  BY <1>1, <1>2, <1>3

LEMMA ExperimentFields ==
  ASSUME NEW a \in ExperimentType, a.status = "QUEUED"
  PROVE  /\ \A s \in {"COMPLETED", "FAILED", "EXPIRED"} : [a EXCEPT !.status = s] \in ExperimentType
         /\ [a EXCEPT !.timed_out = TRUE] \in ExperimentType
<1>1. a \in [status : {"QUEUED", "COMPLETED", "FAILED", "EXPIRED"},
            parents : SUBSET Flowers, offspring : Flowers, timed_out : BOOLEAN]
  BY DEF ExperimentType, NoExperiment
<1>. QED
  BY <1>1 DEF ExperimentType

LEMMA ReclaimedType ==
  ASSUME TypeOK, NEW x \in Experiments, reclaim_dead_offspring(x)
  PROVE  experiment[x].offspring \in Flowers
<1>1. experiment[x] \in ExperimentType
  BY DEF TypeOK
<1>2. experiment[x].status # "NONE"
  BY DEF reclaim_dead_offspring, reclaimable
<1>. QED
  BY <1>1, <1>2 DEF ExperimentType, NoExperiment

LEMMA BumpTypes ==
  ASSUME NEW profiles \in [Players -> ProfileType], NEW p, NEW up \in BOOLEAN
  PROVE  bump_total_flowers(profiles, p, up) \in [Players -> ProfileType]
<1>. DEFINE a == [profiles[p] EXCEPT !.total_flowers = IF up THEN @ + 1 ELSE Less(@)]
<1>1. CASE p \in Players
  <2>1. a \in ProfileType
    BY <1>1, ProfileFields
  <2>. QED
    BY <1>1, <2>1 DEF bump_total_flowers
<1>2. CASE p \notin Players
  BY <1>2 DEF bump_total_flowers
<1>. QED
  BY <1>1, <1>2

LEMMA SyncTypes ==
  ASSUME TypeOK, NEW f \in Flowers
  PROVE  /\ synced_flower(f) \in FlowerType
         /\ synced_profiles(f) \in [Players -> ProfileType]
<1>1. flower[f] \in FlowerType /\ nft[f] \in NftType /\ profile \in [Players -> ProfileType]
  BY DEF TypeOK
<1>2. changed_hands(f) => nft[f].holder \in Players
  BY <1>1 DEF changed_hands, NftType, NeverMinted, Burned
<1>3. synced_flower(f) \in FlowerType
  BY <1>1, <1>2, FlowerFields DEF synced_flower
<1>4. synced_profiles(f) \in [Players -> ProfileType]
  BY <1>1, BumpTypes DEF synced_profiles
<1>. QED
  BY <1>3, <1>4

LEMMA ActivatedTypes ==
  ASSUME TypeOK, NEW activated
  PROVE  [f \in Flowers |->
            IF f \in activated THEN [flower[f] EXCEPT !.status = "ACTIVE"] ELSE flower[f]]
           \in [Flowers -> FlowerType]
<1>1. ASSUME NEW f \in Flowers
      PROVE  flower[f] \in FlowerType /\ [flower[f] EXCEPT !.status = "ACTIVE"] \in FlowerType
  BY FlowerFields DEF TypeOK, Statuses
<1>. QED
  BY <1>1

LEMMA ResolveTypes ==
  ASSUME TypeOK, NEW x \in Experiments, NEW s \in {"COMPLETED", "FAILED", "EXPIRED"},
         NEW activated, unresolved(x), Resolve(x, s, activated)
  PROVE  /\ experiment' \in [Experiments -> ExperimentType]
         /\ flower' \in [Flowers -> FlowerType]
         /\ profile' \in [Players -> ProfileType]
<1>1. experiment' \in [Experiments -> ExperimentType]
  <2>1. [experiment[x] EXCEPT !.status = s] \in ExperimentType
    BY ExperimentFields DEF TypeOK, unresolved
  <2>. QED
    BY <2>1 DEF Resolve, TypeOK
<1>2. flower' \in [Flowers -> FlowerType]
  BY ActivatedTypes DEF Resolve
<1>3. profile' \in [Players -> ProfileType]
  <2>1. x[1] \in Players
    BY DEF Experiments
  <2>2. [profile[x[1]] EXCEPT !.active_experiment_count = Less(@)] \in ProfileType
    BY <2>1, ProfileFields DEF TypeOK
  <2>. QED
    BY <2>1, <2>2 DEF Resolve, TypeOK
<1>. QED
  BY <1>1, <1>2, <1>3

LEMMA BreedTypes ==
  ASSUME TypeOK, NEW p \in Players, NEW S \in Pairs, start_breeding(p, S)
  PROVE  TypeOK'
<1>. DEFINE child == <<p, profile[p].next_flower_index>>
            x == <<p, profile[p].total_experiments>>
<1>1. /\ child \in Flowers /\ x \in Experiments /\ S \subseteq Flowers
      /\ profile[p] \in ProfileType
  BY DEF start_breeding, Pairs, TypeOK
<1>2. flower' \in [Flowers -> FlowerType]
  <2>1. ASSUME NEW f \in S
        PROVE  [flower[f] EXCEPT !.status = "LOCKED", !.bred = @ + 1] \in FlowerType
    BY <1>1, FlowerFields DEF start_breeding, may_be_parent, TypeOK
  <2>2. Offspring(p, x) \in FlowerType
    BY <1>1, NewFlowers
  <2>. QED
    BY <1>1, <2>1, <2>2 DEF start_breeding, TypeOK
<1>3. nft' \in [Flowers -> NftType]
  <2>1. ASSUME NEW f \in Flowers PROVE nft[f] \in NftType /\ locked_token(nft[f]) \in NftType
    BY TokenFields DEF TypeOK
  <2>. QED
    BY <2>1 DEF start_breeding
<1>4. experiment' \in [Experiments -> ExperimentType]
  <2>1. [status |-> "QUEUED", parents |-> S, offspring |-> child, timed_out |-> FALSE] \in ExperimentType
    BY <1>1 DEF ExperimentType
  <2>. QED
    BY <1>1, <2>1 DEF start_breeding, TypeOK
<1>5. profile' \in [Players -> ProfileType]
  <2>. DEFINE a == profile[p]
              b == IF a.last_breed_round = current_round THEN a.breeds_this_round + 1 ELSE 1
  <2>1. a \in ProfileType /\ breeds_left(p) /\ current_round \in 0..MaxRounds
    BY <1>1 DEF start_breeding, TypeOK
  <2>2. b \in 0..MAX_BREEDS_PER_ROUND
    BY <2>1, NumbersAssumption DEF breeds_left, ProfileType
  <2>3. /\ a.total_experiments + 1 \in Nat /\ a.active_experiment_count + 1 \in Nat
        /\ a.total_flowers + 1 \in Nat /\ a.next_flower_index + 1 \in Nat
    BY <2>1 DEF ProfileType
  <2>4. bred_once_more(a) \in ProfileType
    <3>. HIDE DEF b
    <3>1. bred_once_more(a) =
            [a EXCEPT !.total_experiments = a.total_experiments + 1,
              !.active_experiment_count = a.active_experiment_count + 1,
              !.total_flowers = a.total_flowers + 1,
              !.next_flower_index = a.next_flower_index + 1,
              !.last_breed_round = current_round, !.breeds_this_round = b]
      BY DEF bred_once_more, b
    <3>. QED
      BY <2>1, <2>2, <2>3, <3>1 DEF ProfileType
  <2>5. profile' = [profile EXCEPT ![p] = bred_once_more(a)]
    BY DEF start_breeding
  <2>. HIDE DEF a
  <2>. QED
    BY <2>4, <2>5 DEF TypeOK
<1>6. computations' \subseteq Experiments
  BY <1>1 DEF start_breeding, TypeOK
<1>. QED
  BY <1>2, <1>3, <1>4, <1>5, <1>6 DEF TypeOK, start_breeding

LEMMA TypeInit == Init => TypeOK
<1>. SUFFICES ASSUME Init PROVE TypeOK
  OBVIOUS
<1>1. profile \in [Players -> ProfileType]
  BY NumbersAssumption DEF Init, NoProfile, ProfileType
<1>2. flower \in [Flowers -> FlowerType]
  BY NewFlowers DEF Init
<1>3. nft \in [Flowers -> NftType]
  BY DEF Init, NftType
<1>4. experiment \in [Experiments -> ExperimentType]
  BY DEF Init, NoExperiment, ExperimentType
<1>5. entry \in [Rounds -> [Players -> EntryType]]
  BY DEF Init, NoEntry, EntryType
<1>6. current_round \in 0..MaxRounds
  BY NumbersAssumption DEF Init
<1>. QED
  BY <1>1, <1>2, <1>3, <1>4, <1>5, <1>6 DEF Init, TypeOK

LEMMA TypeStep == TypeOK /\ [Next]_vars => TypeOK'
<1>. SUFFICES ASSUME TypeOK, [Next]_vars PROVE TypeOK'
  OBVIOUS
<1>1. ASSUME NEW b \in BOOLEAN, SetPaused(b) PROVE TypeOK'
  BY <1>1 DEF SetPaused, TypeOK
<1>2. CASE open_round
  BY <1>2, NumbersAssumption DEF open_round, Rounds, TypeOK
<1>3. CASE close_round \/ finalize_round
  BY <1>3 DEF close_round, finalize_round, advance_round, TypeOK
<1>4. ASSUME NEW p \in Players, create_profile(p) PROVE TypeOK'
  <2>1. [profile[p] EXCEPT !.exists = TRUE] \in ProfileType
    BY ProfileFields DEF TypeOK
  <2>. QED
    BY <1>4, <2>1 DEF create_profile, TypeOK
<1>5. ASSUME NEW p \in Players, claim_starters(p) PROVE TypeOK'
  <2>. DEFINE a == [profile[p] EXCEPT !.starter_claimed = TRUE,
                     !.total_flowers = STARTER_COUNT, !.next_flower_index = STARTER_COUNT]
  <2>1. a \in ProfileType
    BY ProfileFields DEF TypeOK
  <2>2. profile' = [profile EXCEPT ![p] = a]
    BY <1>5 DEF claim_starters
  <2>3. profile' \in [Players -> ProfileType]
    <3>. HIDE DEF a
    <3>. QED
      BY <2>1, <2>2 DEF TypeOK
  <2>4. flower' \in [Flowers -> FlowerType]
    BY <1>5, NewFlowers DEF claim_starters, TypeOK
  <2>. QED
    BY <1>5, <2>3, <2>4 DEF claim_starters, TypeOK
<1>6. ASSUME NEW p \in Players, NEW S \in Pairs, start_breeding(p, S) PROVE TypeOK'
  BY <1>6, BreedTypes
<1>7. ASSUME NEW p \in Players, NEW f \in Flowers, close_flower(p, f) PROVE TypeOK'
  <2>1. profile' \in [Players -> ProfileType]
    BY <1>7, BumpTypes DEF close_flower, bump_total_flowers, TypeOK
  <2>. QED
    BY <1>7, <2>1, NewFlowers DEF close_flower, TypeOK
<1>8. ASSUME NEW p \in Players, NEW f \in Flowers,
             mint_flower_nft(p, f) \/ burn_flower_nft(p, f) \/ Transfer(f, p) PROVE TypeOK'
  <2>1. HeldBy(p) \in NftType /\ Burned \in NftType
    BY DEF HeldBy, NftType
  <2>. QED
    BY <1>8, <2>1 DEF mint_flower_nft, burn_flower_nft, Transfer, TypeOK
<1>9. ASSUME NEW p \in Players, NEW f \in Flowers, submit_entry(p, f) PROVE TypeOK'
  <2>1. [synced_flower(f) EXCEPT !.status = "SUBMITTED"] \in FlowerType
    BY SyncTypes, FlowerFields DEF Statuses
  <2>2. locked_token(nft[f]) \in NftType
    BY TokenFields DEF TypeOK
  <2>3. profile' \in [Players -> ProfileType]
    BY <1>9, SyncTypes DEF submit_entry, TypeOK
  <2>4. entry' \in [Rounds -> [Players -> EntryType]]
    <3>1. current_round \in Rounds
      BY <1>9 DEF submit_entry, TypeOK, Rounds
    <3>2. [status |-> "SUBMITTED", flower |-> f] \in EntryType
      BY DEF EntryType
    <3>. QED
      BY <1>9, <3>1, <3>2 DEF submit_entry, TypeOK
  <2>. QED
    BY <1>9, <2>1, <2>2, <2>3, <2>4 DEF submit_entry, TypeOK
<1>10. ASSUME NEW r \in Rounds, NEW p \in Players, release_flower(r, p) PROVE TypeOK'
  <2>. DEFINE f == entry[r][p].flower
  <2>1. f \in Flowers
    BY <1>10 DEF release_flower, releasable, TypeOK, EntryType, NoEntry
  <2>2. [synced_flower(f) EXCEPT !.status = "ACTIVE"] \in FlowerType
    BY <2>1, SyncTypes, FlowerFields DEF Statuses
  <2>3. entry' \in [Rounds -> [Players -> EntryType]]
    <3>1. entry[r][p] \in EntryType /\ entry[r][p].status = "SUBMITTED"
      BY <1>10 DEF release_flower, releasable, TypeOK
    <3>2. entry[r][p] \in [status : {"SUBMITTED", "RELEASED"}, flower : Flowers]
      BY <3>1 DEF EntryType, NoEntry
    <3>3. [entry[r][p] EXCEPT !.status = "RELEASED"] \in EntryType
      BY <3>2 DEF EntryType
    <3>. QED
      BY <1>10, <3>3 DEF release_flower, TypeOK
  <2>. QED
    BY <1>10, <2>1, <2>2, <2>3, SyncTypes DEF release_flower, TypeOK
<1>11. ASSUME NEW p \in Players, NEW f \in Flowers, queue_private_hint(p, f) PROVE TypeOK'
  BY <1>11, SyncTypes DEF queue_private_hint, TypeOK
<1>12. ASSUME NEW f \in Flowers, thaw_flower_nft(f) PROVE TypeOK'
  <2>1. [nft[f] EXCEPT !.frozen = FALSE] \in NftType
    BY <1>12, TokenFields DEF thaw_flower_nft, TypeOK
  <2>. QED
    BY <1>12, <2>1, SyncTypes DEF thaw_flower_nft, TypeOK
<1>13. ASSUME NEW f \in Flowers, RawBurn(f) \/ CooldownOver(f) PROVE TypeOK'
  <2>1. [flower[f] EXCEPT !.cooling = FALSE] \in FlowerType /\ Burned \in NftType
    BY FlowerFields DEF TypeOK, NftType
  <2>. QED
    BY <1>13, <2>1 DEF RawBurn, CooldownOver, TypeOK
<1>14. ASSUME NEW x \in Experiments, breed_v5_callback(x) PROVE TypeOK'
  <2>1. /\ experiment' \in [Experiments -> ExperimentType]
        /\ flower' \in [Flowers -> FlowerType]
        /\ profile' \in [Players -> ProfileType]
    <3>1. CASE unresolved(x) /\ breed_success(x)
      BY <3>1, ResolveTypes DEF breed_success
    <3>2. CASE unresolved(x) /\ breed_failure(x)
      BY <3>2, ResolveTypes DEF breed_failure
    <3>. QED
      BY <1>14, <3>1, <3>2 DEF breed_v5_callback, TypeOK
  <2>. QED
    BY <1>14, <2>1 DEF breed_v5_callback, TypeOK
<1>15. ASSUME NEW x \in Experiments, cancel_expired_experiment(x) PROVE TypeOK'
  BY <1>15, ResolveTypes DEF cancel_expired_experiment, cancellable, unresolved, TypeOK
<1>16. ASSUME NEW x \in Experiments, reclaim_dead_offspring(x) PROVE TypeOK'
  <2>1. profile' \in [Players -> ProfileType]
    BY <1>16, BumpTypes DEF reclaim_dead_offspring, bump_total_flowers, TypeOK
  <2>. QED
    BY <1>16, <2>1, NewFlowers DEF reclaim_dead_offspring, TypeOK
<1>17. ASSUME NEW x \in Experiments, Tick(x) PROVE TypeOK'
  <2>1. [experiment[x] EXCEPT !.timed_out = TRUE] \in ExperimentType
    BY <1>17, ExperimentFields DEF Tick, unresolved, TypeOK
  <2>. QED
    BY <1>17, <2>1 DEF Tick, TypeOK
<1>18. CASE UNCHANGED vars
  BY <1>18 DEF vars, TypeOK
<1>. QED
  BY <1>1, <1>2, <1>3, <1>4, <1>5, <1>6, <1>7, <1>8, <1>9, <1>10, <1>11, <1>12, <1>13, <1>14,
     <1>15, <1>16, <1>17, <1>18 DEF Next

\* Every reachable state is well typed.
THEOREM TypeCorrect == Spec => []TypeOK
BY TypeInit, TypeStep, PTL DEF Spec

-----------------------------------------------------------------------------
(***************************************************************************)
(* A flower in use is not sold, and a minted one stays.                    *)
(***************************************************************************)
\* The flowers an experiment holds while it is unresolved.
Uses(x) == experiment[x].parents \cup {experiment[x].offspring}

\* No unresolved experiment holds f.
Idle(f) == \A x \in Experiments : unresolved(x) => f \notin Uses(x)

\* Bred by an experiment that has not completed.
Unborn(f) ==
  /\ flower[f].source_experiment \in Experiments
  /\ experiment[flower[f].source_experiment].status # "COMPLETED"

UsesLocked ==
  \A x \in Experiments : unresolved(x) =>
    \A f \in Uses(x) : f \in Flowers /\ flower[f].status = "LOCKED"

UsesDisjoint ==
  \A x, y \in Experiments :
    unresolved(x) /\ unresolved(y) /\ x # y => Uses(x) \cap Uses(y) = {}

UnbornLocked ==
  \A f \in Flowers : Unborn(f) => flower[f].status = "LOCKED" /\ nft[f].state = "NEVER"

ParentsBorn ==
  \A x \in Experiments : unresolved(x) => \A f \in experiment[x].parents : ~Unborn(f)

OffspringUnborn ==
  \A x \in Experiments :
    unresolved(x) => flower[experiment[x].offspring].source_experiment = x

\* The inductive invariant is Kept.
Breeding == UsesLocked /\ UsesDisjoint /\ UnbornLocked /\ ParentsBorn /\ OffspringUnborn

Kept == TypeOK /\ Breeding /\ InUseNotSold /\ MintedFlowersStay

\* A step that leaves the experiments alone keeps Breeding if it changes only
\* flowers no breeding uses, and leaves none of those unborn.
LEMMA BreedingFrame ==
  ASSUME Breeding,
         \A y \in Experiments :
           /\ experiment'[y].status = experiment[y].status
           /\ experiment'[y].parents = experiment[y].parents
           /\ experiment'[y].offspring = experiment[y].offspring,
         \A g \in Flowers :
           \/ /\ flower'[g].status = flower[g].status
              /\ flower'[g].source_experiment = flower[g].source_experiment
              /\ nft'[g].state = nft[g].state
           \/ Idle(g) /\ ~Unborn(g)'
  PROVE  Breeding'
<1>1. \A y \in Experiments : unresolved(y)' = unresolved(y) /\ Uses(y)' = Uses(y)
  BY DEF unresolved, Uses
<1>2. \A g \in Flowers : Unborn(g)' => Unborn(g) /\ flower'[g].status = flower[g].status
                                      /\ nft'[g].state = nft[g].state
  BY DEF Unborn
<1>3. \A y \in Experiments : unresolved(y) => \A f \in Uses(y) :
        /\ f \in Flowers /\ flower'[f].status = flower[f].status
        /\ flower'[f].source_experiment = flower[f].source_experiment
  BY DEF Idle, Breeding, UsesLocked
<1>4. UsesLocked'
  BY <1>1, <1>3 DEF Breeding, UsesLocked
<1>5. UsesDisjoint'
  BY <1>1 DEF Breeding, UsesDisjoint
<1>6. UnbornLocked'
  BY <1>2 DEF Breeding, UnbornLocked
<1>7. ParentsBorn'
  BY <1>1, <1>2, <1>3 DEF Breeding, ParentsBorn, Uses
<1>8. OffspringUnborn'
  BY <1>1, <1>3 DEF Breeding, OffspringUnborn, Uses
<1>. QED
  BY <1>4, <1>5, <1>6, <1>7, <1>8 DEF Breeding

\* What resolving an unresolved experiment does to Kept.
LEMMA ResolveKeeps ==
  ASSUME Kept, NEW x \in Experiments, unresolved(x),
         NEW s \in {"COMPLETED", "FAILED", "EXPIRED"}, NEW activated,
         activated = IF s = "COMPLETED" THEN Uses(x) ELSE experiment[x].parents,
         Resolve(x, s, activated), nft' = nft
  PROVE  Breeding' /\ InUseNotSold' /\ MintedFlowersStay'
<1>1. \A y \in Experiments :
        /\ experiment'[y].status = IF y = x THEN s ELSE experiment[y].status
        /\ experiment'[y].parents = experiment[y].parents
        /\ experiment'[y].offspring = experiment[y].offspring
  BY DEF Resolve, Kept, TypeOK, ExperimentType
<1>2. \A g \in Flowers :
        /\ flower'[g].status = IF g \in activated THEN "ACTIVE" ELSE flower[g].status
        /\ flower'[g].source_experiment = flower[g].source_experiment
        /\ flower'[g].owner = flower[g].owner
  BY DEF Resolve, Kept, TypeOK, FlowerType
<1>3. \A y \in Experiments : unresolved(y)' <=> unresolved(y) /\ y # x
  BY <1>1 DEF unresolved
<1>4. \A y \in Experiments : Uses(y)' = Uses(y)
  BY <1>1 DEF Uses
<1>5. activated \subseteq Uses(x)
  BY DEF Uses
<1>6. \A y \in Experiments : unresolved(y)' => Uses(y) \cap activated = {}
  BY <1>3, <1>5 DEF Kept, Breeding, UsesDisjoint
<1>7. \A g \in Flowers : Unborn(g)' => Unborn(g)
  BY <1>1, <1>2 DEF Unborn, unresolved
<1>8. \A g \in Flowers : Unborn(g)' => g \notin activated
  <2>1. \A g \in experiment[x].parents : ~Unborn(g)
    BY DEF Kept, Breeding, ParentsBorn
  <2>2. ASSUME NEW g \in Flowers, g = experiment[x].offspring, s = "COMPLETED"
        PROVE  ~Unborn(g)'
    BY <1>1, <1>2, <2>2 DEF Unborn, Kept, Breeding, OffspringUnborn
  <2>. QED
    BY <1>7, <2>1, <2>2 DEF Uses
<1>9. UsesLocked' /\ UsesDisjoint'
  <2>1. UsesLocked'
    BY <1>2, <1>3, <1>4, <1>6 DEF Kept, Breeding, UsesLocked
  <2>2. UsesDisjoint'
    BY <1>3, <1>4 DEF Kept, Breeding, UsesDisjoint
  <2>. QED
    BY <2>1, <2>2
<1>10. UnbornLocked'
  BY <1>2, <1>7, <1>8 DEF Kept, Breeding, UnbornLocked
<1>11. ParentsBorn'
  BY <1>1, <1>3, <1>4, <1>7 DEF Kept, Breeding, ParentsBorn, UsesLocked, Uses
<1>12. OffspringUnborn'
  BY <1>1, <1>2, <1>3 DEF Kept, Breeding, OffspringUnborn, UsesLocked, Uses
<1>13. InUseNotSold'
  BY <1>2 DEF Kept, InUseNotSold
<1>14. MintedFlowersStay'
  BY <1>2 DEF Kept, MintedFlowersStay
<1>. QED
  BY <1>9, <1>10, <1>11, <1>12, <1>13, <1>14 DEF Breeding

\* Starting a breeding: free flowers become locked, a new one appears.
LEMMA BreedKeeps ==
  ASSUME Kept, NEW p \in Players, NEW S \in Pairs, start_breeding(p, S)
  PROVE  Breeding' /\ InUseNotSold' /\ MintedFlowersStay'
<1>0. PICK child \in Flowers, x \in Experiments :
        child = <<p, profile[p].next_flower_index>> /\ x = <<p, profile[p].total_experiments>>
  BY DEF start_breeding
<1>1. /\ S \subseteq Flowers /\ child \in Flowers /\ x \in Experiments
      /\ experiment[x].status = "NONE" /\ flower[child].status = "NONE"
      /\ \A f \in S : flower[f].status = "ACTIVE" /\ ~synced_flower(f).cooling
                      /\ synced_flower(f).owner = p
  BY <1>0 DEF start_breeding, Pairs, may_be_parent
<1>2. child \notin S
  BY <1>1
<1>3. \A f \in S : nft[f].state = "HELD" => nft[f].holder = flower[f].owner
  <2>1. ASSUME NEW f \in S, changed_hands(f) PROVE synced_flower(f).cooling = TRUE
    BY <1>1, <2>1 DEF synced_flower, Kept, TypeOK, FlowerType
  <2>. QED
    BY <1>1, <2>1 DEF changed_hands
<1>4. nft[child] = NeverMinted
  BY <1>1 DEF Kept, MintedFlowersStay, TypeOK, NftType, Burned
<1>5. \A y \in Experiments :
        /\ y # x => experiment'[y] = experiment[y]
        /\ y = x => /\ experiment'[y].status = "QUEUED"
                    /\ experiment'[y].parents = S /\ experiment'[y].offspring = child
  BY <1>0, <1>1 DEF start_breeding, Kept, TypeOK
<1>6. \A g \in Flowers :
        /\ g \in S => /\ flower'[g].status = "LOCKED"
                       /\ flower'[g].source_experiment = flower[g].source_experiment
                       /\ flower'[g].owner = flower[g].owner
                       /\ nft'[g] = locked_token(nft[g])
        /\ g = child => /\ flower'[g].status = "LOCKED" /\ flower'[g].source_experiment = x
        /\ g \notin S => nft'[g] = nft[g]
        /\ g \notin S /\ g # child => flower'[g] = flower[g]
  <2>1. \A g \in S : /\ flower'[g].status = "LOCKED"
                     /\ flower'[g].source_experiment = flower[g].source_experiment
                     /\ flower'[g].owner = flower[g].owner
    <3>1. ASSUME NEW g \in S
          PROVE  /\ flower[g] \in FlowerType
                 /\ flower'[g] = [flower[g] EXCEPT !.status = "LOCKED", !.bred = @ + 1]
      BY <1>1 DEF start_breeding, Kept, TypeOK
    <3>. QED
      BY <3>1 DEF FlowerType
  <2>2. flower'[child] = Offspring(p, x)
    BY <1>0, <1>1, <1>2 DEF start_breeding
  <2>3. \A g \in Flowers : g \notin S /\ g # child => flower'[g] = flower[g]
    BY <1>0 DEF start_breeding
  <2>4. \A g \in Flowers : nft'[g] = IF g \in S THEN locked_token(nft[g]) ELSE nft[g]
    BY DEF start_breeding
  <2>5. flower'[child].status = "LOCKED" /\ flower'[child].source_experiment = x
    BY <2>2 DEF Offspring, NoFlower
  <2>. QED
    BY <2>1, <2>3, <2>4, <2>5
<1>7. \A y \in Experiments : unresolved(y)' <=> unresolved(y) \/ y = x
  BY <1>1, <1>5 DEF unresolved
<1>8. /\ \A y \in Experiments : y # x => Uses(y)' = Uses(y)
      /\ Uses(x)' = S \cup {child}
  BY <1>1, <1>5 DEF Uses
<1>9. \A y \in Experiments : unresolved(y) => (S \cup {child}) \cap Uses(y) = {}
  BY <1>1 DEF Kept, Breeding, UsesLocked
<1>10. ~unresolved(x)
  BY <1>1 DEF unresolved
<1>11. \A g \in Flowers : g # child => (Unborn(g)' <=> Unborn(g))
  BY <1>1, <1>5, <1>6 DEF Unborn
<1>12. \A g \in S : ~Unborn(g)
  BY <1>1 DEF Kept, Breeding, UnbornLocked
<1>13. UsesLocked'
  BY <1>1, <1>6, <1>7, <1>8, <1>9 DEF Kept, Breeding, UsesLocked
<1>14. UsesDisjoint'
  BY <1>7, <1>8, <1>9 DEF Kept, Breeding, UsesDisjoint
<1>15. UnbornLocked'
  <2>1. nft'[child].state = "NEVER" /\ flower'[child].status = "LOCKED"
    BY <1>1, <1>2, <1>4, <1>6 DEF NeverMinted
  <2>2. ASSUME NEW g \in Flowers, g # child, Unborn(g)'
        PROVE  flower'[g].status = "LOCKED" /\ nft'[g].state = "NEVER"
    <3>1. Unborn(g) /\ g \notin S
      BY <1>11, <1>12, <2>2
    <3>. QED
      BY <1>6, <2>2, <3>1 DEF Kept, Breeding, UnbornLocked
  <2>. QED
    BY <2>1, <2>2 DEF UnbornLocked
<1>16. ParentsBorn'
  <2>1. ASSUME NEW y \in Experiments, unresolved(y), NEW f \in experiment[y].parents
        PROVE  ~Unborn(f)'
    <3>1. f \in Flowers /\ f # child /\ ~Unborn(f)
      BY <1>9, <2>1 DEF Kept, Breeding, ParentsBorn, UsesLocked, Uses
    <3>. QED
      BY <1>11, <3>1
  <2>2. \A f \in S : ~Unborn(f)'
    BY <1>1, <1>2, <1>11, <1>12
  <2>. QED
    BY <1>5, <1>7, <1>10, <2>1, <2>2 DEF ParentsBorn
<1>17. OffspringUnborn'
  <2>1. ASSUME NEW y \in Experiments, unresolved(y)
        PROVE  flower'[experiment[y].offspring].source_experiment = y
    <3>. DEFINE g == experiment[y].offspring
    <3>1. g \in Flowers /\ g # child /\ g \notin S /\ flower[g].source_experiment = y
      BY <1>9, <2>1 DEF Kept, Breeding, OffspringUnborn, UsesLocked, Uses
    <3>. QED
      BY <1>6, <3>1
  <2>. QED
    BY <1>1, <1>5, <1>6, <1>7, <1>10, <2>1 DEF OffspringUnborn
<1>18. InUseNotSold'
  <2>1. ASSUME NEW f \in S, nft'[f].state = "HELD"
        PROVE  nft'[f].frozen /\ nft'[f].holder = flower'[f].owner
    <3>1. nft[f] \in NftType /\ nft'[f] = locked_token(nft[f])
      BY <1>1, <1>6 DEF Kept, TypeOK
    <3>2. nft[f].state = "HELD" /\ nft'[f].frozen /\ nft'[f].holder = nft[f].holder
      BY <2>1, <3>1 DEF locked_token, NftType, NeverMinted, Burned
    <3>. QED
      BY <1>1, <1>3, <1>6, <3>2
  <2>2. nft'[child].state # "HELD"
    BY <1>1, <1>2, <1>4, <1>6 DEF NeverMinted
  <2>3. \A g \in Flowers : g \notin S /\ g # child => flower'[g] = flower[g] /\ nft'[g] = nft[g]
    BY <1>6
  <2>. QED
    BY <2>1, <2>2, <2>3 DEF Kept, InUseNotSold
<1>19. MintedFlowersStay'
  BY <1>6, <1>1 DEF Kept, MintedFlowersStay
<1>. QED
  BY <1>13, <1>14, <1>15, <1>16, <1>17, <1>18, <1>19 DEF Breeding

SameExperiments ==
  \A y \in Experiments :
    /\ experiment'[y].status = experiment[y].status
    /\ experiment'[y].parents = experiment[y].parents
    /\ experiment'[y].offspring = experiment[y].offspring

LEMMA NotLockedIdle ==
  ASSUME Kept, NEW f \in Flowers, flower[f].status # "LOCKED"
  PROVE  Idle(f) /\ ~Unborn(f)
BY DEF Kept, Breeding, UsesLocked, UnbornLocked, Idle

LEMMA NoKeyNoExperiment == NoKey \notin Experiments /\ NoFlower.source_experiment = NoKey
BY PlayersAssumption DEF NoKey, Experiments, NoFlower

\* A step that changes one flower or its token, and no experiment.
LEMMA OneFlower ==
  ASSUME Kept, SameExperiments, NEW f \in Flowers,
         \A g \in Flowers : g # f => flower'[g] = flower[g] /\ nft'[g] = nft[g],
         \/ /\ flower'[f].status = flower[f].status
            /\ flower'[f].source_experiment = flower[f].source_experiment
            /\ nft'[f].state = nft[f].state
         \/ Idle(f) /\ ~Unborn(f)',
         flower'[f].status \in {"LOCKED", "SUBMITTED"} /\ nft'[f].state = "HELD"
           => nft'[f].frozen /\ nft'[f].holder = flower'[f].owner,
         nft'[f].state # "NEVER" => flower'[f].status # "NONE"
  PROVE  Breeding' /\ InUseNotSold' /\ MintedFlowersStay'
<1>1. Breeding'
  BY BreedingFrame DEF Kept, SameExperiments
<1>2. InUseNotSold'
  BY DEF Kept, InUseNotSold
<1>3. MintedFlowersStay'
  BY DEF Kept, MintedFlowersStay
<1>. QED
  BY <1>1, <1>2, <1>3

LEMMA NoFlowerChanged ==
  ASSUME Kept, SameExperiments, flower' = flower, nft' = nft
  PROVE  Breeding' /\ InUseNotSold' /\ MintedFlowersStay'
<1>1. Breeding'
  BY BreedingFrame DEF Kept, SameExperiments
<1>. QED
  BY <1>1 DEF Kept, InUseNotSold, MintedFlowersStay

LEMMA ClaimKeeps ==
  ASSUME Kept, NEW p \in Players, claim_starters(p)
  PROVE  Breeding' /\ InUseNotSold' /\ MintedFlowersStay'
<1>1. \A g \in Flowers :
        \/ flower'[g] = flower[g]
        \/ /\ flower[g].status = "NONE" /\ flower'[g].status = "ACTIVE"
           /\ flower'[g].source_experiment = NoKey
  BY NoKeyNoExperiment DEF claim_starters, Starter, NoFlower
<1>2. \A g \in Flowers : flower'[g] # flower[g] => Idle(g) /\ ~Unborn(g)'
  BY <1>1, NotLockedIdle, NoKeyNoExperiment DEF claim_starters, Unborn
<1>3. Breeding'
  BY <1>1, <1>2, BreedingFrame DEF claim_starters, Kept
<1>4. InUseNotSold' /\ MintedFlowersStay'
  BY <1>1 DEF claim_starters, Kept, InUseNotSold, MintedFlowersStay
<1>. QED
  BY <1>3, <1>4

\* What a sync leaves of a flower, its token and its owner.
LEMMA Synced ==
  ASSUME Kept, NEW f \in Flowers
  PROVE  /\ synced_flower(f).status = flower[f].status
         /\ synced_flower(f).source_experiment = flower[f].source_experiment
         /\ nft[f].state = "HELD" => synced_flower(f).owner = nft[f].holder
         /\ \A s \in Statuses :
              /\ [synced_flower(f) EXCEPT !.status = s].status = s
              /\ [synced_flower(f) EXCEPT !.status = s].owner = synced_flower(f).owner
              /\ [synced_flower(f) EXCEPT !.status = s].source_experiment
                   = flower[f].source_experiment
<1>1. flower[f] \in FlowerType /\ synced_flower(f) \in FlowerType
  BY SyncTypes DEF Kept, TypeOK
<1>2. /\ synced_flower(f).status = flower[f].status
      /\ synced_flower(f).source_experiment = flower[f].source_experiment
  BY <1>1 DEF synced_flower, FlowerType
<1>3. nft[f].state = "HELD" => synced_flower(f).owner = nft[f].holder
  BY <1>1 DEF synced_flower, changed_hands, FlowerType
<1>. QED
  BY <1>1, <1>2, <1>3 DEF FlowerType

LEMMA KeptInit == Init => Kept
<1>. SUFFICES ASSUME Init PROVE Kept
  OBVIOUS
<1>1. \A x \in Experiments : ~unresolved(x)
  BY DEF Init, NoExperiment, unresolved
<1>2. \A f \in Flowers : flower[f] = NoFlower /\ nft[f] = NeverMinted
  BY DEF Init
<1>3. \A f \in Flowers : ~Unborn(f)
  BY <1>2, NoKeyNoExperiment DEF Unborn
<1>4. Breeding
  BY <1>1, <1>3 DEF Breeding, UsesLocked, UsesDisjoint, UnbornLocked, ParentsBorn, OffspringUnborn
<1>5. InUseNotSold /\ MintedFlowersStay
  BY <1>2 DEF InUseNotSold, MintedFlowersStay, NeverMinted
<1>. QED
  BY <1>4, <1>5, TypeInit DEF Kept

LEMMA KeptStep == Kept /\ [Next]_vars => Kept'
<1>. DEFINE Rest == Breeding' /\ InUseNotSold' /\ MintedFlowersStay'
<1>. SUFFICES ASSUME Kept, [Next]_vars PROVE Kept'
  OBVIOUS
<1>0. TypeOK' /\ TypeOK
  BY TypeStep DEF Kept
<1>. USE DEF Statuses
<1>1. ASSUME flower' = flower, nft' = nft, experiment' = experiment PROVE Rest
  BY <1>1, NoFlowerChanged DEF SameExperiments
<1>2. ASSUME NEW p \in Players, claim_starters(p) PROVE Rest
  BY <1>2, ClaimKeeps
<1>3. ASSUME NEW p \in Players, NEW S \in Pairs, start_breeding(p, S) PROVE Rest
  BY <1>3, BreedKeeps
<1>4. ASSUME NEW x \in Experiments, breed_v5_callback(x) PROVE Rest
  <2>1. CASE unresolved(x) /\ breed_success(x)
    BY <1>4, <2>1, ResolveKeeps DEF breed_v5_callback, breed_success, Uses
  <2>2. CASE unresolved(x) /\ breed_failure(x)
    BY <1>4, <2>2, ResolveKeeps DEF breed_v5_callback, breed_failure, Uses
  <2>3. CASE UNCHANGED <<experiment, flower, profile>>
    BY <1>1, <1>4, <2>3 DEF breed_v5_callback
  <2>. QED
    BY <1>4, <2>1, <2>2, <2>3 DEF breed_v5_callback
<1>5. ASSUME NEW x \in Experiments, cancel_expired_experiment(x) PROVE Rest
  BY <1>5, ResolveKeeps DEF cancel_expired_experiment, cancellable, unresolved, Uses
<1>6. ASSUME NEW x \in Experiments, Tick(x) PROVE Rest
  <2>1. SameExperiments
    BY <1>0, <1>6 DEF Tick, unresolved, SameExperiments, TypeOK, ExperimentType, NoExperiment
  <2>. QED
    BY <1>6, <2>1, NoFlowerChanged DEF Tick
<1>7. ASSUME NEW x \in Experiments, reclaim_dead_offspring(x) PROVE Rest
  <2>. DEFINE f == experiment[x].offspring
  <2>1. Unborn(f) /\ flower[f].source_experiment = x /\ flower[f].status = "LOCKED"
    BY <1>7 DEF reclaim_dead_offspring, reclaimable, Unborn
  <2>2. f \in Flowers
    BY <1>0, <1>7, ReclaimedType
  <2>3. Idle(f)
    BY <1>7, <2>1 DEF reclaim_dead_offspring, reclaimable, Idle, Uses, unresolved,
       Kept, Breeding, ParentsBorn, OffspringUnborn
  <2>4. nft'[f].state = "NEVER" /\ nft' = nft /\ experiment' = experiment
    BY <1>7, <2>1, <2>2 DEF reclaim_dead_offspring, Kept, Breeding, UnbornLocked
  <2>5. flower'[f] = NoFlower /\ \A g \in Flowers : g # f => flower'[g] = flower[g]
    BY <1>0, <1>7, <2>2 DEF reclaim_dead_offspring, TypeOK
  <2>. QED
    BY <2>2, <2>3, <2>4, <2>5, OneFlower, NoKeyNoExperiment
       DEF SameExperiments, Unborn, NoFlower
<1>8. ASSUME NEW p \in Players, NEW f \in Flowers, close_flower(p, f) PROVE Rest
  <2>1. flower'[f] = NoFlower /\ \A g \in Flowers : g # f => flower'[g] = flower[g]
    BY <1>0, <1>8 DEF close_flower, TypeOK
  <2>2. Idle(f) /\ nft' = nft /\ nft[f].state = "NEVER" /\ experiment' = experiment
    BY <1>8, NotLockedIdle DEF close_flower, never_minted
  <2>3. ~Unborn(f)'
    BY <2>1, <2>2, NoKeyNoExperiment DEF Unborn
  <2>. QED
    BY <2>1, <2>2, <2>3, OneFlower DEF SameExperiments, NoFlower
<1>9. ASSUME NEW p, NEW f \in Flowers,
             mint_flower_nft(p, f) \/ burn_flower_nft(p, f) \/ Transfer(f, p) \/ RawBurn(f)
      PROVE  Rest
  <2>1. /\ flower' = flower /\ experiment' = experiment
        /\ \A g \in Flowers : g # f => nft'[g] = nft[g]
    BY <1>0, <1>9 DEF mint_flower_nft, burn_flower_nft, Transfer, RawBurn, TypeOK
  <2>2. flower[f].status = "ACTIVE"
    <3>1. CASE mint_flower_nft(p, f) \/ burn_flower_nft(p, f)
      BY <3>1 DEF mint_flower_nft, burn_flower_nft
    <3>2. CASE Transfer(f, p) \/ RawBurn(f)
      <4>1. nft[f].state = "HELD" /\ ~nft[f].frozen /\ flower[f] \in FlowerType
        BY <1>0, <3>2 DEF Transfer, RawBurn, TypeOK
      <4>. QED
        BY <4>1 DEF Kept, InUseNotSold, MintedFlowersStay, FlowerType
    <3>. QED
      BY <1>9, <3>1, <3>2
  <2>4. Idle(f) /\ ~Unborn(f)
    BY <2>2, NotLockedIdle
  <2>5. ~Unborn(f)'
    BY <2>1, <2>4 DEF Unborn
  <2>. QED
    BY <2>1, <2>2, <2>4, <2>5, OneFlower DEF SameExperiments
<1>10. ASSUME NEW p \in Players, NEW f \in Flowers, submit_entry(p, f) PROVE Rest
  <2>1. /\ flower'[f] = [synced_flower(f) EXCEPT !.status = "SUBMITTED"]
        /\ nft'[f] = locked_token(nft[f]) /\ experiment' = experiment
        /\ \A g \in Flowers : g # f => flower'[g] = flower[g] /\ nft'[g] = nft[g]
    BY <1>0, <1>10 DEF submit_entry, TypeOK
  <2>2. flower[f].status = "ACTIVE"
    BY <1>10 DEF submit_entry
  <2>3. Idle(f) /\ ~Unborn(f)'
    BY <2>1, <2>2, NotLockedIdle, Synced DEF Unborn
  <2>4. nft[f] \in NftType
    BY <1>0 DEF TypeOK
  <2>5. nft'[f].state = "HELD" => nft'[f].frozen /\ nft'[f].holder = flower'[f].owner
    BY <2>1, <2>4, Synced DEF locked_token, NftType, NeverMinted, Burned
  <2>. QED
    BY <2>1, <2>3, <2>5, OneFlower, Synced DEF SameExperiments
<1>11. ASSUME NEW r \in Rounds, NEW p \in Players, release_flower(r, p) PROVE Rest
  <2>1. entry[r][p].flower \in Flowers
    BY <1>0, <1>11 DEF release_flower, releasable, TypeOK, EntryType, NoEntry
  <2>2. PICK f \in Flowers : f = entry[r][p].flower
    BY <2>1
  <2>3. /\ flower'[f] = [synced_flower(f) EXCEPT !.status = "ACTIVE"]
        /\ flower[f].status = "SUBMITTED" /\ nft' = nft /\ experiment' = experiment
        /\ \A g \in Flowers : g # f => flower'[g] = flower[g]
    BY <1>0, <1>11, <2>2 DEF release_flower, TypeOK
  <2>4. flower'[f].status = "ACTIVE" /\ flower'[f].source_experiment = flower[f].source_experiment
    BY <2>3, Synced
  <2>5. Idle(f) /\ ~Unborn(f)'
    BY <2>3, <2>4, NotLockedIdle DEF Unborn
  <2>. QED
    BY <2>3, <2>4, <2>5, OneFlower DEF SameExperiments
<1>12. ASSUME NEW f \in Flowers, thaw_flower_nft(f) PROVE Rest
  <2>1. /\ flower'[f] = synced_flower(f) /\ experiment' = experiment
        /\ flower[f].status = "ACTIVE"
        /\ \A g \in Flowers : g # f => flower'[g] = flower[g] /\ nft'[g] = nft[g]
    BY <1>0, <1>12 DEF thaw_flower_nft, thawable, TypeOK
  <2>2. flower'[f].status = "ACTIVE" /\ flower'[f].source_experiment = flower[f].source_experiment
    BY <2>1, Synced
  <2>3. Idle(f) /\ ~Unborn(f)'
    BY <2>1, <2>2, NotLockedIdle DEF Unborn
  <2>. QED
    BY <2>1, <2>2, <2>3, OneFlower DEF SameExperiments
<1>14. ASSUME NEW p \in Players, NEW f \in Flowers, queue_private_hint(p, f) PROVE Rest
  <2>1. /\ flower'[f] = synced_flower(f) /\ experiment' = experiment /\ nft' = nft
        /\ \A g \in Flowers : g # f => flower'[g] = flower[g]
    BY <1>0, <1>14 DEF queue_private_hint, TypeOK
  <2>2. /\ flower'[f].status = flower[f].status
        /\ flower'[f].source_experiment = flower[f].source_experiment
        /\ nft'[f].state = "HELD" => flower'[f].owner = nft'[f].holder
    BY <2>1, Synced
  <2>. QED
    BY <2>1, <2>2, OneFlower DEF SameExperiments, Kept, InUseNotSold, MintedFlowersStay
<1>13. ASSUME NEW f \in Flowers, CooldownOver(f) PROVE Rest
  <2>1. /\ flower'[f].status = flower[f].status /\ flower'[f].owner = flower[f].owner
        /\ flower'[f].source_experiment = flower[f].source_experiment
        /\ nft' = nft /\ experiment' = experiment
        /\ \A g \in Flowers : g # f => flower'[g] = flower[g]
    BY <1>0, <1>13 DEF CooldownOver, TypeOK, FlowerType
  <2>. QED
    BY <2>1, OneFlower DEF SameExperiments, Kept, InUseNotSold, MintedFlowersStay
<1>15. ASSUME NEW b \in BOOLEAN, SetPaused(b) PROVE Rest
  BY <1>1, <1>15 DEF SetPaused
<1>16. ASSUME open_round \/ close_round \/ finalize_round PROVE Rest
  BY <1>1, <1>16 DEF open_round, close_round, finalize_round, advance_round
<1>17. ASSUME NEW p \in Players, create_profile(p) PROVE Rest
  BY <1>1, <1>17 DEF create_profile
<1>18. ASSUME UNCHANGED vars PROVE Rest
  BY <1>1, <1>18 DEF vars
<1>19. Rest
  <2>1. CASE \E p \in Players :
             \/ create_profile(p)
             \/ claim_starters(p)
             \/ \E S \in Pairs : start_breeding(p, S)
             \/ \E f \in Flowers :
                  \/ close_flower(p, f) \/ mint_flower_nft(p, f) \/ burn_flower_nft(p, f)
                  \/ submit_entry(p, f) \/ queue_private_hint(p, f)
                  \/ Transfer(f, p)
             \/ \E r \in Rounds : release_flower(r, p)
    BY <2>1, <1>2, <1>3, <1>8, <1>9, <1>10, <1>11, <1>14, <1>17
  <2>2. CASE \/ \E f \in Flowers : thaw_flower_nft(f) \/ CooldownOver(f)
             \/ \E x \in Experiments :
                  \/ breed_v5_callback(x) \/ cancel_expired_experiment(x)
                  \/ reclaim_dead_offspring(x) \/ Tick(x)
    BY <2>2, <1>4, <1>5, <1>6, <1>7, <1>12, <1>13
  <2>3. CASE \E f \in Flowers : RawBurn(f)
    BY <2>3, <1>9
  <2>. QED
    BY <1>15, <1>16, <1>18, <2>1, <2>2, <2>3 DEF Next
<1>. QED
  BY <1>0, <1>19 DEF Kept

\* However tokens trade and whatever is queued, cancelled or released, a flower
\* in use is frozen in its recorded owner's account.
THEOREM NeverSoldInUse == Spec => []InUseNotSold
BY KeptInit, KeptStep, PTL DEF Spec, Kept

\* No reclaim and no close removes a flower whose mint exists.
THEOREM MintedStay == Spec => []MintedFlowersStay
BY KeptInit, KeptStep, PTL DEF Spec, Kept

-----------------------------------------------------------------------------
(***************************************************************************)
(* Budgets and counters.                                                   *)
(*                                                                         *)
(* Uses are counted by parents, so a flower that appears must not be named *)
(* as a parent already.  Pedigree is why: a parent is a starter, which     *)
(* never goes, or the offspring of an experiment, which first_here         *)
(* excludes.                                                               *)
(***************************************************************************)
HasSource(f) == \E y \in Experiments : experiment[y].offspring = f
BredBy(f) == {x \in Experiments : f \in experiment[x].parents}
InFlight(p) == {x \in Experiments : x[1] = p /\ unresolved(x)}
Owned(p) == {f \in Flowers : flower[f].owner = p}

\* What is known of a flower from its genome.
Pedigreed(f) ==
  /\ flower[f].status = "NONE" => flower[f] = NoFlower
  /\ flower[f].genome = "NONE" => flower[f].status = "NONE"
  /\ flower[f].genome = "STARTER" => flower[f].source_experiment = NoKey
  /\ flower[f].genome = "ENCRYPTED" => HasSource(f)

Pedigree ==
  /\ \A f \in Flowers : Pedigreed(f)
  /\ \A f \in Flowers : BredBy(f) = {} \/ flower[f].genome = "STARTER" \/ HasSource(f)

UsesExact ==
  \A f \in Flowers : flower[f].genome = "ENCRYPTED" /\ first_here(f) =>
    flower[f].bred = Cardinality(BredBy(f))

InFlightExact ==
  \A p \in Players : profile[p].active_experiment_count = Cardinality(InFlight(p))

OwnedBound == \A p \in Players : profile[p].total_flowers <= Cardinality(Owned(p))

Counted == Pedigree /\ UsesExact /\ InFlightExact /\ OwnedBound

LEMMA Finite ==
  /\ IsFiniteSet(Flowers) /\ IsFiniteSet(Experiments)
  /\ \A p \in Players : /\ Starters(p) \subseteq Flowers
                        /\ Cardinality(Starters(p)) = STARTER_COUNT
<1>1. /\ IsFiniteSet(0..MaxIndex - 1) /\ IsFiniteSet(0..MaxExperiments - 1)
      /\ IsFiniteSet(0..STARTER_COUNT - 1)
      /\ Cardinality(0..STARTER_COUNT - 1) = STARTER_COUNT
  BY FS_Interval, NumbersAssumption
<1>2. IsFiniteSet(Flowers) /\ IsFiniteSet(Experiments)
  BY <1>1, FS_Product, PlayersAssumption DEF Flowers, Experiments
<1>3. ASSUME NEW p \in Players
      PROVE  Starters(p) \subseteq Flowers /\ Cardinality(Starters(p)) = STARTER_COUNT
  <2>1. Starters(p) \subseteq Flowers
    <3>1. 0..STARTER_COUNT - 1 \subseteq 0..MaxIndex - 1
      BY NumbersAssumption
    <3>. QED
      BY <3>1 DEF Starters, Flowers
  <2>2. IsFiniteSet({p}) /\ Cardinality({p}) = 1
    BY FS_Singleton
  <2>. DEFINE numbers == 0..STARTER_COUNT - 1
  <2>3. Cardinality({p} \X numbers) = Cardinality({p}) * Cardinality(numbers)
    <3>. HIDE DEF numbers
    <3>1. IsFiniteSet(numbers)
      BY <1>1 DEF numbers
    <3>. QED
      BY <2>2, <3>1, FS_Product
  <2>4. Cardinality({p}) * Cardinality(numbers) = STARTER_COUNT
    BY <1>1, <2>2, NumbersAssumption
  <2>. QED
    BY <2>1, <2>3, <2>4 DEF Starters
<1>. QED
  BY <1>2, <1>3

\* The pedigrees survive a step that names no new parent or offspring and changes
\* of the flowers' pedigree only what it removes, or makes a starter.
SamePedigrees ==
  \A y \in Experiments :
    /\ experiment'[y].parents = experiment[y].parents
    /\ experiment'[y].offspring = experiment[y].offspring

SameOrigin(f) ==
  /\ flower'[f].genome = flower[f].genome
  /\ flower'[f].source_experiment = flower[f].source_experiment
  /\ flower'[f].bred = flower[f].bred

LEMMA PedigreeFrame ==
  ASSUME Kept, Pedigree, UsesExact, SamePedigrees,
         \A f \in Flowers :
           \/ /\ SameOrigin(f) /\ flower[f].status # "NONE" /\ flower'[f].status # "NONE"
           \/ flower'[f] = flower[f]
           \/ flower[f].genome # "STARTER" /\ flower'[f] = NoFlower
           \/ flower[f].status = "NONE" /\ \E p \in Players : flower'[f] = Starter(p)
  PROVE  Pedigree' /\ UsesExact'
<1>1. \A f \in Flowers : BredBy(f)' = BredBy(f) /\ HasSource(f)' = HasSource(f)
  BY DEF SamePedigrees, BredBy, HasSource
<1>2. ASSUME NEW f \in Flowers
      PROVE  /\ Pedigreed(f)'
             /\ BredBy(f)' = {} \/ flower'[f].genome = "STARTER" \/ HasSource(f)'
             /\ flower'[f].genome = "ENCRYPTED" /\ first_here(f)' =>
                  flower'[f].bred = Cardinality(BredBy(f)')
  <2>1. CASE SameOrigin(f) /\ flower[f].status # "NONE" /\ flower'[f].status # "NONE"
    <3>1. Pedigreed(f)'
      BY <1>1, <2>1 DEF Pedigree, Pedigreed, SameOrigin
    <3>2. first_here(f)' <=> first_here(f)
      BY <2>1 DEF first_here, SamePedigrees, SameOrigin
    <3>. QED
      BY <1>1, <2>1, <3>1, <3>2 DEF Pedigree, UsesExact, SameOrigin
  <2>2. CASE flower'[f] = flower[f]
    <3>1. first_here(f)' <=> first_here(f)
      BY <2>2 DEF first_here, SamePedigrees
    <3>. QED
      BY <1>1, <2>2, <3>1 DEF Pedigree, Pedigreed, UsesExact
  <2>3. CASE flower[f].genome # "STARTER" /\ flower'[f] = NoFlower
    BY <1>1, <2>3 DEF Pedigree, Pedigreed, NoFlower
  <2>4. CASE flower[f].status = "NONE" /\ \E p \in Players : flower'[f] = Starter(p)
    BY <1>1, <2>4 DEF Pedigree, Pedigreed, Starter, NoFlower
  <2>. QED
    BY <2>1, <2>2, <2>3, <2>4
<1>. QED
  BY <1>2 DEF Pedigree, UsesExact

\* The counts of flowers survive a step after which at most one flower is
\* another player's, one more for them and one less for whoever had it.
LEMMA OwnedFrame ==
  ASSUME Kept, TypeOK', OwnedBound, NEW f \in Flowers,
         \A g \in Flowers : g # f => flower'[g].owner = flower[g].owner,
         \A q \in Players :
           /\ q # flower'[f].owner => profile'[q].total_flowers <= profile[q].total_flowers
           /\ profile'[q].total_flowers <= profile[q].total_flowers + 1
           /\ flower'[f].owner = flower[f].owner =>
                profile'[q].total_flowers <= profile[q].total_flowers
           /\ q = flower[f].owner /\ q # flower'[f].owner =>
                profile'[q].total_flowers = Less(profile[q].total_flowers)
  PROVE  OwnedBound'
<1>. SUFFICES ASSUME NEW q \in Players
     PROVE  profile'[q].total_flowers <= Cardinality(Owned(q)')
  BY DEF OwnedBound
<1>1. /\ profile[q].total_flowers \in Nat /\ profile'[q].total_flowers \in Nat
      /\ profile[q].total_flowers <= Cardinality(Owned(q))
  BY DEF Kept, TypeOK, ProfileType, OwnedBound
<1>2. IsFiniteSet(Owned(q)) /\ Cardinality(Owned(q)) \in Nat
  <2>1. Owned(q) \in SUBSET Flowers
    BY DEF Owned
  <2>. QED
    BY <2>1, Finite, FS_Subset, FS_CardinalityType
<1>3. CASE flower'[f].owner = flower[f].owner
  <2>1. Owned(q)' = Owned(q)
    BY <1>3 DEF Owned
  <2>. QED
    BY <1>1, <1>2, <1>3, <2>1
<1>4. CASE q # flower[f].owner /\ q # flower'[f].owner
  <2>1. Owned(q)' = Owned(q)
    BY <1>4 DEF Owned
  <2>. QED
    BY <1>1, <1>2, <1>4, <2>1
<1>5. CASE q = flower'[f].owner /\ q # flower[f].owner
  <2>1. Owned(q)' = Owned(q) \cup {f} /\ f \notin Owned(q)
    BY <1>5 DEF Owned
  <2>2. Cardinality(Owned(q)') = Cardinality(Owned(q)) + 1
    BY <1>2, <2>1, FS_AddElement
  <2>. QED
    BY <1>1, <1>2, <2>2
<1>6. CASE q = flower[f].owner /\ q # flower'[f].owner
  <2>1. Owned(q)' = Owned(q) \ {f} /\ f \in Owned(q)
    BY <1>6 DEF Owned
  <2>2. Cardinality(Owned(q)') = Cardinality(Owned(q)) - 1
    BY <1>2, <2>1, FS_RemoveElement
  <2>3. Cardinality(Owned(q)) # 0
    BY <1>2, <2>1, FS_EmptySet
  <2>. QED
    BY <1>1, <1>2, <1>6, <2>2, <2>3 DEF Less
<1>. QED
  BY <1>3, <1>4, <1>5, <1>6

LEMMA InFlightFrame ==
  ASSUME InFlightExact, SameExperiments,
         \A q \in Players :
           profile'[q].active_experiment_count = profile[q].active_experiment_count
  PROVE  InFlightExact'
<1>1. \A q \in Players : InFlight(q)' = InFlight(q)
  BY DEF InFlight, unresolved, SameExperiments
<1>. QED
  BY <1>1 DEF InFlightExact

\* A step that leaves origins, owners and counts alone.
LEMMA QuietCounts ==
  ASSUME Kept, Counted, SameExperiments, profile' = profile,
         \A f \in Flowers :
           \/ flower'[f] = flower[f]
           \/ /\ SameOrigin(f) /\ flower[f].status # "NONE" /\ flower'[f].status # "NONE"
              /\ flower'[f].owner = flower[f].owner
  PROVE  Counted'
<1>1. Pedigree' /\ UsesExact'
  BY PedigreeFrame DEF Counted, SameExperiments, SamePedigrees
<1>2. InFlightExact'
  BY InFlightFrame DEF Counted
<1>3. \A q \in Players : Owned(q)' = Owned(q)
  BY DEF Owned
<1>. QED
  BY <1>1, <1>2, <1>3 DEF Counted, OwnedBound

\* One flower is removed, and its owner's count lowered.
LEMMA RemovalCounts ==
  ASSUME Kept, TypeOK', Counted, SameExperiments, NEW f \in Flowers,
         flower[f].genome # "STARTER", flower'[f] = NoFlower,
         \A g \in Flowers : g # f => flower'[g] = flower[g],
         profile' = [profile EXCEPT ![flower[f].owner].total_flowers = Less(@)]
  PROVE  Counted'
<1>1. Pedigree' /\ UsesExact'
  BY PedigreeFrame DEF Counted, SameExperiments, SamePedigrees
<1>2. ASSUME NEW q \in Players
      PROVE  /\ profile'[q].active_experiment_count = profile[q].active_experiment_count
             /\ profile'[q].total_flowers =
                  IF q = flower[f].owner THEN Less(profile[q].total_flowers)
                  ELSE profile[q].total_flowers
             /\ profile[q].total_flowers \in Nat
  BY DEF Kept, TypeOK, ProfileType
<1>3. InFlightExact'
  BY <1>2, InFlightFrame DEF Counted
<1>4. flower'[f].owner \notin Players
  BY PlayersAssumption DEF NoFlower
<1>5. OwnedBound'
  <2>1. ASSUME NEW q \in Players
        PROVE  /\ q # flower'[f].owner => profile'[q].total_flowers <= profile[q].total_flowers
               /\ profile'[q].total_flowers <= profile[q].total_flowers + 1
               /\ flower'[f].owner = flower[f].owner =>
                    profile'[q].total_flowers <= profile[q].total_flowers
               /\ q = flower[f].owner /\ q # flower'[f].owner =>
                    profile'[q].total_flowers = Less(profile[q].total_flowers)
    BY <1>2 DEF Less
  <2>2. OwnedBound /\ \A g \in Flowers : g # f => flower'[g].owner = flower[g].owner
    BY DEF Counted
  <2>. QED
    BY <2>1, <2>2, OwnedFrame
<1>. QED
  BY <1>1, <1>3, <1>5 DEF Counted

\* What a sync makes of the profiles.
LEMMA SyncedProfiles ==
  ASSUME Kept, NEW f \in Flowers, NEW q \in Players
  PROVE  /\ synced_profiles(f)[q].active_experiment_count = profile[q].active_experiment_count
         /\ synced_profiles(f)[q].total_flowers =
              IF ~changed_hands(f) THEN profile[q].total_flowers
              ELSE IF q = nft[f].holder THEN profile[q].total_flowers + 1
              ELSE IF q = flower[f].owner THEN Less(profile[q].total_flowers)
              ELSE profile[q].total_flowers
<1>. DEFINE once == bump_total_flowers(profile, flower[f].owner, FALSE)
<1>1. CASE ~changed_hands(f)
  BY <1>1 DEF synced_profiles
<1>2. CASE changed_hands(f)
  <2>1. once \in [Players -> ProfileType]
    BY BumpTypes DEF Kept, TypeOK
  <2>2. once[q] = IF q = flower[f].owner
                  THEN [profile[q] EXCEPT !.total_flowers = Less(@)] ELSE profile[q]
    BY DEF bump_total_flowers, Kept, TypeOK
  <2>3. synced_profiles(f)[q] = IF q = nft[f].holder
                                THEN [once[q] EXCEPT !.total_flowers = @ + 1] ELSE once[q]
    <3>. HIDE DEF once
    <3>1. synced_profiles(f) = bump_total_flowers(once, nft[f].holder, TRUE)
      BY <1>2 DEF synced_profiles, once
    <3>. QED
      BY <2>1, <3>1 DEF bump_total_flowers
  <2>4. profile[q] \in ProfileType /\ nft[f].holder # flower[f].owner
    BY <1>2 DEF Kept, TypeOK, changed_hands
  <2>. HIDE DEF once
  <2>. QED
    BY <1>2, <2>2, <2>3, <2>4 DEF ProfileType
<1>. QED
  BY <1>1, <1>2

\* A step that reads f's owner afresh, and may write one profile back as it was.
LEMMA SyncCounts ==
  ASSUME Kept, TypeOK', Counted, SameExperiments, NEW f \in Flowers,
         \A g \in Flowers : g # f => flower'[g] = flower[g],
         SameOrigin(f), flower[f].status # "NONE", flower'[f].status # "NONE",
         flower'[f].owner = synced_flower(f).owner,
         \/ profile' = synced_profiles(f)
         \/ \E p \in Players : /\ profile' = [synced_profiles(f) EXCEPT ![p] = profile[p]]
                               /\ p = synced_flower(f).owner
  PROVE  Counted'
<1>1. Pedigree' /\ UsesExact'
  BY PedigreeFrame DEF Counted, SameExperiments, SamePedigrees
<1>2. ASSUME NEW q \in Players
      PROVE  \/ profile'[q] = synced_profiles(f)[q]
             \/ profile'[q] = profile[q] /\ q = flower'[f].owner
  BY SyncTypes DEF Kept
<1>3. InFlightExact'
  <2>1. \A q \in Players :
          profile'[q].active_experiment_count = profile[q].active_experiment_count
    BY <1>2, SyncedProfiles
  <2>. QED
    BY <2>1, InFlightFrame DEF Counted
<1>4. flower[f] \in FlowerType
  BY DEF Kept, TypeOK
<1>5. /\ changed_hands(f) => /\ flower'[f].owner = nft[f].holder
                             /\ flower'[f].owner # flower[f].owner
      /\ ~changed_hands(f) => flower'[f].owner = flower[f].owner
  BY <1>4 DEF changed_hands, synced_flower, FlowerType
<1>6. ASSUME NEW q \in Players
      PROVE  /\ q # flower'[f].owner => profile'[q].total_flowers <= profile[q].total_flowers
             /\ profile'[q].total_flowers <= profile[q].total_flowers + 1
             /\ flower'[f].owner = flower[f].owner =>
                  profile'[q].total_flowers <= profile[q].total_flowers
             /\ q = flower[f].owner /\ q # flower'[f].owner =>
                  profile'[q].total_flowers = Less(profile[q].total_flowers)
  <2>1. /\ profile[q].total_flowers \in Nat /\ Less(profile[q].total_flowers) \in Nat
        /\ Less(profile[q].total_flowers) <= profile[q].total_flowers
    BY DEF Kept, TypeOK, ProfileType, Less
  <2>2. CASE profile'[q] = synced_profiles(f)[q]
    <3>1. profile'[q].total_flowers =
              IF ~changed_hands(f) THEN profile[q].total_flowers
              ELSE IF q = nft[f].holder THEN profile[q].total_flowers + 1
              ELSE IF q = flower[f].owner THEN Less(profile[q].total_flowers)
              ELSE profile[q].total_flowers
      BY <2>2, SyncedProfiles
    <3>2. CASE changed_hands(f)
      <4>1. flower'[f].owner = nft[f].holder /\ flower'[f].owner # flower[f].owner
        BY <1>5, <3>2
      <4>2. profile'[q].total_flowers =
              IF q = nft[f].holder THEN profile[q].total_flowers + 1
              ELSE IF q = flower[f].owner THEN Less(profile[q].total_flowers)
              ELSE profile[q].total_flowers
        BY <3>1, <3>2
      <4>. QED
        BY <2>1, <4>1, <4>2
    <3>3. CASE ~changed_hands(f)
      BY <1>5, <2>1, <3>1, <3>3
    <3>. QED
      BY <3>2, <3>3
  <2>3. CASE profile'[q] = profile[q] /\ q = flower'[f].owner
    BY <2>1, <2>3
  <2>. QED
    BY <1>2, <2>2, <2>3
<1>7. OwnedBound'
  BY <1>6, OwnedFrame DEF Counted
<1>. QED
  BY <1>1, <1>3, <1>7 DEF Counted

LEMMA ClaimCounts ==
  ASSUME Kept, TypeOK', Counted, NEW p \in Players, claim_starters(p)
  PROVE  Counted'
<1>1. /\ SameExperiments /\ Starters(p) \subseteq Flowers
      /\ \A f \in Starters(p) : flower[f].status = "NONE" /\ flower'[f] = Starter(p)
      /\ \A f \in Flowers : f \notin Starters(p) => flower'[f] = flower[f]
  BY Finite DEF claim_starters, SameExperiments
<1>2. Pedigree' /\ UsesExact'
  BY <1>1, PedigreeFrame DEF Counted, SameExperiments, SamePedigrees
<1>3. ASSUME NEW q \in Players
      PROVE  /\ profile'[q].active_experiment_count = profile[q].active_experiment_count
             /\ q = p => profile'[q].total_flowers = STARTER_COUNT
             /\ q # p => profile'[q] = profile[q]
  BY DEF claim_starters, Kept, TypeOK, ProfileType
<1>4. InFlightExact'
  BY <1>1, <1>3, InFlightFrame DEF Counted
<1>5. ASSUME NEW q \in Players, q # p
      PROVE  Owned(q)' = Owned(q)
  <2>1. ASSUME NEW f \in Starters(p) PROVE flower[f].owner # q /\ flower'[f].owner # q
    <3>1. flower[f] = NoFlower /\ flower'[f] = Starter(p)
      BY <1>1, <2>1 DEF Counted, Pedigree, Pedigreed
    <3>2. NoFlower.owner = Nobody /\ Starter(p).owner = p
      BY DEF Starter, NoFlower
    <3>. QED
      BY <1>5, <3>1, <3>2, PlayersAssumption
  <2>. QED
    BY <1>1, <2>1 DEF Owned
<1>6. STARTER_COUNT <= Cardinality(Owned(p)')
  <2>1. Starters(p) \in SUBSET (Owned(p)')
    <3>1. ASSUME NEW f \in Starters(p) PROVE f \in Owned(p)'
      <4>1. f \in Flowers /\ flower'[f] = Starter(p)
        BY <1>1
      <4>2. Starter(p).owner = p
        BY DEF Starter, NoFlower
      <4>. QED
        BY <4>1, <4>2 DEF Owned
    <3>. QED
      BY <3>1
  <2>2. IsFiniteSet(Owned(p)')
    <3>1. Owned(p)' \in SUBSET Flowers
      BY DEF Owned
    <3>. QED
      BY <3>1, Finite, FS_Subset
  <2>3. Cardinality(Starters(p)) <= Cardinality(Owned(p)')
    BY <2>1, <2>2, FS_Subset
  <2>. QED
    BY <2>3, Finite
<1>7. OwnedBound'
  BY <1>3, <1>5, <1>6 DEF Counted, OwnedBound
<1>. QED
  BY <1>2, <1>4, <1>7 DEF Counted

\* A resolution.
LEMMA ResolveCounts ==
  ASSUME Kept, TypeOK', Counted, NEW x \in Experiments, unresolved(x),
         NEW s \in {"COMPLETED", "FAILED", "EXPIRED"}, NEW activated,
         activated \subseteq Uses(x), Resolve(x, s, activated)
  PROVE  Counted'
<1>1. \A y \in Experiments :
        /\ experiment'[y].status = IF y = x THEN s ELSE experiment[y].status
        /\ experiment'[y].parents = experiment[y].parents
        /\ experiment'[y].offspring = experiment[y].offspring
  BY DEF Resolve, Kept, TypeOK, ExperimentType
<1>2. \A f \in Flowers :
        \/ flower'[f] = flower[f]
        \/ /\ SameOrigin(f) /\ flower[f].status # "NONE" /\ flower'[f].status # "NONE"
           /\ flower'[f].owner = flower[f].owner
  BY DEF Resolve, SameOrigin, Kept, TypeOK, FlowerType, Breeding, UsesLocked
<1>3. Pedigree' /\ UsesExact'
  BY <1>1, <1>2, PedigreeFrame DEF Counted, SamePedigrees
<1>4. x[1] \in Players
  BY DEF Experiments
<1>5. ASSUME NEW q \in Players
      PROVE  /\ profile'[q].active_experiment_count =
                  IF q = x[1] THEN Less(profile[q].active_experiment_count)
                  ELSE profile[q].active_experiment_count
             /\ profile'[q].total_flowers = profile[q].total_flowers
  BY DEF Resolve, Kept, TypeOK, ProfileType
<1>6. ASSUME NEW q \in Players
      PROVE  profile'[q].active_experiment_count = Cardinality(InFlight(q)')
  <2>1. InFlight(q)' = IF q = x[1] THEN InFlight(q) \ {x} ELSE InFlight(q)
    BY <1>1 DEF InFlight, unresolved
  <2>2. profile[q].active_experiment_count = Cardinality(InFlight(q))
    BY DEF Counted, InFlightExact
  <2>3. CASE q # x[1]
    BY <1>5, <2>1, <2>2, <2>3
  <2>4. CASE q = x[1]
    <3>1. IsFiniteSet(InFlight(q)) /\ Cardinality(InFlight(q)) \in Nat
      <4>1. InFlight(q) \in SUBSET Experiments
        BY DEF InFlight
      <4>. QED
        BY <4>1, Finite, FS_Subset, FS_CardinalityType
    <3>2. x \in InFlight(q)
      BY <2>4 DEF InFlight
    <3>3. /\ Cardinality(InFlight(q) \ {x}) = Cardinality(InFlight(q)) - 1
          /\ Cardinality(InFlight(q)) # 0
      BY <3>1, <3>2, FS_RemoveElement, FS_EmptySet
    <3>. QED
      BY <1>5, <2>1, <2>2, <2>4, <3>1, <3>3 DEF Less
  <2>. QED
    BY <2>3, <2>4
<1>7. \A q \in Players : Owned(q)' = Owned(q)
  BY <1>2 DEF Owned
<1>. QED
  BY <1>3, <1>5, <1>6, <1>7 DEF Counted, InFlightExact, OwnedBound

LEMMA BreedCounts ==
  ASSUME Kept, TypeOK', Counted, NEW p \in Players, NEW S \in Pairs, start_breeding(p, S)
  PROVE  Counted'
<1>0. PICK child \in Flowers, x \in Experiments :
        child = <<p, profile[p].next_flower_index>> /\ x = <<p, profile[p].total_experiments>>
  BY DEF start_breeding
<1>1. /\ S \subseteq Flowers /\ x[1] = p
      /\ experiment[x].status = "NONE" /\ flower[child].status = "NONE"
      /\ \A f \in S : flower[f].status = "ACTIVE"
  BY <1>0 DEF start_breeding, Pairs, may_be_parent
<1>2. child \notin S /\ flower[child] = NoFlower
  BY <1>1 DEF Counted, Pedigree, Pedigreed
<1>3. /\ experiment[x].parents = {} /\ experiment[x].offspring \notin Flowers
      /\ ~unresolved(x)
  <2>1. experiment[x] = NoExperiment
    BY <1>1 DEF Kept, TypeOK, ExperimentType
  <2>. QED
    BY <2>1, PlayersAssumption DEF NoExperiment, NoKey, Flowers, unresolved
<1>4. \A y \in Experiments :
        /\ y # x => experiment'[y] = experiment[y]
        /\ y = x => /\ experiment'[y].status = "QUEUED"
                    /\ experiment'[y].parents = S /\ experiment'[y].offspring = child
  BY <1>0, <1>1 DEF start_breeding, Kept, TypeOK
<1>5. flower'[child] = Offspring(p, x)
  BY <1>0, <1>1, <1>2 DEF start_breeding
<1>6. ASSUME NEW f \in S
      PROVE  /\ flower'[f].status = "LOCKED" /\ flower'[f].owner = flower[f].owner
             /\ flower'[f].genome = flower[f].genome
             /\ flower'[f].source_experiment = flower[f].source_experiment
             /\ flower'[f].bred = flower[f].bred + 1
  <2>1. /\ flower[f] \in FlowerType
        /\ flower'[f] = [flower[f] EXCEPT !.status = "LOCKED", !.bred = @ + 1]
    BY <1>1, <1>6 DEF start_breeding, Kept, TypeOK
  <2>. QED
    BY <2>1 DEF FlowerType
<1>7. \A f \in Flowers : f \notin S /\ f # child => flower'[f] = flower[f]
  BY <1>0 DEF start_breeding
<1>8. \A f \in Flowers :
        /\ BredBy(f)' = IF f \in S THEN BredBy(f) \cup {x} ELSE BredBy(f)
        /\ x \notin BredBy(f)
        /\ IsFiniteSet(BredBy(f))
        /\ HasSource(f) => HasSource(f)'
  <2>1. ASSUME NEW f \in Flowers
        PROVE  /\ BredBy(f)' = IF f \in S THEN BredBy(f) \cup {x} ELSE BredBy(f)
               /\ x \notin BredBy(f)
    BY <1>3, <1>4 DEF BredBy
  <2>2. ASSUME NEW f \in Flowers PROVE HasSource(f) => HasSource(f)'
    BY <1>3, <1>4 DEF HasSource
  <2>3. ASSUME NEW f \in Flowers PROVE IsFiniteSet(BredBy(f))
    <3>1. BredBy(f) \in SUBSET Experiments
      BY DEF BredBy
    <3>. QED
      BY <3>1, Finite, FS_Subset
  <2>. QED
    BY <2>1, <2>2, <2>3
<1>9. HasSource(child)'
  BY <1>4 DEF HasSource
<1>10. ASSUME NEW f \in Flowers
       PROVE  /\ Pedigreed(f)'
              /\ BredBy(f)' = {} \/ flower'[f].genome = "STARTER" \/ HasSource(f)'
              /\ flower'[f].genome = "ENCRYPTED" /\ first_here(f)' =>
                   flower'[f].bred = Cardinality(BredBy(f)')
  <2>1. f # child => (first_here(f)' => first_here(f))
    BY <1>3, <1>4, <1>6, <1>7 DEF first_here
  <2>2. CASE f \in S
    <3>1. flower[f].genome \in {"STARTER", "ENCRYPTED"}
      BY <1>1, <2>2 DEF Counted, Pedigree, Pedigreed, Kept, TypeOK, FlowerType
    <3>2. Pedigreed(f)' /\ (flower'[f].genome = "STARTER" \/ HasSource(f)')
      BY <1>6, <1>8, <2>2, <3>1 DEF Counted, Pedigree, Pedigreed
    <3>3. Cardinality(BredBy(f)') = Cardinality(BredBy(f)) + 1
      BY <1>8, <2>2, FS_AddElement
    <3>. QED
      BY <1>2, <1>6, <2>1, <2>2, <3>2, <3>3 DEF Counted, UsesExact
  <2>3. CASE f = child
    <3>1. Pedigreed(f)' /\ HasSource(f)' /\ flower'[f].bred = 0 /\ flower'[f].source_experiment = x
      BY <1>5, <1>9, <2>3 DEF Pedigreed, Offspring, NoFlower
    <3>2. ASSUME first_here(f)' PROVE ~HasSource(f)
      <4>1. ASSUME NEW y \in Experiments, experiment[y].offspring = f PROVE FALSE
        <5>1. y # x
          BY <1>3, <4>1
        <5>2. experiment'[y].offspring = f
          BY <1>4, <4>1, <5>1
        <5>. QED
          BY <3>1, <3>2, <5>1, <5>2 DEF first_here
      <4>. QED
        BY <4>1 DEF HasSource
    <3>3. ASSUME first_here(f)' PROVE BredBy(f)' = {}
      BY <1>2, <1>8, <2>3, <3>2, <3>3 DEF Counted, Pedigree, NoFlower
    <3>. QED
      BY <3>1, <3>3, FS_EmptySet
  <2>4. CASE f \notin S /\ f # child
    BY <1>7, <1>8, <2>1, <2>4 DEF Counted, Pedigree, Pedigreed, UsesExact
  <2>. QED
    BY <2>2, <2>3, <2>4
<1>11. Pedigree' /\ UsesExact'
  BY <1>10 DEF Pedigree, UsesExact
<1>12. ASSUME NEW q \in Players
       PROVE  /\ q # p => profile'[q] = profile[q]
              /\ q = p => /\ profile'[q].active_experiment_count = profile[q].active_experiment_count + 1
                          /\ profile'[q].total_flowers = profile[q].total_flowers + 1
  <2>. DEFINE a == profile[p]
  <2>1. a \in ProfileType /\ profile' = [profile EXCEPT ![p] = bred_once_more(a)]
    BY DEF start_breeding, Kept, TypeOK
  <2>2. /\ bred_once_more(a).active_experiment_count = a.active_experiment_count + 1
        /\ bred_once_more(a).total_flowers = a.total_flowers + 1
    BY <2>1 DEF bred_once_more, ProfileType
  <2>3. profile \in [Players -> ProfileType]
    BY DEF Kept, TypeOK
  <2>. QED
    BY <2>1, <2>2, <2>3
<1>13. ASSUME NEW q \in Players
       PROVE  profile'[q].active_experiment_count = Cardinality(InFlight(q)')
  <2>1. /\ InFlight(q)' = IF q = p THEN InFlight(q) \cup {x} ELSE InFlight(q)
        /\ x \notin InFlight(q)
    BY <1>1, <1>3, <1>4 DEF InFlight, unresolved
  <2>2. IsFiniteSet(InFlight(q))
    <3>1. InFlight(q) \in SUBSET Experiments
      BY DEF InFlight
    <3>. QED
      BY <3>1, Finite, FS_Subset
  <2>3. profile[q].active_experiment_count = Cardinality(InFlight(q))
    BY DEF Counted, InFlightExact
  <2>4. Cardinality(InFlight(q) \cup {x}) = Cardinality(InFlight(q)) + 1
    BY <2>1, <2>2, FS_AddElement
  <2>5. CASE q = p
    BY <1>12, <2>1, <2>3, <2>4, <2>5
  <2>6. CASE q # p
    BY <1>12, <2>1, <2>3, <2>6
  <2>. QED
    BY <2>5, <2>6
<1>14. OwnedBound'
  <2>1. flower[child].owner = Nobody /\ flower'[child].owner = p /\ p # Nobody
    BY <1>2, <1>5, PlayersAssumption DEF NoFlower, Offspring
  <2>2. \A g \in Flowers : g # child => flower'[g].owner = flower[g].owner
    BY <1>6, <1>7
  <2>3. ASSUME NEW q \in Players
        PROVE  /\ q # flower'[child].owner => profile'[q].total_flowers <= profile[q].total_flowers
               /\ profile'[q].total_flowers <= profile[q].total_flowers + 1
               /\ flower'[child].owner = flower[child].owner =>
                    profile'[q].total_flowers <= profile[q].total_flowers
               /\ q = flower[child].owner /\ q # flower'[child].owner =>
                    profile'[q].total_flowers = Less(profile[q].total_flowers)
    <3>1. profile[q].total_flowers \in Nat
      BY DEF Kept, TypeOK, ProfileType
    <3>2. q # flower[child].owner
      BY <2>1, PlayersAssumption
    <3>. QED
      BY <1>12, <2>1, <3>1, <3>2
  <2>. QED
    BY <2>2, <2>3, OwnedFrame DEF Counted
<1>. QED
  BY <1>11, <1>13, <1>14 DEF Counted, InFlightExact

LEMMA CountedInit == Init => Counted
<1>. SUFFICES ASSUME Init PROVE Counted
  OBVIOUS
<1>1. \A f \in Flowers : flower[f] = NoFlower
  BY DEF Init
<1>2. \A x \in Experiments : experiment[x].parents = {} /\ ~unresolved(x)
  BY DEF Init, NoExperiment, unresolved
<1>3. Pedigree /\ UsesExact
  <2>1. /\ NoFlower.genome = "NONE" /\ NoFlower.status = "NONE"
        /\ \A f \in Flowers : BredBy(f) = {}
    BY <1>2 DEF NoFlower, BredBy
  <2>. QED
    BY <1>1, <2>1 DEF Pedigree, Pedigreed, UsesExact
<1>4. ASSUME NEW p \in Players
      PROVE  /\ profile[p].active_experiment_count = Cardinality(InFlight(p))
             /\ profile[p].total_flowers <= Cardinality(Owned(p))
  <2>1. profile[p].active_experiment_count = 0 /\ profile[p].total_flowers = 0
    BY DEF Init, NoProfile
  <2>2. InFlight(p) = {} /\ Owned(p) = {}
    BY <1>1, <1>2, PlayersAssumption DEF InFlight, Owned, NoFlower
  <2>. QED
    BY <2>1, <2>2, FS_EmptySet
<1>. QED
  BY <1>3, <1>4 DEF Counted, InFlightExact, OwnedBound

LEMMA CountedStep == Kept /\ Counted /\ [Next]_vars => Counted'
<1>. SUFFICES ASSUME Kept, Counted, [Next]_vars PROVE Counted'
  OBVIOUS
<1>0. /\ TypeOK /\ TypeOK' /\ (experiment' = experiment => SameExperiments)
      /\ \A f \in Flowers : flower[f] \in FlowerType /\ flower'[f] \in FlowerType
  BY TypeStep DEF Kept, SameExperiments, TypeOK
<1>1. ASSUME UNCHANGED <<profile, flower, experiment>> PROVE Counted'
  BY <1>0, <1>1, QuietCounts
<1>2. ASSUME NEW p \in Players, claim_starters(p) PROVE Counted'
  BY <1>0, <1>2, ClaimCounts
<1>3. ASSUME NEW p \in Players, NEW S \in Pairs, start_breeding(p, S) PROVE Counted'
  BY <1>0, <1>3, BreedCounts
<1>4. ASSUME NEW x \in Experiments, breed_v5_callback(x) PROVE Counted'
  <2>1. CASE unresolved(x) /\ breed_success(x)
    BY <1>0, <2>1, ResolveCounts DEF breed_success, Uses
  <2>2. CASE unresolved(x) /\ breed_failure(x)
    BY <1>0, <2>2, ResolveCounts DEF breed_failure, Uses
  <2>3. CASE UNCHANGED <<experiment, flower, profile>>
    BY <1>1, <2>3
  <2>. QED
    BY <1>4, <2>1, <2>2, <2>3 DEF breed_v5_callback
<1>5. ASSUME NEW x \in Experiments, cancel_expired_experiment(x) PROVE Counted'
  BY <1>0, <1>5, ResolveCounts DEF cancel_expired_experiment, cancellable, unresolved, Uses
<1>6. ASSUME NEW x \in Experiments, Tick(x) PROVE Counted'
  <2>1. SameExperiments
    BY <1>0, <1>6 DEF Tick, unresolved, SameExperiments, TypeOK, ExperimentType, NoExperiment
  <2>. QED
    BY <1>6, <2>1, QuietCounts DEF Tick
<1>7. ASSUME NEW x \in Experiments, reclaim_dead_offspring(x) PROVE Counted'
  <2>. DEFINE f == experiment[x].offspring
  <2>1. f \in Flowers /\ flower[f].source_experiment = x
    BY <1>0, <1>7, ReclaimedType DEF reclaim_dead_offspring, reclaimable
  <2>2. flower[f].genome # "STARTER"
    BY <2>1, NoKeyNoExperiment DEF Counted, Pedigree, Pedigreed
  <2>3. /\ flower'[f] = NoFlower /\ experiment' = experiment
        /\ \A g \in Flowers : g # f => flower'[g] = flower[g]
        /\ profile' = [profile EXCEPT ![flower[f].owner].total_flowers = Less(@)]
    BY <1>0, <1>7, <2>1 DEF reclaim_dead_offspring, TypeOK
  <2>. HIDE DEF f
  <2>. QED
    BY <1>0, <2>1, <2>2, <2>3, RemovalCounts
<1>8. ASSUME NEW p \in Players, NEW f \in Flowers, close_flower(p, f) PROVE Counted'
  <2>1. /\ flower'[f] = NoFlower /\ experiment' = experiment
        /\ \A g \in Flowers : g # f => flower'[g] = flower[g]
        /\ flower[f].genome # "STARTER"
        /\ profile' = [profile EXCEPT ![flower[f].owner].total_flowers = Less(@)]
    BY <1>0, <1>8 DEF close_flower, TypeOK
  <2>. QED
    BY <1>0, <2>1, RemovalCounts
<1>9. ASSUME NEW p, NEW f,
             mint_flower_nft(p, f) \/ burn_flower_nft(p, f) \/ Transfer(f, p) \/ RawBurn(f)
      PROVE  Counted'
  BY <1>1, <1>9 DEF mint_flower_nft, burn_flower_nft, Transfer, RawBurn
<1>10. ASSUME NEW f \in Flowers, NEW s \in {"ACTIVE", "SUBMITTED"},
              flower[f].status # "NONE",
              flower'[f] = [synced_flower(f) EXCEPT !.status = s],
              \A g \in Flowers : g # f => flower'[g] = flower[g],
              experiment' = experiment,
              \/ profile' = synced_profiles(f)
              \/ \E p \in Players : /\ profile' = [synced_profiles(f) EXCEPT ![p] = profile[p]]
                                    /\ p = synced_flower(f).owner
       PROVE  Counted'
  <2>1. /\ SameOrigin(f) /\ flower'[f].status # "NONE"
        /\ flower'[f].owner = synced_flower(f).owner
    <3>1. synced_flower(f) \in FlowerType
      BY <1>0, SyncTypes
    <3>2. /\ synced_flower(f).genome = flower[f].genome
          /\ synced_flower(f).source_experiment = flower[f].source_experiment
          /\ synced_flower(f).bred = flower[f].bred
      BY <1>0 DEF synced_flower, FlowerType
    <3>. QED
      BY <1>10, <3>1, <3>2 DEF SameOrigin, FlowerType
  <2>. QED
    BY <1>0, <1>10, <2>1, SyncCounts
<1>11. ASSUME NEW p \in Players, NEW f \in Flowers, submit_entry(p, f) PROVE Counted'
  <2>1. /\ flower'[f] = [synced_flower(f) EXCEPT !.status = "SUBMITTED"]
        /\ \A g \in Flowers : g # f => flower'[g] = flower[g]
    BY <1>0, <1>11 DEF submit_entry, TypeOK
  <2>2. /\ flower[f].status # "NONE" /\ experiment' = experiment
        /\ profile' = [synced_profiles(f) EXCEPT ![p] = profile[p]]
        /\ p = synced_flower(f).owner
    BY <1>11 DEF submit_entry
  <2>. QED
    BY <1>10, <2>1, <2>2
<1>12. ASSUME NEW r \in Rounds, NEW p \in Players, release_flower(r, p) PROVE Counted'
  <2>1. PICK f \in Flowers : f = entry[r][p].flower
    BY <1>0, <1>12 DEF release_flower, releasable, TypeOK, EntryType, NoEntry
  <2>2. /\ flower'[f] = [synced_flower(f) EXCEPT !.status = "ACTIVE"]
        /\ \A g \in Flowers : g # f => flower'[g] = flower[g]
        /\ flower[f].status # "NONE" /\ experiment' = experiment
        /\ profile' = synced_profiles(f)
    BY <1>0, <1>12, <2>1 DEF release_flower, TypeOK
  <2>. QED
    BY <1>10, <2>2
<1>13. ASSUME NEW p, NEW f \in Flowers, thaw_flower_nft(f) \/ queue_private_hint(p, f)
       PROVE  Counted'
  <2>1. /\ flower'[f] = synced_flower(f) /\ experiment' = experiment
        /\ \A g \in Flowers : g # f => flower'[g] = flower[g]
        /\ flower[f].status # "NONE" /\ profile' = synced_profiles(f)
    BY <1>0, <1>13 DEF thaw_flower_nft, thawable, queue_private_hint, TypeOK
  <2>2. SameOrigin(f) /\ flower'[f].status # "NONE"
    BY <1>0, <2>1 DEF SameOrigin, synced_flower, FlowerType
  <2>. QED
    BY <1>0, <2>1, <2>2, SyncCounts
<1>14. ASSUME NEW f \in Flowers, CooldownOver(f) PROVE Counted'
  <2>1. flower'[f] = [flower[f] EXCEPT !.cooling = FALSE] /\ flower[f].cooling
    BY <1>0, <1>14 DEF CooldownOver, TypeOK
  <2>2. flower[f].status # "NONE"
    BY <2>1 DEF Counted, Pedigree, Pedigreed, NoFlower
  <2>3. /\ SameOrigin(f) /\ flower'[f].status # "NONE"
        /\ flower'[f].owner = flower[f].owner
    BY <1>0, <2>1, <2>2 DEF SameOrigin, FlowerType
  <2>4. /\ SameExperiments /\ profile' = profile
        /\ \A g \in Flowers : g # f => flower'[g] = flower[g]
    BY <1>0, <1>14 DEF CooldownOver, TypeOK
  <2>. QED
    BY <2>2, <2>3, <2>4, QuietCounts
<1>15. ASSUME NEW b \in BOOLEAN, SetPaused(b) PROVE Counted'
  BY <1>1, <1>15 DEF SetPaused
<1>16. ASSUME open_round \/ close_round \/ finalize_round PROVE Counted'
  BY <1>1, <1>16 DEF open_round, close_round, finalize_round, advance_round
<1>17. ASSUME NEW p \in Players, create_profile(p) PROVE Counted'
  <2>1. ASSUME NEW q \in Players
        PROVE  /\ profile'[q].total_flowers = profile[q].total_flowers
               /\ profile'[q].active_experiment_count = profile[q].active_experiment_count
    BY <1>0, <1>17 DEF create_profile, TypeOK, ProfileType
  <2>2. /\ SameExperiments /\ \A f \in Flowers : flower'[f] = flower[f]
        /\ \A q \in Players : Owned(q)' = Owned(q)
    BY <1>0, <1>17 DEF create_profile, Owned
  <2>3. Pedigree' /\ UsesExact'
    BY <2>2, PedigreeFrame DEF Counted, SameExperiments, SamePedigrees
  <2>4. InFlightExact' /\ OwnedBound'
    BY <2>1, <2>2, InFlightFrame DEF Counted, OwnedBound
  <2>. QED
    BY <2>3, <2>4 DEF Counted
<1>18. ASSUME UNCHANGED vars PROVE Counted'
  BY <1>1, <1>18 DEF vars
<1>19. CASE \E p \in Players :
              \/ create_profile(p)
              \/ claim_starters(p)
              \/ \E S \in Pairs : start_breeding(p, S)
              \/ \E f \in Flowers :
                   \/ close_flower(p, f) \/ mint_flower_nft(p, f) \/ burn_flower_nft(p, f)
                   \/ submit_entry(p, f) \/ queue_private_hint(p, f)
                   \/ Transfer(f, p)
              \/ \E r \in Rounds : release_flower(r, p)
  BY <1>19, <1>2, <1>3, <1>8, <1>9, <1>11, <1>12, <1>13, <1>17
<1>20. CASE \/ \E f \in Flowers : thaw_flower_nft(f) \/ RawBurn(f) \/ CooldownOver(f)
            \/ \E x \in Experiments :
                 \/ breed_v5_callback(x) \/ cancel_expired_experiment(x)
                 \/ reclaim_dead_offspring(x) \/ Tick(x)
  BY <1>20, <1>4, <1>5, <1>6, <1>7, <1>9, <1>13, <1>14
<1>. QED
  BY <1>15, <1>16, <1>18, <1>19, <1>20 DEF Next

LEMMA CountedInv == Spec => []Counted
BY KeptInit, KeptStep, CountedInit, CountedStep, PTL DEF Spec

\* Parents' uses and experiments in flight are counted exactly, however callbacks
\* and cancels race.
THEOREM BudgetsExact == Spec => []BreedingBudgetsExact
<1>1. Counted => BreedingBudgetsExact
  BY DEF Counted, UsesExact, InFlightExact, BreedingBudgetsExact, BredBy, InFlight
<1>. QED
  BY <1>1, CountedInv, PTL

\* No order of sales, syncs, claims, breedings and removals makes the program
\* count a flower for a player who is not its recorded owner.
THEOREM NeverOvercounted == Spec => []NeverOvercounts
<1>1. Counted => NeverOvercounts
  BY DEF Counted, OwnedBound, NeverOvercounts, Owned
<1>. QED
  BY <1>1, CountedInv, PTL

-----------------------------------------------------------------------------
(***************************************************************************)
(* Every flower of the garden implements FlowerPromise (GardenKeepsPromise)*)
(* and its status says who is using it (StatusSafe).                       *)
(*                                                                         *)
(* Both come from one lemma: under the invariant Kept and Accounted, a     *)
(* step makes each flower appear, vanish, be put to use, be freed or       *)
(* traded, or leaves it alone (Moves).                                     *)
(***************************************************************************)
Holder(f) == IF nft[f].state = "HELD" THEN nft[f].holder ELSE flower[f].owner

\* The entries and the experiments that are using f.
EntriesOf(f) == {e \in Rounds \X Players :
  entry[e[1]][e[2]] = [status |-> "SUBMITTED", flower |-> f]}
BreedingsOf(f) == {x \in Experiments : needs(x, f) \/ delivers(x, f)}

Unused(f) == EntriesOf(f) = {} /\ BreedingsOf(f) = {}

\* What the status of f says of whose it is and who is using it.
Accounted(f) ==
  /\ flower[f].status = "NONE" => Unused(f) /\ Holder(f) = Nobody /\ nft[f].state = "NEVER"
  /\ flower[f].status = "ACTIVE" => Unused(f)
  /\ flower[f].status = "LOCKED" =>
       EntriesOf(f) = {} /\ \E x \in Experiments : BreedingsOf(f) = {x}
  /\ flower[f].status = "SUBMITTED" =>
       BreedingsOf(f) = {} /\ \E e \in Rounds \X Players : EntriesOf(f) = {e}

AllAccounted == \A f \in Flowers : Accounted(f)

-----------------------------------------------------------------------------
(***************************************************************************)
(* What a step can do to one flower.                                       *)
(***************************************************************************)
LeftAlone(f) ==
  /\ flower'[f].status = flower[f].status
  /\ Holder(f)' = Holder(f)
  /\ nft[f].state = "NEVER" /\ flower[f].status = "NONE" => nft'[f].state = "NEVER"
  /\ EntriesOf(f)' = EntriesOf(f) /\ BreedingsOf(f)' = BreedingsOf(f)

Appears(f) ==
  /\ Holder(f) = Nobody
  /\ EntriesOf(f)' = {}
  /\ \/ flower'[f].status = "ACTIVE" /\ BreedingsOf(f)' = {}
     \/ /\ flower'[f].status = "LOCKED"
        /\ \E x \in Experiments : BreedingsOf(f)' = {x} /\ Holder(f)' = x[1]

Vanishes(f) ==
  /\ flower'[f].status = "NONE" /\ Unused(f)'
  /\ Holder(f)' = Nobody /\ nft'[f].state = "NEVER"

PutToUse(f) ==
  /\ flower[f].status = "ACTIVE"
  /\ Holder(f)' = Holder(f)
  /\ \/ /\ flower'[f].status = "LOCKED" /\ EntriesOf(f)' = {}
        /\ \E x \in Experiments : BreedingsOf(f)' = {x} /\ Holder(f) = x[1]
     \/ /\ flower'[f].status = "SUBMITTED" /\ BreedingsOf(f)' = {}
        /\ \E e \in Rounds \X Players : EntriesOf(f)' = {e} /\ Holder(f) = e[2]

Freed(f) ==
  /\ flower'[f].status = "ACTIVE" /\ Unused(f)'
  /\ Holder(f)' = Holder(f)

Traded(f) ==
  /\ flower[f].status = "ACTIVE" /\ flower'[f].status = "ACTIVE"
  /\ Unused(f)'

Moves(f) ==
  LeftAlone(f) \/ Appears(f) \/ Vanishes(f) \/ PutToUse(f) \/ Freed(f) \/ Traded(f)

\* Every kind of move keeps the account of the flower.
LEMMA MovesKeep ==
  ASSUME NEW f \in Flowers, Accounted(f), Moves(f)
  PROVE  Accounted(f)'
<1>1. CASE LeftAlone(f)
  BY <1>1 DEF LeftAlone, Accounted, Unused
<1>2. CASE Appears(f)
  BY <1>2 DEF Appears, Accounted, Unused
<1>3. CASE Vanishes(f)
  BY <1>3 DEF Vanishes, Accounted
<1>4. CASE PutToUse(f)
  BY <1>4 DEF PutToUse, Accounted
<1>5. CASE Freed(f) \/ Traded(f)
  BY <1>5 DEF Freed, Traded, Accounted
<1>. QED
  BY <1>1, <1>2, <1>3, <1>4, <1>5 DEF Moves

-----------------------------------------------------------------------------
\* The uses of a flower are a matter of its source and of three tables.
LEMMA SameBreedings ==
  ASSUME NEW f \in Flowers, SameExperiments,
         flower'[f].source_experiment = flower[f].source_experiment
  PROVE  BreedingsOf(f)' = BreedingsOf(f)
BY DEF BreedingsOf, needs, delivers, unresolved, SameExperiments

LEMMA SameEntries ==
  ASSUME NEW f \in Flowers, entry' = entry
  PROVE  EntriesOf(f)' = EntriesOf(f)
BY DEF EntriesOf

LEMMA SameHolder ==
  ASSUME NEW f \in Flowers, nft'[f].state = nft[f].state, nft'[f].holder = nft[f].holder,
         nft[f].state = "HELD" \/ flower'[f].owner = flower[f].owner
  PROVE  Holder(f)' = Holder(f)
BY DEF Holder

LEMMA Untouched ==
  ASSUME NEW f \in Flowers, SameExperiments, entry' = entry,
         flower'[f] = flower[f], nft'[f] = nft[f]
  PROVE  LeftAlone(f)
BY SameBreedings, SameEntries, SameHolder DEF LeftAlone

\* A step that changes one flower or its token and no table leaves the others.
LEMMA OneMoves ==
  ASSUME SameExperiments, entry' = entry, NEW f \in Flowers, Moves(f),
         \A g \in Flowers : g # f => flower'[g] = flower[g] /\ nft'[g] = nft[g]
  PROVE  \A g \in Flowers : Moves(g)
BY Untouched DEF Moves

\* A flower with no source is nobody's offspring.
LEMMA NoBreedings ==
  ASSUME NEW f \in Flowers, SameExperiments, flower'[f].source_experiment = NoKey,
         \A x \in Experiments : ~needs(x, f)
  PROVE  BreedingsOf(f)' = {}
BY NoKeyNoExperiment DEF BreedingsOf, needs, delivers, unresolved, SameExperiments

LEMMA Fields ==
  ASSUME Kept, NEW f \in Flowers
  PROVE  /\ flower[f] \in FlowerType /\ nft[f] \in NftType
         /\ flower[f].status \in Statuses
BY DEF Kept, TypeOK, FlowerType, Statuses

\* Reading a flower's owner afresh does not change whose it is.
LEMMA SyncMoves ==
  ASSUME Kept, NEW f \in Flowers, SameExperiments, entry' = entry,
         flower'[f] = synced_flower(f),
         nft'[f].state = nft[f].state, nft'[f].holder = nft[f].holder
  PROVE  LeftAlone(f)
<1>1. /\ flower'[f].status = flower[f].status
      /\ flower'[f].source_experiment = flower[f].source_experiment
  BY Synced
<1>2. nft[f].state = "HELD" \/ flower'[f].owner = flower[f].owner
  BY DEF synced_flower, changed_hands
<1>. QED
  BY <1>1, <1>2, SameBreedings, SameEntries, SameHolder DEF LeftAlone

-----------------------------------------------------------------------------
(***************************************************************************)
(* What each step does to the flowers.                                     *)
(***************************************************************************)
\* A resolution frees what it activates and leaves the rest.
LEMMA ResolveMoves ==
  ASSUME Kept, AllAccounted, NEW x \in Experiments, unresolved(x),
         NEW s \in {"COMPLETED", "FAILED", "EXPIRED"}, NEW activated,
         activated = IF s = "COMPLETED" THEN Uses(x) ELSE experiment[x].parents,
         Resolve(x, s, activated), nft' = nft, entry' = entry
  PROVE  \A f \in Flowers : Moves(f)
<1>1. \A y \in Experiments :
        /\ experiment'[y].status = IF y = x THEN s ELSE experiment[y].status
        /\ experiment'[y].parents = experiment[y].parents
        /\ experiment'[y].offspring = experiment[y].offspring
  BY DEF Resolve, Kept, TypeOK, ExperimentType
<1>2. \A g \in Flowers :
        /\ flower'[g].status = IF g \in activated THEN "ACTIVE" ELSE flower[g].status
        /\ flower'[g].source_experiment = flower[g].source_experiment
        /\ flower'[g].owner = flower[g].owner
  BY DEF Resolve, Kept, TypeOK, FlowerType
<1>3. \A f \in Flowers, y \in Experiments : y # x =>
        (needs(y, f)' <=> needs(y, f)) /\ (delivers(y, f)' <=> delivers(y, f))
  BY <1>1, <1>2 DEF needs, delivers, unresolved
<1>4. \A f \in Flowers : ~needs(x, f)'
  BY <1>1 DEF needs, unresolved
<1>5. ASSUME NEW f \in Flowers, f \in activated PROVE Freed(f)
  <2>1. flower[f].status = "LOCKED"
    BY <1>5 DEF Kept, Breeding, UsesLocked, Uses
  <2>2. x \in BreedingsOf(f)
    <3>1. CASE f \in experiment[x].parents
      BY <3>1 DEF BreedingsOf, needs
    <3>2. CASE f = experiment[x].offspring
      BY <3>2 DEF BreedingsOf, delivers, unresolved, Kept, Breeding, OffspringUnborn
    <3>. QED
      BY <1>5, <3>1, <3>2 DEF Uses
  <2>3. EntriesOf(f) = {} /\ BreedingsOf(f) = {x}
    BY <2>1, <2>2 DEF AllAccounted, Accounted
  <2>4. ~delivers(x, f)'
    <3>1. CASE s = "COMPLETED"
      BY <1>1, <3>1 DEF delivers
    <3>2. CASE s # "COMPLETED"
      <4>1. flower[f].source_experiment # x
        BY <1>5, <3>2 DEF Kept, Breeding, ParentsBorn, Unborn, unresolved
      <4>. QED
        BY <1>2, <4>1 DEF delivers
    <3>. QED
      BY <3>1, <3>2
  <2>5. \A y \in Experiments : y # x => ~needs(y, f)' /\ ~delivers(y, f)'
    BY <1>3, <2>3 DEF BreedingsOf
  <2>6. BreedingsOf(f)' = {}
    BY <1>4, <2>4, <2>5 DEF BreedingsOf
  <2>7. EntriesOf(f)' = {} /\ Holder(f)' = Holder(f)
    BY <1>2, <2>3 DEF EntriesOf, Holder
  <2>. QED
    BY <1>2, <1>5, <2>6, <2>7 DEF Freed, Unused
<1>6. ASSUME NEW f \in Flowers, f \notin activated PROVE LeftAlone(f)
  <2>1. ~needs(x, f)
    BY <1>6 DEF needs, Uses
  <2>2. delivers(x, f)' <=> delivers(x, f)
    <3>1. CASE s = "COMPLETED"
      BY <1>1, <1>6, <3>1 DEF delivers, Uses
    <3>2. CASE s # "COMPLETED"
      BY <1>1, <1>2, <3>2 DEF delivers, unresolved
    <3>. QED
      BY <3>1, <3>2
  <2>3. BreedingsOf(f)' = BreedingsOf(f)
    BY <1>3, <1>4, <2>1, <2>2 DEF BreedingsOf
  <2>4. EntriesOf(f)' = EntriesOf(f) /\ Holder(f)' = Holder(f)
    BY <1>2 DEF EntriesOf, Holder
  <2>. QED
    BY <1>2, <1>6, <2>3, <2>4 DEF LeftAlone
<1>. QED
  BY <1>5, <1>6 DEF Moves

\* A breeding puts its parents to use, and its offspring appears in use.
LEMMA BreedMoves ==
  ASSUME Kept, AllAccounted, NEW p \in Players, NEW S \in Pairs, start_breeding(p, S)
  PROVE  \A f \in Flowers : Moves(f)
<1>0. PICK child \in Flowers, x \in Experiments :
        child = <<p, profile[p].next_flower_index>> /\ x = <<p, profile[p].total_experiments>>
  BY DEF start_breeding
<1>1. /\ S \subseteq Flowers /\ x[1] = p
      /\ experiment[x].status = "NONE" /\ flower[child].status = "NONE"
      /\ \A f \in S : flower[f].status = "ACTIVE" /\ ~synced_flower(f).cooling
                      /\ synced_flower(f).owner = p
  BY <1>0 DEF start_breeding, Pairs, may_be_parent
<1>2. child \notin S
  BY <1>1
<1>3. \A f \in S : Holder(f) = p /\ flower[f].owner = p
  <2>1. ASSUME NEW f \in S, changed_hands(f) PROVE synced_flower(f).cooling = TRUE
    BY <1>1, <2>1 DEF synced_flower, Kept, TypeOK, FlowerType
  <2>. QED
    BY <1>1, <2>1 DEF changed_hands, Holder, synced_flower
<1>4. \A y \in Experiments :
        /\ y # x => experiment'[y] = experiment[y]
        /\ y = x => /\ experiment'[y].status = "QUEUED"
                    /\ experiment'[y].parents = S /\ experiment'[y].offspring = child
  BY <1>0, <1>1 DEF start_breeding, Kept, TypeOK
<1>5. entry' = entry
  BY DEF start_breeding
<1>6. \A g \in Flowers : nft'[g].state = nft[g].state /\ nft'[g].holder = nft[g].holder
  <2>1. ASSUME NEW g \in Flowers
        PROVE  /\ nft'[g] = (IF g \in S THEN locked_token(nft[g]) ELSE nft[g])
               /\ nft[g] \in NftType
    BY DEF start_breeding, Kept, TypeOK
  <2>2. ASSUME NEW g \in Flowers, nft'[g] = locked_token(nft[g]), nft[g] \in NftType
        PROVE  nft'[g].state = nft[g].state /\ nft'[g].holder = nft[g].holder
    BY <2>2 DEF locked_token, NftType, NeverMinted, Burned
  <2>. QED
    BY <2>1, <2>2
<1>7. \A y \in Experiments : y # x =>
        \A f \in Flowers : (needs(y, f)' <=> needs(y, f))
  BY <1>4 DEF needs, unresolved
<1>8. \A f \in Flowers : ~needs(x, f) /\ ~delivers(x, f)
  BY <1>1 DEF needs, delivers, unresolved
<1>9. ASSUME NEW f \in S PROVE PutToUse(f)
  <2>1. /\ flower[f] \in FlowerType
        /\ flower'[f] = [flower[f] EXCEPT !.status = "LOCKED", !.bred = @ + 1]
    BY <1>1, <1>9 DEF start_breeding, Kept, TypeOK
  <2>2. /\ flower'[f].status = "LOCKED" /\ flower'[f].owner = flower[f].owner
        /\ flower'[f].source_experiment = flower[f].source_experiment
    BY <2>1 DEF FlowerType
  <2>3. Holder(f)' = Holder(f)
    BY <1>1, <1>6, <1>9, <2>2 DEF Holder
  <2>4. EntriesOf(f) = {} /\ BreedingsOf(f) = {}
    BY <1>1, <1>9 DEF AllAccounted, Accounted, Unused
  <2>5. \A y \in Experiments : y # x => (delivers(y, f)' <=> delivers(y, f))
    BY <1>4, <2>2 DEF delivers
  <2>6. needs(x, f)'
    BY <1>4, <1>9 DEF needs, unresolved
  <2>7. BreedingsOf(f)' = {x}
    BY <1>1, <1>7, <1>9, <2>4, <2>5, <2>6 DEF BreedingsOf
  <2>8. EntriesOf(f)' = {}
    BY <1>1, <1>5, <1>9, <2>4 DEF EntriesOf
  <2>. QED
    BY <1>1, <1>3, <1>9, <2>2, <2>3, <2>7, <2>8 DEF PutToUse
<1>10. Appears(child)
  <2>1. /\ flower'[child].status = "LOCKED" /\ flower'[child].owner = p
        /\ flower'[child].source_experiment = x
    <3>1. flower'[child] = Offspring(p, x)
      BY <1>0, <1>1, <1>2 DEF start_breeding
    <3>. QED
      BY <3>1 DEF Offspring, NoFlower
  <2>2. Unused(child) /\ Holder(child) = Nobody /\ nft[child].state = "NEVER"
    BY <1>1 DEF AllAccounted, Accounted
  <2>3. Holder(child)' = p
    BY <1>6, <2>1, <2>2 DEF Holder
  <2>4. EntriesOf(child)' = {}
    BY <1>5, <2>2 DEF EntriesOf, Unused
  <2>5. \A y \in Experiments : y # x => ~needs(y, child)' /\ ~delivers(y, child)'
    BY <1>7, <2>1, <2>2 DEF BreedingsOf, delivers, Unused
  <2>6. delivers(x, child)'
    BY <1>4, <2>1 DEF delivers
  <2>7. BreedingsOf(child)' = {x}
    BY <2>5, <2>6 DEF BreedingsOf
  <2>. QED
    BY <1>1, <2>1, <2>2, <2>3, <2>4, <2>7 DEF Appears
<1>11. ASSUME NEW f \in Flowers, f \notin S, f # child PROVE LeftAlone(f)
  <2>1. flower'[f] = flower[f]
    BY <1>0, <1>11 DEF start_breeding
  <2>2. ~needs(x, f)' /\ ~delivers(x, f)'
    BY <1>4, <1>11 DEF needs, delivers
  <2>3. \A y \in Experiments : y # x => (delivers(y, f)' <=> delivers(y, f))
    BY <1>4, <2>1 DEF delivers
  <2>4. BreedingsOf(f)' = BreedingsOf(f)
    BY <1>7, <1>8, <2>2, <2>3 DEF BreedingsOf
  <2>. QED
    BY <1>5, <1>6, <2>1, <2>4, SameEntries, SameHolder DEF LeftAlone
<1>. QED
  BY <1>9, <1>10, <1>11 DEF Moves

\* Starters appear where there was no flower.
LEMMA ClaimMoves ==
  ASSUME Kept, AllAccounted, NEW p \in Players, claim_starters(p)
  PROVE  \A f \in Flowers : Moves(f)
<1>1. SameExperiments /\ entry' = entry /\ nft' = nft
  BY DEF claim_starters, SameExperiments
<1>2. ASSUME NEW f \in Flowers, f \in Starters(p) PROVE Appears(f)
  <2>1. /\ flower[f].status = "NONE" /\ flower'[f].status = "ACTIVE"
        /\ flower'[f].source_experiment = NoKey
    BY <1>2, NoKeyNoExperiment DEF claim_starters, Starter, NoFlower
  <2>2. Unused(f) /\ Holder(f) = Nobody
    BY <2>1 DEF AllAccounted, Accounted
  <2>3. EntriesOf(f)' = {} /\ BreedingsOf(f)' = {}
    BY <1>1, <2>1, <2>2, SameEntries, NoBreedings DEF Unused, BreedingsOf
  <2>. QED
    BY <2>1, <2>2, <2>3 DEF Appears
<1>3. ASSUME NEW f \in Flowers, f \notin Starters(p) PROVE LeftAlone(f)
  BY <1>1, <1>3, Untouched DEF claim_starters
<1>. QED
  BY <1>2, <1>3 DEF Moves

\* A flower that is removed had no token and nobody was using it but an
\* experiment that has failed.
LEMMA RemovalMoves ==
  ASSUME Kept, AllAccounted, NEW f \in Flowers, SameExperiments,
         entry' = entry, nft' = nft, EntriesOf(f) = {},
         nft[f].state = "NEVER", \A x \in Experiments : ~needs(x, f),
         flower'[f] = NoFlower, \A g \in Flowers : g # f => flower'[g] = flower[g]
  PROVE  \A g \in Flowers : Moves(g)
<1>1. BreedingsOf(f)' = {} /\ EntriesOf(f)' = {}
  BY NoBreedings, SameEntries, NoKeyNoExperiment
<1>2. flower'[f].status = "NONE" /\ Holder(f)' = Nobody /\ nft'[f].state = "NEVER"
  BY DEF NoFlower, Holder
<1>3. Vanishes(f)
  BY <1>1, <1>2 DEF Vanishes, Unused
<1>. QED
  BY <1>3, OneMoves DEF Moves

\* A token moves or goes while its flower is free.
LEMMA TradeMoves ==
  ASSUME Kept, AllAccounted, NEW f \in Flowers, SameExperiments,
         entry' = entry, flower' = flower, flower[f].status = "ACTIVE",
         \A g \in Flowers : g # f => nft'[g] = nft[g]
  PROVE  \A g \in Flowers : Moves(g)
<1>1. EntriesOf(f)' = {} /\ BreedingsOf(f)' = {}
  BY SameEntries, SameBreedings DEF AllAccounted, Accounted, Unused
<1>2. Traded(f)
  BY <1>1 DEF Traded, Unused
<1>. QED
  BY <1>2, OneMoves DEF Moves

\* An entry puts its flower to use.
LEMMA SubmitMoves ==
  ASSUME Kept, AllAccounted, NEW p \in Players, NEW f \in Flowers, submit_entry(p, f)
  PROVE  \A g \in Flowers : Moves(g)
<1>1. /\ flower'[f] = [synced_flower(f) EXCEPT !.status = "SUBMITTED"]
      /\ nft'[f] = locked_token(nft[f]) /\ experiment' = experiment
      /\ \A g \in Flowers : g # f => flower'[g] = flower[g] /\ nft'[g] = nft[g]
  BY DEF submit_entry, Kept, TypeOK
<1>2. /\ flower'[f].status = "SUBMITTED" /\ flower'[f].owner = p
      /\ flower'[f].source_experiment = flower[f].source_experiment
      /\ flower[f].status = "ACTIVE" /\ synced_flower(f).owner = p
  <2>1. flower[f].status = "ACTIVE" /\ synced_flower(f).owner = p
    BY DEF submit_entry
  <2>. QED
    BY <1>1, <2>1, Synced DEF Statuses
<1>3. nft'[f].state = nft[f].state /\ nft'[f].holder = nft[f].holder
  <2>1. nft[f] \in NftType
    BY DEF Kept, TypeOK
  <2>. QED
    BY <1>1, <2>1 DEF locked_token, NftType, NeverMinted, Burned
<1>4. Holder(f) = p /\ Holder(f)' = p
  BY <1>2, <1>3 DEF Holder, synced_flower, changed_hands
<1>5. EntriesOf(f) = {} /\ BreedingsOf(f) = {} /\ SameExperiments
  BY <1>1, <1>2 DEF AllAccounted, Accounted, Unused, SameExperiments
<1>6. PICK c \in Rounds : c = current_round
  BY DEF submit_entry, Kept, TypeOK, Rounds
<1>7. /\ entry[c][p] = NoEntry
      /\ entry'[c][p] = [status |-> "SUBMITTED", flower |-> f]
      /\ \A r \in Rounds, q \in Players : r # c \/ q # p => entry'[r][q] = entry[r][q]
  BY <1>6 DEF submit_entry, Kept, TypeOK
<1>8. EntriesOf(f)' = {<<c, p>>}
  <2>1. \A e \in Rounds \X Players : e # <<c, p>> => e \notin EntriesOf(f)'
    BY <1>5, <1>7 DEF EntriesOf
  <2>2. <<c, p>> \in EntriesOf(f)'
    BY <1>7 DEF EntriesOf
  <2>3. EntriesOf(f)' \subseteq Rounds \X Players
    BY DEF EntriesOf
  <2>. QED
    BY <2>1, <2>2, <2>3
<1>9. PutToUse(f)
  <2>1. BreedingsOf(f)' = {}
    BY <1>2, <1>5, SameBreedings
  <2>2. <<c, p>> \in Rounds \X Players /\ <<c, p>>[2] = p
    OBVIOUS
  <2>. QED
    BY <1>2, <1>4, <1>8, <2>1, <2>2 DEF PutToUse
<1>10. ASSUME NEW g \in Flowers, g # f PROVE LeftAlone(g)
  <2>1. EntriesOf(g)' = EntriesOf(g)
    BY <1>7, <1>10 DEF EntriesOf, NoEntry
  <2>. QED
    BY <1>1, <1>5, <1>10, <2>1, SameBreedings, SameHolder DEF LeftAlone
<1>. QED
  BY <1>9, <1>10 DEF Moves

\* A release frees the flower of the entry.
LEMMA ReleaseMoves ==
  ASSUME Kept, AllAccounted, NEW r \in Rounds, NEW p \in Players, release_flower(r, p)
  PROVE  \A g \in Flowers : Moves(g)
<1>1. entry[r][p] \in EntryType /\ entry[r][p].status = "SUBMITTED"
  BY DEF release_flower, releasable, Kept, TypeOK
<1>2. PICK f \in Flowers : entry[r][p] = [status |-> "SUBMITTED", flower |-> f]
  BY <1>1 DEF EntryType, NoEntry
<1>3. /\ flower'[f] = [synced_flower(f) EXCEPT !.status = "ACTIVE"]
      /\ flower[f].status = "SUBMITTED" /\ nft' = nft /\ experiment' = experiment
      /\ \A g \in Flowers : g # f => flower'[g] = flower[g]
  BY <1>2 DEF release_flower, Kept, TypeOK
<1>4. /\ flower'[f].status = "ACTIVE" /\ flower'[f].owner = synced_flower(f).owner
      /\ flower'[f].source_experiment = flower[f].source_experiment
  BY <1>3, Synced DEF Statuses
<1>5. /\ entry'[r][p].status = "RELEASED"
      /\ \A s \in Rounds, q \in Players : s # r \/ q # p => entry'[s][q] = entry[s][q]
  BY <1>2 DEF release_flower, Kept, TypeOK
<1>6. <<r, p>> \in EntriesOf(f)
  BY <1>2 DEF EntriesOf
<1>7. EntriesOf(f) = {<<r, p>>} /\ BreedingsOf(f) = {} /\ SameExperiments
  BY <1>3, <1>6 DEF AllAccounted, Accounted, SameExperiments
<1>8. EntriesOf(f)' = {}
  <2>1. \A e \in Rounds \X Players : e # <<r, p>> => e \notin EntriesOf(f)'
    BY <1>5, <1>7 DEF EntriesOf
  <2>2. <<r, p>> \notin EntriesOf(f)'
    BY <1>5 DEF EntriesOf
  <2>. QED
    BY <2>1, <2>2 DEF EntriesOf
<1>9. Holder(f)' = Holder(f)
  BY <1>3, <1>4 DEF Holder, synced_flower, changed_hands
<1>10. Freed(f)
  BY <1>4, <1>7, <1>8, <1>9, SameBreedings DEF Freed, Unused
<1>11. ASSUME NEW g \in Flowers, g # f PROVE LeftAlone(g)
  <2>1. EntriesOf(g)' = EntriesOf(g)
    BY <1>2, <1>5, <1>11 DEF EntriesOf
  <2>. QED
    BY <1>3, <1>7, <1>11, <2>1, SameBreedings, SameHolder DEF LeftAlone
<1>. QED
  BY <1>10, <1>11 DEF Moves

\* A step that leaves flowers, tokens and tables as they are.
LEMMA QuietMoves ==
  ASSUME SameExperiments, entry' = entry, flower' = flower, nft' = nft
  PROVE  \A f \in Flowers : Moves(f)
BY Untouched DEF Moves

LEMMA StepMoves ==
  ASSUME Kept, AllAccounted, [Next]_vars
  PROVE  \A f \in Flowers : Moves(f)
<1>. DEFINE Goal == \A f \in Flowers : Moves(f)
<1>0. TypeOK /\ (experiment' = experiment => SameExperiments)
  BY DEF Kept, SameExperiments
<1>1. ASSUME UNCHANGED <<flower, nft, experiment, entry>> PROVE Goal
  BY <1>0, <1>1, QuietMoves
<1>2. ASSUME NEW p \in Players, claim_starters(p) PROVE Goal
  BY <1>2, ClaimMoves
<1>3. ASSUME NEW p \in Players, NEW S \in Pairs, start_breeding(p, S) PROVE Goal
  BY <1>3, BreedMoves
<1>4. ASSUME NEW x \in Experiments, breed_v5_callback(x) PROVE Goal
  <2>1. CASE unresolved(x) /\ breed_success(x)
    BY <1>4, <2>1, ResolveMoves DEF breed_v5_callback, breed_success, Uses
  <2>2. CASE unresolved(x) /\ breed_failure(x)
    BY <1>4, <2>2, ResolveMoves DEF breed_v5_callback, breed_failure, Uses
  <2>3. CASE UNCHANGED <<experiment, flower, profile>>
    BY <1>1, <1>4, <2>3 DEF breed_v5_callback
  <2>. QED
    BY <1>4, <2>1, <2>2, <2>3 DEF breed_v5_callback
<1>5. ASSUME NEW x \in Experiments, cancel_expired_experiment(x) PROVE Goal
  BY <1>5, ResolveMoves DEF cancel_expired_experiment, cancellable, unresolved, Uses
<1>6. ASSUME NEW x \in Experiments, Tick(x) PROVE Goal
  <2>1. SameExperiments
    BY <1>0, <1>6 DEF Tick, unresolved, SameExperiments, TypeOK, ExperimentType, NoExperiment
  <2>. QED
    BY <1>6, <2>1, QuietMoves DEF Tick
<1>7. ASSUME NEW x \in Experiments, reclaim_dead_offspring(x) PROVE Goal
  <2>. DEFINE f == experiment[x].offspring
  <2>1. /\ Unborn(f) /\ flower[f].source_experiment = x /\ flower[f].status = "LOCKED"
        /\ f \in Flowers
    BY <1>0, <1>7, ReclaimedType DEF reclaim_dead_offspring, reclaimable, Unborn
  <2>2. nft[f].state = "NEVER"
    BY <2>1 DEF Kept, Breeding, UnbornLocked
  <2>3. \A y \in Experiments : ~needs(y, f)
    BY <2>1 DEF needs, Kept, Breeding, ParentsBorn
  <2>4. EntriesOf(f) = {}
    BY <2>1 DEF AllAccounted, Accounted
  <2>5. /\ flower'[f] = NoFlower /\ \A g \in Flowers : g # f => flower'[g] = flower[g]
        /\ nft' = nft /\ experiment' = experiment /\ entry' = entry
    BY <1>0, <1>7, <2>1 DEF reclaim_dead_offspring, TypeOK
  <2>. HIDE DEF f
  <2>. QED
    BY <1>0, <2>1, <2>2, <2>3, <2>4, <2>5, RemovalMoves
<1>8. ASSUME NEW p \in Players, NEW f \in Flowers, close_flower(p, f) PROVE Goal
  <2>1. /\ flower'[f] = NoFlower /\ \A g \in Flowers : g # f => flower'[g] = flower[g]
        /\ nft' = nft /\ experiment' = experiment /\ entry' = entry
        /\ flower[f].status = "ACTIVE" /\ nft[f].state = "NEVER"
    BY <1>0, <1>8 DEF close_flower, never_minted, TypeOK
  <2>2. EntriesOf(f) = {} /\ \A x \in Experiments : ~needs(x, f)
    BY <2>1 DEF AllAccounted, Accounted, Unused, BreedingsOf
  <2>. QED
    BY <1>0, <2>1, <2>2, RemovalMoves
<1>9. ASSUME NEW p \in Players, NEW f \in Flowers, mint_flower_nft(p, f) PROVE Goal
  <2>1. /\ flower' = flower /\ experiment' = experiment /\ entry' = entry
        /\ flower[f].status = "ACTIVE" /\ nft[f] = NeverMinted /\ flower[f].owner = p
        /\ nft'[f] = HeldBy(p) /\ \A g \in Flowers : g # f => nft'[g] = nft[g]
    BY <1>0, <1>9 DEF mint_flower_nft, TypeOK
  <2>2. Holder(f)' = Holder(f)
    BY <2>1 DEF Holder, NeverMinted, HeldBy
  <2>3. LeftAlone(f)
    BY <1>0, <2>1, <2>2, SameBreedings, SameEntries DEF LeftAlone
  <2>. QED
    BY <1>0, <2>1, <2>3, OneMoves DEF Moves
<1>10. ASSUME NEW p, NEW f \in Flowers, burn_flower_nft(p, f) \/ Transfer(f, p) \/ RawBurn(f)
       PROVE  Goal
  <2>1. /\ flower' = flower /\ experiment' = experiment /\ entry' = entry
        /\ \A g \in Flowers : g # f => nft'[g] = nft[g]
    BY <1>0, <1>10 DEF burn_flower_nft, Transfer, RawBurn, TypeOK
  <2>2. flower[f].status = "ACTIVE"
    <3>1. CASE burn_flower_nft(p, f)
      BY <3>1 DEF burn_flower_nft
    <3>2. CASE Transfer(f, p) \/ RawBurn(f)
      <4>1. nft[f].state = "HELD" /\ ~nft[f].frozen /\ flower[f] \in FlowerType
        BY <1>0, <3>2 DEF Transfer, RawBurn, TypeOK
      <4>. QED
        BY <4>1 DEF Kept, InUseNotSold, MintedFlowersStay, FlowerType
    <3>. QED
      BY <1>10, <3>1, <3>2
  <2>. QED
    BY <1>0, <2>1, <2>2, TradeMoves
<1>11. ASSUME NEW p \in Players, NEW f \in Flowers, submit_entry(p, f) PROVE Goal
  BY <1>11, SubmitMoves
<1>12. ASSUME NEW r \in Rounds, NEW p \in Players, release_flower(r, p) PROVE Goal
  BY <1>12, ReleaseMoves
<1>13. ASSUME NEW p, NEW f \in Flowers, thaw_flower_nft(f) \/ queue_private_hint(p, f)
       PROVE  Goal
  <2>1. /\ flower'[f] = synced_flower(f) /\ experiment' = experiment /\ entry' = entry
        /\ \A g \in Flowers : g # f => flower'[g] = flower[g] /\ nft'[g] = nft[g]
        /\ nft'[f].state = nft[f].state /\ nft'[f].holder = nft[f].holder
    <3>1. CASE queue_private_hint(p, f)
      BY <1>0, <3>1 DEF queue_private_hint, TypeOK
    <3>2. CASE thaw_flower_nft(f)
      <4>1. nft[f] \in NftType /\ nft[f].state = "HELD"
        BY <1>0, <3>2 DEF thaw_flower_nft, TypeOK
      <4>2. /\ flower'[f] = synced_flower(f) /\ experiment' = experiment /\ entry' = entry
            /\ \A g \in Flowers : g # f => flower'[g] = flower[g] /\ nft'[g] = nft[g]
            /\ nft'[f] = [nft[f] EXCEPT !.frozen = FALSE]
        BY <1>0, <3>2 DEF thaw_flower_nft, TypeOK
      <4>. QED
        BY <4>1, <4>2 DEF NftType, NeverMinted, Burned
    <3>. QED
      BY <1>13, <3>1, <3>2
  <2>2. LeftAlone(f)
    BY <1>0, <2>1, SyncMoves
  <2>. QED
    BY <1>0, <2>1, <2>2, OneMoves DEF Moves
<1>14. ASSUME NEW f \in Flowers, CooldownOver(f) PROVE Goal
  <2>1. /\ flower'[f].status = flower[f].status /\ flower'[f].owner = flower[f].owner
        /\ flower'[f].source_experiment = flower[f].source_experiment
        /\ nft' = nft /\ experiment' = experiment /\ entry' = entry
        /\ \A g \in Flowers : g # f => flower'[g] = flower[g]
    BY <1>0, <1>14 DEF CooldownOver, TypeOK, FlowerType
  <2>2. LeftAlone(f)
    BY <1>0, <2>1, SameBreedings, SameEntries, SameHolder DEF LeftAlone
  <2>. QED
    BY <1>0, <2>1, <2>2, OneMoves DEF Moves
<1>15. ASSUME NEW b \in BOOLEAN, SetPaused(b) PROVE Goal
  BY <1>1, <1>15 DEF SetPaused
<1>16. ASSUME open_round \/ close_round \/ finalize_round PROVE Goal
  BY <1>1, <1>16 DEF open_round, close_round, finalize_round, advance_round
<1>17. ASSUME NEW p \in Players, create_profile(p) PROVE Goal
  BY <1>1, <1>17 DEF create_profile
<1>18. ASSUME UNCHANGED vars PROVE Goal
  BY <1>1, <1>18 DEF vars
<1>19. CASE \E p \in Players :
              \/ create_profile(p)
              \/ claim_starters(p)
              \/ \E S \in Pairs : start_breeding(p, S)
              \/ \E f \in Flowers :
                   \/ close_flower(p, f) \/ mint_flower_nft(p, f) \/ burn_flower_nft(p, f)
                   \/ submit_entry(p, f) \/ queue_private_hint(p, f)
                   \/ Transfer(f, p)
              \/ \E r \in Rounds : release_flower(r, p)
  BY <1>19, <1>2, <1>3, <1>8, <1>9, <1>10, <1>11, <1>12, <1>13, <1>17
<1>20. CASE \/ \E f \in Flowers : thaw_flower_nft(f) \/ RawBurn(f) \/ CooldownOver(f)
            \/ \E x \in Experiments :
                 \/ breed_v5_callback(x) \/ cancel_expired_experiment(x)
                 \/ reclaim_dead_offspring(x) \/ Tick(x)
  BY <1>20, <1>4, <1>5, <1>6, <1>7, <1>10, <1>13, <1>14
<1>. QED
  BY <1>15, <1>16, <1>18, <1>19, <1>20 DEF Next

-----------------------------------------------------------------------------
(***************************************************************************)
(* Status and promise.                                                     *)
(***************************************************************************)
LEMMA AccountedInit == Init => AllAccounted
<1>. SUFFICES ASSUME Init, NEW f \in Flowers PROVE Accounted(f)
  BY DEF AllAccounted
<1>1. flower[f] = NoFlower /\ nft[f] = NeverMinted
  BY DEF Init
<1>2. BreedingsOf(f) = {}
  BY <1>1 DEF Init, BreedingsOf, needs, delivers, unresolved, NoExperiment
<1>3. EntriesOf(f) = {}
  BY DEF Init, EntriesOf, NoEntry
<1>4. Holder(f) = Nobody
  BY <1>1 DEF Holder, NeverMinted, NoFlower
<1>. QED
  BY <1>1, <1>2, <1>3, <1>4 DEF Accounted, Unused, NoFlower, NeverMinted

LEMMA AccountedInv == Spec => [](Kept /\ AllAccounted)
<1>1. Init => Kept /\ AllAccounted
  BY KeptInit, AccountedInit
<1>2. Kept /\ AllAccounted /\ [Next]_vars => (Kept /\ AllAccounted)'
  BY KeptStep, StepMoves, MovesKeep DEF AllAccounted
<1>. QED
  BY <1>1, <1>2, PTL DEF Spec

LEMMA AccountedStatus == Kept /\ AllAccounted => StatusAccounted
<1>. SUFFICES ASSUME Kept, AllAccounted, NEW f \in Flowers
     PROVE /\ flower[f].status = "LOCKED" =>
                Cardinality({x \in Experiments : needs(x, f) \/ delivers(x, f)}) = 1
           /\ flower[f].status = "SUBMITTED" =>
                Cardinality({e \in Rounds \X Players :
                  entry[e[1]][e[2]] = [status |-> "SUBMITTED", flower |-> f]}) = 1
           /\ \A x \in Experiments :
                unresolved(x) /\ f \in experiment[x].parents \cup {experiment[x].offspring}
                  => flower[f].status = "LOCKED"
           /\ \A r \in Rounds, p \in Players :
                entry[r][p] = [status |-> "SUBMITTED", flower |-> f]
                  => flower[f].status = "SUBMITTED"
  BY DEF StatusAccounted
<1>1. flower[f].status = "LOCKED" => Cardinality(BreedingsOf(f)) = 1
  BY FS_Singleton DEF AllAccounted, Accounted
<1>2. flower[f].status = "SUBMITTED" => Cardinality(EntriesOf(f)) = 1
  BY FS_Singleton DEF AllAccounted, Accounted
<1>3. ASSUME NEW x \in Experiments, unresolved(x),
             f \in experiment[x].parents \cup {experiment[x].offspring}
      PROVE  flower[f].status = "LOCKED"
  BY <1>3 DEF Kept, Breeding, UsesLocked, Uses
<1>4. ASSUME NEW r \in Rounds, NEW p \in Players,
             entry[r][p] = [status |-> "SUBMITTED", flower |-> f]
      PROVE  flower[f].status = "SUBMITTED"
  <2>1. EntriesOf(f) # {}
    <3>1. <<r, p>> \in EntriesOf(f)
      BY <1>4 DEF EntriesOf
    <3>. QED
      BY <3>1
  <2>. QED
    BY <2>1, Fields DEF AllAccounted, Accounted, Unused, Statuses
<1>. QED
  BY <1>1, <1>2, <1>3, <1>4 DEF BreedingsOf, EntriesOf

\* A flower is locked exactly for one breeding and submitted exactly for one
\* entry, also after claim_starters has set the flower index back.
THEOREM StatusSafe == Spec => []StatusAccounted
BY AccountedInv, AccountedStatus, PTL

\* The users of a flower, before and after a step.
LEMMA UsersOf ==
  ASSUME NEW f \in Flowers
  PROVE  /\ entrants_with(f) = {e[2] : e \in EntriesOf(f)}
         /\ breeders_with(f) = {x[1] : x \in BreedingsOf(f)}
         /\ entrants_with(f)' = {e[2] : e \in EntriesOf(f)'}
         /\ breeders_with(f)' = {x[1] : x \in BreedingsOf(f)'}
<1>1. breeders_with(f) = {x[1] : x \in BreedingsOf(f)} /\ breeders_with(f)' = {x[1] : x \in BreedingsOf(f)'}
  BY DEF breeders_with, BreedingsOf
<1>. DEFINE named == [status |-> "SUBMITTED", flower |-> f]
<1>2. ASSUME NEW q
      PROVE  q \in entrants_with(f) <=> \E e \in EntriesOf(f) : q = e[2]
  <2>1. ASSUME q \in entrants_with(f) PROVE \E e \in EntriesOf(f) : q = e[2]
    <3>1. PICK r \in Rounds : entry[r][q] = named /\ q \in Players
      BY <2>1 DEF entrants_with
    <3>2. <<r, q>> \in EntriesOf(f)
      BY <3>1 DEF EntriesOf
    <3>. QED
      BY <3>2
  <2>2. ASSUME NEW e \in EntriesOf(f), q = e[2] PROVE q \in entrants_with(f)
    <3>1. e[1] \in Rounds /\ e[2] \in Players /\ entry[e[1]][e[2]] = named
      BY <2>2 DEF EntriesOf
    <3>. QED
      BY <2>2, <3>1 DEF entrants_with
  <2>. QED
    BY <2>1, <2>2
<1>3. ASSUME NEW q
      PROVE  q \in entrants_with(f)' <=> \E e \in EntriesOf(f)' : q = e[2]
  <2>1. ASSUME q \in entrants_with(f)' PROVE \E e \in EntriesOf(f)' : q = e[2]
    <3>1. PICK r \in Rounds : entry'[r][q] = named /\ q \in Players
      BY <2>1 DEF entrants_with
    <3>2. <<r, q>> \in EntriesOf(f)'
      BY <3>1 DEF EntriesOf
    <3>. QED
      BY <3>2
  <2>2. ASSUME NEW e \in EntriesOf(f)', q = e[2] PROVE q \in entrants_with(f)'
    <3>1. e[1] \in Rounds /\ e[2] \in Players /\ entry'[e[1]][e[2]] = named
      BY <2>2 DEF EntriesOf
    <3>. QED
      BY <2>2, <3>1 DEF entrants_with
  <2>. QED
    BY <2>1, <2>2
<1>4. entrants_with(f) = {e[2] : e \in EntriesOf(f)}
  BY <1>2
<1>5. entrants_with(f)' = {e[2] : e \in EntriesOf(f)'}
  BY <1>3
<1>. QED
  BY <1>1, <1>4, <1>5

\* Each kind of move is a step of the promise, or none.
LEMMA MovesPromised ==
  ASSUME NEW f \in Flowers, Accounted(f), Moves(f)
  PROVE  [Promise(f)!Next]_(Promise(f)!vars)
<1>. DEFINE users == entrants_with(f) \cup breeders_with(f)
<1>1. entrants_with(f) = {e[2] : e \in EntriesOf(f)} /\ breeders_with(f) = {x[1] : x \in BreedingsOf(f)}
  BY UsersOf
<1>2. entrants_with(f)' = {e[2] : e \in EntriesOf(f)'} /\ breeders_with(f)' = {x[1] : x \in BreedingsOf(f)'}
  BY UsersOf
<1>3. CASE LeftAlone(f)
  <2>1. users' = users
    BY <1>1, <1>2, <1>3 DEF LeftAlone
  <2>. QED
    BY <1>3, <2>1 DEF LeftAlone, Holder, Promise!vars
<1>4. CASE Appears(f)
  <2>1. users' \subseteq {Holder(f)'}
    BY <1>2, <1>4 DEF Appears
  <2>. QED
    BY <1>4, <2>1, PlayersAssumption DEF Appears, Holder, Promise!Next, Promise!Appear
<1>5. CASE Vanishes(f)
  <2>1. users' = {}
    BY <1>2, <1>5 DEF Vanishes, Unused
  <2>. QED
    BY <1>5, <2>1, PlayersAssumption DEF Vanishes, Holder, Promise!Next, Promise!Vanish
<1>6. CASE PutToUse(f)
  <2>1. users = {}
    BY <1>1, <1>6 DEF PutToUse, Accounted, Unused
  <2>2. users' = {Holder(f)}
    BY <1>2, <1>6 DEF PutToUse
  <2>. QED
    BY <1>6, <2>1, <2>2 DEF PutToUse, Holder, Promise!Next, Promise!PutToUse
<1>7. CASE Freed(f)
  <2>1. users' = {}
    BY <1>2, <1>7 DEF Freed, Unused
  <2>. QED
    BY <1>7, <2>1 DEF Freed, Holder, Promise!Next, Promise!Return
<1>8. CASE Traded(f)
  <2>1. users = {} /\ users' = {}
    BY <1>1, <1>2, <1>8 DEF Traded, Accounted, Unused
  <2>. QED
    BY <2>1 DEF Promise!Next, Promise!ChangeHands
<1>. QED
  BY <1>3, <1>4, <1>5, <1>6, <1>7, <1>8 DEF Moves

\* Only its holder puts a flower to use, and it stays the holder's until it is free.
THEOREM GardenKeepsPromise == Spec => PromiseKept
<1>1. Init => \A f \in Flowers : Promise(f)!Init
  <2>. SUFFICES ASSUME Init, NEW f \in Flowers PROVE Promise(f)!Init
    OBVIOUS
  <2>1. Unused(f) /\ Holder(f) = Nobody
    BY AccountedInit DEF AllAccounted, Accounted, Init, NoFlower
  <2>2. entrants_with(f) = {} /\ breeders_with(f) = {}
    BY <2>1, UsersOf DEF Unused
  <2>. QED
    BY <2>1, <2>2, PlayersAssumption DEF Promise!Init, Holder
<1>2. Kept /\ AllAccounted /\ [Next]_vars =>
        [\A f \in Flowers : [Promise(f)!Next]_(Promise(f)!vars)]_vars
  BY StepMoves, MovesPromised DEF AllAccounted
<1>. QED
  BY <1>1, <1>2, AccountedInv, PTL DEF Spec, PromiseKept
=============================================================================
