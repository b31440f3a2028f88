----------------------------- MODULE Evaluation -----------------------------
(***************************************************************************)
(* What a flower is worth in a round: open_round draws the round's target  *)
(* traits, a player asks which of them their flowers have                  *)
(* (queue_private_hint and its callback), enters one, and the score_entry  *)
(* circuit scores it against the same targets.  The answers to hints come  *)
(* in any order, or never, to the player's one HintResult.                 *)
(*                                                                         *)
(* One player, who breeds before the round and enters once.  When scores   *)
(* are queued, lost and counted is module Scoring, who owns a flower and   *)
(* when it may be bred is module Garden.  A bitmask of slots is the set of *)
(* their indexes.                                                          *)
(***************************************************************************)
EXTENDS Genetics, Sequences

CONSTANTS
  Gardens,      \* the flowers the player may start with, sequences of them
  MaxFlowers,   \* bound: flowers of the garden
  Dials,        \* the environments tried
  Draws,        \* the random bytes tried
  Entropies,    \* the hashes open_round may draw from, by byte 0..5
  Weights,      \* effective_mutant_weight, ditto
  ZeroGenome    \* what a starter's zeroed ciphertext decrypts to

GenomeType ==
  [color_gene : Byte, petal_gene : Byte, leaf_gene : Byte, stem_gene : Byte,
   aroma_gene : Byte, climate_gene : Byte, recessive_mask : Byte,
   mutation_affinity : Byte, stability : Byte]

\* A rarity is a starter's (1 to 4), a bred tier (1 to 5) or, on a flower bred
\* before tiers were, 0.
FlowerType ==
  [kind : {"starter", "hybrid"}, species : Byte, generation : Nat, genome : GenomeType,
   rarity : 0..5, mask : Nat]

ASSUME GardensAssumption == Gardens \subseteq Seq(FlowerType)
ASSUME EntropiesAssumption == Entropies \subseteq [0..5 -> Byte]
ASSUME DialsAssumption == Dials \subseteq [light : Byte, water : Byte, soil : Byte]
ASSUME DrawsAssumption == Draws \subseteq [pick : Byte, mutate : Byte, class : Byte, other : Byte]

VARIABLES
  garden,   \* the player's FlowerRecords
  round,    \* the CompetitionRound account
  hint,     \* the player's HintResult account
  asked,    \* the flower the player asked about last (the client's memory)
  crossed,  \* history: that was while an answer about another flower was due
  due,      \* flowers with a hint computation in flight
  entered,  \* the flower of the player's entry
  score     \* the entry's score

vars == <<garden, round, hint, asked, crossed, due, entered, score>>

Nothing == 0
Unscored == -1

Init ==
  /\ garden \in Gardens
  /\ round = [status |-> "NONE", target_traits |-> <<>>, target_trait_count |-> 0]
  /\ hint = [ready |-> FALSE, bits |-> {}, target_trait_count |-> 0]
  /\ asked = Nothing /\ crossed = FALSE /\ due = {}
  /\ entered = Nothing /\ score = Unscored

-----------------------------------------------------------------------------
(***************************************************************************)
(* select_target_traits: how many, and which.                              *)
(***************************************************************************)
TRAIT_ID_MUTANT == 8
include_mutant(entropy, weight) == entropy[5] * 255 < weight * 256

pool(entropy, weight) ==
  IF include_mutant(entropy, weight) THEN [i \in 1..10 |-> i - 1]
  ELSE [i \in 1..9 |-> IF i - 1 < TRAIT_ID_MUTANT THEN i - 1 ELSE i]

swapped(s, i, k) == [s EXCEPT ![i] = s[k], ![k] = s[i]]

target_trait_count(entropy) == 2 + (entropy[0] % 3)

\* The first places of the pool after as many steps of Fisher-Yates.
target_traits(entropy, weight) ==
  LET p == pool(entropy, weight)
      count == target_trait_count(entropy)
      drawn[k \in 0..count] ==
        IF k = 0 THEN p
        ELSE swapped(drawn[k - 1], k, k + (entropy[k] % (Len(p) - (k - 1)))) IN
  SubSeq(drawn[count], 1, count)

(***************************************************************************)
(* The circuits.                                                           *)
(***************************************************************************)
trait_satisfied(g, trait) ==
  CASE trait = 0 -> g.color_gene >= 180
    [] trait = 1 -> g.color_gene < 64
    [] trait = 2 -> g.petal_gene >= 150
    [] trait = 3 -> g.leaf_gene >= 128
    [] trait = 4 -> g.stem_gene >= 160
    [] trait = 5 -> g.aroma_gene >= 150
    [] trait = 6 -> g.climate_gene >= 140
    [] trait = 7 -> g.recessive_mask >= 32
    [] trait = 8 -> g.mutation_affinity % 2 = 1
    [] trait = 9 -> g.stability >= 150

\* The active slots whose trait genome g has, in a round with the targets of r.
matched(g, r) ==
  {i \in 1..r.target_trait_count : trait_satisfied(g, r.target_traits[i])}

\* mutant: one trait of the hint's copy of the table was not moved along.
private_hint_drifted(g, r) ==
  matched([g EXCEPT !.petal_gene = IF @ > 150 THEN @ ELSE 0], r)

private_hint(g, r) == matched(g, r)

gen_bonus_raw(generation) ==
  IF generation >= 16 THEN 30 ELSE IF generation > 1 THEN 2 * (generation - 1) ELSE 0

\* mutant: one division for both terms.
score_entry_v2_one_floor(g, r, generation) ==
  (Cardinality(matched(g, r)) * (70 + gen_bonus_raw(generation))) \div r.target_trait_count

score_entry_v2(g, r, generation) ==
  LET n == Cardinality(matched(g, r))
      count == r.target_trait_count
      total == (n * 70) \div count + (n * gen_bonus_raw(generation)) \div count IN
  IF total > 100 THEN 100 ELSE total

\* What the ciphertext in a flower's account holds.
encrypted_genome(f) == IF garden[f].kind = "starter" THEN ZeroGenome ELSE garden[f].genome

-----------------------------------------------------------------------------
Flowers == 1..Len(garden)

breed(f, g, env, draws) ==
  /\ round.status = "NONE"
  /\ Len(garden) < MaxFlowers
  /\ f # g
  /\ garden' = Append(garden, offspring(garden[f], garden[g], env, draws))
  /\ UNCHANGED <<round, hint, asked, crossed, due, entered, score>>

open_round(entropy, weight) ==
  /\ round.status = "NONE"
  /\ round' = [status |-> "OPEN", target_traits |-> target_traits(entropy, weight),
               target_trait_count |-> target_trait_count(entropy)]
  /\ UNCHANGED <<garden, hint, asked, crossed, due, entered, score>>

\* mutant: the answer to the last request stays ready.
reset_hint_kept(r) == [hint EXCEPT !.target_trait_count = r.target_trait_count]

reset_hint(r) ==
  [hint EXCEPT !.target_trait_count = r.target_trait_count, !.ready = FALSE]

queue_private_hint(f) ==
  /\ round.status = "OPEN"
  /\ hint' = reset_hint(round)
  /\ asked' = f
  /\ crossed' = (due \ {f} # {})
  /\ due' = due \cup {f}
  /\ UNCHANGED <<garden, round, entered, score>>

\* The answer, at any time; or the failure, or nothing ever.
private_hint_callback(f) ==
  /\ f \in due
  /\ due' = due \ {f}
  /\ \/ hint' = [hint EXCEPT !.ready = TRUE,
                             !.bits = private_hint(encrypted_genome(f), round)]
     \/ UNCHANGED hint
  /\ UNCHANGED <<garden, round, asked, crossed, entered, score>>

submit_entry(f) ==
  /\ round.status = "OPEN"
  /\ entered = Nothing
  /\ entered' = f
  /\ UNCHANGED <<garden, round, hint, asked, crossed, due, score>>

close_round ==
  /\ round.status = "OPEN"
  /\ round' = [round EXCEPT !.status = "CLOSED"]
  /\ UNCHANGED <<garden, hint, asked, crossed, due, entered, score>>

score_entry_v2_callback ==
  /\ round.status = "CLOSED"
  /\ entered # Nothing /\ score = Unscored
  /\ score' = score_entry_v2(encrypted_genome(entered), round, garden[entered].generation)
  /\ UNCHANGED <<garden, round, hint, asked, crossed, due, entered>>

Next ==
  \/ \E f, g \in Flowers : \E env \in Dials, draws \in Draws : breed(f, g, env, draws)
  \/ \E entropy \in Entropies, weight \in Weights : open_round(entropy, weight)
  \/ \E f \in Flowers :
       queue_private_hint(f) \/ private_hint_callback(f) \/ submit_entry(f)
  \/ close_round
  \/ score_entry_v2_callback

Spec == Init /\ [][Next]_vars

-----------------------------------------------------------------------------
(***************************************************************************)
(* Properties.                                                             *)
(***************************************************************************)
Least(a, b) == IF a < b THEN a ELSE b
Most(a, b) == IF a < b THEN b ELSE a

\* A ready hint about the flower that was then entered explains its score, by
\* the formula the player is shown (each share floored by itself, 2 points a
\* generation above the first up to 30): whatever was asked, failed and
\* answered late before, if the last question was not asked while an answer
\* about another flower was due.
HintExplainsScore ==
  LET n == Cardinality(hint.bits)
      count == hint.target_trait_count
      bonus == Most(0, Least(2 * (garden[entered].generation - 1), 30)) IN
  score # Unscored /\ hint.ready /\ asked = entered /\ ~crossed =>
    score = (70 * n) \div count + (bonus * n) \div count

\* However long its lineage, a bred flower's tier is one of the five, its mask
\* shows four classes and nothing of the tier, and its genes are bytes.
OffspringWellFormed ==
  [][garden' # garden =>
       LET f == garden'[Len(garden')] IN
       /\ f.rarity \in 1..5
       /\ \A k \in 0..3 : shown(f.mask)[k] \in 0..4
       /\ \A gene \in DOMAIN f.genome : f.genome[gene] \in Byte]_vars

\* How many of the 256 rolls inherit the stronger gene.
stronger(ga, gb, bias) ==
  Cardinality({roll \in Byte : inherited(ga, gb, bias, roll) = Most(ga, gb)})

\* How many of the 256 gate draws make a mutant, whatever the magnitude.
mutants(soil, mag) ==
  Cardinality({gate \in Byte : mutation_affinity(soil, gate, mag) % 2 = 1})

\* Breeding is fair: which slot a parent is put in makes no difference to the
\* odds, a higher dial never lowers the stronger gene's, more soil makes more
\* mutants whatever else is drawn, and every tier can be rolled on any line.
BreedingFair ==
  [][garden' # garden =>
       \A f, g \in Flowers :
         LET a == parent_genome(garden[f]).color_gene
             b == parent_genome(garden[g]).color_gene
             offspring_tier(env, roll) ==
               tier(public_lift(garden[f].rarity, garden[g].rarity,
                                Most(garden[f].generation, garden[g].generation) + 1)
                      + env_lift(env), roll) IN
         f < g =>
         /\ \A e \in Dials : stronger(a, b, e.light) = stronger(b, a, e.light)
         /\ \A d, e \in Dials :
              /\ d.light <= e.light => stronger(a, b, d.light) <= stronger(a, b, e.light)
              /\ d.soil + 8 <= e.soil =>
                   \A draws \in Draws : mutants(d.soil, draws.other) < mutants(e.soil, draws.other)
         /\ \A e \in Dials, t \in 1..5 : \E roll \in Byte : offspring_tier(e, roll) = t]_vars
=============================================================================
