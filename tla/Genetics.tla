------------------------------ MODULE Genetics ------------------------------
(***************************************************************************)
(* The breed_v5 circuit (encrypted-ixs): what the offspring of two flowers *)
(* is, given the player's dials and the random bytes the MPC draws, and    *)
(* what breed_v5_callback makes of the revealed mask.  u8 arithmetic wraps *)
(* where the circuit's own comments argue that it does not.                *)
(*                                                                         *)
(* A breeding's random bytes are a record of four: the same two serve for  *)
(* the seven calls of pick, which are independent of each other in the     *)
(* code; class for the four visual classes; and other for the recessive,   *)
(* gate, magnitude and rarity draws.                                       *)
(***************************************************************************)
EXTENDS Integers, FiniteSets

Byte == 0..255
u8(x) == x % 256

Genome(color, petal, leaf, stem, aroma, climate, recessive, affinity, stability) ==
  [color_gene |-> color, petal_gene |-> petal, leaf_gene |-> leaf, stem_gene |-> stem,
   aroma_gene |-> aroma, climate_gene |-> climate, recessive_mask |-> recessive,
   mutation_affinity |-> affinity, stability |-> stability]

\* The genome of a starter flower, from its species.
starter(species) ==
  CASE species = 0 -> Genome(200, 130,  90, 100,  60, 170, 20, 50, 210)
    [] species = 1 -> Genome( 60, 200,  70,  80,  90, 120, 40, 90, 150)
    [] species = 2 -> Genome(150, 180, 110, 120, 220, 100, 30, 60, 180)
    [] species = 3 -> Genome(220, 210, 160, 150, 140, 200, 10, 70, 240)
    [] species = 4 -> Genome(120, 110, 140, 200,  80,  90, 60, 40, 200)
    [] species = 5 -> Genome( 90, 160, 100, 110, 200, 130, 50, 80, 170)
    [] OTHER       -> Genome(128, 128, 128, 128, 128, 128,  0, 64, 128)

\* mutant: the dial favours parent A, stronger or not, as breed did at first.
inherit_threshold_slot_a(ga, gb, bias) ==
  u8(IF ga >= gb THEN 160 + bias \div 4 ELSE 96 + bias \div 4)

\* Rolls below this inherit parent A's gene.
inherit_threshold(ga, gb, bias) ==
  u8(IF ga >= gb THEN 160 + bias \div 4 ELSE 96 - bias \div 4)

inherited(ga, gb, bias, roll) == IF roll < inherit_threshold(ga, gb, bias) THEN ga ELSE gb

pick(ga, gb, bias, draws) ==
  IF draws.mutate < 32 THEN u8((ga + gb) \div 2) ELSE inherited(ga, gb, bias, draws.pick)

\* mutant: the low bit is what the sum leaves, as in breed_v3.
mutation_affinity_v3(soil, gate, mag) == u8((mag + soil) \div 2)

mutation_affinity(soil, gate, mag) ==
  LET mutant_bit == IF gate < u8(4 + soil \div 8) THEN 1 ELSE 0 IN
  u8((u8((mag + soil) \div 2) \div 2) * 2 + mutant_bit)

child(a, b, env, draws) ==
  Genome(pick(a.color_gene, b.color_gene, env.light, draws),
         pick(a.petal_gene, b.petal_gene, 128, draws),
         pick(a.leaf_gene, b.leaf_gene, env.water, draws),
         pick(a.stem_gene, b.stem_gene, env.water, draws),
         pick(a.aroma_gene, b.aroma_gene, 128, draws),
         pick(a.climate_gene, b.climate_gene, env.light, draws),
         u8((a.recessive_mask + b.recessive_mask + 2 * draws.other) \div 4),
         mutation_affinity(env.soil, draws.other, draws.other),
         pick(a.stability, b.stability, env.soil, draws))

-----------------------------------------------------------------------------
(***************************************************************************)
(* The rarity tier and the revealed mask.                                  *)
(***************************************************************************)
public_lift(rarity_a, rarity_b, generation) ==
  u8((rarity_a + rarity_b) * 4 + (IF generation > 10 THEN 10 ELSE generation))

env_lift(env) == u8((env.light + env.water + env.soil) \div 3) \div 64

\* b_uncommon, b_rare, b_epic and b_legendary.
boundaries(lift) ==
  <<115 - lift, 192 - lift, 230 - lift \div 4, 251 - lift \div 8>>

tier(lift, roll) ==
  1 + Cardinality({k \in 1..4 : (roll + 256 - boundaries(lift)[k]) \div 256 = 1})

class(species_a, species_b, salt, roll) ==
  ((roll % 5) + ((((species_a + species_b) % 5) + salt) % 5)) % 5

\* mutant: the tier is packed one bit lower, into the leaf class.
packed_low(petal, color, leaf, stem, t) ==
  petal + color * 256 + leaf * 65536 + stem * 16777216 + t * 262144

packed(petal, color, leaf, stem, t) ==
  petal + color * 256 + leaf * 65536 + stem * 16777216 + t * 524288

\* 1 << RARITY_SHIFT.
RARITY_UNIT == 524288
unpacked_rarity(mask) == (mask \div RARITY_UNIT) % 8
stripped(mask) == mask - unpacked_rarity(mask) * RARITY_UNIT

HYBRID_VISUAL_SPECIES_ID == 255

\* The genome a parent brings: a starter's is known from its species.
parent_genome(f) == IF f.kind = "starter" THEN starter(f.species) ELSE f.genome

\* start_breeding's arguments, the circuit, and breed_v5_callback.
offspring(f, g, env, draws) ==
  LET generation == 1 + (IF f.generation >= g.generation THEN f.generation ELSE g.generation)
      arg == IF generation < 255 THEN generation ELSE 255
      lift == public_lift(f.rarity, g.rarity, arg) + env_lift(env)
      rolled(salt) == class(f.species, g.species, salt, draws.class)
      mask == packed(rolled(0), rolled(1), rolled(2), rolled(3), tier(lift, draws.other)) IN
  [kind |-> "hybrid", species |-> HYBRID_VISUAL_SPECIES_ID, generation |-> generation,
   genome |-> child(parent_genome(f), parent_genome(g), env, draws),
   rarity |-> unpacked_rarity(mask), mask |-> stripped(mask)]

\* The classes the frontend reads back, a byte each.
shown(mask) ==
  [k \in 0..3 |-> (mask \div (CASE k = 0 -> 1 [] k = 1 -> 256
                             [] k = 2 -> 65536 [] k = 3 -> 16777216)) % 256]
=============================================================================
