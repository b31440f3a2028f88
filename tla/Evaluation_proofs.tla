-------------------------- MODULE Evaluation_proofs --------------------------
(***************************************************************************)
(* Breeding and scoring for every garden, lineage, dial and random byte:   *)
(* OffspringSafe (a bred flower is well formed: its tier comes out of the  *)
(* packed mask and leaves nothing in it), BreedingIsFair (the odds do not  *)
(* depend on the parents' slots, rise with the dials and leave every tier  *)
(* within reach) and HintSafe (the hint a player was shown explains the    *)
(* score).                                                                 *)
(*                                                                         *)
(* HintExplainsScore speaks of the last moment only; what keeps it true is *)
(* Answered: a ready hint that no other question crossed is about the      *)
(* flower asked about, against the round's targets, whatever was lost.     *)
(***************************************************************************)
EXTENDS Evaluation, TLAPS, FiniteSetTheorems

-----------------------------------------------------------------------------
(***************************************************************************)
(* Arithmetic of the circuits.                                             *)
(***************************************************************************)
LEMMA CountTo == \A n \in Nat : IsFiniteSet(1..n) /\ Cardinality(1..n) = n
<1> SUFFICES ASSUME NEW n \in Nat PROVE IsFiniteSet(1..n) /\ Cardinality(1..n) = n
  OBVIOUS
<1>1. 1 \in Int /\ n \in Int
  OBVIOUS
<1>2. IsFiniteSet(1..n) /\ Cardinality(1..n) = IF 1 > n THEN 0 ELSE n - 1 + 1
  BY <1>1, FS_Interval, Zenon
<1> QED BY <1>2

LEMMA Wraps == \A x \in Int : u8(x) \in Byte
BY DEF u8, Byte

\* A gene of the child is a byte whatever its parents' and the dial.
LEMMA PickType ==
  ASSUME NEW ga \in Byte, NEW gb \in Byte, NEW bias \in Byte,
         NEW draws \in [pick : Byte, mutate : Byte, class : Byte, other : Byte]
  PROVE  pick(ga, gb, bias, draws) \in Byte
<1>1. inherited(ga, gb, bias, draws.pick) \in Byte
  BY DEF inherited
<1>2. u8((ga + gb) \div 2) \in Byte
  BY Wraps DEF Byte
<1> QED BY <1>1, <1>2 DEF pick

LEMMA AffinityType ==
  \A soil, gate, mag \in Byte : mutation_affinity(soil, gate, mag) \in Byte
<1> SUFFICES ASSUME NEW soil \in Byte, NEW gate \in Byte, NEW mag \in Byte
             PROVE  mutation_affinity(soil, gate, mag) \in Byte
  OBVIOUS
<1> DEFINE half == u8((mag + soil) \div 2)
           bit == IF gate < u8(4 + soil \div 8) THEN 1 ELSE 0
<1>1. half \in Int /\ bit \in Int
  BY DEF Byte, u8
<1>2. mutation_affinity(soil, gate, mag) = u8((half \div 2) * 2 + bit)
  BY DEF mutation_affinity
<1> HIDE DEF half, bit
<1>3. (half \div 2) * 2 + bit \in Int
  BY <1>1
<1> QED BY <1>2, <1>3, Wraps

LEMMA StarterType == \A species \in Byte : starter(species) \in GenomeType
BY DEF starter, Genome, GenomeType, Byte

LEMMA ParentType == \A f \in FlowerType : parent_genome(f) \in GenomeType
BY StarterType DEF parent_genome, FlowerType

LEMMA ChildType ==
  ASSUME NEW a \in GenomeType, NEW b \in GenomeType,
         NEW env \in [light : Byte, water : Byte, soil : Byte],
         NEW draws \in [pick : Byte, mutate : Byte, class : Byte, other : Byte]
  PROVE  child(a, b, env, draws) \in GenomeType
<1>1. 128 \in Byte
  BY DEF Byte
<1>2. /\ pick(a.color_gene, b.color_gene, env.light, draws) \in Byte
      /\ pick(a.petal_gene, b.petal_gene, 128, draws) \in Byte
      /\ pick(a.leaf_gene, b.leaf_gene, env.water, draws) \in Byte
      /\ pick(a.stem_gene, b.stem_gene, env.water, draws) \in Byte
      /\ pick(a.aroma_gene, b.aroma_gene, 128, draws) \in Byte
      /\ pick(a.climate_gene, b.climate_gene, env.light, draws) \in Byte
      /\ pick(a.stability, b.stability, env.soil, draws) \in Byte
  BY <1>1, PickType DEF GenomeType
<1>3. u8((a.recessive_mask + b.recessive_mask + 2 * draws.other) \div 4) \in Byte
  <2>1. a.recessive_mask \in Int /\ b.recessive_mask \in Int /\ draws.other \in Int
    <3>1. \A x \in Byte : x \in Int
      BY DEF Byte
    <3>2. a.recessive_mask \in Byte /\ b.recessive_mask \in Byte
      BY DEF GenomeType
    <3>3. draws.other \in Byte
      OBVIOUS
    <3> QED BY <3>1, <3>2, <3>3
  <2>2. \A x, y, z \in Int : (x + y + 2 * z) \div 4 \in Int
    BY SMT
  <2> QED BY <2>1, <2>2, Wraps
<1>4. mutation_affinity(env.soil, draws.other, draws.other) \in Byte
  BY AffinityType
<1> QED BY <1>2, <1>3, <1>4 DEF child, Genome, GenomeType

\* One tier per boundary passed: from 1 to 5.
LEMMA TierType == \A lift, roll \in Int : tier(lift, roll) \in 1..5
<1> SUFFICES ASSUME NEW lift \in Int, NEW roll \in Int PROVE tier(lift, roll) \in 1..5
  OBVIOUS
<1> DEFINE passed == {k \in 1..4 : (roll + 256 - boundaries(lift)[k]) \div 256 = 1}
<1>1. IsFiniteSet(1..4) /\ Cardinality(1..4) = 4
  BY CountTo, 4 \in Nat
<1>2. passed \subseteq 1..4
  OBVIOUS
<1> HIDE DEF passed
<1>3. Cardinality(passed) <= 4 /\ IsFiniteSet(passed)
  BY <1>1, <1>2, FS_Subset
<1>4. Cardinality(passed) \in Nat
  BY <1>3, FS_CardinalityType
<1>5. tier(lift, roll) = 1 + Cardinality(passed)
  BY DEF tier, passed
<1> QED BY <1>3, <1>4, <1>5

LEMMA ClassType ==
  \A species_a, species_b, salt, roll \in Int : class(species_a, species_b, salt, roll) \in 0..4
BY DEF class

\* Packing four classes and a tier and reading them back gives each of them,
\* and stripping the tier leaves the classes alone: no field reaches the next.
LEMMA Unpacks ==
  ASSUME NEW petal \in 0..4, NEW color \in 0..4, NEW leaf \in 0..4, NEW stem \in 0..4,
         NEW t \in 1..5
  PROVE  /\ unpacked_rarity(packed(petal, color, leaf, stem, t)) = t
         /\ stripped(packed(petal, color, leaf, stem, t)) \in Nat
         /\ \A k \in 0..3 : shown(stripped(packed(petal, color, leaf, stem, t)))[k] \in 0..4
<1> DEFINE mask == packed(petal, color, leaf, stem, t)
           plain == petal + color * 256 + leaf * 65536 + stem * 16777216
<1>1. mask \div 524288 = t + 32 * stem
  BY DEF packed
<1>2. unpacked_rarity(mask) = t
  BY <1>1 DEF unpacked_rarity, RARITY_UNIT
<1>3. stripped(mask) = plain /\ plain \in Nat
  BY <1>2 DEF stripped, packed, RARITY_UNIT
<1>4. /\ plain % 256 = petal /\ (plain \div 256) % 256 = color
      /\ (plain \div 65536) % 256 = leaf /\ (plain \div 16777216) % 256 = stem
  BY SMT
<1>5. plain \div 1 = plain
  BY <1>3
<1> HIDE DEF plain, mask
<1>6. ASSUME NEW k \in 0..3 PROVE shown(plain)[k] \in 0..4
  BY <1>4, <1>5, <1>6 DEF shown
<1> QED BY <1>2, <1>3, <1>6 DEF mask

\* A bred flower: bytes for genes, a tier of the five, four visual classes.
LEMMA Offspring ==
  ASSUME NEW f \in FlowerType, NEW g \in FlowerType,
         NEW env \in Dials, NEW draws \in Draws
  PROVE  LET o == offspring(f, g, env, draws) IN
         /\ o \in FlowerType
         /\ o.rarity \in 1..5
         /\ \A k \in 0..3 : shown(o.mask)[k] \in 0..4
<1> DEFINE generation == 1 + (IF f.generation >= g.generation THEN f.generation ELSE g.generation)
           arg == IF generation < 255 THEN generation ELSE 255
           lift == public_lift(f.rarity, g.rarity, arg) + env_lift(env)
           rolled(salt) == class(f.species, g.species, salt, draws.class)
           t == tier(lift, draws.other)
           mask == packed(rolled(0), rolled(1), rolled(2), rolled(3), t)
           genome == child(parent_genome(f), parent_genome(g), env, draws)
<1>1. /\ env \in [light : Byte, water : Byte, soil : Byte]
      /\ draws \in [pick : Byte, mutate : Byte, class : Byte, other : Byte]
  BY DialsAssumption, DrawsAssumption
<1>2. genome \in GenomeType
  BY <1>1, ParentType, ChildType
<1>3. generation \in Nat /\ arg \in Nat
  BY DEF FlowerType
<1>4. lift \in Int
  <2>1. public_lift(f.rarity, g.rarity, arg) \in Int
    <3> HIDE DEF arg
    <3>1. f.rarity \in Int /\ g.rarity \in Int
      BY DEF FlowerType, Byte
    <3>2. (f.rarity + g.rarity) * 4 + (IF arg > 10 THEN 10 ELSE arg) \in Int
      BY <1>3, <3>1
    <3> QED BY <3>2, Wraps DEF public_lift, Byte
  <2>2. env_lift(env) \in Int
    <3>1. env.light \in Int /\ env.water \in Int /\ env.soil \in Int
      BY <1>1 DEF Byte
    <3>2. \A x, y, z \in Int : (x + y + z) \div 3 \in Int /\ x \div 64 \in Int
      BY SMT
    <3>3. u8((env.light + env.water + env.soil) \div 3) \in Int
      BY <3>1, <3>2, Wraps DEF Byte
    <3> QED BY <3>2, <3>3 DEF env_lift
  <2> QED BY <2>1, <2>2
<1>5. t \in 1..5
  <2>1. draws.other \in Int
    BY <1>1 DEF Byte
  <2> HIDE DEF lift
  <2> QED BY <1>4, <2>1, TierType
<1>6. rolled(0) \in 0..4 /\ rolled(1) \in 0..4 /\ rolled(2) \in 0..4 /\ rolled(3) \in 0..4
  <2>1. f.species \in Int /\ g.species \in Int /\ draws.class \in Int
    BY <1>1 DEF FlowerType, Byte
  <2> QED BY <2>1, ClassType
<1>7. /\ unpacked_rarity(mask) = t /\ stripped(mask) \in Nat
      /\ \A k \in 0..3 : shown(stripped(mask))[k] \in 0..4
  <2> DEFINE p == rolled(0)
             c == rolled(1)
             l == rolled(2)
             s == rolled(3)
  <2>1. mask = packed(p, c, l, s, t)
    OBVIOUS
  <2>2. p \in 0..4 /\ c \in 0..4 /\ l \in 0..4 /\ s \in 0..4
    BY <1>6
  <2> HIDE DEF t, p, c, l, s, mask
  <2>3. /\ unpacked_rarity(packed(p, c, l, s, t)) = t
        /\ stripped(packed(p, c, l, s, t)) \in Nat
        /\ \A k \in 0..3 : shown(stripped(packed(p, c, l, s, t)))[k] \in 0..4
    BY <1>5, <2>2, Unpacks
  <2> QED BY <2>1, <2>3
<1>8. offspring(f, g, env, draws) =
        [kind |-> "hybrid", species |-> HYBRID_VISUAL_SPECIES_ID, generation |-> generation,
         genome |-> genome, rarity |-> unpacked_rarity(mask), mask |-> stripped(mask)]
  BY DEF offspring
<1>9. HYBRID_VISUAL_SPECIES_ID \in Byte /\ t \in 0..5
  BY <1>5 DEF HYBRID_VISUAL_SPECIES_ID, Byte
<1> HIDE DEF generation, genome, mask, t
<1> QED BY <1>2, <1>3, <1>5, <1>7, <1>8, <1>9 DEF FlowerType

-----------------------------------------------------------------------------
(***************************************************************************)
(* The garden.                                                             *)
(***************************************************************************)
GardenTyped == garden \in Seq(FlowerType)

LEMMA GardenInv == Spec => []GardenTyped
<1>1. Init => GardenTyped
  BY GardensAssumption DEF Init, GardenTyped
<1>2. GardenTyped /\ [Next]_vars => GardenTyped'
  <2> SUFFICES ASSUME GardenTyped, [Next]_vars PROVE GardenTyped'
    OBVIOUS
  <2>1. ASSUME NEW f \in Flowers, NEW g \in Flowers, NEW env \in Dials, NEW draws \in Draws,
               breed(f, g, env, draws)
        PROVE  GardenTyped'
    <3>1. garden[f] \in FlowerType /\ garden[g] \in FlowerType
      BY DEF GardenTyped, Flowers
    <3>2. offspring(garden[f], garden[g], env, draws) \in FlowerType
      BY <3>1, Offspring
    <3>3. garden' = Append(garden, offspring(garden[f], garden[g], env, draws))
      BY <2>1 DEF breed
    <3> QED BY <3>2, <3>3 DEF GardenTyped
  <2>2. CASE UNCHANGED garden
    BY <2>2 DEF GardenTyped
  <2> QED BY <2>1, <2>2 DEF Next, vars, open_round, queue_private_hint, private_hint_callback,
                           submit_entry, close_round, score_entry_v2_callback
<1> QED BY <1>1, <1>2, PTL DEF Spec

\* Every flower ever bred is well formed, over any number of generations of
\* any lineage (breed_v5, breed_v5_callback).
THEOREM OffspringSafe == Spec => OffspringWellFormed
<1> DEFINE WellFormed(f) ==
             /\ f.rarity \in 1..5
             /\ \A k \in 0..3 : shown(f.mask)[k] \in 0..4
             /\ \A gene \in DOMAIN f.genome : f.genome[gene] \in Byte
<1>1. GardenTyped /\ [Next]_vars => [garden' # garden => WellFormed(garden'[Len(garden')])]_vars
  <2> SUFFICES ASSUME GardenTyped, [Next]_vars, garden' # garden
               PROVE  WellFormed(garden'[Len(garden')])
    OBVIOUS
  <2>1. PICK f \in Flowers, g \in Flowers, env \in Dials, draws \in Draws :
          breed(f, g, env, draws)
    BY DEF Next, vars, open_round, queue_private_hint, private_hint_callback,
           submit_entry, close_round, score_entry_v2_callback
  <2> DEFINE o == offspring(garden[f], garden[g], env, draws)
  <2>2. garden[f] \in FlowerType /\ garden[g] \in FlowerType
    BY DEF GardenTyped, Flowers
  <2>3. /\ o \in FlowerType /\ o.rarity \in 1..5
        /\ \A k \in 0..3 : shown(o.mask)[k] \in 0..4
    BY <2>2, Offspring
  <2>4. garden' = Append(garden, o)
    BY <2>1 DEF breed
  <2> HIDE DEF o
  <2>5. garden'[Len(garden')] = o
    BY <2>3, <2>4 DEF GardenTyped
  <2>6. \A gene \in DOMAIN o.genome : o.genome[gene] \in Byte
    BY <2>3 DEF FlowerType, GenomeType
  <2> QED BY <2>3, <2>5, <2>6
<1> QED BY <1>1, GardenInv, PTL DEF Spec, OffspringWellFormed

-----------------------------------------------------------------------------
(***************************************************************************)
(* The odds.                                                               *)
(***************************************************************************)
LEMMA CountBetween ==
  \A m, n \in Nat : m <= n + 1 => Cardinality(m..n) = n + 1 - m
<1> SUFFICES ASSUME NEW m \in Nat, NEW n \in Nat, m <= n + 1
             PROVE  Cardinality(m..n) = n + 1 - m
  OBVIOUS
<1>1. m \in Int /\ n \in Int
  OBVIOUS
<1>2. Cardinality(m..n) = IF m > n THEN 0 ELSE n - m + 1
  BY <1>1, FS_Interval, Zenon
<1> QED BY <1>2

\* The stronger of two genes has 160 rolls of the 256 and up to 63 more by the
\* dial, whichever parent brings it.
LEMMA StrongerOdds ==
  ASSUME NEW ga \in Byte, NEW gb \in Byte, NEW bias \in Byte
  PROVE  stronger(ga, gb, bias) = IF ga = gb THEN 256 ELSE 160 + bias \div 4
<1> DEFINE T == inherit_threshold(ga, gb, bias)
           S == {roll \in Byte : inherited(ga, gb, bias, roll) = Most(ga, gb)}
<1>0. stronger(ga, gb, bias) = Cardinality(S)
  BY DEF stronger
<1>1. ga \in 0..255 /\ gb \in 0..255 /\ bias \in 0..255 /\ bias \div 4 \in 0..63
  BY DEF Byte
<1>2. T = IF ga >= gb THEN 160 + bias \div 4 ELSE 96 - bias \div 4
  BY <1>1 DEF inherit_threshold, u8
<1>3. CASE ga = gb
  <2>1. \A roll \in Byte : inherited(ga, gb, bias, roll) = Most(ga, gb)
    BY <1>3 DEF inherited, Most
  <2>2. S = 0..255
    BY <2>1 DEF Byte
  <2>3. Cardinality(0..255) = 256
    <3>1. 0 \in Nat /\ 255 \in Nat /\ 0 <= 255 + 1 /\ 255 + 1 - 0 = 256
      OBVIOUS
    <3> QED BY <3>1, CountBetween, Zenon
  <2> HIDE DEF S
  <2> QED BY <1>0, <1>3, <2>2, <2>3
<1>4. CASE ga > gb
  <2>1. S = 0..(159 + bias \div 4)
    <3>1. Most(ga, gb) = ga /\ T = 160 + bias \div 4 /\ ga # gb
      BY <1>1, <1>2, <1>4 DEF Most
    <3>2. \A roll \in Byte : inherited(ga, gb, bias, roll) = ga <=> roll < T
      BY <3>1 DEF inherited
    <3> HIDE DEF T
    <3>3. S = {roll \in 0..255 : roll < T}
      BY <3>1, <3>2 DEF Byte
    <3> QED BY <1>1, <3>1, <3>3
  <2>2. Cardinality(0..(159 + bias \div 4)) = 160 + bias \div 4
    BY <1>1, CountBetween
  <2>3. ga # gb
    BY <1>1, <1>4
  <2> HIDE DEF S
  <2> QED BY <1>0, <2>1, <2>2, <2>3
<1>5. CASE ga < gb
  <2>1. S = (96 - bias \div 4)..255
    <3>1. Most(ga, gb) = gb /\ T = 96 - bias \div 4 /\ ga # gb
      BY <1>1, <1>2, <1>5 DEF Most
    <3>2. \A roll \in Byte : inherited(ga, gb, bias, roll) = gb <=> ~(roll < T)
      BY <3>1 DEF inherited
    <3> HIDE DEF T
    <3>3. S = {roll \in 0..255 : ~(roll < T)}
      BY <3>1, <3>2 DEF Byte
    <3> QED BY <1>1, <3>1, <3>3
  <2>2. Cardinality((96 - bias \div 4)..255) = 160 + bias \div 4
    <3> DEFINE m == 96 - bias \div 4
    <3>1. m \in Nat /\ m <= 256 /\ 256 - m = 160 + bias \div 4
      BY <1>1
    <3> HIDE DEF m
    <3>2. Cardinality(m..255) = 256 - m
      BY <3>1, CountBetween
    <3> QED BY <3>1, <3>2 DEF m
  <2>3. ga # gb
    BY <1>1, <1>5
  <2> HIDE DEF S
  <2> QED BY <1>0, <2>1, <2>2, <2>3
<1> QED BY <1>1, <1>3, <1>4, <1>5

\* The low bit of the affinity is the gate's, whatever the magnitude: 4 draws
\* of the 256 make a mutant on bare soil, 35 on the best.
LEMMA MutantOdds ==
  ASSUME NEW soil \in Byte, NEW mag \in Byte
  PROVE  mutants(soil, mag) = 4 + soil \div 8
<1> DEFINE half == u8((mag + soil) \div 2)
           gates == 4 + soil \div 8
<1>1. soil \in 0..255 /\ mag \in 0..255 /\ gates \in 4..35
  BY DEF Byte
<1>2. half \in Int /\ u8(gates) = gates
  BY <1>1 DEF u8
<1> HIDE DEF half
<1>3. ASSUME NEW gate \in Byte
      PROVE  mutation_affinity(soil, gate, mag) % 2 = 1 <=> gate < gates
  <2> DEFINE bit == IF gate < gates THEN 1 ELSE 0
  <2>1. mutation_affinity(soil, gate, mag) = u8((half \div 2) * 2 + bit)
    BY <1>2 DEF mutation_affinity, half
  <2>2. bit \in {0, 1} /\ (bit = 1 <=> gate < gates)
    OBVIOUS
  <2> HIDE DEF bit
  <2>3. \A q \in Int : \A b \in {0, 1} : ((q * 2 + b) % 256) % 2 = b
    BY SMT
  <2>4. half \div 2 \in Int
    BY <1>2
  <2>5. u8((half \div 2) * 2 + bit) % 2 = bit
    BY <2>2, <2>3, <2>4 DEF u8
  <2> QED BY <2>1, <2>2, <2>5
<1> HIDE DEF gates
<1>4. {gate \in Byte : mutation_affinity(soil, gate, mag) % 2 = 1} = 0..(gates - 1)
  BY <1>1, <1>3 DEF Byte
<1>5. Cardinality(0..(gates - 1)) = gates
  BY <1>1, CountBetween
<1> QED BY <1>4, <1>5 DEF mutants, gates

\* The boundaries of a lift that can occur are apart and among the rolls, so
\* each tier has a roll: that of the boundary below it.
LEMMA EveryTier ==
  ASSUME NEW lift \in 0..53, NEW t \in 1..5
  PROVE  \E roll \in Byte : tier(lift, roll) = t
<1> DEFINE b == boundaries(lift)
           roll == IF t = 1 THEN 0 ELSE b[t - 1]
           passed == {k \in 1..4 : (roll + 256 - b[k]) \div 256 = 1}
<1>1. /\ b[1] = 115 - lift /\ b[2] = 192 - lift
      /\ b[3] = 230 - lift \div 4 /\ b[4] = 251 - lift \div 8
  BY DEF boundaries
<1>2. /\ lift \div 4 \in 0..13 /\ lift \div 8 \in 0..6
      /\ b[1] \in 62..115 /\ b[2] \in 139..192 /\ b[3] \in 217..230 /\ b[4] \in 245..251
  BY <1>1
<1> HIDE DEF b
<1>3. roll \in 0..255
  BY <1>2
<1>4. ASSUME NEW k \in 1..4 PROVE roll >= b[k] <=> k < t
  <2>1. k = 1 \/ k = 2 \/ k = 3 \/ k = 4
    OBVIOUS
  <2>2. t = 1 \/ t = 2 \/ t = 3 \/ t = 4 \/ t = 5
    OBVIOUS
  <2> QED BY <1>2, <2>1, <2>2, SMTT(30)
<1>5. \A k \in 1..4 : b[k] \in 1..255
  BY <1>2
<1> HIDE DEF roll
<1>6. \A x, y \in 0..255 : (x + 256 - y) \div 256 = 1 <=> x >= y
  BY SMT
<1>7. passed = 1..(t - 1)
  <2>1. \A k \in 1..4 : roll \in 0..255 /\ b[k] \in 0..255
    BY <1>3, <1>5
  <2>2. ASSUME NEW k \in 1..4 PROVE (roll + 256 - b[k]) \div 256 = 1 <=> k < t
    <3>1. (roll + 256 - b[k]) \div 256 = 1 <=> roll >= b[k]
      <4>. DEFINE x == roll
                  y == b[k]
      <4>1. x \in 0..255 /\ y \in 0..255
        BY <2>1
      <4>. HIDE DEF x, y
      <4>2. (x + 256 - y) \div 256 = 1 <=> x >= y
        BY <1>6, <4>1
      <4>. QED BY <4>2 DEF x, y
    <3> QED BY <1>4, <3>1
  <2>3. passed = {k \in 1..4 : k < t}
    BY <2>2
  <2> HIDE DEF passed
  <2> QED BY <2>3
<1>8. Cardinality(1..(t - 1)) = t - 1
  BY CountTo
<1>9. tier(lift, roll) = 1 + Cardinality(passed)
  BY DEF tier, b
<1> HIDE DEF passed
<1>10. tier(lift, roll) = t
  BY <1>7, <1>8, <1>9
<1> QED BY <1>3, <1>10 DEF Byte

\* Two flowers and the dials lift the boundaries by no more than 53.
LEMMA LiftRange ==
  ASSUME NEW ra \in 0..5, NEW rb \in 0..5, NEW generation \in Nat,
         NEW env \in [light : Byte, water : Byte, soil : Byte]
  PROVE  public_lift(ra, rb, generation) + env_lift(env) \in 0..53
<1>1. public_lift(ra, rb, generation) \in 0..50
  BY DEF public_lift, u8
<1>2. env_lift(env) \in 0..3
  <2>1. u8((env.light + env.water + env.soil) \div 3) \in 0..255
    <3>1. env.light \in Int /\ env.water \in Int /\ env.soil \in Int
      BY DEF Byte
    <3>2. \A x, y, z \in Int : (x + y + z) \div 3 \in Int
      BY SMT
    <3> QED BY <3>1, <3>2, Wraps DEF Byte
  <2>2. \A x \in 0..255 : x \div 64 \in 0..3
    BY SMT
  <2> QED BY <2>1, <2>2 DEF env_lift
<1> QED BY <1>1, <1>2

\* Whatever the two parents, the dials and the lineage, the odds of breed_v5
\* do not depend on the parents' slots, rise with the dials, and leave every
\* tier within reach (inherit_threshold, mutation_affinity, the tier roll).
THEOREM BreedingIsFair == Spec => BreedingFair
<1> DEFINE
      Fair(f, g) ==
        LET a == parent_genome(garden[f]).color_gene
            b == parent_genome(garden[g]).color_gene
            offspring_tier(env, roll) ==
              tier(public_lift(garden[f].rarity, garden[g].rarity,
                               Most(garden[f].generation, garden[g].generation) + 1)
                     + env_lift(env), roll) IN
        /\ \A e \in Dials : stronger(a, b, e.light) = stronger(b, a, e.light)
        /\ \A d, e \in Dials :
             /\ d.light <= e.light => stronger(a, b, d.light) <= stronger(a, b, e.light)
             /\ d.soil + 8 <= e.soil =>
                  \A draws \in Draws : mutants(d.soil, draws.other) < mutants(e.soil, draws.other)
        /\ \A e \in Dials, t \in 1..5 : \E roll \in Byte : offspring_tier(e, roll) = t
<1>1. ASSUME GardenTyped, NEW f \in Flowers, NEW g \in Flowers PROVE Fair(f, g)
  <2> DEFINE a == parent_genome(garden[f]).color_gene
             b == parent_genome(garden[g]).color_gene
             generation == Most(garden[f].generation, garden[g].generation) + 1
  <2>1. garden[f] \in FlowerType /\ garden[g] \in FlowerType
    BY <1>1 DEF GardenTyped, Flowers
  <2>2. a \in Byte /\ b \in Byte
    BY <2>1, ParentType DEF GenomeType
  <2>3. /\ garden[f].rarity \in 0..5 /\ garden[g].rarity \in 0..5
        /\ generation \in Nat
    BY <2>1 DEF FlowerType, Most
  <2>4. \A e \in Dials : e.light \in Byte /\ e.soil \in Byte
    BY DialsAssumption
  <2> HIDE DEF a, b, generation
  <2>5. ASSUME NEW e \in Dials PROVE stronger(a, b, e.light) = stronger(b, a, e.light)
    BY <2>2, <2>4, StrongerOdds
  <2>6. ASSUME NEW d \in Dials, NEW e \in Dials, d.light <= e.light
        PROVE  stronger(a, b, d.light) <= stronger(a, b, e.light)
    <3>1. \A x, y \in Byte : x <= y => 160 + x \div 4 <= 160 + y \div 4
      BY DEF Byte
    <3>2. CASE a = b
      BY <2>2, <2>4, <3>2, StrongerOdds
    <3>3. CASE a # b
      <4>1. /\ stronger(a, b, d.light) = 160 + d.light \div 4
            /\ stronger(a, b, e.light) = 160 + e.light \div 4
        BY <2>2, <2>4, <3>3, StrongerOdds
      <4> QED BY <2>4, <2>6, <3>1, <4>1
    <3> QED BY <3>2, <3>3
  <2>7. ASSUME NEW d \in Dials, NEW e \in Dials, d.soil + 8 <= e.soil, NEW draws \in Draws
        PROVE  mutants(d.soil, draws.other) < mutants(e.soil, draws.other)
    <3>1. draws.other \in Byte
      BY DrawsAssumption
    <3>2. \A x, y \in Byte : x + 8 <= y => 4 + x \div 8 < 4 + y \div 8
      BY DEF Byte
    <3>3. /\ mutants(d.soil, draws.other) = 4 + d.soil \div 8
          /\ mutants(e.soil, draws.other) = 4 + e.soil \div 8
      BY <2>4, <3>1, MutantOdds
    <3> QED BY <2>4, <2>7, <3>2, <3>3
  <2>8. ASSUME NEW e \in Dials, NEW t \in 1..5
        PROVE  \E roll \in Byte :
                 tier(public_lift(garden[f].rarity, garden[g].rarity, generation)
                        + env_lift(e), roll) = t
    <3>1. e \in [light : Byte, water : Byte, soil : Byte]
      BY DialsAssumption
    <3>2. public_lift(garden[f].rarity, garden[g].rarity, generation) + env_lift(e) \in 0..53
      BY <2>3, <3>1, LiftRange
    <3> QED BY <3>2, EveryTier
  <2> QED BY <2>5, <2>6, <2>7, <2>8 DEF a, b, generation
<1> HIDE DEF Fair
<1>2. GardenTyped =>
        [garden' # garden => \A f, g \in Flowers : f < g => Fair(f, g)]_vars
  BY <1>1
<1> USE DEF Fair
<1> QED BY <1>2, GardenInv, PTL DEF BreedingFair

-----------------------------------------------------------------------------
(***************************************************************************)
(* The hint and the score.                                                 *)
(***************************************************************************)
\* What the account of the last question says of the flower asked about.
Answered ==
  /\ asked = Nothing => due = {}
  /\ asked # Nothing =>
       /\ round.status # "NONE" /\ round.target_trait_count \in 2..4
       /\ hint.target_trait_count = round.target_trait_count
  /\ asked # Nothing /\ ~crossed =>
       /\ due \subseteq {asked}
       /\ hint.ready => hint.bits = matched(encrypted_genome(asked), round)

Scored ==
  score # Unscored =>
    /\ round.status = "CLOSED" /\ entered \in Flowers
    /\ score = score_entry_v2(encrypted_genome(entered), round, garden[entered].generation)

\* The accounts are records with the fields the actions set.
Shapes ==
  /\ round \in [status : {"NONE", "OPEN", "CLOSED"}, target_traits : {round.target_traits},
                target_trait_count : 0..4]
  /\ round.status # "NONE" => round.target_trait_count \in 2..4
  /\ hint \in [ready : BOOLEAN, bits : {hint.bits}, target_trait_count : 0..4]
  /\ Nothing \notin Flowers
  /\ entered \in Flowers \cup {Nothing}

HintInv == Shapes /\ Answered /\ Scored

\* How many targets a round has: two, three or four.
LEMMA TargetCount ==
  ASSUME NEW entropy \in Entropies
  PROVE  target_trait_count(entropy) \in 2..4
<1>1. entropy[0] \in Int
  BY EntropiesAssumption DEF Byte
<1> QED BY <1>1 DEF target_trait_count

\* Only active slots match.
LEMMA MatchedCount ==
  ASSUME NEW g, NEW r, r.target_trait_count \in 2..4
  PROVE  Cardinality(matched(g, r)) \in 0..r.target_trait_count
<1> DEFINE count == r.target_trait_count
<1>1. /\ count \in Nat /\ IsFiniteSet(1..count) /\ Cardinality(1..count) = count
  BY CountTo
<1>2. matched(g, r) \subseteq 1..count
  BY DEF matched
<1> HIDE DEF count
<1>3. IsFiniteSet(matched(g, r)) /\ Cardinality(matched(g, r)) <= count
  BY <1>1, <1>2, FS_Subset
<1>4. Cardinality(matched(g, r)) \in Nat
  BY <1>3, FS_CardinalityType
<1> QED BY <1>1, <1>3, <1>4 DEF count

\* The bonus of the circuit, with its two comparisons, is 2 points for each
\* generation above the first, no fewer than none and no more than 30.
LEMMA Bonus ==
  \A generation \in Nat :
    /\ gen_bonus_raw(generation) = Most(0, Least(2 * (generation - 1), 30))
    /\ gen_bonus_raw(generation) \in 0..30
BY DEF gen_bonus_raw, Most, Least

\* A share of at most the whole is at most the points shared.
LEMMA ShareBound ==
  ASSUME NEW count \in 2..4, NEW n \in 0..count, NEW points \in Nat
  PROVE  (n * points) \div count \in 0..points
<1>1. n * points <= count * points /\ n * points \in Nat
  <2>1. \A a, b, c \in Nat : a <= b => a * c <= b * c /\ a * c \in Nat
    BY SMT
  <2> QED BY <2>1
<1>2. \A x, p \in Nat : /\ (x <= 2 * p => x \div 2 \in 0..p)
                       /\ (x <= 3 * p => x \div 3 \in 0..p)
                       /\ (x <= 4 * p => x \div 4 \in 0..p)
  BY SMT
<1> DEFINE x == n * points
<1> HIDE DEF x
<1>3. CASE count = 2
  BY <1>1, <1>2, <1>3 DEF x
<1>4. CASE count = 3
  BY <1>1, <1>2, <1>4 DEF x
<1>5. CASE count = 4
  BY <1>1, <1>2, <1>5 DEF x
<1> QED BY <1>3, <1>4, <1>5

\* The circuit's score is the player's formula, which never exceeds 100.
LEMMA ScoreFormula ==
  ASSUME NEW g, NEW r, r.target_trait_count \in 2..4, NEW generation \in Nat
  PROVE  LET n == Cardinality(matched(g, r))
             count == r.target_trait_count
             bonus == Most(0, Least(2 * (generation - 1), 30)) IN
         score_entry_v2(g, r, generation) = (70 * n) \div count + (bonus * n) \div count
<1> DEFINE n == Cardinality(matched(g, r))
           count == r.target_trait_count
           bonus == gen_bonus_raw(generation)
<1>1. n \in 0..count /\ count \in 2..4 /\ bonus \in 0..30
  BY MatchedCount, Bonus
<1>2. bonus = Most(0, Least(2 * (generation - 1), 30))
  BY Bonus
<1>3. score_entry_v2(g, r, generation) =
        IF (n * 70) \div count + (n * bonus) \div count > 100 THEN 100
        ELSE (n * 70) \div count + (n * bonus) \div count
  BY DEF score_entry_v2
<1> HIDE DEF n, count, bonus
<1>4. (n * 70) \div count \in 0..70 /\ (n * bonus) \div count \in 0..bonus
  BY <1>1, ShareBound
<1>5. n * 70 = 70 * n /\ n * bonus = bonus * n
  BY <1>1
<1>6. score_entry_v2(g, r, generation) = (70 * n) \div count + (bonus * n) \div count
  BY <1>1, <1>3, <1>4, <1>5
<1> QED BY <1>2, <1>6 DEF n, count

\* Neither depends on anything else.
LEMMA AnsweredKept ==
  ASSUME Answered, UNCHANGED <<garden, round, hint, asked, crossed, due>>
  PROVE  Answered'
<1>1. matched(encrypted_genome(asked), round)' = matched(encrypted_genome(asked), round)
  BY DEF matched, encrypted_genome
<1> QED BY <1>1 DEF Answered

LEMMA ScoredKept ==
  ASSUME Scored, UNCHANGED <<garden, round, entered, score>>
  PROVE  Scored'
<1>1. score_entry_v2(encrypted_genome(entered), round, garden[entered].generation)'
        = score_entry_v2(encrypted_genome(entered), round, garden[entered].generation)
  BY DEF score_entry_v2, matched, encrypted_genome
<1> QED BY <1>1 DEF Scored, Flowers

\* The accounts stay answered and scored through every step.
LEMMA HintInvariant == Spec => []HintInv
<1>1. Init => HintInv
  <2> SUFFICES ASSUME Init PROVE HintInv
    OBVIOUS
  <2>1. Shapes
    BY DEF Init, Shapes, Flowers, Nothing
  <2> QED BY <2>1 DEF Init, HintInv, Answered, Scored
<1>2. GardenTyped /\ HintInv /\ [Next]_vars => HintInv'
  <2> SUFFICES ASSUME GardenTyped, HintInv, [Next]_vars PROVE HintInv'
    OBVIOUS
  <2>0. Shapes /\ Answered /\ Scored
    BY DEF HintInv
  <2>1. ASSUME NEW f \in Flowers, NEW g \in Flowers, NEW env \in Dials, NEW draws \in Draws,
               breed(f, g, env, draws)
        PROVE  HintInv'
    <3>1. /\ round.status = "NONE"
          /\ UNCHANGED <<round, hint, asked, crossed, due, entered, score>>
      BY <2>1 DEF breed
    <3>2. asked = Nothing /\ score = Unscored
      BY <2>0, <3>1 DEF Answered, Scored
    <3>3. Flowers \subseteq Flowers' /\ Nothing \notin Flowers'
      <4>1. garden[f] \in FlowerType /\ garden[g] \in FlowerType
        BY DEF GardenTyped, Flowers
      <4>2. offspring(garden[f], garden[g], env, draws) \in FlowerType
        BY <4>1, Offspring
      <4>3. garden' = Append(garden, offspring(garden[f], garden[g], env, draws))
        BY <2>1 DEF breed
      <4>4. Len(garden') = Len(garden) + 1 /\ Len(garden) \in Nat
        BY <4>2, <4>3 DEF GardenTyped
      <4> QED BY <4>4 DEF Flowers, Nothing
    <3> QED BY <2>0, <3>1, <3>2, <3>3 DEF HintInv, Shapes, Answered, Scored
  <2>2. ASSUME NEW entropy \in Entropies, NEW weight \in Weights, open_round(entropy, weight)
        PROVE  HintInv'
    <3>1. /\ round.status = "NONE"
          /\ round' = [status |-> "OPEN", target_traits |-> target_traits(entropy, weight),
                       target_trait_count |-> target_trait_count(entropy)]
          /\ UNCHANGED <<garden, hint, asked, crossed, due, entered, score>>
      BY <2>2 DEF open_round
    <3>2. asked = Nothing /\ score = Unscored
      BY <2>0, <3>1 DEF Answered, Scored
    <3>3. target_trait_count(entropy) \in 2..4
      BY TargetCount
    <3>4. Shapes'
      <4> DEFINE tt == target_traits(entropy, weight)
                 tc == target_trait_count(entropy)
      <4> HIDE DEF tt, tc
      <4>1. round' = [status |-> "OPEN", target_traits |-> tt, target_trait_count |-> tc]
            /\ tc \in 2..4
        BY <3>1, <3>3 DEF tt, tc
      <4>2. Flowers' = Flowers
        BY <3>1 DEF Flowers
      <4> QED BY <2>0, <3>1, <4>1, <4>2 DEF Shapes
    <3> QED BY <2>0, <3>1, <3>2, <3>4 DEF HintInv, Answered, Scored
  <2>3. ASSUME NEW f \in Flowers, queue_private_hint(f) PROVE HintInv'
    <3>1. /\ hint' = [hint EXCEPT !.target_trait_count = round.target_trait_count,
                                  !.ready = FALSE]
          /\ asked' = f /\ crossed' = (due \ {f} # {}) /\ due' = due \cup {f}
          /\ round.status = "OPEN"
          /\ UNCHANGED <<garden, round, entered, score>>
      BY <2>3 DEF queue_private_hint, reset_hint
    <3>2. /\ hint'.ready = FALSE /\ hint'.target_trait_count = round.target_trait_count
          /\ Shapes' /\ round.target_trait_count \in 2..4
      BY <2>0, <3>1 DEF Shapes, Flowers
    <3>3. Answered'
      BY <2>0, <3>1, <3>2 DEF Answered, Shapes
    <3>4. score' = Unscored
      BY <2>0, <3>1 DEF Scored
    <3> QED BY <3>2, <3>3, <3>4 DEF HintInv, Scored
  <2>4. ASSUME NEW f \in Flowers, private_hint_callback(f) PROVE HintInv'
    <3>1. /\ f \in due /\ due' = due \ {f}
          /\ UNCHANGED <<garden, round, asked, crossed, entered, score>>
          /\ \/ hint' = [hint EXCEPT !.ready = TRUE,
                                     !.bits = matched(encrypted_genome(f), round)]
             \/ hint' = hint
      BY <2>4 DEF private_hint_callback, private_hint
    <3>2. encrypted_genome(f)' = encrypted_genome(f)
          /\ encrypted_genome(asked)' = encrypted_genome(asked)
      BY <3>1 DEF encrypted_genome
    <3>3. matched(encrypted_genome(asked), round)' = matched(encrypted_genome(asked), round)
      BY <3>1, <3>2 DEF matched
    <3>4. Shapes'
      <4> DEFINE bits == matched(encrypted_genome(f), round)
      <4> HIDE DEF bits
      <4>1. hint' = [hint EXCEPT !.ready = TRUE, !.bits = bits] \/ hint' = hint
        BY <3>1 DEF bits
      <4> QED BY <2>0, <3>1, <4>1 DEF Shapes, Flowers
    <3>5. hint'.target_trait_count = hint.target_trait_count
      BY <2>0, <3>1 DEF Shapes
    <3>6. hint'.bits = matched(encrypted_genome(f), round) \/ hint' = hint
      BY <2>0, <3>1 DEF Shapes
    <3>7. Answered'
      <4>1. asked # Nothing
        BY <2>0, <3>1 DEF Answered
      <4>2. ~crossed => f = asked
        BY <2>0, <3>1, <4>1 DEF Answered
      <4> QED BY <2>0, <3>1, <3>3, <3>5, <3>6, <4>1, <4>2 DEF Answered
    <3>8. Scored'
      BY <2>0, <3>1, ScoredKept DEF Flowers
    <3> QED BY <3>4, <3>7, <3>8 DEF HintInv
  <2>5. ASSUME NEW f \in Flowers, submit_entry(f) PROVE HintInv'
    <3>1. /\ round.status = "OPEN" /\ entered' = f
          /\ UNCHANGED <<garden, round, hint, asked, crossed, due, score>>
      BY <2>5 DEF submit_entry
    <3>2. Shapes'
      BY <2>0, <3>1 DEF Shapes, Flowers
    <3>3. Answered'
      BY <2>0, <3>1, AnsweredKept
    <3>4. score' = Unscored
      BY <2>0, <3>1 DEF Scored
    <3> QED BY <3>2, <3>3, <3>4 DEF HintInv, Scored
  <2>6. CASE close_round
    <3>1. /\ round.status = "OPEN" /\ round' = [round EXCEPT !.status = "CLOSED"]
          /\ UNCHANGED <<garden, hint, asked, crossed, due, entered, score>>
      BY <2>6 DEF close_round
    <3>2. /\ Shapes' /\ round'.status = "CLOSED"
          /\ round'.target_traits = round.target_traits
          /\ round'.target_trait_count = round.target_trait_count
      BY <2>0, <3>1 DEF Shapes, Flowers
    <3>3. matched(encrypted_genome(asked), round)' = matched(encrypted_genome(asked), round)
      BY <3>1, <3>2 DEF matched, encrypted_genome
    <3>4. Answered'
      BY <2>0, <3>1, <3>2, <3>3 DEF Answered
    <3>5. score' = Unscored
      BY <2>0, <3>1 DEF Scored
    <3> QED BY <3>2, <3>4, <3>5 DEF HintInv, Scored
  <2>7. CASE score_entry_v2_callback
    <3>1. /\ round.status = "CLOSED" /\ entered # Nothing
          /\ score' = score_entry_v2(encrypted_genome(entered), round,
                                     garden[entered].generation)
          /\ UNCHANGED <<garden, round, hint, asked, crossed, due, entered>>
      BY <2>7 DEF score_entry_v2_callback
    <3>2. Shapes'
      BY <2>0, <3>1 DEF Shapes, Flowers
    <3>3. Answered'
      BY <2>0, <3>1, AnsweredKept
    <3>4. /\ entered \in Flowers
          /\ score_entry_v2(encrypted_genome(entered), round, garden[entered].generation)'
               = score_entry_v2(encrypted_genome(entered), round, garden[entered].generation)
      BY <2>0, <3>1 DEF Shapes, score_entry_v2, encrypted_genome, matched
    <3>5. Scored'
      BY <3>1, <3>4 DEF Scored, Flowers
    <3> QED BY <3>2, <3>3, <3>5 DEF HintInv
  <2>8. CASE UNCHANGED vars
    <3>1. UNCHANGED <<garden, round, hint, asked, crossed, due, entered, score>>
      BY <2>8 DEF vars
    <3>2. Shapes'
      BY <2>0, <3>1 DEF Shapes, Flowers
    <3> QED BY <2>0, <3>1, <3>2, AnsweredKept, ScoredKept DEF HintInv
  <2> QED BY <2>1, <2>2, <2>3, <2>4, <2>5, <2>6, <2>7, <2>8 DEF Next
<1> QED BY <1>1, <1>2, GardenInv, PTL DEF Spec

\* Whatever was asked, lost and answered late, a ready hint about the flower
\* that was entered explains its score, if no other question crossed it: for
\* every genome, every set of targets and every generation (queue_private_hint,
\* private_hint_callback, score_entry_v2_callback and their circuits).
THEOREM HintSafe == Spec => []HintExplainsScore
<1>1. GardenTyped /\ HintInv => HintExplainsScore
  <2> SUFFICES ASSUME GardenTyped, Shapes, Answered, Scored,
                      score # Unscored, hint.ready, asked = entered, ~crossed
               PROVE  LET n == Cardinality(hint.bits)
                          count == hint.target_trait_count
                          bonus == Most(0, Least(2 * (garden[entered].generation - 1), 30)) IN
                      score = (70 * n) \div count + (bonus * n) \div count
    BY DEF HintInv, HintExplainsScore
  <2>1. /\ entered \in Flowers /\ entered # Nothing
        /\ score = score_entry_v2(encrypted_genome(entered), round,
                                  garden[entered].generation)
    BY DEF Scored, Shapes
  <2>2. /\ hint.bits = matched(encrypted_genome(entered), round)
        /\ hint.target_trait_count = round.target_trait_count
        /\ round.target_trait_count \in 2..4
    BY <2>1 DEF Answered
  <2>3. garden[entered].generation \in Nat
    <3>1. garden[entered] \in FlowerType
      BY <2>1 DEF GardenTyped, Flowers
    <3> QED BY <3>1 DEF FlowerType
  <2> QED BY <2>1, <2>2, <2>3, ScoreFormula
<1> QED BY <1>1, GardenInv, HintInvariant, PTL
=============================================================================
