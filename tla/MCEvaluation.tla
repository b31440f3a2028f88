---------------------------- MODULE MCEvaluation ----------------------------
(***************************************************************************)
(* Evaluation on small gardens: a starter and a hybrid of another lineage, *)
(* at or just below the trait thresholds.                                  *)
(***************************************************************************)
EXTENDS Evaluation

StarterFlower(species, rarity) ==
  [kind |-> "starter", species |-> species, genome |-> starter(species),
   rarity |-> rarity, generation |-> 0, mask |-> 7]

Hybrid(genome, rarity, generation) ==
  [kind |-> "hybrid", species |-> HYBRID_VISUAL_SPECIES_ID, genome |-> genome,
   rarity |-> rarity, generation |-> generation, mask |-> 0]

AtThresholds == Genome(180, 150, 128, 160, 150, 140, 32, 51, 150)
BelowThresholds == Genome(63, 149, 127, 159, 149, 139, 31, 50, 149)

\* A deep line of legendaries, and a hybrid of before the rarity roll.
MCGardens ==
  {<<StarterFlower(3, 4), Hybrid(AtThresholds, 5, 15)>>,
   <<StarterFlower(1, 3), Hybrid(BelowThresholds, 0, 1)>>}

Environment(light, water, soil) == [light |-> light, water |-> water, soil |-> soil]
MCDials ==
  {Environment(0, 0, 0), Environment(128, 255, 7), Environment(255, 255, 255)}

Bytes(pick_roll, mutate_roll, class_roll, other) ==
  [pick |-> pick_roll, mutate |-> mutate_roll, class |-> class_roll, other |-> other]
MCDraws ==
  {Bytes(p, 32, 3, o) : p \in {0, 160, 223, 255}, o \in {3, 52, 255}} \cup {Bytes(0, 31, 4, 128)}

Entropy(e0, e1, e2, e3, e4, e5) ==
  [i \in 0..5 |-> <<e0, e1, e2, e3, e4, e5>>[i + 1]]
MCEntropies ==
  {Entropy(0, 2, 4, 6, 8, 0), Entropy(1, 8, 7, 7, 0, 255), Entropy(2, 255, 8, 7, 3, 128),
   Entropy(2, 1, 1, 1, 1, 254), Entropy(1, 2, 1, 0, 0, 128)}
MCWeights == {0, 128, 255}
=============================================================================
