--------------------------- MODULE RevealPromise ---------------------------
(***************************************************************************)
(* What a round's reveal promises, with no shards, computations or          *)
(* generations: nothing is known of the winners until one step names all    *)
(* of them, in order, and they are the best of everybody who entered.       *)
(***************************************************************************)
CONSTANT Podium(_)    \* the winners of a round, given its entries' scores

VARIABLES scores, revealed, winners

vars == <<scores, revealed, winners>>

Init == ~revealed /\ winners = <<>>

Reveal ==
  /\ ~revealed
  /\ revealed'
  /\ winners' = Podium(scores)
  /\ UNCHANGED scores

Spec == Init /\ [][Reveal]_vars
=============================================================================
