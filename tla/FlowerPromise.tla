--------------------------- MODULE FlowerPromise ----------------------------
(***************************************************************************)
(* What the game promises whoever has a flower, with no account, token,    *)
(* cache or status: a flower is free, or in use by one player.  Only the   *)
(* player whose flower it is puts it to use, and until it is free again it *)
(* stays theirs, whatever they or anybody else do.                         *)
(***************************************************************************)
CONSTANT People

VARIABLES
  holder,   \* whose flower it is; none of People when there is no flower
  users     \* who has it in use: nobody or one player

vars == <<holder, users>>

Init == holder \notin People /\ users = {}

\* A flower appears, free or at once in use by the player it is made for.
Appear == holder \notin People /\ users' \subseteq {holder'}

Vanish == holder' \notin People /\ users' = {}

PutToUse == users = {} /\ users' = {holder} /\ holder' = holder

Return == users' = {} /\ holder' = holder

ChangeHands == users = {} /\ users' = {}

Next == Appear \/ Vanish \/ PutToUse \/ Return \/ ChangeHands

Spec == Init /\ [][Next]_vars
=============================================================================
