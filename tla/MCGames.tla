------------------------------- MODULE MCGames -------------------------------
(***************************************************************************)
(* An instance of Games for TLC: two seeds whose games differ in how long  *)
(* they last, in which moves do nothing and in the scores they end with.   *)
(***************************************************************************)
EXTENDS Games, TLC

CONSTANTS s1, s2, up, left

MCMoves(seed, played, d) ==
  /\ Len(played) < (IF seed = s1 THEN 1 ELSE 2)
  /\ seed = s2 /\ played = <<>> => d = left

MCPoints(seed, played) ==
  4 * Cardinality({i \in 1 .. Len(played) : played[i] = up}) + (IF seed = s2 THEN 4 ELSE 0)

Symmetry == Permutations(Req)
==============================================================================
