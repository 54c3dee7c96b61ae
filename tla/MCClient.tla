------------------------------- MODULE MCClient -------------------------------
(***************************************************************************)
(* An instance of Client for TLC.  One game is over after one move, the    *)
(* other lasts long enough for a batch of two to queue up.                 *)
(***************************************************************************)
EXTENDS Client

CONSTANTS s1, s2, up

MCMoves(seed, played, d) == Len(played) < (IF seed = s1 THEN 1 ELSE 3)

MCPoints(seed, played) == 4 * Len(played)
=============================================================================
