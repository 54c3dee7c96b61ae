------------------------------- MODULE MCScores -------------------------------
(***************************************************************************)
(* An instance of Scores for TLC.                                          *)
(***************************************************************************)
EXTENDS Scores

CONSTANTS a, b

MCResults == {[player |-> a, score |-> 1], [player |-> a, score |-> 2], [player |-> b, score |-> 1]}
===============================================================================
