------------------------------ MODULE MCPayments ------------------------------
(***************************************************************************)
(* Instances of Payments for TLC: prices 10 and 20 stand for the wei       *)
(* prices; only the gap between them matters.                              *)
(***************************************************************************)
EXTENDS Payments, TLC

CONSTANTS small, medium

MCPrice == [p \in Pack |-> IF p = small THEN 10 ELSE 20]
MCUndos == [p \in Pack |-> IF p = small THEN 1 ELSE 2]

(* Users, payments and request slots are interchangeable.                  *)
Symmetry == Permutations(Fid) \cup Permutations(Tx) \cup Permutations(Req)
==============================================================================
