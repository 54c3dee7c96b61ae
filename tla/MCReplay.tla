------------------------------- MODULE MCReplay -------------------------------
(***************************************************************************)
(* An instance of Replay for TLC: whole games on a board of side 2, where  *)
(* a draw of sixths and quarters reaches every free cell and both values.  *)
(* Longer lines, which only a larger board has, are compared with the rule *)
(* written out below, for every line of the lengths and values given here. *)
(***************************************************************************)
EXTENDS Replay

MCDraw == {0, 4, 6, 11}

(* The rule: from the side the tiles slide to, each pair of equal tiles    *)
(* becomes one, and a tile made by a merge does not merge again.           *)
RECURSIVE Slide(_)
Slide(s) ==
  IF Len(s) < 2 THEN s
  ELSE IF s[1] = s[2] THEN <<2 * s[1]>> \o Slide(SubSeq(s, 3, Len(s)))
  ELSE <<s[1]>> \o Slide(Tail(s))

Total(s) == FoldLeft(LAMBDA sum, v : sum + v, 0, s)

Lines == UNION {[1 .. n -> {2, 4, 8}] : n \in 0 .. 4}

(* replay.ts merges a line as the rule says, and loses no value.           *)
ASSUME MergeIsSlide ==
  \A s \in Lines : /\ Merge(s).merged = Slide(s)
                   /\ Total(Merge(s).merged) = Total(s)

(* game.ts places the tiles of a line as the rule says.                    *)
ASSUME PlaceIsSlide ==
  \A s \in Lines :
    LET line == [i \in 1 .. Len(s) |-> [row |-> 1, col |-> i, value |-> s[i]]]
        placed == FoldLeft(LAMBDA acc, t : PlaceStep("left", 1, acc, t), PlaceNothing, line).placed
    IN  placed = [i \in 1 .. Len(Slide(s)) |-> [row |-> 1, col |-> i, value |-> Slide(s)[i]]]
==============================================================================
