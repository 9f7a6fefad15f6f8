------------------------------- MODULE Lines -------------------------------
(***************************************************************************)
(* Runs of stones on a square board and who wins by them, as the rules      *)
(* (src/engine/rules.cpp) and the evaluator (src/engine/evaluator.cpp) say. *)
(***************************************************************************)
EXTENDS Integers, FiniteSets

CONSTANT Size    \* kBoardSize: 15 in the program

ASSUME SizeAssumption == Size \in Nat \ {0}

Coordinate   == 0 .. Size - 1
Point        == Coordinate \X Coordinate
Playable     == {"Black", "White"}
RuleSet      == {"Freestyle", "Renju"}
Directions   == {<<1, 0>>, <<0, 1>>, <<1, 1>>, <<1, -1>>}

(* The point k steps from p, and those from the first step to the last.     *)
Shift(p, d, k)     == <<p[1] + k * d[1], p[2] + k * d[2]>>
Steps(p, d, ks)    == {Shift(p, d, k) : k \in ks}
Is(cells, p, s)    == p \in Point /\ cells[p] = s
Of(cells, S, s)    == {p \in S : cells[p] = s}

Run(cells, p, s, d) ==
  Cardinality({n \in 1 .. Size : \A k \in 1 .. n : Is(cells, Shift(p, d, k), s)})

LineLength(cells, p, s, d) == 1 + Run(cells, p, s, d) + Run(cells, p, s, <<-d[1], -d[2]>>)

HasExactFiveAt(cells, p) == \E d \in Directions : LineLength(cells, p, "Black", d) = 5

RunWins_Overline(s, length, rules) == length >= 5
RunWins(s, length, rules) == IF rules = "Renju" /\ s = "Black" THEN length = 5 ELSE length >= 5

HasWinningLineAt(cells, p, s, rules) ==
  /\ Is(cells, p, s)
  /\ IF rules = "Renju" /\ s = "Black"
       THEN HasExactFiveAt(cells, p)
       ELSE \E d \in Directions : LineLength(cells, p, s, d) >= 5

IsWinningPlacement(cells, p, s, rules) ==
  /\ s \in Playable
  /\ Is(cells, p, "Empty")
  /\ HasWinningLineAt([cells EXCEPT ![p] = s], p, s, rules)

(* A run is measured from its first cell, the one without a predecessor.    *)
Winners(cells, rules) ==
  {s \in Playable : \E p \in Of(cells, Point, s), d \in Directions :
     /\ ~Is(cells, Shift(p, d, -1), s)
     /\ RunWins(s, 1 + Run(cells, p, s, d), rules)}

(* Evaluator::winningMoves, which searches beside the stones of the colour  *)
(* and only when there are four of them (evaluator.cpp).                    *)
BesideMask(cells, s) ==
  (UNION {Steps(p, d, {-1, 1}) : p \in Of(cells, Point, s), d \in Directions}) \intersect Point

EvaluatorWins(cells, p, s, rules) ==
  \E d \in Directions : RunWins(s, LineLength(cells, p, s, d), rules)

WinningMoves(cells, s, rules) ==
  IF Cardinality(Of(cells, Point, s)) < 4
  THEN {}
  ELSE {p \in BesideMask(cells, s) : cells[p] = "Empty" /\ EvaluatorWins(cells, p, s, rules)}
=============================================================================
