------------------------------ MODULE RulesRun ------------------------------
(***************************************************************************)
(* What the rules must say of the positions of LinesRun: a definition of   *)
(* five, four, straight four and three by maximal rows, as the comments of *)
(* rules.cpp quote them from the rules of Renju, instead of by the windows *)
(* the program moves over a line.                                          *)
(***************************************************************************)
EXTENDS Rules, LinesRun

(* The maximal row of black stones that the stone on p is part of.          *)
Row(c, p, d) ==
  Steps(p, d, -Run(c, p, "Black", <<-d[1], -d[2]>>) .. Run(c, p, "Black", d))

(* The empty points that make, with the row through them, n in a row of     *)
(* which m is one.                                                          *)
Makes(c, e, m, n, d) ==
  LET row == Row(Placed(c, e), e, d) IN m \in row /\ Cardinality(row) = n

Made(c, m, n, d) ==
  {e \in Steps(m, d, -4 .. 4) : Is(c, e, "Empty") /\ Makes(c, e, m, n, d)}

Five(c, m)     == \E d \in Directions : Cardinality(Row(c, m, d)) = 5
Overline(c, m) == \E d \in Directions : Cardinality(Row(c, m, d)) > 5

FourSets(c, m) ==
  UNION {{Row(Placed(c, e), e, d) \ {e} : e \in Made(c, m, 5, d)} : d \in Directions}

(* Four in a row that two different points make five.                       *)
Straight(c, m, d) == Cardinality(Made(c, m, 5, d)) = 2

RECURSIVE Forbidden(_, _)

ThreeSets(c, m) ==
  UNION {{Row(Placed(c, e), e, d) \ {e} :
            e \in {x \in Made(c, m, 4, d) :
                     /\ Straight(Placed(c, x), x, d)
                     /\ ~Five(Placed(c, x), x)
                     /\ Forbidden(c, x) = "None"}} : d \in Directions}

Forbidden(c, m) ==
  LET after == Placed(c, m) IN
  CASE Five(after, m)                          -> "None"
    [] ~Five(after, m) /\ Overline(after, m)   -> "Overline"
    [] OTHER -> IF Cardinality(FourSets(after, m)) >= 2 THEN "DoubleFour"
                ELSE IF Cardinality(ThreeSets(after, m)) >= 2 THEN "DoubleThree"
                ELSE "None"

(* forbiddenReason finds overline, double four and double three exactly     *)
(* where the rules of Renju do, through windows, shared stones, gaps, board *)
(* edges, and threes whose extension is itself forbidden (rules.cpp:138-284).*)
(* A placement that wins is legal.                                         *)
ForbiddenIsRenju ==
  /\ ForbiddenReason(cells, setting.asked, "Black", "Renju") = Forbidden(cells, setting.asked)
  /\ \A rules \in RuleSet, s \in Playable :
       IsWinningPlacement(cells, setting.asked, s, rules) => IsLegalMove(cells, setting.asked, s, rules)
=============================================================================
