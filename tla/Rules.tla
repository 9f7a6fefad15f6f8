------------------------------- MODULE Rules -------------------------------
(***************************************************************************)
(* The points a Renju Black may not play (src/engine/rules.cpp).            *)
(*                                                                         *)
(* analyzePlacedBlack and extensionIsLegal call each other: whether a row  *)
(* of three counts depends on whether the point that extends it is itself  *)
(* forbidden.  The memo of an AnalysisContext is left out: it returns what *)
(* the same call on the same cells has returned before.                    *)
(***************************************************************************)
EXTENDS Lines

Placed(cells, p) == [cells EXCEPT ![p] = "Black"]

HasOverlineAt(cells, p) == \E d \in Directions : LineLength(cells, p, "Black", d) > 5

-----------------------------------------------------------------------------
(* Fours and open threes of the black stone just placed.                    *)
IsLegalWinningPoint(cells, p, d) ==
  Is(cells, p, "Empty") /\ LineLength(Placed(cells, p), p, "Black", d) = 5

(* A window is four black stones of the five cells it spans, and the cell   *)
(* left.  Two windows on the same four stones are one four.                 *)
FourIn(cells, W, d) ==
  /\ W \subseteq Point
  /\ Cardinality(Of(cells, W, "Black")) = 4
  /\ \E e \in Of(cells, W, "Empty") : IsLegalWinningPoint(cells, e, d)

FourWindows(p, d) == {Steps(p, d, first .. first + 4) : first \in -4 .. 0}

Fours(cells, p) ==
  UNION {{Of(cells, W, "Black") : W \in {V \in FourWindows(p, d) : FourIn(cells, V, d)}} :
           d \in Directions}

RECURSIVE AnalyzePlacedBlack(_, _)

ExtensionIsLegal_NoThrees(cells, e) ==
  AnalyzePlacedBlack(Placed(cells, e), e) \in {"None", "DoubleThree"}
ExtensionIsLegal(cells, e) ==
  /\ ~HasExactFiveAt(Placed(cells, e), e)
  /\ AnalyzePlacedBlack(Placed(cells, e), e) = "None"

(* Six cells from a to z, both empty; of the four between them three are    *)
(* black and the one left, e, makes a four that both a and z make five.     *)
OpenThreeIn(cells, a, M, z, d) ==
  /\ Is(cells, a, "Empty") /\ Is(cells, z, "Empty")
  /\ Cardinality(Of(cells, M, "Black")) = 3
  /\ \E e \in Of(cells, M, "Empty") :
       /\ IsLegalWinningPoint(Placed(cells, e), a, d)
       /\ IsLegalWinningPoint(Placed(cells, e), z, d)
       /\ ExtensionIsLegal(cells, e)

OpenThrees(cells, p) ==
  UNION {{Of(cells, Steps(p, d, first + 1 .. first + 4), "Black") :
            first \in {f \in -4 .. -1 :
              OpenThreeIn(cells, Shift(p, d, f), Steps(p, d, f + 1 .. f + 4), Shift(p, d, f + 5), d)}} :
           d \in Directions}

AnalyzePlacedBlack(cells, p) ==
  IF HasExactFiveAt(cells, p) THEN "None"
  ELSE IF HasOverlineAt(cells, p) THEN "Overline"
  ELSE IF Cardinality(Fours(cells, p)) >= 2 THEN "DoubleFour"
  ELSE IF Cardinality(OpenThrees(cells, p)) >= 2 THEN "DoubleThree"
  ELSE "None"

-----------------------------------------------------------------------------
(* What the other parts of the engine call.                                 *)
ForbiddenReason(cells, p, s, rules) ==
  IF p \notin Point \/ s \notin Playable THEN "OutOfBounds"
  ELSE IF cells[p] # "Empty" THEN "Occupied"
  ELSE IF rules # "Renju" \/ s = "White" THEN "None"
  ELSE AnalyzePlacedBlack(Placed(cells, p), p)

IsLegalMove(cells, p, s, rules) == ForbiddenReason(cells, p, s, rules) = "None"
=============================================================================
