------------------------------ MODULE LineGame ------------------------------
(***************************************************************************)
(* Positions as the search sees them (engine/board.h, rules.h, evaluator.h): *)
(* cells, the lines that win, the points forbidden to Black.  The board and  *)
(* the lines are constants; the program has 225 cells and lines of five.     *)
(*                                                                         *)
(* Forbidden points are given with the position instead of being derived    *)
(* from it, and black overlines are not distinguished from fives.           *)
(***************************************************************************)
EXTENDS Integers, FiniteSets, FiniteSetsExt, SequencesExt

CONSTANTS Cell,       \* cells by their index
          Line,       \* sets of cells in a row that win
          LineLength  \* five in the program

ASSUME LineAssumption ==
  /\ Cell \subseteq Nat
  /\ \A l \in Line : l \subseteq Cell /\ Cardinality(l) = LineLength

Stone == {"black", "white"}

Position == [black : SUBSET Cell, white : SUBSET Cell, side : Stone, forbidden : SUBSET Cell]

Opponent(s) == IF s = "black" THEN "white" ELSE "black"

Empty(p) == Cell \ (p.black \union p.white)

(* makeMove by the side to move.                                           *)
Played(p, m) == [p EXCEPT ![p.side] = @ \union {m}, !.side = Opponent(p.side)]

Won(p, s) == \E l \in Line : l \subseteq p[s]

(* Evaluator::winningMoves, in the order of the cells.                      *)
Completes(p, m, s) == \E l \in Line : m \in l /\ l \subseteq p[s] \union {m}

WinningMoves(p, s) ==
  IF Cardinality(p[s]) < LineLength - 1
  THEN {}
  ELSE {m \in Empty(p) : Completes(p, m, s)}

(* Rules::isLegalMove: attaining a line has priority over what is forbidden. *)
IsLegalMove(p, m, s) ==
  /\ m \in Empty(p)
  /\ s = "black" /\ m \in p.forbidden => Completes(p, m, s)

LegalMoves(p) == {m \in Empty(p) : IsLegalMove(p, m, p.side)}

InOrder(moves) ==
  [i \in 1 .. Cardinality(moves) |->
     CHOOSE m \in moves : Cardinality({k \in moves : k < m}) = i - 1]

First(moves) == Min(moves)

(* Evaluator::evaluate, from the side to move: the lines still open to each, *)
(* by the stones on them, and the right to move.                            *)
Openings(p, s) ==
  {l \in Line : l \intersect p[s] # {} /\ l \intersect p[Opponent(s)] = {}}

Shape(p, s) ==
  MapThenSumSet(LAMBDA l : Cardinality(l \intersect p[s]) ^ 2, Openings(p, s))

Evaluate(p) == 1 + Shape(p, p.side) - Shape(p, Opponent(p.side))

(* Evaluator::movePotential, by the lines the move would extend.             *)
MovePotential(p, m, s) ==
  MapThenSumSet(LAMBDA l : (Cardinality(l \intersect p[s]) + 1) ^ 2,
                {l \in Line : m \in l /\ l \intersect p[Opponent(s)] = {}})

-----------------------------------------------------------------------------
(* What it is to win by force.  A side without a legal move passes.         *)

RECURSIVE WinsWithin(_, _, _)
WinsWithin(p, s, plies) ==
  IF p.side = s
  THEN /\ plies > 0
       /\ \E m \in LegalMoves(p) :
            Completes(p, m, s) \/ (plies > 1 /\ WinsWithin(Played(p, m), s, plies - 1))
  ELSE /\ Empty(p) # {}
       /\ \A m \in LegalMoves(p) :
            ~Completes(p, m, p.side) /\ plies > 0 /\ WinsWithin(Played(p, m), s, plies - 1)
       /\ LegalMoves(p) = {} => WinsWithin([p EXCEPT !.side = s], s, plies)
=============================================================================
