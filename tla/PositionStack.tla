--------------------------- MODULE PositionStack ---------------------------
(***************************************************************************)
(* What board.h promises of a Board: it behaves as a stack of complete     *)
(* positions.  makeMove pushes the position after the move, unmakeMove     *)
(* returns to exactly the position before it, and a setup operation leaves *)
(* one position that nothing can be taken back from.                       *)
(***************************************************************************)
EXTENDS Integers, Sequences

CONSTANT Area

VARIABLE stack

PStone    == {"Black", "White"}
PCells    == [0 .. Area - 1 -> PStone \union {"Empty"}]
Position  == [cells : PCells, side : PStone]
Opposite  == [s \in PStone |-> IF s = "Black" THEN "White" ELSE "Black"]
Top       == stack[Len(stack)]

StackInit == \E side \in PStone :
  stack = << [cells |-> [i \in 0 .. Area - 1 |-> "Empty"], side |-> side] >>

Setup == \E p \in Position : stack' = <<p>>

Push == \E i \in 0 .. Area - 1, s \in PStone :
  /\ Top.cells[i] = "Empty"
  /\ stack' = Append(stack, [cells |-> [Top.cells EXCEPT ![i] = s], side |-> Opposite[s]])

Pop ==
  /\ Len(stack) > 1
  /\ stack' = SubSeq(stack, 1, Len(stack) - 1)

StackNext == Setup \/ Push \/ Pop
StackSpec == StackInit /\ [][StackNext]_stack
=============================================================================
