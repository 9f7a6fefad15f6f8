------------------------------- MODULE Board -------------------------------
(***************************************************************************)
(* The board of the engine (src/engine/board.cpp): the cells, and what is  *)
(* kept up to date incrementally beside them because the search cannot     *)
(* afford to recompute it: the hash that keys the transposition table, the *)
(* counts of the stones, the undo log.                                     *)
(*                                                                         *)
(* The Zobrist hash is the set of the keys that have been XORed into it an *)
(* odd number of times: XOR is symmetric difference, the key of an empty   *)
(* cell is 0, and distinct keys are taken to be independent.               *)
(***************************************************************************)
EXTENDS Integers, Sequences, FiniteSets

CONSTANT Area      \* kBoardArea: 225 in the code

ASSUME AreaAssumption == Area \in Nat \ {0}

Index     == 0 .. Area - 1
Playable  == {"Black", "White"}
Cell      == Playable \union {"Empty"}
Opponent  == [s \in Playable |-> IF s = "Black" THEN "White" ELSE "Black"]

Key             == (Index \X Playable) \union ({Area} \X Playable)
PieceKey(i, s)  == IF s \in Playable THEN {<<i, s>>} ELSE {}
SideKey(s)      == {<<Area, s>>}
Xor(a, b)       == (a \ b) \union (b \ a)

(* The hash recomputeHash builds from nothing.                              *)
HashOf(c, s)    == SideKey(s) \union {<<i, c[i]>> : i \in {j \in Index : c[j] # "Empty"}}
CountOf(c, s)   == Cardinality({i \in Index : c[i] = s})

UndoState == [move : Index, previousSide : Playable, previousHash : SUBSET Key]

VARIABLES cells, sideToMove, counts, hash, history
vars == <<cells, sideToMove, counts, hash, history>>

(* clear, for either side: the default constructor.                         *)
Cleared(side) ==
  [cells      |-> [i \in Index |-> "Empty"],
   counts     |-> [s \in Cell |-> IF s = "Empty" THEN Area ELSE 0],
   hash       |-> SideKey(side)]

Init ==
  \E side \in Playable :
    /\ cells = Cleared(side).cells
    /\ counts = Cleared(side).counts
    /\ hash = Cleared(side).hash
    /\ sideToMove = side
    /\ history = <<>>

Clear(side) ==
  /\ cells' = Cleared(side).cells
  /\ counts' = Cleared(side).counts
  /\ hash' = Cleared(side).hash
  /\ sideToMove' = side
  /\ history' = <<>>

(* load, which calls recomputeHash.                                         *)
Load(newCells, side) ==
  /\ cells' = newCells
  /\ sideToMove' = side
  /\ history' = <<>>
  /\ counts' = [s \in Cell |-> CountOf(newCells, s)]
  /\ hash' = HashOf(newCells, side)

RecomputeHash ==
  /\ counts' = [s \in Cell |-> CountOf(cells, s)]
  /\ hash' = HashOf(cells, sideToMove)
  /\ history' = <<>>
  /\ UNCHANGED <<cells, sideToMove>>

(* set: any stone, or none, over whatever is in the cell.                   *)
SetHash(i, stone) == Xor(Xor(hash, PieceKey(i, cells[i])), PieceKey(i, stone))

SetCell(i, stone) ==
  /\ history' = <<>>
  /\ IF cells[i] = stone
       THEN UNCHANGED <<cells, counts, hash>>
       ELSE /\ hash' = SetHash(i, stone)
            /\ cells' = [cells EXCEPT ![i] = stone]
            /\ counts' = [s \in Cell |-> IF s = cells[i] THEN counts[s] - 1
                                         ELSE IF s = stone THEN counts[s] + 1 ELSE counts[s]]
  /\ UNCHANGED sideToMove

SetSideToMove(stone) ==
  /\ history' = <<>>
  /\ sideToMove' = stone
  /\ hash' = IF stone = sideToMove THEN hash
             ELSE Xor(Xor(hash, SideKey(sideToMove)), SideKey(stone))
  /\ UNCHANGED <<cells, counts>>

(* makeMove with an explicit colour: the colour need not be the side to     *)
(* move, and the side that moves next is its opponent either way.           *)
MoveHash_SideToggled(i, stone) ==
  Xor(Xor(Xor(hash, PieceKey(i, stone)), SideKey("Black")), SideKey("White"))
MoveHash(i, stone) ==
  Xor(Xor(Xor(hash, PieceKey(i, stone)), SideKey(sideToMove)), SideKey(Opponent[stone]))

MakeMove(i, stone) ==
  /\ cells[i] = "Empty"
  /\ history' = Append(history, [move |-> i, previousSide |-> sideToMove, previousHash |-> hash])
  /\ cells' = [cells EXCEPT ![i] = stone]
  /\ counts' = [s \in Cell |-> IF s = "Empty" THEN counts[s] - 1
                               ELSE IF s = stone THEN counts[s] + 1 ELSE counts[s]]
  /\ hash' = MoveHash(i, stone)
  /\ sideToMove' = Opponent[stone]

(* The side that unmakeMove returns to is the one the log has kept.         *)
UndoSide_FromStone(undo) == cells[undo.move]
UndoSide(undo) == undo.previousSide

UndoCounts_Forgotten(stone) == [counts EXCEPT !["Empty"] = @ + 1]
UndoCounts(stone) ==
  [s \in Cell |-> IF s = stone THEN counts[s] - 1
                  ELSE IF s = "Empty" THEN counts[s] + 1 ELSE counts[s]]

UnmakeMove ==
  LET undo == history[Len(history)] IN
  /\ history # <<>>
  /\ history' = SubSeq(history, 1, Len(history) - 1)
  /\ cells' = [cells EXCEPT ![undo.move] = "Empty"]
  /\ counts' = UndoCounts(cells[undo.move])
  /\ sideToMove' = UndoSide(undo)
  /\ hash' = undo.previousHash

(* Calls with a cell off the board or a stone that is none change nothing.  *)
Next ==
  \/ \E side \in Playable : Clear(side) \/ SetSideToMove(side)
  \/ \E newCells \in [Index -> Cell], side \in Playable : Load(newCells, side)
  \/ RecomputeHash
  \/ \E i \in Index, stone \in Cell : SetCell(i, stone)
  \/ \E i \in Index, stone \in Playable : MakeMove(i, stone)
  \/ UnmakeMove

Spec == Init /\ [][Next]_vars

-----------------------------------------------------------------------------
(* The types of the variables.                                              *)
TypeOK ==
  /\ cells \in [Index -> Cell]
  /\ sideToMove \in Playable
  /\ counts \in [Cell -> 0 .. Area]
  /\ hash \in SUBSET Key
  /\ history \in Seq(UndoState)

(* However a position was reached, its hash is the one recomputeHash would   *)
(* compute from the cells and the side: the transposition table, keyed by    *)
(* it, finds the same entry for the same position and side.                 *)
HashIsOfPosition == hash = HashOf(cells, sideToMove)

(* The counts, from which the evaluator's shortcuts and full() are taken,    *)
(* are those of the cells.                                                  *)
CountsAreOfCells == \A s \in Cell : counts[s] = CountOf(cells, s)

(* The position the log leads back to when its entries from k on are undone. *)
CellsBefore(k) ==
  [i \in Index |-> IF \E j \in k .. Len(history) : history[j].move = i
                     THEN "Empty" ELSE cells[i]]

PositionAt(k) ==
  IF k > Len(history)
    THEN [cells |-> cells, side |-> sideToMove]
    ELSE [cells |-> CellsBefore(k), side |-> history[k].previousSide]

(* board.h:43: unmakeMove restores the exact prior state.  The undo log       *)
(* stands for a stack of whole positions: the sequence of those it leads     *)
(* back to is changed by every operation as that stack is.                  *)
Stack == INSTANCE PositionStack WITH
  stack <- [k \in 1 .. Len(history) + 1 |-> PositionAt(k)]

ImplementsPositionStack == Stack!StackSpec
=============================================================================
