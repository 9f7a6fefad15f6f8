---------------------------- MODULE Board_proofs ----------------------------
(***************************************************************************)
(* Proofs about Board, for every size of the board: the incremental hash   *)
(* and counts are those of the position, the undo log leads back through   *)
(* exactly the positions that were, and the board so implements the stack  *)
(* of positions that board.h promises.                                     *)
(***************************************************************************)
EXTENDS Board, FiniteSetTheorems, SequenceTheorems, TLAPS

(* The types, without the bounds on the counts, which follow from           *)
(* CountsAreOfCells.                                                        *)
BaseTypes ==
  /\ cells \in [Index -> Cell]
  /\ sideToMove \in Playable
  /\ counts \in [Cell -> Int]
  /\ hash \in SUBSET Key
  /\ history \in Seq(UndoState)

(* Every entry of the log names another occupied cell, and holds the hash of *)
(* the position it leads back to.                                           *)
LogInv ==
  /\ \A k \in 1 .. Len(history) : cells[history[k].move] # "Empty"
  /\ \A j, k \in 1 .. Len(history) : history[j].move = history[k].move => j = k
  /\ \A k \in 1 .. Len(history) :
       history[k].previousHash = HashOf(CellsBefore(k), history[k].previousSide)

BInv == BaseTypes /\ HashIsOfPosition /\ CountsAreOfCells /\ LogInv

-----------------------------------------------------------------------------
(* Putting a stone into an empty cell XORs one key into the hash.           *)
LEMMA HashAfterFill ==
  ASSUME NEW c \in [Index -> Cell], NEW i \in Index, c[i] = "Empty",
         NEW s \in Playable, NEW a \in Playable, NEW b \in Playable
  PROVE  Xor(Xor(Xor(HashOf(c, a), PieceKey(i, s)), SideKey(a)), SideKey(b))
           = HashOf([c EXCEPT ![i] = s], b)
  BY AreaAssumption DEF Xor, HashOf, PieceKey, SideKey, Index, Playable, Cell

(* Replacing the content of a cell XORs out the old key and in the new one.  *)
LEMMA HashAfterSet ==
  ASSUME NEW c \in [Index -> Cell], NEW i \in Index,
         NEW s \in Cell, NEW a \in Playable, c[i] # s
  PROVE  Xor(Xor(HashOf(c, a), PieceKey(i, c[i])), PieceKey(i, s))
           = HashOf([c EXCEPT ![i] = s], a)
  BY AreaAssumption DEF Xor, HashOf, PieceKey, SideKey, Index, Playable, Cell

(* The hash of a position is a set of keys.                                 *)
LEMMA HashType ==
  ASSUME NEW c \in [Index -> Cell], NEW a \in Playable
  PROVE  HashOf(c, a) \in SUBSET Key
  BY AreaAssumption DEF HashOf, SideKey, Key, Index, Playable, Cell

(* Changing a cell to s moves one from the count of what it held to that of s.*)
Recounted(c, i, s) ==
  \A t \in Cell : CountOf([c EXCEPT ![i] = s], t) =
    IF t = c[i] THEN CountOf(c, t) - 1
    ELSE IF t = s THEN CountOf(c, t) + 1 ELSE CountOf(c, t)

(* Setting a cell to what it does not hold does that to the counts.          *)
LEMMA CountAfterSet ==
  ASSUME NEW c \in [Index -> Cell], NEW i \in Index, NEW s \in Cell, c[i] # s
  PROVE  Recounted(c, i, s)
  <1> SUFFICES ASSUME NEW t \in Cell
               PROVE  CountOf([c EXCEPT ![i] = s], t) =
                        IF t = c[i] THEN CountOf(c, t) - 1
                        ELSE IF t = s THEN CountOf(c, t) + 1 ELSE CountOf(c, t)
    BY DEF Recounted
  <1> DEFINE Before == {j \in Index : c[j] = t}
             After  == {j \in Index : [c EXCEPT ![i] = s][j] = t}
  <1>1. IsFiniteSet(Index) BY FS_Interval, AreaAssumption DEF Index
  <1>2. IsFiniteSet(Before) /\ IsFiniteSet(After) BY <1>1, FS_Subset
  <1>3. Cardinality(Before) \in Nat BY <1>2, FS_CardinalityType
  <1>4. CASE t = c[i]
    <2>1. After = Before \ {i} /\ i \in Before BY <1>4
    <2> QED BY <1>2, <1>4, <2>1, FS_RemoveElement DEF CountOf
  <1>5. CASE t # c[i] /\ t = s
    <2>1. After = Before \union {i} /\ i \notin Before BY <1>5
    <2> QED BY <1>2, <1>5, <2>1, FS_AddElement DEF CountOf
  <1>6. CASE t # c[i] /\ t # s
    <2>1. After = Before BY <1>6
    <2> QED BY <1>6, <2>1 DEF CountOf
  <1> QED BY <1>4, <1>5, <1>6

(* The counts of an empty board.                                            *)
LEMMA EmptyCounts ==
  ASSUME NEW s \in Cell
  PROVE  CountOf([i \in Index |-> "Empty"], s) = IF s = "Empty" THEN Area ELSE 0
  <1>1. CASE s = "Empty"
    <2>1. {i \in Index : [j \in Index |-> "Empty"][i] = s} = Index BY <1>1
    <2>2. Cardinality(Index) = Area BY FS_Interval, AreaAssumption DEF Index
    <2> QED BY <1>1, <2>1, <2>2 DEF CountOf
  <1>2. CASE s # "Empty"
    <2>1. {i \in Index : [j \in Index |-> "Empty"][i] = s} = {} BY <1>2
    <2> QED BY <1>2, <2>1, FS_EmptySet DEF CountOf
  <1> QED BY <1>1, <1>2

(* A count is at most the area.                                             *)
LEMMA CountType ==
  ASSUME NEW c \in [Index -> Cell], NEW s \in Cell
  PROVE  CountOf(c, s) \in 0 .. Area
  <1>1. IsFiniteSet(Index) /\ Cardinality(Index) = Area
    BY FS_Interval, AreaAssumption DEF Index
  <1>2. /\ IsFiniteSet({i \in Index : c[i] = s})
        /\ Cardinality({i \in Index : c[i] = s}) <= Area
    BY <1>1, FS_Subset
  <1> QED BY <1>2, FS_CardinalityType DEF CountOf

(* A move appends an entry that leads back to the position before it, and    *)
(* the older entries lead back to where they did.                           *)
LEMMA CellsAfterMove ==
  ASSUME BaseTypes, NEW i \in Index, NEW stone \in Playable, cells[i] = "Empty",
         NEW e, e.move = i,
         cells' = [cells EXCEPT ![i] = stone],
         history' = Append(history, e)
  PROVE  /\ Len(history') = Len(history) + 1
         /\ history'[Len(history) + 1] = e
         /\ \A k \in 1 .. Len(history) :
              history'[k] = history[k] /\ history[k].move \in Index
         /\ \A k \in {Len(history) + 1} : CellsBefore(k)' = cells
         /\ \A k \in 1 .. Len(history) : CellsBefore(k)' = CellsBefore(k)
  <1> DEFINE n == Len(history)
  <1>1. n \in Nat /\ Len(history') = n + 1 BY DEF BaseTypes
  <1>2. \A k \in 1 .. n : history'[k] = history[k] /\ history[k].move \in Index
    <2>1. \A k \in 1 .. n : history[k] \in UndoState BY DEF BaseTypes
    <2>2. \A k \in 1 .. n : history[k].move \in Index BY <2>1 DEF UndoState
    <2>3. \A k \in 1 .. n : history'[k] = history[k] BY <1>1 DEF BaseTypes
    <2> QED BY <2>2, <2>3
  <1>3. history'[n + 1] = e BY DEF BaseTypes
  <1>4. ASSUME NEW k, k = n + 1 PROVE CellsBefore(k)' = cells
    <2>1. \A j \in Index : (\E m \in k .. Len(history') : history'[m].move = j) <=> j = i
      BY <1>1, <1>3, <1>4
    <2>2. CellsBefore(k)' = [j \in Index |-> IF j = i THEN "Empty" ELSE cells'[j]]
      <3>1. CellsBefore(k)' =
              [j \in Index |-> IF \E m \in k .. Len(history') : history'[m].move = j
                                 THEN "Empty" ELSE cells'[j]]
        BY DEF CellsBefore
      <3> QED BY ONLY <2>1, <3>1
    <2>3. \A j \in Index : (IF j = i THEN "Empty" ELSE cells'[j]) = cells[j]
      BY DEF BaseTypes
    <2> QED BY <2>2, <2>3 DEF BaseTypes
  <1>5. ASSUME NEW k \in 1 .. n PROVE CellsBefore(k)' = CellsBefore(k)
    <2>1. \A j \in Index : (\E m \in k .. n + 1 : history'[m].move = j)
                             <=> (j = i \/ \E m \in k .. n : history[m].move = j)
      BY <1>1, <1>2, <1>3
    <2>2. CellsBefore(k)' = [j \in Index |-> IF j = i \/ \E m \in k .. n : history[m].move = j
                                              THEN "Empty" ELSE cells'[j]]
      BY <1>1, <2>1 DEF CellsBefore
    <2>3. \A j \in Index : j # i => cells'[j] = cells[j] BY DEF BaseTypes
    <2> QED BY <2>2, <2>3 DEF CellsBefore
  <1>6. \A k \in {n + 1} : CellsBefore(k)' = cells BY <1>4
  <1> QED BY <1>1, <1>2, <1>3, <1>5, <1>6

(* So the log stays what it is.                                             *)
LEMMA LogAfterMove ==
  ASSUME BaseTypes, LogInv, hash = HashOf(cells, sideToMove),
         NEW i \in Index, NEW stone \in Playable, stone # "Empty",
         cells[i] = "Empty",
         cells' = [cells EXCEPT ![i] = stone],
         history' = Append(history, [move |-> i, previousSide |-> sideToMove,
                                     previousHash |-> hash])
  PROVE  LogInv'
  <1> DEFINE n == Len(history)
             e == [move |-> i, previousSide |-> sideToMove, previousHash |-> hash]
  <1>1. n \in Nat BY DEF BaseTypes
  <1>2. /\ Len(history') = n + 1
        /\ history'[n + 1] = e
        /\ \A k \in 1 .. n : history'[k] = history[k] /\ history[k].move \in Index
        /\ \A k \in {n + 1} : CellsBefore(k)' = cells
        /\ \A k \in 1 .. n : CellsBefore(k)' = CellsBefore(k)
    <2>1. e.move = i /\ history' = Append(history, e) OBVIOUS
    <2> HIDE DEF e
    <2> QED BY <2>1, CellsAfterMove
  <1>3. \A k \in 1 .. n : history[k].move # i BY DEF LogInv
  <1>4. \A k \in 1 .. n + 1 : cells'[history'[k].move] # "Empty"
    BY <1>1, <1>2, <1>3 DEF LogInv, BaseTypes
  <1>5. \A j, k \in 1 .. n + 1 : history'[j].move = history'[k].move => j = k
    BY <1>1, <1>2, <1>3 DEF LogInv
  <1>6. ASSUME NEW k \in 1 .. n + 1
        PROVE  history'[k].previousHash = HashOf(CellsBefore(k)', history'[k].previousSide)
    <2>1. CASE k = n + 1
      <3>1. history'[k].previousHash = hash /\ history'[k].previousSide = sideToMove
        BY <1>2, <2>1
      <3>2. CellsBefore(k)' = cells BY <1>2, <2>1
      <3> QED BY <3>1, <3>2
    <2>2. CASE k \in 1 .. n BY <1>2, <2>2 DEF LogInv
    <2> QED BY <1>1, <2>1, <2>2
  <1> QED BY <1>2, <1>4, <1>5, <1>6 DEF LogInv

(* Undoing the last entry leads to the position it stands for, and the older *)
(* ones lead back to where they did.                                        *)
LEMMA CellsAfterUnmake ==
  ASSUME BaseTypes, UnmakeMove, NEW n, n = Len(history), NEW u, u = history[n]
  PROVE  /\ n \in Nat \ {0} /\ u \in UndoState
         /\ cells' = [cells EXCEPT ![u.move] = "Empty"]
         /\ counts' = UndoCounts(cells[u.move])
         /\ sideToMove' = u.previousSide
         /\ hash' = u.previousHash
         /\ history' = SubSeq(history, 1, n - 1) /\ history' \in Seq(UndoState)
         /\ Len(history') = n - 1
         /\ \A k \in 1 .. n - 1 : history'[k] = history[k]
         /\ cells' = CellsBefore(n)
         /\ \A k \in 1 .. n - 1 : CellsBefore(k)' = CellsBefore(k)
  <1>1. /\ history # <<>>
        /\ history' = SubSeq(history, 1, n - 1)
        /\ cells' = [cells EXCEPT ![u.move] = "Empty"]
        /\ counts' = UndoCounts(cells[u.move])
        /\ sideToMove' = u.previousSide
        /\ hash' = u.previousHash
    BY DEF UnmakeMove, UndoSide
  <1>2. /\ n \in Nat \ {0}
        /\ n \in 1 .. n
        /\ \A k \in 1 .. n : history[k] \in UndoState
    <2>1. n \in Nat /\ n # 0 BY <1>1 DEF BaseTypes
    <2> QED BY <2>1 DEF BaseTypes
  <1>3. u.move \in Index /\ u.previousSide \in Playable /\ u.previousHash \in SUBSET Key
    BY <1>2 DEF UndoState
  <1>4. /\ Len(history') = n - 1
        /\ \A k \in 1 .. n - 1 : history'[k] = history[k]
        /\ history' \in Seq(UndoState)
    <2>1. /\ 1 \in Int /\ n - 1 \in Int /\ n - 1 >= 0
          /\ \A k \in 1 .. n - 1 : history[k] \in UndoState
      BY <1>2
    <2>2. /\ history' \in Seq(UndoState)
          /\ Len(history') = IF 1 <= n - 1 THEN (n - 1) - 1 + 1 ELSE 0
          /\ \A k \in 1 .. (n - 1) - 1 + 1 : history'[k] = history[1 + k - 1]
      <3> QED BY <1>1, <2>1, SubSeqProperties
    <2>3. \A k \in 1 .. n - 1 : history'[k] = history[k] BY <1>2, <2>2
    <2>4. Len(history') = n - 1
      <3> QED BY ONLY <1>2, <2>2
    <2> QED BY ONLY <2>2, <2>3, <2>4
  <1>5. cells' = CellsBefore(n)
    <2>1. \A j \in Index : (\E m \in n .. n : history[m].move = j) <=> j = u.move
      BY <1>2
    <2> QED BY <1>1, <1>2, <2>1 DEF CellsBefore, BaseTypes
  <1>6. ASSUME NEW k \in 1 .. n - 1 PROVE CellsBefore(k)' = CellsBefore(k)
    <2>1. \A j \in Index : (\E m \in k .. n : history[m].move = j)
                             <=> (j = u.move \/ \E m \in k .. n - 1 : history'[m].move = j)
      <3>1. \A m \in k .. n : m \in 1 .. n - 1 \/ m = n BY <1>2
      <3>2. \A m \in k .. n - 1 : m \in k .. n /\ m \in 1 .. n - 1 BY <1>2
      <3>3. \A m \in 1 .. n - 1 : history'[m] = history[m] BY <1>4
      <3>4. n \in k .. n BY <1>2
      <3>5. \A m \in k .. n : m # n => m \in k .. n - 1 BY <1>2
      <3> QED BY <3>1, <3>2, <3>3, <3>4, <3>5
    <2> QED BY <1>1, <1>2, <1>3, <1>4, <2>1 DEF CellsBefore, BaseTypes
  <1> QED BY <1>1, <1>2, <1>4, <1>5, <1>6

(* So the invariant holds of the position that is back.                     *)
LEMMA UnmakeKeeps ==
  ASSUME BInv, UnmakeMove
  PROVE  BInv'
  <1> USE DEF BInv
  <1> DEFINE n == Len(history)
             u == history[n]
  <1>1. /\ n \in Nat \ {0} /\ u \in UndoState
        /\ cells' = [cells EXCEPT ![u.move] = "Empty"]
        /\ counts' = UndoCounts(cells[u.move])
        /\ sideToMove' = u.previousSide
        /\ hash' = u.previousHash
        /\ history' = SubSeq(history, 1, n - 1) /\ history' \in Seq(UndoState)
        /\ Len(history') = n - 1
        /\ \A k \in 1 .. n - 1 : history'[k] = history[k]
        /\ cells' = CellsBefore(n)
        /\ \A k \in 1 .. n - 1 : CellsBefore(k)' = CellsBefore(k)
    <2> HIDE DEF n, u
    <2> QED BY CellsAfterUnmake DEF n, u
  <1>2. /\ n \in 1 .. n
        /\ \A k \in 1 .. n : history[k] \in UndoState
    BY <1>1 DEF BaseTypes
  <1>3. u.move \in Index /\ u.previousSide \in Playable /\ u.previousHash \in SUBSET Key
    BY <1>1 DEF UndoState
  <1>4. cells' \in [Index -> Cell] BY <1>1, <1>3 DEF BaseTypes, Cell
  <1>5. HashIsOfPosition' BY <1>1, <1>2 DEF HashIsOfPosition, LogInv
  <1>6. CountsAreOfCells'
    <2>1. cells[u.move] # "Empty" BY <1>2 DEF LogInv
    <2>2. cells[u.move] \in Cell /\ "Empty" \in Cell BY <1>3 DEF BaseTypes, Cell
    <2>3. \A s \in Cell : CountOf(cells', s) =
            IF s = cells[u.move] THEN CountOf(cells, s) - 1
            ELSE IF s = "Empty" THEN CountOf(cells, s) + 1 ELSE CountOf(cells, s)
      <3>1. cells \in [Index -> Cell] BY DEF BaseTypes
      <3>2. Recounted(cells, u.move, "Empty")
        BY ONLY <1>3, <2>1, <2>2, <3>1, CountAfterSet, Zenon
      <3> QED BY <1>1, <3>2, Zenon DEF Recounted
    <2> QED BY <1>1, <2>3 DEF CountsAreOfCells, UndoCounts
  <1>7. BaseTypes' BY <1>1, <1>3, <1>4 DEF BaseTypes, UndoCounts
  <1>8. LogInv'
    <2>1. \A k \in 1 .. n - 1 : history[k].move \in Index /\ history[k].move # u.move
      <3>1. \A k \in 1 .. n - 1 : k \in 1 .. n /\ k # n BY <1>1
      <3>2. \A k \in 1 .. n - 1 : history[k].move # u.move BY <1>2, <3>1 DEF LogInv
      <3>3. \A k \in 1 .. n - 1 : history[k].move \in Index BY <1>2, <3>1 DEF UndoState
      <3> QED BY <3>2, <3>3
    <2>2. \A k \in 1 .. n - 1 : cells'[history'[k].move] # "Empty"
      BY <1>1, <1>2, <2>1 DEF LogInv, BaseTypes
    <2>3. \A j, k \in 1 .. n - 1 : history'[j].move = history'[k].move => j = k
      BY <1>1, <1>2 DEF LogInv
    <2>4. \A k \in 1 .. n - 1 :
            history'[k].previousHash = HashOf(CellsBefore(k)', history'[k].previousSide)
      BY <1>1, <1>2 DEF LogInv
    <2> QED BY <1>1, <2>2, <2>3, <2>4 DEF LogInv
  <1> QED BY <1>5, <1>6, <1>7, <1>8

-----------------------------------------------------------------------------
(* An operation that empties the log leaves nothing to be taken back.       *)
LEMMA EmptyLog == ASSUME history' = <<>> PROVE LogInv' /\ history' \in Seq(UndoState)
  BY DEF LogInv

(* The default constructor.                                                *)
LEMMA InitBoard == Init => BInv
  <1> SUFFICES ASSUME Init PROVE BInv OBVIOUS
  <1>1. PICK side \in Playable :
          /\ cells = [i \in Index |-> "Empty"]
          /\ counts = [s \in Cell |-> IF s = "Empty" THEN Area ELSE 0]
          /\ hash = SideKey(side)
          /\ sideToMove = side
          /\ history = <<>>
    BY DEF Init, Cleared
  <1>2. BaseTypes BY <1>1, AreaAssumption DEF BaseTypes, SideKey, Key, Cell
  <1>3. HashIsOfPosition BY <1>1 DEF HashIsOfPosition, HashOf
  <1>4. CountsAreOfCells BY <1>1, EmptyCounts DEF CountsAreOfCells
  <1>5. LogInv BY <1>1 DEF LogInv
  <1> QED BY <1>2, <1>3, <1>4, <1>5 DEF BInv

(* A step of the board keeps the invariant.                                  *)
LEMMA NextBoard == BInv /\ [Next]_vars => BInv'
  <1> SUFFICES ASSUME BInv, [Next]_vars PROVE BInv' OBVIOUS
  <1> USE DEF BInv
  <1>1. ASSUME NEW side \in Playable, Clear(side) PROVE BInv'
    <2>1. /\ cells' = [i \in Index |-> "Empty"]
          /\ counts' = [s \in Cell |-> IF s = "Empty" THEN Area ELSE 0]
          /\ hash' = SideKey(side)
          /\ sideToMove' = side
          /\ history' = <<>>
      BY <1>1 DEF Clear, Cleared
    <2>2. BaseTypes'
      BY <2>1, AreaAssumption, EmptyLog DEF BaseTypes, SideKey, Key, Cell
    <2>3. HashIsOfPosition' BY <2>1 DEF HashIsOfPosition, HashOf
    <2>4. CountsAreOfCells' BY <2>1, EmptyCounts DEF CountsAreOfCells
    <2> QED BY <2>1, <2>2, <2>3, <2>4, EmptyLog
  <1>2. ASSUME NEW newCells \in [Index -> Cell], NEW side \in Playable, Load(newCells, side)
        PROVE  BInv'
    <2>1. BaseTypes'
      <3>1. hash' \in SUBSET Key BY <1>2, HashType DEF Load
      <3>2. counts' \in [Cell -> Int] BY <1>2, CountType DEF Load
      <3> QED BY <1>2, <3>1, <3>2, EmptyLog DEF BaseTypes, Load
    <2>2. HashIsOfPosition' /\ CountsAreOfCells'
      BY <1>2 DEF HashIsOfPosition, CountsAreOfCells, Load
    <2> QED BY <1>2, <2>1, <2>2, EmptyLog DEF Load
  <1>3. ASSUME RecomputeHash PROVE BInv'
    <2>1. BaseTypes'
      <3>1. hash' \in SUBSET Key BY <1>3, HashType DEF RecomputeHash, BaseTypes
      <3>2. counts' \in [Cell -> Int] BY <1>3, CountType DEF RecomputeHash, BaseTypes
      <3> QED BY <1>3, <3>1, <3>2, EmptyLog DEF BaseTypes, RecomputeHash
    <2>2. HashIsOfPosition' /\ CountsAreOfCells'
      BY <1>3 DEF HashIsOfPosition, CountsAreOfCells, RecomputeHash
    <2> QED BY <1>3, <2>1, <2>2, EmptyLog DEF RecomputeHash
  <1>4. ASSUME NEW i \in Index, NEW stone \in Cell, SetCell(i, stone) PROVE BInv'
    <2>1. history' = <<>> /\ sideToMove' = sideToMove BY <1>4 DEF SetCell
    <2>2. CASE cells[i] = stone
      <3>1. UNCHANGED <<cells, counts, hash>> BY <1>4, <2>2 DEF SetCell
      <3> QED BY <2>1, <3>1, EmptyLog DEF BaseTypes, HashIsOfPosition, CountsAreOfCells
    <2>3. CASE cells[i] # stone
      <3>1. /\ hash' = SetHash(i, stone)
            /\ cells' = [cells EXCEPT ![i] = stone]
            /\ counts' = [s \in Cell |-> IF s = cells[i] THEN counts[s] - 1
                                         ELSE IF s = stone THEN counts[s] + 1 ELSE counts[s]]
        BY <1>4, <2>3 DEF SetCell
      <3>2. cells' \in [Index -> Cell] BY <3>1 DEF BaseTypes
      <3>3. HashIsOfPosition'
        BY <2>1, <2>3, <3>1, HashAfterSet DEF HashIsOfPosition, SetHash, BaseTypes
      <3>4. CountsAreOfCells'
        <4>1. \A s \in Cell : CountOf(cells', s) =
                IF s = cells[i] THEN CountOf(cells, s) - 1
                ELSE IF s = stone THEN CountOf(cells, s) + 1 ELSE CountOf(cells, s)
          <5>1. cells \in [Index -> Cell] BY DEF BaseTypes
          <5>2. Recounted(cells, i, stone)
            BY ONLY <2>3, <5>1, CountAfterSet, i \in Index, stone \in Cell
          <5> QED BY <3>1, <5>2, Zenon DEF Recounted
        <4> QED BY <3>1, <4>1 DEF CountsAreOfCells
      <3>5. BaseTypes'
        <4>1. hash' \in SUBSET Key BY <2>1, <3>2, <3>3, HashType DEF BaseTypes, HashIsOfPosition
        <4>2. counts' \in [Cell -> Int] BY <3>1 DEF BaseTypes
        <4> QED BY <2>1, <3>2, <4>1, <4>2, EmptyLog DEF BaseTypes
      <3> QED BY <2>1, <3>3, <3>4, <3>5, EmptyLog
    <2> QED BY <2>2, <2>3
  <1>5. ASSUME NEW side \in Playable, SetSideToMove(side) PROVE BInv'
    <2>1. /\ history' = <<>> /\ sideToMove' = side
          /\ cells' = cells /\ counts' = counts
      BY <1>5 DEF SetSideToMove
    <2>2. hash' = HashOf(cells, side)
      BY <1>5, AreaAssumption
      DEF SetSideToMove, HashIsOfPosition, BaseTypes, HashOf, SideKey, Xor, Index, Playable, Cell
    <2> QED BY <2>1, <2>2, HashType, EmptyLog DEF BaseTypes, HashIsOfPosition, CountsAreOfCells
  <1>6. ASSUME NEW i \in Index, NEW stone \in Playable, MakeMove(i, stone) PROVE BInv'
    <2>1. /\ cells[i] = "Empty"
          /\ cells' = [cells EXCEPT ![i] = stone]
          /\ sideToMove' = Opponent[stone]
          /\ hash' = MoveHash(i, stone)
          /\ history' = Append(history, [move |-> i, previousSide |-> sideToMove,
                                         previousHash |-> hash])
          /\ counts' = [s \in Cell |-> IF s = "Empty" THEN counts[s] - 1
                                       ELSE IF s = stone THEN counts[s] + 1 ELSE counts[s]]
      BY <1>6 DEF MakeMove
    <2>2. stone \in Cell /\ stone # "Empty" /\ Opponent[stone] \in Playable
      BY DEF Playable, Cell, Opponent
    <2>3. HashIsOfPosition'
      <3>1. hash = HashOf(cells, sideToMove) BY DEF HashIsOfPosition
      <3>2. hash' = Xor(Xor(Xor(HashOf(cells, sideToMove), PieceKey(i, stone)),
                           SideKey(sideToMove)), SideKey(Opponent[stone]))
        BY <2>1, <3>1 DEF MoveHash
      <3>3. hash' = HashOf(cells', Opponent[stone])
        <4>1. cells \in [Index -> Cell] /\ sideToMove \in Playable BY DEF BaseTypes
        <4>2. Xor(Xor(Xor(HashOf(cells, sideToMove), PieceKey(i, stone)),
                      SideKey(sideToMove)), SideKey(Opponent[stone]))
                = HashOf([cells EXCEPT ![i] = stone], Opponent[stone])
          BY ONLY <2>1, <2>2, <4>1, HashAfterFill, i \in Index, stone \in Playable,
            ZenonT(60)
        <4> QED BY <2>1, <3>2, <4>2, Zenon
      <3> QED BY <2>1, <3>3 DEF HashIsOfPosition
    <2>4. CountsAreOfCells'
      <3>1. \A s \in Cell : CountOf(cells', s) =
              IF s = "Empty" THEN CountOf(cells, s) - 1
              ELSE IF s = stone THEN CountOf(cells, s) + 1 ELSE CountOf(cells, s)
        <4>1. cells \in [Index -> Cell] BY DEF BaseTypes
        <4>2. Recounted(cells, i, stone) BY ONLY <2>1, <2>2, <4>1, CountAfterSet, i \in Index
        <4> QED BY <2>1, <4>2, Zenon DEF Recounted
      <3> QED BY <2>1, <3>1 DEF CountsAreOfCells
    <2>5. BaseTypes'
      <3>1. history' \in Seq(UndoState) BY <2>1 DEF BaseTypes, UndoState
      <3>2. cells' \in [Index -> Cell] BY <2>1, <2>2 DEF BaseTypes
      <3>3. hash' \in SUBSET Key BY <2>2, <2>3, <3>2, <2>1, HashType DEF HashIsOfPosition
      <3> QED BY <2>1, <2>2, <3>1, <3>2, <3>3 DEF BaseTypes
    <2>6. LogInv' BY <2>1, <2>2, LogAfterMove DEF HashIsOfPosition
    <2> QED BY <2>3, <2>4, <2>5, <2>6
  <1>7. ASSUME UnmakeMove PROVE BInv'
    <2> QED BY <1>7, UnmakeKeeps
  <1>8. ASSUME UNCHANGED vars PROVE BInv'
    BY <1>8 DEF vars, BaseTypes, HashIsOfPosition, CountsAreOfCells, LogInv, CellsBefore
  <1> QED BY <1>1, <1>2, <1>3, <1>4, <1>5, <1>6, <1>7, <1>8 DEF Next

(* The invariant holds of every use of the board.                            *)
THEOREM BoardInvariance == Spec => []BInv
  BY InitBoard, NextBoard, PTL DEF Spec

(* Types, the counts between 0 and the area among them.                      *)
THEOREM BoardTypes == Spec => []TypeOK
  <1>1. BInv => TypeOK
    <2> SUFFICES ASSUME BInv PROVE TypeOK OBVIOUS
    <2>1. counts \in [Cell -> 0 .. Area]
      BY CountType DEF BInv, BaseTypes, CountsAreOfCells
    <2> QED BY <2>1 DEF BInv, BaseTypes, TypeOK
  <1> QED BY <1>1, BoardInvariance, PTL

(* The incremental hash is the hash of the position: every sequence of       *)
(* setups, moves and takings back, with either colour, on a board of any     *)
(* size.                                                                    *)
THEOREM HashIsExact == Spec => []HashIsOfPosition
  BY BoardInvariance, PTL DEF BInv

(* The incremental counts are the numbers of stones.                         *)
THEOREM CountsAreExact == Spec => []CountsAreOfCells
  BY BoardInvariance, PTL DEF BInv

-----------------------------------------------------------------------------
(* The undo log stands for the stack of whole positions of PositionStack: a  *)
(* move pushes one, unmakeMove pops it and is back at exactly the position   *)
(* below, a setup operation leaves one.                                      *)
StackBar == [k \in 1 .. Len(history) + 1 |-> PositionAt(k)]

(* The position on top.                                                     *)
Current == [cells |-> cells, side |-> sideToMove]

-----------------------------------------------------------------------------
(* The log stands for a sequence with the current position at its end.      *)
StackShape ==
  /\ StackBar \in Seq({PositionAt(k) : k \in 1 .. Len(history) + 1})
  /\ Len(StackBar) = Len(history) + 1
  /\ \A k \in 1 .. Len(history) + 1 : StackBar[k] = PositionAt(k)
  /\ StackBar[Len(history) + 1] = Current

LEMMA StackIsSequence == BaseTypes => StackShape
  <1> SUFFICES ASSUME BaseTypes PROVE StackShape OBVIOUS
  <1> DEFINE n == Len(history)
  <1>1. n \in Nat BY DEF BaseTypes
  <1>2. \A k \in 1 .. n + 1 : StackBar[k] = PositionAt(k) BY DEF StackBar
  <1>3. PositionAt(n + 1) = Current BY <1>1 DEF PositionAt, Current
  <1>4. n + 1 \in 1 .. n + 1 BY <1>1
  <1>5. StackBar \in [1 .. n + 1 -> {PositionAt(k) : k \in 1 .. n + 1}]
    BY DEF StackBar
  <1> HIDE DEF n
  <1>6. n + 1 \in Nat BY <1>1
  <1>7. StackBar \in Seq({PositionAt(k) : k \in 1 .. n + 1}) BY <1>5, <1>6, SeqDef
  <1>8. DOMAIN StackBar = 1 .. n + 1 BY <1>5
  <1>9. Len(StackBar) = n + 1
    <2>1. DOMAIN StackBar = 1 .. Len(StackBar) /\ Len(StackBar) \in Nat BY <1>7, LenProperties
    <2> QED BY <1>6, <1>8, <2>1
  <1> QED BY <1>2, <1>3, <1>4, <1>7, <1>9 DEF n, StackShape

(* Two sequences with the same length and the same members are the same.     *)
LEMMA SameSequence ==
  ASSUME NEW S, NEW T, NEW s \in Seq(S), NEW t \in Seq(T), NEW m \in Nat,
         Len(s) = m, Len(t) = m, \A k \in 1 .. m : s[k] = t[k]
  PROVE  s = t
  <1>1. s \in [1 .. m -> S] /\ t \in [1 .. m -> T] BY LenProperties
  <1> QED BY <1>1

(* An empty log stands for one position.                                    *)
SetupShape == history = <<>> => StackBar = <<Current>> /\ Current \in Stack!Position

LEMMA EmptyLogIsSetup == BaseTypes => SetupShape
  <1> SUFFICES ASSUME BaseTypes, history = <<>>
               PROVE  StackBar = <<Current>> /\ Current \in Stack!Position
    BY DEF SetupShape
  <1>1. Len(history) = 0 BY DEF BaseTypes
  <1>2. Len(StackBar) = 1 /\ StackBar[1] = Current
    BY <1>1, StackIsSequence DEF StackShape
  <1>3. StackBar \in Seq({PositionAt(k) : k \in 1 .. Len(history) + 1})
    BY StackIsSequence DEF StackShape
  <1>4. StackBar = <<Current>>
    <2>1. <<Current>> \in Seq({Current}) /\ Len(<<Current>>) = 1 /\ <<Current>>[1] = Current
      OBVIOUS
    <2> HIDE DEF Current
    <2> QED BY <1>2, <1>3, <2>1, SameSequence
  <1>5. Current \in Stack!Position
    BY DEF Current, Stack!Position, Stack!PCells, Stack!PStone, BaseTypes, Index, Cell, Playable
  <1> QED BY <1>4, <1>5

(* makeMove pushes.                                                         *)
LEMMA MovePushes ==
  ASSUME BaseTypes, BaseTypes', NEW i \in Index, NEW stone \in Playable, MakeMove(i, stone)
  PROVE  Stack!Push
  <1> DEFINE n == Len(history)
             e == [move |-> i, previousSide |-> sideToMove, previousHash |-> hash]
             top == [cells |-> [cells EXCEPT ![i] = stone], side |-> Opponent[stone]]
  <1>1. /\ cells[i] = "Empty"
        /\ cells' = [cells EXCEPT ![i] = stone]
        /\ sideToMove' = Opponent[stone]
        /\ history' = Append(history, e)
        /\ e.move = i /\ e.previousSide = sideToMove
    BY DEF MakeMove
  <1>2. n \in Nat BY DEF BaseTypes
  <1>3. /\ Len(history') = n + 1
        /\ history'[n + 1] = e
        /\ \A k \in 1 .. n : history'[k] = history[k]
        /\ \A k \in {n + 1} : CellsBefore(k)' = cells
        /\ \A k \in 1 .. n : CellsBefore(k)' = CellsBefore(k)
    <2> HIDE DEF e
    <2> QED BY <1>1, CellsAfterMove
  <1>4. ASSUME NEW k \in 1 .. n + 1 PROVE PositionAt(k)' = PositionAt(k)
    <2>1. k \in Nat /\ ~(k > Len(history')) BY <1>2, <1>3
    <2>2. PositionAt(k)' = [cells |-> CellsBefore(k)', side |-> history'[k].previousSide]
      BY <2>1 DEF PositionAt
    <2>3. CASE k = n + 1
      <3>1. PositionAt(k) = [cells |-> cells, side |-> sideToMove]
        BY <1>2, <2>3 DEF PositionAt
      <3> QED BY <1>1, <1>3, <2>2, <2>3, <3>1
    <2>4. CASE k \in 1 .. n
      <3>1. PositionAt(k) = [cells |-> CellsBefore(k), side |-> history[k].previousSide]
        BY <1>2, <2>4 DEF PositionAt
      <3> QED BY <1>3, <2>2, <2>4, <3>1
    <2> QED BY <1>2, <2>3, <2>4
  <1>5. /\ StackBar \in Seq({PositionAt(k) : k \in 1 .. n + 1})
        /\ Len(StackBar) = n + 1
        /\ \A k \in 1 .. n + 1 : StackBar[k] = PositionAt(k)
        /\ StackBar[n + 1] = [cells |-> cells, side |-> sideToMove]
    BY StackIsSequence DEF StackShape, Current
  <1>6. /\ StackBar' \in Seq({PositionAt(k)' : k \in 1 .. n + 2})
        /\ Len(StackBar') = n + 2
        /\ \A k \in 1 .. n + 2 : StackBar'[k] = PositionAt(k)'
        /\ StackBar'[n + 2] = top
    <2>1. /\ StackBar' \in Seq({PositionAt(k)' : k \in 1 .. Len(history') + 1})
          /\ Len(StackBar') = Len(history') + 1
          /\ \A k \in 1 .. Len(history') + 1 : StackBar'[k] = PositionAt(k)'
          /\ StackBar'[Len(history') + 1] = Current'
      <3>1. StackShape' BY StackIsSequence, PTL
      <3> QED BY <3>1 DEF StackShape
    <2>2. Len(history') + 1 = n + 2 BY <1>2, <1>3
    <2>3. Current' = top BY <1>1 DEF Current
    <2> QED BY <2>1, <2>2, <2>3
  <1>7. StackBar' = Append(StackBar, top)
    <2> DEFINE q == Append(StackBar, top)
               P == {PositionAt(k) : k \in 1 .. n + 1} \union {top}
               Q == {PositionAt(k)' : k \in 1 .. n + 2}
    <2>1. /\ q \in Seq(P) /\ Len(q) = n + 2
          /\ \A k \in 1 .. n + 1 : q[k] = StackBar[k]
          /\ q[n + 2] = top
      <3> HIDE DEF top
      <3> QED BY <1>2, <1>5
    <2>2. \A k \in 1 .. n + 2 : StackBar'[k] = q[k]
      <3>1. \A k \in 1 .. n + 2 : k \in 1 .. n + 1 \/ k = n + 2 BY <1>2
      <3> QED BY <1>4, <1>5, <1>6, <2>1, <3>1
    <2>3. n + 2 \in Nat BY <1>2
    <2>4. StackBar' \in Seq(Q) /\ Len(StackBar') = n + 2 BY <1>6
    <2> HIDE DEF q, P, Q, n
    <2>5. StackBar' = q BY <2>1, <2>2, <2>3, <2>4, SameSequence
    <2> QED BY <2>5 DEF q
  <1>8. i \in 0 .. Area - 1 /\ stone \in Stack!PStone /\ Stack!Opposite[stone] = Opponent[stone]
    BY DEF Index, Stack!PStone, Playable, Stack!Opposite, Opponent
  <1>9. Stack!Top = Current
    BY <1>5 DEF Stack!Top, StackBar, Current
  <1> QED BY <1>1, <1>7, <1>8, <1>9 DEF Stack!Push, StackBar, Current

(* unmakeMove pops.                                                         *)
LEMMA UnmakePops ==
  ASSUME BInv, BaseTypes', UnmakeMove
  PROVE  Stack!Pop
  <1> DEFINE n == Len(history)
             u == history[n]
  <1>1. /\ n \in Nat \ {0} /\ u \in UndoState
        /\ sideToMove' = u.previousSide
        /\ Len(history') = n - 1
        /\ \A k \in 1 .. n - 1 : history'[k] = history[k]
        /\ cells' = CellsBefore(n)
        /\ \A k \in 1 .. n - 1 : CellsBefore(k)' = CellsBefore(k)
    <2> HIDE DEF n, u
    <2> QED BY CellsAfterUnmake DEF n, u, BInv
  <1>2. /\ StackBar \in Seq({PositionAt(k) : k \in 1 .. n + 1})
        /\ Len(StackBar) = n + 1
        /\ \A k \in 1 .. n + 1 : StackBar[k] = PositionAt(k)
    BY StackIsSequence DEF StackShape, BInv
  <1>3. /\ StackBar' \in Seq({PositionAt(k)' : k \in 1 .. n})
        /\ Len(StackBar') = n
        /\ \A k \in 1 .. n : StackBar'[k] = PositionAt(k)'
    <2>1. StackShape' BY StackIsSequence, PTL
    <2>2. Len(history') + 1 = n BY <1>1
    <2>3. /\ StackBar' \in Seq({PositionAt(k)' : k \in 1 .. Len(history') + 1})
          /\ Len(StackBar') = Len(history') + 1
          /\ \A k \in 1 .. Len(history') + 1 : StackBar'[k] = PositionAt(k)'
      BY <2>1 DEF StackShape
    <2> QED BY <2>2, <2>3
  <1>4. ASSUME NEW k \in 1 .. n PROVE PositionAt(k)' = PositionAt(k)
    <2>1. PositionAt(k) = [cells |-> CellsBefore(k), side |-> history[k].previousSide]
      BY <1>1 DEF PositionAt
    <2>2. CASE k = n
      <3>1. k > Len(history') BY <1>1, <2>2
      <3>2. PositionAt(k)' = [cells |-> cells', side |-> sideToMove'] BY <3>1 DEF PositionAt
      <3> QED BY <1>1, <2>1, <2>2, <3>2
    <2>3. CASE k \in 1 .. n - 1
      <3>1. ~(k > Len(history')) BY <1>1, <2>3
      <3>2. PositionAt(k)' = [cells |-> CellsBefore(k)', side |-> history'[k].previousSide]
        BY <3>1 DEF PositionAt
      <3> QED BY <1>1, <2>1, <2>3, <3>2
    <2> QED BY <1>1, <2>2, <2>3
  <1>5. StackBar' = SubSeq(StackBar, 1, Len(StackBar) - 1)
    <2> DEFINE P == {PositionAt(k) : k \in 1 .. n + 1}
               Q == {PositionAt(k)' : k \in 1 .. n}
               q == SubSeq(StackBar, 1, n)
    <2>1. n \in Nat \ {0} /\ Len(StackBar) - 1 = n BY <1>1, <1>2
    <2>2. StackBar \in Seq(P) /\ StackBar' \in Seq(Q) BY <1>2, <1>3
    <2>3. \A k \in 1 .. n : StackBar[k] \in P
      <3>1. \A k \in 1 .. n : k \in 1 .. n + 1 BY <2>1
      <3> QED BY <1>2, <3>1
    <2> HIDE DEF P, Q, n
    <2>4. q \in Seq(P) /\ Len(q) = n /\ \A k \in 1 .. n : q[k] = StackBar[k]
      <3>1. /\ q \in Seq(P)
            /\ Len(q) = IF 1 <= n THEN n - 1 + 1 ELSE 0
            /\ \A k \in 1 .. n - 1 + 1 : q[k] = StackBar[1 + k - 1]
        <4>1. 1 \in Int /\ n \in Int BY <2>1
        <4> QED BY <2>2, <2>3, <4>1, SubSeqProperties
      <3> QED BY <2>1, <3>1
    <2>5. \A k \in 1 .. n : StackBar'[k] = q[k]
      <3>1. \A k \in 1 .. n : k \in 1 .. n + 1 BY <2>1
      <3> QED BY <1>2, <1>3, <1>4, <2>4, <3>1
    <2>6. Len(StackBar') = n /\ n \in Nat BY <1>3, <2>1
    <2> HIDE DEF q
    <2>7. StackBar' = q BY <2>2, <2>4, <2>5, <2>6, SameSequence
    <2> QED BY <2>1, <2>7 DEF q
  <1>6. Len(StackBar) > 1 BY <1>1, <1>2
  <1> QED BY <1>5, <1>6 DEF Stack!Pop, StackBar

-----------------------------------------------------------------------------
(* The default constructor makes a stack of one empty position.             *)
LEMMA InitIsStack == Init => Stack!StackInit
  <1> SUFFICES ASSUME Init PROVE Stack!StackInit OBVIOUS
  <1>1. BaseTypes /\ history = <<>> BY InitBoard DEF BInv, Init
  <1>2. StackBar = <<Current>> BY <1>1, EmptyLogIsSetup DEF SetupShape
  <1>3. /\ sideToMove \in Stack!PStone
        /\ Current = [cells |-> [i \in 0 .. Area - 1 |-> "Empty"], side |-> sideToMove]
    BY DEF Init, Cleared, Current, Index, Playable, Stack!PStone
  <1> QED BY <1>2, <1>3 DEF Stack!StackInit, StackBar

(* Every operation is one of the stack, or leaves it unchanged.              *)
LEMMA NextIsStack == BInv /\ BInv' /\ [Next]_vars => [Stack!StackNext]_StackBar
  <1> SUFFICES ASSUME BInv, BInv', [Next]_vars
               PROVE  Stack!StackNext \/ StackBar' = StackBar
    OBVIOUS
  <1>1. BaseTypes /\ BaseTypes' BY DEF BInv
  <1>2. ASSUME history' = <<>> PROVE Stack!Setup
    <2>1. SetupShape' BY <1>1, EmptyLogIsSetup, PTL
    <2>2. StackBar' = <<Current'>> /\ Current' \in Stack!Position BY <1>2, <2>1 DEF SetupShape
    <2> QED BY <2>2 DEF Stack!Setup, StackBar
  <1>3. ASSUME NEW i \in Index, NEW stone \in Playable, MakeMove(i, stone) PROVE Stack!Push
    BY <1>1, <1>3, MovePushes
  <1>4. ASSUME UnmakeMove PROVE Stack!Pop BY <1>1, <1>4, UnmakePops
  <1>5. ASSUME UNCHANGED vars PROVE StackBar' = StackBar
    BY <1>5 DEF vars, StackBar, PositionAt, CellsBefore
  <1>6. CASE \/ \E side \in Playable : Clear(side) \/ SetSideToMove(side)
             \/ \E newCells \in [Index -> Cell], side \in Playable : Load(newCells, side)
             \/ RecomputeHash
             \/ \E i \in Index, stone \in Cell : SetCell(i, stone)
    <2>1. history' = <<>>
      BY <1>6 DEF Clear, SetSideToMove, Load, RecomputeHash, SetCell
    <2> QED BY <1>2, <2>1 DEF Stack!StackNext
  <1> QED BY <1>3, <1>4, <1>5, <1>6 DEF Next, Stack!StackNext

(* board.h: unmakeMove restores the exact prior state.  On a board of any    *)
(* size, however deep the log, the board behaves as a stack of positions.    *)
THEOREM StackIsImplemented == Spec => ImplementsPositionStack
  <1>1. BInv /\ BInv' /\ [Next]_vars => [Stack!StackNext]_StackBar BY NextIsStack
  <1> QED
    BY <1>1, InitIsStack, BoardInvariance, PTL
    DEF Spec, ImplementsPositionStack, Stack!StackSpec, StackBar
=============================================================================
