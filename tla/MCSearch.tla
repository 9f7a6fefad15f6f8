------------------------------ MODULE MCSearch ------------------------------
(* An instance of SearchRun for TLC: four in a row on a board of four rows of *)
(* four cells.                                                             *)
EXTENDS SearchRun

Cells == 0 .. 15

At(x, y) == 4 * y + x

Rows ==
  {{At(x, i) : i \in 0 .. 3} : x \in 0 .. 3} \union {{At(i, y) : i \in 0 .. 3} : y \in 0 .. 3}
    \union {{At(i, i) : i \in 0 .. 3}, {At(i, 3 - i) : i \in 0 .. 3}}

Setup(b, w, f) == [black : {b}, white : {w}, side : Stone, forbidden : {f}]

(* Both diagonals in every colouring with four stones each, and three stones *)
(* at the edges: threats, double threats, forbidden blocks, finished games.  *)
Diagonals == {At(i, i) : i \in 0 .. 3} \union {At(i, 3 - i) : i \in 0 .. 3}

Sharp ==
  UNION {Setup(b \union {1, 8}, (Diagonals \ b) \union {7}, f) :
           b \in kSubset(4, Diagonals), f \in {{}, {2, 13}}}

(* Eight stones and nothing decided: the windows and the table matter.       *)
Quiet ==
  UNION {Setup({2, 3, 9, 11}, {1, 6, 10, 15}, {}), Setup({1, 10, 13, 14}, {4, 9, 11, 12}, {}),
         Setup({1, 3, 8, 11}, {4, 9, 13, 15}, {5}), Setup({2, 5, 6, 15}, {1, 3, 10, 11}, {0})}

(* A draw, and a board on which Black may not move.                         *)
Stuck ==
  LET b == {0, 1, 6, 7, 8, 9, 14, 15} IN
  Setup(b, Cells \ b, {}) \union Setup(b, Cells \ (b \union {2, 13}), {2, 13})

Starts == Sharp \union Quiet \union Stuck

Budgets == {0, 3, 8, 100}
=============================================================================
