----------------------------- MODULE SearchRun -----------------------------
(***************************************************************************)
(* SearchContext::run and runEstimate (engine/search.cpp): one search of one *)
(* position.  An action is one stage.  A timeout or a cancellation ends the   *)
(* search wherever it strikes and nothing of the stage under way is used, so  *)
(* it is enough that it may strike in every stage.                          *)
(***************************************************************************)
EXTENDS Search

CONSTANTS Start,      \* the positions to be searched
          MaxDepth,   \* limits.maxDepth
          MatePlies,  \* limits.maxMatePlies
          Budget      \* nodes the solver may visit before its time is up

ASSUME StartAssumption == Start \subseteq Position
ASSUME LimitAssumption ==
  /\ {MaxDepth, MatePlies} \subseteq Nat \ {0}
  /\ Budget \subseteq Nat
  /\ MaxDepth <= MaxPly

VARIABLES
  board,      \* the position
  infinite,   \* limits_.infinite
  stage,      \* where run() is
  depth,      \* the next iteration
  table,      \* table_
  completed,  \* the last complete iteration
  finished,   \* hasCompletedIteration
  result      \* what run() returns

vars == <<board, infinite, stage, depth, table, completed, finished, result>>

NoWinner == "none"

NoIteration == [score |-> 0, pv |-> << >>]

(* matePlies is 0 where the code leaves it out; bestMove is the head of pv.  *)
Result(kind, winner, plies, score, pv) ==
  [kind |-> kind, winner |-> winner, plies |-> plies, score |-> score, pv |-> pv]

Pending == Result("none", NoWinner, 0, 0, << >>)

Init ==
  /\ board \in Start
  /\ infinite \in BOOLEAN
  /\ stage = "terminal"
  /\ depth = 1
  /\ table = << >>
  /\ completed = NoIteration
  /\ finished = FALSE
  /\ result = Pending

Returns(r) ==
  /\ result' = r
  /\ stage' = "done"
  /\ UNCHANGED <<board, infinite, depth, table, completed, finished>>

GoesTo(s) ==
  /\ stage' = s
  /\ UNCHANGED <<board, infinite, depth, table, completed, finished, result>>

-----------------------------------------------------------------------------
Rival == Opponent(board.side)

(* winners() and full().                                                   *)
TestTerminal ==
  /\ stage = "terminal"
  /\ \/ /\ Won(board, "black") /\ Won(board, "white")
        /\ Returns(Result("invalid", NoWinner, 0, 0, << >>))
     \/ \E s \in Stone :
          /\ Won(board, s) /\ ~Won(board, Opponent(s))
          /\ Returns(Result("forced_mate", s, 0, IF s = board.side THEN Mate ELSE -Mate, << >>))
     \/ /\ \A s \in Stone : ~Won(board, s)
        /\ IF Empty(board) = {}
           THEN Returns(Result("draw", NoWinner, 0, 0, << >>))
           ELSE GoesTo("threats")

(* The two proofs of an immediate loss.                                     *)
TestThreats ==
  LET threats == WinningMoves(board, Rival)
      Loss(pv) == Result("forced_mate", Rival, 2, -Mate + 2, pv)
  IN
  /\ stage = "threats"
  /\ IF WinningMoves(board, board.side) # {} \/ threats = {}
     THEN GoesTo("solve")
     ELSE IF Cardinality(threats) >= 2
     THEN Returns(Loss(ImmediateLossPv(board, threats)))
     ELSE IF ~IsLegalMove(board, First(threats), board.side)
     THEN Returns(Loss(UnblockableLossPv(board, First(threats))))
     ELSE GoesTo("solve")

(* The solver, whose time may be up after any number of nodes.              *)
Solve ==
  /\ stage = "solve"
  /\ \E budget \in Budget :
       LET line == SolveForced(board, board.side, MatePlies, budget, 0) IN
       IF Cardinality(Cell \ Empty(board)) >= 4 /\ line.forced
       THEN Returns(Result("forced_mate", board.side, line.plies, Mate - line.plies, line.pv))
       ELSE GoesTo("iterate")

LastDepth == IF infinite THEN MaxPly ELSE MaxDepth

PreferredMove == IF completed.pv = << >> THEN NoMove ELSE completed.pv[1]

(* One iteration of runEstimate.                                            *)
Iterate ==
  /\ stage = "iterate"
  /\ depth <= LastDepth
  /\ \E root \in {SearchRoot(board, depth, PreferredMove, table)} :
       /\ completed' = [score |-> root.score, pv |-> root.pv]
       /\ table' = root.table
  /\ finished' = TRUE
  /\ depth' = depth + 1
  /\ UNCHANGED <<board, infinite, stage, result>>

IterationsEnd ==
  /\ stage = "iterate"
  /\ depth > LastDepth
  /\ GoesTo("finish")

(* SearchTimeout in an iteration.                                           *)
TimesOut ==
  /\ stage = "iterate"
  /\ depth <= LastDepth
  /\ ~infinite
  /\ GoesTo("finish")

(* Without a complete iteration the move that is ordered first is returned:  *)
(* a win, a block, any other.                                              *)
Candidate ==
  LET blocks == WinningMoves(board, Rival) \intersect LegalMoves(board) IN
  CASE WinningMoves(board, board.side) # {} -> First(WinningMoves(board, board.side))
    [] WinningMoves(board, board.side) = {} /\ blocks # {} -> First(blocks)
    [] OTHER -> First(LegalMoves(board))

Fallback_Nothing == completed
Fallback ==
  IF LegalMoves(board) = {}
  THEN completed
  ELSE [score |-> MovePotential(board, Candidate, board.side), pv |-> <<Candidate>>]

Finish ==
  LET last == IF finished THEN completed ELSE Fallback IN
  /\ stage = "finish"
  /\ Returns(Result("evaluation", NoWinner, 0, last.score, last.pv))

(* SearchCancelled, from any checkDeadline or from the solver.              *)
Cancelled ==
  /\ stage \in {"terminal", "solve", "iterate"}
  /\ stage = "iterate" => depth <= LastDepth
  /\ Returns(Result("cancelled", NoWinner, 0, 0, << >>))

(* SearchTimeout from the checkDeadline at the very beginning: run() does    *)
(* not catch it.                                                           *)
Escapes ==
  /\ stage = "terminal"
  /\ ~infinite
  /\ Returns(Result("timeout", NoWinner, 0, 0, << >>))

Returned == stage = "done" /\ UNCHANGED vars

Next ==
  \/ TestTerminal \/ TestThreats \/ Solve
  \/ Iterate \/ IterationsEnd \/ TimesOut \/ Finish
  \/ Cancelled \/ Escapes
  \/ Returned

Spec == Init /\ [][Next]_vars

-----------------------------------------------------------------------------
(* The value of a position at a depth, by plain minimax: no table, no        *)
(* window, no order of moves.                                              *)
RECURSIVE Minimax(_, _, _)
Minimax(p, d, ply) ==
  LET threats == WinningMoves(p, Opponent(p.side))
      blocks  == {m \in threats : IsLegalMove(p, m, p.side)}
      moves   == IF threats # {} THEN blocks ELSE LegalMoves(p)
  IN  IF ply >= MaxPly \/ Empty(p) = {} THEN 0
      ELSE IF WinningMoves(p, p.side) # {} THEN Mate - (ply + 1)
      ELSE IF Cardinality(threats) >= 2 THEN -Mate + ply + 2
      ELSE IF d <= 0 THEN Quiescence(p, ply, 3, threats).score
      ELSE IF threats # {} /\ blocks = {} THEN -Mate + ply + 2
      ELSE IF moves = {} THEN IF ply = 0 THEN -Mate + 1 ELSE 0
      ELSE Max({-Minimax(Played(p, m), d - 1, ply + 1) : m \in moves})

(* Neither the table, with what earlier iterations and other lines of play   *)
(* have left in it, nor the windows of the principal variation search change *)
(* the score of an iteration (README.md:16-17).                             *)
ScoreIsMinimax ==
  finished => completed.score = Minimax(board, depth - 1, 0)

Ply(p) == Cardinality(Empty(board)) - Cardinality(Empty(p))

(* Every entry of the table says something true about its position, proven   *)
(* ones at every depth (search.cpp:480-495, 598-604).                      *)
TableIsSound ==
  \A p \in DOMAIN table :
    LET e     == table[p]
        score == ScoreFromTable(e.score, Ply(p))
    IN
    \A d \in IF p # board /\ e.depth = MaxPly THEN {0, MaxPly} ELSE {e.depth} :
      LET value == Minimax(p, d, Ply(p)) IN
      CASE e.bound = "exact" -> value = score
        [] e.bound = "lower" -> value >= score
        [] e.bound = "upper" -> value <= score

(* What is reported as proven is a win by force, in no more plies than       *)
(* reported, even if the solver ran out of time ("只有 proven: true 的        *)
(* forced_mate 才显示几步杀", README.md:222-224).                              *)
ProofsHold ==
  result.kind = "forced_mate" =>
    \/ result.plies = 0 /\ Won(board, result.winner)
    \/ WinsWithin(board, result.winner, result.plies)

(* Scores of iterations that count the plies to a win are right, too, but    *)
(* for a side that cannot move at all.                                      *)
MateScoresHold ==
  finished /\ LegalMoves(board) # {} =>
    /\ completed.score > Threshold => WinsWithin(board, board.side, Mate - completed.score)
    /\ completed.score < -Threshold => WinsWithin(board, Rival, Mate + completed.score)

(* Whoever can move is told a legal move, unless the search was cancelled or *)
(* over before it began, and the whole line reported can be played, whatever *)
(* the table put together (search.cpp:284-303, 482-484).                    *)
RECURSIVE Playable(_, _)
Playable(p, pv) ==
  \/ pv = << >>
  \/ Head(pv) \in LegalMoves(p) /\ Playable(Played(p, Head(pv)), Tail(pv))

LineIsPlayable ==
  /\ Playable(board, result.pv)
  /\ Playable(board, completed.pv)
  /\ result.kind = "evaluation" \/ (result.kind = "forced_mate" /\ result.plies > 0) =>
       (LegalMoves(board) # {} => result.pv # << >>)
=============================================================================
