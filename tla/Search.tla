------------------------------- MODULE Search -------------------------------
(***************************************************************************)
(* The algorithms of SearchContext (engine/search.cpp): the transposition     *)
(* table, quiescence, negamax with a principal variation search, the root     *)
(* and the forced-win solver.  What the code keeps in members an operator     *)
(* takes and returns: the table, and the nodes the solver has used.          *)
(*                                                                         *)
(* Scores are scaled down.  Moves are tried with the table's move first and   *)
(* then by cell: killers, history and shape scores only order them.  The      *)
(* limit on candidates is not reached.  A timeout or a cancellation inside     *)
(* negamax abandons the iteration and its table, see SearchRun.               *)
(***************************************************************************)
EXTENDS LineGame

CONSTANTS MaxPly,      \* kMaxSearchPly
          TableLimit,  \* entries after which the table is cleared
          Mate,        \* kMateScore
          Threshold    \* kMateThreshold

ASSUME ScoreAssumption ==
  /\ {MaxPly, TableLimit, Mate, Threshold} \subseteq Nat \ {0}
  /\ Threshold + MaxPly + 2 < Mate

Infinity == Mate + MaxPly + 2

NoMove == -1

-----------------------------------------------------------------------------
(* The transposition table.                                                *)

ScoreToTable(score, ply) ==
  CASE score > Threshold  -> score + ply
    [] score < -Threshold -> score - ply
    [] OTHER              -> score

ScoreFromTable_Plain(score, ply) == score
ScoreFromTable(score, ply) ==
  CASE score > Threshold  -> score - ply
    [] score < -Threshold -> score + ply
    [] OTHER              -> score

StoreTable(t, p, d, score, bound, pv, ply) ==
  LET kept == IF Cardinality(DOMAIN t) > TableLimit THEN << >> ELSE t IN
  IF p \in DOMAIN kept /\ d < kept[p].depth
  THEN kept
  ELSE [q \in DOMAIN kept \union {p} |->
         IF q = p
         THEN [depth |-> d, score |-> ScoreToTable(score, ply), bound |-> bound, pv |-> pv]
         ELSE kept[q]]

(* Bound of a score found with the window given by the caller.              *)
BoundOf_Swapped(score, alpha, beta) ==
  CASE score <= alpha -> "lower"
    [] score > alpha /\ score >= beta -> "upper"
    [] OTHER -> "exact"
BoundOf(score, alpha, beta) ==
  CASE score <= alpha -> "upper"
    [] score > alpha /\ score >= beta -> "lower"
    [] OTHER -> "exact"

Value(score, pv, t) == [score |-> score, pv |-> pv, table |-> t]

-----------------------------------------------------------------------------
(* Lines of play reported with a proven loss.                              *)

WaitingMoves(p, excluded) == LegalMoves(p) \ excluded

ImmediateLossPv(p, threats) ==
  LET blocks  == {m \in threats : IsLegalMove(p, m, p.side)}
      waiting == WaitingMoves(p, {})
  IN  CASE blocks # {}  -> <<First(blocks), First(threats \ {First(blocks)})>>
        [] blocks = {} /\ waiting # {} -> <<First(waiting), First(threats)>>
        [] OTHER -> << >>

UnblockableLossPv(p, threat) ==
  LET waiting == WaitingMoves(p, {threat}) IN
  IF waiting # {} THEN <<First(waiting), threat>> ELSE << >>

-----------------------------------------------------------------------------
(* quiescence: forced blocks are followed a little beyond the horizon.  It   *)
(* does not look at its window.                                            *)

RECURSIVE Quiescence(_, _, _, _)
Quiescence(p, ply, remaining, threats) ==
  IF remaining = 0 \/ threats = {}
  THEN [score |-> Evaluate(p), pv |-> << >>]
  ELSE IF Cardinality(threats) >= 2
  THEN [score |-> -Mate + ply + 2, pv |-> ImmediateLossPv(p, threats)]
  ELSE LET block == First(threats)
           child == Played(p, block)
           wins  == WinningMoves(child, child.side)
           later == Quiescence(child, ply + 1, remaining - 1, WinningMoves(child, p.side))
       IN  IF ~IsLegalMove(p, block, p.side)
           THEN [score |-> -Mate + ply + 2, pv |-> UnblockableLossPv(p, block)]
           ELSE IF wins # {}
           THEN [score |-> -(Mate - (ply + 2)), pv |-> <<block, First(wins)>>]
           ELSE [score |-> -later.score, pv |-> <<block>> \o later.pv]

-----------------------------------------------------------------------------
(* negamax.                                                                *)

(* The table's move first.                                                 *)
Ordered(moves, preferred) ==
  IF preferred \in moves
  THEN <<preferred>> \o InOrder(moves \ {preferred})
  ELSE InOrder(moves)

Preferred(t, p) == IF p \in DOMAIN t /\ t[p].pv # << >> THEN t[p].pv[1] ELSE NoMove

(* An entry serves when it was searched as deep.                            *)
Usable(t, p, d) == p \in DOMAIN t /\ t[p].depth >= d

(* A null-window result inside the window is searched again.                *)
Research_Never(score, alpha, beta) == FALSE
Research(score, alpha, beta) == score > alpha /\ score < beta

Better(best, m, found) ==
  IF -found.score > best.score
  THEN Value(-found.score, <<m>> \o found.pv, found.table)
  ELSE [best EXCEPT !.table = found.table]

RECURSIVE Negamax(_, _, _, _, _, _), BestOf(_, _, _, _, _, _)

(* One move, searched d plies deep: the first with the full window, the       *)
(* others with the null window and, where that says too little, again.       *)
Again(child, d, ply, window, scout) ==
  IF Research(-scout.score, window.alpha, window.beta)
  THEN Negamax(child, d, ply, -window.beta, -window.alpha, scout.table)
  ELSE scout

Tried(child, isFirst, d, ply, window, t) ==
  IF isFirst
  THEN Negamax(child, d, ply, -window.beta, -window.alpha, t)
  ELSE Again(child, d, ply, window,
             Negamax(child, d, ply, -window.alpha - 1, -window.alpha, t))

Raised(window, found) == [window EXCEPT !.alpha = Max({@, -found.score})]

(* The rest of the moves, unless the window has closed.                     *)
Continue(p, moves, d, ply, window, best) ==
  IF window.alpha >= window.beta
  THEN best
  ELSE BestOf(p, moves, d, ply, window, best)

Advance(p, moves, d, ply, window, best, found) ==
  Continue(p, Tail(moves), d, ply, Raised(window, found), Better(best, Head(moves), found))

(* The loop over the moves; there is no best one before the first.           *)
BestOf(p, moves, d, ply, window, best) ==
  IF moves = << >>
  THEN best
  ELSE Advance(p, moves, d, ply, window, best,
               Tried(Played(p, Head(moves)), best.pv = << >>, d - 1, ply + 1, window, best.table))

(* What the table says about the window.                                    *)
Narrowed(window, bound, stored) ==
  CASE bound = "lower" -> [window EXCEPT !.alpha = Max({@, stored})]
    [] bound = "upper" -> [window EXCEPT !.beta = Min({@, stored})]
    [] OTHER -> window

Window(t, p, d, ply, alpha, beta) ==
  IF Usable(t, p, d)
  THEN Narrowed([alpha |-> alpha, beta |-> beta], t[p].bound, ScoreFromTable(t[p].score, ply))
  ELSE [alpha |-> alpha, beta |-> beta]

(* Values returned with an entry for the table.                             *)
Recorded(p, d, ply, score, bound, pv, t) ==
  Value(score, pv, StoreTable(t, p, d, score, bound, pv, ply))

Proven(p, ply, score, pv, t) == Recorded(p, MaxPly, ply, score, "exact", pv, t)

Static(p, ply, quiet, t) == Recorded(p, 0, ply, quiet.score, "exact", quiet.pv, t)

Searched(p, d, ply, alpha, beta, best) ==
  Recorded(p, d, ply, best.score, BoundOf(best.score, alpha, beta), best.pv, best.table)

(* The node once the table has nothing to say.                              *)
Expand(p, d, ply, alpha, beta, window, wins, threats, t) ==
  IF wins # {}
  THEN Proven(p, ply, Mate - (ply + 1), <<First(wins)>>, t)
  ELSE IF Cardinality(threats) >= 2
  THEN Proven(p, ply, -Mate + ply + 2, ImmediateLossPv(p, threats), t)
  ELSE IF d <= 0
  THEN Static(p, ply, Quiescence(p, ply, 3, threats), t)
  ELSE IF threats # {} /\ ~IsLegalMove(p, First(threats), p.side)
  THEN Proven(p, ply, -Mate + ply + 2, UnblockableLossPv(p, First(threats)), t)
  ELSE IF threats = {} /\ LegalMoves(p) = {}
  THEN Value(0, << >>, t)
  ELSE Searched(p, d, ply, alpha, beta,
         BestOf(p, Ordered(IF threats # {} THEN threats ELSE LegalMoves(p), Preferred(t, p)),
                d, ply, window, Value(-Infinity, << >>, t)))

Probed(p, d, ply, alpha, beta, window, t) ==
  IF Usable(t, p, d) /\ (t[p].bound = "exact" \/ window.alpha >= window.beta)
  THEN Value(ScoreFromTable(t[p].score, ply), IF t[p].bound = "exact" THEN t[p].pv ELSE << >>, t)
  ELSE Expand(p, d, ply, alpha, beta, window,
              WinningMoves(p, p.side), WinningMoves(p, Opponent(p.side)), t)

Negamax(p, d, ply, alpha, beta, t) ==
  IF ply >= MaxPly \/ Empty(p) = {}
  THEN Value(0, << >>, t)
  ELSE Probed(p, d, ply, alpha, beta, Window(t, p, d, ply, alpha, beta), t)

-----------------------------------------------------------------------------
(* searchRoot: every move with the full window.                            *)

RootMoves(p) ==
  LET wins    == WinningMoves(p, p.side)
      threats == WinningMoves(p, Opponent(p.side))
  IN  IF wins # {} THEN wins ELSE IF threats # {} THEN threats ELSE LegalMoves(p)

(* The score the child would have to give for the move to be worth as much.  *)
RootChild(p, d, m, t) ==
  IF Completes(p, m, p.side)
  THEN Value(-(Mate - 1), << >>, t)
  ELSE Negamax(Played(p, m), d - 1, 1, -Infinity, Infinity, t)

RootBest(p, d, moves, t) ==
  FoldLeft(LAMBDA best, m : Better(best, m, RootChild(p, d, m, best.table)),
           Value(-Infinity, << >>, t), moves)

RootLoss(pv, t) == Value(-Mate + 2, pv, t)

RootExpand(p, d, preferred, wins, threats, t) ==
  IF wins = {} /\ Cardinality(threats) >= 2
  THEN RootLoss(ImmediateLossPv(p, threats), t)
  ELSE IF wins = {} /\ threats # {} /\ ~IsLegalMove(p, First(threats), p.side)
  THEN RootLoss(UnblockableLossPv(p, First(threats)), t)
  ELSE IF RootMoves(p) = {}
  THEN Value(IF Empty(p) = {} THEN 0 ELSE -Mate + 1, << >>, t)
  ELSE Searched(p, d, 0, -Infinity, Infinity,
                RootBest(p, d, Ordered(RootMoves(p), preferred), t))

SearchRoot(p, d, preferred, t) ==
  RootExpand(p, d, preferred, WinningMoves(p, p.side), WinningMoves(p, Opponent(p.side)), t)

-----------------------------------------------------------------------------
(* solveForced.  A line is forced or not; `used' counts the nodes, and once  *)
(* they exceed the budget the time is up for good.                          *)

NotForced(used)         == [forced |-> FALSE, plies |-> 0, pv |-> << >>, used |-> used]
Forced(plies, pv, used) == [forced |-> TRUE, plies |-> plies, pv |-> pv, used |-> used]

(* couldCreateFour: a line through the move without a stone of the other    *)
(* side and with all but two of the attacker's.                            *)
CouldCreateFour(p, m, s) ==
  \E l \in Line :
    /\ m \in l
    /\ l \intersect p[Opponent(s)] = {}
    /\ Cardinality(l \intersect p[s]) >= LineLength - 2

ForcingMoves(p, s) == {m \in LegalMoves(p) : CouldCreateFour(p, m, s)}

Longer(line, m) == [line EXCEPT !.plies = @ + 1, !.pv = <<m>> \o @]

(* The defender has a line of its own to complete.                          *)
Interrupted_Never(p, attacker) == FALSE
Interrupted(p, attacker) == p.side # attacker /\ WinningMoves(p, p.side) # {}

RECURSIVE SolveForced(_, _, _, _, _), BestAttack(_, _, _, _, _, _), LongestDefense(_, _, _, _, _, _)

BestAttack(p, moves, remaining, budget, best, n) ==
  IF n > Len(moves) \/ best.used > budget
  THEN best
  ELSE LET next  == Played(p, moves[n])
           child == SolveForced(next, p.side, remaining - 1, budget, best.used)
           line  == Longer(child, moves[n])
       IN  BestAttack(p, moves, remaining, budget,
             IF WinningMoves(next, p.side) = {}
             THEN best
             ELSE IF child.forced /\ (~best.forced \/ line.plies < best.plies)
             THEN line
             ELSE [best EXCEPT !.used = child.used],
             n + 1)

LongestDefense(p, blocks, remaining, budget, longest, n) ==
  IF n > Len(blocks)
  THEN longest
  ELSE LET child == SolveForced(Played(p, blocks[n]), Opponent(p.side), remaining - 1, budget,
                                longest.used)
           line  == Longer(child, blocks[n])
       IN  IF ~child.forced
           THEN NotForced(child.used)
           ELSE LongestDefense(p, blocks, remaining, budget,
                  IF line.plies > longest.plies THEN line ELSE [longest EXCEPT !.used = child.used],
                  n + 1)

SolveForced(p, attacker, remaining, budget, before) ==
  LET used    == before + 1
      wins    == WinningMoves(p, p.side)
      threats == WinningMoves(p, attacker)
      blocks  == {m \in threats : IsLegalMove(p, m, p.side)}
      waiting == WaitingMoves(p, threats)
      after   == WinningMoves(Played(p, First(waiting)), attacker)
  IN  IF used > budget \/ remaining <= 0
      THEN NotForced(used)
      ELSE IF Interrupted(p, attacker)
      THEN NotForced(used)
      ELSE IF p.side = attacker
      THEN IF wins # {} THEN Forced(1, <<First(wins)>>, used) ELSE
           IF remaining < 3
           THEN NotForced(used)
           ELSE BestAttack(p, InOrder(ForcingMoves(p, attacker)), remaining, budget,
                           NotForced(used), 1)
      ELSE IF threats = {} \/ remaining < 2
      THEN NotForced(used)
      ELSE IF blocks # {}
      THEN LongestDefense(p, InOrder(blocks), remaining, budget, Forced(0, << >>, used), 1)
      ELSE IF waiting = {}
      THEN Forced(1, <<First(threats)>>, used)
      ELSE IF after = {}
      THEN NotForced(used)
      ELSE Forced(2, <<First(waiting), First(after)>>, used)
=============================================================================
