------------------------------ MODULE LinesRun ------------------------------
(***************************************************************************)
(* Every position that stones on a few chosen points can make, and who wins *)
(* in it.                                                                  *)
(***************************************************************************)
EXTENDS Lines

CONSTANTS Settings,    \* stones given, points for more, for a white one; the move asked for
          MaxWhite     \* bound: white stones

ASSUME SettingsAssumption ==
  /\ Settings \subseteq [given : SUBSET Point, free : SUBSET Point, blocks : SUBSET Point,
                  asked : Point]
  /\ \A x \in Settings : x.asked \notin x.given \union x.free \union x.blocks

VARIABLES setting, cells
vars == <<setting, cells>>

Init ==
  /\ setting \in Settings
  /\ cells = [p \in Point |-> IF p \in setting.given THEN "Black" ELSE "Empty"]

(* Board::set; the stones are put on in no order, as a position is loaded.   *)
SetStone(p, s) ==
  /\ cells[p] = "Empty"
  /\ IF s = "Black" THEN p \in setting.free
     ELSE p \in setting.blocks /\ Cardinality(Of(cells, Point, s)) < MaxWhite
  /\ cells' = [cells EXCEPT ![p] = s]
  /\ UNCHANGED setting

Next == \E p \in setting.free \union setting.blocks, s \in Playable : SetStone(p, s)

Spec == Init /\ [][Next]_vars

-----------------------------------------------------------------------------
(* The parts of the engine that decide who wins do so alike: Rules for one   *)
(* placement, Rules for the whole board after it, and the evaluator, which   *)
(* skips most points (rules.cpp:325-383, evaluator.cpp:170-234, 377-394).    *)
WinsAgree ==
  \A rules \in RuleSet, s \in Playable :
    LET m     == setting.asked
        wins  == IsWinningPlacement(cells, m, s, rules)
        after == [cells EXCEPT ![m] = s]
    IN /\ wins <=> m \in WinningMoves(cells, s, rules)
       /\ s \notin Winners(cells, rules) => (wins <=> s \in Winners(after, rules))
=============================================================================
