------------------------------ MODULE MCRules -------------------------------
(* Instances of RulesRun for TLC.                                           *)
EXTENDS RulesRun

(* A row from edge to edge and a falling diagonal through the move.         *)
Cross == [given |-> {}, asked |-> <<3, 3>>,
          free |-> {<<x, 3>> : x \in Coordinate \ {3}} \union {<<3 + k, 3 - k>> : k \in {-2, -1, 1, 2}},
          blocks |-> {<<0, 3>>, <<5, 3>>, <<1, 5>>}]

(* A rising diagonal through the move and, across it, a column through the  *)
(* move and one through the point that extends the diagonal.                *)
Comb == [given |-> {}, asked |-> <<2, 2>>,
         free |-> {<<1, 1>>, <<3, 3>>, <<4, 4>>, <<5, 5>>, <<2, 1>>, <<2, 3>>, <<2, 4>>,
                   <<4, 2>>, <<4, 3>>, <<4, 6>>},
         blocks |-> {<<2, 0>>, <<4, 5>>, <<5, 5>>}]

(* Two threes, the extension of one of which may be a double three.         *)
Deep == [given |-> {<<3, 3>>, <<5, 5>>, <<2, 1>>, <<2, 3>>}, asked |-> <<2, 2>>,
         free |-> {<<4, 3>>, <<4, 5>>, <<3, 4>>, <<5, 4>>, <<4, 6>>, <<6, 4>>, <<4, 2>>, <<1, 4>>},
         blocks |-> {<<4, 6>>}]

AllSettings == {Cross, Comb, Deep}
=============================================================================
