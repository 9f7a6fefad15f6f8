--------------------------- MODULE MCAnalysisJobs ---------------------------
(* Instances of AnalysisJobs for TLC.                                       *)
EXTENDS AnalysisJobs, TLC

CONSTANTS c1, c2, j1, j2, j3

OneCaller  == {c1}
TwoCallers == {c1, c2}
OneJob     == {j1}
ThreeJobs  == {j1, j2, j3}

OnlyStart  == {"start"}
AllOps     == {"start", "poll", "stop"}

Finite   == {FALSE}
Both     == BOOLEAN

(* Callers and jobs are interchangeable; used in runs without liveness.     *)
Symmetry3 == Permutations(TwoCallers) \union Permutations(ThreeJobs)
=============================================================================
