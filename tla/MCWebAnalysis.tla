--------------------------- MODULE MCWebAnalysis ---------------------------
(* Instances of WebAnalysis for TLC.                                        *)
EXTENDS WebAnalysis

CONSTANTS h1, h2, p1, p2

TwoJobs      == {h1, h2}
TwoPositions == {p1, p2}
=============================================================================
