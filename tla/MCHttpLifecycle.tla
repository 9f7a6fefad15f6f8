-------------------------- MODULE MCHttpLifecycle ---------------------------
(* Instances of HttpLifecycle for TLC.                                      *)
EXTENDS HttpLifecycle, TLC

CONSTANTS main, other, k1, k2

OneController  == {main}
TwoControllers == {main, other}
OneConn        == {k1}
TwoConns       == {k1, k2}
=============================================================================
