---------------------------- MODULE MCProxyExchange ----------------------------
(* A small instance of ProxyExchange for TLC.  No symmetry: the run checks *)
(* liveness.                                                               *)
EXTENDS ProxyExchange

CONSTANTS c1, c2, s1, s2
=============================================================================
