-------------------------- MODULE MCPvalTeardown ---------------------------
(* Instances of PvalTeardown.                                              *)
EXTENDS PvalTeardown

CONSTANTS p1, p2, k1, k2
=============================================================================
