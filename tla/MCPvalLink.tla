---------------------------- MODULE MCPvalLink ----------------------------
(* Instances of PvalLink.                                                  *)
EXTENDS PvalLink

CONSTANTS d1, d2, p1, p2

TxOnOrOff == {[tx |-> b, rx |-> FALSE] : b \in BOOLEAN}
=============================================================================
