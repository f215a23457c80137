---------------------------- MODULE MCPvalRing ----------------------------
(* Instances of PvalRing: the ring of one CPU in receive direction (one    *)
(* writer) and in transmit direction (two writers).                        *)
EXTENDS PvalRing

CONSTANTS softirq, xmit, worker, p1, p2

RxMasks == {}
TxMasks == {<<xmit, worker>>}
=============================================================================
