---------------------------- MODULE MCPvalXmit ----------------------------
(* Instances of PvalXmit.  The packets are IP packets; one that is not     *)
(* takes the way of an interface without ipopt.                            *)
EXTENDS PvalXmit, TLC

CONSTANTS cpu0, cpu1, k1, k2

AllConfigs == [Switches -> BOOLEAN]

(* CPUs are alike, and so are the packets, which all are IP.               *)
Symmetry == Permutations(CPUs) \cup Permutations(Pkts)
=============================================================================
