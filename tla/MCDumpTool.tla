---------------------------- MODULE MCDumpTool -----------------------------
(* Instances of DumpTool: two devices, one of them named twice.            *)
EXTENDS DumpTool

CONSTANTS rx0, rx1

TwiceNamed == <<rx0, rx1, rx0>>
=============================================================================
