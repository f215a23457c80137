--------------------------- MODULE MCIplinkPval ---------------------------
(* Instances of IplinkPval: full and abbreviated words, duplicates, words  *)
(* that mean nothing, missing values.                                      *)
EXTENDS IplinkPval

CONSTANTS u1, u2

(* The keywords that the words used below are prefixes of.                 *)
SomeWords ==
  [w \in {"link", "ipopt", "tx", "rxt", "txc", "rxcopy", "txb", "help", "on", "of", "o", "bad"} |->
     CASE w = "tx"  -> {"txtstamp", "txcopy", "txbusydrop"}
       [] w = "rxt" -> {"rxtstamp"}
       [] w = "txc" -> {"txcopy"}
       [] w = "txb" -> {"txbusydrop"}
       [] w = "of"  -> {"off"}
       [] w = "o"   -> {"on", "off"}
       [] w = "bad" -> {}
       [] OTHER     -> {w}]

SomeCommands == {
  <<"link", "eth0">>,
  <<"link", "eth0", "ipopt", "on", "txb", "of">>,
  <<"link", "on">>,
  <<"tx", "o", "rxt", "on">>,
  <<"txc", "on", "rxcopy", "of">>,
  <<"rxcopy", "on", "txc", "of">>,
  <<"ipopt", "of", "link", "eth0">>,
  <<"ipopt", "on", "ipopt", "of">>,
  <<"txc", "bad">>,
  <<"rxt", "of", "bad", "on">>,
  <<"rxcopy", "on", "help">>,
  <<"ipopt">> }
=============================================================================
