---------------------------- MODULE PacketFifo ----------------------------
(***************************************************************************)
(* What a pval ring promises the process that opened it: a bounded FIFO.   *)
(* The packets accepted since the flush at open are numbered 1, 2, ...;    *)
(* the reader gets them whole, in that order, each once, and only a full   *)
(* queue turns a packet away.                                              *)
(*                                                                         *)
(* The promise is off (clean = FALSE) from the moment a write is run into  *)
(* by a second write or by the flush of an open, until the next flush that *)
(* runs into none: the code has no lock that would exclude this.           *)
(***************************************************************************)
EXTENDS Naturals, Sequences

CONSTANT Capacity

VARIABLES
  queue,     \* packets accepted and not yet taken
  accepted,  \* number of the last packet accepted
  taken,     \* packets handed to the reader
  clean      \* whether the promise is on

vars == <<queue, accepted, taken, clean>>

Init == queue = <<>> /\ accepted = 0 /\ taken = 0 /\ clean = TRUE

Put ==
  /\ Len(queue) < Capacity
  /\ accepted' = accepted + 1
  /\ queue' = Append(queue, accepted')
  /\ UNCHANGED taken

Get ==
  /\ queue # <<>>
  /\ Head(queue) = taken + 1
  /\ queue' = Tail(queue)
  /\ taken' = taken + 1
  /\ UNCHANGED accepted

Flush == queue' = <<>> /\ accepted' = 0 /\ taken' = 0

Next ==
  \/ clean /\ clean' /\ (Put \/ Get)
  \/ clean' /\ Flush
  \/ ~clean'

Spec == Init /\ [][Next]_vars
=============================================================================
