------------------------------ MODULE RingOps ------------------------------
(***************************************************************************)
(* Index arithmetic of struct pval_ring (kmod/pval_main.c).  A ring is the *)
(* pair of its write point `head' and its read point `tail'; the bit mask  *)
(* is PVAL_SLOT_NUM - 1, so that `x & mask' is `x % SlotNum' (SlotNum is a *)
(* power of two).  One slot always stays free: head = tail means empty.    *)
(*                                                                         *)
(* The operators keep the names of the C functions, ring_emtpy included.   *)
(***************************************************************************)
EXTENDS Integers

CONSTANT SlotNum  \* PVAL_SLOT_NUM, the length of a ring

ASSUME SlotNumNat  == SlotNum \in Nat /\ SlotNum >= 2
ASSUME SlotNumPow2 == \E k \in 1..SlotNum : SlotNum = 2^k

mask  == SlotNum - 1
Index == 0..mask

ring_emtpy(head, tail) == head = tail

(* Mutants, the masking forgotten.                                         *)
MutFullUnmasked(head, tail) == head + 1 = tail
MutNextUnmasked(head) == head + 1

ring_full(head, tail) == (head + 1) % SlotNum = tail

ring_write_next(head) == (head + 1) % SlotNum

ring_read_next(tail) == (tail + 1) % SlotNum

ring_read_avail(head, tail) ==
  IF head > tail THEN head - tail
  ELSE IF tail > head THEN mask - tail + head + 1
  ELSE 0

(* Never called by the module: the code keeps it beside ring_read_avail.   *)
ring_write_avail(head, tail) ==
  IF tail > head THEN tail - head
  ELSE IF head > tail THEN mask - head + tail + 1
  ELSE 0

(***************************************************************************)
(* Where index x lies as seen from `tail', and the published slots: the    *)
(* ones a reader may take, from `tail' up to but excluding `head'.         *)
(***************************************************************************)
Offset(tail, x) == IF x >= tail THEN x - tail ELSE x + SlotNum - tail

Published(head, tail) ==
  {x \in Index : Offset(tail, x) < Offset(tail, head)}
=============================================================================
