-------------------------- MODULE PvalRingProofs --------------------------
(***************************************************************************)
(* Proofs about RingOps and PvalRing for every ring length, every set of   *)
(* writers with any masking between them, and every set of processes.      *)
(***************************************************************************)
EXTENDS PvalRing, SequenceTheorems, TLAPS

(***************************************************************************)
(* The ring index arithmetic.                                              *)
(***************************************************************************)

(* `(i + 1) & mask' steps to the next index and wraps at the mask.         *)
LEMMA NextIndex ==
  ASSUME NEW i \in Index
  PROVE  (i + 1) % SlotNum = IF i = mask THEN 0 ELSE i + 1
  BY SlotNumNat, Z3 DEF Index, mask

(* Neither of the two next functions leaves the ring.                      *)
LEMMA NextIsIndex ==
  ASSUME NEW i \in Index
  PROVE  ring_write_next(i) \in Index /\ ring_read_next(i) \in Index
  BY NextIndex, SlotNumNat DEF ring_write_next, ring_read_next, Index, mask

(* A slot is less than a whole ring away from any other.                   *)
LEMMA OffsetRange ==
  ASSUME NEW t \in Index, NEW x \in Index
  PROVE  Offset(t, x) \in Index
  BY SlotNumNat DEF Offset, Index, mask

(* ring_read_avail counts the published slots: it is the distance from the *)
(* tail to the head, never more than the mask.                             *)
THEOREM ReadAvailIsDistance ==
  ASSUME NEW h \in Index, NEW t \in Index
  PROVE  /\ ring_read_avail(h, t) = Offset(t, h)
         /\ ring_read_avail(h, t) \in Index
         /\ ring_read_avail(h, t) = 0 <=> ring_emtpy(h, t)
  BY SlotNumNat DEF ring_read_avail, ring_emtpy, Offset, Index, mask

(* ring_full holds exactly when mask slots are published.                  *)
THEOREM FullIsMaskSlots ==
  ASSUME NEW h \in Index, NEW t \in Index
  PROVE  ring_full(h, t) <=> Offset(t, h) = mask
  BY NextIndex, SlotNumNat DEF ring_full, Offset, Index, mask

(* Advancing the head of a ring that is not full publishes the old head.   *)
LEMMA WriteNextPublishes ==
  ASSUME NEW h \in Index, NEW t \in Index, Offset(t, h) < mask
  PROVE  /\ Offset(t, ring_write_next(h)) = Offset(t, h) + 1
         /\ Published(ring_write_next(h), t) = Published(h, t) \cup {h}
<1>1. Offset(t, ring_write_next(h)) = Offset(t, h) + 1
  BY NextIndex, SlotNumNat DEF ring_write_next, Offset, Index, mask
<1>2. ASSUME NEW x \in Index
      PROVE  Offset(t, x) < Offset(t, h) + 1
               <=> Offset(t, x) < Offset(t, h) \/ x = h
  BY SlotNumNat DEF Offset, Index, mask
<1> QED
  BY <1>1, <1>2 DEF Published

(* Advancing the tail of a ring that is not empty takes the old tail, and  *)
(* every other published slot moves one place to the front.                *)
LEMMA ReadNextTakes ==
  ASSUME NEW h \in Index, NEW t \in Index, Offset(t, h) > 0
  PROVE  /\ Offset(ring_read_next(t), h) = Offset(t, h) - 1
         /\ \A x \in Index : x # t =>
              Offset(ring_read_next(t), x) = Offset(t, x) - 1
         /\ Published(h, ring_read_next(t)) = Published(h, t) \ {t}
<1>1. Offset(ring_read_next(t), h) = Offset(t, h) - 1
  BY NextIndex, SlotNumNat DEF ring_read_next, Offset, Index, mask
<1>2. \A x \in Index : x # t => Offset(ring_read_next(t), x) = Offset(t, x) - 1
  BY NextIndex, SlotNumNat DEF ring_read_next, Offset, Index, mask
<1>3. Offset(ring_read_next(t), t) = mask /\ Offset(t, h) \in Index
  BY NextIndex, SlotNumNat DEF ring_read_next, Offset, Index, mask
<1>4. ASSUME NEW x \in Index
      PROVE  Offset(ring_read_next(t), x) < Offset(t, h) - 1
               <=> Offset(t, x) < Offset(t, h) /\ x # t
  BY <1>2, <1>3, OffsetRange, SlotNumNat DEF Index, mask
<1> QED
  BY <1>1, <1>2, <1>4 DEF Published

(* Once the tail rests at 0, zeroing the head publishes nothing.           *)
LEMMA ZeroPublishesNothing == Offset(0, 0) = 0 /\ Published(0, 0) = {} /\ 0 \in Index
  BY SlotNumNat DEF Offset, Published, Index, mask

(* The slot at the head is free ...                                        *)
LEMMA HeadNotPublished ==
  ASSUME NEW h \in Index, NEW t \in Index
  PROVE  h \notin Published(h, t)
  BY SlotNumNat DEF Offset, Published, Index, mask

(* ... and the slot at the tail is the first published one.                *)
LEMMA TailPublished ==
  ASSUME NEW h \in Index, NEW t \in Index, Offset(t, h) > 0
  PROVE  t \in Published(h, t) /\ Offset(t, t) = 0
  BY SlotNumNat DEF Offset, Published, Index, mask

(* The i-th slot from the tail on is the one at offset i - 1.              *)
LEMMA SlotFromTail ==
  ASSUME NEW t \in Index, NEW i \in 1..SlotNum
  PROVE  /\ (t + i - 1) % SlotNum \in Index
         /\ Offset(t, (t + i - 1) % SlotNum) = i - 1
<1>1. CASE t + i - 1 < SlotNum
  <2>1. (t + i - 1) % SlotNum = t + i - 1
    BY <1>1, SlotNumNat, Z3 DEF Index, mask
  <2> QED
    BY <1>1, <2>1, SlotNumNat DEF Offset, Index, mask
<1>2. CASE t + i - 1 >= SlotNum
  <2>1. (t + i - 1) % SlotNum = t + i - 1 - SlotNum
    BY <1>2, SlotNumNat, Z3 DEF Index, mask
  <2> QED
    BY <1>2, <2>1, SlotNumNat DEF Offset, Index, mask
<1> QED
  BY <1>1, <1>2, SlotNumNat DEF Index, mask

(***************************************************************************)
(* The types.                                                              *)
(***************************************************************************)

(* Types are kept, so no interleaving takes head or tail out of the ring.  *)
(* A read in progress always has a slot left to take (else fcnt of         *)
(* pval_file_read_iter would wrap), which is why it is proved along.       *)
LoopCount == \A p \in Procs : fpc[p] \in {"copy", "next"} => fcnt[p] >= 1

(* Memory is zeroed by kcalloc and nobody has called anything yet.         *)
LEMMA InitTypes == Init => TypeOK /\ LoopCount
<1> SUFFICES ASSUME Init PROVE TypeOK /\ LoopCount
  OBVIOUS
<1>1. 0 \in Index
  BY ZeroPublishesNothing
<1>2. slots \in [Index -> Slot] /\ ulast \in Slot
  BY DEF Init, Slot
<1>3. wpc \in [Writers -> WriterPc] /\ fpc \in [Procs -> FilePc]
  BY DEF Init, WriterPc, FilePc, OpenPc, ReadPc
<1>4. /\ wslot \in [Writers -> Index] /\ whead \in [Writers -> Index]
      /\ wid \in [Writers -> Nat] /\ fcnt \in [Procs -> Nat]
  BY <1>1 DEF Init
<1>5. LoopCount
  BY DEF Init, LoopCount
<1>6. opened \in BOOLEAN /\ copy \in BOOLEAN /\ raced \in BOOLEAN
  BY DEF Init
<1> QED
  BY <1>1, <1>2, <1>3, <1>4, <1>5, <1>6 DEF Init, TypeOK

(* No step of a writer or of a file operation leaves the types.            *)
LEMMA NextTypes == TypeOK /\ LoopCount /\ [Next]_vars => TypeOK' /\ LoopCount'
<1> SUFFICES ASSUME TypeOK, LoopCount, [Next]_vars
             PROVE  TypeOK' /\ LoopCount'
  OBVIOUS
<1> USE DEF TypeOK, LoopCount, ringVars, writerVars, fileVars, ghostVars
<1>1. ASSUME NEW w \in Writers, Enter(w)
      PROVE  TypeOK' /\ LoopCount'
  BY <1>1 DEF Enter, WriterPc
<1>2. ASSUME NEW w \in Writers, Claim(w)
      PROVE  TypeOK' /\ LoopCount'
  <2>1. raced' \in BOOLEAN
    BY <1>2, Zenon DEF Claim
  <2> QED
    BY <1>2, <2>1 DEF Claim, WriterPc
<1>3. ASSUME NEW w \in Writers, WriteMeta(w)
      PROVE  TypeOK' /\ LoopCount'
  BY <1>3 DEF WriteMeta, WriterPc, Slot
<1>4. ASSUME NEW w \in Writers, WriteData(w)
      PROVE  TypeOK' /\ LoopCount'
  BY <1>4 DEF WriteData, WriterPc, Slot
<1>5. ASSUME NEW w \in Writers, LoadHead(w)
      PROVE  TypeOK' /\ LoopCount'
  BY <1>5 DEF LoadHead, WriterPc
<1>6. ASSUME NEW w \in Writers, StoreHead(w)
      PROVE  TypeOK' /\ LoopCount'
  BY <1>6, NextIsIndex DEF StoreHead, WriterPc
<1>7. CASE SetCopy
  BY <1>7 DEF SetCopy
<1>8. ASSUME NEW p \in Procs, OpenTest(p) \/ OpenSet(p)
      PROVE  TypeOK' /\ LoopCount'
  BY <1>8 DEF OpenTest, OpenSet, FilePc, OpenPc, ReadPc
<1>9. ASSUME NEW p \in Procs, OpenZeroHead(p)
      PROVE  TypeOK' /\ LoopCount'
  <2>1. raced' \in BOOLEAN
    BY <1>9, Zenon DEF OpenZeroHead
  <2> QED
    BY <1>9, <2>1, ZeroPublishesNothing DEF OpenZeroHead, FilePc, OpenPc, ReadPc
<1>10. ASSUME NEW p \in Procs, OpenZeroTail(p)
       PROVE  TypeOK' /\ LoopCount'
  BY <1>10, ZeroPublishesNothing DEF OpenZeroTail, FilePc, OpenPc, ReadPc
<1>11. ASSUME NEW p \in Procs, pval_file_poll(p)
       PROVE  TypeOK' /\ LoopCount'
  BY <1>11 DEF pval_file_poll, FilePc, OpenPc, ReadPc
<1>12. ASSUME NEW p \in Procs, PollTimeout(p)
       PROVE  TypeOK' /\ LoopCount'
  BY <1>12 DEF PollTimeout, FilePc, OpenPc, ReadPc
<1>13. ASSUME NEW p \in Procs, NEW count \in 1..MaxIov, ReadBegin(p, count)
       PROVE  TypeOK' /\ LoopCount'
  <2>1. ring_read_avail(head, tail) \in Nat
    BY ReadAvailIsDistance DEF Index
  <2>2. ~ring_emtpy(head, tail) => ring_read_avail(head, tail) >= 1
    BY <2>1, ReadAvailIsDistance
  <2> QED
    BY <1>13, <2>1, <2>2, BoundsAssumption DEF ReadBegin, FilePc, OpenPc, ReadPc
<1>14. ASSUME NEW p \in Procs, ReadCopy(p)
       PROVE  TypeOK' /\ LoopCount'
  BY <1>14 DEF ReadCopy, FilePc, OpenPc, ReadPc
<1>15. ASSUME NEW p \in Procs, ReadNext(p)
       PROVE  TypeOK' /\ LoopCount'
  BY <1>15, NextIsIndex DEF ReadNext, FilePc, OpenPc, ReadPc
<1>16. ASSUME NEW p \in Procs, RelZeroHead(p)
       PROVE  TypeOK' /\ LoopCount'
  BY <1>16, ZeroPublishesNothing DEF RelZeroHead, FilePc, OpenPc, ReadPc
<1>17. ASSUME NEW p \in Procs, RelZeroTail(p)
       PROVE  TypeOK' /\ LoopCount'
  BY <1>17, ZeroPublishesNothing DEF RelZeroTail, FilePc, OpenPc, ReadPc
<1>18. ASSUME NEW p \in Procs, RelOpened(p)
       PROVE  TypeOK' /\ LoopCount'
  BY <1>18 DEF RelOpened, FilePc, OpenPc, ReadPc
<1>19. CASE UNCHANGED vars
  BY <1>19 DEF vars
<1> QED
  BY <1>1, <1>2, <1>3, <1>4, <1>5, <1>6, <1>7, <1>8, <1>9, <1>10, <1>11, <1>12,
     <1>13, <1>14, <1>15, <1>16, <1>17, <1>18, <1>19
  DEF Next, write_to_ring, pval_file_open, pval_file_read_iter, pval_file_release

(* TypeOK is an invariant of the ring.                                     *)
THEOREM TypeCorrect == Spec => []TypeOK
<1>1. TypeOK /\ LoopCount /\ [Next]_vars => TypeOK' /\ LoopCount'
  BY NextTypes
<1> QED
  BY InitTypes, <1>1, PTL DEF Spec
---------------------------------------------------------------------------
(* The reader's side: exclusive open, and where the tail rests.            *)

FileInv == TypeOK /\ LoopCount /\ ExclusiveOpen /\ OpenHoldsMutex /\ TailRests

(* At the start the device is closed and nobody has it.                    *)
LEMMA InitFile == Init => FileInv
  BY InitTypes DEF Init, FileInv, ExclusiveOpen, OpenHoldsMutex, OpenPc, TailRests

(* No step of any process lets a second one in.                            *)
LEMMA NextFile == FileInv /\ [Next]_vars => FileInv'
<1> SUFFICES ASSUME FileInv, [Next]_vars
             PROVE  FileInv'
  OBVIOUS
<1>types. TypeOK /\ TypeOK' /\ LoopCount'
  BY NextTypes DEF FileInv
<1> SUFFICES ExclusiveOpen' /\ OpenHoldsMutex' /\ TailRests'
  BY <1>types DEF FileInv
<1> USE DEF ringVars, writerVars, fileVars, ghostVars
(* Only open, read and release touch what the conjuncts speak of.          *)
<1>1. ASSUME UNCHANGED <<tail, opened, misc_mtx, fpc>>
      PROVE  ExclusiveOpen' /\ OpenHoldsMutex' /\ TailRests'
  BY <1>1 DEF FileInv, ExclusiveOpen, OpenHoldsMutex, TailRests
(* The test: misc_mtx is free, so nobody is about to store `opened', and   *)
(* `opened' is clear, so nobody has.                                       *)
<1>2. ASSUME NEW p \in Procs, OpenTest(p)
      PROVE  ExclusiveOpen' /\ OpenHoldsMutex' /\ TailRests'
  <2>1. \A q \in Procs : fpc[q] # "open_set"
    BY <1>2, ProcsAssumption DEF FileInv, OpenHoldsMutex, OpenPc, OpenTest
  <2>2. \A q \in Procs : fpc[q] = "none"
    BY <1>2, <2>1 DEF FileInv, ExclusiveOpen, OpenTest
  <2>3. /\ misc_mtx' = p /\ tail' = tail /\ ~opened'
        /\ fpc'[p] = "open_set" /\ \A q \in Procs : q # p => fpc'[q] = "none"
    BY <1>2, <1>types, <2>2 DEF OpenTest, TypeOK
  <2>4. ~\E q \in Procs : fpc[q] \in ReadPc \cup {"rel_tail"}
    BY <2>2 DEF ReadPc
  <2>5. tail' = 0
    BY <2>3, <2>4 DEF FileInv, TailRests
  <2> QED
    BY <2>3, <2>5 DEF ExclusiveOpen, OpenHoldsMutex, OpenPc, TailRests
(* A step of the one process that is past the test.                        *)
<1>3. ASSUME NEW p \in Procs, fpc[p] # "none",
             NEW pc \in FilePc \ {"none", "open_set"}, fpc' = [fpc EXCEPT ![p] = pc],
             (opened' = opened /\ fpc[p] # "open_set") \/ opened',
             opened' \in BOOLEAN,
             misc_mtx' = misc_mtx \/ pc \notin OpenPc,
             pc \in OpenPc => fpc[p] \in OpenPc,
             \/ tail' = 0
             \/ tail' = tail /\ fpc[p] \notin ReadPc \cup {"rel_tail"}
             \/ pc \in ReadPc \cup {"rel_tail"}
      PROVE  ExclusiveOpen' /\ OpenHoldsMutex' /\ TailRests'
  <2>0. /\ \A q \in Procs : q # p => fpc[q] = "none" /\ fpc'[q] = "none"
        /\ fpc'[p] = pc
    BY <1>3, <1>types DEF FileInv, ExclusiveOpen, TypeOK
  <2>1. ExclusiveOpen'
    BY <1>3, <2>0 DEF FileInv, ExclusiveOpen
  <2>2. OpenHoldsMutex'
    BY <1>3, <2>0 DEF FileInv, OpenHoldsMutex, OpenPc
  <2>3. TailRests'
    <3>1. CASE tail' = 0
      BY <3>1 DEF TailRests
    <3>2. CASE tail' = tail /\ fpc[p] \notin ReadPc \cup {"rel_tail"}
      <4>1. \A q \in Procs : fpc[q] \notin ReadPc \cup {"rel_tail"}
        BY <3>2, <2>0 DEF ReadPc
      <4> QED
        BY <4>1, <3>2 DEF FileInv, TailRests
    <3>3. CASE pc \in ReadPc \cup {"rel_tail"}
      BY <3>3, <2>0 DEF TailRests
    <3> QED
      BY <1>3, <3>1, <3>2, <3>3
  <2> QED
    BY <2>1, <2>2, <2>3
<1>4. ASSUME NEW p \in Procs, OpenSet(p) \/ OpenZeroHead(p) \/ OpenZeroTail(p)
      PROVE  ExclusiveOpen' /\ OpenHoldsMutex' /\ TailRests'
  BY <1>4, <1>3, <1>types DEF OpenSet, OpenZeroHead, OpenZeroTail, FilePc, OpenPc, ReadPc, TypeOK
<1>5. ASSUME NEW p \in Procs, pval_file_poll(p) \/ PollTimeout(p)
      PROVE  ExclusiveOpen' /\ OpenHoldsMutex' /\ TailRests'
  BY <1>5, <1>3, <1>types DEF pval_file_poll, PollTimeout, FilePc, OpenPc, ReadPc, TypeOK
<1>6. ASSUME NEW p \in Procs, pval_file_read_iter(p)
      PROVE  ExclusiveOpen' /\ OpenHoldsMutex' /\ TailRests'
  BY <1>6, <1>3, <1>types
  DEF pval_file_read_iter, ReadBegin, ReadCopy, ReadNext, FilePc, OpenPc, ReadPc, TypeOK
<1>7. ASSUME NEW p \in Procs, RelZeroHead(p) \/ RelZeroTail(p)
      PROVE  ExclusiveOpen' /\ OpenHoldsMutex' /\ TailRests'
  BY <1>7, <1>3, <1>types DEF RelZeroHead, RelZeroTail, FilePc, OpenPc, ReadPc, TypeOK
<1>8. ASSUME NEW p \in Procs, RelOpened(p)
      PROVE  ExclusiveOpen' /\ OpenHoldsMutex' /\ TailRests'
  <2>1. /\ \A q \in Procs : fpc'[q] = "none"
        /\ tail' = tail /\ ~opened'
    BY <1>8, <1>types DEF FileInv, ExclusiveOpen, TypeOK, RelOpened
  <2>2. \A q \in Procs : fpc[q] \notin ReadPc \cup {"rel_tail"}
    BY <1>8 DEF FileInv, ExclusiveOpen, RelOpened, ReadPc
  <2> QED
    BY <2>1, <2>2 DEF FileInv, ExclusiveOpen, OpenHoldsMutex, OpenPc, TailRests
<1>9. ASSUME NEW w \in Writers, Enter(w) \/ write_to_ring(w)
      PROVE  ExclusiveOpen' /\ OpenHoldsMutex' /\ TailRests'
  BY <1>9, <1>1
  DEF Enter, write_to_ring, Claim, WriteMeta, WriteData, LoadHead, StoreHead
<1>10. CASE SetCopy
  BY <1>10, <1>1 DEF SetCopy
<1>11. CASE UNCHANGED vars
  BY <1>11, <1>1 DEF vars
<1> QED
  BY <1>2, <1>4, <1>5, <1>6, <1>7, <1>8, <1>9, <1>10, <1>11
  DEF Next, pval_file_open, pval_file_release

(* A device is open in at most one process at a time, however the tests    *)
(* and stores of opens, the closes and the kernel writers interleave: the  *)
(* proof rests on misc_mtx, which misc_open holds around pval_file_open.   *)
THEOREM OpenIsExclusive == Spec => []ExclusiveOpen
<1>1. FileInv => ExclusiveOpen
  BY DEF FileInv
<1> QED
  BY InitFile, NextFile, <1>1, PTL DEF Spec
---------------------------------------------------------------------------
(* The ring: IInv is inductive.  Outside a reading session it says little; *)
(* a session starts at a flush with the tail at rest, and every step of a  *)
(* writer or of the reader keeps it until the release.                     *)

RingInv ==
  /\ OneWrite /\ WriteInProgress /\ PublishedInOrder /\ NothingLost
  /\ ReadInProgress /\ FifoDelivery

(* The ring starts empty and at rest.                                      *)
LEMMA InitRing == Init => RingInv
<1> SUFFICES ASSUME Init PROVE RingInv
  OBVIOUS
<1>1. \A p \in Procs : fpc[p] = "none"
  BY DEF Init
<1>2. ~InUse
  BY <1>1 DEF InUse, Reading, ReadPc
<1>3. \A w \in Writers : ~InWrite(w)
  BY DEF Init, InWrite
<1>4. ReadInProgress /\ FifoDelivery
  BY <1>1 DEF ReadInProgress, FifoDelivery
<1> QED
  BY <1>2, <1>3, <1>4
  DEF RingInv, OneWrite, WriteInProgress, PublishedInOrder, NothingLost

(* NothingLost in terms of Offset.                                         *)
LEMMA Conservation ==
  ASSUME TypeOK, ~raced, InUse
  PROVE  NothingLost <=> nclaim = since + nread + Offset(tail, head) + InFlight
  BY ReadAvailIsDistance DEF TypeOK, NothingLost

(* A writer enters write_to_ring and takes the slot at the head.           *)
LEMMA ClaimKeeps ==
  ASSUME FileInv, RingInv, NEW w \in Writers, Enter(w) \/ Claim(w)
  PROVE  RingInv'
<1> USE DEF ringVars, fileVars, ghostVars
<1>types. /\ head \in Index /\ tail \in Index /\ nclaim \in Nat
          /\ since \in Nat /\ nread \in Nat
          /\ wpc \in [Writers -> WriterPc] /\ wslot \in [Writers -> Index]
          /\ wid \in [Writers -> Nat]
  BY DEF FileInv, TypeOK
<1>same. UNCHANGED <<head, tail, slots, fpc, fcnt, since, nread, ulast>> /\ InUse' = InUse
  BY DEF Enter, Claim, InUse, Reading
<1>races. ~raced' => ~raced
  BY DEF Enter, Claim
<1>read. ReadInProgress' /\ FifoDelivery'
  BY <1>same, <1>races DEF RingInv, ReadInProgress, FifoDelivery
<1>1. CASE Enter(w) \/ ring_full(head, tail)
  <2>1. UNCHANGED <<wslot, whead, wid, nclaim, raced>>
    BY <1>1 DEF Enter, Claim
  <2>2. \A v \in Writers : /\ InWrite(v)' = InWrite(v)
                           /\ InWrite(v) => wpc'[v] = wpc[v]
    BY <1>1, <1>types DEF Enter, Claim, InWrite
  <2>3. InFlight' = InFlight
    BY <2>2 DEF InFlight
  <2>4. OneWrite' /\ WriteInProgress'
    BY <1>same, <2>1, <2>2 DEF RingInv, OneWrite, WriteInProgress
  <2>5. PublishedInOrder' /\ NothingLost'
    BY <1>same, <2>1, <2>3 DEF RingInv, PublishedInOrder, NothingLost
  <2> QED
    BY <1>read, <2>4, <2>5 DEF RingInv
<1>2. CASE Claim(w) /\ ~ring_full(head, tail)
  <2>1. ~raced' => ~raced /\ \A v \in Writers : ~InWrite(v)
    BY <1>2 DEF Claim
  <2>2. \A v \in Writers : v # w => wpc'[v] = wpc[v]
    BY <1>2, <1>types DEF Claim
  <2>3. wpc'[w] = "meta" /\ wslot'[w] = head /\ wid'[w] = nclaim' /\ nclaim' = nclaim + 1
    BY <1>2, <1>types DEF Claim
  <2>4. ~raced' => \A v \in Writers : InWrite(v)' <=> v = w
    BY <2>1, <2>2, <2>3 DEF InWrite
  <2>5. Offset(tail, head) < mask
    BY <1>2, <1>types, FullIsMaskSlots, OffsetRange, SlotNumNat DEF Index, mask
  <2>6. OneWrite' /\ WriteInProgress'
    BY <1>same, <2>3, <2>4, <2>5 DEF OneWrite, WriteInProgress
  <2>7. ~raced' => InFlight = 0 /\ InFlight' = 1
    BY <2>1, <2>4 DEF InFlight
  <2>8. ring_read_avail(head, tail) \in Nat
    BY <1>types, ReadAvailIsDistance DEF Index
  <2>9. NothingLost'
    BY <1>same, <1>types, <2>1, <2>3, <2>7, <2>8 DEF RingInv, NothingLost
  <2>10. PublishedInOrder'
    BY <1>same, <2>1 DEF RingInv, PublishedInOrder
  <2> QED
    BY <1>read, <2>6, <2>9, <2>10 DEF RingInv
<1> QED
  BY <1>1, <1>2

(* Filling the slot and loading the head touch no published slot.          *)
LEMMA FillKeeps ==
  ASSUME FileInv, RingInv, NEW w \in Writers,
         WriteMeta(w) \/ WriteData(w) \/ LoadHead(w)
  PROVE  RingInv'
<1> USE DEF ringVars, fileVars, ghostVars
<1>types. /\ head \in Index /\ tail \in Index
          /\ slots \in [Index -> Slot]
          /\ wpc \in [Writers -> WriterPc] /\ wslot \in [Writers -> Index]
          /\ whead \in [Writers -> Index] /\ wid \in [Writers -> Nat]
  BY DEF FileInv, TypeOK
<1>same. /\ UNCHANGED <<head, tail, fpc, fcnt, since, nread, ulast, raced>>
         /\ UNCHANGED <<wslot, wid, nclaim>>
         /\ InUse' = InUse
  BY DEF WriteMeta, WriteData, LoadHead, InUse, Reading
<1>1. /\ InWrite(w) /\ InWrite(w)'
      /\ \A v \in Writers : InWrite(v)' = InWrite(v)
  BY <1>types DEF WriteMeta, WriteData, LoadHead, InWrite
<1>2. InFlight' = InFlight
  BY <1>1 DEF InFlight
<1>3. OneWrite' /\ NothingLost' /\ ReadInProgress' /\ FifoDelivery'
  BY <1>same, <1>1, <1>2 DEF RingInv, OneWrite, NothingLost, ReadInProgress, FifoDelivery
<1> SUFFICES ASSUME ~raced, InUse
             PROVE  WriteInProgress' /\ PublishedInOrder'
  BY <1>same, <1>3 DEF RingInv, WriteInProgress, PublishedInOrder
<1>4. wslot[w] = head /\ wid[w] = nclaim /\ Offset(tail, head) < mask
  BY <1>1 DEF RingInv, WriteInProgress
<1>5. \A v \in Writers : InWrite(v) => v = w
  BY <1>1 DEF RingInv, OneWrite
<1>6. \A x \in Index : x # head => slots'[x] = slots[x]
  BY <1>4, <1>types DEF WriteMeta, WriteData, LoadHead
<1>7. PublishedInOrder'
  <2>1. head \notin Published(head, tail)
    BY <1>types, HeadNotPublished
  <2>2. \A x \in Published(head, tail) : x \in Index /\ slots'[x] = slots[x]
    BY <2>1, <1>6 DEF Published
  <2> QED
    BY <2>2, <1>same DEF RingInv, PublishedInOrder
<1>8. /\ wpc'[w] # "meta" => slots'[head].meta = wid[w]
      /\ wpc'[w] \in {"load", "store"} => slots'[head].data = wid[w]
      /\ wpc'[w] = "store" => whead'[w] = head
  BY <1>1, <1>4, <1>types
  DEF RingInv, WriteInProgress, WriteMeta, WriteData, LoadHead, Slot
<1> QED
  BY <1>same, <1>1, <1>4, <1>5, <1>7, <1>8 DEF WriteInProgress

(* Storing the head publishes the slot that was written.                   *)
LEMMA PublishKeeps ==
  ASSUME FileInv, RingInv, NEW w \in Writers, StoreHead(w)
  PROVE  RingInv'
<1> USE DEF ringVars, fileVars, ghostVars
<1>types. /\ head \in Index /\ tail \in Index /\ nclaim \in Nat
          /\ since \in Nat /\ nread \in Nat
          /\ wpc \in [Writers -> WriterPc] /\ fcnt \in [Procs -> Nat]
  BY DEF FileInv, TypeOK
<1>same. /\ UNCHANGED <<tail, slots, fpc, fcnt, since, nread, ulast, raced>>
         /\ UNCHANGED <<wslot, whead, wid, nclaim>>
         /\ InUse' = InUse
  BY DEF StoreHead, InUse, Reading
<1>1. InWrite(w) /\ ~InWrite(w)' /\ wpc[w] = "store"
  BY <1>types DEF StoreHead, InWrite
<1>2. \A v \in Writers : v # w => InWrite(v)' = InWrite(v)
  BY <1>types DEF StoreHead, InWrite
<1>3. OneWrite' /\ FifoDelivery'
  BY <1>same, <1>1, <1>2 DEF RingInv, OneWrite, FifoDelivery
<1>4. ASSUME NEW p \in Procs, fpc[p] \in {"copy", "next"}
      PROVE  InUse
  BY <1>4 DEF InUse, Reading, ReadPc
<1> SUFFICES ASSUME ~raced, InUse
             PROVE  WriteInProgress' /\ PublishedInOrder' /\ NothingLost' /\ ReadInProgress'
  BY <1>same, <1>3, <1>4
  DEF RingInv, WriteInProgress, PublishedInOrder, NothingLost, ReadInProgress
<1>5. /\ Offset(tail, head) < mask /\ whead[w] = head /\ wid[w] = nclaim
      /\ slots[head].meta = nclaim /\ slots[head].data = nclaim
  BY <1>1 DEF RingInv, WriteInProgress
<1>6. head' = ring_write_next(head) /\ head' \in Index
  BY <1>5, <1>types, NextIsIndex DEF StoreHead
<1>7. /\ Offset(tail, head') = Offset(tail, head) + 1
      /\ Published(head', tail) = Published(head, tail) \cup {head}
  BY <1>5, <1>6, <1>types, WriteNextPublishes
<1>8. Offset(tail, head) \in Nat
  BY <1>types, OffsetRange DEF Index
<1>9. \A v \in Writers : ~InWrite(v)'
  BY <1>1, <1>2 DEF RingInv, OneWrite
<1>10. InFlight = 1 /\ InFlight' = 0
  BY <1>1, <1>9 DEF InFlight
<1>11. nclaim = since + nread + Offset(tail, head) + 1
  BY <1>10, Conservation DEF FileInv, RingInv
<1>12. NothingLost'
  <2>1. ring_read_avail(head', tail) = Offset(tail, head) + 1
    BY <1>6, <1>7, <1>types, ReadAvailIsDistance
  <2> QED
    BY <2>1, <1>same, <1>types, <1>8, <1>10, <1>11 DEF NothingLost
<1>13. PublishedInOrder'
  BY <1>same, <1>types, <1>5, <1>7, <1>8, <1>11 DEF RingInv, PublishedInOrder
<1>14. ReadInProgress'
  BY <1>same, <1>types, <1>7, <1>8 DEF RingInv, ReadInProgress
<1> QED
  BY <1>9, <1>12, <1>13, <1>14 DEF WriteInProgress
(* The flush of an open starts a session with an empty ring: the tail was  *)
(* at rest, so that storing the head alone takes every slot back.          *)
LEMMA FlushStarts ==
  ASSUME FileInv, RingInv, NEW p \in Procs, OpenZeroHead(p)
  PROVE  RingInv'
<1> USE DEF ringVars, writerVars, fileVars, ghostVars
<1>types. /\ tail \in Index /\ nclaim \in Nat
          /\ wpc \in [Writers -> WriterPc] /\ fpc \in [Procs -> FilePc]
  BY DEF FileInv, TypeOK
<1>1. \A q \in Procs : fpc'[q] \in {"none", "open_tail"}
  BY <1>types DEF FileInv, ExclusiveOpen, OpenZeroHead
<1>2. tail' = 0 /\ head' = 0
  <2>1. ~\E q \in Procs : fpc[q] \in ReadPc \cup {"rel_tail"}
    BY DEF FileInv, ExclusiveOpen, OpenZeroHead, ReadPc
  <2> QED
    BY <2>1 DEF FileInv, TailRests, OpenZeroHead
<1>3. ReadInProgress' /\ FifoDelivery'
  BY <1>1 DEF ReadInProgress, FifoDelivery
<1> SUFFICES ASSUME ~raced'
             PROVE  OneWrite' /\ WriteInProgress' /\ PublishedInOrder' /\ NothingLost'
  BY <1>3 DEF RingInv, OneWrite, WriteInProgress, PublishedInOrder, NothingLost
<1>4. \A w \in Writers : ~InWrite(w)'
  BY DEF OpenZeroHead, InWrite
<1>5. OneWrite' /\ WriteInProgress'
  BY <1>4 DEF OneWrite, WriteInProgress
<1>6. PublishedInOrder'
  BY <1>2, ZeroPublishesNothing DEF PublishedInOrder
<1>7. NothingLost'
  <2>1. ring_read_avail(head', tail') = 0
    BY <1>2 DEF ring_read_avail
  <2>2. InFlight' = 0
    BY <1>4 DEF InFlight
  <2> QED
    BY <2>1, <2>2, <1>types DEF NothingLost, OpenZeroHead
<1> QED
  BY <1>5, <1>6, <1>7

(* Steps of the session that leave ring, writers and counters alone.       *)
LEMMA PollKeeps ==
  ASSUME FileInv, RingInv, FileInv', NEW p \in Procs,
         \/ OpenZeroTail(p) \/ pval_file_poll(p) \/ PollTimeout(p) \/ ReadCopy(p)
         \/ \E count \in 1..MaxIov : ReadBegin(p, count)
  PROVE  RingInv'
<1> USE DEF ringVars, writerVars, fileVars, ghostVars
<1>types. /\ head \in Index /\ tail \in Index /\ nclaim \in Nat
          /\ since \in Nat /\ nread \in Nat
          /\ fpc \in [Procs -> FilePc] /\ fcnt \in [Procs -> Nat]
          /\ slots \in [Index -> Slot]
  BY DEF FileInv, TypeOK
<1>1. tail' = tail
  <2>1. ASSUME OpenZeroTail(p) PROVE tail = 0
    BY <2>1 DEF FileInv, ExclusiveOpen, TailRests, OpenZeroTail, ReadPc
  <2> QED
    BY <2>1 DEF OpenZeroTail, pval_file_poll, PollTimeout, ReadCopy, ReadBegin
<1>same. /\ UNCHANGED <<head, slots, since, nread, raced>>
         /\ UNCHANGED <<wpc, wslot, whead, wid, nclaim>>
  BY DEF OpenZeroTail, pval_file_poll, PollTimeout, ReadCopy, ReadBegin
<1>2. Reading(p) /\ Reading(p)' /\ InUse /\ InUse'
  BY <1>types
  DEF OpenZeroTail, pval_file_poll, PollTimeout, ReadCopy, ReadBegin, InUse, Reading,
      ReadPc
<1>3. \A w \in Writers : InWrite(w)' = InWrite(w)
  BY <1>same DEF InWrite
<1>4. InFlight' = InFlight
  BY <1>3 DEF InFlight
<1>5. OneWrite' /\ WriteInProgress' /\ PublishedInOrder' /\ NothingLost'
  BY <1>same, <1>1, <1>2, <1>3, <1>4
  DEF RingInv, OneWrite, WriteInProgress, PublishedInOrder, NothingLost
<1>6. \A q \in Procs : q # p => fpc[q] = "none" /\ fpc'[q] = "none"
  BY <1>2, <1>types
  DEF FileInv, ExclusiveOpen, Reading, ReadPc, OpenZeroTail, pval_file_poll, PollTimeout,
      ReadCopy, ReadBegin
<1>7. CASE OpenZeroTail(p) \/ pval_file_poll(p) \/ PollTimeout(p)
  <2>1. fpc'[p] \notin {"copy", "next"}
    BY <1>7, <1>types DEF OpenZeroTail, pval_file_poll, PollTimeout
  <2> QED
    BY <2>1, <1>5, <1>6 DEF RingInv, ReadInProgress, FifoDelivery
<1>8. ASSUME NEW count \in 1..MaxIov, ReadBegin(p, count)
      PROVE  RingInv'
  <2>1. /\ ring_read_avail(head, tail) = Offset(tail, head)
        /\ Offset(tail, head) \in Nat
    BY <1>types, ReadAvailIsDistance, OffsetRange DEF Index
  <2>2. fpc'[p] # "next" /\ fcnt'[p] <= Offset(tail, head)
    BY <1>8, <2>1, <1>types DEF ReadBegin
  <2>3. ReadInProgress'
    BY <2>2, <1>1, <1>same, <1>6 DEF FileInv, LoopCount, ReadInProgress
  <2>4. FifoDelivery'
    BY <2>2, <1>6 DEF FifoDelivery
  <2> QED
    BY <1>5, <2>3, <2>4 DEF RingInv
<1>9. CASE ReadCopy(p)
  <2>1. fpc[p] = "copy" /\ fcnt' = fcnt /\ ulast' = slots[tail]
    BY <1>9 DEF ReadCopy
  <2>2. ReadInProgress'
    BY <2>1, <1>1, <1>same, <1>6 DEF FileInv, LoopCount, RingInv, ReadInProgress
  <2>3. ASSUME ~raced
        PROVE  ulast' = [meta |-> since + nread + 1, data |-> since + nread + 1]
    <3>1. Offset(tail, head) > 0
      BY <2>1, <2>3, <1>types, OffsetRange DEF RingInv, ReadInProgress, Index
    <3>2. tail \in Published(head, tail) /\ Offset(tail, tail) = 0
      BY <3>1, <1>types, TailPublished
    <3>3. slots[tail].meta = since + nread + 1 /\ slots[tail].data = since + nread + 1
      BY <3>2, <2>3, <1>2, <1>types DEF RingInv, PublishedInOrder
    <3> QED
      BY <3>3, <2>1, <1>types DEF Slot
  <2>4. FifoDelivery'
    BY <2>3, <1>same, <1>6 DEF FifoDelivery
  <2> QED
    BY <1>5, <2>2, <2>4 DEF RingInv
<1> QED
  BY <1>7, <1>8, <1>9

(* Advancing the tail hands one slot over.                                 *)
LEMMA TakeKeeps ==
  ASSUME FileInv, RingInv, NEW p \in Procs, ReadNext(p)
  PROVE  RingInv'
<1> USE DEF ringVars, writerVars, fileVars, ghostVars
<1>types. /\ head \in Index /\ tail \in Index /\ nclaim \in Nat
          /\ since \in Nat /\ nread \in Nat
          /\ fpc \in [Procs -> FilePc] /\ fcnt \in [Procs -> Nat]
  BY DEF FileInv, TypeOK
<1>same. /\ UNCHANGED <<head, slots, since, raced>>
         /\ UNCHANGED <<wpc, wslot, whead, wid, nclaim>>
  BY DEF ReadNext
<1>1. /\ fpc[p] = "next" /\ tail' = ring_read_next(tail) /\ nread' = nread + 1
      /\ fcnt'[p] = fcnt[p] - 1 /\ fcnt[p] >= 1
      /\ fpc'[p] = IF fcnt[p] > 1 THEN "copy" ELSE "ready"
  BY <1>types DEF ReadNext, FileInv, LoopCount
<1>2. InUse /\ InUse'
  BY <1>1 DEF InUse, Reading, ReadPc
<1>3. \A w \in Writers : InWrite(w)' = InWrite(w)
  BY <1>same DEF InWrite
<1>4. InFlight' = InFlight /\ InFlight \in Nat
  BY <1>3 DEF InFlight
<1>5. \A q \in Procs : q # p => fpc'[q] = "none"
  BY <1>1, <1>types DEF ReadNext, FileInv, ExclusiveOpen
<1>6. OneWrite' /\ FifoDelivery'
  BY <1>same, <1>1, <1>3, <1>5 DEF RingInv, OneWrite, FifoDelivery
<1>7. \A q \in Procs : fpc'[q] \in {"copy", "next"} => q = p /\ fcnt'[p] >= 1
  BY <1>1, <1>5, <1>types
<1> SUFFICES ASSUME ~raced
             PROVE  /\ WriteInProgress' /\ PublishedInOrder' /\ NothingLost'
                    /\ fcnt'[p] <= Offset(tail', head)
  BY <1>same, <1>6, <1>7
  DEF RingInv, WriteInProgress, PublishedInOrder, NothingLost, ReadInProgress
<1>8. Offset(tail, head) > 0 /\ fcnt[p] <= Offset(tail, head) /\ Offset(tail, head) \in Nat
  BY <1>1, <1>types, OffsetRange DEF RingInv, ReadInProgress, Index
<1>9. /\ Offset(tail', head) = Offset(tail, head) - 1
      /\ \A x \in Index : x # tail => Offset(tail', x) = Offset(tail, x) - 1
      /\ Published(head, tail') = Published(head, tail) \ {tail}
  BY <1>1, <1>8, <1>types, ReadNextTakes
<1>10. fcnt'[p] <= Offset(tail', head)
  BY <1>1, <1>8, <1>9, <1>types
<1>11. WriteInProgress'
  <2>1. mask \in Nat
    BY SlotNumNat DEF mask
  <2> QED
    BY <2>1, <1>same, <1>2, <1>3, <1>8, <1>9 DEF RingInv, WriteInProgress
<1>12. PublishedInOrder'
  <2>1. \A x \in Published(head, tail') :
          /\ x \in Published(head, tail) /\ x \in Index
          /\ Offset(tail', x) = Offset(tail, x) - 1 /\ Offset(tail, x) \in Nat
    <3>1. \A x \in Index : Offset(tail, x) \in Nat
      BY <1>types, OffsetRange DEF Index
    <3>2. \A x \in Published(head, tail') : x \in Published(head, tail) /\ x # tail
      BY <1>9
    <3>3. Published(head, tail) \subseteq Index
      BY DEF Published
    <3> QED
      BY <1>9, <3>1, <3>2, <3>3
  <2>2. \A x \in Published(head, tail') :
          since + nread + 1 + Offset(tail, x) = since + nread' + 1 + Offset(tail', x)
    BY <2>1, <1>1, <1>types
  <2> QED
    BY <2>1, <2>2, <1>same, <1>2 DEF RingInv, PublishedInOrder
<1>13. NothingLost'
  <2>1. tail' \in Index
    BY <1>1, <1>types, NextIsIndex
  <2>2. /\ ring_read_avail(head, tail') = Offset(tail, head) - 1
        /\ nclaim = since + nread + Offset(tail, head) + InFlight
    BY <2>1, <1>2, <1>9, <1>types, ReadAvailIsDistance, Conservation DEF FileInv, RingInv
  <2> QED
    BY <2>2, <1>same, <1>1, <1>4, <1>8, <1>types DEF NothingLost
<1> QED
  BY <1>10, <1>11, <1>12, <1>13

(* Outside a session the ring is nobody's: open's test and the release.    *)
LEMMA OutsideKeeps ==
  ASSUME FileInv, RingInv, FileInv', NEW p \in Procs,
         OpenTest(p) \/ OpenSet(p) \/ pval_file_release(p)
  PROVE  RingInv'
<1> USE DEF ringVars, writerVars, fileVars, ghostVars
<1>1. /\ fpc'[p] \in {"open_set", "open_head", "rel_tail", "rel_opened", "none"}
      /\ \A q \in Procs : q # p => fpc'[q] = "none"
  BY DEF FileInv, TypeOK, ExclusiveOpen, OpenTest, OpenSet, pval_file_release, RelZeroHead,
         RelZeroTail, RelOpened, ReadPc
<1>2. ~InUse'
  BY <1>1 DEF InUse, Reading, ReadPc
<1>3. ReadInProgress' /\ FifoDelivery'
  BY <1>1 DEF ReadInProgress, FifoDelivery
<1>4. OneWrite'
  BY DEF RingInv, OneWrite, InWrite, OpenTest, OpenSet, pval_file_release, RelZeroHead, RelZeroTail,
         RelOpened
<1> QED
  BY <1>2, <1>3, <1>4 DEF RingInv, WriteInProgress, PublishedInOrder, NothingLost

(* Every step keeps what is known of the files and of the ring.            *)
LEMMA NextRing == FileInv /\ RingInv /\ [Next]_vars => FileInv' /\ RingInv'
<1> SUFFICES ASSUME FileInv, RingInv, [Next]_vars
             PROVE  FileInv' /\ RingInv'
  OBVIOUS
<1>1. FileInv'
  BY NextFile
<1>2. ASSUME NEW w \in Writers, Enter(w) \/ write_to_ring(w)
      PROVE  RingInv'
  BY <1>2, ClaimKeeps, FillKeeps, PublishKeeps DEF write_to_ring
<1>3. ASSUME UNCHANGED <<head, tail, slots>>, UNCHANGED <<wpc, wslot, whead, wid, nclaim>>,
             UNCHANGED <<fpc, fcnt>>, UNCHANGED <<since, nread, ulast, raced>>
      PROVE  RingInv'
  BY <1>3
  DEF RingInv, OneWrite, WriteInProgress, PublishedInOrder, NothingLost, ReadInProgress,
      FifoDelivery, InUse, Reading, InFlight, InWrite
<1>4. CASE SetCopy
  BY <1>1, <1>3, <1>4 DEF SetCopy, ringVars, writerVars, fileVars, ghostVars
<1>5. ASSUME NEW p \in Procs, pval_file_open(p)
      PROVE  RingInv'
  BY <1>1, <1>5, OutsideKeeps, FlushStarts, PollKeeps DEF pval_file_open
<1>6. ASSUME NEW p \in Procs, pval_file_poll(p) \/ PollTimeout(p) \/ pval_file_read_iter(p)
      PROVE  RingInv'
  BY <1>1, <1>6, PollKeeps, TakeKeeps DEF pval_file_read_iter
<1>7. ASSUME NEW p \in Procs, pval_file_release(p)
      PROVE  RingInv'
  BY <1>1, <1>7, OutsideKeeps
<1>8. CASE UNCHANGED vars
  BY <1>1, <1>3, <1>8 DEF vars, ringVars, writerVars, fileVars, ghostVars
<1> QED
  BY <1>1, <1>2, <1>4, <1>5, <1>6, <1>7, <1>8 DEF Next

(* IInv is an invariant.                                                   *)
THEOREM Inductive == Spec => []IInv
<1>1. FileInv /\ RingInv => IInv
  BY DEF FileInv, RingInv, IInv
<1>2. Init => FileInv /\ RingInv
  BY InitFile, InitRing
<1> QED
  BY <1>1, <1>2, NextRing, PTL DEF Spec

(* pval_file_read_iter hands over the packets written since the flush of   *)
(* pval_file_open, whole, each once and in order, as long as no write runs *)
(* into another write or into that flush.                                  *)
THEOREM ReaderGetsFifo == Spec => []FifoDelivery
<1>1. IInv => FifoDelivery
  BY DEF IInv
<1> QED
  BY Inductive, <1>1, PTL

(* Every packet that passed ring_full is read, waiting or being written.   *)
THEOREM NoPacketLost == Spec => []NothingLost
<1>1. IInv => NothingLost
  BY DEF IInv
<1> QED
  BY Inductive, <1>1, PTL

(* write_to_ring never stores into a slot that a reader may be copying.    *)
THEOREM NoSlotOverwritten == Spec => []NoOverwrite
<1>1. IInv => NoOverwrite
  BY HeadNotPublished DEF IInv, TypeOK, WriteInProgress, NoOverwrite
<1> QED
  BY Inductive, <1>1, PTL

(***************************************************************************)
(* The ring implements PacketFifo, for every length, every set of writers  *)
(* and every set of processes: only the store of the head is a Put, only   *)
(* the advance of the tail a Get, and only the first stores of an open and *)
(* of a release are Flushes.                                               *)
(***************************************************************************)

(* While the promise is on, the queue is the packets after the last one    *)
(* taken, up to the last one published.                                    *)
LEMMA QueueIsInterval ==
  ASSUME FileInv, RingInv, ~raced, InUse
  PROVE  /\ Offset(tail, head) \in Nat /\ Offset(tail, head) <= mask
         /\ fifoQueue = [i \in 1..Offset(tail, head) |-> nread + i]
         /\ fifoAccepted = nread + Offset(tail, head)
         /\ fifoTaken = nread
<1>types. /\ head \in Index /\ tail \in Index /\ nclaim \in Nat
          /\ since \in Nat /\ nread \in Nat
  BY DEF FileInv, TypeOK
<1>1. /\ Offset(tail, head) \in Nat /\ Offset(tail, head) <= mask
      /\ ring_read_avail(head, tail) = Offset(tail, head)
  BY <1>types, OffsetRange, ReadAvailIsDistance, SlotNumNat DEF Index, mask
<1>2. ASSUME NEW i \in 1..Offset(tail, head)
      PROVE  slots[(tail + i - 1) % SlotNum].data - since = nread + i
  <2>1. i \in 1..SlotNum /\ i - 1 < Offset(tail, head)
    BY <1>1, SlotNumNat DEF mask
  <2>2. (tail + i - 1) % SlotNum \in Published(head, tail)
    BY <2>1, <1>types, SlotFromTail DEF Published
  <2>3. Offset(tail, (tail + i - 1) % SlotNum) = i - 1
    BY <2>1, <1>types, SlotFromTail
  <2>4. slots[(tail + i - 1) % SlotNum].data = since + nread + 1 + (i - 1)
    BY <2>2, <2>3 DEF RingInv, PublishedInOrder
  <2> QED
    BY <2>4, <1>types
<1>3. nclaim = since + nread + Offset(tail, head) + InFlight
  BY Conservation DEF FileInv, RingInv
<1>4. InFlight \in Nat
  BY DEF InFlight
<1> QED
  BY <1>1, <1>2, <1>3, <1>4, <1>types DEF fifoQueue, fifoAccepted, fifoTaken

(* The refinement mapping, told without the slots.                         *)
Mapped ==
  IF InUse
    THEN ~raced => /\ Offset(tail, head) \in Nat /\ Offset(tail, head) <= mask
                   /\ fifoQueue = [i \in 1..Offset(tail, head) |-> nread + i]
                   /\ fifoAccepted = nread + Offset(tail, head)
                   /\ fifoTaken = nread
    ELSE fifoQueue = <<>> /\ fifoAccepted = 0 /\ fifoTaken = 0

(* The invariant gives the mapped state a closed form ...                  *)
LEMMA MapsHere == FileInv /\ RingInv => Mapped
  BY QueueIsInterval DEF Mapped, fifoQueue, fifoAccepted, fifoTaken

(* ... before and after a step.                                            *)
LEMMA MapsNext == FileInv' /\ RingInv' => Mapped'
  BY MapsHere, PTL

(* The abstract steps, on intervals of numbers.                            *)
LEMMA IntervalAppend ==
  ASSUME NEW r \in Nat, NEW n \in Nat
  PROVE  [i \in 1..(n + 1) |-> r + i] = Append([i \in 1..n |-> r + i], r + n + 1)
<1> DEFINE s == [i \in 1..n |-> r + i]
<1>1. s \in Seq(Nat) /\ Len(s) = n
  OBVIOUS
<1>2. \A i \in 1..n : s[i] = r + i
  OBVIOUS
<1> HIDE DEF s
<1>3. r + n + 1 \in Nat
  OBVIOUS
<1>4. /\ Append(s, r + n + 1) \in Seq(Nat)
      /\ Len(Append(s, r + n + 1)) = n + 1
      /\ \A i \in 1..n : Append(s, r + n + 1)[i] = r + i
      /\ Append(s, r + n + 1)[n + 1] = r + n + 1
  BY <1>1, <1>2, <1>3, AppendProperties
<1>5. ASSUME NEW i \in 1..(n + 1)
      PROVE  Append(s, r + n + 1)[i] = r + i
  <2>1. i \in 1..n \/ i = n + 1
    OBVIOUS
  <2>2. r + (n + 1) = r + n + 1
    OBVIOUS
  <2> QED
    BY <1>4, <2>1, <2>2, Zenon
<1>6. Append(s, r + n + 1) = [i \in 1..(n + 1) |-> Append(s, r + n + 1)[i]]
  BY <1>4, Zenon, LenProperties
<1> QED
  BY <1>5, <1>6 DEF s

(* Taking the first of consecutive numbers leaves consecutive numbers.     *)
LEMMA IntervalTail ==
  ASSUME NEW r \in Nat, NEW n \in Nat \ {0}
  PROVE  LET s == [i \in 1..n |-> r + i]
         IN  /\ s # <<>> /\ Head(s) = r + 1 /\ Len(s) = n
             /\ Tail(s) = [i \in 1..(n - 1) |-> (r + 1) + i]
<1> DEFINE s == [i \in 1..n |-> r + i]
<1>1. s \in Seq(Nat) /\ Len(s) = n
  OBVIOUS
<1>2. \A i \in 1..n : s[i] = r + i
  OBVIOUS
<1> HIDE DEF s
<1>3. s # <<>> /\ Head(s) = r + 1
  BY <1>1, <1>2
<1>4. /\ Tail(s) \in Seq(Nat) /\ Len(Tail(s)) = n - 1
      /\ \A i \in 1..(n - 1) : Tail(s)[i] = s[i + 1]
  BY <1>1, <1>3, HeadTailProperties
<1>5. \A i \in 1..(n - 1) : Tail(s)[i] = (r + 1) + i
  BY <1>2, <1>4
<1>6. Tail(s) = [i \in 1..(n - 1) |-> Tail(s)[i]]
  BY <1>4, Zenon, LenProperties
<1> QED
  BY <1>1, <1>3, <1>5, <1>6 DEF s
---------------------------------------------------------------------------
(* Steps.                                                                  *)

(* What leaves the published slots, the counts and the session alone is a  *)
(* stutter.                                                                *)
LEMMA Stutters ==
  ASSUME UNCHANGED <<head, tail, since, nread, raced>>, InUse' = InUse, Mapped, Mapped',
         ~raced
  PROVE  UNCHANGED Fifo!vars
  BY DEF Fifo!vars, Mapped

(* StoreHead is a Put.                                                     *)
LEMMA StorePuts ==
  ASSUME FileInv, RingInv, Mapped, Mapped', ~raced, NEW w \in Writers, StoreHead(w)
  PROVE  [Fifo!Next]_Fifo!vars
<1> USE DEF fileVars, ghostVars
<1>types. head \in Index /\ tail \in Index /\ nread \in Nat /\ wpc \in [Writers -> WriterPc]
  BY DEF FileInv, TypeOK
<1>same. UNCHANGED <<tail, nread, raced>> /\ InUse' = InUse
  BY DEF StoreHead, InUse, Reading
<1>1. CASE ~InUse
  BY <1>1, <1>same DEF Mapped, Fifo!vars
<1>2. CASE InUse
  <2>1. Offset(tail, head) < mask /\ head' = ring_write_next(head)
    BY <1>2, <1>types DEF RingInv, WriteInProgress, StoreHead, InWrite
  <2>2. Offset(tail', head') = Offset(tail, head) + 1
    BY <2>1, <1>same, <1>types, WriteNextPublishes
  <2> DEFINE k == Offset(tail, head)
  <2>3. /\ k \in Nat /\ fifoTaken' = fifoTaken /\ fifoAccepted' = nread + (k + 1)
        /\ fifoAccepted = nread + k
        /\ fifoQueue = [i \in 1..k |-> nread + i]
        /\ fifoQueue' = [i \in 1..(k + 1) |-> nread + i]
    BY <1>2, <1>same, <2>2 DEF Mapped
  <2> HIDE DEF k
  <2>4. fifoQueue' = Append(fifoQueue, nread + k + 1)
    BY <2>3, <1>types, IntervalAppend
  <2>5. Len(fifoQueue) = k
    BY <2>3, <1>types
  <2>6. fifoAccepted' = fifoAccepted + 1 /\ fifoAccepted' = nread + k + 1
    BY <2>3, <1>types
  <2>7. Fifo!Put
    BY <2>1, <2>3, <2>4, <2>5, <2>6 DEF Fifo!Put, k
  <2> QED
    BY <2>7, <1>same DEF Fifo!Next
<1> QED
  BY <1>1, <1>2

(* ReadNext is a Get.                                                      *)
LEMMA ReadGets ==
  ASSUME FileInv, RingInv, Mapped, Mapped', ~raced, NEW p \in Procs, ReadNext(p)
  PROVE  [Fifo!Next]_Fifo!vars
<1> USE DEF writerVars
<1>types. /\ head \in Index /\ tail \in Index /\ nread \in Nat
          /\ fpc \in [Procs -> FilePc] /\ fcnt \in [Procs -> Nat]
  BY DEF FileInv, TypeOK
<1>same. UNCHANGED <<head, raced, since>> /\ nread' = nread + 1
  BY DEF ReadNext
<1>1. InUse /\ InUse'
  BY <1>types DEF ReadNext, InUse, Reading, ReadPc
<1>2. Offset(tail, head) > 0 /\ Offset(tail, head) \in Nat
  BY <1>types, OffsetRange DEF ReadNext, RingInv, ReadInProgress, Index
<1>3. Offset(tail', head') = Offset(tail, head) - 1
  BY <1>2, <1>same, <1>types, ReadNextTakes DEF ReadNext
<1> DEFINE k == Offset(tail, head)
<1>4. /\ k \in Nat \ {0} /\ fifoTaken = nread /\ fifoTaken' = nread + 1
      /\ fifoAccepted = nread + k /\ fifoAccepted' = (nread + 1) + (k - 1)
      /\ fifoQueue = [i \in 1..k |-> nread + i]
      /\ fifoQueue' = [i \in 1..(k - 1) |-> (nread + 1) + i]
  BY <1>1, <1>2, <1>3, <1>same DEF Mapped
<1> HIDE DEF k
<1>5. /\ fifoQueue # <<>> /\ Head(fifoQueue) = nread + 1
      /\ Tail(fifoQueue) = fifoQueue'
  BY <1>4, <1>types, IntervalTail
<1>6. fifoAccepted' = fifoAccepted
  BY <1>4, <1>types
<1>7. Fifo!Get
  BY <1>4, <1>5, <1>6 DEF Fifo!Get
<1> QED
  BY <1>7, <1>same DEF Fifo!Next

(* The first stores of an open and of a release are Flushes.               *)
LEMMA ZeroFlushes ==
  ASSUME FileInv, RingInv, FileInv', Mapped', ~raced', NEW p \in Procs,
         OpenZeroHead(p) \/ RelZeroHead(p)
  PROVE  [Fifo!Next]_Fifo!vars
<1> USE DEF ghostVars, writerVars
<1>types. tail \in Index /\ fpc \in [Procs -> FilePc]
  BY DEF FileInv, TypeOK
<1>1. CASE OpenZeroHead(p)
  <2>1. tail = 0 /\ tail' = 0 /\ head' = 0 /\ nread' = 0 /\ InUse'
    BY <1>1, <1>types
    DEF FileInv, ExclusiveOpen, TailRests, OpenZeroHead, ReadPc, InUse, Reading
  <2>2. Offset(tail', head') = 0
    BY <2>1, ZeroPublishesNothing
  <2>3. fifoQueue' = <<>> /\ fifoAccepted' = 0 /\ fifoTaken' = 0
    BY <2>1, <2>2 DEF Mapped
  <2> QED
    BY <2>3 DEF Fifo!Next, Fifo!Flush
<1>2. CASE RelZeroHead(p)
  <2>1. ~InUse'
    BY <1>2, <1>types DEF FileInv, ExclusiveOpen, RelZeroHead, InUse, Reading, ReadPc
  <2> QED
    BY <2>1 DEF Mapped, Fifo!Next, Fifo!Flush
<1> QED
  BY <1>1, <1>2

(* Every step of the ring is a step of the FIFO or changes nothing of it.  *)
LEMMA NextRefines ==
  FileInv /\ RingInv /\ FileInv' /\ RingInv' /\ [Next]_vars => [Fifo!Next]_Fifo!vars
<1> SUFFICES ASSUME FileInv, RingInv, FileInv', RingInv', [Next]_vars
             PROVE  [Fifo!Next]_Fifo!vars
  OBVIOUS
<1>maps. Mapped /\ Mapped'
  BY MapsHere, MapsNext
(* The promise is off after the step: every step is allowed.               *)
<1>off. CASE raced'
  BY <1>off DEF Fifo!Next
<1> SUFFICES ASSUME ~raced'
             PROVE  [Fifo!Next]_Fifo!vars
  BY <1>off
<1> USE DEF ringVars, writerVars, fileVars, ghostVars
<1>types. fpc \in [Procs -> FilePc]
  BY DEF FileInv, TypeOK
<1>1. ASSUME NEW w \in Writers, StoreHead(w)
      PROVE  [Fifo!Next]_Fifo!vars
  BY <1>1, <1>maps, StorePuts DEF StoreHead
<1>2. ASSUME NEW p \in Procs, ReadNext(p)
      PROVE  [Fifo!Next]_Fifo!vars
  BY <1>2, <1>maps, ReadGets DEF ReadNext
<1>3. ASSUME NEW p \in Procs, OpenZeroHead(p) \/ RelZeroHead(p)
      PROVE  [Fifo!Next]_Fifo!vars
  BY <1>3, <1>maps, ZeroFlushes
<1>4. ASSUME UNCHANGED <<head, tail, since, nread>>, ~raced, UNCHANGED raced,
             InUse' = InUse
      PROVE  [Fifo!Next]_Fifo!vars
  BY <1>4, <1>maps, Stutters
<1>5. ASSUME NEW w \in Writers,
             Enter(w) \/ Claim(w) \/ WriteMeta(w) \/ WriteData(w) \/ LoadHead(w)
      PROVE  [Fifo!Next]_Fifo!vars
  <2>1. UNCHANGED <<head, tail, since, nread, fpc>>
    BY <1>5 DEF Enter, Claim, WriteMeta, WriteData, LoadHead
  <2>2. ~raced /\ raced' = raced
    BY <1>5 DEF Enter, Claim, WriteMeta, WriteData, LoadHead, FileInv, TypeOK
  <2>3. InUse' = InUse
    BY <2>1 DEF InUse, Reading
  <2> QED
    BY <1>4, <2>1, <2>2, <2>3
<1>6. CASE SetCopy \/ UNCHANGED vars
  <2>1. UNCHANGED <<head, tail, since, nread, fpc>> /\ ~raced /\ UNCHANGED raced
    BY <1>6 DEF SetCopy, vars
  <2>2. InUse' = InUse
    BY <2>1 DEF InUse, Reading
  <2> QED
    BY <1>4, <2>1, <2>2
<1>7. ASSUME NEW p \in Procs,
             \/ OpenZeroTail(p) \/ pval_file_poll(p) \/ PollTimeout(p) \/ ReadCopy(p)
             \/ \E count \in 1..MaxIov : ReadBegin(p, count)
      PROVE  [Fifo!Next]_Fifo!vars
  <2>1. UNCHANGED <<head, since, nread>> /\ ~raced /\ UNCHANGED raced
    BY <1>7 DEF OpenZeroTail, pval_file_poll, PollTimeout, ReadCopy, ReadBegin
  <2>2. InUse /\ InUse'
    BY <1>7, <1>types
    DEF OpenZeroTail, pval_file_poll, PollTimeout, ReadCopy, ReadBegin, InUse, Reading,
        ReadPc
  <2>3. tail' = tail
    <3>1. ASSUME OpenZeroTail(p) PROVE tail = 0
      BY <3>1 DEF FileInv, ExclusiveOpen, TailRests, OpenZeroTail, ReadPc
    <3> QED
      BY <1>7, <3>1 DEF OpenZeroTail, pval_file_poll, PollTimeout, ReadCopy, ReadBegin
  <2> QED
    BY <1>4, <2>1, <2>2, <2>3
(* Outside a session nothing of the ring is promised.                      *)
<1>8. ASSUME NEW p \in Procs,
             OpenTest(p) \/ OpenSet(p) \/ RelZeroTail(p) \/ RelOpened(p)
      PROVE  [Fifo!Next]_Fifo!vars
  <2>1. ~InUse /\ ~InUse' /\ UNCHANGED raced
    BY <1>8, <1>types
    DEF FileInv, ExclusiveOpen, OpenTest, OpenSet, RelZeroTail, RelOpened, InUse, Reading,
        ReadPc
  <2> QED
    BY <2>1, <1>maps DEF Mapped, Fifo!vars
<1> QED
  BY <1>1, <1>2, <1>3, <1>5, <1>6, <1>7, <1>8
  DEF Next, write_to_ring, pval_file_open, pval_file_read_iter, pval_file_release

(* The ring with its writers, readers and flushes is a bounded FIFO: what  *)
(* pval_file_read_iter hands out, write_to_ring has put in, in order, and  *)
(* at most PVAL_SLOT_NUM - 1 packets wait.                                 *)
THEOREM RingIsFifo == Spec => FifoSpec
<1>1. Init => Fifo!Init
  <2> SUFFICES ASSUME Init PROVE Fifo!Init
    OBVIOUS
  <2>1. ~InUse
    BY DEF Init, InUse, Reading, ReadPc
  <2> QED
    BY <2>1 DEF Init, Fifo!Init, fifoQueue, fifoAccepted, fifoTaken
<1>2. Init => FileInv /\ RingInv
  BY InitFile, InitRing
<1> QED
  BY <1>1, <1>2, NextRing, NextRefines, PTL DEF Spec, FifoSpec, Fifo!Spec
=============================================================================
