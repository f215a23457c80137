----------------------------- MODULE PvalRing -----------------------------
(***************************************************************************)
(* One pval misc device (struct pval_mdev of kmod/pval_main.c): its ring,  *)
(* the kernel contexts that write packets to it, and the processes that    *)
(* open, poll, read and close its character device.  Nothing in the code   *)
(* locks the ring, so every access to head, tail and a slot is a step.     *)
(*                                                                         *)
(* The receive ring of a CPU has one writer, the softirq that runs         *)
(* pdev_handle_frame.  The transmit ring of a CPU has two: pval_xmit (with *)
(* bottom halves disabled) and the kworker that runs pval_txtstamp_work2,  *)
(* which pval_xmit can interrupt but not the other way round.              *)
(*                                                                         *)
(* Loads and stores of one context take effect in program order (x86), and *)
(* a field that is read several times with no store or call in between is  *)
(* loaded once, as gcc does with plain C accesses at the kernel's -O2.     *)
(***************************************************************************)
EXTENDS RingOps

CONSTANTS
  Writers,   \* kernel contexts that call write_to_ring on this ring
  Gated,     \* the writers that test the copy switch and `opened' first
  Masks,     \* <<v, w>>: while v is inside write_to_ring, w cannot run
  Procs,     \* processes that use the character device
  NoProc,    \* nobody (holds misc_mtx)
  MaxIov,    \* most iovecs of one readv(), BULKNUM in tools/
  MaxPkts,   \* bound: packets that enter write_to_ring
  Timeout    \* whether poll() is called with a finite timeout

ASSUME WritersAssumption == Gated \subseteq Writers /\ Masks \subseteq Writers \X Writers
ASSUME ProcsAssumption   == NoProc \notin Procs
ASSUME BoundsAssumption  == MaxIov \in Nat \ {0} /\ MaxPkts \in Nat
ASSUME TimeoutAssumption == Timeout \in BOOLEAN

VARIABLES
  head, tail,  \* pval_ring.head and .tail
  slots,       \* pval_ring.slots: which packet wrote each half of a slot
  opened,      \* pval_mdev.opened
  copy,        \* rxcopy, or txcopy without txtstamp, of the parent pval_dev
  wpc,         \* where each writer is
  wslot,       \* s = &r->slots[r->head] of write_to_ring
  whead,       \* the head ring_write_next loaded
  wid,         \* the packet being written
  misc_mtx,    \* the misc layer's mutex, held across pval_file_open
  fpc,         \* where each process is
  fcnt,        \* copynum - n of pval_file_read_iter
  nclaim,      \* packets that got past ring_full, which numbers them
  (* history, read by no action of the system: *)
  since,       \* nclaim when the current reader's open flushed the ring
  nread,       \* slots the current reader has taken
  ulast,       \* the slot last copied to user space
  raced        \* a flush or a second writer ran into a write in progress

ringVars   == <<head, tail, slots>>
writerVars == <<wpc, wslot, whead, wid, nclaim>>
fileVars   == <<opened, misc_mtx, fpc, fcnt>>
ghostVars  == <<since, nread, ulast, raced>>
vars       == <<ringVars, writerVars, fileVars, ghostVars, copy>>

(***************************************************************************)
(* A slot holds len, pktlen and tstamp (meta) and the packet bytes (data); *)
(* each is named by the packet it was taken from, 0 for what kmalloc left. *)
(***************************************************************************)
Slot == [meta : Nat, data : Nat]

InWrite(w) == wpc[w] \in {"meta", "data", "load", "store"}

Init ==
  /\ head = 0 /\ tail = 0
  /\ slots = [x \in Index |-> [meta |-> 0, data |-> 0]]
  /\ opened = FALSE
  /\ copy = FALSE
  /\ wpc = [w \in Writers |-> "idle"]
  /\ wslot = [w \in Writers |-> 0]
  /\ whead = [w \in Writers |-> 0]
  /\ wid = [w \in Writers |-> 0]
  /\ misc_mtx = NoProc
  /\ fpc = [p \in Procs |-> "none"]
  /\ fcnt = [p \in Procs |-> 0]
  /\ nclaim = 0
  /\ since = 0 /\ nread = 0
  /\ ulast = [meta |-> 0, data |-> 0]
  /\ raced = FALSE

---------------------------------------------------------------------------
(* Writers.                                                                *)

CanRun(w) == \A v \in Writers : <<v, w>> \in Masks => wpc[v] = "idle"

(* The test in front of write_to_ring.  pval_txtstamp_work2 has none.      *)
Enter(w) ==
  /\ wpc[w] = "idle" /\ CanRun(w)
  /\ nclaim < MaxPkts
  /\ w \in Gated => copy /\ opened
  /\ wpc' = [wpc EXCEPT ![w] = "check"]
  /\ UNCHANGED <<ringVars, wslot, whead, wid, nclaim, fileVars, ghostVars, copy>>

(* if (ring_full(r)) return 0; s = &r->slots[r->head];  one load of head.  *)
Claim(w) ==
  /\ wpc[w] = "check" /\ CanRun(w)
  /\ IF ring_full(head, tail)
       THEN /\ wpc' = [wpc EXCEPT ![w] = "idle"]
            /\ UNCHANGED <<wslot, wid, nclaim, raced>>
       ELSE /\ wpc' = [wpc EXCEPT ![w] = "meta"]
            /\ wslot' = [wslot EXCEPT ![w] = head]
            /\ wid' = [wid EXCEPT ![w] = nclaim + 1]
            /\ nclaim' = nclaim + 1
            /\ raced' = (raced \/ \E v \in Writers : InWrite(v))
  /\ UNCHANGED <<ringVars, whead, fileVars, since, nread, ulast, copy>>

(* s->len, s->pktlen and s->tstamp                                         *)
WriteMeta(w) ==
  /\ wpc[w] = "meta" /\ CanRun(w)
  /\ slots' = [slots EXCEPT ![wslot[w]] = [meta |-> wid[w], data |-> @.data]]
  /\ wpc' = [wpc EXCEPT ![w] = "data"]
  /\ UNCHANGED <<head, tail, wslot, whead, wid, nclaim, fileVars, ghostVars, copy>>

(* memcpy(s->pkt, skb_mac_header(skb), copylen)                            *)
WriteData(w) ==
  /\ wpc[w] = "data" /\ CanRun(w)
  /\ slots' = [slots EXCEPT ![wslot[w]] = [meta |-> @.meta, data |-> wid[w]]]
  /\ wpc' = [wpc EXCEPT ![w] = "load"]
  /\ UNCHANGED <<head, tail, wslot, whead, wid, nclaim, fileVars, ghostVars, copy>>

(* ring_write_next: r->head = (r->head + 1) & r->mask, a load and a store. *)
LoadHead(w) ==
  /\ wpc[w] = "load" /\ CanRun(w)
  /\ whead' = [whead EXCEPT ![w] = head]
  /\ wpc' = [wpc EXCEPT ![w] = "store"]
  /\ UNCHANGED <<ringVars, wslot, wid, nclaim, fileVars, ghostVars, copy>>

StoreHead(w) ==
  /\ wpc[w] = "store" /\ CanRun(w)
  /\ head' = ring_write_next(whead[w])
  /\ wpc' = [wpc EXCEPT ![w] = "idle"]
  /\ UNCHANGED <<tail, slots, wslot, whead, wid, nclaim, fileVars, ghostVars, copy>>

write_to_ring(w) ==
  \/ Claim(w) \/ WriteMeta(w) \/ WriteData(w) \/ LoadHead(w) \/ StoreHead(w)

(* pval_nl_config: the copy switch of this direction is turned on or off.  *)
SetCopy ==
  /\ copy' = ~copy
  /\ UNCHANGED <<ringVars, writerVars, fileVars, ghostVars>>

---------------------------------------------------------------------------
(* Processes.  misc_open of the misc layer calls pval_file_open with       *)
(* misc_mtx held, which it drops when that returns; release takes no lock. *)

(* Mutants: pval_file_open runs without misc_mtx; the ring is not flushed  *)
(* at open.                                                                *)
MutOpenUnlocked(p) ==
  /\ fpc[p] = "none"
  /\ ~opened
  /\ fpc' = [fpc EXCEPT ![p] = "open_set"]
  /\ UNCHANGED <<ringVars, writerVars, opened, misc_mtx, fcnt, ghostVars, copy>>

MutOpenUnflushed(p) ==
  /\ fpc[p] = "open_head"
  /\ fpc' = [fpc EXCEPT ![p] = "open_tail"]
  /\ since' = nclaim /\ nread' = 0
  /\ raced' = \E w \in Writers : InWrite(w)
  /\ UNCHANGED <<ringVars, writerVars, opened, misc_mtx, fcnt, ulast, copy>>

(* "XXX: this should be atmoic": the test of opened ...                    *)
OpenTest(p) ==
  /\ fpc[p] = "none" /\ misc_mtx = NoProc
  /\ ~opened                                   \* otherwise -EBUSY
  /\ misc_mtx' = p
  /\ fpc' = [fpc EXCEPT ![p] = "open_set"]
  /\ UNCHANGED <<ringVars, writerVars, opened, fcnt, ghostVars, copy>>

(* ... and its store are two steps.                                        *)
OpenSet(p) ==
  /\ fpc[p] = "open_set"
  /\ opened' = TRUE
  /\ fpc' = [fpc EXCEPT ![p] = "open_head"]
  /\ UNCHANGED <<ringVars, writerVars, misc_mtx, fcnt, ghostVars, copy>>

(* ring_zero: r->head = 0; r->tail = 0;  "flush the ring"                  *)
OpenZeroHead(p) ==
  /\ fpc[p] = "open_head"
  /\ head' = 0
  /\ fpc' = [fpc EXCEPT ![p] = "open_tail"]
  /\ since' = nclaim /\ nread' = 0
  /\ raced' = \E w \in Writers : InWrite(w)
  /\ UNCHANGED <<tail, slots, writerVars, opened, misc_mtx, fcnt, ulast, copy>>

OpenZeroTail(p) ==
  /\ fpc[p] = "open_tail"
  /\ tail' = 0
  /\ misc_mtx' = NoProc
  /\ fpc' = [fpc EXCEPT ![p] = "ready"]
  /\ UNCHANGED <<head, slots, writerVars, opened, fcnt, ghostVars, copy>>

(* poll_wait, then the test of the ring.  No code wakes pval_wait.         *)
pval_file_poll(p) ==
  /\ fpc[p] = "ready"
  /\ fpc' = [fpc EXCEPT ![p] = IF ring_emtpy(head, tail) THEN "asleep" ELSE "pollin"]
  /\ UNCHANGED <<ringVars, writerVars, opened, misc_mtx, fcnt, ghostVars, copy>>

(* poll() gives up waiting and tests the file once more.                   *)
PollTimeout(p) ==
  /\ fpc[p] = "asleep" /\ Timeout
  /\ fpc' = [fpc EXCEPT ![p] = IF ring_emtpy(head, tail) THEN "ready" ELSE "pollin"]
  /\ UNCHANGED <<ringVars, writerVars, opened, misc_mtx, fcnt, ghostVars, copy>>

(* Mutant: one iovec of a readv() is left unused.                          *)
MutReadBeginShort(p, count) ==
  LET avail == ring_read_avail(head, tail)
      num   == IF avail > count - 1 THEN count - 1 ELSE avail
  IN  /\ fpc[p] \in {"ready", "pollin"}
      /\ fcnt' = [fcnt EXCEPT ![p] = num]
      /\ fpc' = [fpc EXCEPT ![p] = IF num = 0 THEN "ready" ELSE "copy"]
      /\ UNCHANGED <<ringVars, writerVars, opened, misc_mtx, ghostVars, copy>>

(* pval_file_read_iter up to its loop; an empty ring returns 0 at once.    *)
ReadBegin(p, count) ==
  LET avail == ring_read_avail(head, tail)
  IN  /\ fpc[p] \in {"ready", "pollin"}
      /\ fcnt' = [fcnt EXCEPT ![p] = IF avail > count THEN count ELSE avail]
      /\ fpc' = [fpc EXCEPT ![p] = IF ring_emtpy(head, tail) THEN "ready" ELSE "copy"]
      /\ UNCHANGED <<ringVars, writerVars, opened, misc_mtx, ghostVars, copy>>

(* copy_to_user(iter->iov[n].iov_base, &r->slots[r->tail], copylen)        *)
ReadCopy(p) ==
  /\ fpc[p] = "copy"
  /\ ulast' = slots[tail]
  /\ fpc' = [fpc EXCEPT ![p] = "next"]
  /\ UNCHANGED <<ringVars, writerVars, opened, misc_mtx, fcnt, since, nread, raced, copy>>

(* Mutant: a short readv() drops the slots it did not copy.                *)
MutReadNextAll(p) ==
  /\ fpc[p] = "next"
  /\ tail' = head
  /\ nread' = nread + 1
  /\ fcnt' = [fcnt EXCEPT ![p] = @ - 1]
  /\ fpc' = [fpc EXCEPT ![p] = IF fcnt[p] > 1 THEN "copy" ELSE "ready"]
  /\ UNCHANGED <<head, slots, writerVars, opened, misc_mtx, since, ulast, raced, copy>>

ReadNext(p) ==
  /\ fpc[p] = "next"
  /\ tail' = ring_read_next(tail)
  /\ nread' = nread + 1
  /\ fcnt' = [fcnt EXCEPT ![p] = @ - 1]
  /\ fpc' = [fpc EXCEPT ![p] = IF fcnt[p] > 1 THEN "copy" ELSE "ready"]
  /\ UNCHANGED <<head, slots, writerVars, opened, misc_mtx, since, ulast, raced, copy>>

(* pval_file_release: ring_zero, then opened = false.                      *)
RelZeroHead(p) ==
  /\ fpc[p] \in {"ready", "pollin", "asleep"}
  /\ head' = 0
  /\ fpc' = [fpc EXCEPT ![p] = "rel_tail"]
  /\ UNCHANGED <<tail, slots, writerVars, opened, misc_mtx, fcnt, ghostVars, copy>>

RelZeroTail(p) ==
  /\ fpc[p] = "rel_tail"
  /\ tail' = 0
  /\ fpc' = [fpc EXCEPT ![p] = "rel_opened"]
  /\ UNCHANGED <<head, slots, writerVars, opened, misc_mtx, fcnt, ghostVars, copy>>

RelOpened(p) ==
  /\ fpc[p] = "rel_opened"
  /\ opened' = FALSE
  /\ fpc' = [fpc EXCEPT ![p] = "none"]
  /\ fcnt' = [fcnt EXCEPT ![p] = 0]
  /\ UNCHANGED <<ringVars, writerVars, misc_mtx, ghostVars, copy>>

pval_file_open(p) == OpenTest(p) \/ OpenSet(p) \/ OpenZeroHead(p) \/ OpenZeroTail(p)

pval_file_read_iter(p) ==
  \/ \E count \in 1..MaxIov : ReadBegin(p, count)
  \/ ReadCopy(p)
  \/ ReadNext(p)

pval_file_release(p) == RelZeroHead(p) \/ RelZeroTail(p) \/ RelOpened(p)

---------------------------------------------------------------------------
Next ==
  \/ \E w \in Writers : Enter(w) \/ write_to_ring(w)
  \/ SetCopy
  \/ \E p \in Procs : \/ pval_file_open(p)
                      \/ pval_file_poll(p)
                      \/ PollTimeout(p)
                      \/ pval_file_read_iter(p)
                      \/ pval_file_release(p)

Spec == Init /\ [][Next]_vars

---------------------------------------------------------------------------
(* Properties.                                                             *)

WriterPc == {"idle", "check", "meta", "data", "load", "store"}
ReadPc   == {"ready", "asleep", "pollin", "copy", "next"}
OpenPc   == {"open_set", "open_head", "open_tail"}
FilePc   == ReadPc \cup OpenPc \cup {"none", "rel_tail", "rel_opened"}

(* Types, among them: head and tail stay inside the ring whatever writers, *)
(* flushes and readers do to each other.                                   *)
TypeOK ==
  /\ head \in Index /\ tail \in Index
  /\ slots \in [Index -> Slot]
  /\ opened \in BOOLEAN /\ copy \in BOOLEAN /\ raced \in BOOLEAN
  /\ wpc \in [Writers -> WriterPc]
  /\ wslot \in [Writers -> Index] /\ whead \in [Writers -> Index]
  /\ wid \in [Writers -> Nat]
  /\ misc_mtx \in Procs \cup {NoProc}
  /\ fpc \in [Procs -> FilePc]
  /\ fcnt \in [Procs -> Nat]
  /\ nclaim \in Nat /\ since \in Nat /\ nread \in Nat
  /\ ulast \in Slot

(* From the flush of its open to its release, the device is p's to read.   *)
Reading(p) == fpc[p] \in ReadPc \cup {"open_tail"}
InUse      == \E p \in Procs : Reading(p)

(* Packets on their way into the ring, when writes do not overlap.         *)
InFlight == IF \E w \in Writers : InWrite(w) THEN 1 ELSE 0

(* At most one process is past the test of `opened', and from the store on *)
(* `opened' tells that there is one: the test and the store of             *)
(* pval_file_open are two steps, which misc_mtx keeps together, and        *)
(* pval_file_release, without the mutex, clears `opened' as its last step. *)
ExclusiveOpen ==
  /\ \A p, q \in Procs : fpc[p] # "none" /\ fpc[q] # "none" => p = q
  /\ opened <=> \E p \in Procs : fpc[p] \notin {"none", "open_set"}

(* The k-th slot handed to a reader since it opened the device is the k-th *)
(* packet written since then, whole: nothing stale, torn, lost, repeated   *)
(* or out of order comes out of pval_file_read_iter, unless a write was    *)
(* run into by another write or by the flush of pval_file_open.            *)
FifoDelivery ==
  ~raced => \A p \in Procs : fpc[p] = "next" =>
              ulast = [meta |-> since + nread + 1, data |-> since + nread + 1]

(* No writer is storing into a slot that the reader may take: write_to_ring*)
(* leaves the slot at `head' out of the published ones until it is whole.  *)
NoOverwrite ==
  ~raced /\ InUse =>
    \A w \in Writers : InWrite(w) => wslot[w] \notin Published(head, tail)

(* Conservation: what was written since the flush is what the reader took, *)
(* what waits in the ring and the write in progress; ring_full never lets  *)
(* the head run into the tail, which would make a full ring look empty.    *)
NothingLost ==
  ~raced /\ InUse =>
    nclaim = since + nread + ring_read_avail(head, tail) + InFlight

(***************************************************************************)
(* The inductive invariant behind these: pval_file_open runs with misc_mtx *)
(* held, so nobody else is between its test and its store of `opened';     *)
(* outside a reading session the tail rests at 0, so that zeroing the head *)
(* empties the ring; a write that nothing ran into owns the free slot at   *)
(* the head and holds the youngest number; the published slots hold        *)
(* consecutive numbers from the tail on; a read in progress has no more    *)
(* slots to take than there are.                                           *)
(***************************************************************************)
OpenHoldsMutex == \A p \in Procs : fpc[p] \in OpenPc => misc_mtx = p

TailRests == tail # 0 => \E p \in Procs : fpc[p] \in ReadPc \cup {"rel_tail"}

OneWrite == ~raced => \A v, w \in Writers : InWrite(v) /\ InWrite(w) => v = w

WriteInProgress ==
  ~raced /\ InUse => \A w \in Writers : InWrite(w) =>
    /\ wslot[w] = head /\ wid[w] = nclaim
    /\ Offset(tail, head) < mask
    /\ wpc[w] # "meta" => slots[head].meta = wid[w]
    /\ wpc[w] \in {"load", "store"} => slots[head].data = wid[w]
    /\ wpc[w] = "store" => whead[w] = head

PublishedInOrder ==
  ~raced /\ InUse => \A x \in Published(head, tail) :
    /\ slots[x].meta = since + nread + 1 + Offset(tail, x)
    /\ slots[x].data = since + nread + 1 + Offset(tail, x)

ReadInProgress ==
  \A p \in Procs : fpc[p] \in {"copy", "next"} =>
    fcnt[p] >= 1 /\ (~raced => fcnt[p] <= Offset(tail, head))

IInv ==
  /\ TypeOK /\ ExclusiveOpen /\ OpenHoldsMutex /\ TailRests /\ OneWrite /\ WriteInProgress
  /\ PublishedInOrder /\ NothingLost /\ ReadInProgress /\ FifoDelivery

(***************************************************************************)
(* The ring as a FIFO of the packets written since the flush.              *)
(***************************************************************************)
fifoQueue ==
  IF ~InUse THEN <<>>
  ELSE [i \in 1..ring_read_avail(head, tail) |->
          slots[(tail + i - 1) % SlotNum].data - since]

fifoAccepted == IF ~InUse THEN 0 ELSE nclaim - since - InFlight
fifoTaken    == IF ~InUse THEN 0 ELSE nread

Fifo == INSTANCE PacketFifo WITH
  Capacity <- mask, queue <- fifoQueue, accepted <- fifoAccepted, taken <- fifoTaken,
  clean <- ~raced

(* The ring with its writers and readers implements the bounded FIFO.      *)
FifoSpec == Fifo!Spec

(***************************************************************************)
(* Progress.  A write in progress runs to its end (softirq, bottom-half    *)
(* and kworker contexts are not abandoned), the process runs the loop of   *)
(* tools/: poll() with a timeout, then readv(); closing is up to the user. *)
(***************************************************************************)
FairSpec ==
  /\ Spec
  /\ \A w \in Writers : WF_vars(write_to_ring(w))
  /\ \A p \in Procs : /\ WF_vars(pval_file_poll(p))
                      /\ WF_vars(PollTimeout(p))
                      /\ WF_vars(pval_file_read_iter(p))

Waiting(k) ==
  /\ \E p \in Procs : fpc[p] \in ReadPc
  /\ \E x \in Published(head, tail) : slots[x].data = k

(* A packet in the ring of an open device is read, or the device closed:   *)
(* the timeout of poll() makes up for the wake-up that never comes (with   *)
(* Timeout = FALSE a process sleeps over a full ring).                     *)
EventuallyRead == \A k \in 1..MaxPkts : Waiting(k) ~> ~Waiting(k)

(***************************************************************************)
(* Statements of the repository about the ring that the code does not keep.*)
(***************************************************************************)

(* "flush the ring" (pval_file_open): what a reader gets is no older than  *)
(* the packet that was last on its way into the ring at the flush.         *)
FlushedAtOpen == \A p \in Procs : fpc[p] = "next" => ulast.data >= since

(* "Applications can obtain the copied packets with hardware timestamps"   *)
(* (README.md): the timestamp in a slot is the one of the packet in it.    *)
TstampOfPacket == \A p \in Procs : fpc[p] = "next" => ulast.meta = ulast.data
=============================================================================
