----------------------------- MODULE PvalXmit -----------------------------
(***************************************************************************)
(* The transmit path of a pval interface (kmod/pval_main.c): pval_xmit on  *)
(* several CPUs at once, the work items of pval_txtstamp_work2 that wait   *)
(* for hardware timestamps, and pval_nl_config, which flips the switches   *)
(* of the interface under them.  No lock is taken on the way: the switches *)
(* are read several times by one pval_xmit, and pdev->seq is a plain u64   *)
(* that all CPUs increment.                                                *)
(*                                                                         *)
(* A CPU runs one pval_xmit at a time (bottom halves are disabled).  What  *)
(* happens inside a ring is PvalRing's; here a ring is the sequence of the *)
(* packets write_to_ring was called with.                                  *)
(***************************************************************************)
EXTENDS Naturals, Sequences

CONSTANTS
  CPUs,
  None,        \* no CPU, no packet
  Pkts,        \* the sk_buffs the stack transmits
  IpPkts,      \* the ones with h_proto ETH_P_IP
  Configs,     \* the switch settings the interface may be created with
  AfterBusy,   \* where NETDEV_TX_BUSY may leave a packet, see Busy
  MaxChanges,  \* bound: times a switch is flipped
  MaxOptions   \* bound: options an skb has when skb_clone last fails for it

(* txbusydrop is set and shown, and read by no code.                       *)
Switches == {"ipopt", "txtstamp", "txcopy"}

ASSUME ConfigsAssumption == Configs \subseteq [Switches -> BOOLEAN]
ASSUME PktsAssumption    == IpPkts \subseteq Pkts
ASSUME NoneAssumption    == None \notin Pkts \cup CPUs
ASSUME BusyAssumption    == AfterBusy \subseteq {"stack", "dropped"}
ASSUME BoundsAssumption  == MaxChanges \in Nat /\ MaxOptions \in Nat

VARIABLES
  sw,          \* the switches of struct pval_dev
  nchg,        \* flips so far
  linkUp,      \* pdev->link->flags & IFF_UP
  opened,      \* pdev->txmdevs[cpu].opened
  seq,         \* pdev->seq
  pc,          \* where each CPU is in pval_xmit
  cur,         \* the skb it transmits
  lseq,        \* the value `pdev->seq++' has loaded
  where,       \* who has each skb: the stack, pval_xmit, the wire, nobody
  options,     \* the Pval options in each skb, <<cpu, seq>> each
  hwreq,       \* SKBTX_HW_TSTAMP of skb_shinfo, shared with the clone
  stamped,     \* the hardware timestamp is in skb_shinfo
  clone,       \* the clone of each skb
  worker,      \* the struct pval_worker of each skb
  wring,       \* worker->ring
  late,        \* PVAL_TXTSTAMP_TIMEOUT has passed since worker->start
  ring,        \* what was written to each CPU's TX ring
  oops,        \* a NULL sk_buff was dereferenced
  (* history, read by no action of the system: *)
  excuse,      \* what went wrong in the environment for each skb
  seqraced     \* two CPUs were inside `pdev->seq++' at once

swVars     == <<sw, nchg>>
envVars    == <<linkUp, opened>>
cpuVars    == <<seq, pc, cur, lseq>>
skbVars    == <<where, options, hwreq, stamped, clone>>
workerVars == <<worker, wring, late>>
vars       == <<swVars, envVars, cpuVars, skbVars, workerVars, ring, oops, excuse, seqraced>>

(* pval_newlink leaves the switches as the netlink request asks for.       *)
Init ==
  /\ sw \in Configs /\ nchg = 0
  /\ linkUp = TRUE
  /\ opened = [c \in CPUs |-> FALSE]
  /\ seq = 0
  /\ pc = [c \in CPUs |-> "idle"]
  /\ cur = [c \in CPUs |-> None]
  /\ lseq = [c \in CPUs |-> 0]
  /\ where = [k \in Pkts |-> "stack"]
  /\ options = [k \in Pkts |-> <<>>]
  /\ hwreq = [k \in Pkts |-> FALSE]
  /\ stamped = [k \in Pkts |-> FALSE]
  /\ clone = [k \in Pkts |-> "none"]
  /\ worker = [k \in Pkts |-> "none"]
  /\ wring = [k \in Pkts |-> None]
  /\ late = [k \in Pkts |-> FALSE]
  /\ ring = [c \in CPUs |-> <<>>]
  /\ oops = FALSE
  /\ excuse = [k \in Pkts |-> {}]
  /\ seqraced = FALSE

InXmit(k) == \E c \in CPUs : pc[c] # "idle" /\ cur[c] = k

(* In the middle of pval_xmit, or waiting to be tried again.               *)
Midway(k) == InXmit(k) \/ (where[k] = "stack" /\ (hwreq[k] \/ options[k] # <<>>))

---------------------------------------------------------------------------
(* pval_xmit                                                               *)

(* What the caller does with a packet for which it gets NETDEV_TX_BUSY: a  *)
(* qdisc keeps it and tries again ("stack"); a noqueue device, which pval  *)
(* is by default, has nowhere to keep it ("dropped").                      *)
Busy(k) == \E next \in AfterBusy : where' = [where EXCEPT ![k] = next]

(* Entry: the link must be up; only IP packets get an option.              *)
Begin(c, k) ==
  /\ pc[c] = "idle" /\ where[k] = "stack"
  /\ IF linkUp
       THEN /\ where' = [where EXCEPT ![k] = "xmit"]
            /\ cur' = [cur EXCEPT ![c] = k]
            /\ pc' = [pc EXCEPT ![c] =
                        IF sw["ipopt"] /\ k \in IpPkts THEN "load_seq" ELSE "request"]
       ELSE Busy(k) /\ UNCHANGED <<cur, pc>>
  /\ UNCHANGED <<swVars, envVars, seq, lseq, options, hwreq, stamped, clone, workerVars,
                 ring, oops, excuse, seqraced>>

(* ipp->seq = pdev->seq++, a load and a store; then the option is in.  The *)
(* counter is a u64, which no run exhausts.  Mutants: the old value less   *)
(* one is inserted; the increment is lost.                                 *)
MutOldSeqLessOne == seq - 1
OldSeq == seq

MutSameSeq(n) == n
NextSeq(n) == n + 1

LoadSeq(c) ==
  /\ pc[c] = "load_seq"
  /\ lseq' = [lseq EXCEPT ![c] = OldSeq]
  /\ pc' = [pc EXCEPT ![c] = "store_seq"]
  /\ seqraced' = (seqraced \/ \E d \in CPUs : pc[d] = "store_seq")
  /\ UNCHANGED <<swVars, envVars, seq, cur, skbVars, workerVars, ring, oops, excuse>>

StoreSeq(c) ==
  /\ pc[c] = "store_seq"
  /\ seq' = NextSeq(lseq[c])
  /\ options' = [options EXCEPT ![cur[c]] = Append(@, <<c, lseq[c]>>)]
  /\ pc' = [pc EXCEPT ![c] = "request"]
  /\ UNCHANGED <<swVars, envVars, cur, lseq, where, hwreq, stamped, clone, workerVars,
                 ring, oops, excuse, seqraced>>

(* Mutant: the switch for timestamps is forgotten.                         *)
MutNeedsCloneCopy == sw["txcopy"]
NeedsClone == sw["txtstamp"] \/ sw["txcopy"]

(* kfree_skb of the clone, which does nothing for NULL.  Mutant: removed.  *)
MutKeepClone(k) == clone
FreeClone(k) == [clone EXCEPT ![k] = IF @ = "live" THEN "freed" ELSE @]

(* The label xmit: request a timestamp, ...                                *)
RequestTstamp(c) ==
  /\ pc[c] = "request"
  /\ hwreq' = [hwreq EXCEPT ![cur[c]] = @ \/ sw["txtstamp"]]
  /\ pc' = [pc EXCEPT ![c] = "clone"]
  /\ UNCHANGED <<swVars, envVars, seq, cur, lseq, where, options, stamped, clone,
                 workerVars, ring, oops, excuse, seqraced>>

(* ... then read the switch again and clone the skb if one needs it.       *)
Clone(c) ==
  /\ pc[c] = "clone"
  /\ \/ /\ ~NeedsClone
        /\ pc' = [pc EXCEPT ![c] = "queue"]
        /\ UNCHANGED <<where, clone>>
     \/ /\ NeedsClone
        /\ clone' = [clone EXCEPT ![cur[c]] = "live"]
        /\ pc' = [pc EXCEPT ![c] = "queue"]
        /\ UNCHANGED where
     \/ /\ NeedsClone                              \* skb_clone failed
        /\ Len(options[cur[c]]) <= MaxOptions
        /\ Busy(cur[c])
        /\ pc' = [pc EXCEPT ![c] = "idle"]
        /\ UNCHANGED clone
  /\ UNCHANGED <<swVars, envVars, seq, cur, lseq, options, hwreq, stamped, workerVars,
                 ring, oops, excuse, seqraced>>

(* dev_queue_xmit takes the skb whatever it returns; when that is not      *)
(* NETDEV_TX_OK, pval_xmit returns at once and forgets the clone.          *)
Queue(c) ==
  LET k == cur[c]
  IN  /\ pc[c] = "queue"
      /\ \/ /\ where' = [where EXCEPT ![k] = "sent"]
            /\ pc' = [pc EXCEPT ![c] = "after"]
            /\ UNCHANGED excuse
         \/ /\ where' = [where EXCEPT ![k] = "dropped"]
            /\ pc' = [pc EXCEPT ![c] = "idle"]
            /\ excuse' = [excuse EXCEPT ![k] = @ \cup {"rejected"}]
      /\ UNCHANGED <<swVars, envVars, seq, cur, lseq, options, hwreq, stamped, clone,
                     workerVars, ring, oops, seqraced>>

(* worker->ring = &pmdev->ring of this CPU.  Mutant: of the first CPU.     *)
MutFirstRing(c) == CHOOSE d \in CPUs : TRUE
WorkerRing(c) == c

(* After the transmission: start a worker, ...                             *)
StartWorker(c) ==
  LET k == cur[c]
  IN  /\ pc[c] = "after" /\ sw["txtstamp"]
      /\ pc' = [pc EXCEPT ![c] = "idle"]
      /\ \/ /\ worker' = [worker EXCEPT ![k] = "scheduled"]
            /\ wring' = [wring EXCEPT ![k] = WorkerRing(c)]
            /\ UNCHANGED excuse
         \/ /\ excuse' = [excuse EXCEPT ![k] = @ \cup {"nomem"}]   \* kmalloc failed
            /\ UNCHANGED <<worker, wring>>
      /\ UNCHANGED <<swVars, envVars, seq, cur, lseq, skbVars, late, ring, oops, seqraced>>

(* ... or copy the packet at once if somebody reads, ...                   *)
CopyNow(c) ==
  LET k == cur[c]
  IN  /\ pc[c] = "after" /\ ~sw["txtstamp"] /\ sw["txcopy"]
      /\ pc' = [pc EXCEPT ![c] = "idle"]
      /\ ring' = [ring EXCEPT ![c] =
                    IF opened[c] /\ clone[k] = "live" THEN Append(@, k) ELSE @]
      /\ oops' = (opened[c] /\ clone[k] = "none")
      /\ clone' = FreeClone(k)
      /\ UNCHANGED <<swVars, envVars, seq, cur, lseq, where, options, hwreq, stamped,
                     workerVars, excuse, seqraced>>

(* ... or be done.                                                         *)
NoCopy(c) ==
  /\ pc[c] = "after" /\ ~sw["txtstamp"] /\ ~sw["txcopy"]
  /\ pc' = [pc EXCEPT ![c] = "idle"]
  /\ UNCHANGED <<swVars, envVars, seq, cur, lseq, skbVars, workerVars, ring, oops,
                 excuse, seqraced>>

pval_xmit(c) ==
  \/ \E k \in Pkts : Begin(c, k)
  \/ LoadSeq(c) \/ StoreSeq(c) \/ RequestTstamp(c) \/ Clone(c) \/ Queue(c)
  \/ StartWorker(c) \/ CopyNow(c) \/ NoCopy(c)

---------------------------------------------------------------------------
(* The two tests of pval_txtstamp_work2.  Mutant: a copy without its       *)
(* timestamp is good enough.                                               *)
MutTstampIgnored(k) == late[k]
HasTstamp(k) == stamped[k]

TimedOut(k) == late[k]

(* pval_txtstamp_work2.  Without a timestamp and before the timeout it only*)
(* schedules itself again.  It tests neither txcopy nor opened, and leaves *)
(* the struct pval_worker allocated when it gives up.                      *)
pval_txtstamp_work2(k) ==
  /\ worker[k] = "scheduled"
  /\ IF clone[k] = "none"
       THEN oops' = TRUE /\ UNCHANGED <<ring, clone, worker>>
       ELSE /\ HasTstamp(k) \/ TimedOut(k)
            /\ ring' = [ring EXCEPT ![wring[k]] = IF HasTstamp(k) THEN Append(@, k) ELSE @]
            /\ worker' = [worker EXCEPT ![k] = IF HasTstamp(k) THEN "freed" ELSE "leaked"]
            /\ clone' = FreeClone(k)
            /\ UNCHANGED oops
  /\ UNCHANGED <<swVars, envVars, cpuVars, where, options, hwreq, stamped, wring, late,
                 excuse, seqraced>>

---------------------------------------------------------------------------
(* Around it.                                                              *)

(* pval_nl_config of a changelink request, under the RTNL lock only.       *)
pval_nl_config(s) ==
  /\ nchg < MaxChanges
  /\ nchg' = nchg + 1
  /\ sw' = [sw EXCEPT ![s] = ~@]
  /\ excuse' = [k \in Pkts |-> IF Midway(k) THEN excuse[k] \cup {"switched"} ELSE excuse[k]]
  /\ UNCHANGED <<envVars, cpuVars, skbVars, workerVars, ring, oops, seqraced>>

(* The lower link goes down or comes up.                                   *)
LinkFlag ==
  /\ linkUp' = ~linkUp
  /\ UNCHANGED <<swVars, opened, cpuVars, skbVars, workerVars, ring, oops, excuse, seqraced>>

(* A process opens or closes the TX device of a CPU.                       *)
OpenClose(c) ==
  /\ opened' = [opened EXCEPT ![c] = ~@]
  /\ UNCHANGED <<swVars, linkUp, cpuVars, skbVars, workerVars, ring, oops, excuse, seqraced>>

(* The NIC stores the timestamp of a packet it sent, if it does at all.    *)
HwTimestamp(k) ==
  /\ where[k] = "sent" /\ hwreq[k] /\ ~stamped[k]
  /\ stamped' = [stamped EXCEPT ![k] = TRUE]
  /\ UNCHANGED <<swVars, envVars, cpuVars, where, options, hwreq, clone, workerVars, ring,
                 oops, excuse, seqraced>>

(* The timeout of a worker runs out.                                       *)
Expire(k) ==
  /\ worker[k] = "scheduled" /\ ~late[k]
  /\ late' = [late EXCEPT ![k] = TRUE]
  /\ UNCHANGED <<swVars, envVars, cpuVars, skbVars, worker, wring, ring, oops, excuse,
                 seqraced>>

Next ==
  /\ ~oops
  /\ \/ \E c \in CPUs : pval_xmit(c) \/ OpenClose(c)
     \/ \E k \in Pkts : pval_txtstamp_work2(k) \/ HwTimestamp(k) \/ Expire(k)
     \/ \E s \in Switches : pval_nl_config(s)
     \/ LinkFlag

Spec == Init /\ [][Next]_vars

---------------------------------------------------------------------------
(* Properties.                                                             *)

XmitPc == {"idle", "load_seq", "store_seq", "request", "clone", "queue", "after"}

TypeOK ==
  /\ sw \in [Switches -> BOOLEAN] /\ nchg \in 0..MaxChanges
  /\ linkUp \in BOOLEAN /\ opened \in [CPUs -> BOOLEAN]
  /\ seq \in Nat /\ lseq \in [CPUs -> Nat]
  /\ pc \in [CPUs -> XmitPc] /\ cur \in [CPUs -> Pkts \cup {None}]
  /\ where \in [Pkts -> {"stack", "xmit", "sent", "dropped"}]
  /\ options \in [Pkts -> Seq(CPUs \X Nat)]
  /\ hwreq \in [Pkts -> BOOLEAN] /\ stamped \in [Pkts -> BOOLEAN]
  /\ clone \in [Pkts -> {"none", "live", "freed"}]
  /\ worker \in [Pkts -> {"none", "scheduled", "freed", "leaked"}]
  /\ wring \in [Pkts -> CPUs \cup {None}] /\ late \in [Pkts -> BOOLEAN]
  /\ ring \in [CPUs -> Seq(Pkts)]
  /\ oops \in BOOLEAN /\ seqraced \in BOOLEAN
  /\ excuse \in [Pkts -> SUBSET {"switched", "rejected", "nomem"}]

InRing(c, k) == \E i \in 1..Len(ring[c]) : ring[c][i] = k

(* A packet is offered to the TX rings at most once, only after the lower  *)
(* device took it, and on the ring of the CPU that transmitted it, also    *)
(* when the kworker copies it later: the newest option says which CPU (if  *)
(* no switch was flipped before its pval_xmit was over).                   *)
CopiedOnceWhereSent ==
  \A c, d \in CPUs :
    /\ \A i \in 1..Len(ring[c]), j \in 1..Len(ring[d]) :
         ring[c][i] = ring[d][j] => c = d /\ i = j
    /\ \A k \in Pkts : InRing(c, k) =>
         /\ where[k] = "sent"
         /\ options[k] # <<>> /\ "switched" \notin excuse[k] =>
              options[k][Len(options[k])][1] = c

(* A clone is never forgotten: it is free, or pval_xmit or a worker still  *)
(* has it, unless the lower device refused the packet, the allocation of   *)
(* the worker failed or a switch was flipped in the middle of pval_xmit.   *)
CloneOwned ==
  \A k \in Pkts : clone[k] = "live" =>
    InXmit(k) \/ worker[k] = "scheduled" \/ excuse[k] # {}

(* A worker has a live clone to look at for as long as it is scheduled,    *)
(* and no NULL skb is dereferenced, unless a switch was flipped in the     *)
(* middle of a pval_xmit.                                                  *)
WorkerHasClone ==
  /\ \A k \in Pkts : worker[k] = "scheduled" /\ "switched" \notin excuse[k] =>
       clone[k] = "live"
  /\ oops => \E k \in Pkts : "switched" \in excuse[k]

(* A packet whose timestamp was requested gets into a ring only with that  *)
(* timestamp, unless a switch was flipped before its pval_xmit was over.   *)
CopiedWithTstamp ==
  \A c \in CPUs, k \in Pkts :
    InRing(c, k) /\ hwreq[k] /\ "switched" \notin excuse[k] => stamped[k]

(* The options inserted while no two CPUs met inside `pdev->seq++' carry   *)
(* distinct numbers, on one CPU, across CPUs and when a packet is retried. *)
SeqUniqueUnraced ==
  ~seqraced =>
    \A j, k \in Pkts : \A m \in 1..Len(options[j]), n \in 1..Len(options[k]) :
      options[j][m][2] = options[k][n][2] => j = k /\ m = n

(***************************************************************************)
(* "we need a clone of this skb because txtstamp_work and txcopy run after *)
(* dev_queue_xmit()": there is one when they run.  A switch that is turned *)
(* on in between breaks it.                                                *)
(***************************************************************************)
CloneWhenNeeded == ~oops /\ \A k \in Pkts : worker[k] = "scheduled" => clone[k] # "none"
=============================================================================
