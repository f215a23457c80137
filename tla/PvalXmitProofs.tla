--------------------------- MODULE PvalXmitProofs ---------------------------
(***************************************************************************)
(* Proofs about PvalXmit for every set of CPUs and packets, any number of  *)
(* flips of the switches and of retries.                                   *)
(*                                                                         *)
(* The parts of the inductive invariant:                                   *)
(***************************************************************************)
EXTENDS PvalXmit, TLAPS

(* A packet is in one pval_xmit at a time, and nowhere else meanwhile.     *)
OnOneCpu ==
  \A c \in CPUs : pc[c] # "idle" =>
    /\ cur[c] \in Pkts
    /\ where[cur[c]] = IF pc[c] = "after" THEN "sent" ELSE "xmit"
    /\ \A d \in CPUs : pc[d] # "idle" /\ cur[d] = cur[c] => d = c

(* A packet gets a worker or into a ring as the last thing of its          *)
(* pval_xmit, once: a packet that is given back has neither, nor a clone.  *)
Fresh(k) == worker[k] = "none" /\ \A c \in CPUs : ~InRing(c, k)

FreshUntilSent ==
  /\ \A k \in Pkts :
       /\ where[k] # "sent" => Fresh(k)
       /\ where[k] = "stack" => clone[k] = "none"
       /\ worker[k] = "scheduled" => wring[k] \in CPUs /\ \A c \in CPUs : ~InRing(c, k)
  /\ \A c \in CPUs : pc[c] # "idle" =>
       /\ Fresh(cur[c])
       /\ clone[cur[c]] # "none" => pc[c] \in {"queue", "after"} /\ clone[cur[c]] = "live"

(* The switches are still as they were when the packet got its options and *)
(* its request for a timestamp, be that in this pval_xmit or before a      *)
(* retry; and there is a clone where they ask for one.                     *)
Unswitched(k) == "switched" \notin excuse[k]

Kept(k) ==
  Unswitched(k) => /\ hwreq[k] => sw["txtstamp"]
                   /\ options[k] # <<>> => sw["ipopt"] /\ k \in IpPkts

SwitchesKept ==
  /\ \A k \in Pkts : where[k] = "stack" => Kept(k)
  /\ \A c \in CPUs : pc[c] # "idle" =>
       /\ Kept(cur[c])
       /\ pc[c] \in {"load_seq", "store_seq"} /\ Unswitched(cur[c]) =>
            sw["ipopt"] /\ cur[c] \in IpPkts
       /\ pc[c] \in {"queue", "after"} /\ Unswitched(cur[c]) =>
            (clone[cur[c]] = "live" <=> NeedsClone)

(* The newest option names the CPU that transmits, on the way from there   *)
(* over the worker to the ring.                                            *)
NewestFrom(k, c) ==
  Unswitched(k) /\ options[k] # <<>> => options[k][Len(options[k])][1] = c

NewestNamesCpu ==
  /\ \A c \in CPUs : pc[c] \in {"request", "clone", "queue", "after"} => NewestFrom(cur[c], c)
  /\ \A k \in Pkts : worker[k] = "scheduled" => NewestFrom(k, wring[k])
  /\ \A c \in CPUs, k \in Pkts : InRing(c, k) => NewestFrom(k, c)

(* pdev->seq is above all numbers given out, and at most one CPU is about  *)
(* to give out the next.                                                   *)
SeqAhead ==
  ~seqraced =>
    /\ \A c, d \in CPUs : pc[c] = "store_seq" /\ pc[d] = "store_seq" => c = d
    /\ \A c \in CPUs : pc[c] = "store_seq" => lseq[c] = seq
    /\ \A k \in Pkts : \A m \in 1..Len(options[k]) : options[k][m][2] < seq

RingsOnce ==
  \A c, d \in CPUs : \A i \in 1..Len(ring[c]), j \in 1..Len(ring[d]) :
    ring[c][i] = ring[d][j] => c = d /\ i = j

IInv ==
  /\ TypeOK
  /\ OnOneCpu /\ FreshUntilSent /\ RingsOnce
  /\ SwitchesKept /\ CloneOwned /\ WorkerHasClone
  /\ NewestNamesCpu /\ CopiedWithTstamp
  /\ SeqAhead /\ SeqUniqueUnraced

USE DEF swVars, envVars, cpuVars, skbVars, workerVars

---------------------------------------------------------------------------
(* Types.                                                                  *)

(* Nothing is sent yet and the switches are as they were configured.       *)
LEMMA InitTypes == Init => TypeOK
<1> SUFFICES ASSUME Init PROVE TypeOK
  OBVIOUS
<1>1. /\ sw \in [Switches -> BOOLEAN] /\ nchg \in 0..MaxChanges
      /\ options \in [Pkts -> Seq(CPUs \X Nat)] /\ ring \in [CPUs -> Seq(Pkts)]
  BY ConfigsAssumption, BoundsAssumption DEF Init
<1>2. excuse \in [Pkts -> SUBSET {"switched", "rejected", "nomem"}]
  BY DEF Init
<1> QED
  BY <1>1, <1>2 DEF Init, TypeOK, XmitPc

(* What assignments to one CPU or one packet leave of the rest.            *)
LEMMA PcAt ==
  ASSUME TypeOK, NEW c \in CPUs, NEW l \in XmitPc, pc' = [pc EXCEPT ![c] = l]
  PROVE  /\ pc' \in [CPUs -> XmitPc]
         /\ \A d \in CPUs : pc'[d] = IF d = c THEN l ELSE pc[d]
  BY DEF TypeOK

(* The same for the place of a packet.                                     *)
LEMMA WhereAt ==
  ASSUME TypeOK, NEW k \in Pkts, NEW w \in {"stack", "xmit", "sent", "dropped"},
         where' = [where EXCEPT ![k] = w]
  PROVE  /\ where' \in [Pkts -> {"stack", "xmit", "sent", "dropped"}]
         /\ \A j \in Pkts : where'[j] = IF j = k THEN w ELSE where[j]
  BY DEF TypeOK

(* A failure that is no flip of a switch.                                  *)
LEMMA ExcuseAt ==
  ASSUME TypeOK, NEW k \in Pkts, NEW x \in {"rejected", "nomem"},
         excuse' = [excuse EXCEPT ![k] = excuse[k] \cup {x}]
  PROVE  /\ excuse' \in [Pkts -> SUBSET {"switched", "rejected", "nomem"}]
         /\ \A j \in Pkts : excuse[j] \subseteq excuse'[j] /\ (Unswitched(j)' <=> Unswitched(j))
         /\ excuse'[k] # {}
<1>1. excuse' \in [Pkts -> SUBSET {"switched", "rejected", "nomem"}]
  BY DEF TypeOK
<1>2. \A j \in Pkts : excuse'[j] = IF j = k THEN excuse[k] \cup {x} ELSE excuse[j]
  BY DEF TypeOK
<1> QED
  BY <1>1, <1>2 DEF Unswitched

(* NETDEV_TX_BUSY.                                                         *)
LEMMA BusyAt ==
  ASSUME TypeOK, NEW k \in Pkts, Busy(k)
  PROVE  \E w \in {"stack", "dropped"} : where' = [where EXCEPT ![k] = w]
  BY BusyAssumption DEF Busy

---------------------------------------------------------------------------
(* pval_xmit starts.                                                       *)
LEMMA BeginKeeps ==
  ASSUME IInv, NEW c \in CPUs, NEW k \in Pkts, Begin(c, k)
  PROVE  IInv'
<1> USE DEF IInv
<1>same. /\ UNCHANGED <<sw, nchg, opened, linkUp, seq, lseq, options, hwreq, stamped, clone>>
         /\ UNCHANGED <<worker, wring, late, ring, oops, excuse, seqraced>>
         /\ pc[c] = "idle" /\ where[k] = "stack"
  BY DEF Begin
<1>1. CASE linkUp
  <2>1. PICK l \in {"load_seq", "request"} :
          /\ pc' = [pc EXCEPT ![c] = l]
          /\ l = "load_seq" <=> sw["ipopt"] /\ k \in IpPkts
    BY <1>1 DEF Begin
  <2>2. where' = [where EXCEPT ![k] = "xmit"] /\ cur' = [cur EXCEPT ![c] = k]
    BY <1>1 DEF Begin
  <2>3. /\ pc' \in [CPUs -> XmitPc]
        /\ \A d \in CPUs : pc'[d] = IF d = c THEN l ELSE pc[d]
    BY <2>1, PcAt DEF XmitPc
  <2>4. /\ where' \in [Pkts -> {"stack", "xmit", "sent", "dropped"}]
        /\ \A j \in Pkts : where'[j] = IF j = k THEN "xmit" ELSE where[j]
    BY <2>2, WhereAt
  <2>5. /\ cur' \in [CPUs -> Pkts \cup {None}]
        /\ \A d \in CPUs : cur'[d] = IF d = c THEN k ELSE cur[d]
    BY <2>2 DEF TypeOK
  <2>6. TypeOK'
    BY <1>same, <2>3, <2>4, <2>5 DEF TypeOK
  <2>7. OnOneCpu'
    BY <1>same, <2>3, <2>4, <2>5 DEF OnOneCpu
  <2>8. FreshUntilSent' /\ RingsOnce'
    BY <1>same, <2>3, <2>4, <2>5 DEF FreshUntilSent, Fresh, InRing, RingsOnce, OnOneCpu
  <2>9. SwitchesKept'
    BY <1>same, <2>1, <2>3, <2>4, <2>5 DEF SwitchesKept, Kept, Unswitched, NeedsClone
  <2>10. CloneOwned' /\ WorkerHasClone'
    BY <1>same, <2>3, <2>5 DEF CloneOwned, WorkerHasClone, InXmit
  <2>11. NewestNamesCpu' /\ CopiedWithTstamp'
    BY <1>same, <2>1, <2>3, <2>5
    DEF NewestNamesCpu, NewestFrom, Unswitched, CopiedWithTstamp, InRing, SwitchesKept, Kept
  <2>12. SeqAhead' /\ SeqUniqueUnraced'
    BY <1>same, <2>3 DEF SeqAhead, SeqUniqueUnraced
  <2> QED
    BY <2>6, <2>7, <2>8, <2>9, <2>10, <2>11, <2>12
<1>2. CASE ~linkUp
  <2>1. UNCHANGED <<pc, cur>> /\ Busy(k)
    BY <1>2 DEF Begin
  <2>2. PICK w \in {"stack", "dropped"} : where' = [where EXCEPT ![k] = w]
    BY <2>1, BusyAt
  <2>3. /\ where' \in [Pkts -> {"stack", "xmit", "sent", "dropped"}]
        /\ \A j \in Pkts : where'[j] = IF j = k THEN w ELSE where[j]
    BY <2>2, WhereAt
  <2>4. TypeOK'
    BY <1>same, <2>1, <2>3 DEF TypeOK
  <2>5. OnOneCpu' /\ FreshUntilSent' /\ RingsOnce'
    BY <1>same, <2>1, <2>3 DEF OnOneCpu, FreshUntilSent, Fresh, InRing, RingsOnce
  <2>6. SwitchesKept' /\ CloneOwned' /\ WorkerHasClone'
    BY <1>same, <2>1, <2>3
    DEF SwitchesKept, Kept, Unswitched, NeedsClone, CloneOwned, WorkerHasClone, InXmit
  <2>7. NewestNamesCpu' /\ CopiedWithTstamp'
    BY <1>same, <2>1 DEF NewestNamesCpu, NewestFrom, Unswitched, CopiedWithTstamp, InRing
  <2>8. SeqAhead' /\ SeqUniqueUnraced'
    BY <1>same, <2>1 DEF SeqAhead, SeqUniqueUnraced
  <2> QED
    BY <2>4, <2>5, <2>6, <2>7, <2>8
<1> QED
  BY <1>1, <1>2

(* pdev->seq is loaded.                                                    *)
LEMMA LoadSeqKeeps ==
  ASSUME IInv, NEW c \in CPUs, LoadSeq(c)
  PROVE  IInv'
<1> USE DEF IInv
<1>same. /\ UNCHANGED <<sw, nchg, opened, linkUp, seq, cur, where, options, hwreq, stamped>>
         /\ UNCHANGED <<clone, worker, wring, late, ring, oops, excuse>>
         /\ pc[c] = "load_seq"
  BY DEF LoadSeq
<1>1. /\ pc' \in [CPUs -> XmitPc]
      /\ \A d \in CPUs : pc'[d] = IF d = c THEN "store_seq" ELSE pc[d]
  BY PcAt DEF LoadSeq, XmitPc
<1>2. /\ lseq' \in [CPUs -> Nat]
      /\ \A d \in CPUs : lseq'[d] = IF d = c THEN seq ELSE lseq[d]
  BY DEF LoadSeq, OldSeq, TypeOK
<1>3. /\ seqraced' \in BOOLEAN
      /\ ~seqraced' => ~seqraced /\ \A d \in CPUs : pc[d] # "store_seq"
  BY DEF LoadSeq, TypeOK
<1>4. TypeOK'
  BY <1>same, <1>1, <1>2, <1>3 DEF TypeOK
<1>5. OnOneCpu' /\ FreshUntilSent' /\ RingsOnce'
  BY <1>same, <1>1 DEF OnOneCpu, FreshUntilSent, Fresh, InRing, RingsOnce
<1>6. SwitchesKept' /\ CloneOwned' /\ WorkerHasClone'
  BY <1>same, <1>1
  DEF SwitchesKept, Kept, Unswitched, NeedsClone, CloneOwned, WorkerHasClone, InXmit
<1>7. NewestNamesCpu' /\ CopiedWithTstamp'
  BY <1>same, <1>1 DEF NewestNamesCpu, NewestFrom, Unswitched, CopiedWithTstamp, InRing
<1>8. SeqAhead' /\ SeqUniqueUnraced'
  BY <1>same, <1>1, <1>2, <1>3 DEF SeqAhead, SeqUniqueUnraced
<1> QED
  BY <1>4, <1>5, <1>6, <1>7, <1>8

(* pdev->seq is stored and the option inserted.                            *)
LEMMA StoreSeqKeeps ==
  ASSUME IInv, NEW c \in CPUs, StoreSeq(c)
  PROVE  IInv'
<1> USE DEF IInv
<1> DEFINE k == cur[c]
<1>same. /\ UNCHANGED <<sw, nchg, opened, linkUp, cur, lseq, where, hwreq, stamped, clone>>
         /\ UNCHANGED <<worker, wring, late, ring, oops, excuse, seqraced>>
         /\ pc[c] = "store_seq" /\ seq' = lseq[c] + 1
  BY DEF StoreSeq, NextSeq
<1>k. k \in Pkts /\ lseq[c] \in Nat /\ where[k] = "xmit"
  BY <1>same DEF OnOneCpu, TypeOK
<1>1. /\ pc' \in [CPUs -> XmitPc]
      /\ \A d \in CPUs : pc'[d] = IF d = c THEN "request" ELSE pc[d]
  BY PcAt DEF StoreSeq, XmitPc
<1>2. options' = [options EXCEPT ![k] = Append(options[k], <<c, lseq[c]>>)]
  BY DEF StoreSeq
<1>3. options' \in [Pkts -> Seq(CPUs \X Nat)]
  BY <1>k, <1>2 DEF TypeOK
<1>4. /\ \A j \in Pkts : j # k => options'[j] = options[j]
      /\ Len(options'[k]) = Len(options[k]) + 1 /\ Len(options[k]) \in Nat
      /\ options'[k][Len(options[k]) + 1] = <<c, lseq[c]>>
      /\ \A m \in 1..Len(options[k]) : options'[k][m] = options[k][m]
  BY <1>k, <1>2 DEF TypeOK
<1>5. TypeOK'
  BY <1>same, <1>k, <1>1, <1>3 DEF TypeOK
<1>6. OnOneCpu' /\ FreshUntilSent' /\ RingsOnce'
  BY <1>same, <1>1 DEF OnOneCpu, FreshUntilSent, Fresh, InRing, RingsOnce
<1>7. SwitchesKept'
  BY <1>same, <1>k, <1>1, <1>4 DEF SwitchesKept, Kept, Unswitched, NeedsClone, OnOneCpu
<1>8. CloneOwned' /\ WorkerHasClone'
  BY <1>same, <1>1 DEF CloneOwned, WorkerHasClone, InXmit
<1>9. NewestNamesCpu'
  <2>1. ASSUME NEW d \in CPUs, pc'[d] \in {"request", "clone", "queue", "after"}
        PROVE  NewestFrom(cur[d], d)'
    <3>1. CASE d = c
      BY <3>1, <1>same, <1>4 DEF NewestFrom
    <3>2. CASE d # c
      <4>1. cur[d] \in Pkts /\ cur[d] # k
        BY <1>same, <1>1, <2>1, <3>2 DEF OnOneCpu
      <4> QED
        BY <1>same, <1>1, <2>1, <3>2, <1>4, <4>1 DEF NewestNamesCpu, NewestFrom, Unswitched
    <3> QED
      BY <3>1, <3>2
  <2>2. Fresh(k)
    BY <1>same DEF FreshUntilSent
  <2>3. ASSUME NEW j \in Pkts, worker'[j] = "scheduled"
        PROVE  NewestFrom(j, wring[j])'
    BY <1>same, <1>4, <2>2, <2>3 DEF NewestNamesCpu, NewestFrom, Unswitched, Fresh
  <2>4. ASSUME NEW d \in CPUs, NEW j \in Pkts, InRing(d, j)'
        PROVE  NewestFrom(j, d)'
    <3>1. InRing(d, j) /\ j # k
      BY <1>same, <2>2, <2>4 DEF Fresh, InRing
    <3> QED
      BY <1>same, <1>4, <3>1 DEF NewestNamesCpu, NewestFrom, Unswitched
  <2> QED
    BY <1>same, <2>1, <2>3, <2>4 DEF NewestNamesCpu
<1>10. CopiedWithTstamp'
  BY <1>same DEF CopiedWithTstamp, InRing, Unswitched
<1>11. SeqAhead' /\ SeqUniqueUnraced'
  <2> SUFFICES ASSUME ~seqraced
               PROVE  SeqAhead' /\ SeqUniqueUnraced'
    BY <1>same DEF SeqAhead, SeqUniqueUnraced
  <2>1. lseq[c] = seq /\ seq' = seq + 1 /\ \A d \in CPUs : pc'[d] # "store_seq"
    BY <1>same, <1>1 DEF SeqAhead
  <2>2. ASSUME NEW j \in Pkts, NEW m \in 1..Len(options'[j])
        PROVE  \/ j = k /\ m = Len(options[k]) + 1 /\ options'[j][m][2] = seq
               \/ /\ m \in 1..Len(options[j]) /\ options'[j][m] = options[j][m]
                  /\ options'[j][m][2] < seq /\ options'[j][m][2] \in Nat
    <3>1. CASE j = k /\ m = Len(options[k]) + 1
      BY <3>1, <1>4, <2>1
    <3>2. CASE ~(j = k /\ m = Len(options[k]) + 1)
      <4>1. m \in 1..Len(options[j]) /\ options'[j][m] = options[j][m]
        BY <3>2, <1>4, <2>2
      <4>2. options[j][m] \in CPUs \X Nat
        BY <4>1 DEF TypeOK
      <4> QED
        BY <3>2, <4>1, <4>2 DEF SeqAhead
    <3> QED
      BY <3>1, <3>2
  <2>3. SeqAhead'
    <3>1. ASSUME NEW j \in Pkts, NEW m \in 1..Len(options'[j])
          PROVE  options'[j][m][2] < seq'
      <4>1. \/ options'[j][m][2] = seq
            \/ options'[j][m][2] < seq /\ options'[j][m][2] \in Nat
        BY <3>1, <2>2
      <4>2. seq \in Nat
        BY DEF TypeOK
      <4> QED
        BY <2>1, <4>1, <4>2
    <3> QED
      BY <2>1, <3>1 DEF SeqAhead
  <2>4. SeqUniqueUnraced'
    <3>1. ASSUME NEW i \in Pkts, NEW j \in Pkts,
                 NEW m \in 1..Len(options'[i]), NEW n \in 1..Len(options'[j]),
                 options'[i][m][2] = options'[j][n][2]
          PROVE  i = j /\ m = n
      <4>1. seq \in Nat
        BY DEF TypeOK
      <4>2. \/ i = k /\ m = Len(options[k]) + 1 /\ options'[i][m][2] = seq
            \/ /\ m \in 1..Len(options[i]) /\ options'[i][m] = options[i][m]
               /\ options'[i][m][2] < seq /\ options'[i][m][2] \in Nat
        BY <2>2
      <4>3. \/ j = k /\ n = Len(options[k]) + 1 /\ options'[j][n][2] = seq
            \/ /\ n \in 1..Len(options[j]) /\ options'[j][n] = options[j][n]
               /\ options'[j][n][2] < seq /\ options'[j][n][2] \in Nat
        BY <2>2
      <4>4. CASE options'[i][m][2] = seq
        BY <3>1, <4>1, <4>2, <4>3, <4>4
      <4>5. CASE options'[i][m][2] # seq
        <5>1. /\ m \in 1..Len(options[i]) /\ n \in 1..Len(options[j])
              /\ options[i][m][2] = options[j][n][2]
          BY <3>1, <4>2, <4>3, <4>5
        <5> QED
          BY <5>1 DEF SeqUniqueUnraced
      <4> QED
        BY <4>4, <4>5
    <3> QED
      BY <3>1 DEF SeqUniqueUnraced
  <2> QED
    BY <2>3, <2>4
<1> QED
  BY <1>5, <1>6, <1>7, <1>8, <1>9, <1>10, <1>11

(* The request for a timestamp.                                            *)
LEMMA RequestKeeps ==
  ASSUME IInv, NEW c \in CPUs, RequestTstamp(c)
  PROVE  IInv'
<1> USE DEF IInv
<1> DEFINE k == cur[c]
<1>same. /\ UNCHANGED <<sw, nchg, opened, linkUp, seq, cur, lseq, where, options, stamped>>
         /\ UNCHANGED <<clone, worker, wring, late, ring, oops, excuse, seqraced>>
         /\ pc[c] = "request"
  BY DEF RequestTstamp
<1>k. k \in Pkts /\ where[k] = "xmit" /\ Fresh(k)
  BY <1>same DEF OnOneCpu, FreshUntilSent, TypeOK
<1>1. /\ hwreq' \in [Pkts -> BOOLEAN]
      /\ \A j \in Pkts : hwreq'[j] = IF j = k THEN hwreq[k] \/ sw["txtstamp"] ELSE hwreq[j]
  BY DEF RequestTstamp, TypeOK, Switches
<1>2. /\ pc' \in [CPUs -> XmitPc]
      /\ \A d \in CPUs : pc'[d] = IF d = c THEN "clone" ELSE pc[d]
  BY PcAt DEF RequestTstamp, XmitPc
<1>3. TypeOK'
  BY <1>same, <1>1, <1>2 DEF TypeOK
<1>4. OnOneCpu' /\ FreshUntilSent' /\ RingsOnce'
  BY <1>same, <1>2 DEF OnOneCpu, FreshUntilSent, Fresh, InRing, RingsOnce
<1>5. SwitchesKept'
  BY <1>same, <1>k, <1>1, <1>2
  DEF OnOneCpu, SwitchesKept, Kept, Unswitched, NeedsClone
<1>6. CloneOwned' /\ WorkerHasClone'
  BY <1>same, <1>2 DEF CloneOwned, WorkerHasClone, InXmit
<1>7. NewestNamesCpu' /\ CopiedWithTstamp'
  BY <1>same, <1>k, <1>1, <1>2
  DEF NewestNamesCpu, NewestFrom, Unswitched, CopiedWithTstamp, InRing, Fresh
<1>8. SeqAhead' /\ SeqUniqueUnraced'
  BY <1>same, <1>2 DEF SeqAhead, SeqUniqueUnraced
<1> QED
  BY <1>3, <1>4, <1>5, <1>6, <1>7, <1>8

(* The clone.                                                              *)
LEMMA CloneKeeps ==
  ASSUME IInv, NEW c \in CPUs, Clone(c)
  PROVE  IInv'
<1> USE DEF IInv
<1> DEFINE k == cur[c]
<1>same. /\ UNCHANGED <<sw, nchg, opened, linkUp, seq, cur, lseq, options, hwreq, stamped>>
         /\ UNCHANGED <<worker, wring, late, ring, oops, excuse, seqraced>>
         /\ pc[c] = "clone"
  BY DEF Clone
<1>k. k \in Pkts /\ where[k] = "xmit" /\ Fresh(k) /\ clone[k] = "none"
  BY <1>same DEF OnOneCpu, FreshUntilSent, TypeOK
<1>1. PICK l \in {"queue", "idle"} : pc' = [pc EXCEPT ![c] = l]
  BY DEF Clone
<1>2. /\ pc' \in [CPUs -> XmitPc]
      /\ \A d \in CPUs : pc'[d] = IF d = c THEN l ELSE pc[d]
  BY <1>1, PcAt DEF XmitPc
<1>3. CASE l = "queue"
  <2>1. /\ UNCHANGED where
        /\ \/ UNCHANGED clone /\ ~NeedsClone
           \/ clone' = [clone EXCEPT ![k] = "live"] /\ NeedsClone
    BY <1>1, <1>3, <1>same DEF Clone, TypeOK
  <2>2. /\ clone' \in [Pkts -> {"none", "live", "freed"}]
        /\ \A j \in Pkts : clone'[j] = IF j = k /\ NeedsClone THEN "live" ELSE clone[j]
    <3>1. CASE UNCHANGED clone /\ ~NeedsClone
      BY <3>1 DEF TypeOK
    <3>2. CASE clone' = [clone EXCEPT ![k] = "live"] /\ NeedsClone
      BY <3>2, <1>k DEF TypeOK
    <3> QED
      BY <2>1, <3>1, <3>2
  <2>3. TypeOK'
    BY <1>same, <1>2, <2>1, <2>2 DEF TypeOK
  <2>4. OnOneCpu' /\ RingsOnce'
    BY <1>same, <1>2, <1>3, <2>1 DEF OnOneCpu, RingsOnce
  <2>5. FreshUntilSent'
    BY <1>same, <1>k, <1>2, <1>3, <2>1, <2>2 DEF OnOneCpu, FreshUntilSent, Fresh, InRing
  <2>6. SwitchesKept'
    BY <1>same, <1>k, <1>2, <1>3, <2>1, <2>2
    DEF OnOneCpu, SwitchesKept, Kept, Unswitched, NeedsClone
  <2>7. CloneOwned' /\ WorkerHasClone'
    BY <1>same, <1>k, <1>2, <1>3, <2>2 DEF CloneOwned, WorkerHasClone, InXmit, Fresh
  <2>8. NewestNamesCpu' /\ CopiedWithTstamp'
    BY <1>same, <1>k, <1>2, <1>3
    DEF NewestNamesCpu, NewestFrom, Unswitched, CopiedWithTstamp, InRing, Fresh
  <2>9. SeqAhead' /\ SeqUniqueUnraced'
    BY <1>same, <1>2, <1>3 DEF SeqAhead, SeqUniqueUnraced
  <2> QED
    BY <2>3, <2>4, <2>5, <2>6, <2>7, <2>8, <2>9
<1>4. CASE l = "idle"
  <2>1. UNCHANGED clone /\ Busy(k)
    BY <1>1, <1>4, <1>same DEF Clone, TypeOK
  <2>2. PICK w \in {"stack", "dropped"} : where' = [where EXCEPT ![k] = w]
    BY <1>k, <2>1, BusyAt
  <2>3. /\ where' \in [Pkts -> {"stack", "xmit", "sent", "dropped"}]
        /\ \A j \in Pkts : where'[j] = IF j = k THEN w ELSE where[j]
    BY <1>k, <2>2, WhereAt
  <2>4. TypeOK'
    BY <1>same, <1>2, <2>1, <2>3 DEF TypeOK
  <2>5. OnOneCpu' /\ RingsOnce'
    BY <1>same, <1>2, <1>4, <2>1, <2>3 DEF OnOneCpu, RingsOnce
  <2>6. FreshUntilSent'
    BY <1>same, <1>k, <1>2, <1>4, <2>1, <2>3 DEF OnOneCpu, FreshUntilSent, Fresh, InRing
  <2>7. SwitchesKept'
    BY <1>same, <1>k, <1>2, <1>4, <2>1, <2>3
    DEF OnOneCpu, SwitchesKept, Kept, Unswitched, NeedsClone
  <2>8. CloneOwned' /\ WorkerHasClone'
    BY <1>same, <1>k, <1>2, <1>4, <2>1 DEF CloneOwned, WorkerHasClone, InXmit, Fresh
  <2>9. NewestNamesCpu' /\ CopiedWithTstamp'
    BY <1>same, <1>k, <1>2, <1>4
    DEF NewestNamesCpu, NewestFrom, Unswitched, CopiedWithTstamp, InRing, Fresh
  <2>10. SeqAhead' /\ SeqUniqueUnraced'
    BY <1>same, <1>2, <1>4 DEF SeqAhead, SeqUniqueUnraced
  <2> QED
    BY <2>4, <2>5, <2>6, <2>7, <2>8, <2>9, <2>10
<1> QED
  BY <1>3, <1>4

(* dev_queue_xmit.                                                         *)
LEMMA QueueKeeps ==
  ASSUME IInv, NEW c \in CPUs, Queue(c)
  PROVE  IInv'
<1> USE DEF IInv
<1> DEFINE k == cur[c]
<1>same. /\ UNCHANGED <<sw, nchg, opened, linkUp, seq, cur, lseq, options, hwreq, stamped>>
         /\ UNCHANGED <<clone, worker, wring, late, ring, oops, seqraced>>
         /\ pc[c] = "queue"
  BY DEF Queue
<1>k. k \in Pkts /\ where[k] = "xmit" /\ Fresh(k)
  BY <1>same DEF OnOneCpu, FreshUntilSent
<1>1. PICK w \in {"sent", "dropped"} :
        /\ where' = [where EXCEPT ![k] = w]
        /\ pc' = [pc EXCEPT ![c] = IF w = "sent" THEN "after" ELSE "idle"]
        /\ w = "sent" => UNCHANGED excuse
        /\ w = "dropped" => excuse' = [excuse EXCEPT ![k] = excuse[k] \cup {"rejected"}]
  BY DEF Queue
<1>2. /\ pc' \in [CPUs -> XmitPc]
      /\ \A d \in CPUs :
           pc'[d] = IF d = c THEN IF w = "sent" THEN "after" ELSE "idle" ELSE pc[d]
  BY <1>1, PcAt DEF XmitPc
<1>3. /\ where' \in [Pkts -> {"stack", "xmit", "sent", "dropped"}]
      /\ \A j \in Pkts : where'[j] = IF j = k THEN w ELSE where[j]
  BY <1>1, <1>k, WhereAt
<1>4. /\ excuse' \in [Pkts -> SUBSET {"switched", "rejected", "nomem"}]
      /\ \A j \in Pkts : /\ excuse[j] \subseteq excuse'[j]
                         /\ Unswitched(j)' <=> Unswitched(j)
      /\ w = "dropped" => excuse'[k] # {}
  <2>1. CASE w = "sent"
    BY <1>1, <2>1 DEF TypeOK, Unswitched
  <2>2. CASE w = "dropped"
    BY <1>1, <1>k, <2>2, ExcuseAt
  <2> QED
    BY <2>1, <2>2
<1>5. TypeOK'
  BY <1>same, <1>2, <1>3, <1>4 DEF TypeOK
<1>6. OnOneCpu' /\ RingsOnce'
  BY <1>same, <1>2, <1>3 DEF OnOneCpu, RingsOnce
<1>7. FreshUntilSent'
  BY <1>same, <1>k, <1>2, <1>3 DEF OnOneCpu, FreshUntilSent, Fresh, InRing
<1>8. SwitchesKept'
  BY <1>same, <1>k, <1>2, <1>3, <1>4 DEF OnOneCpu, SwitchesKept, Kept, NeedsClone
<1>9. CloneOwned'
  BY <1>same, <1>k, <1>2, <1>4 DEF CloneOwned, InXmit
<1>10. WorkerHasClone'
  BY <1>same, <1>4 DEF WorkerHasClone, Unswitched
<1>11. NewestNamesCpu'
  BY <1>same, <1>2, <1>4 DEF NewestNamesCpu, NewestFrom, InRing, OnOneCpu
<1>12. CopiedWithTstamp'
  BY <1>same, <1>4 DEF CopiedWithTstamp, InRing, Unswitched
<1>13. SeqAhead' /\ SeqUniqueUnraced'
  BY <1>same, <1>2 DEF SeqAhead, SeqUniqueUnraced
<1> QED
  BY <1>5, <1>6, <1>7, <1>8, <1>9, <1>10, <1>11, <1>12, <1>13

(* The end of pval_xmit, with a worker, ...                                *)
LEMMA StartWorkerKeeps ==
  ASSUME IInv, NEW c \in CPUs, StartWorker(c)
  PROVE  IInv'
<1> USE DEF IInv
<1> DEFINE k == cur[c]
<1>same. /\ UNCHANGED <<sw, nchg, opened, linkUp, seq, cur, lseq, where, options, hwreq>>
         /\ UNCHANGED <<stamped, clone, late, ring, oops, seqraced>>
         /\ pc[c] = "after" /\ sw["txtstamp"] /\ pc' = [pc EXCEPT ![c] = "idle"]
  BY DEF StartWorker
<1>k. k \in Pkts /\ where[k] = "sent" /\ Fresh(k) /\ (Unswitched(k) => clone[k] = "live")
  BY <1>same DEF OnOneCpu, FreshUntilSent, SwitchesKept, NeedsClone
<1>1. /\ pc' \in [CPUs -> XmitPc]
      /\ \A d \in CPUs : pc'[d] = IF d = c THEN "idle" ELSE pc[d]
  BY <1>same, PcAt DEF XmitPc
<1>2. OnOneCpu' /\ RingsOnce'
  BY <1>same, <1>1 DEF OnOneCpu, RingsOnce
<1>3. SeqAhead' /\ SeqUniqueUnraced'
  BY <1>same, <1>1 DEF SeqAhead, SeqUniqueUnraced
<1>4. CASE /\ worker' = [worker EXCEPT ![k] = "scheduled"]
           /\ wring' = [wring EXCEPT ![k] = c]
           /\ UNCHANGED excuse
  <2>1. /\ worker' \in [Pkts -> {"none", "scheduled", "freed", "leaked"}]
        /\ wring' \in [Pkts -> CPUs \cup {None}]
        /\ \A j \in Pkts : /\ worker'[j] = IF j = k THEN "scheduled" ELSE worker[j]
                           /\ wring'[j] = IF j = k THEN c ELSE wring[j]
    BY <1>4, <1>k DEF TypeOK
  <2>2. TypeOK'
    BY <1>same, <1>1, <1>4, <2>1 DEF TypeOK
  <2>3. FreshUntilSent'
    BY <1>same, <1>k, <1>1, <2>1 DEF OnOneCpu, FreshUntilSent, Fresh, InRing
  <2>4. SwitchesKept'
    BY <1>same, <1>1, <1>4 DEF SwitchesKept, Kept, Unswitched, NeedsClone
  <2>5. CloneOwned' /\ WorkerHasClone'
    BY <1>same, <1>k, <1>1, <1>4, <2>1 DEF CloneOwned, WorkerHasClone, InXmit, Unswitched
  <2>6. NewestNamesCpu'
    BY <1>same, <1>1, <1>4, <2>1 DEF NewestNamesCpu, NewestFrom, Unswitched, InRing
  <2>7. CopiedWithTstamp'
    BY <1>same, <1>4 DEF CopiedWithTstamp, InRing
  <2> QED
    BY <1>2, <1>3, <2>2, <2>3, <2>4, <2>5, <2>6, <2>7
<1>5. CASE /\ excuse' = [excuse EXCEPT ![k] = excuse[k] \cup {"nomem"}]
           /\ UNCHANGED <<worker, wring>>
  <2>1. /\ excuse' \in [Pkts -> SUBSET {"switched", "rejected", "nomem"}]
        /\ \A j \in Pkts : excuse[j] \subseteq excuse'[j] /\ (Unswitched(j)' <=> Unswitched(j))
        /\ excuse'[k] # {}
    BY <1>5, <1>k, ExcuseAt
  <2>2. TypeOK'
    BY <1>same, <1>1, <1>5, <2>1 DEF TypeOK
  <2>3. FreshUntilSent'
    BY <1>same, <1>1, <1>5 DEF FreshUntilSent, Fresh, InRing
  <2>4. SwitchesKept'
    BY <1>same, <1>1, <2>1 DEF SwitchesKept, Kept, NeedsClone, OnOneCpu
  <2>5. CloneOwned'
    BY <1>same, <1>k, <1>1, <1>5, <2>1 DEF CloneOwned, InXmit
  <2>6. WorkerHasClone'
    BY <1>same, <1>5, <2>1 DEF WorkerHasClone, Unswitched
  <2>7. NewestNamesCpu'
    BY <1>same, <1>1, <1>5, <2>1 DEF NewestNamesCpu, NewestFrom, InRing, OnOneCpu
  <2>8. CopiedWithTstamp'
    BY <1>same, <2>1 DEF CopiedWithTstamp, InRing, Unswitched
  <2> QED
    BY <1>2, <1>3, <2>2, <2>3, <2>4, <2>5, <2>6, <2>7, <2>8
<1> QED
  BY <1>4, <1>5 DEF StartWorker, WorkerRing

(* A packet that is in no ring is appended to one.                         *)
LEMMA RingAt ==
  ASSUME TypeOK, RingsOnce, NEW c \in CPUs, NEW k \in Pkts, \A d \in CPUs : ~InRing(d, k),
         ring' = [ring EXCEPT ![c] = Append(ring[c], k)]
  PROVE  /\ ring' \in [CPUs -> Seq(Pkts)]
         /\ RingsOnce'
         /\ \A d \in CPUs, j \in Pkts : InRing(d, j)' <=> InRing(d, j) \/ (d = c /\ j = k)
<1>1. ring' \in [CPUs -> Seq(Pkts)]
  BY DEF TypeOK
<1>2. /\ \A d \in CPUs : d # c => ring'[d] = ring[d]
      /\ ring[c] \in Seq(Pkts) /\ Len(ring[c]) \in Nat /\ Len(ring'[c]) = Len(ring[c]) + 1
      /\ ring'[c][Len(ring[c]) + 1] = k
      /\ \A i \in 1..Len(ring[c]) : ring'[c][i] = ring[c][i]
  BY DEF TypeOK
<1>3. ASSUME NEW d \in CPUs, NEW i \in 1..Len(ring'[d])
      PROVE  \/ d = c /\ i = Len(ring[c]) + 1 /\ ring'[d][i] = k
             \/ i \in 1..Len(ring[d]) /\ ring'[d][i] = ring[d][i] /\ ring[d][i] # k
  BY <1>2 DEF InRing
<1>4. RingsOnce'
  <2>1. ASSUME NEW d \in CPUs, NEW e \in CPUs, NEW i \in 1..Len(ring'[d]),
               NEW j \in 1..Len(ring'[e]), ring'[d][i] = ring'[e][j]
        PROVE  d = e /\ i = j
    <3>1. \/ d = c /\ i = Len(ring[c]) + 1 /\ ring'[d][i] = k
          \/ i \in 1..Len(ring[d]) /\ ring'[d][i] = ring[d][i] /\ ring[d][i] # k
      BY <1>3
    <3>2. \/ e = c /\ j = Len(ring[c]) + 1 /\ ring'[e][j] = k
          \/ j \in 1..Len(ring[e]) /\ ring'[e][j] = ring[e][j] /\ ring[e][j] # k
      BY <1>3
    <3> QED
      BY <2>1, <3>1, <3>2 DEF RingsOnce
  <2> QED
    BY <2>1 DEF RingsOnce
<1>5. ASSUME NEW d \in CPUs, NEW j \in Pkts
      PROVE  InRing(d, j)' <=> InRing(d, j) \/ (d = c /\ j = k)
  <2>1. ASSUME InRing(d, j)' PROVE InRing(d, j) \/ (d = c /\ j = k)
    BY <2>1, <1>3 DEF InRing
  <2>2. ASSUME InRing(d, j) PROVE InRing(d, j)'
    BY <2>2, <1>2 DEF InRing
  <2>3. ASSUME d = c, j = k PROVE InRing(d, j)'
    BY <2>3, <1>2 DEF InRing
  <2> QED
    BY <2>1, <2>2, <2>3
<1> QED
  BY <1>1, <1>4, <1>5

(* kfree_skb of a clone.                                                   *)
LEMMA FreeAt ==
  ASSUME TypeOK, NEW k \in Pkts, clone' = FreeClone(k)
  PROVE  /\ clone' \in [Pkts -> {"none", "live", "freed"}]
         /\ clone'[k] # "live"
         /\ \A j \in Pkts : j # k => clone'[j] = clone[j]
  BY DEF TypeOK, FreeClone

(* ... with a copy, ...                                                    *)
LEMMA CopyNowKeeps ==
  ASSUME IInv, NEW c \in CPUs, CopyNow(c)
  PROVE  IInv'
<1> USE DEF IInv
<1> DEFINE k == cur[c]
<1>same. /\ UNCHANGED <<sw, nchg, opened, linkUp, seq, cur, lseq, where, options, hwreq>>
         /\ UNCHANGED <<stamped, worker, wring, late, excuse, seqraced>>
         /\ pc[c] = "after" /\ ~sw["txtstamp"] /\ sw["txcopy"]
         /\ pc' = [pc EXCEPT ![c] = "idle"] /\ clone' = FreeClone(k)
         /\ oops' = (opened[c] /\ clone[k] = "none")
  BY DEF CopyNow
<1>k. /\ k \in Pkts /\ where[k] = "sent" /\ Fresh(k)
      /\ Unswitched(k) => clone[k] = "live" /\ ~hwreq[k]
      /\ NewestFrom(k, c)
      /\ \A d \in CPUs : pc[d] # "idle" /\ d # c => cur[d] # k
  BY <1>same DEF OnOneCpu, FreshUntilSent, SwitchesKept, Kept, NeedsClone, NewestNamesCpu
<1>1. /\ pc' \in [CPUs -> XmitPc]
      /\ \A d \in CPUs : pc'[d] = IF d = c THEN "idle" ELSE pc[d]
  BY <1>same, PcAt DEF XmitPc
<1>2. /\ clone' \in [Pkts -> {"none", "live", "freed"}]
      /\ clone'[k] # "live"
      /\ \A j \in Pkts : j # k => clone'[j] = clone[j]
  BY <1>same, <1>k, FreeAt
<1>3. /\ ring' \in [CPUs -> Seq(Pkts)]
      /\ RingsOnce'
      /\ \A d \in CPUs, j \in Pkts : InRing(d, j)' => InRing(d, j) \/ (d = c /\ j = k)
  <2>1. CASE opened[c] /\ clone[k] = "live"
    <3>1. ring' = [ring EXCEPT ![c] = Append(ring[c], k)]
      BY <2>1 DEF CopyNow
    <3> QED
      BY <3>1, <1>k, RingAt DEF Fresh
  <2>2. CASE ~(opened[c] /\ clone[k] = "live")
    <3>1. ring' = ring
      BY <2>2 DEF CopyNow, TypeOK
    <3> QED
      BY <3>1 DEF TypeOK, RingsOnce, InRing
  <2> QED
    BY <2>1, <2>2
<1>4. TypeOK'
  BY <1>same, <1>1, <1>2, <1>3 DEF TypeOK
<1>5. OnOneCpu'
  BY <1>same, <1>1 DEF OnOneCpu
<1>6. FreshUntilSent'
  BY <1>same, <1>k, <1>1, <1>2, <1>3 DEF OnOneCpu, FreshUntilSent, Fresh
<1>7. SwitchesKept'
  BY <1>same, <1>k, <1>1, <1>2 DEF OnOneCpu, SwitchesKept, Kept, Unswitched, NeedsClone
<1>8. CloneOwned'
  BY <1>same, <1>1, <1>2 DEF CloneOwned, InXmit
<1>9. WorkerHasClone'
  BY <1>same, <1>k, <1>2 DEF WorkerHasClone, Fresh, Unswitched
<1>10. NewestNamesCpu'
  BY <1>same, <1>k, <1>1, <1>3 DEF NewestNamesCpu, NewestFrom, Unswitched
<1>11. CopiedWithTstamp'
  BY <1>same, <1>k, <1>3 DEF CopiedWithTstamp, Unswitched
<1>12. SeqAhead' /\ SeqUniqueUnraced'
  BY <1>same, <1>1 DEF SeqAhead, SeqUniqueUnraced
<1> QED
  BY <1>3, <1>4, <1>5, <1>6, <1>7, <1>8, <1>9, <1>10, <1>11, <1>12

(* ... or with neither.                                                    *)
LEMMA NoCopyKeeps ==
  ASSUME IInv, NEW c \in CPUs, NoCopy(c)
  PROVE  IInv'
<1> USE DEF IInv
<1>same. /\ UNCHANGED <<sw, nchg, opened, linkUp, seq, cur, lseq, where, options, hwreq>>
         /\ UNCHANGED <<stamped, clone, worker, wring, late, ring, oops, excuse, seqraced>>
         /\ pc[c] = "after" /\ ~sw["txtstamp"] /\ ~sw["txcopy"]
  BY DEF NoCopy
<1>1. /\ pc' \in [CPUs -> XmitPc]
      /\ \A d \in CPUs : pc'[d] = IF d = c THEN "idle" ELSE pc[d]
  BY PcAt DEF NoCopy, XmitPc
<1>2. TypeOK'
  BY <1>same, <1>1 DEF TypeOK
<1>3. OnOneCpu' /\ FreshUntilSent' /\ RingsOnce'
  BY <1>same, <1>1 DEF OnOneCpu, FreshUntilSent, Fresh, InRing, RingsOnce
<1>4. SwitchesKept' /\ WorkerHasClone'
  BY <1>same, <1>1 DEF SwitchesKept, Kept, Unswitched, NeedsClone, WorkerHasClone
<1>5. CloneOwned'
  <2>1. clone[cur[c]] = "live" => excuse[cur[c]] # {}
    BY <1>same DEF SwitchesKept, Unswitched, NeedsClone
  <2> QED
    BY <1>same, <1>1, <2>1 DEF CloneOwned, InXmit
<1>6. NewestNamesCpu' /\ CopiedWithTstamp'
  BY <1>same, <1>1 DEF NewestNamesCpu, NewestFrom, Unswitched, CopiedWithTstamp, InRing
<1>7. SeqAhead' /\ SeqUniqueUnraced'
  BY <1>same, <1>1 DEF SeqAhead, SeqUniqueUnraced
<1> QED
  BY <1>2, <1>3, <1>4, <1>5, <1>6, <1>7

---------------------------------------------------------------------------
(* The worker of a packet copies it, gives up or finds no clone.           *)
LEMMA WorkerKeeps ==
  ASSUME IInv, NEW k \in Pkts, pval_txtstamp_work2(k)
  PROVE  IInv'
<1> USE DEF IInv
<1>same. /\ UNCHANGED <<sw, nchg, opened, linkUp, seq, pc, cur, lseq, where, options, hwreq>>
         /\ UNCHANGED <<stamped, wring, late, excuse, seqraced>>
         /\ worker[k] = "scheduled"
  BY DEF pval_txtstamp_work2
<1>k. /\ where[k] = "sent" /\ wring[k] \in CPUs /\ \A c \in CPUs : ~InRing(c, k)
      /\ Unswitched(k) => clone[k] = "live"
      /\ \A c \in CPUs : pc[c] # "idle" => cur[c] \in Pkts /\ cur[c] # k
  BY <1>same DEF FreshUntilSent, Fresh, WorkerHasClone, Unswitched, OnOneCpu, TypeOK
<1>1. OnOneCpu' /\ SeqAhead' /\ SeqUniqueUnraced'
  BY <1>same DEF OnOneCpu, SeqAhead, SeqUniqueUnraced
<1>2. CASE clone[k] = "none"
  <2>1. oops' = TRUE /\ UNCHANGED <<ring, clone, worker>>
    BY <1>2 DEF pval_txtstamp_work2
  <2>2. TypeOK'
    BY <1>same, <2>1 DEF TypeOK
  <2>3. FreshUntilSent' /\ RingsOnce'
    BY <1>same, <2>1 DEF FreshUntilSent, Fresh, InRing, RingsOnce
  <2>4. SwitchesKept' /\ CloneOwned'
    BY <1>same, <2>1 DEF SwitchesKept, Kept, Unswitched, NeedsClone, CloneOwned, InXmit
  <2>5. WorkerHasClone'
    BY <1>same, <1>k, <1>2, <2>1 DEF WorkerHasClone, Unswitched
  <2>6. NewestNamesCpu' /\ CopiedWithTstamp'
    BY <1>same, <2>1 DEF NewestNamesCpu, NewestFrom, Unswitched, CopiedWithTstamp, InRing
  <2> QED
    BY <1>1, <2>2, <2>3, <2>4, <2>5, <2>6
<1>3. CASE clone[k] # "none"
  <2>1. /\ UNCHANGED oops /\ clone' = FreeClone(k)
        /\ ring' = [ring EXCEPT ![wring[k]] = IF stamped[k] THEN Append(ring[wring[k]], k)
                                              ELSE ring[wring[k]]]
        /\ worker' = [worker EXCEPT ![k] = IF stamped[k] THEN "freed" ELSE "leaked"]
    BY <1>3 DEF pval_txtstamp_work2, HasTstamp
  <2>2. /\ clone' \in [Pkts -> {"none", "live", "freed"}]
        /\ clone'[k] # "live"
        /\ \A j \in Pkts : j # k => clone'[j] = clone[j]
    BY <2>1, FreeAt
  <2>3. /\ worker' \in [Pkts -> {"none", "scheduled", "freed", "leaked"}]
        /\ worker'[k] \in {"freed", "leaked"}
        /\ \A j \in Pkts : j # k => worker'[j] = worker[j]
    BY <2>1 DEF TypeOK
  <2>4. /\ ring' \in [CPUs -> Seq(Pkts)]
        /\ RingsOnce'
        /\ \A d \in CPUs, j \in Pkts :
             InRing(d, j)' => InRing(d, j) \/ (d = wring[k] /\ j = k /\ stamped[k])
    <3>1. CASE stamped[k]
      <4>1. ring' = [ring EXCEPT ![wring[k]] = Append(ring[wring[k]], k)]
        BY <2>1, <3>1
      <4> QED
        BY <3>1, <4>1, <1>k, RingAt
    <3>2. CASE ~stamped[k]
      <4>1. ring' = ring
        BY <2>1, <3>2, <1>k DEF TypeOK
      <4> QED
        BY <4>1 DEF TypeOK, RingsOnce, InRing
    <3> QED
      BY <3>1, <3>2
  <2>5. TypeOK'
    BY <1>same, <2>1, <2>2, <2>3, <2>4 DEF TypeOK
  <2>6. FreshUntilSent'
    BY <1>same, <1>k, <2>2, <2>3, <2>4 DEF FreshUntilSent, Fresh
  <2>7. SwitchesKept'
    BY <1>same, <1>k, <2>2 DEF SwitchesKept, Kept, Unswitched, NeedsClone
  <2>8. CloneOwned' /\ WorkerHasClone'
    BY <1>same, <2>1, <2>2, <2>3 DEF CloneOwned, WorkerHasClone, InXmit
  <2>9. NewestNamesCpu'
    BY <1>same, <2>3, <2>4 DEF NewestNamesCpu, NewestFrom, Unswitched
  <2>10. CopiedWithTstamp'
    BY <1>same, <2>4 DEF CopiedWithTstamp
  <2> QED
    BY <1>1, <2>4, <2>5, <2>6, <2>7, <2>8, <2>9, <2>10
<1> QED
  BY <1>2, <1>3

(* A switch is flipped.  The packets that are midway remember it.          *)
LEMMA ConfigKeeps ==
  ASSUME IInv, NEW s \in Switches, pval_nl_config(s)
  PROVE  IInv'
<1> USE DEF IInv
<1>same. /\ UNCHANGED <<opened, linkUp, seq, pc, cur, lseq, where, options, hwreq, stamped>>
         /\ UNCHANGED <<clone, worker, wring, late, ring, oops, seqraced>>
  BY DEF pval_nl_config
<1>1. sw' \in [Switches -> BOOLEAN] /\ nchg' \in 0..MaxChanges
  BY BoundsAssumption DEF pval_nl_config, TypeOK
<1>2. excuse' = [k \in Pkts |-> IF Midway(k) THEN excuse[k] \cup {"switched"} ELSE excuse[k]]
  BY DEF pval_nl_config
<1>3. excuse' \in [Pkts -> SUBSET {"switched", "rejected", "nomem"}]
  <2>1. ASSUME NEW k \in Pkts PROVE excuse'[k] \subseteq {"switched", "rejected", "nomem"}
    BY <1>2 DEF TypeOK
  <2> QED
    BY <1>2, <2>1
<1>4. \A k \in Pkts : /\ excuse[k] \subseteq excuse'[k]
                      /\ Unswitched(k)' => Unswitched(k) /\ ~Midway(k)
                      /\ "switched" \in excuse[k] => "switched" \in excuse'[k]
  BY <1>2 DEF Unswitched
<1>5. TypeOK'
  BY <1>same, <1>1, <1>3 DEF TypeOK
<1>6. OnOneCpu' /\ FreshUntilSent' /\ RingsOnce'
  BY <1>same DEF OnOneCpu, FreshUntilSent, Fresh, InRing, RingsOnce
<1>7. SwitchesKept'
  <2>1. ASSUME NEW c \in CPUs, pc[c] # "idle" PROVE ~Unswitched(cur[c])'
    <3>1. cur[c] \in Pkts /\ Midway(cur[c])
      BY <2>1 DEF OnOneCpu, Midway, InXmit
    <3>2. Unswitched(cur[c])' <=> "switched" \notin excuse'[cur[c]]
      BY <1>same DEF Unswitched
    <3> QED
      BY <1>2, <3>1, <3>2
  <2>2. ASSUME NEW k \in Pkts, where[k] = "stack" PROVE Kept(k)'
    BY <1>same, <1>4, <2>2 DEF Kept, Midway
  <2> QED
    BY <1>same, <2>1, <2>2 DEF SwitchesKept, Kept
<1>8. CloneOwned' /\ WorkerHasClone'
  BY <1>same, <1>4 DEF CloneOwned, WorkerHasClone, InXmit, Unswitched
<1>9. NewestNamesCpu'
  <2>1. ASSUME NEW k \in Pkts, NEW c, NewestFrom(k, c) PROVE NewestFrom(k, c)'
    BY <1>same, <1>4, <2>1 DEF NewestFrom
  <2> QED
    BY <1>same, <2>1 DEF NewestNamesCpu, InRing, OnOneCpu
<1>10. CopiedWithTstamp'
  BY <1>same, <1>4 DEF CopiedWithTstamp, InRing, Unswitched
<1>11. SeqAhead' /\ SeqUniqueUnraced'
  BY <1>same DEF SeqAhead, SeqUniqueUnraced
<1> QED
  BY <1>5, <1>6, <1>7, <1>8, <1>9, <1>10, <1>11

(* The link, the readers, the NIC and the clock.                           *)
LEMMA AroundKeeps ==
  ASSUME IInv,
         \/ LinkFlag \/ \E c \in CPUs : OpenClose(c)
         \/ \E k \in Pkts : HwTimestamp(k) \/ Expire(k)
         \/ UNCHANGED vars
  PROVE  IInv'
<1> USE DEF IInv
<1>same. /\ UNCHANGED <<sw, nchg, seq, pc, cur, lseq, where, options, hwreq, clone>>
         /\ UNCHANGED <<worker, wring, ring, oops, excuse, seqraced>>
  BY DEF LinkFlag, OpenClose, HwTimestamp, Expire, vars
<1>1. linkUp' \in BOOLEAN
  BY DEF LinkFlag, OpenClose, HwTimestamp, Expire, vars, TypeOK
<1>2. opened' \in [CPUs -> BOOLEAN]
  <2>1. ASSUME NEW c \in CPUs, OpenClose(c) PROVE opened' \in [CPUs -> BOOLEAN]
    BY <2>1 DEF OpenClose, TypeOK
  <2> QED
    BY <2>1 DEF LinkFlag, HwTimestamp, Expire, vars, TypeOK
<1>3. stamped' \in [Pkts -> BOOLEAN] /\ \A k \in Pkts : stamped[k] => stamped'[k]
  <2>1. ASSUME NEW k \in Pkts, HwTimestamp(k)
        PROVE  stamped' \in [Pkts -> BOOLEAN] /\ \A j \in Pkts : stamped[j] => stamped'[j]
    BY <2>1 DEF HwTimestamp, TypeOK
  <2> QED
    BY <2>1 DEF LinkFlag, OpenClose, Expire, vars, TypeOK
<1>4. late' \in [Pkts -> BOOLEAN]
  <2>1. ASSUME NEW k \in Pkts, Expire(k) PROVE late' \in [Pkts -> BOOLEAN]
    BY <2>1 DEF Expire, TypeOK
  <2> QED
    BY <2>1 DEF LinkFlag, OpenClose, HwTimestamp, vars, TypeOK
<1>5. TypeOK'
  BY <1>same, <1>1, <1>2, <1>3, <1>4 DEF TypeOK
<1>6. OnOneCpu' /\ FreshUntilSent' /\ RingsOnce'
  BY <1>same DEF OnOneCpu, FreshUntilSent, Fresh, InRing, RingsOnce
<1>7. SwitchesKept' /\ CloneOwned' /\ WorkerHasClone'
  BY <1>same DEF SwitchesKept, Kept, Unswitched, NeedsClone, CloneOwned, WorkerHasClone, InXmit
<1>8. NewestNamesCpu' /\ CopiedWithTstamp'
  BY <1>same, <1>3 DEF NewestNamesCpu, NewestFrom, Unswitched, CopiedWithTstamp, InRing
<1>9. SeqAhead' /\ SeqUniqueUnraced'
  BY <1>same DEF SeqAhead, SeqUniqueUnraced
<1> QED
  BY <1>5, <1>6, <1>7, <1>8, <1>9

---------------------------------------------------------------------------
(* Before the first packet.                                                *)
LEMMA InitIInv == Init => IInv
<1> SUFFICES ASSUME Init PROVE IInv
  OBVIOUS
<1>1. TypeOK
  BY InitTypes
<1>2. \A c \in CPUs : pc[c] = "idle" /\ ring[c] = <<>>
  BY DEF Init
<1>3. \A k \in Pkts : /\ options[k] = <<>> /\ ~hwreq[k]
                      /\ worker[k] = "none" /\ clone[k] = "none" /\ ~oops
  BY DEF Init
<1>4. \A c \in CPUs, k \in Pkts : ~InRing(c, k)
  BY <1>2 DEF InRing
<1>5. OnOneCpu /\ FreshUntilSent /\ RingsOnce
  BY <1>2, <1>3, <1>4 DEF OnOneCpu, FreshUntilSent, Fresh, RingsOnce
<1>6. SwitchesKept /\ CloneOwned /\ WorkerHasClone
  BY <1>2, <1>3 DEF SwitchesKept, Kept, CloneOwned, WorkerHasClone, Init
<1>7. NewestNamesCpu /\ CopiedWithTstamp
  BY <1>2, <1>3, <1>4 DEF NewestNamesCpu, CopiedWithTstamp
<1>8. SeqAhead /\ SeqUniqueUnraced
  BY <1>2, <1>3 DEF SeqAhead, SeqUniqueUnraced
<1> QED
  BY <1>1, <1>5, <1>6, <1>7, <1>8 DEF IInv

(* Every step of the CPUs, the workers and their surroundings.             *)
LEMMA NextIInv == IInv /\ [Next]_vars => IInv'
  BY BeginKeeps, LoadSeqKeeps, StoreSeqKeeps, RequestKeeps, CloneKeeps, QueueKeeps, StartWorkerKeeps,
     CopyNowKeeps, NoCopyKeeps, WorkerKeeps, ConfigKeeps, AroundKeeps
  DEF Next, pval_xmit

(* IInv is an invariant of the transmit path.                              *)
THEOREM Inductive == Spec => []IInv
  BY InitIInv, NextIInv, PTL DEF Spec

(* The types are kept, whatever the CPUs interleave.                       *)
THEOREM TypeCorrect == Spec => []TypeOK
<1>1. IInv => TypeOK
  BY DEF IInv
<1> QED
  BY <1>1, Inductive, PTL

(* write_to_ring is called at most once for a packet, after it was sent    *)
(* and on the ring of the CPU that sent it (which the option tells if no   *)
(* switch was flipped midway), by pval_xmit or the worker.                 *)
THEOREM CopiedOnce == Spec => []CopiedOnceWhereSent
<1>1. ASSUME IInv PROVE CopiedOnceWhereSent
  <2>1. ASSUME NEW c \in CPUs, NEW k \in Pkts, InRing(c, k)
        PROVE  /\ where[k] = "sent"
               /\ options[k] # <<>> /\ "switched" \notin excuse[k] =>
                    options[k][Len(options[k])][1] = c
    BY <1>1, <2>1 DEF IInv, FreshUntilSent, Fresh, NewestNamesCpu, NewestFrom, Unswitched
  <2> QED
    BY <1>1, <2>1 DEF IInv, RingsOnce, CopiedOnceWhereSent
<1> QED
  BY <1>1, Inductive, PTL

(* No path through pval_xmit and the worker forgets a clone but the ones   *)
(* that `excuse' names.                                                    *)
THEOREM CloneNotForgotten == Spec => []CloneOwned
<1>1. IInv => CloneOwned
  BY DEF IInv
<1> QED
  BY <1>1, Inductive, PTL

(* The worker of a packet has its clone, if no switch was flipped midway.  *)
THEOREM WorkerFindsClone == Spec => []WorkerHasClone
<1>1. IInv => WorkerHasClone
  BY DEF IInv
<1> QED
  BY <1>1, Inductive, PTL

(* A packet whose timestamp was requested is not copied without it, if no  *)
(* switch was flipped midway.                                              *)
THEOREM NoCopyWithoutTstamp == Spec => []CopiedWithTstamp
<1>1. IInv => CopiedWithTstamp
  BY DEF IInv
<1> QED
  BY <1>1, Inductive, PTL

(* Numbers are unique as long as no two CPUs meet inside `pdev->seq++'.    *)
THEOREM SeqUnique == Spec => []SeqUniqueUnraced
<1>1. IInv => SeqUniqueUnraced
  BY DEF IInv
<1> QED
  BY <1>1, Inductive, PTL
=============================================================================
