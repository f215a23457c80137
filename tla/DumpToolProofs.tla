--------------------------- MODULE DumpToolProofs ---------------------------
(***************************************************************************)
(* Proofs about DumpTool for every command line, any number of devices,    *)
(* packets and signals and every length of ring and of readv().            *)
(*                                                                         *)
(* The parts of the inductive invariant:                                   *)
(***************************************************************************)
EXTENDS DumpTool, SequenceTheorems, TLAPS

(* Where main() is with its threads: those that it has not come to are not *)
(* there, those that it has joined have ended, and nothing of the process  *)
(* is left in the end.                                                     *)
MainKnows ==
  /\ mpc = "create" => \A t \in Threads : t >= n => tpc[t] = "none"
  /\ mpc = "join" => \A t \in Threads : t < n => tpc[t] = "done"
  /\ mpc = "exit" => /\ \A t \in Threads : tpc[t] = "done"
                     /\ \A d \in Devices : opened[d] \notin Threads
  /\ cut => mpc = "exit"

(* A device belongs to the thread that has opened it, which was told to;   *)
(* a thread in its loop has its own.                                       *)
InLoop == {"loop", "poll", "asleep", "read", "print"}

OwnDevice ==
  /\ \A d \in Devices : opened[d] \in Threads =>
       Argv[opened[d]] = d /\ tpc[opened[d]] \in InLoop \cup {"done"}
  /\ \A t \in Threads : tpc[t] \in InLoop => opened[Argv[t]] = t

(* A thread leaves parse_and_print with nothing in hand.                   *)
EmptyHanded == ~cut => \A t \in Threads : tpc[t] # "print" => got[t] = <<>>

IInv == TypeOK /\ MainKnows /\ OwnDevice /\ EmptyHanded /\ PrintsWhatItTakes

USE DEF threadVars, devVars, outVars

(* Nobody and Other are no threads.                                        *)
LEMMA NotThreads ==
  /\ Len(Argv) \in Nat /\ Threads = 1..Len(Argv)
  /\ Nobody \notin Threads /\ Other \notin Threads
  /\ \A t \in Threads : Argv[t] \in Devices
  BY ArgvAssumption DEF Nobody, Other, Threads

(* A thread's counter is assigned.                                         *)
LEMMA TpcAt ==
  ASSUME TypeOK, NEW t \in Threads, NEW l \in ThreadPc, tpc' = [tpc EXCEPT ![t] = l]
  PROVE  /\ tpc' \in [Threads -> ThreadPc]
         /\ \A u \in Threads : tpc'[u] = IF u = t THEN l ELSE tpc[u]
  BY DEF TypeOK

(* What is printed depends on the owners, their hands and the outputs.     *)
LEMMA PrintsSame ==
  ASSUME PrintsWhatItTakes, UNCHANGED <<opened, got, shown, taken, cut>>
  PROVE  PrintsWhatItTakes'
  BY DEF PrintsWhatItTakes

---------------------------------------------------------------------------
(* A thread in its loop goes on, or ends, with nothing in hand; a signal   *)
(* may come with that.                                                     *)
LEMMA MoveKeeps ==
  ASSUME IInv, Alive, NEW t \in Threads, tpc[t] \in InLoop \ {"print"},
         NEW l \in (InLoop \ {"print"}) \cup {"done"}, tpc' = [tpc EXCEPT ![t] = l],
         caught_signal' \in BOOLEAN, nsig' \in 0..MaxSignals,
         UNCHANGED <<mpc, n, got, opened, ring, npkts, shown, taken, cut>>
  PROVE  IInv'
<1> USE DEF IInv
<1>1. /\ tpc' \in [Threads -> ThreadPc]
      /\ \A u \in Threads : tpc'[u] = IF u = t THEN l ELSE tpc[u]
  BY TpcAt DEF InLoop, ThreadPc
<1>2. TypeOK'
  BY <1>1 DEF TypeOK
<1>3. MainKnows'
  BY <1>1 DEF MainKnows, InLoop, Alive
<1>4. OwnDevice'
  BY <1>1 DEF OwnDevice, InLoop
<1>5. EmptyHanded'
  BY <1>1 DEF EmptyHanded, InLoop
<1> QED
  BY <1>2, <1>3, <1>4, <1>5, PrintsSame

(* if (caught_signal) break; poll() with and without packets.              *)
LEMMA WaitKeeps ==
  ASSUME IInv, NEW t \in Threads, Check(t) \/ Poll(t) \/ Sleep(t) \/ PollTimeout(t)
  PROVE  IInv'
<1>1. /\ Alive /\ tpc[t] \in {"loop", "poll", "asleep"}
      /\ UNCHANGED <<mpc, n, got, caught_signal, nsig, opened, ring, npkts, shown, taken, cut>>
  BY DEF Check, Poll, Sleep, PollTimeout, ThreadGoes
<1>2. PICK l \in {"done", "loop", "poll", "asleep", "read"} : tpc' = [tpc EXCEPT ![t] = l]
  BY DEF Check, Poll, Sleep, PollTimeout, ThreadGoes
<1>3. caught_signal' \in BOOLEAN /\ nsig' \in 0..MaxSignals
  BY <1>1 DEF IInv, TypeOK
<1> QED
  BY <1>1, <1>2, <1>3, MoveKeeps DEF InLoop

(* A thread opens its device, or finds it taken and ends.                  *)
LEMMA OpenKeeps ==
  ASSUME IInv, NEW t \in Threads, Open(t)
  PROVE  IInv'
<1> USE DEF IInv
<1>1. PICK d \in Devices : d = Argv[t]
  BY NotThreads
<1>2. /\ Alive /\ tpc[t] = "open" /\ (got[t] = <<>> \/ cut)
      /\ UNCHANGED <<mpc, n, got, caught_signal, nsig, npkts, shown, taken, cut>>
  BY DEF Open, ThreadGoes, EmptyHanded
<1>3. CASE /\ opened[d] = Nobody /\ tpc' = [tpc EXCEPT ![t] = "loop"]
           /\ opened' = [opened EXCEPT ![d] = t]
           /\ ring' = [ring EXCEPT ![d] = <<>>]
  <2>1. /\ tpc' \in [Threads -> ThreadPc]
        /\ \A u \in Threads : tpc'[u] = IF u = t THEN "loop" ELSE tpc[u]
    BY <1>3, TpcAt DEF ThreadPc
  <2>2. /\ opened' \in [Devices -> {Nobody, Other} \cup Threads]
        /\ \A e \in Devices : opened'[e] = IF e = d THEN t ELSE opened[e]
    BY <1>3 DEF TypeOK
  <2>3. ring' \in [Devices -> Seq(1..MaxPkts)]
    BY <1>3 DEF TypeOK
  <2>4. TypeOK'
    BY <1>2, <2>1, <2>2, <2>3 DEF TypeOK
  <2>5. MainKnows'
    BY <1>2, <2>1 DEF MainKnows, Alive
  <2>6. OwnDevice'
    BY <1>1, <1>2, <1>3, <2>1, <2>2, NotThreads DEF OwnDevice, InLoop
  <2>7. EmptyHanded'
    BY <1>2, <2>1 DEF EmptyHanded
  <2>8. PrintsWhatItTakes'
    BY <1>2, <1>3, <2>2, NotThreads DEF PrintsWhatItTakes
  <2> QED
    BY <2>4, <2>5, <2>6, <2>7, <2>8
<1>4. CASE tpc' = [tpc EXCEPT ![t] = "done"] /\ UNCHANGED <<opened, ring>>
  <2>1. /\ tpc' \in [Threads -> ThreadPc]
        /\ \A u \in Threads : tpc'[u] = IF u = t THEN "done" ELSE tpc[u]
    BY <1>4, TpcAt DEF ThreadPc
  <2>2. TypeOK' /\ EmptyHanded' /\ MainKnows'
    BY <1>2, <1>4, <2>1 DEF TypeOK, EmptyHanded, MainKnows, Alive
  <2>3. OwnDevice'
    BY <1>4, <2>1 DEF OwnDevice, InLoop
  <2> QED
    BY <1>2, <1>4, <2>2, <2>3, PrintsSame
<1> QED
  BY <1>1, <1>3, <1>4 DEF Open, ThreadGoes

(* readv() takes packets.                                                  *)
LEMMA ReadKeeps ==
  ASSUME IInv, NEW t \in Threads, Read(t)
  PROVE  IInv'
<1> USE DEF IInv
<1>1. PICK d \in Devices : d = Argv[t]
  BY NotThreads
<1> DEFINE S == 1..MaxPkts
<1> HIDE DEF S
<1>2. ring[d] \in Seq(S) /\ taken[d] \in Seq(S) /\ shown[d] \in Seq(S)
  BY DEF TypeOK, S
<1>3. PICK k \in 0..Len(ring[d]) :
        /\ got' = [got EXCEPT ![t] = SubSeq(ring[d], 1, k)]
        /\ ring' = [ring EXCEPT ![d] = SubSeq(ring[d], k + 1, Len(ring[d]))]
        /\ taken' = [taken EXCEPT ![d] = taken[d] \o SubSeq(ring[d], 1, k)]
  <2>1. Len(ring[d]) \in Nat /\ BULKNUM \in Nat
    BY <1>2, BoundsAssumption
  <2> DEFINE k == IF Len(ring[d]) > BULKNUM THEN BULKNUM ELSE Len(ring[d])
  <2>2. k \in 0..Len(ring[d])
    BY <2>1
  <2> QED
    BY <1>1, <2>2 DEF Read
<1>4. PICK s \in Seq(S) : s = SubSeq(ring[d], 1, k)
  <2>1. Len(ring[d]) \in Nat /\ 1 \in Int /\ k \in Int
    BY <1>2
  <2>2. \A i \in 1..k : ring[d][i] \in S
    BY <1>2, <2>1
  <2>3. SubSeq(ring[d], 1, k) \in Seq(S)
    BY <2>1, <2>2, SubSeqProperties
  <2> QED
    BY <2>3
<1>5. SubSeq(ring[d], k + 1, Len(ring[d])) \in Seq(S)
  <2>1. Len(ring[d]) \in Int /\ k + 1 \in Int /\ k \in Nat
    BY <1>2
  <2>2. \A i \in (k + 1)..Len(ring[d]) : ring[d][i] \in S
    BY <1>2, <2>1
  <2> QED
    BY <2>1, <2>2, SubSeqProperties
<1>6. taken[d] \o s \in Seq(S)
  BY <1>2, <1>4, ConcatProperties
<1>7. /\ Alive /\ tpc[t] = "read" /\ tpc' = [tpc EXCEPT ![t] = "print"]
      /\ UNCHANGED <<mpc, n, caught_signal, nsig, opened, npkts, shown, cut>>
  BY DEF Read, ThreadGoes
<1>8. /\ tpc' \in [Threads -> ThreadPc]
      /\ \A u \in Threads : tpc'[u] = IF u = t THEN "print" ELSE tpc[u]
  BY <1>7, TpcAt DEF ThreadPc
<1>9. /\ got' \in [Threads -> Seq(S)]
      /\ \A u \in Threads : got'[u] = IF u = t THEN s ELSE got[u]
  BY <1>3, <1>4 DEF TypeOK, S
<1>10. ring' \in [Devices -> Seq(S)]
  BY <1>3, <1>5 DEF TypeOK, S
<1>11. /\ taken' \in [Devices -> Seq(S)]
       /\ \A e \in Devices : taken'[e] = IF e = d THEN taken[d] \o s ELSE taken[e]
  BY <1>3, <1>4, <1>6 DEF TypeOK, S
<1>12. TypeOK'
  BY <1>7, <1>8, <1>9, <1>10, <1>11 DEF TypeOK, S
<1>13. MainKnows'
  BY <1>7, <1>8 DEF MainKnows, Alive
<1>14. OwnDevice' /\ opened[d] = t
  BY <1>1, <1>7, <1>8 DEF OwnDevice, InLoop
<1>15. EmptyHanded'
  BY <1>7, <1>8, <1>9 DEF EmptyHanded
<1>16. PrintsWhatItTakes'
  <2> SUFFICES ASSUME NEW e \in Devices, ~cut
               PROVE  taken'[e] = shown[e] \o (IF opened[e] \in Threads
                                                 THEN got'[opened[e]] ELSE <<>>)
    BY <1>7 DEF PrintsWhatItTakes
  <2>1. taken[e] = shown[e] \o (IF opened[e] \in Threads THEN got[opened[e]] ELSE <<>>)
    BY DEF PrintsWhatItTakes
  <2>2. CASE e = d
    <3>1. got[t] = <<>>
      BY <1>7 DEF EmptyHanded
    <3>2. taken[d] = shown[d] \o <<>>
      BY <1>14, <2>1, <2>2, <3>1
    <3>3. taken[d] = shown[d]
      BY <1>2, <3>2, ConcatEmptySeq
    <3> QED
      BY <1>9, <1>11, <1>14, <2>2, <3>3
  <2>3. CASE e # d
    <3>1. opened[e] # t
      BY <1>1, <2>3 DEF OwnDevice
    <3> QED
      BY <1>9, <1>11, <2>1, <2>3, <3>1
  <2> QED
    BY <2>2, <2>3
<1> QED
  BY <1>12, <1>13, <1>14, <1>15, <1>16

(* They are printed.                                                       *)
LEMMA PrintKeeps ==
  ASSUME IInv, NEW t \in Threads, parse_and_print(t)
  PROVE  IInv'
<1> USE DEF IInv
<1>1. PICK d \in Devices : d = Argv[t]
  BY NotThreads
<1> DEFINE S == 1..MaxPkts
<1>2. taken[d] \in Seq(S) /\ shown[d] \in Seq(S) /\ got[t] \in Seq(S)
  BY DEF TypeOK
<1>3. shown[d] \o got[t] \in Seq(S) /\ (shown[d] \o got[t]) \o <<>> = shown[d] \o got[t]
  BY <1>2, ConcatProperties, ConcatEmptySeq
<1> HIDE DEF S
<1>4. /\ Alive /\ tpc[t] = "print" /\ tpc' = [tpc EXCEPT ![t] = "loop"]
      /\ UNCHANGED <<mpc, n, caught_signal, nsig, opened, ring, npkts, taken, cut>>
      /\ shown' = [shown EXCEPT ![d] = shown[d] \o got[t]]
      /\ got' = [got EXCEPT ![t] = <<>>]
  BY <1>1 DEF parse_and_print, ThreadGoes
<1>5. /\ tpc' \in [Threads -> ThreadPc]
      /\ \A u \in Threads : tpc'[u] = IF u = t THEN "loop" ELSE tpc[u]
  BY <1>4, TpcAt DEF ThreadPc
<1>6. /\ got' \in [Threads -> Seq(S)]
      /\ \A u \in Threads : got'[u] = IF u = t THEN <<>> ELSE got[u]
  BY <1>4 DEF TypeOK, S
<1>7. /\ shown' \in [Devices -> Seq(S)]
      /\ \A e \in Devices : shown'[e] = IF e = d THEN shown[d] \o got[t] ELSE shown[e]
  BY <1>3, <1>4 DEF TypeOK, S
<1>8. TypeOK'
  BY <1>4, <1>5, <1>6, <1>7 DEF TypeOK, S
<1>9. MainKnows'
  BY <1>4, <1>5 DEF MainKnows, Alive
<1>10. OwnDevice' /\ opened[d] = t
  BY <1>1, <1>4, <1>5 DEF OwnDevice, InLoop
<1>11. EmptyHanded'
  BY <1>4, <1>5, <1>6 DEF EmptyHanded
<1>12. PrintsWhatItTakes'
  <2> SUFFICES ASSUME NEW e \in Devices, ~cut
               PROVE  taken[e] = shown'[e] \o (IF opened[e] \in Threads
                                                 THEN got'[opened[e]] ELSE <<>>)
    <3>1. UNCHANGED <<opened, taken, cut>>
      BY <1>4
    <3> QED
      BY <3>1 DEF PrintsWhatItTakes
  <2>1. taken[e] = shown[e] \o (IF opened[e] \in Threads THEN got[opened[e]] ELSE <<>>)
    BY DEF PrintsWhatItTakes
  <2>2. CASE e = d
    BY <1>3, <1>6, <1>7, <1>10, <2>1, <2>2
  <2>3. CASE e # d
    <3>1. opened[e] # t
      BY <1>1, <2>3 DEF OwnDevice
    <3> QED
      BY <1>6, <1>7, <2>1, <2>3, <3>1
  <2> QED
    BY <2>2, <2>3
<1> QED
  BY <1>8, <1>9, <1>10, <1>11, <1>12

---------------------------------------------------------------------------
(* The process ends: if main() has joined its threads, or has none, nothing*)
(* is in their hands.                                                      *)
LEMMA EndsKeeps ==
  ASSUME IInv, Ends, mpc = "create" \/ (mpc = "join" /\ Joined), nsig' \in 0..MaxSignals
  PROVE  IInv'
<1> USE DEF IInv
<1>1. /\ mpc' = "exit" /\ UNCHANGED <<n, got, caught_signal, npkts, shown, taken>>
      /\ tpc' = [t \in Threads |-> "done"]
      /\ cut' = (mpc = "create" /\ \E t \in Threads : Live(t))
  BY DEF Ends
<1>2. /\ opened' \in [Devices -> {Nobody, Other}]
      /\ \A d \in Devices : opened'[d] \notin Threads
  BY NotThreads DEF Ends, TypeOK
<1>3. ring' \in [Devices -> Seq(1..MaxPkts)]
  <2>1. <<>> \in Seq(1..MaxPkts) /\ \A d \in Devices : ring[d] \in Seq(1..MaxPkts)
    BY DEF TypeOK
  <2>2. ring' = [d \in Devices |-> IF opened[d] \in Threads THEN <<>> ELSE ring[d]]
    BY DEF Ends
  <2> QED
    BY <2>1, <2>2
<1>4. TypeOK'
  BY <1>1, <1>2, <1>3 DEF TypeOK, ThreadPc
<1>5. MainKnows' /\ OwnDevice'
  BY <1>1, <1>2 DEF MainKnows, OwnDevice, InLoop
<1>6. ~cut /\ (~cut' => \A t \in Threads : got[t] = <<>>)
  <2>1. ~cut
    BY DEF MainKnows
  <2>2. CASE mpc = "create"
    <3>1. ~cut' => \A t \in Threads : tpc[t] \in {"none", "done"}
      BY <1>1, <2>2 DEF Live
    <3> QED
      BY <2>1, <3>1 DEF EmptyHanded
  <2>3. CASE mpc = "join" /\ Joined
    <3>1. \A t \in Threads : t < n
      BY <2>3, NotThreads DEF Joined, TypeOK
    <3>2. \A t \in Threads : tpc[t] = "done"
      BY <2>3, <3>1 DEF MainKnows
    <3> QED
      BY <2>1, <3>2 DEF EmptyHanded
  <2> QED
    BY <2>2, <2>3
<1>7. EmptyHanded'
  BY <1>1, <1>6 DEF EmptyHanded
<1>8. PrintsWhatItTakes'
  BY <1>1, <1>2, <1>6 DEF PrintsWhatItTakes, TypeOK
<1> QED
  BY <1>4, <1>5, <1>7, <1>8

(* pthread_create, the handler, pthread_join and the end of main().        *)
LEMMA MainKeeps ==
  ASSUME IInv, main
  PROVE  IInv'
<1> USE DEF IInv
<1>1. CASE (Create \/ Install \/ Return) /\ Ends
  <2>1. mpc = "create" \/ (mpc = "join" /\ Joined)
    BY <1>1 DEF Create, Install, Return
  <2>2. nsig' \in 0..MaxSignals
    BY <1>1 DEF Create, Install, Return, TypeOK
  <2> QED
    BY <1>1, <2>1, <2>2, EndsKeeps
<1>2. CASE /\ mpc = "create" /\ MoreToCreate /\ tpc' = [tpc EXCEPT ![n] = "open"]
           /\ n' = n + 1
           /\ UNCHANGED <<mpc, got, caught_signal, nsig, opened, ring, npkts, shown, taken, cut>>
  <2>1. n \in Threads /\ n \in Nat /\ n + 1 \in 1..(Len(Argv) + 1)
    BY <1>2, NotThreads DEF MoreToCreate, TypeOK
  <2>2. /\ tpc' \in [Threads -> ThreadPc]
        /\ \A u \in Threads : tpc'[u] = IF u = n THEN "open" ELSE tpc[u]
    BY <1>2, <2>1, TpcAt DEF ThreadPc
  <2>3. TypeOK'
    BY <1>2, <2>1, <2>2 DEF TypeOK
  <2>4. tpc[n] = "none"
    BY <1>2, <2>1 DEF MainKnows
  <2>5. MainKnows'
    BY <1>2, <2>1, <2>2, NotThreads DEF MainKnows
  <2>6. OwnDevice' /\ EmptyHanded'
    BY <1>2, <2>2, <2>4 DEF OwnDevice, InLoop, EmptyHanded
  <2> QED
    BY <1>2, <2>3, <2>5, <2>6, PrintsSame
<1>3. CASE /\ mpc = "create" /\ mpc' = "join" /\ n' = 1
           /\ UNCHANGED <<tpc, got, caught_signal, nsig, opened, ring, npkts, shown, taken, cut>>
  <2>1. TypeOK'
    BY <1>3, NotThreads DEF TypeOK
  <2>2. MainKnows'
    BY <1>3, NotThreads DEF MainKnows
  <2> QED
    BY <1>3, <2>1, <2>2, PrintsSame DEF OwnDevice, EmptyHanded
<1>4. CASE Join
  <2>1. /\ mpc = "join" /\ n <= Len(Argv) /\ tpc[n] = "done" /\ n' = n + 1
        /\ UNCHANGED <<mpc, tpc, got, caught_signal, nsig, opened, ring, npkts>>
        /\ UNCHANGED <<shown, taken, cut>>
    BY <1>4, NotThreads DEF Join, Joined, TypeOK
  <2>2. n \in Nat /\ n + 1 \in 1..(Len(Argv) + 1)
    BY <2>1, NotThreads DEF TypeOK
  <2>3. TypeOK'
    BY <2>1, <2>2 DEF TypeOK
  <2>4. MainKnows'
    BY <2>1, <2>2, NotThreads DEF MainKnows
  <2> QED
    BY <2>1, <2>3, <2>4, PrintsSame DEF OwnDevice, EmptyHanded
<1> QED
  BY <1>1, <1>2, <1>3, <1>4 DEF main, Create, Install, Return

(* A signal.                                                               *)
LEMMA SignalKeeps ==
  ASSUME IInv, Sigint \/ sig_handler
  PROVE  IInv'
<1> USE DEF IInv
<1>1. nsig' \in 0..MaxSignals
  BY BoundsAssumption DEF Sigint, sig_handler, TypeOK
<1>2. CASE Sigint
  BY <1>1, <1>2, EndsKeeps DEF Sigint
<1>3. CASE sig_handler
  <2>1. /\ mpc = "join" /\ caught_signal' \in BOOLEAN
        /\ UNCHANGED <<mpc, n, got, opened, ring, npkts, shown, taken, cut>>
    BY <1>3 DEF sig_handler
  <2>2. CASE UNCHANGED tpc
    <3>1. TypeOK'
      BY <1>1, <2>1, <2>2 DEF TypeOK
    <3> QED
      BY <2>1, <2>2, <3>1, PrintsSame DEF MainKnows, OwnDevice, EmptyHanded
  <2>3. ASSUME NEW t \in Threads, tpc[t] = "asleep", tpc' = [tpc EXCEPT ![t] = "done"]
        PROVE  IInv'
    BY <1>1, <2>1, <2>3, MoveKeeps DEF InLoop, Alive
  <2> QED
    BY <1>3, <2>2, <2>3 DEF sig_handler
<1> QED
  BY <1>2, <1>3

(* A packet is copied to a device.                                         *)
LEMMA CopyKeeps ==
  ASSUME IInv, NEW d \in Devices, Copy(d)
  PROVE  IInv'
<1> USE DEF IInv
<1>1. UNCHANGED <<mpc, n, tpc, got, caught_signal, nsig, opened, shown, taken, cut>>
  BY DEF Copy
<1>2. npkts[d] \in Nat /\ npkts[d] + 1 \in 1..MaxPkts /\ npkts[d] + 1 \in 0..MaxPkts
  BY BoundsAssumption DEF Copy, TypeOK
<1>3. npkts' \in [Devices -> 0..MaxPkts]
  BY <1>2 DEF Copy, TypeOK
<1>4. ring' \in [Devices -> Seq(1..MaxPkts)]
  <2>1. Append(ring[d], npkts[d] + 1) \in Seq(1..MaxPkts)
    BY <1>2, AppendProperties DEF TypeOK
  <2> QED
    BY <2>1 DEF Copy, TypeOK
<1>5. TypeOK'
  BY <1>1, <1>3, <1>4 DEF TypeOK
<1> QED
  BY <1>1, <1>5, PrintsSame DEF MainKnows, OwnDevice, EmptyHanded

---------------------------------------------------------------------------
(* The inductive invariant holds when main() starts its threads.           *)
LEMMA InitIInv == Init => IInv
<1> SUFFICES ASSUME Init PROVE IInv
  OBVIOUS
<1>1. TypeOK
  <2>1. <<>> \in Seq(1..MaxPkts)
    OBVIOUS
  <2>2. 1 \in 1..(Len(Argv) + 1) /\ 0 \in 0..MaxPkts /\ 0 \in 0..MaxSignals
    BY NotThreads, BoundsAssumption
  <2>3. /\ got \in [Threads -> Seq(1..MaxPkts)] /\ ring \in [Devices -> Seq(1..MaxPkts)]
        /\ shown \in [Devices -> Seq(1..MaxPkts)] /\ taken \in [Devices -> Seq(1..MaxPkts)]
    BY <2>1 DEF Init
  <2>4. tpc \in [Threads -> ThreadPc] /\ opened \in [Devices -> {Nobody, Other} \cup Threads]
    BY DEF Init, ThreadPc
  <2> QED
    BY <2>2, <2>3, <2>4 DEF Init, TypeOK
<1>2. \A d \in Devices : opened[d] \notin Threads
  BY NotThreads DEF Init
<1>3. MainKnows /\ OwnDevice /\ EmptyHanded
  BY <1>2 DEF Init, MainKnows, OwnDevice, InLoop, EmptyHanded
<1>4. PrintsWhatItTakes
  BY <1>2 DEF Init, PrintsWhatItTakes
<1> QED
  BY <1>1, <1>3, <1>4 DEF IInv

(* Every step keeps it.                                                    *)
LEMMA NextIInv == IInv /\ [Next]_vars => IInv'
<1> SUFFICES ASSUME IInv, [Next]_vars PROVE IInv'
  OBVIOUS
<1>1. CASE UNCHANGED vars
  <2>1. /\ UNCHANGED <<mpc, n, tpc, got, caught_signal, nsig, opened, ring, npkts, shown>>
        /\ UNCHANGED <<taken, cut>>
    BY <1>1 DEF vars
  <2>2. TypeOK' /\ PrintsWhatItTakes'
    BY <2>1, PrintsSame DEF IInv, TypeOK
  <2> QED
    BY <2>1, <2>2 DEF IInv, MainKnows, OwnDevice, EmptyHanded
<1>2. CASE main
  BY <1>2, MainKeeps
<1>3. ASSUME NEW t \in Threads, dump_thread(t) PROVE IInv'
  BY <1>3, OpenKeeps, WaitKeeps, ReadKeeps, PrintKeeps DEF dump_thread
<1>4. CASE Sigint \/ sig_handler
  BY <1>4, SignalKeeps
<1>5. ASSUME NEW d \in Devices, Copy(d) PROVE IInv'
  BY <1>5, CopyKeeps
<1> QED
  BY <1>1, <1>2, <1>3, <1>4, <1>5 DEF Next

(* What main(), the threads, the signals and the packets keep true between *)
(* them.                                                                   *)
THEOREM Inductive == Spec => []IInv
  BY InitIInv, NextIInv, PTL DEF Spec

(* Types are kept: main() indexes no thread behind the last one.           *)
THEOREM TypeCorrect == Spec => []TypeOK
<1>1. IInv => TypeOK
  BY DEF IInv
<1> QED
  BY <1>1, Inductive, PTL

(* Every packet that readv() takes is printed, whole, in order and once,   *)
(* for any command line, also one that names a device again, and any       *)
(* signals, unless the process dies before its handler is installed or for *)
(* a pthread_create() that fails.                                          *)
THEOREM AllPrinted == Spec => []PrintsWhatItTakes
<1>1. IInv => PrintsWhatItTakes
  BY DEF IInv
<1> QED
  BY <1>1, Inductive, PTL
=============================================================================
