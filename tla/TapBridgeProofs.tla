--------------------------- MODULE TapBridgeProofs --------------------------
(***************************************************************************)
(* Proofs about TapBridge for both programs and any number of packets and  *)
(* failing calls.                                                          *)
(*                                                                         *)
(* The parts of the inductive invariant:                                   *)
(***************************************************************************)
EXTENDS TapBridge, FiniteSetTheorems, TLAPS

TapPkt  == [id : 1..MaxTap, v4 : BOOLEAN]
RawPkt  == [id : 1..MaxRaw, ts : 0..MaxRaw]
TxLine  == [pkt : 1..MaxTap, ts : 0..MaxTap, own : BOOLEAN]
RxLine  == [pkt : 1..MaxRaw, own : 0..MaxRaw, ts : 0..MaxRaw]
LogType == txlog \in Seq(TxLine) /\ rxlog \in Seq(RxLine)

(* What poll() has reported is still there when its turn comes.            *)
InputThere ==
  /\ pc = "tap" /\ "tap" \in revents => tapq # <<>>
  /\ pc \in {"tap", "send", "stamp", "raw"} /\ "raw" \in revents => rawq # <<>>

(* Nothing has been sent before the loop.                                  *)
Fresh == pc = "start" => errq = <<>> /\ owed = {} /\ txlog = <<>>

(* Packets wait in the order of their numbers.                             *)
TapWaits ==
  /\ \A i \in 1..Len(tapq) : tapq[i].id \in 1..ntap
  /\ \A i, j \in 1..Len(tapq) : i < j => tapq[i].id < tapq[j].id

RawWaits ==
  /\ \A i \in 1..Len(rawq) : rawq[i].id \in 1..nraw
  /\ \A i, j \in 1..Len(rawq) : i < j => rawq[i].id < rawq[j].id

(* A packet of the tap that is behind those that wait and the one in hand. *)
Past(k) ==
  /\ k \in 1..ntap
  /\ \A i \in 1..Len(tapq) : k < tapq[i].id
  /\ pc = "send" => k < buf
  /\ pc = "stamp" => k <= buf

PastAreBehind ==
  /\ \A i \in 1..Len(wire) : Past(wire[i])
  /\ \A k \in lost \cup owed : Past(k)
  /\ \A i \in 1..Len(errq) : Past(errq[i])
  /\ \A i \in 1..Len(txlog) : txlog[i].ts # 0 => Past(txlog[i].ts)

TapInHand ==
  pc \in {"send", "stamp"} =>
    buf \in 1..ntap /\ \A i \in 1..Len(tapq) : buf < tapq[i].id

(* No packet of the tap has gone astray.                                   *)
Accounted ==
  \A k \in 1..ntap :
    \/ \E i \in 1..Len(tapq) : tapq[i].id = k
    \/ \E i \in 1..Len(wire) : wire[i] = k
    \/ k \in lost
    \/ pc = "send" /\ buf = k

(* The same order for what has been received.                              *)
RawInHand ==
  pc = "write" => /\ buf \in 1..nraw
                  /\ \A i \in 1..Len(rawq) : buf < rawq[i].id
                  /\ \A i \in 1..Len(host) : host[i] < buf

HostIsBehind ==
  \A i \in 1..Len(host) :
    host[i] \in 1..nraw /\ \A j \in 1..Len(rawq) : host[i] < rawq[j].id

(* A timestamp is under way, waits or is printed, once.                    *)
StampsOnce ==
  /\ \A i, j \in 1..Len(errq) : errq[i] = errq[j] => i = j
  /\ \A i \in 1..Len(errq) : errq[i] \notin owed
  /\ \A i \in 1..Len(txlog) :
       /\ txlog[i].ts \notin owed
       /\ \A j \in 1..Len(errq) : txlog[i].ts # errq[j]

(* As long as every timestamp was in time, none is left over: the one of   *)
(* the packet in hand is the only one.                                     *)
AllInTime == StampsSent /\ \A i \in 1..Len(txlog) : txlog[i].own

NoneLeftOver ==
  AllInTime =>
    \/ pc # "stamp" /\ errq = <<>> /\ owed = {}
    \/ pc = "stamp" /\ errq = <<buf>> /\ owed = {}
    \/ pc = "stamp" /\ errq = <<>> /\ owed = {buf}

(* The room for control messages is gone with the first packet without one.*)
RoomKnown == room <=> \A i \in 1..Len(rxlog) : rxlog[i].own # 0

(* The packet of the tap that this round lets go first.                    *)
Turns ==
  passed <= (IF pc \in {"send", "stamp", "raw"} /\ "raw" \in revents THEN 1 ELSE 0)
              + nfail + Skipped

TapSide == TapWaits /\ TapInHand /\ PastAreBehind /\ Accounted /\ Increasing(wire)
RawSide == RawWaits /\ RawInHand /\ HostIsBehind /\ Increasing(host)
Stamps  == StampsOnce /\ NoneLeftOver /\ TxStampSound
RxRoom  == RoomKnown /\ RxStampPrinted

IInv ==
  /\ TypeOK /\ LogType /\ InputThere /\ Fresh
  /\ TapSide /\ RawSide /\ Stamps /\ RxRoom /\ Turns

USE DEF queueVars, outVars, countVars

---------------------------------------------------------------------------
(* Sequences, element by element: one is added at the end, ...             *)
LEMMA AppendAt ==
  ASSUME NEW S, NEW s \in Seq(S), NEW e \in S, NEW t, t = Append(s, e)
  PROVE  /\ t \in Seq(S) /\ Len(s) \in Nat /\ Len(t) = Len(s) + 1
         /\ \A i \in 1..Len(t) : t[i] = IF i = Len(s) + 1 THEN e ELSE s[i]
         /\ \A i \in 1..Len(t) : i # Len(s) + 1 => i \in 1..Len(s)
         /\ \A i \in 1..Len(s) : i \in 1..Len(t) /\ t[i] = s[i]
         /\ Len(t) \in 1..Len(t) /\ t[Len(t)] = e
  OBVIOUS

(* ... or taken from the front.                                            *)
LEMMA TailAt ==
  ASSUME NEW S, NEW s \in Seq(S), s # <<>>
  PROVE  /\ Head(s) = s[1] /\ s[1] \in S /\ 1 \in 1..Len(s)
         /\ Tail(s) \in Seq(S) /\ Len(s) \in Nat /\ Len(Tail(s)) = Len(s) - 1
         /\ \A i \in 1..Len(Tail(s)) : i + 1 \in 1..Len(s) /\ 1 < i + 1 /\ Tail(s)[i] = s[i + 1]
         /\ \A i \in 1..Len(s) : i # 1 => i - 1 \in 1..Len(Tail(s)) /\ Tail(s)[i - 1] = s[i]
  OBVIOUS

(* An element is an element.                                               *)
LEMMA ElementsOf ==
  ASSUME NEW S, NEW s \in Seq(S)
  PROVE  \A i \in 1..Len(s) : s[i] \in S
  OBVIOUS

---------------------------------------------------------------------------
(* What a step keeps by leaving it alone: the packets of the tap, ...      *)
LEMMA TapSideSame ==
  ASSUME TapSide, UNCHANGED <<tapq, wire, lost, owed, errq, txlog, ntap>>,
         \/ pc # "send" /\ pc' \notin {"send", "stamp"}
         \/ UNCHANGED <<pc, buf>>
  PROVE  TapSide'
<1> USE DEF TapSide
<1>1. \A k : Past(k) => Past(k)'
  BY DEF Past
<1>2. PastAreBehind'
  BY <1>1 DEF PastAreBehind
<1> QED
  BY <1>2 DEF TapWaits, TapInHand, Accounted, Increasing

(* ... the packets received, ...                                           *)
LEMMA RawSideSame ==
  ASSUME RawSide, UNCHANGED <<rawq, host, nraw>>, pc' # "write" \/ UNCHANGED <<pc, buf>>
  PROVE  RawSide'
  BY DEF RawSide, RawWaits, RawInHand, HostIsBehind, Increasing

(* ... the timestamps of sent packets, ...                                 *)
LEMMA StampsSame ==
  ASSUME Stamps, UNCHANGED <<prog, hwOn, errq, owed, txlog>>,
         (pc # "stamp" /\ pc' # "stamp") \/ UNCHANGED <<pc, buf>>
  PROVE  Stamps'
  BY DEF Stamps, StampsOnce, NoneLeftOver, AllInTime, TxStampSound, StampsSent

(* ... and those of received ones.                                         *)
LEMMA RxRoomSame ==
  ASSUME RxRoom, UNCHANGED <<room, rxlog>>
  PROVE  RxRoom'
  BY DEF RxRoom, RoomKnown, RxStampPrinted

(* The number of packets that were given up.                               *)
LEMMA LostCount ==
  ASSUME TypeOK
  PROVE  IsFiniteSet(lost) /\ Cardinality(lost) \in Nat /\ Skipped \in Nat
<1>1. IsFiniteSet(1..MaxTap)
  BY BoundsAssumption, FS_Interval
<1>2. IsFiniteSet(lost) /\ Cardinality(lost) \in Nat
  BY <1>1, FS_Subset, FS_CardinalityType DEF TypeOK
<1> QED
  BY <1>2 DEF Skipped

(* It does not change when no packet is given up.                          *)
LEMMA SkippedSame ==
  ASSUME UNCHANGED <<prog, lost>>
  PROVE  Skipped' = Skipped
  BY DEF Skipped

---------------------------------------------------------------------------
(* The descriptors are opened, or what is taken for one.                   *)
LEMMA StartKeeps ==
  ASSUME IInv, Start
  PROVE  IInv'
<1> USE DEF IInv
<1>1. /\ pc = "start" /\ pc' \in {"exit", "poll"} /\ rawFd' \in BOOLEAN /\ hwOn' \in BOOLEAN
      /\ UNCHANGED <<prog, revents, buf, room, tapq, rawq, errq, owed, wire, host, txlog>>
      /\ UNCHANGED <<rxlog, ntap, nraw, nfail, lost, passed>>
  BY DEF Start, tap_alloc_fails, raw_alloc, raw_alloc_errno, hwtstamp_config_set, TypeOK
<1>2. TypeOK' /\ LogType' /\ InputThere' /\ Fresh'
  BY <1>1 DEF TypeOK, Pc, LogType, InputThere, Fresh
<1>3. TapSide' /\ RawSide' /\ RxRoom'
  BY <1>1, TapSideSame, RawSideSame, RxRoomSame
<1>4. Stamps'
  <2>1. errq = <<>> /\ owed = {} /\ txlog = <<>> /\ Len(txlog) = 0 /\ Len(errq) = 0
    BY <1>1 DEF Fresh
  <2> QED
    BY <1>1, <2>1 DEF Stamps, StampsOnce, NoneLeftOver, TxStampSound
<1>5. Turns'
  BY <1>1, SkippedSame DEF Turns
<1> QED
  BY <1>2, <1>3, <1>4, <1>5

(* poll() returns.                                                         *)
LEMMA PollKeeps ==
  ASSUME IInv, Poll
  PROVE  IInv'
<1> USE DEF IInv
<1>1. /\ pc = "poll" /\ pc' = "tap"
      /\ UNCHANGED <<prog, rawFd, hwOn, buf, room, tapq, rawq, errq, owed, wire, host, txlog>>
      /\ UNCHANGED <<rxlog, ntap, nraw, nfail, lost>>
  BY DEF Poll
<1>2. /\ revents' \subseteq {"tap", "raw"}
      /\ "tap" \in revents' => tapq # <<>>
      /\ "raw" \in revents' => rawq # <<>>
  BY DEF Poll, Polled, HasInput
<1>3. passed' \in Nat /\ passed' <= passed /\ passed \in Nat
  BY DEF Poll, TypeOK
<1>4. TypeOK' /\ LogType' /\ InputThere' /\ Fresh'
  BY <1>1, <1>2, <1>3 DEF TypeOK, Pc, LogType, InputThere, Fresh
<1>5. TapSide' /\ RawSide' /\ Stamps' /\ RxRoom'
  BY <1>1, TapSideSame, RawSideSame, StampsSame, RxRoomSame
<1>6. Turns'
  <2>1. passed <= nfail + Skipped /\ nfail \in Nat /\ Skipped \in Nat
    BY <1>1, LostCount, BoundsAssumption DEF Turns, TypeOK
  <2> QED
    BY <1>1, <1>3, <2>1, SkippedSame DEF Turns
<1> QED
  BY <1>4, <1>5, <1>6

(* Nothing is read from the tap.                                           *)
LEMMA SkipTapKeeps ==
  ASSUME IInv, SkipTap
  PROVE  IInv'
<1> USE DEF IInv
<1>1. /\ pc = "tap" /\ pc' = "raw"
      /\ UNCHANGED <<prog, rawFd, hwOn, revents, buf, room, tapq, rawq, errq, owed, wire>>
      /\ UNCHANGED <<host, txlog, rxlog, ntap, nraw, lost, passed>>
  BY DEF SkipTap, AfterTap
<1>2. nfail \in Nat /\ nfail' \in 0..MaxFails /\ nfail <= nfail'
  BY BoundsAssumption DEF SkipTap, Fails, TypeOK
<1>3. TypeOK' /\ LogType' /\ InputThere' /\ Fresh'
  BY <1>1, <1>2 DEF TypeOK, Pc, LogType, InputThere, Fresh
<1>4. TapSide' /\ RawSide' /\ Stamps' /\ RxRoom'
  BY <1>1, TapSideSame, RawSideSame, StampsSame, RxRoomSame
<1>5. Turns'
  <2>1. passed \in Nat /\ passed <= nfail + Skipped /\ Skipped \in Nat
    BY <1>1, LostCount DEF Turns, TypeOK
  <2>2. Skipped' = Skipped
    BY <1>1, SkippedSame
  <2>5. nfail' \in Nat /\ nfail \in Nat /\ nfail <= nfail'
    BY <1>2, BoundsAssumption
  <2> QED
    BY <1>1, <1>2, <2>1, <2>2, <2>5 DEF Turns, Skipped
<1> QED
  BY <1>3, <1>4, <1>5

(* A packet is read from the tap: the oldest, which is now in hand or is   *)
(* given up.                                                               *)
LEMMA ReadTapKeeps ==
  ASSUME IInv, ReadTap
  PROVE  IInv'
<1> USE DEF IInv
<1>1. /\ pc = "tap" /\ "tap" \in revents /\ tapq # <<>>
      /\ UNCHANGED <<prog, rawFd, hwOn, revents, room, rawq, errq, owed, wire, host, txlog>>
      /\ UNCHANGED <<rxlog, ntap, nraw, nfail>>
  BY DEF ReadTap, InputThere
<1>2. tapq \in Seq(TapPkt)
  BY DEF TypeOK, TapPkt
<1>3. /\ Head(tapq) = tapq[1] /\ tapq[1] \in TapPkt /\ 1 \in 1..Len(tapq)
      /\ Tail(tapq) \in Seq(TapPkt)
      /\ \A i \in 1..Len(Tail(tapq)) :
           i + 1 \in 1..Len(tapq) /\ 1 < i + 1 /\ Tail(tapq)[i] = tapq[i + 1]
      /\ \A i \in 1..Len(tapq) :
           i # 1 => i - 1 \in 1..Len(Tail(tapq)) /\ Tail(tapq)[i - 1] = tapq[i]
  BY <1>1, <1>2, TailAt
<1>k. PICK k \in 1..MaxTap : k = tapq[1].id
  BY <1>3 DEF TapPkt
<1>4. /\ buf' = k /\ tapq' = Tail(tapq)
      /\ \/ pc' = "send" /\ lost' = lost
         \/ pc' = "poll" /\ lost' = lost \cup {k}
      /\ passed' = IF "raw" \in revents THEN passed + 1 ELSE passed
  BY <1>3, <1>k DEF ReadTap, TakeTap
<1>5. k \in 1..ntap /\ passed \in Nat
  BY <1>3, <1>k DEF TapWaits, TapSide, TypeOK
<1>6. TypeOK' /\ LogType' /\ InputThere' /\ Fresh'
  <2>1. tapq' \in Seq([id : 1..MaxTap, v4 : BOOLEAN]) /\ buf' \in Nat /\ passed' \in Nat
    BY <1>3, <1>4, <1>5 DEF TapPkt
  <2>2. lost' \subseteq 1..MaxTap /\ pc' \in {"send", "poll"}
    BY <1>4, <1>5 DEF TypeOK
  <2>3. TypeOK'
    BY <1>1, <2>1, <2>2 DEF TypeOK, Pc
  <2> QED
    BY <1>1, <2>2, <2>3 DEF LogType, InputThere, Fresh
<1>7. \A i \in 1..Len(tapq') : k < tapq'[i].id /\ tapq'[i].id \in 1..ntap
  BY <1>3, <1>4, <1>k DEF TapSide, TapWaits
<1>8. \A j : Past(j) => Past(j)' /\ j < k
  <2> SUFFICES ASSUME NEW j, Past(j) PROVE Past(j)' /\ j < k
    OBVIOUS
  <2>1. j \in 1..ntap /\ j < k
    BY <1>3, <1>k DEF Past
  <2>2. \A i \in 1..Len(tapq') : j < tapq'[i].id
    BY <1>3, <1>4 DEF Past
  <2> QED
    BY <1>1, <1>4, <2>1, <2>2 DEF Past
<1>9. TapSide'
  <2>1. TapWaits'
    <3>1. \A i, j \in 1..Len(tapq') : i < j => tapq'[i].id < tapq'[j].id
      <4> SUFFICES ASSUME NEW i \in 1..Len(tapq'), NEW j \in 1..Len(tapq'), i < j
                   PROVE  tapq'[i].id < tapq'[j].id
        OBVIOUS
      <4>1. /\ tapq'[i] = tapq[i + 1] /\ tapq'[j] = tapq[j + 1] /\ i + 1 < j + 1
            /\ i + 1 \in 1..Len(tapq) /\ j + 1 \in 1..Len(tapq)
        BY <1>3, <1>4
      <4> QED
        BY <4>1 DEF TapSide, TapWaits
    <3> QED
      BY <1>1, <1>7, <3>1 DEF TapWaits
  <2>2. TapInHand'
    BY <1>1, <1>4, <1>5, <1>7 DEF TapInHand
  <2>3. PastAreBehind'
    <3>1. pc' = "poll" => Past(k)'
      BY <1>1, <1>5, <1>7 DEF Past
    <3> QED
      BY <1>1, <1>4, <1>8, <3>1 DEF TapSide, PastAreBehind
  <2>4. Accounted'
    <3> SUFFICES ASSUME NEW j \in 1..ntap
                 PROVE  \/ \E i \in 1..Len(tapq') : tapq'[i].id = j
                        \/ \E i \in 1..Len(wire) : wire[i] = j
                        \/ j \in lost'
                        \/ pc' = "send" /\ buf' = j
      BY <1>1 DEF Accounted
    <3>1. CASE \E i \in 1..Len(tapq) : tapq[i].id = j
      <4>1. PICK i \in 1..Len(tapq) : tapq[i].id = j
        BY <3>1
      <4>2. CASE i = 1
        BY <1>4, <1>k, <4>1, <4>2
      <4>3. CASE i # 1
        BY <1>3, <1>4, <4>1, <4>3
      <4> QED
        BY <4>2, <4>3
    <3>2. CASE j \in lost \/ \E i \in 1..Len(wire) : wire[i] = j
      BY <1>4, <3>2
    <3> QED
      BY <1>1, <3>1, <3>2 DEF TapSide, Accounted
  <2> QED
    BY <1>1, <2>1, <2>2, <2>3, <2>4 DEF TapSide, Increasing
<1>10. RawSide' /\ Stamps' /\ RxRoom'
  <2>1. pc' \notin {"write", "stamp"}
    BY <1>4
  <2> QED
    BY <1>1, <2>1, RawSideSame, StampsSame, RxRoomSame
<1>11. Turns'
  <2>1. passed <= nfail + Skipped /\ Skipped \in Nat /\ nfail \in Nat
    BY <1>1, LostCount DEF Turns, TypeOK
  <2>2. CASE pc' = "send"
    BY <1>1, <1>4, <1>5, <2>1, <2>2, SkippedSame DEF Turns
  <2>3. CASE pc' = "poll"
    <3>1. lost' = lost \cup {k}
      BY <1>4, <2>3
    <3>2. k \notin lost
      BY <1>5, <1>8 DEF TapSide, PastAreBehind
    <3>3. Cardinality(lost') = Cardinality(lost) + 1
      BY <3>1, <3>2, LostCount, FS_AddElement
    <3>4. prog = "tun"
      BY <2>3 DEF ReadTap, Forwards
    <3>5. Skipped' = Skipped + 1
      BY <1>1, <3>3, <3>4 DEF Skipped
    <3> QED
      BY <1>1, <1>4, <1>5, <2>1, <2>3, <3>5 DEF Turns
  <2> QED
    BY <1>4, <2>2, <2>3
<1> QED
  BY <1>6, <1>9, <1>10, <1>11

(* The packet in hand is sent.                                             *)
LEMMA SendKeeps ==
  ASSUME IInv, Send
  PROVE  IInv'
<1> USE DEF IInv
<1>1. /\ pc = "send" /\ pc' = "stamp" /\ wire' = Append(wire, buf)
      /\ UNCHANGED <<prog, rawFd, hwOn, revents, buf, room, tapq, rawq, errq, host, txlog>>
      /\ UNCHANGED <<rxlog, ntap, nraw, nfail, lost, passed>>
      /\ owed' = IF StampsSent THEN owed \cup {buf} ELSE owed
  BY DEF Send
<1>2. /\ buf \in 1..ntap /\ buf \in 1..MaxTap
      /\ \A i \in 1..Len(tapq) : buf < tapq[i].id
  BY <1>1, BoundsAssumption DEF TapSide, TapInHand, TypeOK
<1>3. wire \in Seq(1..MaxTap)
  BY DEF TypeOK
<1>4. /\ wire' \in Seq(1..MaxTap) /\ Len(wire) \in Nat /\ Len(wire') = Len(wire) + 1
      /\ \A i \in 1..Len(wire') : wire'[i] = IF i = Len(wire) + 1 THEN buf ELSE wire[i]
      /\ \A i \in 1..Len(wire') : i # Len(wire) + 1 => i \in 1..Len(wire)
      /\ \A i \in 1..Len(wire) : i \in 1..Len(wire') /\ wire'[i] = wire[i]
      /\ Len(wire') \in 1..Len(wire') /\ wire'[Len(wire')] = buf
  BY <1>1, <1>2, <1>3, AppendAt
<1>5. TypeOK' /\ LogType' /\ InputThere' /\ Fresh'
  <2>1. owed' \subseteq 1..MaxTap
    BY <1>1, <1>2 DEF TypeOK
  <2>2. TypeOK'
    BY <1>1, <1>4, <2>1 DEF TypeOK, Pc
  <2> QED
    BY <1>1, <2>2 DEF LogType, InputThere, Fresh
<1>6. Past(buf)' /\ \A k : Past(k) => Past(k)' /\ k < buf
  BY <1>1, <1>2 DEF Past
<1>7. TapSide'
  <2>1. TapWaits' /\ TapInHand'
    BY <1>1, <1>2 DEF TapSide, TapWaits, TapInHand
  <2>2. PastAreBehind'
    <3>1. (\A i \in 1..Len(wire) : Past(wire[i]))'
      <4> SUFFICES ASSUME NEW i \in 1..Len(wire') PROVE Past(wire[i])'
        OBVIOUS
      <4>1. CASE i = Len(wire) + 1
        <5>1. wire'[i] = buf
          BY <1>4, <4>1
        <5> QED
          BY <1>1, <1>2, <5>1 DEF Past
      <4>2. CASE i # Len(wire) + 1
        <5>1. i \in 1..Len(wire) /\ wire'[i] = wire[i] /\ Past(wire[i])
          BY <1>4, <4>2 DEF TapSide, PastAreBehind
        <5>2. PICK k : k = wire[i]
          OBVIOUS
        <5>3. Past(k)'
          BY <1>6, <5>1, <5>2
        <5> QED
          BY <5>1, <5>2, <5>3 DEF Past
      <4> QED
        BY <4>1, <4>2
    <3>2. \A k \in (lost \cup owed)' : Past(k)'
      BY <1>1, <1>6 DEF TapSide, PastAreBehind
    <3> QED
      BY <1>1, <1>6, <3>1, <3>2 DEF TapSide, PastAreBehind
  <2>3. Accounted'
    <3> SUFFICES ASSUME NEW j \in 1..ntap
                 PROVE  \/ \E i \in 1..Len(tapq) : tapq[i].id = j
                        \/ \E i \in 1..Len(wire') : wire'[i] = j
                        \/ j \in lost
      BY <1>1 DEF Accounted
    <3>1. CASE j = buf
      BY <1>4, <3>1
    <3>2. CASE \E i \in 1..Len(wire) : wire[i] = j
      BY <1>4, <3>2
    <3> QED
      BY <1>1, <3>1, <3>2 DEF TapSide, Accounted
  <2>4. Increasing(wire)'
    <3> SUFFICES ASSUME NEW i \in 1..Len(wire'), NEW j \in 1..Len(wire'), i < j
                 PROVE  wire'[i] < wire'[j]
      BY DEF Increasing
    <3>1. i \in 1..Len(wire) /\ wire'[i] = wire[i] /\ wire[i] < buf
      BY <1>4, <1>6 DEF TapSide, PastAreBehind
    <3>2. CASE j = Len(wire) + 1
      BY <1>4, <3>1, <3>2
    <3>3. CASE j # Len(wire) + 1
      BY <1>4, <3>1, <3>3 DEF TapSide, Increasing
    <3> QED
      BY <3>2, <3>3
  <2> QED
    BY <2>1, <2>2, <2>3, <2>4 DEF TapSide
<1>8. RawSide' /\ RxRoom'
  BY <1>1, RawSideSame, RxRoomSame
<1>9. Stamps'
  <2>1. /\ \A i \in 1..Len(errq) : errq[i] # buf
        /\ \A i \in 1..Len(txlog) : txlog[i].ts # buf
    BY <1>2, <1>6 DEF TapSide, PastAreBehind
  <2>2. StampsOnce'
    BY <1>1, <2>1 DEF Stamps, StampsOnce
  <2>3. NoneLeftOver'
    BY <1>1 DEF Stamps, NoneLeftOver, AllInTime, StampsSent
  <2>4. TxStampSound'
    BY <1>1 DEF Stamps, TxStampSound, StampsSent
  <2> QED
    BY <2>2, <2>3, <2>4 DEF Stamps
<1>10. Turns'
  BY <1>1, SkippedSame DEF Turns
<1> QED
  BY <1>5, <1>7, <1>8, <1>9, <1>10

(* sendto() fails, and the packet in hand is given up.                     *)
LEMMA SendFailsKeeps ==
  ASSUME IInv, SendFails
  PROVE  IInv'
<1> USE DEF IInv
<1>1. /\ pc = "send" /\ pc' = "raw" /\ lost' = lost \cup {buf}
      /\ UNCHANGED <<prog, rawFd, hwOn, revents, buf, room, tapq, rawq, errq, owed, wire>>
      /\ UNCHANGED <<host, txlog, rxlog, ntap, nraw, passed>>
  BY DEF SendFails, AfterTap
<1>2. nfail \in Nat /\ nfail' \in 0..MaxFails /\ nfail <= nfail'
  BY BoundsAssumption DEF SendFails, Fails, TypeOK
<1>3. /\ buf \in 1..ntap /\ buf \in 1..MaxTap
      /\ \A i \in 1..Len(tapq) : buf < tapq[i].id
  BY <1>1, BoundsAssumption DEF TapSide, TapInHand, TypeOK
<1>4. TypeOK' /\ LogType' /\ InputThere' /\ Fresh'
  <2>1. lost' \subseteq 1..MaxTap
    BY <1>1, <1>3 DEF TypeOK
  <2>2. TypeOK'
    BY <1>1, <1>2, <2>1 DEF TypeOK, Pc
  <2> QED
    BY <1>1, <2>2 DEF LogType, InputThere, Fresh
<1>5. Past(buf)' /\ \A k : Past(k) => Past(k)' /\ k < buf
  BY <1>1, <1>3 DEF Past
<1>6. TapSide'
  <2>1. TapWaits' /\ TapInHand' /\ Accounted' /\ Increasing(wire)'
    BY <1>1 DEF TapSide, TapWaits, TapInHand, Accounted, Increasing
  <2>2. PastAreBehind'
    BY <1>1, <1>5 DEF TapSide, PastAreBehind
  <2> QED
    BY <2>1, <2>2 DEF TapSide
<1>7. RawSide' /\ Stamps' /\ RxRoom'
  BY <1>1, RawSideSame, StampsSame, RxRoomSame
<1>8. Turns'
  <2>1. buf \notin lost
    BY <1>3, <1>5 DEF TapSide, PastAreBehind
  <2>2. Cardinality(lost) \in Nat /\ Cardinality(lost') = Cardinality(lost) + 1
    BY <1>1, <2>1, LostCount, FS_AddElement
  <2>3. /\ passed \in Nat /\ Skipped \in Nat
        /\ passed <= (IF "raw" \in revents THEN 1 ELSE 0) + nfail + Skipped
    BY <1>1, LostCount DEF Turns, TypeOK
  <2>4. Skipped' \in Nat /\ Skipped <= Skipped'
    BY <1>1, <2>2 DEF Skipped
  <2>5. nfail' \in Nat /\ nfail \in Nat /\ nfail <= nfail'
    BY <1>2, BoundsAssumption
  <2> QED
    BY <1>1, <1>2, <2>3, <2>4, <2>5 DEF Turns, Skipped
<1> QED
  BY <1>4, <1>6, <1>7, <1>8

(* The line of the packet just sent, with the timestamp at the front of the*)
(* error queue.                                                            *)
LEMMA PrintTxKeeps ==
  ASSUME IInv, PrintTx
  PROVE  IInv'
<1> USE DEF IInv
<1> DEFINE line == [pkt |-> buf, ts |-> get_tstamp, own |-> buf \notin owed]
<1>1. /\ pc = "stamp" /\ pc' = "raw" /\ txlog' = Append(txlog, line)
      /\ errq' = TakeStamp(errq)
      /\ UNCHANGED <<prog, rawFd, hwOn, revents, buf, room, tapq, rawq, owed, wire, host>>
      /\ UNCHANGED <<rxlog, ntap, nraw, nfail, lost, passed>>
  BY DEF PrintTx, AfterTap
<1>2. buf \in 1..ntap /\ buf \in 1..MaxTap
  BY <1>1, BoundsAssumption DEF TapSide, TapInHand, TypeOK
<1>3. errq \in Seq(1..MaxTap)
  BY DEF TypeOK
<1>4. PICK ts \in 0..MaxTap : ts = get_tstamp
  BY <1>3, BoundsAssumption DEF get_tstamp
<1>5. /\ errq' \in Seq(1..MaxTap)
      /\ ts # 0 => \E i \in 1..Len(errq) : errq[i] = ts
      /\ \A i \in 1..Len(errq') : \E j \in 1..Len(errq) : errq'[i] = errq[j]
      /\ ts # 0 => \A i \in 1..Len(errq') : errq'[i] # ts
      /\ \A i, j \in 1..Len(errq') : errq'[i] = errq'[j] => i = j
  <2>1. CASE errq = <<>>
    BY <1>1, <1>3, <1>4, <2>1 DEF TakeStamp, get_tstamp
  <2>2. CASE errq # <<>>
    <3>1. /\ Head(errq) = errq[1] /\ errq[1] \in 1..MaxTap /\ 1 \in 1..Len(errq)
          /\ Tail(errq) \in Seq(1..MaxTap)
          /\ \A i \in 1..Len(Tail(errq)) :
               i + 1 \in 1..Len(errq) /\ 1 < i + 1 /\ Tail(errq)[i] = errq[i + 1]
      BY <1>3, <2>2, TailAt
    <3>2. errq' = Tail(errq) /\ ts = errq[1]
      BY <1>1, <1>4, <2>2, <3>1 DEF TakeStamp, get_tstamp
    <3>3. \A i, j \in 1..Len(errq) : errq[i] = errq[j] => i = j
      BY DEF Stamps, StampsOnce
    <3>4. \A i \in 1..Len(errq') : errq'[i] # ts
      BY <3>1, <3>2, <3>3
    <3>5. \A i, j \in 1..Len(errq') : errq'[i] = errq'[j] => i = j
      <4> SUFFICES ASSUME NEW i \in 1..Len(errq'), NEW j \in 1..Len(errq'), errq'[i] = errq'[j]
                   PROVE  i = j
        OBVIOUS
      <4>1. i + 1 = j + 1
        BY <3>1, <3>2, <3>3
      <4> QED
        BY <4>1
    <3> QED
      BY <3>1, <3>2, <3>4, <3>5
  <2> QED
    BY <2>1, <2>2
<1>6. line \in TxLine /\ line.ts = ts /\ line.pkt = buf /\ line.own = (buf \notin owed)
  BY <1>2, <1>4 DEF TxLine
<1>7. txlog \in Seq(TxLine)
  BY DEF LogType
<1>8. /\ txlog' \in Seq(TxLine) /\ Len(txlog) \in Nat /\ Len(txlog') = Len(txlog) + 1
      /\ \A i \in 1..Len(txlog') : txlog'[i] = IF i = Len(txlog) + 1 THEN line ELSE txlog[i]
      /\ \A i \in 1..Len(txlog') : i # Len(txlog) + 1 => i \in 1..Len(txlog)
      /\ \A i \in 1..Len(txlog) : i \in 1..Len(txlog') /\ txlog'[i] = txlog[i]
      /\ Len(txlog') \in 1..Len(txlog') /\ txlog'[Len(txlog')] = line
  BY <1>1, <1>6, <1>7, AppendAt
<1> HIDE DEF line
<1>9. TypeOK' /\ LogType' /\ InputThere' /\ Fresh'
  <2>1. TypeOK'
    BY <1>1, <1>5 DEF TypeOK, Pc
  <2> QED
    BY <1>1, <1>8, <2>1 DEF LogType, InputThere, Fresh
<1>10. ts # 0 => Past(ts) /\ ts <= buf
  BY <1>1, <1>5 DEF TapSide, PastAreBehind, Past
<1>11. TapSide'
  <2>1. \A k : Past(k) => Past(k)'
    BY <1>1 DEF Past
  <2>2. TapWaits' /\ TapInHand' /\ Accounted' /\ Increasing(wire)'
    BY <1>1 DEF TapSide, TapWaits, TapInHand, Accounted, Increasing
  <2>3. \A i \in 1..Len(errq') : \A k : k = errq'[i] => Past(k)'
    BY <1>5, <2>1 DEF TapSide, PastAreBehind
  <2>4. \A i \in 1..Len(txlog') : \A k : k = txlog'[i].ts /\ k # 0 => Past(k)'
    BY <1>6, <1>8, <1>10, <2>1 DEF TapSide, PastAreBehind
  <2>5. PastAreBehind'
    BY <1>1, <2>1, <2>3, <2>4 DEF TapSide, PastAreBehind
  <2> QED
    BY <2>2, <2>5 DEF TapSide
<1>12. RawSide' /\ RxRoom'
  BY <1>1, RawSideSame, RxRoomSame
<1>13. StampsOnce'
  <2>1. ts \notin owed
    <3>1. CASE ts = 0
      BY <3>1 DEF TypeOK
    <3>2. CASE ts # 0
      BY <1>5, <3>2 DEF Stamps, StampsOnce
    <3> QED
      BY <3>1, <3>2
  <2>2. \A i \in 1..Len(errq') : errq'[i] # ts /\ errq'[i] \notin owed
    <3>1. \A i \in 1..Len(errq') : errq'[i] # 0
      <4>1. errq' \in Seq(1..MaxTap)
        BY <1>5
      <4>2. \A i \in 1..Len(errq') : errq'[i] \in 1..MaxTap
        BY <4>1, ElementsOf
      <4> QED
        BY <4>2, BoundsAssumption
    <3> QED
      BY <1>5, <3>1 DEF Stamps, StampsOnce
  <2>3. \A i \in 1..Len(txlog') :
          /\ txlog'[i].ts \notin owed
          /\ \A j \in 1..Len(errq') : txlog'[i].ts # errq'[j]
    BY <1>5, <1>6, <1>8, <2>1, <2>2 DEF Stamps, StampsOnce
  <2> QED
    BY <1>1, <1>5, <2>2, <2>3 DEF StampsOnce
<1>14. AllInTime' => AllInTime /\ buf \notin owed
  BY <1>1, <1>6, <1>8 DEF AllInTime, StampsSent
<1>15. AllInTime' => ts = buf /\ errq' = <<>> /\ owed = {}
  <2> SUFFICES ASSUME AllInTime' PROVE ts = buf /\ errq' = <<>> /\ owed = {}
    OBVIOUS
  <2>1. errq = <<buf>> /\ owed = {}
    BY <1>1, <1>14 DEF Stamps, NoneLeftOver
  <2> QED
    BY <1>1, <1>4, <2>1 DEF TakeStamp, get_tstamp
<1>16. NoneLeftOver'
  BY <1>1, <1>15 DEF NoneLeftOver
<1>17. TxStampSound'
  <2>1. ASSUME NEW i \in 1..Len(txlog'), NEW j \in 1..Len(txlog'),
               txlog'[i].ts = txlog'[j].ts, txlog'[i].ts # 0
        PROVE  i = j
    <3>1. \A m \in 1..Len(txlog) : ts # 0 => txlog[m].ts # ts
      BY <1>5 DEF Stamps, StampsOnce
    <3> QED
      BY <1>6, <1>8, <2>1, <3>1 DEF Stamps, TxStampSound
  <2>2. ASSUME NEW i \in 1..Len(txlog')
        PROVE  txlog'[i].ts <= txlog'[i].pkt
    BY <1>2, <1>6, <1>8, <1>10 DEF Stamps, TxStampSound
  <2>3. ASSUME NEW i \in 1..Len(txlog'), StampsSent', \A j \in 1..i : txlog'[j].own
        PROVE  txlog'[i].ts = txlog'[i].pkt
    <3>1. CASE i = Len(txlog) + 1
      <4>1. AllInTime'
        BY <1>8, <2>3, <3>1 DEF AllInTime
      <4> QED
        BY <1>6, <1>8, <1>15, <3>1, <4>1
    <3>2. CASE i # Len(txlog) + 1
      <4>1. i \in 1..Len(txlog) /\ txlog'[i] = txlog[i]
        BY <1>8, <3>2
      <4>2. StampsSent /\ \A j \in 1..i : txlog[j].own
        <5>1. \A j \in 1..i : j \in 1..Len(txlog)
          BY <1>8, <4>1
        <5> QED
          BY <1>1, <1>8, <2>3, <5>1 DEF StampsSent
      <4> QED
        BY <4>1, <4>2 DEF Stamps, TxStampSound
    <3> QED
      BY <3>1, <3>2
  <2> QED
    BY <2>1, <2>2, <2>3 DEF TxStampSound
<1>18. Turns'
  BY <1>1, SkippedSame DEF Turns
<1> QED
  BY <1>9, <1>11, <1>12, <1>13, <1>16, <1>17, <1>18 DEF Stamps

(* Nothing is received.                                                    *)
LEMMA SkipRawKeeps ==
  ASSUME IInv, SkipRaw
  PROVE  IInv'
<1> USE DEF IInv
<1>1. /\ pc = "raw" /\ pc' = "poll"
      /\ UNCHANGED <<prog, rawFd, hwOn, revents, buf, room, tapq, rawq, errq, owed, wire>>
      /\ UNCHANGED <<host, txlog, rxlog, ntap, nraw, lost, passed>>
  BY DEF SkipRaw, AfterRecvError
<1>2. /\ nfail \in Nat /\ nfail' \in 0..MaxFails /\ nfail <= nfail'
      /\ "raw" \in revents => nfail' = nfail + 1
  BY BoundsAssumption DEF SkipRaw, Fails, TypeOK
<1>3. TypeOK' /\ LogType' /\ InputThere' /\ Fresh'
  BY <1>1, <1>2 DEF TypeOK, Pc, LogType, InputThere, Fresh
<1>4. TapSide' /\ RawSide' /\ Stamps' /\ RxRoom'
  BY <1>1, TapSideSame, RawSideSame, StampsSame, RxRoomSame
<1>5. Turns'
  <2>1. /\ passed \in Nat /\ Skipped \in Nat
        /\ passed <= (IF "raw" \in revents THEN 1 ELSE 0) + nfail + Skipped
    BY <1>1, LostCount DEF Turns, TypeOK
  <2>2. Skipped' = Skipped
    BY <1>1, SkippedSame
  <2>5. nfail' \in Nat /\ nfail \in Nat /\ nfail <= nfail'
    BY <1>2, BoundsAssumption
  <2> QED
    BY <1>1, <1>2, <2>1, <2>2, <2>5 DEF Turns, Skipped
<1> QED
  BY <1>3, <1>4, <1>5

(* A packet is received, and its line printed.                             *)
LEMMA RecvRawKeeps ==
  ASSUME IInv, RecvRaw
  PROVE  IInv'
<1> USE DEF IInv
<1>1. /\ pc = "raw" /\ rawq # <<>> /\ pc' = "write" /\ passed' = 0
      /\ rawq' = Tail(rawq) /\ buf' = Head(rawq).id
      /\ UNCHANGED <<prog, rawFd, hwOn, revents, tapq, errq, owed, wire, host, txlog>>
      /\ UNCHANGED <<ntap, nraw, nfail, lost>>
  BY DEF RecvRaw, InputThere
<1>2. rawq \in Seq(RawPkt)
  BY DEF TypeOK, RawPkt
<1>3. /\ Head(rawq) = rawq[1] /\ rawq[1] \in RawPkt /\ 1 \in 1..Len(rawq)
      /\ Tail(rawq) \in Seq(RawPkt)
      /\ \A i \in 1..Len(Tail(rawq)) :
           i + 1 \in 1..Len(rawq) /\ 1 < i + 1 /\ Tail(rawq)[i] = rawq[i + 1]
  BY <1>1, <1>2, TailAt
<1>4. PICK k \in 1..MaxRaw, ts \in 0..MaxRaw : k = rawq[1].id /\ ts = rawq[1].ts
  BY <1>3 DEF RawPkt
<1>5. buf' = k /\ k \in 1..nraw
  BY <1>1, <1>3, <1>4 DEF RawSide, RawWaits
<1> DEFINE line == [pkt |-> k, own |-> ts, ts |-> IF room THEN ts ELSE 0]
<1>6. rxlog' = Append(rxlog, line) /\ room' = (room /\ ts # 0)
  BY <1>3, <1>4 DEF RecvRaw, RoomAfter
<1>7. line \in RxLine /\ line.own = ts /\ (room => line.ts = ts) /\ rxlog \in Seq(RxLine)
  BY <1>4, BoundsAssumption DEF RxLine, LogType
<1>8. /\ rxlog' \in Seq(RxLine) /\ Len(rxlog) \in Nat /\ Len(rxlog') = Len(rxlog) + 1
      /\ \A i \in 1..Len(rxlog') : rxlog'[i] = IF i = Len(rxlog) + 1 THEN line ELSE rxlog[i]
      /\ \A i \in 1..Len(rxlog') : i # Len(rxlog) + 1 => i \in 1..Len(rxlog)
      /\ \A i \in 1..Len(rxlog) : i \in 1..Len(rxlog') /\ rxlog'[i] = rxlog[i]
      /\ Len(rxlog') \in 1..Len(rxlog') /\ rxlog'[Len(rxlog')] = line
  BY <1>6, <1>7, AppendAt
<1> HIDE DEF line
<1>9. TypeOK' /\ LogType' /\ InputThere' /\ Fresh'
  <2>1. rawq' \in Seq([id : 1..MaxRaw, ts : 0..MaxRaw])
    BY <1>1, <1>3 DEF RawPkt
  <2>2. room' \in BOOLEAN /\ buf' \in Nat /\ passed' \in Nat
    BY <1>1, <1>4, <1>5, <1>6 DEF TypeOK
  <2>3. TypeOK'
    BY <1>1, <2>1, <2>2 DEF TypeOK, Pc
  <2> QED
    BY <1>1, <1>8, <2>3 DEF LogType, InputThere, Fresh
<1>10. TapSide' /\ Stamps'
  BY <1>1, TapSideSame, StampsSame
<1>11. RawSide'
  <2>1. \A i, j \in 1..Len(rawq') : i < j => rawq'[i].id < rawq'[j].id
    <3> SUFFICES ASSUME NEW i \in 1..Len(rawq'), NEW j \in 1..Len(rawq'), i < j
                 PROVE  rawq'[i].id < rawq'[j].id
      OBVIOUS
    <3>1. /\ rawq'[i] = rawq[i + 1] /\ rawq'[j] = rawq[j + 1] /\ i + 1 < j + 1
          /\ i + 1 \in 1..Len(rawq) /\ j + 1 \in 1..Len(rawq)
      BY <1>1, <1>3
    <3> QED
      BY <3>1 DEF RawSide, RawWaits
  <2>2. \A i \in 1..Len(rawq') : k < rawq'[i].id /\ rawq'[i].id \in 1..nraw
    BY <1>1, <1>3, <1>4 DEF RawSide, RawWaits
  <2>3. \A i \in 1..Len(host) : host[i] < k
    BY <1>3, <1>4 DEF RawSide, HostIsBehind
  <2>4. HostIsBehind'
    BY <1>1, <1>3 DEF RawSide, HostIsBehind
  <2> QED
    BY <1>1, <1>5, <2>1, <2>2, <2>3, <2>4 DEF RawSide, RawWaits, RawInHand, Increasing
<1>12. RxRoom'
  <2>1. RoomKnown'
    BY <1>6, <1>7, <1>8 DEF RxRoom, RoomKnown
  <2>2. ASSUME NEW i \in 1..Len(rxlog'), \A j \in 1..(i - 1) : rxlog'[j].own # 0
        PROVE  rxlog'[i].ts = rxlog'[i].own
    <3>1. CASE i = Len(rxlog) + 1
      <4>1. \A j \in 1..Len(rxlog) : rxlog[j].own # 0
        BY <1>8, <2>2, <3>1
      <4> QED
        BY <1>7, <1>8, <3>1, <4>1 DEF RxRoom, RoomKnown
    <3>2. CASE i # Len(rxlog) + 1
      <4>1. i \in 1..Len(rxlog) /\ rxlog'[i] = rxlog[i]
        BY <1>8, <3>2
      <4>2. \A j \in 1..(i - 1) : j \in 1..Len(rxlog)
        BY <1>8, <4>1
      <4> QED
        BY <1>8, <2>2, <4>1, <4>2 DEF RxRoom, RxStampPrinted
    <3> QED
      BY <3>1, <3>2
  <2> QED
    BY <2>1, <2>2 DEF RxRoom, RxStampPrinted
<1>13. Turns'
  BY <1>1, SkippedSame, LostCount DEF Turns, TypeOK
<1> QED
  BY <1>9, <1>10, <1>11, <1>12, <1>13

(* The packet in hand is written to the tap, or write() fails.             *)
LEMMA WriteTapKeeps ==
  ASSUME IInv, WriteTap
  PROVE  IInv'
<1> USE DEF IInv
<1>1. /\ pc = "write" /\ pc' = "poll"
      /\ UNCHANGED <<prog, rawFd, hwOn, revents, buf, room, tapq, rawq, errq, owed, wire>>
      /\ UNCHANGED <<txlog, rxlog, ntap, nraw, lost, passed>>
      /\ host' = host \/ host' = Append(host, buf)
  BY DEF WriteTap
<1>2. nfail \in Nat /\ nfail' \in 0..MaxFails /\ nfail <= nfail'
  BY BoundsAssumption DEF WriteTap, Fails, TypeOK
<1>3. /\ buf \in 1..nraw /\ buf \in 1..MaxRaw /\ host \in Seq(1..MaxRaw)
      /\ \A i \in 1..Len(rawq) : buf < rawq[i].id
      /\ \A i \in 1..Len(host) : host[i] < buf
  BY <1>1, BoundsAssumption DEF RawSide, RawInHand, TypeOK
<1>4. RawSide' /\ host' \in Seq(1..MaxRaw)
  <2>1. CASE host' = host
    BY <1>1, <1>3, <2>1, RawSideSame
  <2>2. CASE host' = Append(host, buf)
    <3>1. /\ host' \in Seq(1..MaxRaw) /\ Len(host) \in Nat /\ Len(host') = Len(host) + 1
          /\ \A i \in 1..Len(host') : host'[i] = IF i = Len(host) + 1 THEN buf ELSE host[i]
          /\ \A i \in 1..Len(host') : i # Len(host) + 1 => i \in 1..Len(host)
      BY <1>3, <2>2, AppendAt
    <3>2. Increasing(host)'
      <4> SUFFICES ASSUME NEW i \in 1..Len(host'), NEW j \in 1..Len(host'), i < j
                   PROVE  host'[i] < host'[j]
        BY DEF Increasing
      <4>1. i \in 1..Len(host) /\ host'[i] = host[i] /\ host[i] < buf
        BY <1>3, <3>1
      <4>2. CASE j = Len(host) + 1
        BY <3>1, <4>1, <4>2
      <4>3. CASE j # Len(host) + 1
        BY <3>1, <4>1, <4>3 DEF RawSide, Increasing
      <4> QED
        BY <4>2, <4>3
    <3>3. HostIsBehind'
      BY <1>1, <1>3, <3>1 DEF RawSide, HostIsBehind
    <3> QED
      BY <1>1, <3>1, <3>2, <3>3 DEF RawSide, RawWaits, RawInHand
  <2> QED
    BY <1>1, <2>1, <2>2
<1>5. TypeOK' /\ LogType' /\ InputThere' /\ Fresh'
  <2>1. TypeOK'
    BY <1>1, <1>2, <1>4 DEF TypeOK, Pc
  <2> QED
    BY <1>1, <2>1 DEF LogType, InputThere, Fresh
<1>6. TapSide' /\ Stamps' /\ RxRoom'
  BY <1>1, TapSideSame, StampsSame, RxRoomSame
<1>7. Turns'
  <2>1. passed \in Nat /\ passed <= nfail + Skipped /\ Skipped \in Nat
    BY <1>1, LostCount DEF Turns, TypeOK
  <2>2. Skipped' = Skipped
    BY <1>1, SkippedSame
  <2>5. nfail' \in Nat /\ nfail \in Nat /\ nfail <= nfail'
    BY <1>2, BoundsAssumption
  <2> QED
    BY <1>1, <1>2, <2>1, <2>2, <2>5 DEF Turns, Skipped
<1> QED
  BY <1>4, <1>5, <1>6, <1>7

---------------------------------------------------------------------------
(* A packet arrives at the tap.                                            *)
LEMMA TapArrivesKeeps ==
  ASSUME IInv, NEW v4 \in BOOLEAN, TapArrives(v4)
  PROVE  IInv'
<1> USE DEF IInv
<1> DEFINE pkt == [id |-> ntap + 1, v4 |-> v4]
<1>1. /\ pc \notin {"start", "exit"} /\ ntap < MaxTap /\ ntap' = ntap + 1
      /\ tapq' = Append(tapq, pkt)
      /\ UNCHANGED <<prog, pc, rawFd, hwOn, revents, buf, room, rawq, errq, owed, wire, host>>
      /\ UNCHANGED <<txlog, rxlog, nraw, nfail, lost, passed>>
  BY DEF TapArrives
<1>2. ntap \in Nat /\ ntap' \in 0..MaxTap /\ ntap + 1 \in 1..MaxTap
  BY <1>1, BoundsAssumption DEF TypeOK
<1>3. pkt \in TapPkt /\ pkt.id = ntap + 1 /\ tapq \in Seq(TapPkt)
  BY <1>2 DEF TypeOK, TapPkt
<1>4. /\ tapq' \in Seq(TapPkt) /\ Len(tapq) \in Nat /\ Len(tapq') = Len(tapq) + 1
      /\ \A i \in 1..Len(tapq') : tapq'[i] = IF i = Len(tapq) + 1 THEN pkt ELSE tapq[i]
      /\ \A i \in 1..Len(tapq') : i # Len(tapq) + 1 => i \in 1..Len(tapq)
      /\ \A i \in 1..Len(tapq) : i \in 1..Len(tapq') /\ tapq'[i] = tapq[i]
      /\ Len(tapq') \in 1..Len(tapq') /\ tapq'[Len(tapq')] = pkt
  BY <1>1, <1>3, AppendAt
<1> HIDE DEF pkt
<1>5. TypeOK' /\ LogType' /\ InputThere' /\ Fresh'
  <2>1. tapq' \in Seq([id : 1..MaxTap, v4 : BOOLEAN])
    BY <1>4 DEF TapPkt
  <2>2. TypeOK'
    BY <1>1, <1>2, <2>1 DEF TypeOK
  <2>3. tapq' # <<>>
    BY <1>4
  <2> QED
    BY <1>1, <2>2, <2>3 DEF LogType, InputThere, Fresh
<1>6. \A k \in 1..ntap : k \in 1..(ntap + 1) /\ k < ntap + 1
  BY <1>2
<1>7. \A k : Past(k) => Past(k)'
  <2> SUFFICES ASSUME NEW k, Past(k) PROVE Past(k)'
    OBVIOUS
  <2>1. k \in 1..ntap /\ k \in 1..ntap' /\ k < ntap + 1
    BY <1>1, <1>6 DEF Past
  <2>2. \A i \in 1..Len(tapq') : k < tapq'[i].id
    BY <1>3, <1>4, <2>1 DEF Past
  <2> QED
    BY <1>1, <2>1, <2>2 DEF Past
<1>8. TapSide'
  <2>1. TapWaits'
    <3>1. \A i \in 1..Len(tapq) : tapq[i].id \in 1..ntap
      BY DEF TapSide, TapWaits
    <3>2. \A i \in 1..Len(tapq') : tapq'[i].id \in 1..ntap'
      BY <1>1, <1>2, <1>3, <1>4, <1>6, <3>1
    <3>3. \A i, j \in 1..Len(tapq') : i < j => tapq'[i].id < tapq'[j].id
      <4> SUFFICES ASSUME NEW i \in 1..Len(tapq'), NEW j \in 1..Len(tapq'), i < j
                   PROVE  tapq'[i].id < tapq'[j].id
        OBVIOUS
      <4>1. i \in 1..Len(tapq) /\ tapq'[i] = tapq[i] /\ tapq[i].id < ntap + 1
        BY <1>4, <1>6, <3>1
      <4>2. CASE j = Len(tapq) + 1
        BY <1>3, <1>4, <4>1, <4>2
      <4>3. CASE j # Len(tapq) + 1
        BY <1>4, <4>1, <4>3 DEF TapSide, TapWaits
      <4> QED
        BY <4>2, <4>3
    <3> QED
      BY <3>2, <3>3 DEF TapWaits
  <2>2. TapInHand'
    BY <1>1, <1>3, <1>4, <1>6 DEF TapSide, TapInHand
  <2>3. PastAreBehind'
    BY <1>1, <1>7 DEF TapSide, PastAreBehind
  <2>4. Accounted'
    <3> SUFFICES ASSUME NEW j \in 1..ntap'
                 PROVE  \/ \E i \in 1..Len(tapq') : tapq'[i].id = j
                        \/ \E i \in 1..Len(wire) : wire[i] = j
                        \/ j \in lost
                        \/ pc = "send" /\ buf = j
      BY <1>1 DEF Accounted
    <3>1. CASE j = ntap + 1
      BY <1>3, <1>4, <3>1
    <3>2. CASE j \in 1..ntap
      BY <1>4, <3>2 DEF TapSide, Accounted
    <3> QED
      BY <1>1, <1>2, <3>1, <3>2
  <2> QED
    BY <1>1, <2>1, <2>2, <2>3, <2>4 DEF TapSide, Increasing
<1>9. RawSide' /\ Stamps' /\ RxRoom'
  BY <1>1, RawSideSame, StampsSame, RxRoomSame
<1>10. Turns'
  BY <1>1, SkippedSame DEF Turns
<1> QED
  BY <1>5, <1>8, <1>9, <1>10

(* A packet arrives at the raw socket.                                     *)
LEMMA RawArrivesKeeps ==
  ASSUME IInv, NEW stamped \in BOOLEAN, RawArrives(stamped)
  PROVE  IInv'
<1> USE DEF IInv
<1> DEFINE pkt == [id |-> nraw + 1, ts |-> IF stamped THEN nraw + 1 ELSE 0]
<1>1. /\ nraw < MaxRaw /\ nraw' = nraw + 1 /\ rawq' = Append(rawq, pkt)
      /\ UNCHANGED <<prog, pc, rawFd, hwOn, revents, buf, room, tapq, errq, owed, wire, host>>
      /\ UNCHANGED <<txlog, rxlog, ntap, nfail, lost, passed>>
  BY DEF RawArrives
<1>2. nraw \in Nat /\ nraw' \in 0..MaxRaw /\ nraw + 1 \in 1..MaxRaw /\ nraw + 1 \in 0..MaxRaw
      /\ 0 \in 0..MaxRaw
  BY <1>1, BoundsAssumption DEF TypeOK
<1>3. pkt \in RawPkt /\ pkt.id = nraw + 1 /\ rawq \in Seq(RawPkt)
  BY <1>2 DEF TypeOK, RawPkt
<1>4. /\ rawq' \in Seq(RawPkt) /\ Len(rawq) \in Nat /\ Len(rawq') = Len(rawq) + 1
      /\ \A i \in 1..Len(rawq') : rawq'[i] = IF i = Len(rawq) + 1 THEN pkt ELSE rawq[i]
      /\ \A i \in 1..Len(rawq') : i # Len(rawq) + 1 => i \in 1..Len(rawq)
  BY <1>1, <1>3, AppendAt
<1> HIDE DEF pkt
<1>5. TypeOK' /\ LogType' /\ InputThere' /\ Fresh'
  <2>1. rawq' \in Seq([id : 1..MaxRaw, ts : 0..MaxRaw])
    BY <1>4 DEF RawPkt
  <2>2. TypeOK'
    BY <1>1, <1>2, <2>1 DEF TypeOK
  <2>3. rawq' # <<>>
    BY <1>4
  <2> QED
    BY <1>1, <2>2, <2>3 DEF LogType, InputThere, Fresh
<1>6. \A k \in 1..nraw : k \in 1..(nraw + 1) /\ k < nraw + 1
  BY <1>2
<1>7. RawSide'
  <2>1. \A i \in 1..Len(rawq) : rawq[i].id \in 1..nraw
    BY DEF RawSide, RawWaits
  <2>2. \A i \in 1..Len(rawq') : rawq'[i].id \in 1..nraw'
    BY <1>1, <1>2, <1>3, <1>4, <1>6, <2>1
  <2>3. \A i, j \in 1..Len(rawq') : i < j => rawq'[i].id < rawq'[j].id
    <3> SUFFICES ASSUME NEW i \in 1..Len(rawq'), NEW j \in 1..Len(rawq'), i < j
                 PROVE  rawq'[i].id < rawq'[j].id
      OBVIOUS
    <3>1. i \in 1..Len(rawq) /\ rawq'[i] = rawq[i] /\ rawq[i].id < nraw + 1
      BY <1>4, <1>6, <2>1
    <3>2. CASE j = Len(rawq) + 1
      BY <1>3, <1>4, <3>1, <3>2
    <3>3. CASE j # Len(rawq) + 1
      BY <1>4, <3>1, <3>3 DEF RawSide, RawWaits
    <3> QED
      BY <3>2, <3>3
  <2>4. RawInHand'
    BY <1>1, <1>3, <1>4, <1>6 DEF RawSide, RawInHand
  <2>5. HostIsBehind'
    BY <1>1, <1>3, <1>4, <1>6 DEF RawSide, HostIsBehind
  <2> QED
    BY <1>1, <2>2, <2>3, <2>4, <2>5 DEF RawSide, RawWaits, Increasing
<1>8. TapSide' /\ Stamps' /\ RxRoom'
  BY <1>1, TapSideSame, StampsSame, RxRoomSame
<1>9. Turns'
  BY <1>1, SkippedSame DEF Turns
<1> QED
  BY <1>5, <1>7, <1>8, <1>9

(* The timestamp of a sent packet arrives in the error queue.              *)
LEMMA StampArrivesKeeps ==
  ASSUME IInv, NEW k \in 1..MaxTap, StampArrives(k)
  PROVE  IInv'
<1> USE DEF IInv
<1>1. /\ k \in owed /\ owed' = owed \ {k} /\ errq' = Append(errq, k)
      /\ UNCHANGED <<prog, pc, rawFd, hwOn, revents, buf, room, tapq, rawq, wire, host>>
      /\ UNCHANGED <<txlog, rxlog, ntap, nraw, nfail, lost, passed>>
  BY DEF StampArrives
<1>2. errq \in Seq(1..MaxTap)
  BY DEF TypeOK
<1>3. /\ errq' \in Seq(1..MaxTap) /\ Len(errq) \in Nat /\ Len(errq') = Len(errq) + 1
      /\ \A i \in 1..Len(errq') : errq'[i] = IF i = Len(errq) + 1 THEN k ELSE errq[i]
      /\ \A i \in 1..Len(errq') : i # Len(errq) + 1 => i \in 1..Len(errq)
  BY <1>1, <1>2, AppendAt
<1>4. TypeOK' /\ LogType' /\ InputThere' /\ Fresh'
  <2>1. TypeOK'
    BY <1>1, <1>3 DEF TypeOK
  <2> QED
    BY <1>1, <2>1 DEF LogType, InputThere, Fresh
<1>5. TapSide'
  <2>1. \A j : Past(j) => Past(j)'
    BY <1>1 DEF Past
  <2>2. \A i \in 1..Len(errq') : \A j : j = errq'[i] => Past(j)'
    BY <1>1, <1>3, <2>1 DEF TapSide, PastAreBehind
  <2>3. PastAreBehind'
    BY <1>1, <2>1, <2>2 DEF TapSide, PastAreBehind
  <2> QED
    BY <1>1, <2>3 DEF TapSide, TapWaits, TapInHand, Accounted, Increasing
<1>6. StampsOnce'
  <2>1. \A i, j \in 1..Len(errq') : errq'[i] = errq'[j] => i = j
    BY <1>1, <1>3 DEF Stamps, StampsOnce
  <2>2. \A i \in 1..Len(errq') : errq'[i] \notin owed'
    BY <1>1, <1>3 DEF Stamps, StampsOnce
  <2>3. \A i \in 1..Len(txlog) : /\ txlog[i].ts \notin owed'
                                 /\ \A j \in 1..Len(errq') : txlog[i].ts # errq'[j]
    BY <1>1, <1>3 DEF Stamps, StampsOnce
  <2> QED
    BY <1>1, <2>1, <2>2, <2>3 DEF StampsOnce
<1>7. NoneLeftOver'
  <2> SUFFICES ASSUME AllInTime'
               PROVE  pc' = "stamp" /\ errq' = <<buf'>> /\ owed' = {}
    BY DEF NoneLeftOver
  <2>1. AllInTime
    BY <1>1 DEF AllInTime, StampsSent
  <2>2. pc = "stamp" /\ errq = <<>> /\ owed = {buf}
    BY <1>1, <2>1 DEF Stamps, NoneLeftOver
  <2> QED
    BY <1>1, <2>2
<1>8. TxStampSound'
  BY <1>1 DEF Stamps, TxStampSound, StampsSent
<1>9. RawSide' /\ RxRoom'
  BY <1>1, RawSideSame, RxRoomSame
<1>10. Turns'
  BY <1>1, SkippedSame DEF Turns
<1> QED
  BY <1>4, <1>5, <1>6, <1>7, <1>8, <1>9, <1>10 DEF Stamps

---------------------------------------------------------------------------
(* The inductive invariant holds at the start of the program.              *)
LEMMA InitIInv == Init => IInv
<1> SUFFICES ASSUME Init PROVE IInv
  OBVIOUS
<1>1. /\ Len(tapq) = 0 /\ Len(rawq) = 0 /\ Len(errq) = 0 /\ Len(wire) = 0 /\ Len(host) = 0
      /\ Len(txlog) = 0 /\ Len(rxlog) = 0 /\ lost = {} /\ owed = {} /\ ntap = 0
  BY DEF Init
<1>2. TypeOK /\ LogType /\ InputThere /\ Fresh
  <2>1. \A S : <<>> \in Seq(S)
    OBVIOUS
  <2>2. 0 \in 0..MaxTap /\ 0 \in 0..MaxRaw /\ 0 \in 0..MaxFails
    BY BoundsAssumption
  <2>3. /\ tapq \in Seq([id : 1..MaxTap, v4 : BOOLEAN])
        /\ rawq \in Seq([id : 1..MaxRaw, ts : 0..MaxRaw])
        /\ errq \in Seq(1..MaxTap) /\ wire \in Seq(1..MaxTap) /\ host \in Seq(1..MaxRaw)
        /\ txlog \in Seq(TxLine) /\ rxlog \in Seq(RxLine)
    BY <2>1 DEF Init
  <2>4. TypeOK
    BY <2>2, <2>3 DEF Init, TypeOK, Pc
  <2> QED
    BY <2>3, <2>4 DEF Init, LogType, InputThere, Fresh
<1>3. TapSide
  BY <1>1 DEF Init, TapSide, TapWaits, TapInHand, PastAreBehind, Accounted, Increasing
<1>4. RawSide
  BY <1>1 DEF Init, RawSide, RawWaits, RawInHand, HostIsBehind, Increasing
<1>5. Stamps
  BY <1>1 DEF Init, Stamps, StampsOnce, NoneLeftOver, TxStampSound
<1>6. RxRoom
  BY <1>1 DEF Init, RxRoom, RoomKnown, RxStampPrinted
<1>7. Turns
  BY <1>1, FS_EmptySet DEF Init, Turns, Skipped
<1> QED
  BY <1>2, <1>3, <1>4, <1>5, <1>6, <1>7 DEF IInv

(* Every step keeps it.                                                    *)
LEMMA NextIInv == IInv /\ [Next]_vars => IInv'
<1> SUFFICES ASSUME IInv, [Next]_vars PROVE IInv'
  OBVIOUS
<1>1. CASE UNCHANGED vars
  <2>1. /\ UNCHANGED <<prog, pc, rawFd, hwOn, revents, buf, room, tapq, rawq, errq, owed>>
        /\ UNCHANGED <<wire, host, txlog, rxlog, ntap, nraw, nfail, lost, passed>>
    BY <1>1 DEF vars
  <2>2. TapSide' /\ RawSide' /\ Stamps' /\ RxRoom'
    BY <2>1, TapSideSame, RawSideSame, StampsSame, RxRoomSame DEF IInv
  <2> QED
    BY <2>1, <2>2 DEF IInv, TypeOK, LogType, InputThere, Fresh, Turns, Skipped
<1>2. CASE Start
  BY <1>2, StartKeeps
<1>3. CASE Loop
  BY <1>3, PollKeeps, SkipTapKeeps, ReadTapKeeps, SendKeeps, SendFailsKeeps, PrintTxKeeps,
     SkipRawKeeps, RecvRawKeeps, WriteTapKeeps DEF Loop
<1>4. ASSUME NEW b \in BOOLEAN, TapArrives(b) \/ RawArrives(b) PROVE IInv'
  BY <1>4, TapArrivesKeeps, RawArrivesKeeps
<1>5. ASSUME NEW k \in 1..MaxTap, StampArrives(k) PROVE IInv'
  BY <1>5, StampArrivesKeeps
<1> QED
  BY <1>1, <1>2, <1>3, <1>4, <1>5 DEF Next

(* What the loop, its failing calls, the arriving packets and the late     *)
(* timestamps keep true between them.                                      *)
THEOREM Inductive == Spec => []IInv
  BY InitIInv, NextIInv, PTL DEF Spec

(* Types are kept: no queue is read when it is empty, and the buffer holds *)
(* a packet of the right direction when it is sent or written.             *)
THEOREM TypeCorrect == Spec => []TypeOK
<1>1. IInv => TypeOK
  BY DEF IInv
<1> QED
  BY <1>1, Inductive, PTL

(* Packets leave in order and once, and each one of the tap is accounted   *)
(* for, for any number of packets and failing calls.                       *)
THEOREM InOrder == Spec => []ForwardedInOrder
<1>1. ASSUME IInv PROVE ForwardedInOrder
  <2> DEFINE All == {tapq[i].id : i \in 1..Len(tapq)} \cup {wire[i] : i \in 1..Len(wire)}
                      \cup lost \cup (IF pc = "send" THEN {buf} ELSE {})
  <2>1. 1..ntap \subseteq All
    BY <1>1 DEF IInv, TapSide, Accounted
  <2>2. All \subseteq 1..ntap
    BY <1>1 DEF IInv, TapSide, TapWaits, TapInHand, PastAreBehind, Past
  <2> QED
    BY <1>1, <2>1, <2>2 DEF IInv, TapSide, RawSide, ForwardedInOrder
<1> QED
  BY <1>1, Inductive, PTL

(* No timestamp is printed twice or with an earlier packet, and each with  *)
(* its own as long as none was late.                                       *)
THEOREM TxStamps == Spec => []TxStampSound
<1>1. IInv => TxStampSound
  BY DEF IInv, Stamps
<1> QED
  BY <1>1, Inductive, PTL

(* The timestamp of a received packet is printed with it, until a packet   *)
(* without one has taken the room for it.                                  *)
THEOREM RxStamps == Spec => []RxStampPrinted
<1>1. IInv => RxStampPrinted
  BY DEF IInv, RxRoom
<1> QED
  BY <1>1, Inductive, PTL

(* While a received packet waits, one from the tap goes first, and one more*)
(* for each failing call and each packet given up.                         *)
THEOREM Alternates == Spec => []TakesTurns
<1>1. ASSUME IInv PROVE TakesTurns
  <2>1. passed \in Nat /\ nfail \in Nat /\ Skipped \in Nat
    BY <1>1, LostCount DEF IInv, TypeOK
  <2> QED
    BY <1>1, <2>1 DEF IInv, Turns, TakesTurns
<1> QED
  BY <1>1, Inductive, PTL
=============================================================================
