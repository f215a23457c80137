----------------------------- MODULE TapBridge -----------------------------
(***************************************************************************)
(* The forwarders of tap/: one loop that moves packets between a tap (or   *)
(* tun) device and a raw socket and prints a hardware timestamp for each.  *)
(* tap1.c and tap_trial.c differ in what they print; tun_trial.c forwards  *)
(* IPv4 only.                                                              *)
(*                                                                         *)
(* The timestamp of a transmitted packet comes back through the error      *)
(* queue of the socket, some time after sendto(), or not at all; get_tstamp*)
(* waits for a millisecond and takes whatever is at the front.  The        *)
(* timestamp of a received packet is a control message of recvmsg().       *)
(*                                                                         *)
(* Packets are numbered in order of arrival, in each direction; a timestamp*)
(* is named by its packet, 0 is none.                                      *)
(***************************************************************************)
EXTENDS Naturals, Sequences, FiniteSets

CONSTANTS
  Programs,   \* the programs to run: "tap", "tun"
  MaxTap,     \* bound: packets that arrive at the tap device
  MaxRaw,     \* bound: packets that arrive at the raw socket
  MaxFails    \* bound: system calls of the loop that fail

ASSUME ProgramsAssumption == Programs \subseteq {"tap", "tun"}
ASSUME BoundsAssumption   == MaxTap \in Nat /\ MaxRaw \in Nat /\ MaxFails \in Nat

VARIABLES
  prog,     \* the program
  pc,       \* where it is
  rawFd,    \* raw_fd is a socket
  hwOn,     \* SIOCSHWTSTAMP succeeded: the NIC takes timestamps
  revents,  \* the descriptors poll() reported POLLIN for
  buf,      \* the packet in the buffer that both directions share
  room,     \* msg.msg_controllen leaves room for a control message
  tapq,     \* packets waiting in the tap device
  rawq,     \* packets waiting in the raw socket
  errq,     \* timestamps waiting in its error queue
  owed,     \* packets sent whose timestamp has not come
  wire,     \* packets sent
  host,     \* packets written to the tap device
  txlog,    \* lines printed for sent packets
  rxlog,    \* lines printed for received packets
  ntap, nraw, nfail,
  (* history, read by no action of the system: *)
  lost,     \* packets from the tap that were given up
  passed    \* tap packets taken since poll() saw the raw packet at the front

queueVars == <<tapq, rawq, errq, owed>>
outVars   == <<wire, host, txlog, rxlog>>
countVars == <<ntap, nraw, nfail>>
vars == <<prog, pc, rawFd, hwOn, revents, buf, room, queueVars, outVars, countVars,
          lost, passed>>

Init ==
  /\ prog \in Programs
  /\ pc = "start" /\ rawFd = FALSE /\ hwOn = FALSE
  /\ revents = {} /\ buf = 0 /\ room = TRUE
  /\ tapq = <<>> /\ rawq = <<>> /\ errq = <<>> /\ owed = {}
  /\ wire = <<>> /\ host = <<>> /\ txlog = <<>> /\ rxlog = <<>>
  /\ ntap = 0 /\ nraw = 0 /\ nfail = 0
  /\ lost = {} /\ passed = 0

Fails == nfail < MaxFails /\ nfail' = nfail + 1

---------------------------------------------------------------------------
(* Start.                                                                  *)

(* The ioctl works or not; its result is not looked at.                    *)
hwtstamp_config_set == hwOn' \in BOOLEAN

(* A descriptor below 0 ends the program.  raw_alloc of the tap programs   *)
(* returns errno for an unknown device or a failing bind(): that is        *)
(* positive, and main() takes it for a descriptor.                         *)
tap_alloc_fails == pc' = "exit" /\ UNCHANGED <<rawFd, hwOn>>
raw_alloc       == pc' = "poll" /\ rawFd' = TRUE /\ hwtstamp_config_set
raw_alloc_errno == pc' = "poll" /\ prog = "tap" /\ UNCHANGED <<rawFd, hwOn>>

Start ==
  /\ pc = "start"
  /\ tap_alloc_fails \/ raw_alloc \/ raw_alloc_errno
  /\ UNCHANGED <<prog, revents, buf, room, queueVars, outVars, countVars, lost, passed>>

(* tun_trial.c sets SO_TIMESTAMPING twice, and the second time, for        *)
(* reception, takes back what the first one asked for.                     *)
StampsSent == hwOn /\ prog = "tap"

---------------------------------------------------------------------------
(* The loop.                                                               *)

(* x[0] and x[1].                                                          *)
Polled == {"tap", "raw"}

HasInput(fd) == IF fd = "tap" THEN tapq # <<>> ELSE rawq # <<>>

(* poll(x, 2, 1000).  A timeout reports nothing and the loop comes back.   *)
Poll ==
  /\ pc = "poll"
  /\ revents' = {fd \in Polled : HasInput(fd)}
  /\ revents' # {}
  /\ pc' = "tap"
  /\ passed' = IF rawq = <<>> THEN 0 ELSE passed
  /\ UNCHANGED <<prog, rawFd, hwOn, buf, room, queueVars, outVars, countVars, lost>>

(* The raw side has its turn in every round.  Mutant: `continue'.          *)
MutAfterTap == "poll"
AfterTap == "raw"

(* tap -> raw: nothing to read, or read() fails, ...                       *)
SkipTap ==
  /\ pc = "tap"
  /\ IF "tap" \in revents THEN Fails ELSE UNCHANGED nfail
  /\ pc' = AfterTap
  /\ UNCHANGED <<prog, rawFd, hwOn, revents, buf, room, queueVars, outVars, ntap, nraw,
                 lost, passed>>

(* ... or a packet.  Mutant: the next one is thrown away with it.          *)
MutTakeTwo(q) == SubSeq(q, 3, Len(q))
TakeTap(q) == Tail(q)

(* tun_trial.c: what is not IPv4 is left, and with it the rest of the      *)
(* round (`continue').                                                     *)
Forwards(pkt) == prog = "tun" => pkt.v4

ReadTap ==
  /\ pc = "tap" /\ "tap" \in revents
  /\ buf' = Head(tapq).id
  /\ tapq' = TakeTap(tapq)
  /\ IF Forwards(Head(tapq))
       THEN pc' = "send" /\ UNCHANGED lost
       ELSE pc' = "poll" /\ lost' = lost \cup {Head(tapq).id}
  /\ passed' = IF "raw" \in revents THEN passed + 1 ELSE passed
  /\ UNCHANGED <<prog, rawFd, hwOn, revents, room, rawq, errq, owed, outVars, countVars>>

(* sendto() on the raw socket, which fails on what is not a socket.        *)
Send ==
  /\ pc = "send" /\ rawFd
  /\ wire' = Append(wire, buf)
  /\ owed' = IF StampsSent THEN owed \cup {buf} ELSE owed
  /\ pc' = "stamp"
  /\ UNCHANGED <<prog, rawFd, hwOn, revents, buf, room, tapq, rawq, errq, host, txlog, rxlog,
                 countVars, lost, passed>>

SendFails ==
  /\ pc = "send"
  /\ IF rawFd THEN Fails ELSE UNCHANGED nfail
  /\ lost' = lost \cup {buf}
  /\ pc' = AfterTap
  /\ UNCHANGED <<prog, rawFd, hwOn, revents, buf, room, queueVars, outVars, ntap, nraw,
                 passed>>

(* recvmsg(fd, &msg, MSG_ERRQUEUE): the oldest timestamp, 0 if there is    *)
(* none (it does not block).  Mutant: it is only looked at.                *)
MutPeek(q) == q
TakeStamp(q) == IF q = <<>> THEN q ELSE Tail(q)

get_tstamp == IF errq = <<>> THEN 0 ELSE Head(errq)

(* usleep(1000), get_tstamp and the "tx" line.  `own' remembers whether the*)
(* timestamp of the packet had come by then.                               *)
PrintTx ==
  /\ pc = "stamp"
  /\ txlog' = Append(txlog, [pkt |-> buf, ts |-> get_tstamp, own |-> buf \notin owed])
  /\ errq' = TakeStamp(errq)
  /\ pc' = AfterTap
  /\ UNCHANGED <<prog, rawFd, hwOn, revents, buf, room, tapq, rawq, owed, wire, host, rxlog,
                 countVars, lost, passed>>

(* raw -> tap: nothing to receive, or recvmsg() fails.  Mutant: the loop   *)
(* goes on to write() after an error.                                      *)
MutAfterRecvError == "write"
AfterRecvError == "poll"

SkipRaw ==
  /\ pc = "raw"
  /\ IF "raw" \in revents
       THEN Fails /\ pc' = AfterRecvError
       ELSE UNCHANGED nfail /\ pc' = "poll"
  /\ UNCHANGED <<prog, rawFd, hwOn, revents, buf, room, queueVars, outVars, ntap, nraw,
                 lost, passed>>

(* recvmsg() leaves the length it used in msg.msg_controllen, which is set *)
(* once, in front of the loop: after a packet without a control message it *)
(* is 0, and no later message finds room.  Mutant: it is always so.        *)
MutRoomAfter(pkt) == FALSE
RoomAfter(pkt) == room /\ pkt.ts # 0

RecvRaw ==
  LET pkt == Head(rawq)
  IN  /\ pc = "raw" /\ "raw" \in revents
      /\ buf' = pkt.id
      /\ rawq' = Tail(rawq)
      /\ rxlog' = Append(rxlog, [pkt |-> pkt.id, own |-> pkt.ts,
                                 ts |-> IF room THEN pkt.ts ELSE 0])
      /\ room' = RoomAfter(pkt)
      /\ passed' = 0
      /\ pc' = "write"
      /\ UNCHANGED <<prog, rawFd, hwOn, revents, tapq, errq, owed, wire, host, txlog,
                     countVars, lost>>

(* write() to the tap device; the packet is gone if it fails.              *)
WriteTap ==
  /\ pc = "write"
  /\ \/ host' = Append(host, buf) /\ UNCHANGED nfail
     \/ Fails /\ UNCHANGED host
  /\ pc' = "poll"
  /\ UNCHANGED <<prog, rawFd, hwOn, revents, buf, room, queueVars, wire, txlog, rxlog,
                 ntap, nraw, lost, passed>>

Loop ==
  \/ Poll \/ SkipTap \/ ReadTap \/ Send \/ SendFails \/ PrintTx
  \/ SkipRaw \/ RecvRaw \/ WriteTap

---------------------------------------------------------------------------
(* Around it.                                                              *)

TapArrives(v4) ==
  /\ pc \notin {"start", "exit"} /\ ntap < MaxTap
  /\ ntap' = ntap + 1
  /\ tapq' = Append(tapq, [id |-> ntap + 1, v4 |-> v4])
  /\ UNCHANGED <<prog, pc, rawFd, hwOn, revents, buf, room, rawq, errq, owed, outVars,
                 nraw, nfail, lost, passed>>

(* A socket of ETH_P_ALL also sees what others send through the device,    *)
(* and those packets have no timestamp of their reception.                 *)
RawArrives(stamped) ==
  /\ rawFd /\ nraw < MaxRaw
  /\ stamped => hwOn
  /\ nraw' = nraw + 1
  /\ rawq' = Append(rawq, [id |-> nraw + 1, ts |-> IF stamped THEN nraw + 1 ELSE 0])
  /\ UNCHANGED <<prog, pc, rawFd, hwOn, revents, buf, room, tapq, errq, owed, outVars,
                 ntap, nfail, lost, passed>>

(* The NIC's timestamp of a sent packet comes, late or early, in any order.*)
StampArrives(k) ==
  /\ k \in owed
  /\ owed' = owed \ {k}
  /\ errq' = Append(errq, k)
  /\ UNCHANGED <<prog, pc, rawFd, hwOn, revents, buf, room, tapq, rawq, outVars, countVars,
                 lost, passed>>

Next ==
  \/ Start \/ Loop
  \/ \E b \in BOOLEAN : TapArrives(b) \/ RawArrives(b)
  \/ \E k \in 1..MaxTap : StampArrives(k)

Spec == Init /\ [][Next]_vars

---------------------------------------------------------------------------
(* Properties.                                                             *)

Pc == {"start", "exit", "poll", "tap", "send", "stamp", "raw", "write"}

TypeOK ==
  /\ prog \in Programs /\ pc \in Pc
  /\ rawFd \in BOOLEAN /\ hwOn \in BOOLEAN /\ room \in BOOLEAN
  /\ revents \subseteq {"tap", "raw"} /\ buf \in Nat
  /\ tapq \in Seq([id : 1..MaxTap, v4 : BOOLEAN])
  /\ rawq \in Seq([id : 1..MaxRaw, ts : 0..MaxRaw])
  /\ errq \in Seq(1..MaxTap) /\ owed \subseteq 1..MaxTap
  /\ wire \in Seq(1..MaxTap) /\ host \in Seq(1..MaxRaw)
  /\ ntap \in 0..MaxTap /\ nraw \in 0..MaxRaw /\ nfail \in 0..MaxFails
  /\ lost \subseteq 1..MaxTap /\ passed \in Nat

Increasing(s) == \A i, j \in 1..Len(s) : i < j => s[i] < s[j]

(* Packets leave in the order in which they came, none twice; and one that *)
(* came from the tap is waiting, in hand, on the wire or given up for an   *)
(* error: the loop of main() with its shared buffer and its early          *)
(* `continue's loses and mixes nothing.                                    *)
ForwardedInOrder ==
  /\ Increasing(wire) /\ Increasing(host)
  /\ 1..ntap = {tapq[i].id : i \in 1..Len(tapq)} \cup {wire[i] : i \in 1..Len(wire)}
                 \cup lost \cup (IF pc = "send" THEN {buf} ELSE {})

(* A "tx" line shows no timestamp twice, none of a later packet, and, as   *)
(* long as no timestamp was late, the packet's own.                        *)
TxStampSound ==
  /\ \A i, j \in 1..Len(txlog) : txlog[i].ts = txlog[j].ts /\ txlog[i].ts # 0 => i = j
  /\ \A i \in 1..Len(txlog) :
       /\ txlog[i].ts <= txlog[i].pkt
       /\ StampsSent /\ (\A j \in 1..i : txlog[j].own) => txlog[i].ts = txlog[i].pkt

(* An "rx" line shows the timestamp of its packet, unless an earlier packet*)
(* had none and took the room for control messages away.                   *)
RxStampPrinted ==
  \A i \in 1..Len(rxlog) :
    (\A j \in 1..(i - 1) : rxlog[j].own # 0) => rxlog[i].ts = rxlog[i].own

(* However long the stream from the tap is, the programs with a tap device *)
(* let at most one of its packets go first while a received packet waits,  *)
(* but for calls that fail.  tun_trial.c gives no such promise: each       *)
(* packet that is not IPv4 goes first too, and an endless stream of them   *)
(* starves the socket.                                                     *)
Skipped == IF prog = "tun" THEN Cardinality(lost) ELSE 0

TakesTurns == passed <= 1 + nfail + Skipped
=============================================================================
