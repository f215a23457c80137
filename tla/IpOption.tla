----------------------------- MODULE IpOption -----------------------------
(***************************************************************************)
(* The Pval IP option, on the bytes: how pval_xmit puts it into a packet   *)
(* (kmod/pval_main.c), with the header's length and checksum, and how the  *)
(* tcpdump of the repository walks the options of what arrives.  Words are *)
(* 16 bits wide and read in network byte order.                            *)
(*                                                                         *)
(* A packet that NETDEV_TX_BUSY gives back with the option in it is        *)
(* transmitted again and goes through the same code once more.             *)
(***************************************************************************)
EXTENDS Naturals, Sequences

CONSTANTS
  CpuIds,       \* what smp_processor_id() returns
  FirstSeqs,    \* values of pdev->seq to start with, four 16-bit digits, lowest first
  Packets,      \* what the stack sends: records of the IP identification id, the
                \* words opts of the options and the words data behind them
  MaxInserts    \* bound: times one packet goes through pval_xmit

MaxWord == 65535
MaxByte == 255
Word == 0..MaxWord
Byte == 0..MaxByte

ASSUME WordsAssumption ==
  /\ CpuIds \subseteq Byte
  /\ \A q \in FirstSeqs : q \in Seq(Word) /\ Len(q) = 4
  /\ \A q \in Packets : q.id \in Word /\ q.opts \in Seq(Word) /\ q.data \in Seq(Word)
  /\ \A q \in Packets : Len(q.opts) % 2 = 0 /\ Len(q.opts) <= 20
  /\ \A q \in Packets : 2 * (10 + Len(q.opts) + Len(q.data)) \in Word
  /\ MaxInserts \in Nat

VARIABLES
  phase,      \* "stack", "xmit", "walk" or "done"
  pkt,        \* the packet from the IP header on
  sent,       \* the packet as the stack made it
  seq,        \* pdev->seq
  cp, length, \* the variables of ip_optprint: first byte and bytes left
  printed,    \* what ip_printpval printed
  (* history, read by no action of the system: *)
  inserted    \* the <<cpu, seq>> inserted, newest first

vars == <<phase, pkt, sent, seq, cp, length, printed, inserted>>

High(w) == w \div 256
Low(w)  == w % 256
Ihl(p)  == High(p[1]) % 16
TotLen(p) == p[2]

(* The bytes of a packet, numbered from 0.                                 *)
ByteAt(p, i) == IF i % 2 = 0 THEN High(p[i \div 2 + 1]) ELSE Low(p[i \div 2 + 1])

---------------------------------------------------------------------------
(* The Internet checksum by its definition: a header is good when its      *)
(* words add up to 0 in one's complement arithmetic.                       *)
Sums(words) ==
  LET sum[i \in 0..Len(words)] == IF i = 0 THEN 0 ELSE sum[i - 1] + words[i]
  IN  sum

Sum(words)  == Sums(words)[Len(words)]
Good(words) == Sum(words) > 0 /\ Sum(words) % 65535 = 0

(* What the receiver takes for the header.                                 *)
HeaderWords(p) == SubSeq(p, 1, 2 * Ihl(p))

(* checksum() over an even number of bytes: sum after each pass of the     *)
(* loop.  The carry comes around at once.  Mutant: the carry is lost.      *)
MutAddCarry(sum, w) == (sum + w) % 65536

AddCarry(sum, w) == IF sum + w > 65535 THEN sum + w - 65535 ELSE sum + w

Checksums(words) ==
  LET sum[i \in 0..Len(words)] == IF i = 0 THEN 0 ELSE AddCarry(sum[i - 1], words[i])
  IN  sum

checksum(words) == Checksums(words)[Len(words)]

wrapsum(sum) == 65535 - sum

---------------------------------------------------------------------------
(* struct ipopt_pval.  seq is stored in the byte order of the host, which  *)
(* is little-endian: every digit has its bytes swapped.  Mutant: length is *)
(* the one of seq.                                                         *)
Swap(w) == Low(w) * 256 + High(w)

MutOptionLength(cpu, s) ==
  <<222 * 256 + 8, cpu, Swap(s[1]), Swap(s[2]), Swap(s[3]), Swap(s[4])>>

ipopt_pval(cpu, s) ==
  <<222 * 256 + 12, cpu, Swap(s[1]), Swap(s[2]), Swap(s[3]), Swap(s[4])>>

(* pdev->seq++, 64 bits wide.  Mutant: the lowest digit has no end.        *)
MutNextSeq(s) == [s EXCEPT ![1] = @ + 1]

NextSeq(s) ==
  [i \in 1..4 |-> IF \A j \in 1..(i - 1) : s[j] = 65535 THEN (s[i] + 1) % 65536 ELSE s[i]]

(* ihl has four bits, tot_len sixteen.  Mutant: ihl counts 8-byte units.   *)
MutNewIhl(p) == (Ihl(p) + 1) % 16
NewIhl(p) == (Ihl(p) + 3) % 16
NewTotLen(p) == (TotLen(p) + 12) % 65536

(* The fixed header moves 12 bytes towards the front, the option goes      *)
(* behind it, and what was there follows.                                  *)
Insert(p, cpu) ==
  LET ver   == High(p[1]) \div 16
      fixed == [SubSeq(p, 1, 10) EXCEPT ![1] = (ver * 16 + NewIhl(p)) * 256 + Low(@),
                                        ![2] = NewTotLen(p),
                                        ![6] = 0]
      opt   == ipopt_pval(cpu, seq)
  IN  [fixed EXCEPT ![6] = wrapsum(checksum(fixed \o opt))] \o opt \o SubSeq(p, 11, Len(p))

---------------------------------------------------------------------------
(* A packet of the stack: options of its own, and a good checksum.         *)
StackPacket(id, opts, data) ==
  LET words == 10 + Len(opts) + Len(data)
      hdr   == <<(64 + 5 + Len(opts) \div 2) * 256, 2 * words, id, 16384, 16385, 0,
                 2560, 3, 2560, 2>>
  IN  [hdr EXCEPT ![6] = (65535 - (Sum(hdr \o opts) % 65535)) % 65535] \o opts \o data

Init ==
  /\ phase = "stack"
  /\ \E q \in Packets : sent = StackPacket(q.id, q.opts, q.data)
  /\ pkt = sent
  /\ seq \in FirstSeqs
  /\ cp = 0 /\ length = 0
  /\ printed = <<>> /\ inserted = <<>>

InsertOption(cpu) ==
  /\ phase = "stack"
  /\ pkt' = Insert(pkt, cpu)
  /\ inserted' = <<<<cpu, seq>>>> \o inserted
  /\ seq' = NextSeq(seq)
  /\ phase' = "xmit"
  /\ UNCHANGED <<sent, cp, length, printed>>

(* skb_clone fails and the stack keeps the packet.                         *)
GiveBack ==
  /\ phase = "xmit" /\ Len(inserted) < MaxInserts
  /\ phase' = "stack"
  /\ UNCHANGED <<pkt, sent, seq, cp, length, printed, inserted>>

(* The lengths with which ip_print goes on: ihl counts a whole header, and *)
(* tot_len is not shorter than that.                                       *)
SaneLengths == Ihl(pkt) >= 5 /\ TotLen(pkt) >= 4 * Ihl(pkt)

(* dev_queue_xmit; tcpdump -v sees the packet and starts ip_optprint.      *)
Deliver ==
  /\ phase = "xmit" /\ SaneLengths
  /\ phase' = "walk"
  /\ cp' = 20 /\ length' = 4 * Ihl(pkt) - 20
  /\ UNCHANGED <<pkt, sent, seq, printed, inserted>>

(* "bad-hlen" or "bad-len": tcpdump reads no further.                      *)
DeliverBad ==
  /\ phase = "xmit" /\ ~SaneLengths
  /\ phase' = "done"
  /\ UNCHANGED <<pkt, sent, seq, cp, length, printed, inserted>>

---------------------------------------------------------------------------
(* ip_optprint, one option per step.                                       *)

option_code == ByteAt(pkt, cp)
option_len  == IF option_code \in {0, 1} THEN 1 ELSE ByteAt(pkt, cp + 1)

(* snapend: behind what was captured, or behind tot_len if that is less.   *)
snapend == IF TotLen(pkt) < 2 * Len(pkt) THEN TotLen(pkt) ELSE 2 * Len(pkt)

(* Not the end of the options, no byte behind snapend, which the ND_TCHECK *)
(* macros find, and no length that cannot be.  A length byte behind the    *)
(* header is payload.                                                      *)
GoodOption ==
  /\ length > 0 /\ cp < snapend
  /\ option_code # 0
  /\ option_code = 1 \/ (cp + 1 < snapend /\ option_len >= 2)
  /\ option_len <= length /\ cp + option_len <= snapend

(* ip_printpval: the reader has the byte order of the writer.              *)
ip_printpval ==
  IF option_code = 222 /\ option_len >= 12
    THEN LET at(i) == ByteAt(pkt, cp + i)
         IN  Append(printed, <<at(3), [i \in 1..4 |-> at(2 * i + 3) * 256 + at(2 * i + 2)]>>)
    ELSE printed

WalkOption ==
  /\ phase = "walk" /\ GoodOption
  /\ printed' = ip_printpval
  /\ cp' = cp + option_len /\ length' = length - option_len
  /\ UNCHANGED <<phase, pkt, sent, seq, inserted>>

WalkEnd ==
  /\ phase = "walk" /\ ~GoodOption
  /\ phase' = "done"
  /\ UNCHANGED <<pkt, sent, seq, cp, length, printed, inserted>>

Next ==
  \/ \E cpu \in CpuIds : InsertOption(cpu)
  \/ GiveBack \/ Deliver \/ DeliverBad \/ WalkOption \/ WalkEnd

Spec == Init /\ [][Next]_vars

---------------------------------------------------------------------------
(* Properties.                                                             *)

(* Every word stays 16 bits wide: no sum, length or sequence number leaks  *)
(* a carry into the packet.                                                *)
TypeOK ==
  /\ phase \in {"stack", "xmit", "walk", "done"}
  /\ \A i \in DOMAIN pkt : pkt[i] \in Word
  /\ \A i \in 1..4 : seq[i] \in Word
  /\ cp \in Nat /\ length \in 0..40
  /\ printed \in Seq(Byte \X Seq(Word)) /\ inserted \in Seq(Byte \X Seq(Word))

(* The ihl field can count the header with the options in it.              *)
Fits == Ihl(sent) + 3 * Len(inserted) <= 15

(* The tot_len field can count the packet.                                 *)
LengthFits == 2 * Len(pkt) \in Word

Bare == Ihl(sent) = 5

(* Whatever options a packet had, as long as ihl can count them: the       *)
(* receiver finds, behind a header of the length that ihl says, the        *)
(* stack's options and payload word for word, and tot_len bytes in all, if *)
(* a packet of that length can be told in tot_len.                         *)
StackBytesKept ==
  Fits =>
    LET own == 2 * Ihl(sent) - 10
    IN  /\ LengthFits => TotLen(pkt) = 2 * Len(pkt)
        /\ SubSeq(HeaderWords(pkt), 2 * Ihl(pkt) - own + 1, 2 * Ihl(pkt)) =
             SubSeq(sent, 11, 10 + own)
        /\ SubSeq(pkt, 2 * Ihl(pkt) + 1, Len(pkt)) =
             SubSeq(sent, 2 * Ihl(sent) + 1, Len(sent))

(* The checksum of the header is good after pval_xmit for a packet that    *)
(* came without options, also where the sum carries.                       *)
BareChecksumGood == Bare /\ Len(inserted) <= 1 => Good(HeaderWords(pkt))

(* tcpdump prints the options: newest first, with the CPU and the 64-bit   *)
(* number that pval_xmit put in.  No option of the stack hides one, since  *)
(* they come in front; without those, nothing else is printed.  A packet   *)
(* that the options made too long for tot_len is a bad one to tcpdump      *)
(* ("bad-len"), and none of them is printed.                               *)
OptionReadBack ==
  Fits /\ phase = "done" =>
    IF LengthFits
      THEN /\ Len(printed) >= Len(inserted)
           /\ \A j \in 1..Len(inserted) : printed[j] = inserted[j]
           /\ Bare => printed = inserted
      ELSE printed = <<>>

(***************************************************************************)
(* "Insert Pval IP Option and update iphlen and checksum" (pval_xmit): the *)
(* header has a good checksum.  Packets with options do not keep it.       *)
(***************************************************************************)
ChecksumUpdated == phase # "stack" /\ Fits => Good(HeaderWords(pkt))
=============================================================================
