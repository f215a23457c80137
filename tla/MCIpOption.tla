---------------------------- MODULE MCIpOption ----------------------------
(* Instances of IpOption.                                                  *)
EXTENDS IpOption

NoOption    == <<>>
RouterAlert == <<148 * 256 + 4, 0>>                     \* IGMP has it
NopEnd      == <<1 * 256 + 1, 0>>                       \* NOP, NOP, end of list
RecordRoute == <<7 * 256 + 27, 4 * 256>> \o [i \in 1..12 |-> 0]   \* ihl 12: one more fits
LongRoute   == <<7 * 256 + 39, 4 * 256>> \o [i \in 1..18 |-> 0]   \* ihl 15

CutOption   == <<1 * 256 + 1, 1 * 256 + 130>>           \* a code without a length byte

SomeOptions == {NoOption, RouterAlert, NopEnd, CutOption, RecordRoute, LongRoute}

(* The counter at its start, at the carries between its digits, at its end.*)
SomeSeqs == { <<0, 0, 0, 0>>, <<255, 0, 0, 0>>, <<65535, 0, 0, 0>>, <<65535, 65535, 0, 1>>,
              <<65535, 65535, 65535, 65535>> }

Packet(id, opts, data) == [id |-> id, opts |-> opts, data |-> data]

ShortPackets(ids) ==
  { Packet(id, o, d) : id \in ids, o \in SomeOptions, d \in {<<>>, <<2048, 65535, 1>>} }

(* A packet that tot_len can count with k options in it, and not with one  *)
(* more.                                                                   *)
FullPacket(opts, k) == Packet(1, opts, [i \in 1..(32757 - Len(opts) - 6 * k) |-> 2048])

SomePackets ==
  ShortPackets({0, 1, 32767, 65535})
    \cup { FullPacket(NoOption, k) : k \in 0..1 } \cup { FullPacket(RecordRoute, 0) }

OnePackets == ShortPackets({1})
=============================================================================
