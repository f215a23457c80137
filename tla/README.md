# A TLA+ model of pval

pval is a Linux network driver (`kmod/pval_main.c`) that stacks a virtual
interface on a lower link.  It marks transmitted IP packets with an option,
asks the NIC for hardware timestamps, and hands copies of packets with their
timestamps to user space through one character device per CPU and direction.
This directory holds TLA+ modules of its core, TLC configurations that check
them on small instances, and TLAPS proofs about all of them.

All paths below are relative to the repository; `pval_main.c` is
`kmod/pval_main.c`.

## 1. Inventory

| component | where | state | operations | talks to |
|---|---|---|---|---|
| ring arithmetic | `pval_main.c:35-47, 127-169` | `head`, `tail`, `mask`, `slots` | `ring_emtpy`, `ring_full`, `ring_write_next`, `ring_read_next`, `ring_read_avail`, `ring_write_avail`, `ring_zero` | used by writers and file operations |
| misc device | `pval_main.c:49-68, 171-189, 249-375` | `struct pval_mdev`: ring, `opened`, `pval_wait` | `write_to_ring`, `pval_file_open`, `_release`, `_read_iter`, `_poll` | softirq, `pval_xmit` and kworker write; processes read |
| transmit path | `pval_main.c:223-247, 669-776` | switches, `seq`, the skb, its clone, `struct pval_worker` | `pval_xmit`, `pval_txtstamp_work2` | lower device, TX rings, NIC |
| receive path | `pval_main.c:585-603` | `rxcopy` | `pdev_handle_frame` | RX rings, the stack |
| IP option | `pval_main.c:450-482, 694-722`, `include/pval.h`, `tcpdump/print-ip.c` | the IP header | `checksum`, `wrapsum`, the rewriting in `pval_xmit`, `ip_printpval` | the peer |
| link life cycle | `pval_main.c:377-448, 486-583, 605-667, 892-1015` | registration, rx handler, promiscuity, references, misc devices, hwtstamp configuration | `pval_newlink`, `pval_changelink`, `pval_dellink`, `pval_open`, `pval_stop`, the `*_tstamp_config` functions | RTNL, misc layer, lower link |
| netlink parameters | `pval_main.c:797-890, 1017-1051`, `iproute2-4.18.0/ip/iplink_pval.c` | the six switches | `pval_nl_config`, `pval_fill_info`, `pval_parse_opt`, `pval_print_opt` | user |
| reader tools | `tools/` | one thread per device | poll with a timeout, then `readv` | misc devices |
| tap and tun forwarders | `tap/` | two descriptors | forwarding loop, `get_tstamp` | tap device, raw socket |
| namespace and module init | `pval_main.c:1053-1153` | the list of interfaces | register, unregister | kernel |

The rest of the repository is iproute2 4.18.0 and tcpdump, carried with a small
patch each: more than 220000 lines, of which the patches are about 200.  The code
that is pval's own (the kernel module, its header, `tools/`, `tap/`,
`iplink_pval.c`, `ip_printpval`) has some 2050 lines of code; the map of
`PROJECT.json` covers a little more than half of them, and what is left are
declarations, includes, messages, the dead worker and programs that repeat another
(section 6).

What makes this code hard is that **it takes no lock of its own**:

* a ring is written by a softirq, by `pval_xmit` with bottom halves disabled
  and by a kworker, and is flushed and read by a process on another CPU, with
  plain loads and stores;
* `opened` is tested and set without a lock (the misc layer happens to
  hold its mutex around it);
* the switches are read several times by one `pval_xmit` while netlink writes
  them; `pdev->seq++` is done by all CPUs;
* a worker polls for a timestamp until a timeout, while the switches, the
  reader and the interface change under it;
* newlink, open and dellink have error paths in the middle of a sequence of
  registrations, and dellink frees what the data path uses;
* the hardware configuration of the link is saved, overwritten and restored;
* workers and open files hold pointers into an interface and no reference to it,
  and an interface holds none to the module;
* the programs in user space match packets with timestamps that come late, or not,
  over another queue, and stop by a flag that a signal handler sets.

What makes each component correct:

* ring: packets come out whole, in order, once, none missing, none from before
  the open; head and tail stay in range; a full ring never looks empty;
* file operations: one reader at a time; a packet in the ring is read;
* transmit: a copy is made at most once, on the ring of the sending CPU, after
  sending, with its timestamp; the clone is always owned by someone; workers end;
  numbers are unique;
* life cycle: rx handler and promiscuity follow the interface that is up;
  whatever is left behind is on a path that failed; the configuration comes
  back; dellink ends;
* option: the header that leaves has a good checksum and length, the stack's
  bytes are kept, and the receiver reads back what was put in;
* netlink parameters: what is shown is what accepted commands said;
* removal: memory and code outlive those who use them;
* reader tools: what is read is printed, ^C ends the program, packets do not stay;
* forwarders: packets keep their order and find their timestamp, and neither
  direction starves the other.

## 2. Modules

| module | models | how it corresponds |
|---|---|---|
| `RingOps` | ring arithmetic | one operator per inline function, on `head`, `tail` as values; `& mask` is `% SlotNum` because `SlotNum` is a power of two |
| `PvalRing` | a misc device | the loads and stores of `head`, `tail`, a slot half and `opened` between which another CPU can come are actions of their own (see below) |
| `PacketFifo` | what a ring promises | abstract bounded FIFO, implemented by `PvalRing` |
| `PvalXmit` | transmit path | `pval_xmit` split where another CPU, a worker or netlink can interfere |
| `PvalLink` | life cycle | rtnetlink handlers, split where an open can run |
| `IpOption` | IP option | the header as 16-bit words; insertion is one step, `ip_optprint` one step per option |
| `IplinkPval` | netlink parameters | a command word by word, the request in the kernel in one step, `show` as an operator |
| `PvalTeardown` | deletion and removal | data path, workers, files, `pval_dellink` and the module in one model, each reduced to the memory it touches |
| `DumpTool` | reader tools | `main` and a thread of `dump-multi.c` at every call that can block or fail; a device is what `PacketFifo` promises |
| `TapBridge` | forwarders | the loop of `tap1.c`, one action per branch of a system call; `tun_trial.c` where it differs |
| `PvalRingProofs` (with the ring arithmetic and the refinement), `PvalXmitProofs`, `PvalLinkProofs`, `PvalTeardownProofs`, `IpOptionProofs`, `IplinkPvalProofs`, `DumpToolProofs`, `TapBridgeProofs` | | theorems |
| `MCPvalRing`, `MCPvalXmit`, `MCPvalLink`, `MCIpOption`, `MCIplinkPval`, `MCPvalTeardown`, `MCDumpTool` | | instances for TLC |

### PvalRing

`wpc[w]` says where a writer is in `write_to_ring`: `check` (before
`ring_full`), `meta` (before the stores to `len`, `pktlen` and `tstamp`), `data`
(before the `memcpy`), `load` and `store` (inside `ring_write_next`).  `Enter` is
the test in front of it (`rxcopy && opened` in `pdev_handle_frame`, `txcopy` and
`opened` in `pval_xmit`, nothing in the worker).  `fpc[p]` says where a process is
in open, poll, read or release; `ring_zero` is two steps.  A slot is two numbers,
the packet its metadata came from and the packet its bytes came from; packets are
numbered in the order in which they pass `ring_full`.  `since`, `nread`, `ulast`
and `raced` are history.

`raced` is set when a packet passes `ring_full` while another write is in
progress, and when the flush of an open finds a write in progress; a flush that
finds none clears it.  Those are the two situations in which the code breaks the
promise, shown separately by the violation runs; everything else is proved under
`~raced`.

`OpenTest` loads `opened` and `OpenSet` stores it, two steps: what keeps a second
process out between them is `misc_mtx`, which the misc layer takes before it calls
`pval_file_open` and gives back after it, and not the code of pval
("XXX: this should be atmoic", `pval_main.c:53-56`).  The mutant of `ExclusiveOpen` is an
open without the mutex.

The model takes loads and stores in program order, as x86 does.  It takes a plain field
that is read several times, with no store and no call in between, to be loaded once, as
gcc does at the kernel's `-O2`: `head` in `ring_full` and for the slot pointer
(`pval_main.c:177, 180`, `Claim`), and `head` and `tail` in `ring_emtpy` and
`ring_read_avail` (`pval_main.c:338, 149-152`, `ReadBegin`).  The code has no `READ_ONCE`
to say so.  A compiler that loaded `head` anew for the comparison and for the difference
of `ring_read_avail` could see it wrap in between, and `avail`, a `u32`, would go below 0.

`Masks` says who cannot run while another one is in the middle: on the TX ring of a
CPU, `pval_xmit` interrupts the worker and not the other way round.

### PvalXmit

`pc[c]` follows `pval_xmit` on a CPU: entry test, load and store of `seq`, request for a
timestamp (`RequestTstamp`), clone, `dev_queue_xmit`, what comes after.  Each step reads the switches as they are at
that moment, like the code.  `clone`, `worker` and `where` say who owns an skb.
`dev_queue_xmit`, `skb_clone` and `kmalloc` may fail.  A worker without timestamp
and before its timeout only reschedules itself, which is a stuttering step.
`AfterBusy` is what the caller does with `NETDEV_TX_BUSY`: a qdisc retries, a
noqueue device drops.  `oops` records that a NULL skb was dereferenced, and the
system stops there.  A ring is the sequence of packets it was offered; what happens
inside is `PvalRing`'s.  `excuse` and `seqraced` are history.

### PvalLink

`reg[d]` is the registration of an interface, `next[d]` the misc device that the
loop of newlink or dellink has come to, `rtnl` the interface whose handler holds
the RTNL mutex.  `pval_changelink`, `pval_open` and `pval_stop` touch nothing that
an open of a misc device reads and are one step each.  `hw` is the link's
`hwtstamp_config`, reduced to TX on or off and RX all or none; `orig[d]` is
`original_config`.  `hw0` and `meddled` are history.

### IpOption

A packet is the sequence of its words from the IP header on.  `Insert` does what
`pval_xmit` does between lines 694 and 719: 20 bytes of header move to the front, the
option goes behind them, `ihl` (4 bits), `tot_len` (16 bits) and the checksum are
renewed.  `pdev->seq` is four 16-bit digits, so that its 64 bits are there although
TLC's numbers are shorter; it is written with the bytes of each digit swapped, as a
little-endian host stores it.  `checksum` is the loop of the code, one `AddCarry` per
pass; `Good` is the definition of the Internet checksum it is held against.  Both are
recursive functions of the number of words, which TLC evaluates and the proofs can
speak about.  The second half is `ip_optprint` of the repository's tcpdump:
`GoodOption` says that the option at `cp` is one, and its negation collects the ways
out of the loop (no bytes left, end of list, a length byte behind the end of the
packet or of `tot_len`, a bad length).  `ip_print` looks at the lengths first
(`SaneLengths`): with `ihl` below 5 it prints "bad-hlen", with `tot_len` below the header
"bad-len" (`GUESS_TSO` is not defined in this tree), and in both cases no option
(`DeliverBad`).  The options are printed with `-v` only.  `StackPacket` is what the stack
may send, made of `Packets`: any options and payload that a header and a `tot_len` can
count (`WordsAssumption`).

### IplinkPval

A command is a sequence of words; `Abbreviates` gives the keywords each is a prefix
of, and the parser takes the first in its order (`tx` is `txtstamp`).  `Says` is what
a command line says to a reader, and knows nothing of parser, attributes or
`pval_nl_config`; `asked` accumulates it over the accepted commands.  `pval_fill_info`
always succeeds in the model.  In the code it returns `-EMSGSIZE` when the message is
full, and `pval_get_size` announces room for the link alone, one of seven attributes.

### PvalTeardown

The composition of the three kernel modules above, with everything left out that is
not about life time.  `pval_newlink` registers the interface (`NewRegister`), then a
misc device after the other (`NewMisc`), and is done (`NewDone`) or fails on the way
(`NewFailed`), which frees the net_device and leaves the devices it had registered
(`reg = "failed"`); they are in the freed memory, where the next walk over the misc
devices comes along (`misc_open`).  Otherwise `reg` goes through down, up, closing and,
once `pval_dellink` has begun, the same with `del_`; `pdev` and `slots` are memory that is live or
freed; `misc` are the registered misc devices; `irq` and `xmit` say that a receive
or transmit path is under way (every frame reads `struct pval_dev`, also one that finds
no reader).  The order is the code's: `list_del_rcu`, then for
each device `misc_deregister` and `kfree` of its slots, and only then, from
`unregister_netdevice_many`, `pval_stop`, the wait of `synchronize_net` and the end
of the net_device (`needs_free_netdev`).  A removal of the module runs under RTNL,
so no user opens or closes an interface meanwhile.  `uaf` is who has touched freed
memory (or code that is gone), `exposed` who was using something, or could still
come to it, when it was freed, and the exit of a module that was loaded without its
registrations; both are history.

### DumpTool

`mpc` and `n` follow `main` through its three loops, `tpc[t]` a thread: open, test of
the flag, poll, readv, print.  A thread asleep in poll wakes by its timeout, or with
EINTR if it is the one that runs the handler.  The end of the process closes, and so
flushes, its devices.  `taken` and `cut` are history.

### TapBridge

`pc` is the place in the loop; `revents` what poll reported; `buf` the one buffer of
both directions; `errq` the error queue, into which the NIC's timestamps come in any
order, early or late; `room` whether `msg_controllen` still has room.  Packets are
numbered by arrival and a timestamp by its packet.  `lost`, `passed` and the `own`
fields of the printed lines are history.

## 3. Runs

| run | expects | shows |
|---|---|---|
| `RxRing` | pass | One softirq writer, two processes.  Opens exclude each other, delivery is FIFO and whole, nothing accepted is lost, the ring implements `PacketFifo`, and a reader that polls with a timeout gets every packet |
| `RxFlush` | violation | `// flush the ring` (`pval_main.c:305`): a write in progress stores the head it loaded before the flush, and the reader gets slots from before its open |
| `TxTorn` | violation | A slot with the timestamp of one packet and the bytes of another (`README.md:104`) |
| `Xmit` | pass | Two CPUs, workers, failures and a flipped switch: a copy is made once, on the right ring, with its timestamp; clones are owned or one of three named causes applies; no NULL skb without a flip; unraced numbers are distinct |
| `SwitchRace` | violation | The clone "we need" (`pval_main.c:725`) is missing when a switch is turned on between the clone and the end of `pval_xmit` |
| `Link` | pass | Two interfaces, every failure, one process: ownership of rx handler and promiscuity, rings present when used by an open, nothing left after success, configuration set and restored, dellink ends |
| `IpOption` | pass | Packets with and without options, with and without payload, inserted into once or twice: the stack's options and payload are where `ihl` says, `tot_len` is right, the checksum is good for a packet that had no options, tcpdump prints every option with the CPU and number that went in, newest first, and "bad-len" and no option where the packet outgrew `tot_len` |
| `OptionSum` | violation | "update iphlen and checksum" (`pval_main.c:704`): the checksum covers 32 bytes, and a packet with an option of its own (router alert, which IGMP has) leaves with a wrong one |
| `Iplink` | pass | Two users, complete, abbreviated, duplicate, wrong and refused commands: `ip -d link show` prints what the accepted ones said |
| `Teardown` | pass | An interface is created or left half created, and one with traffic, two workers and two processes is deleted and the module removed at any point: freed memory is touched only by who was using it when it was freed, `struct pval_dev` outlives receive and transmit paths, nothing but workers and the misc devices of a failed newlink outlives the module, workers end |
| `Dump` | pass | Three threads on two devices, one named twice, one perhaps in use by another program, ^C up to twice: what is read is printed in order, ^C ends the program, no packet stays in a device |
| `Tap` | pass | Four packets from the host and two from the network, failing calls, late timestamps: order kept, timestamps attributed as long as none is late, control messages until one is missing, turns taken |

**Bounds.**  `SlotNum = 4` is the shortest power of two at which the ring can hold
more than one packet and still wrap with a reader in the middle; `MaxPkts = 5`
lets the ring fill, refuse, and wrap.  `MaxIov = 2` makes a
`readv` shorter than what is available.  Two processes are needed for a second
open.  In `PvalXmit` two CPUs and two packets give every interleaving of two
transmissions; `MaxChanges = 1` flips one switch at any point; `MaxOptions = 1`
lets a packet be given back once after its first option.
In `PvalLink`, two misc devices are the first number at which a loop
has a middle, and two interfaces at which the link is shared.  In `IpOption` the
numbers are taken at the carries of `seq` and of the sum, and the options so that
`ihl` has room, is filled exactly, and overflows, and so that the last byte of a header
is an option code whose length byte would be payload, or not there at all, and three
packets of nearly 65535 bytes so that `tot_len` overflows at the first or at the second
insertion; `MaxInserts = 2` is a retry.  In
`IplinkPval` each command is one way to succeed or to fail.  `PvalTeardown` has one
interface, since interfaces share no memory, the rings of one CPU, a process for
each ring and a worker that is early and one that is late.  In `DumpTool`,
`Capacity = 3` is more than one `readv` (`BULKNUM = 2`) takes, and a device named twice
makes an open fail.  In `TapBridge` three packets are needed for a late timestamp to
be taken by a later packet and push its own to the next, and one more to come behind.

The transmit ring with its two writers has a violation run (`TxTorn`) and no passing
one: what `RxRing` checks for one writer is proved for any (section 4).

**Deadlock** is checked on the ring and in `IplinkPval`.  `PvalXmit`, `PvalLink` and
`IpOption` end (all packets are sent or dropped, all interfaces are gone, the packet
is printed), so their runs do not check it, except where the violation comes first;
the same goes for `PvalTeardown` (the module is gone), `DumpTool` (the program has
ended) and `TapBridge` (no packet comes any more).

**Symmetry** is used in `Xmit`, which has no liveness property.

**Fairness.**  `RxRing`: weak fairness of the steps of a write (softirq, bottom-half
and kworker contexts run to their end), of poll, of its timeout and of `readv`,
which is the loop of `tools/dump-one.c`; none of arrivals, opens or closes.
`Teardown`: weak fairness of the passing of time and of work that is late (a work
queue runs what is scheduled); none of the NIC's timestamp.  `Dump`: weak fairness of
`main` and of each thread, none of signals or packets.  `Link`: weak fairness of the steps
of a dellink and of an open; strong fairness of `MiscDeregister`, because a kernel
mutex is handed to its waiters and is not lost to a stream of later opens.

## 4. Proofs

Every safety invariant of a passing run is proved for every value of the constants.
Each component has its inductive invariant `IInv`,
which TLC has found to hold on the instance of the run, a theorem `Inductive` that it
is one, and a theorem for each property that follows from it.  The proofs rest on
the named assumptions of the modules (what the constants are, and that the names of
nobody and nothing are no one's); no set of processes, CPUs, packets or interfaces is
assumed to be finite.

**The ring.**  `PvalRingProofs` begins with what the ring arithmetic computes for every `SlotNum`:
`ring_read_avail` is the circular distance from tail to head
(`ReadAvailIsDistance`), `ring_full` means all slots but one (`FullIsMaskSlots`),
and each of the two `next` functions publishes or takes exactly one slot.

It goes on to prove, for every ring length, any set of writers and processes
and any masking between writers: `TypeCorrect`, `OpenIsExclusive`,
`ReaderGetsFifo` (`FifoDelivery`), `NoPacketLost` (`NothingLost`) and
`NoSlotOverwritten` (`NoOverwrite`).  The assumptions are the named ones of the
modules: `SlotNum` is a natural number above 1, gated writers are writers, `NoProc` is no
process, the bounds are natural numbers.

None of the last three is inductive by itself.  `IInv` adds why they hold:

* `TailRests`: outside a session the tail is 0.  Without it, zeroing the head in
  `pval_file_open`, one step before the tail, would publish old slots;
* `OneWrite`: writes do not overlap while `~raced`;
* `WriteInProgress`: such a write owns the free slot at the head, has the youngest
  number, and has stored what its position says;
* `PublishedInOrder`: published slots hold consecutive numbers from the tail on;
* `ReadInProgress`: a read has no more slots left to take than there are, which is
  why `avail`, computed once per `readv`, may be stale.

The proof goes in three layers: types (`NextTypes`), the file part (`NextFile`:
exclusive open), the ring part.  `ExclusiveOpen` is not inductive either: a process
between its load of `opened` and its store has found it FALSE, and that this is still so
follows from `OpenHoldsMutex`, which says that it is the one that holds `misc_mtx`.
For the ring, each kind of step has a lemma
(`ClaimKeeps`, `FillKeeps`, `PublishKeeps`, `FlushStarts`, `PollKeeps`,
`TakeKeeps`, `OutsideKeeps`), and `NextRing` puts them together.

The module ends with `RingIsFifo`: the ring implements `PacketFifo`, for every
length, any writers and any processes.  While the promise is on, `IInv` makes the
queue of the refinement mapping the numbers `nread + 1 .. nread + avail`
(`QueueIsInterval`), whatever slots they are in; then `StoreHead` is a Put
(`StorePuts`), `ReadNext` a Get (`ReadGets`), the first store of an open or a release
a Flush (`ZeroFlushes`), and every other step changes nothing (`Stutters`).

**The removal.**  `PvalTeardownProofs` proves, for any processes and any packets, `TypeCorrect`,
`DeletionSafeIfQuiet` (`SafeIfQuiet`), `DeviceOutlivesPaths` (`PathsEndFirst`) and
`ModuleLeavesNothing` (`LeavesNothing`).  `SafeIfQuiet` speaks of who has touched
freed memory and says nothing of who still can; its `IInv` adds that:

* `UsersExposed`: whoever has a pointer to freed slots, or is on an interface that can
  still come to them, was counted when they were freed;
* `MemoryFollows`: what is allocated follows from the registration, and a misc device
  that is registered has its slots, so nobody new comes to freed ones.  After a failed
  newlink the slots stay with the devices that were registered;
* `PathsNeedLink`: receive and transmit paths are inside only until
  `synchronize_net`, after which the net_device may be freed;
* `ModuleLast`, `OneReader`: a module being removed has no open file and, once gone,
  no interface; a ring has one reader, so a release clears nobody else's `opened`.

There is one lemma per group of steps (`ModuleKeeps`, `NewKeeps`, `LinkKeeps`,
`FreeKeeps`, `PathKeeps`, `WorkerKeeps`, `FileKeeps`, `WalkKeeps`).  `NextLife` puts them together.  `NamesAssumption`
only keeps the names of the actors apart; the proofs do not use it.

**The transmit path.**  `PvalXmitProofs` proves, for any CPUs and packets, any number of
flips of the switches and of retries: `TypeCorrect`, `CopiedOnce`
(`CopiedOnceWhereSent`), `CloneNotForgotten` (`CloneOwned`), `WorkerFindsClone`
(`WorkerHasClone`), `NoCopyWithoutTstamp` (`CopiedWithTstamp`) and `SeqUnique`
(`SeqUniqueUnraced`).  Its `IInv` adds to them:

* `OnOneCpu`: a packet is in one `pval_xmit` at a time.  Without it a second CPU could
  take the clone or the ring entry of the first for its own;
* `FreshUntilSent`: a packet gets its worker or its place in a ring as the last thing of
  a `pval_xmit` that has sent it, so a retry starts with neither;
* `SwitchesKept`: as long as no switch was flipped, the options, the request for a
  timestamp and the clone that a packet has are those that the switches, read again and
  again, still ask for.  It has to hold of packets waiting for a retry too;
* `NewestNamesCpu`: the newest option keeps naming the sending CPU on the way over the
  worker to the ring, which is what makes the ring the right one;
* `SeqAhead`: `seq` is above all numbers given out, and one CPU at most is between its
  load and its store.

**The life cycle.**  `PvalLinkProofs` proves, for any interfaces, processes and number of misc
devices: `TypeCorrect`, `LinkOwned` (`LinkOwnedByUp`), `OpenSafe` (`OpenFindsRing`),
`NothingByHalves` (`AllOrNothing`), `TstampInForce` (`TstampAsConfigured`) and
`ConfigRestored` (`RestoredIfAlone`).  `IInv` says

* who holds the RTNL mutex (`RtnlHeld`) and the misc layer's (`OpenHolds`): an open under
  way keeps the device that it has found registered, and `kfree` comes after;
* how far newlink and dellink have come (`Progress`), in rings and misc devices;
* that the link's references are those of `Holders` (`RefsCounted`), a set that is finite
  because each step adds one, and that promiscuity and rx handler are the one
  interface's that is up (`OneUp`): so neither count goes below zero;
* what the configuration and its saved copy are while one interface has the link to
  itself (`ConfigKnown`).

**The netlink parameters.**  `IplinkPvalProofs` proves `TypeCorrect` and `ShownRight`
(`ShownAsAsked`) for any users, words, abbreviations and command lines.  `Agree` alone is
not inductive: a request half parsed must be known to say what the words read so far
say.  `RestUnread` ties the parser's place to the command line, and `Request` holds that
exactly the switches named up to there are attributes, with the values behind their
names; a word means one switch at most (`MeansOne`), which is why the duplicate test of
the parser makes `Says` a function.

**The reader tools.**  `DumpToolProofs` proves `TypeCorrect` and `AllPrinted`
(`PrintsWhatItTakes`) for every command line and any lengths of rings and of `readv`.
`MainKnows` is what `main`, in each of its loops, knows of its threads, so that it does
not return under one; `OwnDevice` that a device is read by the one thread that opened it,
also if named twice; `EmptyHanded` that nothing is in hand outside `parse_and_print`.

**The forwarders.**  `TapBridgeProofs` proves, for both programs and any number of packets
and failing calls, `TypeCorrect`, `InOrder` (`ForwardedInOrder`), `TxStamps`
(`TxStampSound`), `RxStamps` (`RxStampPrinted`) and `Alternates` (`TakesTurns`).  `IInv`
has a part for each queue: packets wait in order (`TapWaits`, `RawWaits`), and whatever has
left a queue is behind what waits there and what is in hand (`PastAreBehind`,
`HostIsBehind`); a timestamp is owed, in the error queue or printed, and in one of these
places (`StampsOnce`), and while all were in time the only one about is that of the packet
in hand (`NoneLeftOver`); what poll reported is still there (`InputThere`).  `Turns`
sharpens `TakesTurns` by the place in the loop.  `TakesTurns` is a bound that holds for
every `MaxTap`, and so says of a tap device whose stream does not end that the socket has
its turn; a liveness property on a bounded number of packets would say less.

**The IP option.**  `IpOptionProofs` proves, for all packets that the stack can make
(any options, any payload, any identification), all CPUs, all values of the 64-bit
counter and any number of retries: `TypeCorrect`, `StackBytesStay` (`StackBytesKept`),
`BareChecksumStaysGood` (`BareChecksumGood`) and `OptionsReadBack` (`OptionReadBack`).
The assumption is `WordsAssumption`: words are words, options come in 4-byte units and
are at most 40 bytes, and the stack sends no packet longer than `tot_len` can say.

What a loop computes over any number of words needs an induction.  The library's
induction theorems take an operator, which the provers cannot instantiate; here it goes
over sets of numbers instead: a nonempty set of numbers has a least element
(`LeastNumber`, from the library's well-founded minimum), so a set that has 0 and with
each number the next has all up to n (`UpTo`), so every loop over a sequence has a run
(`LoopRuns`), which is what gives the recursive functions their meaning (`SumsDef`,
`ChecksumsDef`).  `ChecksumCongruent` is then the invariant of the loop of `checksum()`:
the carry that comes around takes 65535 away and nothing else.  With it `ChecksumIsGood`
holds for headers of any length: what `wrapsum(checksum())` returns is the Internet
checksum.

None of the four properties is inductive: `StackBytesKept` and `OptionReadBack` are
silent where `ihl` has wrapped around, and `OptionReadBack` until the walk has ended.
`IInv` adds

* `StackSent`: what the stack made has the lengths its header says, and without options
  a good checksum (`StackMakes`);
* `Lengths`: `ihl` and `tot_len` count modulo 16 and 65536, also after they have wrapped
  around, and the header is never longer than the packet.  `LengthTold` concludes that
  `ip_print` finds `tot_len` too short exactly when it has wrapped around: what is left of
  it is less than the options that went in;
* `OptionsInFront`, `RestFollows`: the six words of each option stand behind the fixed
  header, newest first, and then what the stack had there;
* `FirstWordsGood`: the checksum is good for the first 32 bytes, of every packet that
  went through `pval_xmit`.  This is all that the code achieves, and what `OptionSum`
  refutes for longer headers;
* `Walk`: tcpdump is at the n-th option having printed those in front (`AtOption`), or
  among the options of the stack (`AtStackOption`); bytes read in the byte order of the
  writer are the number again (`ReadsOption`), and the walk cannot end before the last
  of them (`WalkEndKeeps`).

`Inserted` says once what the rewriting does to a packet; there is one lemma per action.
The proof attempt corrected the model: nothing kept the length byte of a last option
inside the packet, for which the code has `ND_TCHECK_1`.

**Only model-checked** is liveness (`EventuallyRead`, `WorkersEnd`, `DeleteEnds`,
`StopsOnSignal`, `Drains`), which needs ENABLED and is out of reach of the
prover.

## 5. What the model says about the code

The four violation runs are the `findings` of `PROJECT.json`.  More disagreements
were met that have no run:

* "waitqueue for poll" (`pval_main.c:78`): no code wakes it.  `EventuallyRead` holds
  because the tools poll with a timeout; with `Timeout = FALSE` it fails;
* `u64 __percpu seq` (`pval_main.c:91`) is one plain counter.  CPUs that meet inside
  its increment give out equal numbers; `SeqUniqueUnraced` says when not;
* a packet given back because `skb_clone` failed keeps its option; a qdisc that tries
  it again gets a second one into it (`options` in `PvalXmit`, `GiveBack` in
  `IpOption`), against `needed_headroom` for one;
* `include/pval.h` calls `IFLA_PVAL_TXCOPY` "ON/OFF: Copy TXed pkts to user", but
  `pval_txtstamp_work2` copies with `txcopy` off, and to a ring nobody has open
  (visible in `PvalXmit`: the worker tests neither);
* "config before pval manipulates" (`pval_main.c:101`): the second interface of a link
  saves what the first has set, and restores that if it is deleted last;
  `RestoredIfAlone` is what holds;
* the rings are freed while the interface may be up, with workers scheduled and files
  open: `SafeIfQuiet` says who can then touch freed memory, and that an interface that
  was closed, by its readers too, and has no worker left is deleted without harm.  The
  comment in `pval_txtstamp_work2` ("may causes segfault when kmod is removed and the
  workers left", `pval_main.c:225`) tells of one of these cases;
* `pval_init_module` returns 0 when a registration fails, and the removal then takes
  off lists what was never on them (`mod = "hollow"`);
* a newlink that fails after its first misc device frees the net_device that the misc
  device is part of ("XXX: should handle errors", `pval_main.c:950`): whoever opens any
  misc device then walks over freed memory (`"misc"` in `uaf`), and it outlives the module;
* `get_tstamp` of the forwarders takes the front of the error queue: one timestamp that
  comes after its millisecond shifts all later ones by a packet.  `TxStampSound` says
  what is left: no timestamp twice, and none of a later packet;
* `raw_alloc` of `tap1.c` returns the positive `errno`, so a wrong device name gives a
  program that runs and drops (`raw_alloc_errno` in `TapBridge`);
* `tun_trial.c` leaves the round at a packet that is not IPv4 (`continue`, line 231), and
  an endless stream of them starves the socket;
* a packet received without a control message takes the room for those of all later ones
  away (`room`);
* `tun_trial.c` asks for timestamps of sent packets and takes the request back
  (`StampsSent`);
* `IFLA_PVAL_TXBUSYDROP` is parsed, stored and shown, and no code reads it;
* `ihl` has four bits: a header with more than 28 bytes of options comes out with a
  length that has wrapped around (`Fits` in `IpOption`), and a packet within 12 bytes of
  the longest one with a `tot_len` that has, of which tcpdump prints "bad-len" and no option
  (`LengthFits`).

Leaks that no text of the repository denies: the `struct pval_worker` of a worker
that times out (`worker = "leaked"`), the clone when the lower device refuses the
packet or the worker cannot be allocated (`excuse`), and the misc devices, the
reference and the upper link of a newlink that fails (`reg = "failed"`).

## 6. Not modelled

* iproute2 and tcpdump, but for the code that pval added to them and what that runs in
  (`matches`, the exits and `iplink_modify`; `ip_print` up to the options and
  `ip_optprint`).  They are programs of others, larger than pval by a factor of a hundred
  and independent of it.
* Printing, logging, name parsing, lengths (`len`, `pktlen` are metadata).
* The per-device `pval_txtstamp_work` with `cloned_skb`: never scheduled.
* `tools/dump-one.c` and `tools/look-tcp.c`, which have the loop of `dump-multi.c` (the
  first for one device and without a handler), and `tap/tap_trial.c`, which has that of
  `tap1.c`: their maps would be those of the program they repeat.
* More than 32 devices on the command line of `dump-multi`, more than 16 CPUs.
* A renamed interface, whose misc devices can no longer be opened, and the lower
  link disappearing, on which pval holds a reference and has no notifier.
* Namespaces: `pval_exit_net` queues the interfaces of a namespace and does nothing
  with the queue; rtnetlink has deleted them before.
* In `TapBridge` the raw socket of `tun_trial.c` receives like that of `tap1.c`; an
  `IPPROTO_RAW` socket gets nothing in practice, so this is more than happens.
* Weak memory: the code has no barriers, and the model is x86's order.  A compiler that
  loads a field anew (section 2, `PvalRing`).
* The headroom of an skb, into which a retry pushes a second time, and the room in the
  message that `pval_fill_info` fills.

## 7. Plan

Every part of pval with behaviour of its own has a module, and every module its proofs.
A change of the code is followed from the map of `PROJECT.json` to the definition, its
run and its theorems.  If the code gets a lock around `write_to_ring`, or clears the ring
under it, `raced` goes, and the violation runs `RxFlush` and `TxTorn` become passing ones;
if the checksum is made over the whole header, `BareChecksumGood` gives way to
`ChecksumUpdated`, with `ChecksumIsGood` as its proof.
