----------------------------- MODULE DumpTool ------------------------------
(***************************************************************************)
(* tools/dump-multi.c (look-tcp.c differs in what it prints): a thread for *)
(* each misc device named on the command line polls and reads it, until    *)
(* SIGINT sets a flag that the threads look at once a round.               *)
(*                                                                         *)
(* The devices are what pval_file_open, _poll, _read_iter and _release     *)
(* promise (module PacketFifo): exclusive, non-blocking to read, flushed   *)
(* when opened and closed, and never waking a poll().                      *)
(***************************************************************************)
EXTENDS Naturals, Sequences, FiniteSets

CONSTANTS
  Devices,   \* misc devices
  Argv,      \* the command line, a sequence of them
  BULKNUM,   \* slots one readv() takes at most
  Capacity,  \* slots of a device's ring
  MaxPkts,   \* bound: packets copied to a device
  MaxSignals \* bound: times the user types ^C

ASSUME ArgvAssumption   == Argv \in Seq(Devices) /\ Len(Argv) > 0
ASSUME BoundsAssumption == /\ BULKNUM \in Nat \ {0} /\ Capacity \in Nat
                           /\ MaxPkts \in Nat /\ MaxSignals \in Nat

Threads == 1..Len(Argv)

VARIABLES
  mpc,     \* where main() is: the phase, and the thread its loop is at
  n,
  tpc,     \* where each thread is
  got,     \* the slots its last readv() returned and it has not printed
  caught_signal,
  nsig,
  opened,  \* who has each device open: a thread, another process or nobody
  ring,    \* packets in each device
  npkts,
  shown,   \* packets printed of each device
  (* history, read by no action of the system: *)
  taken,   \* packets readv() took out of each device
  cut      \* the process ended under its threads, before main() joins them

threadVars == <<tpc, got>>
devVars    == <<opened, ring, npkts>>
outVars    == <<shown, taken>>
vars       == <<mpc, n, threadVars, caught_signal, nsig, devVars, outVars, cut>>

Nobody == 0
Other  == Len(Argv) + 1

Init ==
  /\ mpc = "create" /\ n = 1
  /\ tpc = [t \in Threads |-> "none"]
  /\ got = [t \in Threads |-> <<>>]
  /\ caught_signal = FALSE /\ nsig = 0
  /\ opened \in [Devices -> {Nobody, Other}]
  /\ ring = [d \in Devices |-> <<>>] /\ npkts = [d \in Devices |-> 0]
  /\ shown = [d \in Devices |-> <<>>] /\ taken = [d \in Devices |-> <<>>]
  /\ cut = FALSE

Alive == mpc # "exit"
Live(t) == tpc[t] \notin {"none", "done"}

---------------------------------------------------------------------------
(* main()                                                                  *)

(* The process ends, by itself or not: its devices are closed and flushed. *)
Ends ==
  /\ mpc' = "exit"
  /\ cut' = (mpc = "create" /\ \E t \in Threads : Live(t))
  /\ tpc' = [t \in Threads |-> "done"]
  /\ opened' = [d \in Devices |-> IF opened[d] \in Threads THEN Nobody ELSE opened[d]]
  /\ ring' = [d \in Devices |-> IF opened[d] \in Threads THEN <<>> ELSE ring[d]]
  /\ UNCHANGED <<n, got, caught_signal, npkts, outVars>>

(* n < num_of_th.  Mutant: one too many.                                   *)
MutMoreToCreate == n <= Len(Argv) + 1
MoreToCreate == n <= Len(Argv)

(* pthread_create, and `return ret' if it fails.                           *)
Create ==
  /\ mpc = "create" /\ MoreToCreate
  /\ \/ /\ tpc' = [tpc EXCEPT ![n] = "open"]
        /\ n' = n + 1
        /\ UNCHANGED <<mpc, got, caught_signal, devVars, outVars, cut>>
     \/ Ends
  /\ UNCHANGED nsig

(* signal(SIGINT, sig_handler), after the threads are there.               *)
Install ==
  /\ mpc = "create" /\ ~MoreToCreate
  /\ \/ /\ mpc' = "join" /\ n' = 1
        /\ UNCHANGED <<threadVars, caught_signal, devVars, outVars, cut>>
     \/ Ends                                                    \* SIG_ERR
  /\ UNCHANGED nsig

(* pthread_join, one thread after the other.  Mutant: the last one is      *)
(* forgotten.                                                              *)
MutJoined == n >= Len(Argv)
Joined == n > Len(Argv)

Join ==
  /\ mpc = "join" /\ ~Joined
  /\ tpc[n] = "done"
  /\ n' = n + 1
  /\ UNCHANGED <<mpc, threadVars, caught_signal, nsig, devVars, outVars, cut>>

Return ==
  /\ mpc = "join" /\ Joined
  /\ Ends
  /\ UNCHANGED nsig

main == Create \/ Install \/ Join \/ Return

---------------------------------------------------------------------------
(* dump_thread                                                             *)

ThreadGoes(t, l) == Alive /\ tpc' = [tpc EXCEPT ![t] = l]

(* open(): -EBUSY, and the thread ends, or the device is flushed.          *)
Open(t) ==
  LET d == Argv[t]
  IN  /\ tpc[t] = "open"
      /\ IF opened[d] = Nobody
           THEN /\ ThreadGoes(t, "loop")
                /\ opened' = [opened EXCEPT ![d] = t]
                /\ ring' = [ring EXCEPT ![d] = <<>>]
           ELSE ThreadGoes(t, "done") /\ UNCHANGED <<opened, ring>>
      /\ UNCHANGED <<mpc, n, got, caught_signal, nsig, npkts, outVars, cut>>

(* Mutant: the flag is never looked at.                                    *)
MutStop == FALSE
Stop == caught_signal

(* if (caught_signal) break;  The descriptor is left to the process.       *)
Check(t) ==
  /\ tpc[t] = "loop"
  /\ ThreadGoes(t, IF Stop THEN "done" ELSE "poll")
  /\ UNCHANGED <<mpc, n, got, caught_signal, nsig, devVars, outVars, cut>>

(* poll(&x, 1, 1000): at once if the ring is not empty, after a second with*)
(* nothing otherwise.  Nothing wakes it in between.  Mutant: no timeout.   *)
MutTimeout == FALSE
Timeout == TRUE

Poll(t) ==
  /\ tpc[t] = "poll"
  /\ ring[Argv[t]] # <<>>
  /\ ThreadGoes(t, "read")
  /\ UNCHANGED <<mpc, n, got, caught_signal, nsig, devVars, outVars, cut>>

Sleep(t) ==
  /\ tpc[t] = "poll" /\ ring[Argv[t]] = <<>>
  /\ ThreadGoes(t, "asleep")
  /\ UNCHANGED <<mpc, n, got, caught_signal, nsig, devVars, outVars, cut>>

(* The file is tested once more when the time is up.                       *)
PollTimeout(t) ==
  /\ tpc[t] = "asleep" /\ Timeout
  /\ ThreadGoes(t, IF ring[Argv[t]] = <<>> THEN "loop" ELSE "read")
  /\ UNCHANGED <<mpc, n, got, caught_signal, nsig, devVars, outVars, cut>>

(* readv(fd, iov, BULKNUM) returns the number of slots it has filled.      *)
Read(t) ==
  LET d == Argv[t]
      k == IF Len(ring[d]) > BULKNUM THEN BULKNUM ELSE Len(ring[d])
  IN  /\ tpc[t] = "read"
      /\ ThreadGoes(t, "print")
      /\ got' = [got EXCEPT ![t] = SubSeq(ring[d], 1, k)]
      /\ ring' = [ring EXCEPT ![d] = SubSeq(@, k + 1, Len(@))]
      /\ taken' = [taken EXCEPT ![d] = @ \o SubSeq(ring[d], 1, k)]
      /\ UNCHANGED <<mpc, n, caught_signal, nsig, opened, npkts, shown, cut>>

(* for (n = 0; n < ret; n++)                                               *)
parse_and_print(t) ==
  /\ tpc[t] = "print"
  /\ ThreadGoes(t, "loop")
  /\ shown' = [shown EXCEPT ![Argv[t]] = @ \o got[t]]
  /\ got' = [got EXCEPT ![t] = <<>>]
  /\ UNCHANGED <<mpc, n, caught_signal, nsig, devVars, taken, cut>>

dump_thread(t) ==
  \/ Open(t) \/ Check(t) \/ Poll(t) \/ Sleep(t) \/ PollTimeout(t) \/ Read(t)
  \/ parse_and_print(t)

---------------------------------------------------------------------------
(* Around it.                                                              *)

(* ^C before the handler is installed: the process is killed.              *)
Sigint ==
  /\ Alive /\ nsig < MaxSignals
  /\ nsig' = nsig + 1
  /\ mpc = "create"
  /\ Ends

(* ^C afterwards: some thread runs sig_handler.  In main() pthread_join    *)
(* goes on; a thread in poll() gets EINTR and ends, whatever is in its     *)
(* ring.                                                                   *)
sig_handler ==
  /\ mpc = "join" /\ nsig < MaxSignals
  /\ nsig' = nsig + 1
  /\ caught_signal' = TRUE
  /\ \/ UNCHANGED tpc
     \/ \E t \in Threads : tpc[t] = "asleep" /\ tpc' = [tpc EXCEPT ![t] = "done"]
  /\ UNCHANGED <<mpc, n, got, devVars, outVars, cut>>

(* pdev_handle_frame copies a packet, if the ring is open and not full.    *)
Copy(d) ==
  /\ npkts[d] < MaxPkts /\ Len(ring[d]) < Capacity
  /\ opened[d] \in Threads
  /\ npkts' = [npkts EXCEPT ![d] = @ + 1]
  /\ ring' = [ring EXCEPT ![d] = Append(@, npkts[d] + 1)]
  /\ UNCHANGED <<mpc, n, threadVars, caught_signal, nsig, opened, outVars, cut>>

Next ==
  \/ main
  \/ \E t \in Threads : dump_thread(t)
  \/ Sigint \/ sig_handler
  \/ \E d \in Devices : Copy(d)

Spec == Init /\ [][Next]_vars

(* Every thread of the process runs.  Nothing forces a user or a packet.   *)
FairSpec ==
  /\ Spec
  /\ WF_vars(main)
  /\ \A t \in Threads : WF_vars(dump_thread(t))

---------------------------------------------------------------------------
(* Properties.                                                             *)

ThreadPc == {"none", "open", "loop", "poll", "asleep", "read", "print", "done"}

TypeOK ==
  /\ mpc \in {"create", "join", "exit"} /\ n \in 1..(Len(Argv) + 1)
  /\ tpc \in [Threads -> ThreadPc]
  /\ got \in [Threads -> Seq(1..MaxPkts)]
  /\ caught_signal \in BOOLEAN /\ nsig \in 0..MaxSignals
  /\ opened \in [Devices -> {Nobody, Other} \cup Threads]
  /\ ring \in [Devices -> Seq(1..MaxPkts)]
  /\ npkts \in [Devices -> 0..MaxPkts]
  /\ shown \in [Devices -> Seq(1..MaxPkts)] /\ taken \in [Devices -> Seq(1..MaxPkts)]
  /\ cut \in BOOLEAN

(* What readv() takes from a device is printed, whole and in order, and by *)
(* one thread, also when the device is named twice, a ^C comes in between  *)
(* or the other threads have ended: main() does not return under a thread  *)
(* that still runs.  Only the death of the process before its handler is   *)
(* there, or a pthread_create that fails, loses packets.                   *)
PrintsWhatItTakes ==
  \A d \in Devices : ~cut =>
    taken[d] = shown[d] \o (IF opened[d] \in Threads THEN got[opened[d]] ELSE <<>>)

(* ^C ends the program: threads that sleep in poll() wake up by themselves *)
(* and find the flag, and threads that could not open a device or got EINTR*)
(* have ended already.                                                     *)
StopsOnSignal == caught_signal ~> ~Alive

(* A packet in a device that the tool has opened does not stay there.      *)
Drains ==
  \A d \in Devices, k \in 1..MaxPkts :
    (\E i \in 1..Len(ring[d]) : ring[d][i] = k)
      ~> (\A i \in 1..Len(ring[d]) : ring[d][i] # k)
=============================================================================
