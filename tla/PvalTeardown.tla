--------------------------- MODULE PvalTeardown ----------------------------
(***************************************************************************)
(* What PvalRing, PvalXmit and PvalLink leave out of each other: the data  *)
(* path, the timestamp workers and the readers of a pval interface while   *)
(* the interface is deleted and the module is loaded and removed           *)
(* (kmod/pval_main.c).                                                     *)
(*                                                                         *)
(* pval_dellink frees the slots of the rings while the interface may still *)
(* be up; the kernel then closes it (pval_stop), waits for the receive and *)
(* transmit paths that are under way, and frees the net_device, which holds*)
(* struct pval_dev with the rings.  Workers and open files hold pointers   *)
(* into it and no reference.                                               *)
(***************************************************************************)
EXTENDS Naturals, FiniteSets

CONSTANTS
  Procs,   \* processes that open the misc devices
  Pkts     \* transmitted packets that get a worker

Rings == {"tx", "rx"}   \* of one CPU

ASSUME NamesAssumption == Procs \cap {"softirq", "xmit", "worker", "misc", "text", "exit"} = {}

VARIABLES
  mod,      \* the kernel module
  reg,      \* registration of the interface
  listed,   \* it is in the dev_list of its namespace
  pdev,     \* memory of the net_device with struct pval_dev
  slots,    \* memory of each ring's slots
  misc,     \* rings whose misc device is registered
  rxh,      \* pdev_handle_frame is the rx handler of the lower link
  irq,      \* where the softirq is in pdev_handle_frame
  xmit,     \* a CPU is inside pval_xmit
  worker,   \* the worker of each packet
  late,     \* PVAL_TXTSTAMP_TIMEOUT has passed for it
  file,     \* the ring each process has open
  opened,   \* opened of each misc device
  (* history, read by no action of the system: *)
  uaf,      \* who touched freed memory
  exposed   \* who was using what was freed when it was freed, or relies on a
            \* registration that failed

linkVars == <<mod, reg, listed, misc, rxh>>
memVars  == <<pdev, slots>>
pathVars == <<irq, xmit, worker, late>>
fileVars == <<file, opened>>
vars     == <<linkVars, memVars, pathVars, fileVars, uaf, exposed>>

NoRing == "none"

Init ==
  /\ mod = "out" /\ reg = "none" /\ listed = FALSE
  /\ pdev = "none" /\ slots = [r \in Rings |-> "none"]
  /\ misc = {} /\ rxh = FALSE
  /\ irq = "out" /\ xmit = FALSE
  /\ worker = [k \in Pkts |-> "none"] /\ late = [k \in Pkts |-> FALSE]
  /\ file = [p \in Procs |-> NoRing] /\ opened = {}
  /\ uaf = {} /\ exposed = {}

(* `who' uses memory in the given states.                                  *)
Touch(who, mem) == uaf' = IF "freed" \in mem THEN uaf \cup {who} ELSE uaf

Scheduled(k) == worker[k] = "scheduled"
Up == reg \in {"up", "del_up"}

---------------------------------------------------------------------------
(* The module.                                                             *)

(* pval_init_module returns 0 also if a registration failed: the module is *)
(* then loaded without anything registered, and its exit does not know.    *)
pval_init_module ==
  /\ mod = "out"
  /\ \/ mod' = "in" /\ UNCHANGED exposed
     \/ mod' = "hollow" /\ exposed' = exposed \cup {"exit"}
  /\ UNCHANGED <<reg, listed, misc, rxh, memVars, pathVars, fileVars, uaf>>

(* rmmod needs the module unused; an open file uses it, by the owner field *)
(* of pval_fops, an interface does not.  Mutant: no owner.                 *)
MutUnused == TRUE
Unused == \A p \in Procs : file[p] = NoRing

(* rtnl_link_unregister: what was never registered cannot be taken off the *)
(* list.  Otherwise the interfaces are deleted (DelBegin).                 *)
ExitBegin ==
  /\ mod \in {"in", "hollow"} /\ Unused
  /\ reg \in {"none", "down", "up", "gone", "failed"}
  /\ mod' = "unloading"
  /\ uaf' = IF mod = "hollow" THEN uaf \cup {"exit"} ELSE uaf
  /\ UNCHANGED <<reg, listed, misc, rxh, memVars, pathVars, fileVars, exposed>>

(* unregister_pernet_subsys, and the code is gone.                         *)
pval_exit_module ==
  /\ mod = "unloading" /\ reg \in {"none", "gone", "failed"}
  /\ mod' = "gone"
  /\ exposed' = IF \E k \in Pkts : Scheduled(k) THEN exposed \cup {"text"} ELSE exposed
  /\ UNCHANGED <<reg, listed, misc, rxh, memVars, pathVars, fileVars, uaf>>

---------------------------------------------------------------------------
(* The interface.                                                          *)

(* pval_newlink.  From register_netdevice on, a file can find the          *)
(* interface by its name; what fails before then leaves nothing of it.     *)
NewRegister ==
  /\ mod = "in" /\ reg = "none"
  /\ reg' = "new" /\ pdev' = "live"
  /\ UNCHANGED <<mod, listed, misc, rxh, slots, pathVars, fileVars, uaf, exposed>>

(* pval_init_miscdevice: the ring, then misc_register, tx before rx.       *)
NewMisc(r) ==
  /\ reg = "new" /\ r \notin misc /\ (r = "rx" => "tx" \in misc)
  /\ slots' = [slots EXCEPT ![r] = "live"]
  /\ misc' = misc \cup {r}
  /\ UNCHANGED <<mod, reg, listed, rxh, pdev, pathVars, fileVars, uaf, exposed>>

NewDone ==
  /\ reg = "new" /\ misc = Rings
  /\ reg' = "down" /\ listed' = TRUE
  /\ UNCHANGED <<mod, misc, rxh, memVars, pathVars, fileVars, uaf, exposed>>

(* netdev_upper_dev_link or a pval_init_miscdevice failed: the net_device  *)
(* is unregistered and freed, and the misc devices that were registered    *)
(* stay, with their slots.                                                 *)
NewFailed ==
  /\ reg = "new" /\ misc # Rings
  /\ reg' = "failed" /\ pdev' = "freed"
  /\ exposed' = exposed \cup {p \in Procs : file[p] # NoRing}
                        \cup (IF misc # {} THEN {"misc"} ELSE {})
  /\ UNCHANGED <<mod, listed, misc, rxh, slots, pathVars, fileVars, uaf>>

pval_newlink == NewRegister \/ NewDone \/ NewFailed \/ \E r \in Rings : NewMisc(r)

(* A removal holds the RTNL lock: no user comes in between.                *)
pval_open ==
  /\ reg = "down" /\ mod = "in"
  /\ reg' = "up" /\ rxh' = TRUE
  /\ UNCHANGED <<mod, listed, misc, memVars, pathVars, fileVars, uaf, exposed>>

(* Mutant: the rx handler stays.                                           *)
MutUnhooked == rxh
Unhooked == FALSE

(* The stack stops transmitting, then pval_stop takes the rx handler away, *)
(* and waits (synchronize_net) for what is under way.                      *)
pval_stop ==
  /\ \/ reg = "up" /\ mod = "in"
     \/ reg = "del_up" /\ \A r \in Rings : slots[r] = "freed"
  /\ reg' = IF reg = "up" THEN "closing" ELSE "del_closing"
  /\ rxh' = Unhooked
  /\ UNCHANGED <<mod, listed, misc, memVars, pathVars, fileVars, uaf, exposed>>

synchronize_net ==
  /\ reg \in {"closing", "del_closing"}
  /\ irq = "out" /\ ~xmit
  /\ reg' = IF reg = "closing" THEN "down" ELSE "del_down"
  /\ UNCHANGED <<mod, listed, misc, rxh, memVars, pathVars, fileVars, uaf, exposed>>

(* pval_dellink up to its loop, asked for by a user or by                  *)
(* rtnl_link_unregister.                                                   *)
DelBegin ==
  /\ mod \in {"in", "unloading"} /\ reg \in {"down", "up"}
  /\ reg' = IF reg = "up" THEN "del_up" ELSE "del_down"
  /\ listed' = FALSE
  /\ UNCHANGED <<mod, misc, rxh, memVars, pathVars, fileVars, uaf, exposed>>

Deleting == reg \in {"del_up", "del_down"}

(* pval_destroy_miscdevice.  Mutant: the ring first.                       *)
MutMayFree(r) == TRUE
MayFree(r) == r \notin misc

MiscDeregister(r) ==
  /\ Deleting /\ r \in misc /\ (r = "rx" => slots["tx"] = "freed")
  /\ misc' = misc \ {r}
  /\ UNCHANGED <<mod, reg, listed, rxh, memVars, pathVars, fileVars, uaf, exposed>>

(* Who works on ring r now, or can still come to it.                       *)
Users(r) ==
  {p \in Procs : file[p] = r}
    \cup (IF ~Up THEN {} ELSE IF r = "rx" THEN {"softirq"} ELSE {"xmit", "worker"})
    \cup (IF r = "tx" /\ \E k \in Pkts : Scheduled(k) THEN {"worker"} ELSE {})

pval_destroy_ring(r) ==
  /\ Deleting /\ MayFree(r) /\ slots[r] = "live"
  /\ r = "rx" => slots["tx"] = "freed"
  /\ slots' = [slots EXCEPT ![r] = "freed"]
  /\ exposed' = exposed \cup Users(r)
  /\ UNCHANGED <<linkVars, pdev, pathVars, fileVars, uaf>>

(* The end of unregister_netdevice_many: the net_device is freed, for it   *)
(* needs_free_netdev.                                                      *)
DelEnd ==
  /\ reg = "del_down" /\ misc = {} /\ \A r \in Rings : slots[r] = "freed"
  /\ reg' = "gone" /\ pdev' = "freed"
  /\ UNCHANGED <<mod, listed, misc, rxh, slots, pathVars, fileVars, uaf, exposed>>

---------------------------------------------------------------------------
(* The data path.                                                          *)

(* pdev_handle_frame: any frame of the lower link; the test of rxcopy and  *)
(* opened; the write.                                                      *)
RxBegin ==
  /\ rxh /\ irq = "out"
  /\ irq' = "test"
  /\ Touch("softirq", {pdev})
  /\ UNCHANGED <<linkVars, memVars, xmit, worker, late, fileVars, exposed>>

RxTest ==
  /\ irq = "test"
  /\ irq' \in {"out"} \cup IF "rx" \in opened THEN {"write"} ELSE {}
  /\ Touch("softirq", {pdev})
  /\ UNCHANGED <<linkVars, memVars, xmit, worker, late, fileVars, exposed>>

RxWrite ==
  /\ irq = "write"
  /\ irq' = "out"
  /\ Touch("softirq", {pdev, slots["rx"]})
  /\ UNCHANGED <<linkVars, memVars, xmit, worker, late, fileVars, exposed>>

XmitBegin ==
  /\ Up /\ ~xmit
  /\ xmit' = TRUE
  /\ Touch("xmit", {pdev})
  /\ UNCHANGED <<linkVars, memVars, irq, worker, late, fileVars, exposed>>

(* pval_xmit ends: a worker is scheduled, or the packet copied, or neither.*)
XmitWorker(k) ==
  /\ xmit /\ worker[k] = "none"
  /\ xmit' = FALSE
  /\ worker' = [worker EXCEPT ![k] = "scheduled"]
  /\ Touch("xmit", {pdev})
  /\ UNCHANGED <<linkVars, memVars, irq, late, fileVars, exposed>>

XmitCopy ==
  /\ xmit
  /\ xmit' = FALSE
  /\ Touch("xmit", {pdev} \cup IF "tx" \in opened THEN {slots["tx"]} ELSE {})
  /\ UNCHANGED <<linkVars, memVars, irq, worker, late, fileVars, exposed>>

(* pval_txtstamp_work2: with a timestamp it writes to the ring, without one*)
(* it gives up when it is late.  If the module is gone, so is its code.    *)
WorkerWrites(k) ==
  /\ Scheduled(k) /\ mod # "gone"
  /\ worker' = [worker EXCEPT ![k] = "done"]
  /\ Touch("worker", {pdev, slots["tx"]})
  /\ UNCHANGED <<linkVars, memVars, irq, xmit, late, fileVars, exposed>>

(* Mutant: it goes on for ever.                                            *)
MutGivesUp(k) == FALSE
GivesUp(k) == late[k]

WorkerGivesUp(k) ==
  /\ Scheduled(k) /\ GivesUp(k) /\ mod # "gone"
  /\ worker' = [worker EXCEPT ![k] = "done"]
  /\ UNCHANGED <<linkVars, memVars, irq, xmit, late, fileVars, uaf, exposed>>

WorkerLeft(k) ==
  /\ Scheduled(k) /\ mod = "gone"
  /\ worker' = [worker EXCEPT ![k] = "crashed"]
  /\ uaf' = uaf \cup {"text"}
  /\ UNCHANGED <<linkVars, memVars, irq, xmit, late, fileVars, exposed>>

pval_txtstamp_work2(k) == WorkerWrites(k) \/ WorkerGivesUp(k) \/ WorkerLeft(k)

Expire(k) ==
  /\ Scheduled(k) /\ ~late[k]
  /\ late' = [late EXCEPT ![k] = TRUE]
  /\ UNCHANGED <<linkVars, memVars, irq, xmit, worker, fileVars, uaf, exposed>>

---------------------------------------------------------------------------
(* Files.                                                                  *)

(* misc_open does not open a file of a module that is being removed, and   *)
(* pval_file_open needs the interface by its name.                         *)
pval_file_open(p, r) ==
  /\ file[p] = NoRing /\ r \in misc \ opened
  /\ mod = "in" /\ reg # "failed"
  /\ file' = [file EXCEPT ![p] = r]
  /\ opened' = opened \cup {r}
  /\ Touch(p, {pdev})
  /\ UNCHANGED <<linkVars, memVars, pathVars, exposed>>

(* misc_open of any device looks through the misc devices, also those that *)
(* a failed pval_newlink left behind in freed memory, for which            *)
(* pval_file_open then returns -ENODEV.                                    *)
misc_open ==
  /\ reg = "failed" /\ misc # {}
  /\ Touch("misc", {pdev})
  /\ UNCHANGED <<linkVars, memVars, pathVars, fileVars, exposed>>

(* A read touches the slots if it finds the ring not empty; so may a poll  *)
(* touch the ring only.                                                    *)
pval_file_read_iter(p) ==
  /\ file[p] # NoRing
  /\ \E mem \in {{pdev}, {pdev, slots[file[p]]}} : Touch(p, mem)
  /\ UNCHANGED <<linkVars, memVars, pathVars, fileVars, exposed>>

(* mdev->opened = false.  Mutant: forgotten.                               *)
MutClosed(p) == opened
Closed(p) == opened \ {file[p]}

pval_file_release(p) ==
  /\ file[p] # NoRing
  /\ file' = [file EXCEPT ![p] = NoRing]
  /\ opened' = Closed(p)
  /\ Touch(p, {pdev})
  /\ UNCHANGED <<linkVars, memVars, pathVars, exposed>>

---------------------------------------------------------------------------
Next ==
  \/ pval_init_module \/ ExitBegin \/ pval_exit_module
  \/ pval_newlink \/ pval_open \/ pval_stop \/ synchronize_net \/ DelBegin
  \/ \E r \in Rings : MiscDeregister(r) \/ pval_destroy_ring(r)
  \/ DelEnd
  \/ RxBegin \/ RxTest \/ RxWrite \/ XmitBegin \/ XmitCopy
  \/ \E k \in Pkts : XmitWorker(k) \/ pval_txtstamp_work2(k) \/ Expire(k)
  \/ \E p \in Procs : \/ \E r \in Rings : pval_file_open(p, r)
                      \/ pval_file_read_iter(p) \/ pval_file_release(p)
  \/ misc_open

Spec == Init /\ [][Next]_vars

(***************************************************************************)
(* The kernel runs the scheduled work, and time passes.  Nothing makes a   *)
(* timestamp come.                                                         *)
(***************************************************************************)
FairSpec ==
  /\ Spec
  /\ \A k \in Pkts : /\ WF_vars(WorkerGivesUp(k) \/ WorkerLeft(k))
                     /\ WF_vars(Expire(k))

---------------------------------------------------------------------------
(* Properties.                                                             *)

Memory == {"none", "live", "freed"}
RegState == {"none", "new", "failed", "down", "up", "closing", "del_up", "del_closing",
             "del_down", "gone"}
Actors == Procs \cup {"softirq", "xmit", "worker", "misc", "text", "exit"}

(* Types, and `opened' is set for the rings that are open.                 *)
TypeOK ==
  /\ mod \in {"out", "in", "hollow", "unloading", "gone"}
  /\ reg \in RegState
  /\ listed \in BOOLEAN /\ rxh \in BOOLEAN /\ irq \in {"out", "test", "write"}
  /\ xmit \in BOOLEAN
  /\ pdev \in Memory /\ slots \in [Rings -> Memory]
  /\ misc \subseteq Rings
  /\ worker \in [Pkts -> {"none", "scheduled", "done", "crashed"}]
  /\ late \in [Pkts -> BOOLEAN]
  /\ file \in [Procs -> Rings \cup {NoRing}]
  /\ opened = {file[p] : p \in Procs} \ {NoRing}
  /\ uaf \subseteq Actors /\ exposed \subseteq Actors

(* Freed memory is touched only by those who were using it when it was     *)
(* freed: a file that was open, a worker that was scheduled, the paths of  *)
(* an interface that was up, the misc layer when a pval_newlink failed     *)
(* after its first misc device; and the exit of the module trips only over *)
(* a registration that failed when it was loaded.  An interface that is    *)
(* down, closed by every reader and without workers is deleted without     *)
(* harm, whatever is tried meanwhile.                                      *)
SafeIfQuiet == uaf \subseteq exposed

(* struct pval_dev outlives the receive and transmit paths: pval_stop takes*)
(* the rx handler and the kernel waits for those under way, also when the  *)
(* interface is deleted while it is up.                                    *)
PathsEndFirst == pdev = "freed" => ~rxh /\ irq = "out" /\ ~xmit

(* Once the module is gone no file is open, no interface or rx handler is  *)
(* left, and pval_exit_net had nothing in its list, which it would have    *)
(* queued for nobody.  No misc device and no slots are left either, unless *)
(* a pval_newlink failed, which frees none of those it had made (`XXX:     *)
(* should handle errors').                                                 *)
LeavesNothing ==
  mod = "gone" =>
    /\ \A p \in Procs : file[p] = NoRing
    /\ pdev # "live" /\ ~rxh /\ irq = "out" /\ ~xmit
    /\ ~listed
    /\ reg # "failed" => misc = {} /\ \A r \in Rings : slots[r] # "live"

(***************************************************************************)
(* The inductive invariant behind these: paths run only on an interface    *)
(* that was up, and so do workers start; memory follows the registration,  *)
(* and a misc device that is registered has its slots; whoever holds a     *)
(* pointer to freed memory, or can still come to it, was seen when it was  *)
(* freed.                                                                  *)
(***************************************************************************)
PathsNeedLink ==
  /\ rxh => Up
  /\ irq # "out" \/ xmit => reg \in {"up", "closing", "del_up", "del_closing"}
  /\ \A k \in Pkts : Scheduled(k) => reg \notin {"none", "new", "failed"}

MemoryFollows ==
  /\ pdev = IF reg = "none" THEN "none"
            ELSE IF reg \in {"gone", "failed"} THEN "freed" ELSE "live"
  /\ listed => reg \in {"down", "up", "closing"}
  /\ \A r \in Rings :
       /\ reg = "none" => slots[r] = "none"
       /\ reg \in {"new", "failed"} => slots[r] = IF r \in misc THEN "live" ELSE "none"
       /\ reg \in {"down", "up", "closing"} => slots[r] = "live"
       /\ reg \in {"del_closing", "gone"} => slots[r] = "freed"
       /\ r \in misc => slots[r] = "live"

UsersExposed ==
  /\ \A p \in Procs :
       file[p] # NoRing /\ (pdev = "freed" \/ slots[file[p]] = "freed") => p \in exposed
  /\ reg \in {"del_up", "del_closing"} =>
       /\ slots["tx"] = "freed" => "xmit" \in exposed /\ "worker" \in exposed
       /\ slots["rx"] = "freed" => "softirq" \in exposed
  /\ \A k \in Pkts : Scheduled(k) =>
       /\ slots["tx"] = "freed" => "worker" \in exposed
       /\ mod = "gone" => "text" \in exposed
  /\ reg = "failed" /\ misc # {} => "misc" \in exposed
  /\ mod = "hollow" => "exit" \in exposed

ModuleLast ==
  /\ mod = "gone" => reg \in {"none", "gone", "failed"}
  /\ mod \in {"unloading", "gone"} => Unused

OneReader == \A p, q \in Procs : file[p] = file[q] /\ file[p] # NoRing => p = q

IInv ==
  /\ TypeOK /\ PathsNeedLink /\ MemoryFollows /\ UsersExposed /\ ModuleLast /\ OneReader
  /\ SafeIfQuiet

(* A worker does not reschedule itself for ever.                           *)
WorkersEnd == \A k \in Pkts : Scheduled(k) ~> ~Scheduled(k)
=============================================================================
