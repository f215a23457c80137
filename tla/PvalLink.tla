----------------------------- MODULE PvalLink -----------------------------
(***************************************************************************)
(* The life of the pval interfaces on one lower link (kmod/pval_main.c):   *)
(* newlink, changelink, open, stop and dellink with their error paths, the *)
(* hardware timestamp configuration of the link that they save, overwrite  *)
(* and restore, and the processes that open the misc devices meanwhile.    *)
(*                                                                         *)
(* The rtnetlink handlers run under the RTNL mutex.  An open runs under    *)
(* the misc layer's mutex only, which misc_register and misc_deregister    *)
(* take as well: newlink and dellink are split at those calls.             *)
(***************************************************************************)
EXTENDS Integers, FiniteSets

CONSTANTS
  Devs,        \* pval interfaces, each created at most once
  NumMdevs,    \* misc devices of an interface, two for each CPU
  Procs,
  None,
  Configs,     \* configurations the link starts with and users ask for
  Ioctl,       \* outcomes of SIOC[GS]HWTSTAMP: whether they may succeed, fail
  Failures     \* whether registrations and allocations may fail

Mdevs  == 1..NumMdevs

(* struct hwtstamp_config: tx_type is HWTSTAMP_TX_ON, rx_filter is _ALL.   *)
Config == [tx : BOOLEAN, rx : BOOLEAN]
Zero   == [tx |-> FALSE, rx |-> FALSE]

ASSUME NumAssumption     == NumMdevs \in Nat
ASSUME NoneAssumption    == None \notin Devs \cup Procs
ASSUME ConfigsAssumption == Configs \subseteq Config
ASSUME IoctlAssumption   == Ioctl \subseteq BOOLEAN /\ Failures \in BOOLEAN

VARIABLES
  rtnl,      \* the interface whose newlink or dellink is under way
  reg,       \* registration of each interface
  next,      \* the misc device newlink or dellink comes to next
  want,      \* txtstamp and rxtstamp of each interface
  orig,      \* original_config of each interface
  hw,        \* the configuration of the lower link
  rxh,       \* rx_handler_data of the lower link
  promisc,   \* its promiscuity count
  refs,      \* references pval holds on it
  uppers,    \* the interfaces linked above it
  rings,     \* the rings of each interface that are allocated
  misc,      \* its misc devices that are registered
  misc_mtx,  \* who holds the misc layer's mutex
  ppc,       \* where each process is
  file,      \* the <<interface, misc device>> it opens
  opened,    \* opened of each misc device
  (* history, read by no action of the system: *)
  hw0,       \* hw before the first interface was created
  meddled    \* an ioctl failed, or two interfaces shared the link

linkVars  == <<hw, rxh, promisc, refs, uppers>>
mdevVars  == <<rings, misc, misc_mtx, ppc, file, opened>>
ghostVars == <<hw0, meddled>>
vars      == <<rtnl, reg, next, want, orig, linkVars, mdevVars, ghostVars>>

Init ==
  /\ rtnl = None
  /\ reg = [d \in Devs |-> "none"]
  /\ next = [d \in Devs |-> 1]
  /\ want = [d \in Devs |-> Zero]
  /\ orig = [d \in Devs |-> Zero]
  /\ hw \in Configs /\ hw0 = hw
  /\ rxh = None /\ promisc = 0 /\ refs = 0 /\ uppers = {}
  /\ rings = [d \in Devs |-> {}]
  /\ misc = [d \in Devs |-> {}]
  /\ misc_mtx = None
  /\ ppc = [p \in Procs |-> "none"]
  /\ file = [p \in Procs |-> <<None, 0>>]
  /\ opened = [d \in Devs |-> {}]
  /\ meddled = FALSE

(* Registered interfaces can be found by name, from register_netdevice on  *)
(* until the last step of dellink.                                         *)
Registered(d) == reg[d] \in {"new", "down", "up", "del_down", "del_up"}
Up(d)         == reg[d] \in {"up", "del_up"}

---------------------------------------------------------------------------
(* The hwtstamp ioctls on the lower link.                                  *)

(* Mutant: a switch is turned on and never off.                            *)
MutSetAdds(c, ok) ==
  hw' = IF ok THEN [tx |-> hw.tx \/ c.tx, rx |-> hw.rx \/ c.rx] ELSE hw

(* pval_restore_tstamp_config is this with the saved configuration.        *)
pval_set_tstamp_config(c, ok) == hw' = IF ok THEN c ELSE hw
Meddle(bad) == meddled' = (meddled \/ bad) /\ UNCHANGED hw0

---------------------------------------------------------------------------
(* pval_newlink                                                            *)

(* Parameters, reference on the link, register_netdevice and the link to   *)
(* the lower device.  Either may fail, and the reference stays.            *)
NewBegin(d, c) ==
  /\ rtnl = None /\ reg[d] = "none"
  /\ want' = [want EXCEPT ![d] = c]
  /\ refs' = refs + 1
  /\ \/ /\ reg' = [reg EXCEPT ![d] = "new"]
        /\ uppers' = uppers \cup {d}
        /\ rtnl' = d
     \/ /\ Failures
        /\ reg' = [reg EXCEPT ![d] = "failed"]
        /\ UNCHANGED <<uppers, rtnl>>
  /\ Meddle(\E e \in Devs : Registered(e))
  /\ UNCHANGED <<next, orig, hw, rxh, promisc, mdevVars>>

(* A failure after registration: the interface is unregistered, the misc   *)
(* devices made so far stay.                                               *)
NewFail(d) ==
  /\ Failures
  /\ reg' = [reg EXCEPT ![d] = "failed"]
  /\ rtnl' = None

(* pval_init_ring, then misc_register, for one misc device after the other.*)
InitRing(d) ==
  /\ reg[d] = "new" /\ next[d] \in Mdevs \ rings[d]
  /\ \/ rings' = [rings EXCEPT ![d] = @ \cup {next[d]}] /\ UNCHANGED <<reg, rtnl>>
     \/ NewFail(d) /\ UNCHANGED rings
  /\ UNCHANGED <<next, want, orig, linkVars, misc, misc_mtx, ppc, file, opened, ghostVars>>

MiscRegister(d) ==
  /\ reg[d] = "new" /\ next[d] \in rings[d]
  /\ misc_mtx = None
  /\ \/ /\ misc' = [misc EXCEPT ![d] = @ \cup {next[d]}]
        /\ next' = [next EXCEPT ![d] = @ + 1]
        /\ UNCHANGED <<reg, rtnl, rings>>
     \/ /\ NewFail(d)
        /\ rings' = [rings EXCEPT ![d] = @ \ {next[d]}]
        /\ UNCHANGED <<misc, next>>
  /\ UNCHANGED <<want, orig, linkVars, misc_mtx, ppc, file, opened, ghostVars>>

(* Mutant: the configuration is not saved.                                 *)
MutNotSaved(d, ok) == orig[d]
pval_save_tstamp_config(d, ok) == IF ok THEN hw ELSE orig[d]

(* The configuration is saved; the interface is there, and down.           *)
NewEnd(d, ok) ==
  /\ reg[d] = "new" /\ next[d] > NumMdevs
  /\ orig' = [orig EXCEPT ![d] = pval_save_tstamp_config(d, ok)]
  /\ reg' = [reg EXCEPT ![d] = "down"]
  /\ next' = [next EXCEPT ![d] = 1]
  /\ rtnl' = None
  /\ Meddle(~ok)
  /\ UNCHANGED <<want, linkVars, mdevVars>>

pval_newlink(d) ==
  \/ \E c \in Configs : NewBegin(d, c)
  \/ InitRing(d) \/ MiscRegister(d)
  \/ \E ok \in Ioctl : NewEnd(d, ok)

---------------------------------------------------------------------------
(* pval_changelink sets the configuration of the link, be the interface up *)
(* or not.                                                                 *)
pval_changelink(d, c, ok) ==
  /\ rtnl = None /\ reg[d] \in {"down", "up"}
  /\ want' = [want EXCEPT ![d] = c]
  /\ pval_set_tstamp_config(c, ok)
  /\ Meddle(~ok)
  /\ UNCHANGED <<rtnl, reg, next, orig, rxh, promisc, refs, uppers, mdevVars>>

(* pval_open: -EBUSY if the rx handler is taken; a failure to set          *)
(* promiscuity takes the handler and the configuration back.               *)
RxHandlerBusy == rxh # None

(* Mutant: the error path forgets the handler.                             *)
MutOpenKeepsHandler(d) == d
HandlerAfterError(d) == None

pval_open(d, ok, ok2) ==
  /\ rtnl = None /\ reg[d] = "down"
  /\ ~RxHandlerBusy
  /\ \/ /\ rxh' = d
        /\ pval_set_tstamp_config(want[d], ok)
        /\ promisc' = promisc + 1
        /\ reg' = [reg EXCEPT ![d] = "up"]
        /\ Meddle(~ok)
     \/ /\ Failures
        /\ rxh' = HandlerAfterError(d)
        /\ hw' = IF ok2 THEN orig[d] ELSE IF ok THEN want[d] ELSE hw
        /\ Meddle(~ok \/ ~ok2)
        /\ UNCHANGED <<promisc, reg>>
  /\ UNCHANGED <<rtnl, next, want, orig, refs, uppers, mdevVars>>

(* pval_stop leaves the configuration of the link as it is.                *)
StopLink == rxh' = None /\ promisc' = promisc - 1

pval_stop(d) ==
  /\ rtnl = None /\ reg[d] = "up"
  /\ StopLink
  /\ reg' = [reg EXCEPT ![d] = "down"]
  /\ UNCHANGED <<rtnl, next, want, orig, hw, refs, uppers, mdevVars, ghostVars>>

---------------------------------------------------------------------------
(* pval_dellink                                                            *)

(* dev_put.  Mutants: forgotten; done twice.                               *)
MutNoPut == refs
MutPutTwice == refs - 2
PutLink == refs - 1

(* pval_restore_tstamp_config, dev_put, netdev_upper_dev_unlink; the       *)
(* unregistration is only queued, an interface that is up stays up.        *)
DelBegin(d, ok) ==
  /\ rtnl = None /\ reg[d] \in {"down", "up"}
  /\ pval_set_tstamp_config(orig[d], ok)
  /\ refs' = PutLink
  /\ uppers' = uppers \ {d}
  /\ reg' = [reg EXCEPT ![d] = IF @ = "up" THEN "del_up" ELSE "del_down"]
  /\ rtnl' = d
  /\ Meddle(~ok)
  /\ UNCHANGED <<next, want, orig, rxh, promisc, mdevVars>>

Deleting(d) == reg[d] \in {"del_down", "del_up"}

(* pval_destroy_miscdevice: misc_deregister, then kfree of the slots.      *)
(* Mutant: the other way round.                                            *)
MutRingFirst(d) == next[d] \in misc[d] \cap rings[d]
FreeWhen(d) == next[d] \in rings[d] \ misc[d]

MiscDeregister(d) ==
  /\ Deleting(d) /\ next[d] \in misc[d]
  /\ misc_mtx = None
  /\ misc' = [misc EXCEPT ![d] = @ \ {next[d]}]
  /\ UNCHANGED <<rtnl, reg, next, want, orig, linkVars, rings, misc_mtx, ppc, file, opened,
                 ghostVars>>

DestroyRing(d) ==
  /\ Deleting(d) /\ FreeWhen(d)
  /\ rings' = [rings EXCEPT ![d] = @ \ {next[d]}]
  /\ next' = [next EXCEPT ![d] = @ + 1]
  /\ UNCHANGED <<rtnl, reg, want, orig, linkVars, misc, misc_mtx, ppc, file, opened,
                 ghostVars>>

(* unregister_netdevice_many closes an interface that is up and frees it.  *)
ClosedOnDelete(d) == Up(d)

DelEnd(d) ==
  /\ Deleting(d) /\ next[d] > NumMdevs
  /\ IF ClosedOnDelete(d) THEN StopLink ELSE UNCHANGED <<rxh, promisc>>
  /\ reg' = [reg EXCEPT ![d] = "gone"]
  /\ rtnl' = None
  /\ UNCHANGED <<next, want, orig, hw, refs, uppers, mdevVars, ghostVars>>

DelSteps(d) == MiscDeregister(d) \/ DestroyRing(d) \/ DelEnd(d)

---------------------------------------------------------------------------
(* misc_open finds the misc device and calls pval_file_open, which looks   *)
(* the interface up by name and takes no reference on it.                  *)

MiscOpen(p, d, n) ==
  /\ ppc[p] = "none" /\ misc_mtx = None /\ n \in misc[d]
  /\ misc_mtx' = p
  /\ file' = [file EXCEPT ![p] = <<d, n>>]
  /\ ppc' = [ppc EXCEPT ![p] = "lookup"]
  /\ UNCHANGED <<rtnl, reg, next, want, orig, linkVars, rings, misc, opened, ghostVars>>

(* Mutant: the lookup is made safe with rtnl_lock.                         *)
MutLookupLocked(p) == rtnl = None
LookupMayRun(p) == TRUE

Lookup(p) ==
  LET found == Registered(file[p][1])
  IN  /\ ppc[p] = "lookup" /\ LookupMayRun(p)
      /\ ppc' = [ppc EXCEPT ![p] = IF found THEN "found" ELSE "none"]
      /\ misc_mtx' = IF found THEN misc_mtx ELSE None
      /\ UNCHANGED <<rtnl, reg, next, want, orig, linkVars, rings, misc, file, opened,
                     ghostVars>>

(* -EBUSY, or opened = true and the flush.                                 *)
OpenEnd(p) ==
  LET d == file[p][1]
      n == file[p][2]
  IN  /\ ppc[p] = "found"
      /\ ppc' = [ppc EXCEPT ![p] = IF n \in opened[d] THEN "none" ELSE "open"]
      /\ opened' = [opened EXCEPT ![d] = @ \cup {n}]
      /\ misc_mtx' = None
      /\ UNCHANGED <<rtnl, reg, next, want, orig, linkVars, rings, misc, file, ghostVars>>

pval_file_release(p) ==
  /\ ppc[p] = "open"
  /\ ppc' = [ppc EXCEPT ![p] = "none"]
  /\ opened' = [opened EXCEPT ![file[p][1]] = @ \ {file[p][2]}]
  /\ UNCHANGED <<rtnl, reg, next, want, orig, linkVars, rings, misc, misc_mtx, file,
                 ghostVars>>

Next ==
  \/ \E d \in Devs :
       \/ pval_newlink(d)
       \/ \E c \in Configs, ok \in Ioctl : pval_changelink(d, c, ok)
       \/ \E ok, ok2 \in Ioctl : pval_open(d, ok, ok2)
       \/ pval_stop(d)
       \/ \E ok \in Ioctl : DelBegin(d, ok)
       \/ DelSteps(d)
       \/ \E p \in Procs, n \in Mdevs : MiscOpen(p, d, n)
  \/ \E p \in Procs : Lookup(p) \/ OpenEnd(p) \/ pval_file_release(p)

(***************************************************************************)
(* A dellink that has started runs on, and gets misc_mtx in its turn (a    *)
(* kernel mutex is handed to its waiters); so does an open.                *)
(***************************************************************************)
Spec == Init /\ [][Next]_vars

FairSpec ==
  /\ Spec
  /\ \A d \in Devs : /\ SF_vars(MiscDeregister(d))
                     /\ WF_vars(DestroyRing(d)) /\ WF_vars(DelEnd(d))
  /\ \A p \in Procs : WF_vars(Lookup(p)) /\ WF_vars(OpenEnd(p))

---------------------------------------------------------------------------
(* Properties.                                                             *)

RegState == {"none", "new", "down", "up", "del_down", "del_up", "gone", "failed"}

TypeOK ==
  /\ rtnl \in Devs \cup {None}
  /\ reg \in [Devs -> RegState]
  /\ next \in [Devs -> 1..(NumMdevs + 1)]
  /\ want \in [Devs -> Config] /\ orig \in [Devs -> Config]
  /\ hw \in Config /\ hw0 \in Config
  /\ rxh \in Devs \cup {None}
  /\ promisc \in Nat /\ refs \in Nat
  /\ uppers \subseteq Devs
  /\ rings \in [Devs -> SUBSET Mdevs] /\ misc \in [Devs -> SUBSET Mdevs]
  /\ misc_mtx \in Procs \cup {None}
  /\ ppc \in [Procs -> {"none", "lookup", "found", "open"}]
  /\ file \in [Procs -> (Devs \cup {None}) \X (0..NumMdevs)]
  /\ opened \in [Devs -> SUBSET Mdevs]
  /\ meddled \in BOOLEAN

(* The rx handler and the promiscuity of the link belong to the interface  *)
(* that is up, and to no other: EBUSY keeps a second one down, and neither *)
(* a failing open nor a dellink of an interface that is up loses count.    *)
LinkOwnedByUp ==
  /\ \A d \in Devs : rxh = d <=> Up(d)
  /\ promisc = Cardinality({d \in Devs : Up(d)})

(* While pval_file_open works on a misc device, its ring is allocated and  *)
(* its interface is there, although it holds no reference: misc_deregister *)
(* waits for it.  A newlink that fails does not.                           *)
OpenFindsRing ==
  \A p \in Procs : ppc[p] = "found" =>
    \/ reg[file[p][1]] = "failed"
    \/ Registered(file[p][1]) /\ file[p][2] \in rings[file[p][1]]

(* Outside newlink and dellink, an interface has all of its rings and misc *)
(* devices: pval_xmit and the rx handler, which use them unasked, find     *)
(* them.  Once it is gone, nothing of it is left on the link.              *)
AllOrNothing ==
  /\ \A d \in Devs :
       /\ reg[d] \in {"down", "up"} => rings[d] = Mdevs /\ misc[d] = Mdevs
       /\ reg[d] = "gone" => rings[d] = {} /\ misc[d] = {} /\ d \notin uppers
  /\ (\A d \in Devs : reg[d] \in {"none", "gone"}) =>
       refs = 0 /\ uppers = {} /\ promisc = 0 /\ rxh = None

(* An interface that is up has the link configured as its switches say,    *)
(* when the ioctls work and no other interface was on the link.            *)
TstampAsConfigured ==
  \A d \in Devs : reg[d] = "up" /\ ~meddled => hw = want[d]

(* When the ioctls work, deleting the only interface of a link gives the   *)
(* link the configuration back that it had.                                *)
RestoredIfAlone ==
  ~meddled /\ (\A d \in Devs : ~Registered(d)) => hw = hw0

(* dellink, which holds the RTNL mutex and waits for misc_mtx, ends.       *)
DeleteEnds == \A d \in Devs : Deleting(d) ~> reg[d] = "gone"
=============================================================================
