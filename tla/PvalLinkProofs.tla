--------------------------- MODULE PvalLinkProofs ---------------------------
(***************************************************************************)
(* Proofs about PvalLink for every set of interfaces and processes and any *)
(* number of misc devices.                                                 *)
(*                                                                         *)
(* The parts of the inductive invariant:                                   *)
(***************************************************************************)
EXTENDS PvalLink, FiniteSetTheorems, TLAPS

(* newlink and dellink hold the RTNL mutex from their first step to their  *)
(* last.                                                                   *)
RtnlHeld == \A d \in Devs : rtnl = d <=> reg[d] \in {"new", "del_down", "del_up"}

(* The rx handler is its owner's, and nobody else is up.                   *)
OneUp ==
  /\ \A d \in Devs : rxh = d <=> Up(d)
  /\ promisc = IF rxh = None THEN 0 ELSE 1

(* Who has a reference on the lower link: what newlink has taken, dellink  *)
(* gives back, and a newlink that fails does not.                          *)
Holders == {d \in Devs : reg[d] \in {"new", "down", "up", "failed"}}

RefsCounted ==
  /\ IsFiniteSet(Holders) /\ refs = Cardinality(Holders)
  /\ uppers \subseteq Holders

(* How far newlink and dellink have come with rings and misc devices.      *)
Progress ==
  \A d \in Devs :
    /\ misc[d] \subseteq rings[d]
    /\ reg[d] = "none" => next[d] = 1 /\ rings[d] = {}
    /\ reg[d] = "new" =>
         /\ misc[d] = 1..(next[d] - 1)
         /\ rings[d] \subseteq 1..next[d]
    /\ reg[d] \in {"down", "up"} => next[d] = 1 /\ misc[d] = Mdevs
    /\ reg[d] \in {"del_down", "del_up"} =>
         /\ rings[d] = next[d]..NumMdevs
         /\ (next[d] + 1)..NumMdevs \subseteq misc[d]
    /\ reg[d] = "gone" => rings[d] = {}

(* An open under way holds the misc layer's mutex, and what it has found   *)
(* stays registered as a misc device for that long.                        *)
OpenHolds ==
  \A p \in Procs :
    /\ misc_mtx = p <=> ppc[p] \in {"lookup", "found"}
    /\ ppc[p] # "none" => file[p] \in Devs \X Mdevs
    /\ ppc[p] \in {"lookup", "found"} => file[p][2] \in misc[file[p][1]]
    /\ ppc[p] = "found" => reg[file[p][1]] \notin {"none", "gone"}

(* With ioctls that work and one interface at a time on the link: the saved*)
(* configuration is the one from before, and so is the link's own until    *)
(* newlink is over and from the first step of dellink on.                  *)
ConfigKnown ==
  ~meddled =>
    /\ \A d, e \in Devs : Registered(d) /\ Registered(e) => d = e
    /\ \A d \in Devs : /\ reg[d] \in {"down", "up"} => orig[d] = hw0
                       /\ reg[d] \in {"new", "del_down", "del_up"} => hw = hw0
                       /\ reg[d] = "up" => hw = want[d]
    /\ (\A d \in Devs : ~Registered(d)) => hw = hw0

IInv ==
  /\ TypeOK
  /\ RtnlHeld /\ OneUp /\ RefsCounted /\ Progress /\ OpenHolds /\ ConfigKnown

USE DEF linkVars, mdevVars, ghostVars

---------------------------------------------------------------------------
(* What the assignment to one interface's registration leaves of the rest. *)
LEMMA RegAt ==
  ASSUME TypeOK, NEW d \in Devs, NEW s \in RegState, reg' = [reg EXCEPT ![d] = s]
  PROVE  /\ reg' \in [Devs -> RegState]
         /\ \A e \in Devs : reg'[e] = IF e = d THEN s ELSE reg[e]
  BY DEF TypeOK

(* A reference taken.                                                      *)
LEMMA HoldersAdd ==
  ASSUME RefsCounted, NEW d \in Devs, d \notin Holders,
         Holders' = Holders \cup {d}, refs' = refs + 1, uppers' \subseteq uppers \cup {d}
  PROVE  RefsCounted' /\ refs' \in Nat
<1>1. IsFiniteSet(Holders) /\ Cardinality(Holders) \in Nat
  BY FS_CardinalityType DEF RefsCounted
<1>2. /\ IsFiniteSet(Holders \cup {d})
      /\ Cardinality(Holders \cup {d}) = Cardinality(Holders) + 1
  BY <1>1, FS_AddElement
<1> QED
  BY <1>1, <1>2 DEF RefsCounted

(* A reference given back.                                                 *)
LEMMA HoldersRemove ==
  ASSUME RefsCounted, NEW d \in Devs, d \in Holders,
         Holders' = Holders \ {d}, refs' = refs - 1, uppers' = uppers \ {d}
  PROVE  RefsCounted' /\ refs' \in Nat
<1>1. IsFiniteSet(Holders) /\ Cardinality(Holders) \in Nat
  BY FS_CardinalityType DEF RefsCounted
<1>2. /\ IsFiniteSet(Holders \ {d})
      /\ Cardinality(Holders \ {d}) = Cardinality(Holders) - 1
  BY <1>1, FS_RemoveElement
<1>3. Cardinality(Holders \ {d}) \in Nat
  BY <1>2, FS_CardinalityType
<1> QED
  BY <1>1, <1>2, <1>3 DEF RefsCounted

(* No reference changes hands.                                             *)
LEMMA HoldersSame ==
  ASSUME RefsCounted, Holders' = Holders, UNCHANGED <<refs, uppers>>
  PROVE  RefsCounted'
  BY DEF RefsCounted

---------------------------------------------------------------------------
(* The first step of newlink.                                              *)
LEMMA NewBeginKeeps ==
  ASSUME IInv, NEW d \in Devs, NEW c \in Configs, NewBegin(d, c)
  PROVE  IInv'
<1> USE DEF IInv
<1>same. /\ UNCHANGED <<next, orig, hw, rxh, promisc, rings, misc, misc_mtx, ppc, file>>
         /\ UNCHANGED <<opened, hw0>>
         /\ rtnl = None /\ reg[d] = "none" /\ refs' = refs + 1
  BY DEF NewBegin, Meddle
<1>0. None \notin Devs
  BY NoneAssumption
<1>1. /\ want' \in [Devs -> Config]
      /\ \A e \in Devs : e # d => want'[e] = want[e]
  BY ConfigsAssumption DEF NewBegin, TypeOK
<1>2. PICK s \in {"new", "failed"} :
        /\ reg' = [reg EXCEPT ![d] = s]
        /\ s = "new" => rtnl' = d /\ uppers' = uppers \cup {d}
        /\ s = "failed" => rtnl' = rtnl /\ uppers' = uppers
  BY DEF NewBegin
<1>3. /\ reg' \in [Devs -> RegState]
      /\ \A e \in Devs : reg'[e] = IF e = d THEN s ELSE reg[e]
  BY <1>2, RegAt DEF RegState
<1>4. /\ meddled' \in BOOLEAN
      /\ ~meddled' => ~meddled /\ \A e \in Devs : ~Registered(e)
  BY DEF NewBegin, Meddle, TypeOK
<1>5. RefsCounted' /\ refs' \in Nat
  <2>1. Holders' = Holders \cup {d} /\ d \notin Holders
    BY <1>same, <1>3 DEF Holders
  <2> QED
    BY <1>same, <1>2, <2>1, HoldersAdd
<1>6. TypeOK'
  BY <1>same, <1>1, <1>2, <1>3, <1>4, <1>5 DEF TypeOK
<1>7. RtnlHeld' /\ OneUp'
  BY <1>same, <1>0, <1>2, <1>3 DEF RtnlHeld, OneUp, Up
<1>8. Progress'
  <2>1. misc[d] = {} /\ rings[d] = {} /\ next[d] = 1 /\ 1..(1 - 1) = {}
    BY <1>same DEF Progress
  <2> QED
    BY <1>same, <1>3, <2>1 DEF Progress
<1>9. OpenHolds'
  BY <1>same, <1>3 DEF OpenHolds, Progress
<1>10. ConfigKnown'
  BY <1>same, <1>1, <1>3, <1>4 DEF ConfigKnown, Registered
<1> QED
  BY <1>5, <1>6, <1>7, <1>8, <1>9, <1>10

(* A newlink that fails after register_netdevice.                          *)
LEMMA NewFailKeeps ==
  ASSUME IInv, NEW d \in Devs, NewFail(d), reg[d] = "new",
         NEW S \in SUBSET {next[d]}, rings' = [rings EXCEPT ![d] = rings[d] \ S],
         UNCHANGED <<next, want, orig, linkVars, misc, misc_mtx, ppc, file, opened, ghostVars>>
  PROVE  IInv'
<1> USE DEF IInv
<1>0. None \notin Devs
  BY NoneAssumption
<1>1. /\ reg' \in [Devs -> RegState]
      /\ \A e \in Devs : reg'[e] = IF e = d THEN "failed" ELSE reg[e]
      /\ rtnl' = None
  BY RegAt DEF NewFail, RegState
<1>2. /\ rings' \in [Devs -> SUBSET Mdevs]
      /\ \A e \in Devs : rings'[e] = IF e = d THEN rings[d] \ S ELSE rings[e]
  BY DEF TypeOK
<1>3. TypeOK'
  BY <1>1, <1>2 DEF TypeOK
<1>4. RtnlHeld' /\ OneUp'
  BY <1>0, <1>1 DEF RtnlHeld, OneUp, Up
<1>5. RefsCounted'
  <2>1. Holders' = Holders
    BY <1>1 DEF Holders
  <2> QED
    BY <2>1, HoldersSame
<1>6. Progress'
  <2>1. misc[d] \subseteq rings[d] \ S
    <3>1. next[d] \in Nat
      BY NumAssumption DEF TypeOK
    <3> QED
      BY <3>1 DEF Progress
  <2> QED
    BY <1>1, <1>2, <2>1 DEF Progress
<1>7. OpenHolds'
  BY <1>1 DEF OpenHolds
<1>8. ConfigKnown'
  BY <1>1 DEF ConfigKnown, Registered
<1> QED
  BY <1>3, <1>4, <1>5, <1>6, <1>7, <1>8

(* pval_init_ring.                                                         *)
LEMMA InitRingKeeps ==
  ASSUME IInv, NEW d \in Devs, InitRing(d)
  PROVE  IInv'
<1> USE DEF IInv
<1>same. /\ UNCHANGED <<next, want, orig, hw, rxh, promisc, refs, uppers, misc, misc_mtx>>
         /\ UNCHANGED <<ppc, file, opened, hw0, meddled>>
         /\ reg[d] = "new" /\ next[d] \in Mdevs \ rings[d]
  BY DEF InitRing
<1>1. CASE NewFail(d) /\ UNCHANGED rings
  <2>1. rings' = [rings EXCEPT ![d] = rings[d] \ {}] /\ {} \in SUBSET {next[d]}
    BY <1>1 DEF TypeOK
  <2> QED
    BY <1>same, <1>1, <2>1, NewFailKeeps
<1>2. CASE rings' = [rings EXCEPT ![d] = rings[d] \cup {next[d]}] /\ UNCHANGED <<reg, rtnl>>
  <2>1. /\ rings' \in [Devs -> SUBSET Mdevs]
        /\ \A e \in Devs : rings'[e] = IF e = d THEN rings[d] \cup {next[d]} ELSE rings[e]
    BY <1>same, <1>2 DEF TypeOK
  <2>2. TypeOK'
    BY <1>same, <1>2, <2>1 DEF TypeOK
  <2>3. RtnlHeld' /\ OneUp' /\ ConfigKnown'
    BY <1>same, <1>2 DEF RtnlHeld, OneUp, Up, ConfigKnown, Registered
  <2>4. RefsCounted'
    <3>1. Holders' = Holders
      BY <1>2 DEF Holders
    <3> QED
      BY <1>same, <3>1, HoldersSame
  <2>5. Progress'
    <3>1. next[d] \in 1..next[d]
      BY <1>same, NumAssumption DEF Mdevs
    <3> QED
      BY <1>same, <1>2, <2>1, <3>1 DEF Progress
  <2>6. OpenHolds'
    BY <1>same, <1>2 DEF OpenHolds
  <2> QED
    BY <2>2, <2>3, <2>4, <2>5, <2>6
<1> QED
  BY <1>1, <1>2 DEF InitRing

(* misc_register.                                                          *)
LEMMA MiscRegisterKeeps ==
  ASSUME IInv, NEW d \in Devs, MiscRegister(d)
  PROVE  IInv'
<1> USE DEF IInv
<1>same. /\ UNCHANGED <<want, orig, hw, rxh, promisc, refs, uppers, misc_mtx>>
         /\ UNCHANGED <<ppc, file, opened, hw0, meddled>>
         /\ reg[d] = "new" /\ next[d] \in rings[d] /\ misc_mtx = None
  BY DEF MiscRegister
<1>1. CASE /\ NewFail(d)
           /\ rings' = [rings EXCEPT ![d] = rings[d] \ {next[d]}]
           /\ UNCHANGED <<misc, next>>
  BY <1>same, <1>1, NewFailKeeps
<1>2. CASE /\ misc' = [misc EXCEPT ![d] = misc[d] \cup {next[d]}]
           /\ next' = [next EXCEPT ![d] = next[d] + 1]
           /\ UNCHANGED <<reg, rtnl, rings>>
  <2>0. next[d] \in Nat /\ next[d] \in 1..NumMdevs /\ NumMdevs \in Nat
    BY <1>same, NumAssumption DEF TypeOK, Mdevs
  <2>1. /\ misc' \in [Devs -> SUBSET Mdevs]
        /\ \A e \in Devs : misc'[e] = IF e = d THEN misc[d] \cup {next[d]} ELSE misc[e]
    BY <1>same, <1>2 DEF TypeOK
  <2>2. /\ next' \in [Devs -> 1..(NumMdevs + 1)]
        /\ \A e \in Devs : next'[e] = IF e = d THEN next[d] + 1 ELSE next[e]
    BY <1>2, <2>0 DEF TypeOK
  <2>3. TypeOK'
    BY <1>same, <1>2, <2>1, <2>2 DEF TypeOK
  <2>4. RtnlHeld' /\ OneUp' /\ ConfigKnown'
    BY <1>same, <1>2 DEF RtnlHeld, OneUp, Up, ConfigKnown, Registered
  <2>5. RefsCounted'
    <3>1. Holders' = Holders
      BY <1>2 DEF Holders
    <3> QED
      BY <1>same, <3>1, HoldersSame
  <2>6. Progress'
    <3>1. misc'[d] = 1..(next'[d] - 1) /\ rings[d] \subseteq 1..next'[d]
      <4>1. misc[d] = 1..(next[d] - 1) /\ rings[d] \subseteq 1..next[d]
        BY <1>same DEF Progress
      <4>2. next'[d] = next[d] + 1 /\ misc'[d] = misc[d] \cup {next[d]}
        BY <2>1, <2>2
      <4>3. 1..(next[d] + 1 - 1) = (1..(next[d] - 1)) \cup {next[d]}
        BY <2>0
      <4>4. 1..next[d] \subseteq 1..(next[d] + 1)
        BY <2>0
      <4> QED
        BY <4>1, <4>2, <4>3, <4>4
    <3> QED
      BY <1>same, <1>2, <2>1, <2>2, <3>1 DEF Progress
  <2>7. OpenHolds'
    BY <1>same, <1>2, <2>1 DEF OpenHolds
  <2> QED
    BY <2>3, <2>4, <2>5, <2>6, <2>7
<1> QED
  BY <1>1, <1>2 DEF MiscRegister

(* The last step of newlink: the configuration is saved.                   *)
LEMMA NewEndKeeps ==
  ASSUME IInv, NEW d \in Devs, NEW ok \in Ioctl, NewEnd(d, ok)
  PROVE  IInv'
<1> USE DEF IInv
<1>same. /\ UNCHANGED <<want, hw, rxh, promisc, refs, uppers, rings, misc, misc_mtx, ppc>>
         /\ UNCHANGED <<file, opened, hw0>>
         /\ reg[d] = "new" /\ next[d] > NumMdevs /\ rtnl' = None
  BY DEF NewEnd, Meddle
<1>0. None \notin Devs /\ ok \in BOOLEAN
  BY NoneAssumption, IoctlAssumption
<1>1. /\ reg' \in [Devs -> RegState]
      /\ \A e \in Devs : reg'[e] = IF e = d THEN "down" ELSE reg[e]
  BY RegAt DEF NewEnd, RegState
<1>2. /\ next' \in [Devs -> 1..(NumMdevs + 1)]
      /\ \A e \in Devs : next'[e] = IF e = d THEN 1 ELSE next[e]
  BY NumAssumption DEF NewEnd, TypeOK
<1>3. /\ orig' \in [Devs -> Config]
      /\ \A e \in Devs : e # d => orig'[e] = orig[e]
      /\ ok => orig'[d] = hw
  BY DEF NewEnd, TypeOK, pval_save_tstamp_config
<1>4. meddled' \in BOOLEAN /\ (~meddled' => ~meddled /\ ok)
  BY <1>0 DEF NewEnd, Meddle, TypeOK
<1>5. TypeOK'
  BY <1>same, <1>1, <1>2, <1>3, <1>4 DEF TypeOK
<1>6. RtnlHeld' /\ OneUp'
  BY <1>same, <1>0, <1>1 DEF RtnlHeld, OneUp, Up
<1>7. RefsCounted'
  <2>1. Holders' = Holders
    BY <1>same, <1>1 DEF Holders
  <2> QED
    BY <1>same, <2>1, HoldersSame
<1>8. Progress'
  <2>1. next[d] - 1 = NumMdevs
    <3>1. next[d] = NumMdevs + 1
      BY <1>same, NumAssumption DEF TypeOK
    <3> QED
      BY <3>1, NumAssumption
  <2>2. misc[d] = 1..(next[d] - 1)
    BY <1>same DEF Progress
  <2>3. misc[d] = Mdevs
    BY <2>1, <2>2 DEF Mdevs
  <2> QED
    BY <1>same, <1>1, <1>2, <2>3 DEF Progress
<1>9. OpenHolds'
  BY <1>same, <1>1 DEF OpenHolds
<1>10. ConfigKnown'
  BY <1>same, <1>1, <1>3, <1>4 DEF ConfigKnown, Registered
<1> QED
  BY <1>5, <1>6, <1>7, <1>8, <1>9, <1>10

(* changelink.                                                             *)
LEMMA ChangeKeeps ==
  ASSUME IInv, NEW d \in Devs, NEW c \in Configs, NEW ok \in Ioctl, pval_changelink(d, c, ok)
  PROVE  IInv'
<1> USE DEF IInv
<1>same. /\ UNCHANGED <<rtnl, reg, next, orig, rxh, promisc, refs, uppers, rings, misc>>
         /\ UNCHANGED <<misc_mtx, ppc, file, opened, hw0>>
         /\ reg[d] \in {"down", "up"}
  BY DEF pval_changelink, Meddle
<1>0. ok \in BOOLEAN /\ c \in Config
  BY IoctlAssumption, ConfigsAssumption
<1>1. /\ want' \in [Devs -> Config]
      /\ \A e \in Devs : want'[e] = IF e = d THEN c ELSE want[e]
  BY <1>0 DEF pval_changelink, TypeOK
<1>2. hw' = (IF ok THEN c ELSE hw) /\ hw' \in Config
  BY <1>0 DEF pval_changelink, pval_set_tstamp_config, TypeOK
<1>3. meddled' \in BOOLEAN /\ (~meddled' => ~meddled /\ ok)
  BY <1>0 DEF pval_changelink, Meddle, TypeOK
<1>4. TypeOK'
  BY <1>same, <1>1, <1>2, <1>3 DEF TypeOK
<1>5. RtnlHeld' /\ OneUp'
  BY <1>same DEF RtnlHeld, OneUp, Up
<1>6. RefsCounted'
  BY <1>same DEF RefsCounted, Holders
<1>7. Progress' /\ OpenHolds'
  BY <1>same DEF Progress, OpenHolds
<1>8. ConfigKnown'
  BY <1>same, <1>1, <1>2, <1>3 DEF ConfigKnown, Registered
<1> QED
  BY <1>4, <1>5, <1>6, <1>7, <1>8

(* An interface that is down is opened, or is not.                         *)
LEMMA OpenKeeps ==
  ASSUME IInv, NEW d \in Devs, NEW ok \in Ioctl, NEW ok2 \in Ioctl, pval_open(d, ok, ok2)
  PROVE  IInv'
<1> USE DEF IInv
<1>same. /\ UNCHANGED <<rtnl, next, want, orig, refs, uppers, rings, misc, misc_mtx, ppc>>
         /\ UNCHANGED <<file, opened, hw0>>
         /\ rtnl = None /\ reg[d] = "down" /\ rxh = None
  BY DEF pval_open, Meddle, RxHandlerBusy
<1>0. None \notin Devs /\ ok \in BOOLEAN /\ ok2 \in BOOLEAN
  BY NoneAssumption, IoctlAssumption
<1>1. CASE /\ rxh' = d /\ pval_set_tstamp_config(want[d], ok) /\ promisc' = promisc + 1
           /\ reg' = [reg EXCEPT ![d] = "up"] /\ Meddle(~ok)
  <2>1. /\ reg' \in [Devs -> RegState]
        /\ \A e \in Devs : reg'[e] = IF e = d THEN "up" ELSE reg[e]
    BY <1>1, RegAt DEF RegState
  <2>2. hw' = (IF ok THEN want[d] ELSE hw) /\ hw' \in Config
    BY <1>0, <1>1 DEF pval_set_tstamp_config, TypeOK
  <2>3. meddled' \in BOOLEAN /\ (~meddled' => ~meddled /\ ok)
    BY <1>0, <1>1 DEF Meddle, TypeOK
  <2>4. RtnlHeld' /\ OneUp'
    BY <1>same, <1>0, <1>1, <2>1 DEF RtnlHeld, OneUp, Up
  <2>5. TypeOK'
    BY <1>same, <1>1, <2>1, <2>2, <2>3 DEF TypeOK
  <2>6. RefsCounted'
    <3>1. Holders' = Holders
      BY <1>same, <2>1 DEF Holders
    <3> QED
      BY <1>same, <3>1, HoldersSame
  <2>7. Progress' /\ OpenHolds'
    BY <1>same, <2>1 DEF Progress, OpenHolds
  <2>8. ConfigKnown'
    BY <1>same, <2>1, <2>2, <2>3 DEF ConfigKnown, Registered
  <2> QED
    BY <2>4, <2>5, <2>6, <2>7, <2>8
<1>2. CASE /\ rxh' = None /\ Meddle(~ok \/ ~ok2) /\ UNCHANGED <<promisc, reg>>
           /\ hw' = IF ok2 THEN orig[d] ELSE IF ok THEN want[d] ELSE hw
  <2>1. hw' \in Config
    BY <1>0, <1>2 DEF TypeOK
  <2>2. meddled' \in BOOLEAN /\ (~meddled' => ~meddled /\ hw' = orig[d])
    BY <1>0, <1>2 DEF Meddle, TypeOK
  <2>3. TypeOK'
    BY <1>same, <1>2, <2>1, <2>2 DEF TypeOK
  <2>4. RtnlHeld' /\ OneUp'
    BY <1>same, <1>2 DEF RtnlHeld, OneUp, Up
  <2>5. RefsCounted'
    BY <1>same, <1>2 DEF RefsCounted, Holders
  <2>6. Progress' /\ OpenHolds'
    BY <1>same, <1>2 DEF Progress, OpenHolds
  <2>7. ConfigKnown'
    BY <1>same, <1>2, <2>2 DEF ConfigKnown, Registered
  <2> QED
    BY <2>3, <2>4, <2>5, <2>6, <2>7
<1> QED
  BY <1>1, <1>2 DEF pval_open, HandlerAfterError

(* An interface that is up is closed.                                      *)
LEMMA StopKeeps ==
  ASSUME IInv, NEW d \in Devs, pval_stop(d)
  PROVE  IInv'
<1> USE DEF IInv
<1>same. /\ UNCHANGED <<rtnl, next, want, orig, hw, refs, uppers, rings, misc, misc_mtx>>
         /\ UNCHANGED <<ppc, file, opened, hw0, meddled>>
         /\ reg[d] = "up" /\ rxh' = None /\ promisc' = promisc - 1
  BY DEF pval_stop, StopLink
<1>0. None \notin Devs
  BY NoneAssumption
<1>1. /\ reg' \in [Devs -> RegState]
      /\ \A e \in Devs : reg'[e] = IF e = d THEN "down" ELSE reg[e]
  BY RegAt DEF pval_stop, RegState
<1>2. rxh = d /\ promisc' = 0
  BY <1>same, <1>0 DEF OneUp, Up
<1>3. TypeOK'
  BY <1>same, <1>1, <1>2 DEF TypeOK
<1>4. RtnlHeld' /\ OneUp'
  BY <1>same, <1>0, <1>1, <1>2 DEF RtnlHeld, OneUp, Up
<1>5. RefsCounted'
  <2>1. Holders' = Holders
    BY <1>same, <1>1 DEF Holders
  <2> QED
    BY <1>same, <2>1, HoldersSame
<1>6. Progress' /\ OpenHolds'
  BY <1>same, <1>1 DEF Progress, OpenHolds
<1>7. ConfigKnown'
  BY <1>same, <1>1 DEF ConfigKnown, Registered
<1> QED
  BY <1>3, <1>4, <1>5, <1>6, <1>7

(* The first step of dellink.                                              *)
LEMMA DelBeginKeeps ==
  ASSUME IInv, NEW d \in Devs, NEW ok \in Ioctl, DelBegin(d, ok)
  PROVE  IInv'
<1> USE DEF IInv
<1>same. /\ UNCHANGED <<next, want, orig, rxh, promisc, rings, misc, misc_mtx, ppc, file>>
         /\ UNCHANGED <<opened, hw0>>
         /\ rtnl = None /\ reg[d] \in {"down", "up"}
         /\ refs' = refs - 1 /\ uppers' = uppers \ {d} /\ rtnl' = d
  BY DEF DelBegin, PutLink, Meddle
<1>0. None \notin Devs /\ ok \in BOOLEAN
  BY NoneAssumption, IoctlAssumption
<1>1. PICK s \in {"del_up", "del_down"} :
        reg' = [reg EXCEPT ![d] = s] /\ (s = "del_up" <=> reg[d] = "up")
  BY DEF DelBegin
<1>2. /\ reg' \in [Devs -> RegState]
      /\ \A e \in Devs : reg'[e] = IF e = d THEN s ELSE reg[e]
  BY <1>1, RegAt DEF RegState
<1>3. hw' = (IF ok THEN orig[d] ELSE hw) /\ hw' \in Config
  BY <1>0 DEF DelBegin, pval_set_tstamp_config, TypeOK
<1>4. meddled' \in BOOLEAN /\ (~meddled' => ~meddled /\ ok)
  BY <1>0 DEF DelBegin, Meddle, TypeOK
<1>5. RefsCounted' /\ refs' \in Nat
  <2>1. Holders' = Holders \ {d} /\ d \in Holders
    BY <1>same, <1>2 DEF Holders
  <2> QED
    BY <1>same, <2>1, HoldersRemove
<1>6. TypeOK'
  BY <1>same, <1>2, <1>3, <1>4, <1>5 DEF TypeOK
<1>7. RtnlHeld' /\ OneUp'
  BY <1>same, <1>0, <1>1, <1>2 DEF RtnlHeld, OneUp, Up
<1>8. Progress'
  <2>1. next[d] = 1 /\ misc[d] = Mdevs /\ rings[d] = Mdevs
    <3>1. next[d] = 1 /\ misc[d] = Mdevs /\ misc[d] \subseteq rings[d]
      BY <1>same DEF Progress
    <3>2. rings[d] \subseteq Mdevs
      BY DEF TypeOK
    <3> QED
      BY <3>1, <3>2
  <2>2. Mdevs = 1..NumMdevs /\ (1 + 1)..NumMdevs \subseteq Mdevs
    BY NumAssumption DEF Mdevs
  <2> QED
    BY <1>same, <1>2, <2>1, <2>2 DEF Progress
<1>9. OpenHolds'
  BY <1>same, <1>2 DEF OpenHolds
<1>10. ConfigKnown'
  BY <1>same, <1>2, <1>3, <1>4 DEF ConfigKnown, Registered
<1> QED
  BY <1>5, <1>6, <1>7, <1>8, <1>9, <1>10

(* misc_deregister, which waits for the opens that are under way.          *)
LEMMA MiscDeregisterKeeps ==
  ASSUME IInv, NEW d \in Devs, MiscDeregister(d)
  PROVE  IInv'
<1> USE DEF IInv
<1>same. /\ UNCHANGED <<rtnl, reg, next, want, orig, hw, rxh, promisc, refs, uppers, rings>>
         /\ UNCHANGED <<misc_mtx, ppc, file, opened, hw0, meddled>>
         /\ reg[d] \in {"del_down", "del_up"} /\ next[d] \in misc[d] /\ misc_mtx = None
  BY DEF MiscDeregister, Deleting
<1>1. /\ misc' \in [Devs -> SUBSET Mdevs]
      /\ \A e \in Devs : misc'[e] = IF e = d THEN misc[d] \ {next[d]} ELSE misc[e]
  BY DEF MiscDeregister, TypeOK
<1>2. TypeOK'
  BY <1>same, <1>1 DEF TypeOK
<1>3. RtnlHeld' /\ OneUp' /\ ConfigKnown'
  BY <1>same DEF RtnlHeld, OneUp, Up, ConfigKnown, Registered
<1>4. RefsCounted'
  BY <1>same DEF RefsCounted, Holders
<1>5. Progress'
  <2>1. (next[d] + 1)..NumMdevs \subseteq misc'[d]
    <3>1. next[d] \in Nat /\ (next[d] + 1)..NumMdevs \subseteq misc[d]
      BY <1>same, NumAssumption DEF Progress, TypeOK
    <3>2. next[d] \notin (next[d] + 1)..NumMdevs
      BY <3>1, NumAssumption
    <3> QED
      BY <1>1, <3>1, <3>2
  <2> QED
    BY <1>same, <1>1, <2>1 DEF Progress
<1>6. OpenHolds'
  <2>1. \A p \in Procs : ppc[p] \notin {"lookup", "found"}
    BY <1>same, NoneAssumption DEF OpenHolds
  <2> QED
    BY <1>same, <2>1 DEF OpenHolds
<1> QED
  BY <1>2, <1>3, <1>4, <1>5, <1>6

(* kfree of the slots.                                                     *)
LEMMA DestroyRingKeeps ==
  ASSUME IInv, NEW d \in Devs, DestroyRing(d)
  PROVE  IInv'
<1> USE DEF IInv
<1>same. /\ UNCHANGED <<rtnl, reg, want, orig, hw, rxh, promisc, refs, uppers, misc>>
         /\ UNCHANGED <<misc_mtx, ppc, file, opened, hw0, meddled>>
         /\ reg[d] \in {"del_down", "del_up"} /\ next[d] \in rings[d] \ misc[d]
  BY DEF DestroyRing, Deleting, FreeWhen
<1>0. next[d] \in Nat /\ next[d] \in 1..NumMdevs /\ NumMdevs \in Nat
  BY <1>same, NumAssumption DEF TypeOK, Mdevs
<1>1. /\ rings' \in [Devs -> SUBSET Mdevs]
      /\ \A e \in Devs : rings'[e] = IF e = d THEN rings[d] \ {next[d]} ELSE rings[e]
  BY DEF DestroyRing, TypeOK
<1>2. /\ next' \in [Devs -> 1..(NumMdevs + 1)]
      /\ \A e \in Devs : next'[e] = IF e = d THEN next[d] + 1 ELSE next[e]
  BY <1>0 DEF DestroyRing, TypeOK
<1>3. TypeOK'
  BY <1>same, <1>1, <1>2 DEF TypeOK
<1>4. RtnlHeld' /\ OneUp' /\ ConfigKnown'
  BY <1>same DEF RtnlHeld, OneUp, Up, ConfigKnown, Registered
<1>5. RefsCounted'
  BY <1>same DEF RefsCounted, Holders
<1>6. Progress'
  <2>1. /\ rings[d] = next[d]..NumMdevs /\ (next[d] + 1)..NumMdevs \subseteq misc[d]
        /\ misc[d] \subseteq rings[d]
    BY <1>same DEF Progress
  <2>2. /\ (next[d]..NumMdevs) \ {next[d]} = (next[d] + 1)..NumMdevs
        /\ (next[d] + 1 + 1)..NumMdevs \subseteq (next[d] + 1)..NumMdevs
    BY <1>0
  <2>3. /\ rings'[d] = next'[d]..NumMdevs /\ (next'[d] + 1)..NumMdevs \subseteq misc[d]
        /\ misc[d] \subseteq rings'[d]
    BY <1>same, <1>1, <1>2, <2>1, <2>2
  <2> QED
    BY <1>same, <1>1, <1>2, <2>3 DEF Progress
<1>7. OpenHolds'
  BY <1>same DEF OpenHolds
<1> QED
  BY <1>3, <1>4, <1>5, <1>6, <1>7

(* The last step of dellink: the interface is closed if it is up.          *)
LEMMA DelEndKeeps ==
  ASSUME IInv, NEW d \in Devs, DelEnd(d)
  PROVE  IInv'
<1> USE DEF IInv
<1>same. /\ UNCHANGED <<next, want, orig, hw, refs, uppers, rings, misc, misc_mtx, ppc>>
         /\ UNCHANGED <<file, opened, hw0, meddled>>
         /\ reg[d] \in {"del_down", "del_up"} /\ next[d] > NumMdevs /\ rtnl' = None
  BY DEF DelEnd, Deleting
<1>0. None \notin Devs
  BY NoneAssumption
<1>1. /\ reg' \in [Devs -> RegState]
      /\ \A e \in Devs : reg'[e] = IF e = d THEN "gone" ELSE reg[e]
  BY RegAt DEF DelEnd, RegState
<1>2. /\ rxh' = IF reg[d] = "del_up" THEN None ELSE rxh
      /\ promisc' = IF reg[d] = "del_up" THEN promisc - 1 ELSE promisc
      /\ reg[d] = "del_up" <=> rxh = d
  BY <1>same DEF DelEnd, ClosedOnDelete, Up, StopLink, OneUp
<1>3. rings[d] = {}
  <2>1. next[d] \in Nat /\ NumMdevs \in Nat /\ rings[d] = next[d]..NumMdevs
    BY <1>same, NumAssumption DEF Progress, TypeOK
  <2> QED
    BY <1>same, <2>1
<1>4. OneUp'
  BY <1>0, <1>1, <1>2 DEF OneUp, Up
<1>5. TypeOK'
  BY <1>same, <1>1, <1>2, <1>4 DEF TypeOK, OneUp
<1>6. RtnlHeld'
  BY <1>same, <1>0, <1>1 DEF RtnlHeld
<1>7. RefsCounted'
  <2>1. Holders' = Holders
    BY <1>same, <1>1 DEF Holders
  <2> QED
    BY <1>same, <2>1, HoldersSame
<1>8. Progress'
  BY <1>same, <1>1, <1>3 DEF Progress
<1>9. OpenHolds'
  BY <1>same, <1>1, <1>3 DEF OpenHolds, Progress
<1>10. ConfigKnown'
  BY <1>same, <1>1 DEF ConfigKnown, Registered
<1> QED
  BY <1>4, <1>5, <1>6, <1>7, <1>8, <1>9, <1>10

---------------------------------------------------------------------------
(* An open finds a misc device and takes the misc layer's mutex.           *)
LEMMA MiscOpenKeeps ==
  ASSUME IInv, NEW d \in Devs, NEW p \in Procs, NEW n \in Mdevs, MiscOpen(p, d, n)
  PROVE  IInv'
<1> USE DEF IInv
<1>same. /\ UNCHANGED <<rtnl, reg, next, want, orig, hw, rxh, promisc, refs, uppers>>
         /\ UNCHANGED <<rings, misc, opened, hw0, meddled>>
         /\ ppc[p] = "none" /\ misc_mtx = None /\ n \in misc[d] /\ misc_mtx' = p
  BY DEF MiscOpen
<1>0. None \notin Procs /\ Mdevs \subseteq 0..NumMdevs
  BY NoneAssumption, NumAssumption DEF Mdevs
<1>1. /\ ppc' \in [Procs -> {"none", "lookup", "found", "open"}]
      /\ \A q \in Procs : ppc'[q] = IF q = p THEN "lookup" ELSE ppc[q]
  BY DEF MiscOpen, TypeOK
<1>2. /\ file' \in [Procs -> (Devs \cup {None}) \X (0..NumMdevs)]
      /\ \A q \in Procs : file'[q] = IF q = p THEN <<d, n>> ELSE file[q]
  BY <1>0 DEF MiscOpen, TypeOK
<1>3. TypeOK'
  BY <1>same, <1>1, <1>2 DEF TypeOK
<1>4. RtnlHeld' /\ OneUp' /\ ConfigKnown'
  BY <1>same DEF RtnlHeld, OneUp, Up, ConfigKnown, Registered
<1>5. RefsCounted' /\ Progress'
  BY <1>same DEF RefsCounted, Holders, Progress
<1>6. OpenHolds'
  BY <1>same, <1>0, <1>1, <1>2 DEF OpenHolds
<1> QED
  BY <1>3, <1>4, <1>5, <1>6

(* pval_file_open looks the interface up, and gives up without it.         *)
LEMMA LookupKeeps ==
  ASSUME IInv, NEW p \in Procs, Lookup(p)
  PROVE  IInv'
<1> USE DEF IInv
<1>same. /\ UNCHANGED <<rtnl, reg, next, want, orig, hw, rxh, promisc, refs, uppers>>
         /\ UNCHANGED <<rings, misc, file, opened, hw0, meddled>>
         /\ ppc[p] = "lookup"
  BY DEF Lookup
<1>0. None \notin Procs /\ misc_mtx = p
  BY <1>same, NoneAssumption DEF OpenHolds
<1>1. PICK s \in {"found", "none"} :
        /\ ppc' = [ppc EXCEPT ![p] = s]
        /\ s = "found" => Registered(file[p][1]) /\ misc_mtx' = misc_mtx
        /\ s = "none" => misc_mtx' = None
  BY DEF Lookup
<1>2. /\ ppc' \in [Procs -> {"none", "lookup", "found", "open"}]
      /\ \A q \in Procs : ppc'[q] = IF q = p THEN s ELSE ppc[q]
  BY <1>1 DEF TypeOK
<1>3. TypeOK'
  BY <1>same, <1>1, <1>2 DEF TypeOK
<1>4. RtnlHeld' /\ OneUp' /\ ConfigKnown'
  BY <1>same DEF RtnlHeld, OneUp, Up, ConfigKnown, Registered
<1>5. RefsCounted' /\ Progress'
  BY <1>same DEF RefsCounted, Holders, Progress
<1>6. OpenHolds'
  BY <1>same, <1>0, <1>1, <1>2 DEF OpenHolds, Registered
<1> QED
  BY <1>3, <1>4, <1>5, <1>6

(* pval_file_open returns, with the file or with EBUSY.                    *)
LEMMA OpenEndKeeps ==
  ASSUME IInv, NEW p \in Procs, OpenEnd(p)
  PROVE  IInv'
<1> USE DEF IInv
<1>same. /\ UNCHANGED <<rtnl, reg, next, want, orig, hw, rxh, promisc, refs, uppers>>
         /\ UNCHANGED <<rings, misc, file, hw0, meddled>>
         /\ ppc[p] = "found" /\ misc_mtx' = None
  BY DEF OpenEnd
<1>0. None \notin Procs /\ misc_mtx = p /\ file[p] \in Devs \X Mdevs
  BY <1>same, NoneAssumption DEF OpenHolds
<1>1. PICK s \in {"open", "none"} : ppc' = [ppc EXCEPT ![p] = s]
  BY DEF OpenEnd
<1>2. /\ ppc' \in [Procs -> {"none", "lookup", "found", "open"}]
      /\ \A q \in Procs : ppc'[q] = IF q = p THEN s ELSE ppc[q]
  BY <1>1 DEF TypeOK
<1>3. opened' \in [Devs -> SUBSET Mdevs]
  <2>1. file[p][1] \in Devs /\ file[p][2] \in Mdevs
    BY <1>0
  <2> QED
    BY <2>1 DEF OpenEnd, TypeOK
<1>4. TypeOK'
  BY <1>same, <1>2, <1>3 DEF TypeOK
<1>5. RtnlHeld' /\ OneUp' /\ ConfigKnown'
  BY <1>same DEF RtnlHeld, OneUp, Up, ConfigKnown, Registered
<1>6. RefsCounted' /\ Progress'
  BY <1>same DEF RefsCounted, Holders, Progress
<1>7. OpenHolds'
  BY <1>same, <1>0, <1>1, <1>2 DEF OpenHolds
<1> QED
  BY <1>4, <1>5, <1>6, <1>7

(* The file is closed.                                                     *)
LEMMA ReleaseKeeps ==
  ASSUME IInv, NEW p \in Procs, pval_file_release(p)
  PROVE  IInv'
<1> USE DEF IInv
<1>same. /\ UNCHANGED <<rtnl, reg, next, want, orig, hw, rxh, promisc, refs, uppers>>
         /\ UNCHANGED <<rings, misc, misc_mtx, file, hw0, meddled>>
         /\ ppc[p] = "open"
  BY DEF pval_file_release
<1>1. /\ ppc' \in [Procs -> {"none", "lookup", "found", "open"}]
      /\ \A q \in Procs : ppc'[q] = IF q = p THEN "none" ELSE ppc[q]
  BY DEF pval_file_release, TypeOK
<1>2. opened' \in [Devs -> SUBSET Mdevs]
  <2>1. file[p][1] \in Devs
    BY <1>same DEF OpenHolds
  <2> QED
    BY <2>1 DEF pval_file_release, TypeOK
<1>3. TypeOK'
  BY <1>same, <1>1, <1>2 DEF TypeOK
<1>4. RtnlHeld' /\ OneUp' /\ ConfigKnown'
  BY <1>same DEF RtnlHeld, OneUp, Up, ConfigKnown, Registered
<1>5. RefsCounted' /\ Progress'
  BY <1>same DEF RefsCounted, Holders, Progress
<1>6. OpenHolds'
  BY <1>same, <1>1 DEF OpenHolds
<1> QED
  BY <1>3, <1>4, <1>5, <1>6

---------------------------------------------------------------------------
(* The inductive invariant holds at the start: the module is loaded and no *)
(* interface has been created.                                             *)
LEMMA InitIInv == Init => IInv
<1> SUFFICES ASSUME Init PROVE IInv
  OBVIOUS
<1>1. TypeOK
  <2>1. 1 \in 1..(NumMdevs + 1) /\ 0 \in 0..NumMdevs
    BY NumAssumption
  <2>2. hw \in Config /\ hw0 \in Config /\ Zero \in Config
    BY ConfigsAssumption DEF Init, Config, Zero
  <2> QED
    BY <2>1, <2>2 DEF Init, TypeOK, RegState
<1>2. RtnlHeld /\ OneUp
  BY NoneAssumption DEF Init, RtnlHeld, OneUp, Up
<1>3. RefsCounted
  <2>1. Holders = {}
    BY DEF Init, Holders
  <2> QED
    BY <2>1, FS_EmptySet DEF Init, RefsCounted
<1>4. Progress /\ OpenHolds
  BY NoneAssumption DEF Init, Progress, OpenHolds
<1>5. ConfigKnown
  BY DEF Init, ConfigKnown, Registered
<1> QED
  BY <1>1, <1>2, <1>3, <1>4, <1>5 DEF IInv

(* Every step keeps it.                                                    *)
LEMMA NextIInv == IInv /\ [Next]_vars => IInv'
<1> SUFFICES ASSUME IInv, [Next]_vars PROVE IInv'
  OBVIOUS
<1>1. CASE UNCHANGED vars
  BY <1>1 DEF vars, IInv, TypeOK, RtnlHeld, OneUp, Up, RefsCounted, Holders, Progress,
              OpenHolds, ConfigKnown, Registered
<1>2. ASSUME NEW d \in Devs, pval_newlink(d) PROVE IInv'
  BY <1>2, NewBeginKeeps, InitRingKeeps, MiscRegisterKeeps, NewEndKeeps DEF pval_newlink
<1>3. ASSUME NEW d \in Devs, NEW c \in Configs, NEW ok \in Ioctl, pval_changelink(d, c, ok)
      PROVE IInv'
  BY <1>3, ChangeKeeps
<1>4. ASSUME NEW d \in Devs, NEW ok \in Ioctl, NEW ok2 \in Ioctl, pval_open(d, ok, ok2)
      PROVE IInv'
  BY <1>4, OpenKeeps
<1>5. ASSUME NEW d \in Devs, pval_stop(d) PROVE IInv'
  BY <1>5, StopKeeps
<1>6. ASSUME NEW d \in Devs, NEW ok \in Ioctl, DelBegin(d, ok) PROVE IInv'
  BY <1>6, DelBeginKeeps
<1>7. ASSUME NEW d \in Devs, DelSteps(d) PROVE IInv'
  BY <1>7, MiscDeregisterKeeps, DestroyRingKeeps, DelEndKeeps DEF DelSteps
<1>8. ASSUME NEW d \in Devs, NEW p \in Procs, NEW n \in Mdevs, MiscOpen(p, d, n) PROVE IInv'
  BY <1>8, MiscOpenKeeps
<1>9. ASSUME NEW p \in Procs, Lookup(p) \/ OpenEnd(p) \/ pval_file_release(p) PROVE IInv'
  BY <1>9, LookupKeeps, OpenEndKeeps, ReleaseKeeps
<1> QED
  BY <1>1, <1>2, <1>3, <1>4, <1>5, <1>6, <1>7, <1>8, <1>9 DEF Next

(* What newlink, changelink, open, stop, dellink and the opens of misc     *)
(* devices keep true between them.                                         *)
THEOREM Inductive == Spec => []IInv
  BY InitIInv, NextIInv, PTL DEF Spec

(* Types are kept, and with them the counts of references and promiscuity, *)
(* which are never given back once too often.                              *)
THEOREM TypeCorrect == Spec => []TypeOK
<1>1. IInv => TypeOK
  BY DEF IInv
<1> QED
  BY <1>1, Inductive, PTL

(* The rx handler and the promiscuity of the link are the interface's that *)
(* is up, however opens, failing opens, stops and deletions alternate.     *)
THEOREM LinkOwned == Spec => []LinkOwnedByUp
<1>1. ASSUME IInv PROVE LinkOwnedByUp
  <2> DEFINE Ups == {d \in Devs : Up(d)}
  <2>1. \A d \in Devs : rxh = d <=> Up(d)
    BY <1>1 DEF IInv, OneUp
  <2>2. CASE rxh = None
    <3>1. Ups = {}
      BY <2>1, <2>2, NoneAssumption
    <3> QED
      BY <1>1, <2>1, <2>2, <3>1, FS_EmptySet DEF IInv, OneUp, LinkOwnedByUp
  <2>3. CASE rxh # None
    <3>1. rxh \in Devs
      BY <1>1, <2>3 DEF IInv, TypeOK
    <3>2. Ups = {rxh}
      BY <2>1, <3>1
    <3>3. Cardinality(Ups) = 1
      BY <3>2, FS_Singleton
    <3> QED
      BY <1>1, <2>1, <2>3, <3>3 DEF IInv, OneUp, LinkOwnedByUp
  <2> QED
    BY <2>2, <2>3
<1> QED
  BY <1>1, Inductive, PTL

(* pval_file_open, which takes no reference, finds the ring of the misc    *)
(* device that it was called for, unless a newlink has failed.             *)
THEOREM OpenSafe == Spec => []OpenFindsRing
<1>1. ASSUME IInv PROVE OpenFindsRing
  <2> SUFFICES ASSUME NEW p \in Procs, ppc[p] = "found", reg[file[p][1]] # "failed"
               PROVE  Registered(file[p][1]) /\ file[p][2] \in rings[file[p][1]]
    BY DEF OpenFindsRing
  <2>1. /\ file[p][1] \in Devs /\ file[p][2] \in misc[file[p][1]]
        /\ reg[file[p][1]] \notin {"none", "gone"}
    BY <1>1 DEF IInv, OpenHolds
  <2>2. reg[file[p][1]] \in RegState /\ misc[file[p][1]] \subseteq rings[file[p][1]]
    BY <1>1, <2>1 DEF IInv, TypeOK, Progress
  <2> QED
    BY <2>1, <2>2 DEF RegState, Registered
<1> QED
  BY <1>1, Inductive, PTL

(* An interface outside newlink and dellink has all of its rings and misc  *)
(* devices, one that is gone has none, and with the last one the link gets *)
(* its references, its rx handler and its promiscuity back.                *)
THEOREM NothingByHalves == Spec => []AllOrNothing
<1>1. ASSUME IInv PROVE AllOrNothing
  <2>1. ASSUME NEW d \in Devs, reg[d] \in {"down", "up"}
        PROVE  rings[d] = Mdevs /\ misc[d] = Mdevs
    <3>1. misc[d] = Mdevs /\ misc[d] \subseteq rings[d]
      BY <1>1, <2>1 DEF IInv, Progress
    <3>2. rings[d] \subseteq Mdevs
      BY <1>1 DEF IInv, TypeOK
    <3> QED
      BY <3>1, <3>2
  <2>2. ASSUME NEW d \in Devs, reg[d] = "gone"
        PROVE  rings[d] = {} /\ misc[d] = {} /\ d \notin uppers
    <3>1. rings[d] = {} /\ misc[d] \subseteq rings[d]
      BY <1>1, <2>2 DEF IInv, Progress
    <3>2. d \notin uppers
      BY <1>1, <2>2 DEF IInv, RefsCounted, Holders
    <3> QED
      BY <3>1, <3>2
  <2>3. ASSUME \A d \in Devs : reg[d] \in {"none", "gone"}
        PROVE  refs = 0 /\ uppers = {} /\ promisc = 0 /\ rxh = None
    <3>1. Holders = {}
      BY <2>3 DEF Holders
    <3>2. refs = 0 /\ uppers = {}
      BY <1>1, <3>1, FS_EmptySet DEF IInv, RefsCounted
    <3>3. rxh = None
      BY <1>1, <2>3 DEF IInv, TypeOK, OneUp, Up
    <3> QED
      BY <1>1, <3>2, <3>3 DEF IInv, OneUp
  <2> QED
    BY <2>1, <2>2, <2>3 DEF AllOrNothing
<1> QED
  BY <1>1, Inductive, PTL

(* The switches of an interface that is up are in force on the link, if the*)
(* ioctls work and it has the link to itself.                              *)
THEOREM TstampInForce == Spec => []TstampAsConfigured
<1>1. IInv => TstampAsConfigured
  BY DEF IInv, ConfigKnown, TstampAsConfigured
<1> QED
  BY <1>1, Inductive, PTL

(* And the link's own configuration comes back with the deletion.          *)
THEOREM ConfigRestored == Spec => []RestoredIfAlone
<1>1. IInv => RestoredIfAlone
  BY DEF IInv, ConfigKnown, RestoredIfAlone
<1> QED
  BY <1>1, Inductive, PTL
=============================================================================
