------------------------ MODULE PvalTeardownProofs -------------------------
(***************************************************************************)
(* Proofs about PvalTeardown for every set of processes and packets.       *)
(***************************************************************************)
EXTENDS PvalTeardown, TLAPS

(* IInv without the types.                                                 *)
Life == /\ PathsNeedLink /\ MemoryFollows /\ UsersExposed /\ ModuleLast /\ OneReader
        /\ SafeIfQuiet

(* Before the module is loaded the invariant holds.                        *)
LEMMA InitLife == Init => TypeOK /\ Life
<1> SUFFICES ASSUME Init PROVE TypeOK /\ Life
  OBVIOUS
<1> USE DEF Init, NoRing, Rings
<1>1. TypeOK
  BY DEF TypeOK, Memory, RegState, Actors
<1>2. PathsNeedLink /\ MemoryFollows /\ SafeIfQuiet
  BY DEF PathsNeedLink, MemoryFollows, SafeIfQuiet, Scheduled
<1>3. UsersExposed /\ ModuleLast /\ OneReader
  BY DEF UsersExposed, ModuleLast, OneReader, Scheduled
<1> QED
  BY <1>1, <1>2, <1>3 DEF Life

(* The module is loaded and removed.                                       *)
LEMMA ModuleKeeps ==
  ASSUME TypeOK, Life, pval_init_module \/ ExitBegin \/ pval_exit_module
  PROVE  TypeOK' /\ Life'
<1> USE DEF linkVars, memVars, pathVars, fileVars
<1>same. /\ UNCHANGED <<reg, listed, misc, rxh, pdev, slots>>
         /\ UNCHANGED <<irq, xmit, worker, late, file, opened>>
  BY DEF pval_init_module, ExitBegin, pval_exit_module
<1>1. /\ mod' \in {"out", "in", "hollow", "unloading", "gone"}
      /\ exposed \subseteq exposed' /\ exposed' \subseteq Actors
      /\ uaf' \subseteq Actors
  BY DEF TypeOK, pval_init_module, ExitBegin, pval_exit_module, Actors
<1>2. TypeOK'
  BY <1>same, <1>1 DEF TypeOK
<1>3. SafeIfQuiet'
  BY DEF Life, SafeIfQuiet, UsersExposed, pval_init_module, ExitBegin, pval_exit_module
<1>4. PathsNeedLink' /\ MemoryFollows' /\ OneReader'
  BY <1>same DEF Life, PathsNeedLink, MemoryFollows, OneReader, Up, Scheduled
<1>5. ModuleLast'
  BY <1>same DEF Life, ModuleLast, Unused, pval_init_module, ExitBegin, pval_exit_module
<1>6. \A k \in Pkts : Scheduled(k)' = Scheduled(k)
  BY <1>same DEF Scheduled
<1>7. \A k \in Pkts : Scheduled(k) /\ mod' = "gone" => "text" \in exposed'
  BY DEF Life, UsersExposed, pval_init_module, ExitBegin, pval_exit_module
<1>8. mod' = "hollow" => "exit" \in exposed'
  BY DEF Life, UsersExposed, pval_init_module, ExitBegin, pval_exit_module
<1>9. UsersExposed'
  BY <1>same, <1>1, <1>6, <1>7, <1>8 DEF Life, UsersExposed
<1> QED
  BY <1>2, <1>3, <1>4, <1>5, <1>9 DEF Life

(* The interface is created, or its creation fails.                        *)
LEMMA NewKeeps ==
  ASSUME TypeOK, Life, pval_newlink
  PROVE  TypeOK' /\ Life'
<1> USE DEF linkVars, memVars, pathVars, fileVars
<1>same. UNCHANGED <<mod, rxh, irq, xmit, worker, late, file, opened, uaf>>
  BY DEF pval_newlink, NewRegister, NewMisc, NewDone, NewFailed
<1>0. /\ reg \in {"none", "new"} /\ reg' \in {"new", "failed", "down"}
      /\ mod = "in" \/ reg = "new"
  BY DEF pval_newlink, NewRegister, NewMisc, NewDone, NewFailed
<1>1. exposed \subseteq exposed' /\ exposed' \subseteq Actors
  BY DEF TypeOK, Actors, pval_newlink, NewRegister, NewMisc, NewDone, NewFailed
<1>2. TypeOK'
  <2>1. /\ reg' \in RegState /\ listed' \in BOOLEAN /\ misc' \subseteq Rings
        /\ pdev' \in Memory
    BY <1>0
    DEF TypeOK, RegState, Memory, pval_newlink, NewRegister, NewMisc, NewDone, NewFailed
  <2>2. slots' \in [Rings -> Memory]
    BY DEF TypeOK, Memory, pval_newlink, NewRegister, NewMisc, NewDone, NewFailed
  <2> QED
    BY <1>same, <1>1, <2>1, <2>2 DEF TypeOK
<1>3. PathsNeedLink'
  BY <1>same, <1>0 DEF Life, PathsNeedLink, Up, Scheduled
<1>4. MemoryFollows'
  <2>1. CASE NewRegister
    BY <2>1 DEF TypeOK, Life, MemoryFollows, NewRegister
  <2>2. ASSUME NEW r \in Rings, NewMisc(r)
        PROVE  MemoryFollows'
    BY <2>2 DEF TypeOK, Life, MemoryFollows, NewMisc
  <2>3. CASE NewDone \/ NewFailed
    BY <2>3 DEF TypeOK, Life, MemoryFollows, NewDone, NewFailed
  <2> QED
    BY <2>1, <2>2, <2>3 DEF pval_newlink
<1>5. ModuleLast' /\ OneReader' /\ SafeIfQuiet'
  BY <1>same, <1>0, <1>1 DEF Life, ModuleLast, OneReader, SafeIfQuiet, Unused
<1>6. /\ \A r \in Rings : slots'[r] # "freed"
      /\ \A p \in Procs : file[p] # NoRing => file[p] \in Rings
      /\ "tx" \in Rings /\ "rx" \in Rings
  BY <1>0, <1>4 DEF TypeOK, MemoryFollows, Rings
<1>7. ASSUME NEW p \in Procs, file[p] # NoRing, pdev' = "freed"
      PROVE  p \in exposed'
  BY <1>7, <1>0, <1>4 DEF Life, MemoryFollows, pval_newlink, NewRegister, NewMisc, NewDone,
                          NewFailed
<1>8. reg' = "failed" /\ misc' # {} => "misc" \in exposed'
  BY <1>0 DEF pval_newlink, NewRegister, NewMisc, NewDone, NewFailed
<1>9. UsersExposed'
  BY <1>same, <1>0, <1>1, <1>3, <1>6, <1>7, <1>8
  DEF Life, UsersExposed, ModuleLast, PathsNeedLink, Scheduled
<1> QED
  BY <1>2, <1>3, <1>4, <1>5, <1>9 DEF Life

(* The interface is opened, closed and deleted.                            *)
LEMMA LinkKeeps ==
  ASSUME TypeOK, Life,
         \/ pval_open \/ pval_stop \/ synchronize_net
         \/ DelBegin \/ DelEnd \/ \E r \in Rings : MiscDeregister(r)
  PROVE  TypeOK' /\ Life'
<1> USE DEF linkVars, memVars, pathVars, fileVars
<1>same. /\ UNCHANGED <<mod, irq, xmit, worker, late, file, opened, uaf, exposed>>
  BY DEF pval_open, pval_stop, synchronize_net, DelBegin, DelEnd,
         MiscDeregister
<1>1. TypeOK'
  <2>1. reg' \in RegState
    BY DEF TypeOK, RegState, pval_open, pval_stop, synchronize_net, DelBegin, DelEnd,
           MiscDeregister
  <2>2. listed' \in BOOLEAN /\ rxh' \in BOOLEAN /\ misc' \subseteq Rings
    BY DEF TypeOK, pval_open, pval_stop, synchronize_net, DelBegin, DelEnd,
           MiscDeregister, Unhooked
  <2>3. pdev' \in Memory /\ slots' \in [Rings -> Memory]
    BY DEF TypeOK, Memory, pval_open, pval_stop, synchronize_net, DelBegin,
           DelEnd, MiscDeregister
  <2> QED
    BY <1>same, <2>1, <2>2, <2>3 DEF TypeOK
<1>2. PathsNeedLink'
  BY <1>same
  DEF Life, PathsNeedLink, Up, Scheduled, Deleting, pval_open, pval_stop, synchronize_net, DelBegin,
      DelEnd, MiscDeregister, Unhooked
<1>3. MemoryFollows'
  BY DEF TypeOK, Life, MemoryFollows, Deleting, pval_open, pval_stop,
         synchronize_net, DelBegin, DelEnd, MiscDeregister
<1>4. ModuleLast' /\ OneReader' /\ SafeIfQuiet'
  BY <1>same
  DEF Life, ModuleLast, OneReader, SafeIfQuiet, Unused, Deleting, pval_open,
      pval_stop, synchronize_net, DelBegin, DelEnd, MiscDeregister
<1>5. \A r \in Rings : slots'[r] = "freed" => slots[r] = "freed"
  BY DEF TypeOK, pval_open, pval_stop, synchronize_net, DelBegin, DelEnd,
         MiscDeregister
<1>6. /\ \A k \in Pkts : Scheduled(k)' = Scheduled(k)
      /\ \A p \in Procs : file[p] # NoRing => file[p] \in Rings
      /\ "tx" \in Rings /\ "rx" \in Rings
  BY <1>same DEF Scheduled, TypeOK, Rings
<1>7. reg' \in {"del_up", "del_closing"} =>
        \/ reg \in {"del_up", "del_closing"}
        \/ \A r \in Rings : slots'[r] = "live"
  BY DEF Life, MemoryFollows, Deleting, pval_open, pval_stop, synchronize_net,
         DelBegin, DelEnd, MiscDeregister
<1>8. ASSUME NEW p \in Procs, file[p] # NoRing,
             pdev' = "freed" \/ slots'[file[p]] = "freed"
      PROVE  pdev = "freed" \/ slots[file[p]] = "freed"
  <2>1. CASE DelEnd
    BY <2>1, <1>6, <1>8 DEF DelEnd
  <2>2. CASE ~DelEnd
    BY <2>2, <1>5, <1>6, <1>8
    DEF pval_open, pval_stop, synchronize_net, DelBegin, MiscDeregister
  <2> QED
    BY <2>1, <2>2
<1>9. reg' # "failed"
  BY DEF Deleting, pval_open, pval_stop, synchronize_net, DelBegin, DelEnd, MiscDeregister
<1>10. UsersExposed'
  BY <1>same, <1>5, <1>6, <1>7, <1>8, <1>9 DEF Life, UsersExposed
<1> QED
  BY <1>1, <1>2, <1>3, <1>4, <1>10 DEF Life

(* The slots of a ring are freed.                                          *)
LEMMA FreeKeeps ==
  ASSUME TypeOK, Life, NEW r \in Rings, pval_destroy_ring(r)
  PROVE  TypeOK' /\ Life'
<1> USE DEF linkVars, memVars, pathVars, fileVars
<1>same. /\ UNCHANGED <<mod, reg, listed, misc, rxh, pdev>>
         /\ UNCHANGED <<irq, xmit, worker, late, file, opened, uaf>>
  BY DEF pval_destroy_ring
<1>1. /\ slots' = [slots EXCEPT ![r] = "freed"] /\ exposed' = exposed \cup Users(r)
      /\ reg \in {"del_up", "del_down"} /\ r \notin misc
  BY DEF pval_destroy_ring, Deleting, MayFree
<1>2. TypeOK'
  <2>1. Users(r) \subseteq Actors
    BY DEF Users, Actors
  <2> QED
    BY <1>same, <1>1, <2>1 DEF TypeOK, Memory
<1>3. PathsNeedLink' /\ ModuleLast' /\ OneReader' /\ SafeIfQuiet'
  BY <1>same, <1>1
  DEF Life, PathsNeedLink, Up, Scheduled, ModuleLast, Unused, OneReader, SafeIfQuiet
<1>4. MemoryFollows'
  BY <1>same, <1>1 DEF Life, MemoryFollows, TypeOK
<1>5. UsersExposed'
  <2>1. ASSUME NEW p \in Procs, file[p] # NoRing,
               pdev = "freed" \/ slots'[file[p]] = "freed"
        PROVE  p \in exposed'
    BY <2>1, <1>1 DEF TypeOK, Life, UsersExposed, Users
  <2>2. ASSUME reg \in {"del_up", "del_closing"}
        PROVE  /\ slots'["tx"] = "freed" => "xmit" \in exposed' /\ "worker" \in exposed'
               /\ slots'["rx"] = "freed" => "softirq" \in exposed'
    BY <2>2, <1>1 DEF TypeOK, Life, UsersExposed, Users, Up, Rings
  <2>3. ASSUME NEW k \in Pkts, Scheduled(k)
        PROVE  /\ slots'["tx"] = "freed" => "worker" \in exposed'
               /\ mod = "gone" => "text" \in exposed'
    BY <2>3, <1>1 DEF TypeOK, Life, UsersExposed, Users, Rings
  <2>4. \A k \in Pkts : Scheduled(k)' = Scheduled(k)
    BY <1>same DEF Scheduled
  <2>5. reg # "failed" /\ (mod = "hollow" => "exit" \in exposed')
    BY <1>1 DEF Life, UsersExposed
  <2> QED
    BY <1>same, <2>1, <2>2, <2>3, <2>4, <2>5 DEF UsersExposed
<1> QED
  BY <1>2, <1>3, <1>4, <1>5 DEF Life

(* What paths, workers and files leave alone.                              *)
LEMMA UseKeeps ==
  ASSUME TypeOK, Life, UNCHANGED <<linkVars, memVars, exposed>>,
         uaf' \subseteq exposed,
         file' = file \/ mod = "in",
         OneReader',
         TypeOK', PathsNeedLink',
         \A p \in Procs :
            file'[p] # NoRing /\ (pdev = "freed" \/ slots[file'[p]] = "freed") => p \in exposed,
         \A k \in Pkts : Scheduled(k)' =>
            Scheduled(k) \/ reg \in {"up", "closing", "del_up", "del_closing"}
  PROVE  Life'
<1> USE DEF linkVars, memVars
<1>1. MemoryFollows' /\ SafeIfQuiet'
  BY DEF Life, MemoryFollows, SafeIfQuiet
<1>2. ModuleLast'
  BY DEF Life, ModuleLast, Unused
<1>3. "tx" \in Rings
  BY DEF Rings
<1>4. ASSUME NEW k \in Pkts, Scheduled(k)'
      PROVE  /\ slots["tx"] = "freed" => "worker" \in exposed
             /\ mod = "gone" => "text" \in exposed
  BY <1>3, <1>4 DEF Life, UsersExposed, MemoryFollows, ModuleLast
<1>5. UsersExposed'
  BY <1>4 DEF Life, UsersExposed
<1> QED
  BY <1>1, <1>2, <1>5 DEF Life

(* The receive and transmit paths.                                         *)
LEMMA PathKeeps ==
  ASSUME TypeOK, Life,
         \/ RxBegin \/ RxTest \/ RxWrite \/ XmitBegin \/ XmitCopy
         \/ \E k \in Pkts : XmitWorker(k)
  PROVE  TypeOK' /\ Life'
<1> USE DEF linkVars, memVars, pathVars, fileVars
<1>same. UNCHANGED <<linkVars, memVars, late, file, opened, exposed>>
  BY DEF RxBegin, RxTest, RxWrite, XmitBegin, XmitCopy, XmitWorker
<1>1. uaf' \subseteq exposed
  <2>0. "tx" \in Rings /\ "rx" \in Rings
    BY DEF Rings
  <2>1. CASE RxBegin \/ RxTest \/ RxWrite
    BY <2>0, <2>1 DEF RxBegin, RxTest, RxWrite, Touch, Life, SafeIfQuiet, PathsNeedLink, Up,
                      MemoryFollows, UsersExposed
  <2>2. CASE XmitBegin \/ XmitCopy \/ \E k \in Pkts : XmitWorker(k)
    BY <2>0, <2>2 DEF XmitBegin, XmitCopy, XmitWorker, Touch, Life, SafeIfQuiet,
                      PathsNeedLink, Up, MemoryFollows, UsersExposed
  <2> QED
    BY <2>1, <2>2
<1>2. TypeOK'
  BY <1>same, <1>1 DEF TypeOK, RxBegin, RxTest, RxWrite, XmitBegin, XmitCopy, XmitWorker
<1>3. PathsNeedLink'
  BY <1>same DEF TypeOK, Life, PathsNeedLink, Up, Scheduled, RxBegin, RxTest, RxWrite, XmitBegin, XmitCopy, XmitWorker
<1>4. ASSUME NEW k \in Pkts, Scheduled(k)'
      PROVE  Scheduled(k) \/ reg \in {"up", "closing", "del_up", "del_closing"}
  BY <1>4 DEF Life, PathsNeedLink, Scheduled, RxBegin, RxTest, RxWrite, XmitBegin, XmitCopy, XmitWorker
<1>5. OneReader'
  BY <1>same DEF Life, OneReader
<1> QED
  BY <1>same, <1>1, <1>2, <1>3, <1>4, <1>5, UseKeeps DEF Life, UsersExposed

(* The timestamp workers.                                                  *)
LEMMA WorkerKeeps ==
  ASSUME TypeOK, Life, NEW k \in Pkts, pval_txtstamp_work2(k) \/ Expire(k)
  PROVE  TypeOK' /\ Life'
<1> USE DEF linkVars, memVars, pathVars, fileVars, pval_txtstamp_work2, WorkerWrites,
            WorkerGivesUp, WorkerLeft, Expire
<1>same. UNCHANGED <<linkVars, memVars, irq, xmit, file, opened, exposed>>
  OBVIOUS
<1>1. uaf' \subseteq exposed
  <2>1. "tx" \in Rings
    BY DEF Rings
  <2>2. Scheduled(k) /\ pdev = "freed" => slots["tx"] = "freed"
    BY <2>1 DEF TypeOK, RegState, Life, MemoryFollows, PathsNeedLink
  <2> QED
    BY <2>2 DEF Touch, Life, SafeIfQuiet, UsersExposed
<1>2. TypeOK'
  BY <1>same, <1>1 DEF TypeOK
<1>3. \A j \in Pkts : Scheduled(j)' => Scheduled(j)
  BY DEF TypeOK, Scheduled
<1>4. PathsNeedLink' /\ OneReader'
  BY <1>same, <1>3 DEF Life, PathsNeedLink, OneReader, Up
<1> QED
  BY <1>same, <1>1, <1>2, <1>3, <1>4, UseKeeps DEF Life, UsersExposed

(* The processes.                                                          *)
LEMMA FileKeeps ==
  ASSUME TypeOK, Life, NEW p \in Procs,
         \/ \E r \in Rings : pval_file_open(p, r)
         \/ pval_file_read_iter(p) \/ pval_file_release(p)
  PROVE  TypeOK' /\ Life'
<1> USE DEF linkVars, memVars, pathVars, fileVars
<1>same. UNCHANGED <<linkVars, memVars, pathVars, exposed>>
  BY DEF pval_file_open, pval_file_read_iter, pval_file_release
<1>0. NoRing \notin Rings
  BY DEF NoRing, Rings
<1>freed. \A r \in Rings : pdev = "freed" /\ r \in misc => reg = "failed"
  BY DEF TypeOK, RegState, Life, MemoryFollows
<1>1. ASSUME NEW r \in Rings, pval_file_open(p, r)
      PROVE  TypeOK' /\ Life'
  <2>1. /\ file' = [file EXCEPT ![p] = r] /\ opened' = opened \cup {r}
        /\ r \in misc /\ r \notin opened /\ mod = "in" /\ file[p] = NoRing
    BY <1>1 DEF pval_file_open
  <2>2. uaf' = uaf /\ uaf \subseteq exposed /\ slots[r] = "live" /\ pdev # "freed"
    BY <1>1, <1>freed DEF pval_file_open, Touch, Life, SafeIfQuiet, MemoryFollows
  <2>3. \A q \in Procs : file'[q] = IF q = p THEN r ELSE file[q]
    BY <2>1 DEF TypeOK
  <2>4. opened' = {file'[q] : q \in Procs} \ {NoRing}
    BY <2>1, <2>3, <1>0 DEF TypeOK
  <2>5. TypeOK'
    BY <1>same, <2>1, <2>2, <2>4 DEF TypeOK
  <2>6. OneReader'
    BY <2>1, <2>3, <1>0 DEF TypeOK, Life, OneReader
  <2>7. \A q \in Procs :
          file'[q] # NoRing /\ (pdev = "freed" \/ slots[file'[q]] = "freed") => q \in exposed
    BY <2>2, <2>3 DEF Life, UsersExposed
  <2>8. PathsNeedLink' /\ \A k \in Pkts : Scheduled(k)' => Scheduled(k)
    BY <1>same DEF Life, PathsNeedLink, Up, Scheduled
  <2> QED
    BY <1>same, <2>1, <2>2, <2>5, <2>6, <2>7, <2>8, UseKeeps
<1>2. ASSUME pval_file_read_iter(p) \/ pval_file_release(p)
      PROVE  uaf' \subseteq exposed
  <2>1. file[p] \in Rings
    BY <1>2 DEF TypeOK, pval_file_read_iter, pval_file_release
  <2>2. pdev = "freed" \/ slots[file[p]] = "freed" => p \in exposed
    BY <1>2, <2>1 DEF Life, UsersExposed, pval_file_read_iter, pval_file_release
  <2> QED
    BY <1>2, <2>2 DEF Touch, Life, SafeIfQuiet, pval_file_read_iter, pval_file_release
<1>3. ASSUME pval_file_read_iter(p)
      PROVE  TypeOK' /\ Life'
  <2>1. UNCHANGED <<file, opened>>
    BY <1>3 DEF pval_file_read_iter
  <2>2. TypeOK'
    BY <1>same, <1>2, <1>3, <2>1 DEF TypeOK
  <2>3. PathsNeedLink' /\ OneReader' /\ \A k \in Pkts : Scheduled(k)' => Scheduled(k)
    BY <1>same, <2>1 DEF Life, PathsNeedLink, Up, OneReader, Scheduled
  <2> QED
    BY <1>same, <1>2, <1>3, <2>1, <2>2, <2>3, UseKeeps DEF Life, UsersExposed
<1>4. ASSUME pval_file_release(p)
      PROVE  TypeOK' /\ Life'
  <2>1. /\ file' = [file EXCEPT ![p] = NoRing] /\ opened' = opened \ {file[p]}
        /\ file[p] # NoRing
    BY <1>4 DEF pval_file_release, Closed
  <2>2. \A q \in Procs : file'[q] = IF q = p THEN NoRing ELSE file[q]
    BY <2>1 DEF TypeOK
  <2>3. opened' = {file'[q] : q \in Procs} \ {NoRing}
    BY <2>1, <2>2 DEF TypeOK, Life, OneReader
  <2>4. TypeOK'
    BY <1>same, <1>2, <1>4, <2>1, <2>3 DEF TypeOK
  <2>5. OneReader'
    BY <2>2 DEF Life, OneReader
  <2>6. mod = "in" \/ mod \in {"out", "hollow"}
    BY <2>1 DEF TypeOK, Life, ModuleLast, Unused
  <2>7. MemoryFollows' /\ SafeIfQuiet' /\ PathsNeedLink'
    BY <1>same, <1>2, <1>4 DEF Life, MemoryFollows, SafeIfQuiet, PathsNeedLink, Up, Scheduled
  <2>8. ModuleLast'
    BY <1>same, <2>6 DEF ModuleLast
  <2>9. UsersExposed'
    BY <1>same, <2>2 DEF Life, UsersExposed, Scheduled
  <2> QED
    BY <2>4, <2>5, <2>7, <2>8, <2>9 DEF Life
<1> QED
  BY <1>1, <1>3, <1>4

(* The misc layer meets what a failed pval_newlink left in its list.       *)
LEMMA WalkKeeps ==
  ASSUME TypeOK, Life, misc_open
  PROVE  TypeOK' /\ Life'
<1> USE DEF linkVars, memVars, pathVars, fileVars
<1>same. UNCHANGED <<linkVars, memVars, pathVars, file, opened, exposed>>
  BY DEF misc_open
<1>1. uaf' \subseteq exposed
  BY DEF misc_open, Touch, Life, SafeIfQuiet, UsersExposed
<1>2. TypeOK'
  BY <1>same, <1>1 DEF TypeOK
<1>3. PathsNeedLink' /\ OneReader' /\ \A k \in Pkts : Scheduled(k)' => Scheduled(k)
  BY <1>same DEF Life, PathsNeedLink, Up, OneReader, Scheduled
<1> QED
  BY <1>same, <1>1, <1>2, <1>3, UseKeeps DEF Life, UsersExposed

(* Every step of module, interface, paths, workers and files keeps it.     *)
LEMMA NextLife == TypeOK /\ Life /\ [Next]_vars => TypeOK' /\ Life'
<1> SUFFICES ASSUME TypeOK, Life, [Next]_vars
             PROVE  TypeOK' /\ Life'
  OBVIOUS
<1>1. CASE UNCHANGED vars
  <2>1. TypeOK'
    BY <1>1 DEF vars, linkVars, memVars, pathVars, fileVars, TypeOK
  <2>2. PathsNeedLink' /\ MemoryFollows' /\ OneReader' /\ SafeIfQuiet'
    BY <1>1 DEF vars, linkVars, memVars, pathVars, fileVars, Life, PathsNeedLink,
                MemoryFollows, OneReader, SafeIfQuiet, Up, Scheduled
  <2>3. UsersExposed' /\ ModuleLast'
    BY <1>1 DEF vars, linkVars, memVars, pathVars, fileVars, Life, UsersExposed, ModuleLast,
                Unused, Scheduled
  <2> QED
    BY <2>1, <2>2, <2>3 DEF Life
<1>2. CASE Next
  BY <1>2, ModuleKeeps, NewKeeps, LinkKeeps, FreeKeeps, PathKeeps, WorkerKeeps, FileKeeps,
     WalkKeeps
  DEF Next
<1> QED
  BY <1>1, <1>2

(* IInv is an invariant of interface, data path, workers, files and module.*)
THEOREM Inductive == Spec => []IInv
<1>1. TypeOK /\ Life => IInv
  BY DEF Life, IInv
<1> QED
  BY <1>1, InitLife, NextLife, PTL DEF Spec

(* Types are kept, and `opened' is set for the rings that are open.        *)
THEOREM TypeCorrect == Spec => []TypeOK
<1>1. IInv => TypeOK
  BY DEF IInv
<1> QED
  BY <1>1, Inductive, PTL

(* pval_dellink, a failed pval_newlink and the removal of the module harm  *)
(* only those who were using what they free.                               *)
THEOREM DeletionSafeIfQuiet == Spec => []SafeIfQuiet
<1>1. IInv => SafeIfQuiet
  BY DEF IInv
<1> QED
  BY <1>1, Inductive, PTL

(* struct pval_dev is freed after the last receive and transmit path.      *)
THEOREM DeviceOutlivesPaths == Spec => []PathsEndFirst
<1>1. IInv => PathsEndFirst
  BY DEF IInv, TypeOK, PathsNeedLink, MemoryFollows, PathsEndFirst, Up
<1> QED
  BY <1>1, Inductive, PTL

(* The module leaves nothing behind but workers and, if a pval_newlink     *)
(* failed, the misc devices it had registered, with their slots.           *)
THEOREM ModuleLeavesNothing == Spec => []LeavesNothing
<1>1. ASSUME IInv, mod = "gone"
      PROVE  /\ Unused /\ pdev # "live" /\ ~rxh /\ irq = "out" /\ ~xmit /\ ~listed
             /\ reg # "failed" => misc = {} /\ \A r \in Rings : slots[r] # "live"
  <2>1. reg \in {"none", "gone", "failed"} /\ Unused
    BY <1>1 DEF IInv, ModuleLast
  <2>2. ASSUME reg # "failed", NEW r \in Rings
        PROVE  slots[r] # "live" /\ r \notin misc
    BY <1>1, <2>1, <2>2 DEF IInv, MemoryFollows
  <2>3. reg # "failed" => misc = {}
    BY <1>1, <2>2 DEF IInv, TypeOK
  <2> QED
    BY <1>1, <2>1, <2>2, <2>3 DEF IInv, TypeOK, MemoryFollows, PathsNeedLink, Up
<1>2. IInv => LeavesNothing
  BY <1>1 DEF LeavesNothing, Unused
<1> QED
  BY <1>2, Inductive, PTL
=============================================================================
