------------------------- MODULE ReconfigurationProofs -------------------------
(***************************************************************************)
(* Proofs about BitstreamMemory and Reconfiguration, for every number of   *)
(* objects, processes, pages and calls.                                    *)
(*                                                                         *)
(* The argument: the named mutex lets one object at a time into the part   *)
(* of getMem that uses the slot curr_buff, so the slot holds the pages of  *)
(* that object's call (Slot) and an entry of the map names the pages of    *)
(* its own address (Entries).  A buffer belongs to one call and one object *)
(* (Numbers), hence no other object frees what a reconfiguration reads.    *)
(* rcnfg_lock lets one handler at a time write to the FIFO (Handler), and  *)
(* the pages, PR_DONE and wait_rcnfg pass the completion of its last page  *)
(* on to it and to nobody else (Pipeline).                                 *)
(***************************************************************************)
EXTENDS Reconfiguration, TLAPS

Entry == [vaddr : Nat, pid : Nat, crid : Nat, pages : Nat]

Descriptor == [pages : Nat, page : Nat, target : Targets, last : BOOLEAN]

\* The places of an object; getMem is in Getting, between mlock.lock and mlock.unlock
\* in Locked; the ioctl that reconfigures is in Calling, with rcnfg_lock in Handling.
Locked == {"alloc", "take", "mmap", "map", "unlock"}
Getting == Locked \cup {"lock"}
Handling == {"start", "wait"}
Calling == Handling \cup {"reconfigure"}
Places == Getting \cup Calling \cup {"new", "idle", "free", "gone"}

MemoryTypes ==
  /\ env \in Environments
  /\ pc \in [Objects -> Places]
  /\ size \in [1 .. MaxAllocs -> Nat]
  /\ mine \in [Objects -> Nat]
  /\ mapped_pages \in [Objects -> SUBSET Nat]
  /\ handle \in [Objects -> Nat]
  /\ name \in Nat
  /\ generations \in Nat
  /\ held \in [Objects -> Nat]
  /\ curr_buff \in [n_pages : Nat, pid : Nat, crid : Nat, pages : Nat]
  /\ reconfig_buffs_map \subseteq Entry
  /\ mem_lock \in BOOLEAN
  /\ live \subseteq Nat
  /\ allocs \in 0 .. MaxAllocs

DeviceTypes ==
  /\ calls \in Nat
  /\ bitstream \in [Objects -> Nat]
  /\ target \in [Objects -> Targets \cup {None}]
  /\ page \in [Objects -> Nat]
  /\ rcnfg_lock \in Objects \cup {None}
  /\ wait_rcnfg \in BOOLEAN
  /\ pr_fifo \in Seq(Descriptor)
  /\ pr_done \in BOOLEAN
  /\ loaded \in [Targets -> [pages : Nat, n : Nat]]

TypeOK == MemoryTypes /\ DeviceTypes

OneMutex == "reopen" \notin env

\* Objects that exist have the mutex open, all the same one if the name is never
\* created again while they exist.
Handles ==
  /\ name <= generations
  /\ \A o \in Objects :
       /\ handle[o] <= generations
       /\ handle[o] = 0 <=> pc[o] \in {"new", "gone"}
       /\ OneMutex /\ handle[o] # 0 => handle[o] = generations
  /\ OneMutex => name \in {0, generations}

\* Whoever is past mlock.lock holds the mutex, and nobody else does.
Exclusive ==
  /\ \A o \in Objects : pc[o] \in Locked => held[o] = handle[o]
  /\ \A o, p \in Objects : held[o] # 0 /\ held[o] = held[p] => o = p

\* The number of a getMem call is that of one buffer of one object ...
OwnNumbers ==
  \A o \in Objects :
    /\ mapped_pages[o] \subseteq 1 .. allocs
    /\ mine[o] <= allocs
    /\ mine[o] # 0 <=> pc[o] \in Getting
    /\ \A p \in Objects :
         /\ mine[o] \notin mapped_pages[p]
         /\ o # p => mapped_pages[o] \cap mapped_pages[p] = {}
         /\ o # p /\ mine[o] # 0 => mine[o] # mine[p]

\* ... and the address of one entry, once the buffer is mapped.
EntryNumbers ==
  \A b \in reconfig_buffs_map :
    /\ b.vaddr \in 1 .. allocs
    /\ \A o \in Objects : b.vaddr = mine[o] => pc[o] = "unlock"
    /\ \A b2 \in reconfig_buffs_map : b.vaddr = b2.vaddr => b = b2

Numbers == OwnNumbers /\ EntryNumbers

\* The slot holds what the holder of the mutex has allocated.
Slot ==
  OneMutex => \A o \in Objects :
    pc[o] \in {"mmap", "map"} => curr_buff.pages = mine[o] /\ mine[o] \in live

\* Entries name the pages allocated for them, which are not freed.
Entries ==
  OneMutex => \A b \in reconfig_buffs_map : b.pages = b.vaddr /\ b.pages \in live

\* No buffer is empty.
Sized == \A a \in 1 .. allocs : size[a] # 0

MemoryInv == Handles /\ Exclusive /\ Numbers /\ Slot /\ Entries /\ Sized

\* A call reconfigures a target of its object with a buffer of its object; its
\* handler holds rcnfg_lock and has decoupled the target.
Handler ==
  \A c \in Objects :
    /\ pc[c] \in Calling => target[c] \in TargetsOf[c] /\ bitstream[c] \in mapped_pages[c]
    /\ pc[c] \in Handling => rcnfg_lock = c /\ target[c] \in dcpl
    /\ pc[c] \notin Handling => page[c] = 0

\* Descriptors of pages of one buffer for one target; the last page of the
\* bitstream, once written, is the last of them.
OneBitstream(q, pages, t, written) ==
  \A i \in 1 .. Len(q) :
    /\ q[i].pages = pages
    /\ q[i].target = t
    /\ q[i].last => i = Len(q) /\ written

\* Descriptors of consecutive pages, from page number n on.
Consecutive(q, n) == \A i \in 1 .. Len(q) : q[i].page = n + i - 1

\* The pages in the FIFO are those of the handler; the completion of the last one
\* is in the FIFO, in PR_DONE or in wait_rcnfg, and the handler waits for it.
Pipeline ==
  Undisturbed =>
    /\ pr_fifo # << >> \/ pr_done \/ wait_rcnfg =>
         rcnfg_lock # None /\ pc[rcnfg_lock] \in Handling
    /\ pr_fifo # << >> =>
         \E b \in Buffers(rcnfg_lock) : b.pages = bitstream[rcnfg_lock]
    /\ pr_fifo # << >> =>
         OneBitstream(pr_fifo, bitstream[rcnfg_lock], target[rcnfg_lock], pc[rcnfg_lock] = "wait")
    /\ pr_done \/ wait_rcnfg => pc[rcnfg_lock] = "wait" /\ pr_fifo = << >>
    /\ ~(pr_done /\ wait_rcnfg)

\* A bitstream that fits the FIFO is loaded page by page.
PageByPage ==
  Undisturbed => \A c \in Objects :
    pc[c] \in Handling /\ size[bitstream[c]] <= PR_FIFO_DEPTH =>
      LET done == page[c] - Len(pr_fifo)
      IN  /\ done \in Nat
          /\ pc[c] = "start" => page[c] < size[bitstream[c]]
          /\ pc[c] = "wait" => page[c] = size[bitstream[c]]
          /\ Consecutive(pr_fifo, done)
          /\ done # 0 => loaded[target[c]] = [pages |-> bitstream[c], n |-> done]

DeviceInv == Handler /\ Pipeline /\ PageByPage

Inv == TypeOK /\ MemoryInv /\ DeviceInv

-----------------------------------------------------------------------------
\* With one mutex, one object at a time is between mlock.lock and mlock.unlock.
LEMMA OneLocked ==
  ASSUME MemoryTypes, Handles, Exclusive, OneMutex, NEW o \in Objects, NEW p \in Objects,
         pc[o] \in Locked, pc[p] \in Locked
  PROVE  o = p
  BY DEF Handles, Exclusive, Locked

\* ... and none while the mutex is free.
LEMMA NoneLocked ==
  ASSUME MemoryTypes, Handles, Exclusive, OneMutex, NEW o \in Objects, NEW p \in Objects,
         pc[o] \notin {"new", "gone"}, MutexFree(o)
  PROVE  pc[p] \notin Locked
  BY DEF Handles, Exclusive, Locked, MutexFree

\* The numbers of the calls in progress are numbers of calls.
LEMMA MineInRange ==
  ASSUME MemoryTypes, Numbers, NEW o \in Objects, pc[o] \in Getting
  PROVE  mine[o] \in 1 .. allocs /\ mine[o] \in 1 .. MaxAllocs /\ size[mine[o]] \in Nat
<1>1. MaxAllocs \in Nat
  BY BitstreamAssumption
<1>2. mine[o] \in Nat /\ mine[o] # 0 /\ mine[o] <= allocs
  BY DEF MemoryTypes, Numbers, OwnNumbers
<1>3. allocs \in Nat /\ allocs <= MaxAllocs
  BY <1>1 DEF MemoryTypes
<1>4. mine[o] \in 1 .. allocs /\ mine[o] \in 1 .. MaxAllocs
  BY <1>1, <1>2, <1>3
<1>5. QED
  BY <1>4 DEF MemoryTypes
-----------------------------------------------------------------------------
\* The steps of the part of MemoryNext that concern one object.
MemoryStep(o) ==
  \/ Construct(o)
  \/ \E n \in Sizes[env] : getMem(o, n)
  \/ getMemStep(o)
  \/ Destroy(o)
  \/ \E a \in 1 .. MaxAllocs : freeMem(o, a)
  \/ RemoveMutex(o)
  \/ Die(o)

\* Types are kept by the memory part.
LEMMA MemoryTypesKept ==
  ASSUME MemoryTypes, Handles, Numbers, NEW o \in Objects, MemoryStep(o)
  PROVE  MemoryTypes'
<1> USE BitstreamAssumption DEF Entry, Places, Getting, Locked, Calling, Handling
<1>1. CASE Construct(o)
  <2>1. name' \in Nat /\ generations' \in Nat /\ handle' \in [Objects -> Nat]
    BY <1>1 DEF Construct, MemoryTypes
  <2>2. QED
    BY <1>1, <2>1, Zenon DEF Construct, Goto, driver, MemoryTypes
<1>2. CASE \E n \in Sizes[env] : getMem(o, n)
  <2>1. PICK n \in Sizes[env] : getMem(o, n)
    BY <1>2
  <2>2. n \in Nat /\ allocs + 1 \in 1 .. MaxAllocs /\ allocs' \in 0 .. MaxAllocs
    BY <2>1 DEF getMem, MemoryTypes
  <2>3. mine' \in [Objects -> Nat] /\ size' \in [1 .. MaxAllocs -> Nat]
    BY <2>1, <2>2 DEF getMem, MemoryTypes
  <2>4. QED
    BY <2>1, <2>2, <2>3, Zenon DEF getMem, Goto, driver, mutex, MemoryTypes
<1>3. CASE Lock(o)
  BY <1>3, Zenon DEF Lock, Goto, driver, MemoryTypes
<1>4. CASE AllocCheck(o)
  BY <1>4, Zenon DEF AllocCheck, Goto, driver, mutex, MemoryTypes
<1>5. CASE AllocRefused(o) \/ AllocTooLarge(o) \/ MmapInvalid(o)
  <2>1. Throw(o) /\ UNCHANGED driver
    BY <1>5 DEF AllocRefused, AllocTooLarge, MmapInvalid
  <2>2. QED
    BY <2>1, Zenon DEF Throw, Goto, driver, mutex, MemoryTypes
<1>6. ASSUME pc[o] = "take"
      PROVE  mine[o] \in Nat /\ size[mine[o]] \in Nat
  BY <1>6, MineInRange, Zenon DEF Getting, Locked, MemoryTypes
<1>7. CASE AllocNoArray(o) \/ AllocNoMemory(o)
  <2>1. mine[o] \in Nat /\ size[mine[o]] \in Nat
    BY <1>6, <1>7 DEF AllocNoArray, AllocNoMemory, Taking
  <2>2. PICK n \in Nat, a \in Nat : curr_buff' = [curr_buff EXCEPT !.n_pages = n, !.pages = a]
    BY <1>7, <2>1, Zenon DEF AllocNoArray, AllocNoMemory
  <2>3. curr_buff' \in [n_pages : Nat, pid : Nat, crid : Nat, pages : Nat]
    BY <2>2, Zenon DEF MemoryTypes
  <2>4. Throw(o) /\ UNCHANGED <<reconfig_buffs_map, live>> /\ mem_lock' \in BOOLEAN
    BY <1>7, Zenon DEF AllocNoArray, AllocNoMemory, MemoryTypes
  <2>5. QED
    BY <2>3, <2>4, Zenon DEF Throw, Goto, mutex, MemoryTypes
<1>8. CASE AllocTake(o)
  <2>1. curr_buff' \in [n_pages : Nat, pid : Nat, crid : Nat, pages : Nat]
    BY <1>6, <1>8 DEF AllocTake, Taking
  <2>2. live' \subseteq Nat
    BY <1>6, <1>8, Zenon DEF AllocTake, Taking, MemoryTypes
  <2>3. QED
    BY <1>8, <2>1, <2>2, Zenon DEF AllocTake, Goto, mutex, MemoryTypes
<1>9. CASE MmapCheck(o)
  BY <1>9, Zenon DEF MmapCheck, Goto, driver, mutex, MemoryTypes
<1>10. ASSUME pc[o] = "map"
       PROVE  NewBuff(o) \in Entry
  <2>1. CurrentPid(o) \in Nat
    BY DEF CurrentPid
  <2>2. QED
    BY <2>1 DEF NewBuff, Entry, MemoryTypes
<1>11. CASE MmapTake(o)
  BY <1>10, <1>11, Zenon DEF MmapTake, SlotEmptied, Goto, mutex, MemoryTypes
<1>12. CASE MmapFails(o)
  BY <1>10, <1>12, Zenon DEF MmapFails, Throw, Goto, mutex, MemoryTypes
<1>13. CASE Unlock(o)
  <2>1. mapped_pages[o] \cup {mine[o]} \in SUBSET Nat
    BY DEF MemoryTypes
  <2>2. mapped_pages' \in [Objects -> SUBSET Nat]
    BY <1>13, <2>1, Zenon DEF Unlock, MemoryTypes
  <2>3. QED
    BY <1>13, <2>2, Zenon DEF Unlock, Released, Goto, driver, MemoryTypes
<1>14. CASE Destroy(o)
  BY <1>14, Zenon DEF Destroy, Goto, driver, mutex, MemoryTypes
<1>15. CASE \E a \in 1 .. MaxAllocs : freeMem(o, a)
  <2>1. PICK a \in 1 .. MaxAllocs : freeMem(o, a)
    BY <1>15
  <2>2. mapped_pages[o] \ {a} \in SUBSET Nat
    BY DEF MemoryTypes
  <2>3. mapped_pages' \in [Objects -> SUBSET Nat]
    BY <2>1, <2>2, Zenon DEF freeMem, MemoryTypes
  <2>4. live' \subseteq live /\ reconfig_buffs_map' \subseteq reconfig_buffs_map
    BY <2>1 DEF freeMem
  <2>5. QED
    BY <2>1, <2>3, <2>4, Zenon DEF freeMem, mutex, MemoryTypes
<1>16. CASE RemoveMutex(o)
  BY <1>16, Zenon DEF RemoveMutex, Goto, driver, MemoryTypes
<1>17. CASE Die(o)
  BY <1>17, Zenon DEF Die, Goto, driver, MemoryTypes
<1>18. QED
  BY <1>1, <1>2, <1>3, <1>4, <1>5, <1>7, <1>8, <1>9, <1>11, <1>12, <1>13, <1>14, <1>15,
     <1>16, <1>17 DEF MemoryStep, getMemStep
\* Only the constructor, the destructor and death change who has the mutex open.
LEMMA MutexStays ==
  ASSUME MemoryTypes, NEW o \in Objects, MemoryStep(o),
         ~Construct(o), ~RemoveMutex(o), ~Die(o)
  PROVE  /\ pc[o] \notin {"new", "gone"} /\ pc'[o] \notin {"new", "gone"}
         /\ \A p \in Objects \ {o} : pc'[p] = pc[p]
         /\ UNCHANGED <<handle, name, generations, env>>
<1>1. CASE \E n \in Sizes[env] : getMem(o, n)
  BY <1>1 DEF getMem, Goto, mutex, MemoryTypes
<1>2. CASE getMemStep(o)
  <2>1. CASE Lock(o) \/ AllocCheck(o) \/ MmapCheck(o)
    BY <2>1 DEF Lock, AllocCheck, MmapCheck, Goto, mutex, MemoryTypes
  <2>2. CASE AllocRefused(o) \/ AllocTooLarge(o) \/ MmapInvalid(o)
    BY <2>2 DEF AllocRefused, AllocTooLarge, MmapInvalid, Throw, Goto, mutex, MemoryTypes
  <2>3. CASE AllocNoArray(o) \/ AllocNoMemory(o) \/ AllocTake(o)
    BY <2>3 DEF AllocNoArray, AllocNoMemory, AllocTake, Taking, Throw, Goto, mutex, MemoryTypes
  <2>4. CASE MmapTake(o) \/ MmapFails(o) \/ Unlock(o)
    BY <2>4 DEF MmapTake, MmapFails, Unlock, Throw, Goto, mutex, MemoryTypes
  <2>5. QED
    BY <1>2, <2>1, <2>2, <2>3, <2>4 DEF getMemStep
<1>3. CASE Destroy(o)
  BY <1>3 DEF Destroy, Goto, mutex, MemoryTypes
<1>4. CASE \E a \in 1 .. MaxAllocs : freeMem(o, a)
  BY <1>4 DEF freeMem, mutex, MemoryTypes
<1>5. QED
  BY <1>1, <1>2, <1>3, <1>4 DEF MemoryStep

\* A handle in use was issued by the mutex of its file, and only that one is held.
LEMMA HandlesKept ==
  ASSUME MemoryTypes, Handles, NEW o \in Objects, MemoryStep(o)
  PROVE  Handles'
<1>1. CASE Construct(o)
  <2>1. name' <= generations' /\ name' # 0 /\ (OneMutex => name' = generations')
    BY <1>1 DEF Construct, Handles, MemoryTypes
  <2>2. ASSUME NEW p \in Objects
        PROVE  /\ handle'[p] <= generations'
               /\ handle'[p] = 0 <=> pc'[p] \in {"new", "gone"}
               /\ OneMutex /\ handle'[p] # 0 => handle'[p] = generations'
    <3>1. CASE p = o
      BY <1>1, <2>1, <3>1 DEF Construct, Goto, MemoryTypes
    <3>2. CASE p # o
      BY <1>1, <3>2 DEF Construct, Goto, Handles, OneMutex, MemoryTypes
    <3>3. QED
      BY <3>1, <3>2
  <2>3. OneMutex' = OneMutex
    BY <1>1 DEF Construct, OneMutex
  <2>4. QED
    BY <2>1, <2>2, <2>3 DEF Handles
<1>2. CASE RemoveMutex(o) \/ Die(o)
  <2>1. /\ UNCHANGED <<generations, env>>
        /\ name' \in {0, name}
        /\ handle' = [handle EXCEPT ![o] = 0]
        /\ pc' = [pc EXCEPT ![o] = "gone"]
    BY <1>2 DEF RemoveMutex, Die, Goto
  <2>2. QED
    BY <2>1 DEF Handles, OneMutex, MemoryTypes
<1>3. CASE ~Construct(o) /\ ~RemoveMutex(o) /\ ~Die(o)
  BY <1>3, MutexStays DEF Handles, OneMutex
<1>4. QED
  BY <1>1, <1>2, <1>3

\* Other than through mlock.lock and mlock.unlock, nobody comes to hold a mutex or
\* stops holding one that they need.
LEMMA OwnerStays ==
  ASSUME MemoryTypes, NEW o \in Objects, MemoryStep(o), ~Lock(o), ~Unlock(o)
  PROVE  /\ held' = held
         /\ \A p \in Objects :
              pc'[p] \in Locked => pc[p] \in Locked /\ handle'[p] = handle[p]
<1> USE DEF Locked
<1>1. CASE Construct(o) \/ Destroy(o) \/ RemoveMutex(o) \/ Die(o)
  BY <1>1 DEF Construct, Destroy, RemoveMutex, Die, Goto, mutex, MemoryTypes
<1>2. CASE \E n \in Sizes[env] : getMem(o, n)
  BY <1>2 DEF getMem, Goto, mutex, MemoryTypes
<1>3. CASE getMemStep(o)
  <2>1. CASE AllocCheck(o) \/ MmapCheck(o) \/ AllocTake(o) \/ MmapTake(o)
    BY <2>1 DEF AllocCheck, MmapCheck, AllocTake, Taking, MmapTake, Goto, mutex, MemoryTypes
  <2>2. CASE \/ AllocRefused(o) \/ AllocTooLarge(o) \/ AllocNoArray(o) \/ AllocNoMemory(o)
             \/ MmapInvalid(o) \/ MmapFails(o)
    <3>1. Throw(o)
      BY <2>2 DEF AllocRefused, AllocTooLarge, AllocNoArray, AllocNoMemory, MmapInvalid, MmapFails
    <3>2. QED
      BY <3>1 DEF Throw, Goto, mutex, MemoryTypes
  <2>3. QED
    BY <1>3, <2>1, <2>2 DEF getMemStep
<1>4. CASE \E a \in 1 .. MaxAllocs : freeMem(o, a)
  BY <1>4 DEF freeMem, mutex, MemoryTypes
<1>5. QED
  BY <1>1, <1>2, <1>3, <1>4 DEF MemoryStep

\* No two objects are between the mutex and its release when they share the mutex.
LEMMA ExclusiveKept ==
  ASSUME MemoryTypes, Handles, Exclusive, NEW o \in Objects, MemoryStep(o)
  PROVE  Exclusive'
<1>1. CASE Lock(o)
  <2>1. /\ held' = [held EXCEPT ![o] = handle[o]]
        /\ \A p \in Objects : held[p] # handle[o]
        /\ UNCHANGED handle
        /\ \A p \in Objects \ {o} : pc'[p] = pc[p]
    BY <1>1 DEF Lock, MutexFree, Goto, MemoryTypes
  <2>2. QED
    BY <2>1 DEF Exclusive, MemoryTypes
<1>2. CASE Unlock(o)
  BY <1>2 DEF Unlock, Released, Goto, Locked, Exclusive, MemoryTypes
<1>3. CASE ~Lock(o) /\ ~Unlock(o)
  BY <1>3, OwnerStays DEF Exclusive
<1>4. QED
  BY <1>1, <1>2, <1>3

\* Losing numbers, buffers or entries does no harm.
LEMMA FewerNumbers ==
  ASSUME MemoryTypes, Numbers,
         allocs' = allocs,
         reconfig_buffs_map' \subseteq reconfig_buffs_map,
         \A p \in Objects :
           /\ mapped_pages'[p] \subseteq mapped_pages[p]
           /\ mine'[p] \in {0, mine[p]}
           /\ mine'[p] # 0 <=> pc'[p] \in Getting
           /\ mine'[p] # 0 /\ pc[p] = "unlock" => pc'[p] = "unlock"
  PROVE  Numbers'
<1>1. allocs \in Nat
  BY BitstreamAssumption DEF MemoryTypes
<1>2. \A p \in Objects : 0 \notin mapped_pages[p] /\ mine[p] \in Nat
  BY <1>1 DEF Numbers, OwnNumbers, MemoryTypes
<1>3. OwnNumbers'
  BY <1>1, <1>2 DEF Numbers, OwnNumbers
<1>4. EntryNumbers'
  BY <1>1 DEF Numbers, EntryNumbers
<1>5. QED
  BY <1>3, <1>4 DEF Numbers

\* Page arrays keep their numbers: none is handed out twice, none is in two maps.
LEMMA NumbersKept ==
  ASSUME MemoryTypes, Numbers, NEW o \in Objects, MemoryStep(o)
  PROVE  Numbers'
<1>1. allocs \in Nat /\ mine[o] \in Nat
  BY BitstreamAssumption DEF MemoryTypes
<1> USE DEF Getting, Locked
<1>2. CASE \E n \in Sizes[env] : getMem(o, n)
  <2>1. PICK n \in Sizes[env] : getMem(o, n)
    BY <1>2
  <2>2. /\ allocs' = allocs + 1
        /\ mine' = [mine EXCEPT ![o] = allocs + 1]
        /\ pc' = [pc EXCEPT ![o] = "lock"]
        /\ UNCHANGED <<mapped_pages, reconfig_buffs_map>>
    BY <2>1 DEF getMem, Goto, driver
  <2>3. OwnNumbers'
    BY <1>1, <2>2 DEF Numbers, OwnNumbers, MemoryTypes
  <2>4. EntryNumbers'
    BY <1>1, <2>2 DEF Numbers, EntryNumbers, MemoryTypes
  <2>5. QED
    BY <2>3, <2>4 DEF Numbers
<1>3. CASE MmapTake(o) \/ MmapFails(o)
  <2>1. /\ pc[o] = "map"
        /\ reconfig_buffs_map' = reconfig_buffs_map \cup {NewBuff(o)}
        /\ UNCHANGED <<mapped_pages, allocs>>
        /\ \/ pc' = [pc EXCEPT ![o] = "unlock"] /\ mine' = mine
           \/ pc' = [pc EXCEPT ![o] = "idle"] /\ mine' = [mine EXCEPT ![o] = 0]
    BY <1>3 DEF MmapTake, MmapFails, Throw, Goto
  <2>2. OwnNumbers'
    <3>1. CASE pc' = [pc EXCEPT ![o] = "unlock"] /\ mine' = mine
      BY <2>1, <3>1 DEF Numbers, OwnNumbers, MemoryTypes
    <3>2. CASE pc' = [pc EXCEPT ![o] = "idle"] /\ mine' = [mine EXCEPT ![o] = 0]
      BY <1>1, <2>1, <3>2 DEF Numbers, OwnNumbers, MemoryTypes
    <3>3. QED
      BY <2>1, <3>1, <3>2
  <2>3. mine[o] \in 1 .. allocs /\ \A b \in reconfig_buffs_map : b.vaddr # mine[o]
    BY <1>1, <2>1 DEF Numbers, OwnNumbers, EntryNumbers
  <2>4. NewBuff(o).vaddr = mine[o]
    BY DEF NewBuff
  <2>5. ASSUME NEW b \in reconfig_buffs_map', NEW p \in Objects, b.vaddr = mine'[p]
        PROVE  pc'[p] = "unlock"
    BY <1>1, <2>1, <2>3, <2>4, <2>5 DEF Numbers, OwnNumbers, EntryNumbers, MemoryTypes
  <2>6. EntryNumbers'
    BY <2>1, <2>3, <2>4, <2>5 DEF Numbers, EntryNumbers
  <2>7. QED
    BY <2>2, <2>6 DEF Numbers
<1>4. CASE Unlock(o)
  <2>1. /\ pc[o] = "unlock"
        /\ mapped_pages' = [mapped_pages EXCEPT ![o] = @ \cup {mine[o]}]
        /\ mine' = [mine EXCEPT ![o] = 0]
        /\ pc' = [pc EXCEPT ![o] = "idle"]
        /\ UNCHANGED <<allocs, reconfig_buffs_map>>
    BY <1>4 DEF Unlock, Goto, driver
  <2>2. OwnNumbers'
    BY <1>1, <2>1 DEF Numbers, OwnNumbers, MemoryTypes
  <2>3. EntryNumbers'
    BY <1>1, <2>1 DEF Numbers, EntryNumbers, MemoryTypes
  <2>4. QED
    BY <2>2, <2>3 DEF Numbers
<1>5. CASE \E a \in 1 .. MaxAllocs : freeMem(o, a)
  <2>1. PICK a \in 1 .. MaxAllocs : freeMem(o, a)
    BY <1>5
  <2>2. /\ UNCHANGED <<pc, mine, allocs>>
        /\ mapped_pages' = [mapped_pages EXCEPT ![o] = @ \ {a}]
        /\ reconfig_buffs_map' \subseteq reconfig_buffs_map
    BY <2>1 DEF freeMem
  <2>3. \A p \in Objects : mine[p] # 0 <=> pc[p] \in Getting
    BY DEF Numbers, OwnNumbers
  <2>4. QED
    BY <2>2, <2>3, FewerNumbers DEF MemoryTypes
<1>6. CASE Construct(o) \/ Destroy(o) \/ RemoveMutex(o) \/ Die(o)
  <2>1. \A p \in Objects : mine[p] # 0 <=> pc[p] \in Getting
    BY DEF Numbers, OwnNumbers
  <2>2. QED
    BY <1>6, <2>1, FewerNumbers, Zenon
    DEF Construct, Destroy, RemoveMutex, Die, Goto, driver, MemoryTypes
<1>7. CASE Lock(o) \/ AllocCheck(o) \/ AllocTake(o) \/ MmapCheck(o)
  <2>1. \A p \in Objects : mine[p] # 0 <=> pc[p] \in Getting
    BY DEF Numbers, OwnNumbers
  <2>2. QED
    BY <1>7, <2>1, FewerNumbers, Zenon
    DEF Lock, AllocCheck, AllocTake, Taking, MmapCheck, Goto, driver, MemoryTypes
<1>8. CASE \/ AllocRefused(o) \/ AllocTooLarge(o) \/ AllocNoArray(o) \/ AllocNoMemory(o)
           \/ MmapInvalid(o)
  <2>1. Throw(o) /\ UNCHANGED reconfig_buffs_map
    BY <1>8 DEF AllocRefused, AllocTooLarge, AllocNoArray, AllocNoMemory, MmapInvalid, driver
  <2>2. \A p \in Objects : mine[p] # 0 <=> pc[p] \in Getting
    BY DEF Numbers, OwnNumbers
  <2>3. QED
    BY <2>1, <2>2, FewerNumbers DEF Throw, Goto, MemoryTypes
<1>9. QED
  BY <1>2, <1>3, <1>4, <1>5, <1>6, <1>7, <1>8 DEF MemoryStep, getMemStep
\* The rest of the state each step may change: the driver's by alloc, mmap and
\* free calls only.
LEMMA DriverStays ==
  ASSUME MemoryTypes, NEW o \in Objects, MemoryStep(o)
  PROVE  /\ env' = env
         /\ \A p \in Objects \ {o} : pc'[p] = pc[p] /\ mine'[p] = mine[p]
         /\ \/ UNCHANGED driver /\ (pc'[o] \in {"mmap", "map"} => MmapCheck(o))
            \/ \E a \in 1 .. MaxAllocs : freeMem(o, a)
            \/ pc[o] \in Locked
<1> USE DEF Locked
<1>1. CASE Construct(o) \/ Destroy(o) \/ RemoveMutex(o) \/ Die(o)
  BY <1>1 DEF Construct, Destroy, RemoveMutex, Die, Goto, mutex, MemoryTypes
<1>2. CASE \E n \in Sizes[env] : getMem(o, n)
  BY <1>2 DEF getMem, Goto, mutex, MemoryTypes
<1>3. CASE getMemStep(o)
  <2>1. CASE Lock(o)
    BY <2>1 DEF Lock, Goto, mutex, MemoryTypes
  <2>2. CASE AllocCheck(o) \/ MmapCheck(o) \/ AllocTake(o) \/ MmapTake(o) \/ Unlock(o)
    BY <2>2, Zenon DEF AllocCheck, MmapCheck, AllocTake, Taking, MmapTake, Unlock, Goto, MemoryTypes
  <2>3. CASE \/ AllocRefused(o) \/ AllocTooLarge(o) \/ AllocNoArray(o) \/ AllocNoMemory(o)
             \/ MmapInvalid(o) \/ MmapFails(o)
    <3>1. Throw(o) /\ pc[o] \in Locked
      BY <2>3 DEF AllocRefused, AllocTooLarge, AllocNoArray, AllocNoMemory, Taking,
                  MmapInvalid, MmapFails
    <3>2. QED
      BY <3>1 DEF Throw, Goto, MemoryTypes
  <2>4. QED
    BY <1>3, <2>1, <2>2, <2>3, Zenon DEF getMemStep
<1>4. CASE \E a \in 1 .. MaxAllocs : freeMem(o, a)
  BY <1>4, Zenon DEF freeMem
<1>5. QED
  BY <1>1, <1>2, <1>3, <1>4 DEF MemoryStep

\* curr_buff is the array its owner is mapping.
LEMMA SlotKept ==
  ASSUME MemoryTypes, Handles, Exclusive, Numbers, Slot, NEW o \in Objects, MemoryStep(o)
  PROVE  Slot'
<1>1. SUFFICES ASSUME OneMutex, NEW p \in Objects, pc'[p] \in {"mmap", "map"}
               PROVE  curr_buff'.pages = mine'[p] /\ mine'[p] \in live'
  BY DriverStays DEF Slot, OneMutex
<1>2. CASE p # o
  <2>1. pc[p] \in {"mmap", "map"} /\ mine'[p] = mine[p]
    BY <1>1, <1>2, DriverStays
  <2>2. pc[p] \in Locked /\ pc[o] \notin Locked
    BY <1>1, <1>2, <2>1, OneLocked DEF Locked
  <2>3. ASSUME NEW a \in 1 .. MaxAllocs, freeMem(o, a)
        PROVE  FALSE
    BY <1>1, <2>2, <2>3, NoneLocked DEF freeMem
  <2>4. UNCHANGED driver
    BY <2>2, <2>3, DriverStays
  <2>5. QED
    BY <1>1, <2>1, <2>4 DEF Slot, driver
<1>3. CASE p = o
  <2>1. CASE AllocTake(o)
    BY <1>3, <2>1 DEF AllocTake
  <2>2. CASE MmapCheck(o)
    BY <1>1, <1>3, <2>2 DEF MmapCheck, Slot, driver
  <2>3. AllocTake(o) \/ MmapCheck(o)
    <3>1. CASE Construct(o) \/ Destroy(o) \/ RemoveMutex(o) \/ Die(o)
      BY <1>1, <1>3, <3>1 DEF Construct, Destroy, RemoveMutex, Die, Goto, MemoryTypes
    <3>2. CASE \E n \in Sizes[env] : getMem(o, n)
      BY <1>1, <1>3, <3>2 DEF getMem, Goto, MemoryTypes
    <3>3. CASE Lock(o) \/ AllocCheck(o) \/ MmapTake(o) \/ Unlock(o)
      BY <1>1, <1>3, <3>3 DEF Lock, AllocCheck, MmapTake, Unlock, Goto, MemoryTypes
    <3>4. ASSUME Throw(o)
          PROVE  FALSE
      BY <1>1, <1>3, <3>4 DEF Throw, Goto, MemoryTypes
    <3>5. CASE \/ AllocRefused(o) \/ AllocTooLarge(o) \/ AllocNoArray(o) \/ AllocNoMemory(o)
               \/ MmapInvalid(o) \/ MmapFails(o)
      BY <3>4, <3>5 DEF AllocRefused, AllocTooLarge, AllocNoArray, AllocNoMemory, MmapInvalid,
                        MmapFails
    <3>6. CASE \E a \in 1 .. MaxAllocs : freeMem(o, a)
      BY <1>1, <1>3, <3>6, Zenon DEF freeMem
    <3>7. QED
      BY <3>1, <3>2, <3>3, <3>5, <3>6 DEF MemoryStep, getMemStep
  <2>4. QED
    BY <2>1, <2>2, <2>3
<1>4. QED
  BY <1>2, <1>3

\* Every entry of reconfig_buffs_map holds the pages of its own address.
LEMMA EntriesKept ==
  ASSUME MemoryTypes, Numbers, Slot, Entries, NEW o \in Objects, MemoryStep(o)
  PROVE  Entries'
<1>1. SUFFICES ASSUME OneMutex, NEW b \in reconfig_buffs_map'
               PROVE  b.pages = b.vaddr /\ b.pages \in live'
  BY DriverStays DEF Entries, OneMutex
<1>2. CASE MmapTake(o) \/ MmapFails(o)
  <2>1. /\ pc[o] = "map"
        /\ reconfig_buffs_map' = reconfig_buffs_map \cup {NewBuff(o)}
        /\ live' = live
    BY <1>2 DEF MmapTake, MmapFails
  <2>2. curr_buff.pages = mine[o] /\ mine[o] \in live
    BY <1>1, <2>1 DEF Slot
  <2>3. CASE b \in reconfig_buffs_map
    BY <1>1, <2>1, <2>3 DEF Entries
  <2>4. CASE b = NewBuff(o)
    <3>1. b.pages = curr_buff.pages /\ b.vaddr = mine[o]
      BY <2>4, Zenon DEF NewBuff
    <3>2. QED
      BY <2>1, <2>2, <3>1, Zenon
  <2>5. QED
    BY <1>1, <2>1, <2>3, <2>4, Zenon
<1>3. CASE \E a \in 1 .. MaxAllocs : freeMem(o, a)
  <2>1. PICK a \in 1 .. MaxAllocs : freeMem(o, a)
    BY <1>3
  <2>2. b \in reconfig_buffs_map /\ b \notin Freed(o, a)
    BY <1>1, <2>1 DEF freeMem
  <2>3. \A f \in Freed(o, a) : f.pages = f.vaddr /\ f.vaddr # b.vaddr
    BY <1>1, <2>2 DEF Freed, Entries, Numbers, EntryNumbers
  <2>4. b.pages = b.vaddr /\ b.pages \in live
    BY <1>1, <2>2 DEF Entries
  <2>5. b.pages \notin {f.pages : f \in Freed(o, a)}
    BY <2>3, <2>4
  <2>6. QED
    BY <2>1, <2>4, <2>5 DEF freeMem
<1>4. ASSUME reconfig_buffs_map' = reconfig_buffs_map, live \subseteq live'
      PROVE  b.pages = b.vaddr /\ b.pages \in live'
  BY <1>1, <1>4 DEF Entries
<1>5. CASE AllocTake(o)
  BY <1>4, <1>5 DEF AllocTake
<1>6. CASE \/ Construct(o) \/ (\E n \in Sizes[env] : getMem(o, n)) \/ Lock(o) \/ AllocCheck(o)
           \/ AllocRefused(o) \/ AllocTooLarge(o) \/ MmapCheck(o) \/ MmapInvalid(o) \/ Unlock(o)
           \/ Destroy(o) \/ RemoveMutex(o) \/ Die(o)
  <2>1. UNCHANGED driver
    BY <1>6, Zenon DEF Construct, getMem, Lock, AllocCheck, AllocRefused, AllocTooLarge, MmapCheck,
                MmapInvalid, Unlock, Destroy, RemoveMutex, Die
  <2>2. QED
    BY <1>4, <2>1 DEF driver
<1>7. CASE AllocNoArray(o) \/ AllocNoMemory(o)
  BY <1>4, <1>7 DEF AllocNoArray, AllocNoMemory
<1>8. QED
  BY <1>2, <1>3, <1>5, <1>6, <1>7, Zenon DEF MemoryStep, getMemStep
\* What the memory part leaves alone: the size of a buffer, and the buffers and
\* entries of an object that is in a call to reconfigure.
LEMMA BuffersStay ==
  ASSUME MemoryTypes, Numbers, NEW o \in Objects, MemoryStep(o)
  PROVE  /\ pc[o] \notin Calling /\ pc'[o] \notin Calling
         /\ \A p \in Objects \ {o} : mapped_pages'[p] = mapped_pages[p]
         /\ \A p \in Objects \ {o} : \A b \in reconfig_buffs_map :
              b.vaddr \in mapped_pages[p] => b \in reconfig_buffs_map'
         /\ \A a \in 1 .. allocs : size'[a] = size[a]
<1> USE DEF Calling, Handling
<1>1. CASE Construct(o) \/ Destroy(o) \/ RemoveMutex(o) \/ Die(o)
  BY <1>1, Zenon DEF Construct, Destroy, RemoveMutex, Die, Goto, driver, MemoryTypes
<1>2. CASE \E n \in Sizes[env] : getMem(o, n)
  BY <1>2, BitstreamAssumption DEF getMem, Goto, driver, MemoryTypes
<1>3. CASE getMemStep(o)
  <2>1. CASE Lock(o) \/ AllocCheck(o) \/ MmapCheck(o) \/ Unlock(o)
    BY <2>1, Zenon DEF Lock, AllocCheck, MmapCheck, Unlock, Goto, driver, MemoryTypes
  <2>2. CASE AllocTake(o) \/ MmapTake(o)
    BY <2>2, Zenon DEF AllocTake, Taking, MmapTake, Goto, MemoryTypes
  <2>3. CASE \/ AllocRefused(o) \/ AllocTooLarge(o) \/ AllocNoArray(o) \/ AllocNoMemory(o)
             \/ MmapInvalid(o) \/ MmapFails(o)
    <3>1. /\ Throw(o) /\ pc[o] \in Locked
          /\ reconfig_buffs_map \subseteq reconfig_buffs_map'
      BY <2>3 DEF AllocRefused, AllocTooLarge, AllocNoArray, AllocNoMemory, Taking,
                  MmapInvalid, MmapFails, Locked, driver
    <3>2. QED
      BY <3>1 DEF Throw, Goto, Locked, MemoryTypes
  <2>4. QED
    BY <1>3, <2>1, <2>2, <2>3, Zenon DEF getMemStep
<1>4. CASE \E a \in 1 .. MaxAllocs : freeMem(o, a)
  <2>1. PICK a \in 1 .. MaxAllocs : freeMem(o, a)
    BY <1>4
  <2>2. \A p \in Objects \ {o} : a \notin mapped_pages[p]
    BY <2>1, Zenon DEF freeMem, Numbers, OwnNumbers
  <2>3. QED
    BY <2>1, <2>2 DEF freeMem, Freed, MemoryTypes
<1>5. QED
  BY <1>1, <1>2, <1>3, <1>4, Zenon DEF MemoryStep

\* An array that was allocated has pages.
LEMMA SizedKept ==
  ASSUME MemoryTypes, Numbers, Sized, NEW o \in Objects, MemoryStep(o)
  PROVE  Sized'
<1>1. CASE \E n \in Sizes[env] : getMem(o, n)
  BY <1>1, BitstreamAssumption DEF getMem, Sized, MemoryTypes
<1>2. ASSUME allocs' = allocs
      PROVE  Sized'
  BY <1>2, BuffersStay DEF Sized
<1>3. CASE Construct(o) \/ Destroy(o) \/ RemoveMutex(o) \/ Die(o)
  BY <1>2, <1>3 DEF Construct, Destroy, RemoveMutex, Die
<1>4. CASE getMemStep(o)
  BY <1>2, <1>4
  DEF getMemStep, Lock, AllocCheck, AllocRefused, AllocTooLarge, AllocNoArray, AllocNoMemory,
      AllocTake, MmapCheck, MmapInvalid, MmapTake, MmapFails, Unlock, Throw
<1>5. CASE \E a \in 1 .. MaxAllocs : freeMem(o, a)
  BY <1>2, <1>5 DEF freeMem
<1>6. QED
  BY <1>1, <1>3, <1>4, <1>5 DEF MemoryStep

\* The invariant of the buffers through every step of the memory interface.
LEMMA MemoryInvKept ==
  ASSUME MemoryTypes, MemoryInv, NEW o \in Objects, MemoryStep(o)
  PROVE  MemoryTypes' /\ MemoryInv'
  BY MemoryTypesKept, HandlesKept, ExclusiveKept, NumbersKept, SlotKept, EntriesKept, SizedKept
  DEF MemoryInv

-----------------------------------------------------------------------------
\* The steps of a call to reconfigure.
CallStep(c) ==
  \/ \E t \in Targets : reconfigureBase(c, t)
  \/ Decouple(c)
  \/ Refused(c)
  \/ StartFails(c)
  \/ WritePage(c)
  \/ WaitDone(c)
  \/ WaitInterrupted(c)

\* They move between the places of the call and leave the memory alone.
LEMMA CallStepMoves ==
  ASSUME MemoryTypes, NEW c \in Objects, CallStep(c)
  PROVE  /\ UNCHANGED memory
         /\ pc[c] \in Calling \cup {"idle"} /\ pc'[c] \in Calling \cup {"idle"}
         /\ \A p \in Objects \ {c} : pc'[p] = pc[p]
         /\ pc' \in [Objects -> Places]
<1> USE DEF Calling, Handling, Places
<1>1. CASE \E t \in Targets : reconfigureBase(c, t)
  BY <1>1 DEF reconfigureBase, Goto, MemoryTypes
<1>2. CASE Decouple(c) \/ WritePage(c)
  BY <1>2, Zenon DEF Decouple, WritePage, Goto, MemoryTypes
<1>3. CASE Refused(c) \/ StartFails(c)
  BY <1>3 DEF Refused, StartFails, Return, Goto, MemoryTypes
<1>4. CASE WaitDone(c) \/ WaitInterrupted(c)
  BY <1>4, Zenon DEF WaitDone, WaitInterrupted, Couple, Return, Goto, MemoryTypes
<1>5. QED
  BY <1>1, <1>2, <1>3, <1>4 DEF CallStep

\* A step of a reconfiguration leaves the invariant of the buffers alone.
LEMMA MemoryUntouched ==
  ASSUME MemoryTypes, MemoryInv, UNCHANGED memory,
         pc' \in [Objects -> Places],
         \A p \in Objects :
           pc'[p] = pc[p] \/ {pc[p], pc'[p]} \subseteq Calling \cup {"idle"}
  PROVE  MemoryTypes' /\ MemoryInv'
<1> USE DEF memory, driver, mutex
<1>1. MemoryTypes'
  BY DEF MemoryTypes, Entry
<1>2. ASSUME NEW p \in Objects
      PROVE  /\ pc'[p] \in Getting <=> pc[p] \in Getting
             /\ pc'[p] = pc[p] \/ pc[p] \notin Getting \cup {"new", "gone"}
             /\ pc'[p] \in {"new", "gone"} <=> pc[p] \in {"new", "gone"}
             /\ pc'[p] = "new" <=> pc[p] = "new"
  BY DEF Getting, Locked, Calling, Handling
<1>3. Handles' /\ Exclusive'
  BY <1>2 DEF MemoryInv, Handles, Exclusive, OneMutex, Getting
<1>4. Numbers'
  BY <1>2 DEF MemoryInv, Numbers, OwnNumbers, EntryNumbers, Getting, Locked
<1>5. Slot' /\ Entries' /\ Sized'
  BY <1>2 DEF MemoryInv, Slot, Entries, Sized, OneMutex, Getting, Locked
<1>6. QED
  BY <1>1, <1>3, <1>4, <1>5 DEF MemoryInv
-----------------------------------------------------------------------------
\* The buffer of a call has been allocated.
LEMMA BitstreamInRange ==
  ASSUME TypeOK, Numbers, Handler, NEW c \in Objects, pc[c] \in Calling
  PROVE  bitstream[c] \in 1 .. allocs /\ bitstream[c] \in 1 .. MaxAllocs
         /\ size[bitstream[c]] \in Nat
<1>1. MaxAllocs \in Nat /\ allocs \in Nat /\ allocs <= MaxAllocs
  BY BitstreamAssumption DEF TypeOK, MemoryTypes
<1>2. bitstream[c] \in 1 .. allocs
  BY DEF Handler, Numbers, OwnNumbers
<1>3. bitstream[c] \in 1 .. MaxAllocs
  BY <1>1, <1>2
<1>4. QED
  BY <1>2, <1>3 DEF TypeOK, MemoryTypes

\* A page is appended to the FIFO ...
LEMMA AppendPage ==
  ASSUME NEW q \in Seq(Descriptor), NEW d \in Descriptor
  PROVE  /\ Append(q, d) \in Seq(Descriptor)
         /\ Len(q) \in Nat
         /\ Len(Append(q, d)) = Len(q) + 1
         /\ \A i \in 1 .. Len(q) + 1 :
              \/ i \in 1 .. Len(q) /\ Append(q, d)[i] = q[i]
              \/ i = Len(q) + 1 /\ Append(q, d)[i] = d
  OBVIOUS

\* A page more of the same bitstream keeps the FIFO to one bitstream.
LEMMA AppendOneBitstream ==
  ASSUME NEW q \in Seq(Descriptor), NEW d \in Descriptor, NEW w \in BOOLEAN,
         OneBitstream(q, d.pages, d.target, FALSE), d.last => w
  PROVE  OneBitstream(Append(q, d), d.pages, d.target, w)
<1> SUFFICES ASSUME NEW i \in 1 .. Len(Append(q, d))
             PROVE  /\ Append(q, d)[i].pages = d.pages
                    /\ Append(q, d)[i].target = d.target
                    /\ Append(q, d)[i].last => i = Len(Append(q, d)) /\ w
  BY DEF OneBitstream
<1>1. CASE i \in 1 .. Len(q) /\ Append(q, d)[i] = q[i]
  BY <1>1, Zenon DEF OneBitstream
<1>2. CASE i = Len(q) + 1 /\ Append(q, d)[i] = d
  BY <1>2, AppendPage, Zenon
<1>3. QED
  BY <1>1, <1>2, AppendPage, Zenon

\* The next page keeps the pages of the FIFO consecutive.
LEMMA AppendConsecutive ==
  ASSUME NEW q \in Seq(Descriptor), NEW d \in Descriptor, NEW n \in Nat,
         Consecutive(q, n), d.page = n + Len(q)
  PROVE  Consecutive(Append(q, d), n)
<1> SUFFICES ASSUME NEW i \in 1 .. Len(Append(q, d))
             PROVE  Append(q, d)[i].page = n + i - 1
  BY DEF Consecutive
<1>1. CASE i \in 1 .. Len(q) /\ Append(q, d)[i] = q[i]
  BY <1>1, Zenon DEF Consecutive
<1>2. CASE i = Len(q) + 1 /\ Append(q, d)[i] = d
  BY <1>2, AppendPage
<1>3. QED
  BY <1>1, <1>2, AppendPage, Zenon

\* ... and one is taken from it.
LEMMA TailPage ==
  ASSUME NEW q \in Seq(Descriptor), q # << >>
  PROVE  /\ Len(q) \in Nat \ {0}
         /\ Head(q) = q[1] /\ Head(q) \in Descriptor
         /\ Tail(q) \in Seq(Descriptor)
         /\ Len(Tail(q)) = Len(q) - 1
         /\ \A i \in 1 .. Len(q) - 1 : Tail(q)[i] = q[i + 1] /\ i + 1 \in 1 .. Len(q)
         /\ Len(q) = 1 => Tail(q) = << >>
  OBVIOUS

\* Taking a page keeps the FIFO to one bitstream, the page taken being of it.
LEMMA TailOneBitstream ==
  ASSUME NEW q \in Seq(Descriptor), q # << >>, NEW pages, NEW t, NEW w \in BOOLEAN,
         OneBitstream(q, pages, t, w)
  PROVE  /\ OneBitstream(Tail(q), pages, t, w)
         /\ Head(q).pages = pages /\ Head(q).target = t
         /\ Head(q).last => w /\ Tail(q) = << >>
<1>1. 1 \in 1 .. Len(q)
  BY TailPage
<1>2. /\ Head(q).pages = pages /\ Head(q).target = t
      /\ Head(q).last => w /\ Len(q) = 1
  BY <1>1, TailPage, Zenon DEF OneBitstream
<1>3. ASSUME NEW i \in 1 .. Len(Tail(q))
      PROVE  /\ Tail(q)[i] = q[i + 1] /\ i + 1 \in 1 .. Len(q)
             /\ i + 1 = Len(q) => i = Len(Tail(q))
  BY TailPage
<1>4. OneBitstream(Tail(q), pages, t, w)
  BY <1>3, Zenon DEF OneBitstream
<1>5. QED
  BY <1>2, <1>4, TailPage, Zenon

\* Taking a page keeps the pages consecutive, the page taken being the next one.
LEMMA TailConsecutive ==
  ASSUME NEW q \in Seq(Descriptor), q # << >>, NEW n \in Nat, Consecutive(q, n)
  PROVE  Head(q).page = n /\ Consecutive(Tail(q), n + 1)
<1>1. 1 \in 1 .. Len(q) /\ n + 1 - 1 = n
  BY TailPage
<1>2. Head(q).page = n
  BY <1>1, TailPage, Zenon DEF Consecutive
<1>3. ASSUME NEW i \in 1 .. Len(Tail(q))
      PROVE  /\ Tail(q)[i] = q[i + 1] /\ i + 1 \in 1 .. Len(q)
             /\ n + (i + 1) - 1 = n + 1 + i - 1
  BY TailPage
<1>4. Consecutive(Tail(q), n + 1)
  BY <1>3, Zenon DEF Consecutive
<1>5. QED
  BY <1>2, <1>4

\* An empty FIFO is consecutive from anywhere.
LEMMA EmptyFifo ==
  ASSUME NEW q, q = << >>, NEW n
  PROVE  Len(q) = 0 /\ Consecutive(q, n)
  BY DEF Consecutive

\* What the FIFO holds after a write of the control register.
LEMMA PushedPage ==
  ASSUME DeviceTypes, NEW d \in Descriptor
  PROVE  /\ Pushed(d) \in {pr_fifo, Append(pr_fifo, d)}
         /\ Pushed(d) \in Seq(Descriptor)
         /\ Len(pr_fifo) < PR_FIFO_DEPTH => Pushed(d) = Append(pr_fifo, d)
  BY AppendPage, Zenon DEF Pushed, DeviceTypes

\* Types are kept by the device part.
LEMMA DeviceTypesKept ==
  ASSUME TypeOK, Numbers, Handler, NEW c \in Objects, CallStep(c)
  PROVE  DeviceTypes'
<1> USE ReconfigurationAssumption DEF Targets, Descriptor
<1>1. CASE \E t \in Targets : reconfigureBase(c, t)
  <2>1. PICK t \in Targets, a \in mapped_pages[c] :
          reconfigureBase(c, t) /\ bitstream' = [bitstream EXCEPT ![c] = a]
    BY <1>1, Zenon DEF reconfigureBase
  <2>2. a \in Nat
    BY DEF TypeOK, MemoryTypes
  <2>3. QED
    BY <2>1, <2>2 DEF reconfigureBase, device, static, TypeOK, DeviceTypes
<1>2. CASE Decouple(c)
  BY <1>2 DEF Decouple, call, static, TypeOK, DeviceTypes
<1>3. CASE Refused(c) \/ StartFails(c)
  <2>1. Return(c) /\ UNCHANGED device
    BY <1>3 DEF Refused, StartFails
  <2>2. QED
    BY <2>1 DEF Return, device, static, TypeOK, DeviceTypes
<1>4. CASE WritePage(c)
  <2>1. PICK b \in Buffers(c) :
          pr_fifo' = Pushed([pages |-> b.pages, page |-> page[c], target |-> target[c],
                             last |-> (page[c] = size[bitstream[c]] - 1)])
    BY <1>4, Zenon DEF WritePage
  <2>2. target[c] \in Targets
    BY <1>4, Zenon DEF WritePage, Handler, Calling, Handling
  <2>3. [pages |-> b.pages, page |-> page[c], target |-> target[c],
         last |-> (page[c] = size[bitstream[c]] - 1)] \in Descriptor
    BY <2>2, Zenon DEF Buffers, Entry, TypeOK, MemoryTypes, DeviceTypes
  <2>4. pr_fifo' \in Seq(Descriptor)
    BY <2>1, <2>3, PushedPage, Zenon DEF TypeOK
  <2>5. pr_done' \in BOOLEAN /\ page' \in [Objects -> Nat]
    BY <1>4 DEF WritePage, TypeOK, DeviceTypes
  <2>6. UNCHANGED <<calls, bitstream, target, device, loaded>>
    BY <1>4 DEF WritePage
  <2>7. QED
    BY <2>4, <2>5, <2>6 DEF device, TypeOK, DeviceTypes
<1>5. CASE WaitDone(c) \/ WaitInterrupted(c)
  <2>1. Couple(c)
    BY <1>5 DEF WaitDone, WaitInterrupted
  <2>2. QED
    BY <2>1, Zenon DEF Couple, FlagAfterWait, Return, static, TypeOK, DeviceTypes
<1>6. QED
  BY <1>1, <1>2, <1>3, <1>4, <1>5 DEF CallStep

\* The static layer keeps the types of the device state.
LEMMA StaticTypesKept ==
  ASSUME TypeOK, LoadPage \/ reconfig_isr
  PROVE  DeviceTypes'
<1> USE DEF Targets, Descriptor
<1>1. CASE LoadPage
  <2>1. Head(pr_fifo) \in Descriptor /\ Tail(pr_fifo) \in Seq(Descriptor)
    BY <1>1, TailPage, Zenon DEF LoadPage, TypeOK, DeviceTypes
  <2>2. OneMore(loaded[Head(pr_fifo).target], Head(pr_fifo)) \in [pages : Nat, n : Nat]
    BY <2>1 DEF OneMore
  <2>3. loaded' \in [Targets -> [pages : Nat, n : Nat]]
    BY <1>1, <2>1, <2>2 DEF LoadPage, TypeOK, DeviceTypes
  <2>4. pr_done' \in BOOLEAN /\ UNCHANGED <<call, device>> /\ pr_fifo' \in Seq(Descriptor)
    BY <1>1, <2>1 DEF LoadPage, TypeOK, DeviceTypes
  <2>5. QED
    BY <2>3, <2>4 DEF call, device, TypeOK, DeviceTypes
<1>2. CASE reconfig_isr
  BY <1>2, Zenon DEF reconfig_isr, call, TypeOK, DeviceTypes
<1>3. QED
  BY <1>1, <1>2
\* Steps of getMem, freeMem and the destructor do not disturb a reconfiguration.
LEMMA DeviceInvUndisturbed ==
  ASSUME TypeOK, MemoryInv, DeviceInv, NEW o \in Objects, MemoryStep(o),
         UNCHANGED <<call, device, static>>
  PROVE  DeviceTypes' /\ DeviceInv'
<1> USE DEF call, device, static
<1>1. DeviceTypes'
  BY DEF TypeOK, DeviceTypes, Targets, Descriptor
<1>2. /\ pc[o] \notin Calling /\ pc'[o] \notin Calling
      /\ \A p \in Objects \ {o} : pc'[p] = pc[p] /\ mapped_pages'[p] = mapped_pages[p]
      /\ Undisturbed' = Undisturbed
  BY BuffersStay, DriverStays DEF MemoryInv, TypeOK, Undisturbed
<1>3. ASSUME NEW c \in Objects, pc[c] \in Calling
      PROVE  size'[bitstream[c]] = size[bitstream[c]] /\ Buffers(c) \subseteq Buffers(c)'
  <2>1. c # o /\ bitstream[c] \in mapped_pages[c] /\ bitstream[c] \in 1 .. allocs
    BY <1>2, <1>3, BitstreamInRange, Zenon DEF MemoryInv, DeviceInv, Handler
  <2>2. QED
    BY <2>1, BuffersStay, Zenon DEF MemoryInv, TypeOK, Buffers
<1>4. Handler'
  BY <1>2, Zenon DEF DeviceInv, Handler, Calling
<1>5. Pipeline'
  <2>1. SUFFICES ASSUME Undisturbed
                 PROVE  Pipeline'
    BY <1>2, Zenon DEF Pipeline
  <2>2. rcnfg_lock # None => rcnfg_lock \in Objects
    BY DEF TypeOK, DeviceTypes
  <2>3. pr_fifo # << >> \/ pr_done \/ wait_rcnfg =>
          /\ rcnfg_lock \in Objects \ {o}
          /\ pc[rcnfg_lock] \in Handling
          /\ pc'[rcnfg_lock] = pc[rcnfg_lock]
    BY <1>2, <2>1, <2>2, Zenon DEF DeviceInv, Pipeline, Calling
  <2>4. pr_fifo # << >> => \E b \in Buffers(rcnfg_lock)' : b.pages = bitstream[rcnfg_lock]
    BY <1>3, <2>1, <2>3, Zenon DEF DeviceInv, Pipeline, Calling
  <2>5. QED
    BY <1>2, <2>1, <2>3, <2>4, Zenon DEF DeviceInv, Pipeline
<1>6. PageByPage'
  BY <1>2, <1>3, Zenon DEF DeviceInv, PageByPage, Calling, Handling
<1>7. QED
  BY <1>1, <1>4, <1>5, <1>6 DEF DeviceInv

\* The handler that owns rcnfg_lock is the only one past it.
LEMMA HandlerKept ==
  ASSUME TypeOK, MemoryInv, DeviceInv, NEW c \in Objects, CallStep(c)
  PROVE  Handler'
<1> USE DEF Calling, Handling
<1>1. CASE \E t \in Targets : reconfigureBase(c, t)
  <2>1. PICK t \in TargetsOf[c], a \in mapped_pages[c] :
          /\ pc' = [pc EXCEPT ![c] = "reconfigure"] /\ pc[c] = "idle"
          /\ bitstream' = [bitstream EXCEPT ![c] = a]
          /\ target' = [target EXCEPT ![c] = t]
          /\ UNCHANGED <<mapped_pages, page, rcnfg_lock, dcpl>>
    BY <1>1, Zenon DEF reconfigureBase, Goto, memory, device
  <2>2. QED
    BY <2>1, Zenon DEF DeviceInv, Handler, TypeOK, MemoryTypes, DeviceTypes
<1>2. CASE Decouple(c)
  <2>1. /\ pc' = [pc EXCEPT ![c] = "start"] /\ pc[c] = "reconfigure"
        /\ rcnfg_lock' = c /\ target[c] \in dcpl' /\ rcnfg_lock = None
        /\ UNCHANGED <<mapped_pages, bitstream, target, page>>
    BY <1>2 DEF Decouple, LockFree, Decoupled, Goto, memory, call
  <2>2. \A p \in Objects : pc[p] \notin Handling
    BY <2>1, BitstreamAssumption DEF DeviceInv, Handler
  <2>3. QED
    BY <2>1, <2>2 DEF DeviceInv, Handler, TypeOK, MemoryTypes
<1>3. CASE WritePage(c)
  BY <1>3, Zenon DEF WritePage, Goto, memory, device, DeviceInv, Handler, TypeOK, MemoryTypes,
              DeviceTypes
<1>4. CASE StartFails(c) \/ WaitDone(c) \/ WaitInterrupted(c)
  <2>1. pc[c] \in Handling /\ Return(c)
    BY <1>4 DEF StartFails, WaitDone, WaitInterrupted, Couple
  <2>2. \A p \in Objects \ {c} : pc[p] \notin Handling
    BY <2>1 DEF DeviceInv, Handler
  <2>3. QED
    BY <2>1, <2>2 DEF Return, Goto, memory, DeviceInv, Handler, TypeOK, MemoryTypes, DeviceTypes
<1>5. CASE Refused(c)
  <2>1. /\ pc' = [pc EXCEPT ![c] = "idle"] /\ pc[c] = "reconfigure"
        /\ page' = [page EXCEPT ![c] = 0]
        /\ \A p \in Objects \ {c} : target'[p] = target[p] /\ bitstream'[p] = bitstream[p]
        /\ UNCHANGED <<mapped_pages, rcnfg_lock, dcpl>>
    BY <1>5 DEF Refused, Return, Goto, memory, device, TypeOK, DeviceTypes
  <2>2. QED
    BY <2>1, Zenon DEF DeviceInv, Handler, TypeOK, MemoryTypes, DeviceTypes
<1>6. QED
  BY <1>1, <1>2, <1>3, <1>4, <1>5 DEF CallStep

\* A page is written: it is the next one of the only bitstream in the FIFO.
LEMMA WritePagePipeline ==
  ASSUME TypeOK, MemoryInv, DeviceInv, NEW c \in Objects, WritePage(c), Undisturbed
  PROVE  Pipeline'
<1> DEFINE d(b) == [pages |-> b.pages, page |-> page[c], target |-> target[c],
                    last |-> (page[c] = size[bitstream[c]] - 1)]
<1>1. PICK b \in Buffers(c) : pr_fifo' = Pushed(d(b))
  BY Zenon DEF WritePage
<1>2. b.pages = bitstream[c]
  BY <1>1, Zenon DEF Buffers, MemoryInv, Entries, OneMutex, Undisturbed
<1>3. pc[c] = "start" /\ rcnfg_lock = c /\ rcnfg_lock # None /\ target[c] \in TargetsOf[c]
  BY BitstreamAssumption, Zenon DEF WritePage, DeviceInv, Handler, Handling, Calling
<1>4. ~pr_done /\ ~wait_rcnfg
  BY <1>3 DEF DeviceInv, Pipeline
<1>5. d(b) \in Descriptor
  BY <1>1, <1>3, ReconfigurationAssumption
  DEF Buffers, Entry, Descriptor, TypeOK, MemoryTypes, DeviceTypes
<1>6. /\ UNCHANGED <<bitstream, target, rcnfg_lock, wait_rcnfg, reconfig_buffs_map>>
      /\ ~pr_done' /\ pc'[c] \in Handling
      /\ d(b).last => pc'[c] = "wait"
  BY <1>4, Zenon DEF WritePage, Goto, memory, driver, device, Handling, TypeOK, MemoryTypes
<1>7. Buffers(c)' = Buffers(c)
  BY <1>6, Zenon DEF Buffers
<1>8. OneBitstream(pr_fifo, bitstream[c], target[c], FALSE)
  <2>1. CASE pr_fifo = << >>
    BY <2>1 DEF OneBitstream
  <2>2. CASE pr_fifo # << >>
    BY <1>3, <2>2, Zenon DEF DeviceInv, Pipeline, OneBitstream
  <2>3. QED
    BY <2>1, <2>2, Zenon
<1>9. d(b).pages = bitstream[c] /\ d(b).target = target[c]
  BY <1>2, Zenon
<1> HIDE DEF d
<1>10. OneBitstream(pr_fifo', bitstream[c], target[c], pc'[c] = "wait")
  <2>1. CASE pr_fifo' = pr_fifo
    BY <1>8, <2>1, Zenon DEF OneBitstream
  <2>2. CASE pr_fifo' = Append(pr_fifo, d(b))
    BY <1>5, <1>6, <1>8, <1>9, <2>2, AppendOneBitstream, Zenon DEF TypeOK, DeviceTypes
  <2>3. QED
    BY <1>1, <1>5, <2>1, <2>2, PushedPage, Zenon DEF TypeOK
<1>11. \E b2 \in Buffers(c)' : b2.pages = bitstream[c]
  BY <1>1, <1>2, <1>7, Zenon
<1>12. QED
  BY <1>3, <1>4, <1>6, <1>10, <1>11, Zenon DEF Pipeline

\* What is in the FIFO belongs to the handler, through the steps of the handler.
LEMMA PipelineKept ==
  ASSUME TypeOK, MemoryInv, DeviceInv, NEW c \in Objects, CallStep(c)
  PROVE  Pipeline'
<1>1. SUFFICES ASSUME Undisturbed
               PROVE  Pipeline'
  <2>1. env' = env
    BY CallStepMoves DEF memory, TypeOK
  <2>2. QED
    BY <2>1, Zenon DEF Pipeline, Undisturbed
<1>2. CASE \E t \in Targets : reconfigureBase(c, t)
  <2>1. PICK t \in TargetsOf[c], a \in mapped_pages[c] :
          /\ pc' = [pc EXCEPT ![c] = "reconfigure"] /\ pc[c] = "idle"
          /\ bitstream' = [bitstream EXCEPT ![c] = a]
          /\ target' = [target EXCEPT ![c] = t]
          /\ UNCHANGED <<rcnfg_lock, wait_rcnfg, pr_fifo, pr_done, reconfig_buffs_map>>
    BY <1>2, Zenon DEF reconfigureBase, Goto, memory, driver, device, static
  <2>2. pr_fifo # << >> \/ pr_done \/ wait_rcnfg =>
          /\ rcnfg_lock \in Objects \ {c}
          /\ pc[rcnfg_lock] \in Handling /\ pc'[rcnfg_lock] = pc[rcnfg_lock]
          /\ bitstream'[rcnfg_lock] = bitstream[rcnfg_lock]
          /\ target'[rcnfg_lock] = target[rcnfg_lock]
          /\ Buffers(rcnfg_lock)' = Buffers(rcnfg_lock)
    BY <1>1, <2>1, Zenon
    DEF DeviceInv, Pipeline, Handling, Buffers, TypeOK, MemoryTypes, DeviceTypes
  <2>3. QED
    BY <1>1, <2>1, <2>2, Zenon DEF DeviceInv, Pipeline
<1>3. ASSUME pr_fifo' = << >>, ~pr_done', ~wait_rcnfg'
      PROVE  Pipeline'
  BY <1>3, Zenon DEF Pipeline
<1>4. CASE Decouple(c)
  <2>1. pr_fifo = << >> /\ ~pr_done /\ ~wait_rcnfg
    BY <1>1, <1>4 DEF Decouple, LockFree, DeviceInv, Pipeline
  <2>2. QED
    BY <1>3, <1>4, <2>1, Zenon DEF Decouple, static
<1>5. CASE StartFails(c)
  <2>1. pc[c] = "start" /\ rcnfg_lock = c /\ Buffers(c) = {}
    BY <1>5 DEF StartFails, DeviceInv, Handler, Handling
  <2>2. pr_fifo = << >> /\ ~pr_done /\ ~wait_rcnfg
    BY <1>1, <2>1 DEF DeviceInv, Pipeline
  <2>3. QED
    BY <1>3, <1>5, <2>2 DEF StartFails, Return, static, device
<1>6. CASE WritePage(c)
  BY <1>1, <1>6, WritePagePipeline
<1>7. CASE WaitDone(c)
  <2>1. pr_fifo = << >> /\ ~pr_done
    BY <1>1, <1>7 DEF WaitDone, DeviceInv, Pipeline
  <2>2. QED
    BY <1>3, <1>7, <2>1 DEF WaitDone, Couple, FlagAfterWait, Return, static
<1>8. CASE WaitInterrupted(c)
  BY <1>1, <1>8 DEF WaitInterrupted, Undisturbed
<1>9. CASE Refused(c)
  <2>1. /\ pc' = [pc EXCEPT ![c] = "idle"] /\ pc[c] = "reconfigure"
        /\ bitstream' = [bitstream EXCEPT ![c] = 0]
        /\ target' = [target EXCEPT ![c] = None]
        /\ UNCHANGED <<rcnfg_lock, wait_rcnfg, pr_fifo, pr_done, reconfig_buffs_map>>
    BY <1>9, Zenon DEF Refused, Return, Goto, memory, driver, device, static
  <2>2. pr_fifo # << >> \/ pr_done \/ wait_rcnfg =>
          /\ rcnfg_lock \in Objects \ {c}
          /\ pc[rcnfg_lock] \in Handling /\ pc'[rcnfg_lock] = pc[rcnfg_lock]
          /\ bitstream'[rcnfg_lock] = bitstream[rcnfg_lock]
          /\ target'[rcnfg_lock] = target[rcnfg_lock]
          /\ Buffers(rcnfg_lock)' = Buffers(rcnfg_lock)
    BY <1>1, <2>1, Zenon
    DEF DeviceInv, Pipeline, Handling, Buffers, TypeOK, MemoryTypes, DeviceTypes
  <2>3. QED
    BY <1>1, <2>1, <2>2, Zenon DEF DeviceInv, Pipeline
<1>10. QED
  BY <1>2, <1>4, <1>5, <1>6, <1>7, <1>8, <1>9 DEF CallStep

\* The arithmetic of one more page.
LEMMA RoomForPage ==
  ASSUME NEW p \in Nat, NEW l \in Nat, NEW s \in Nat, NEW depth \in Nat,
         p - l \in Nat, p < s, s <= depth
  PROVE  /\ l < depth
         /\ p = (p - l) + l
         /\ (p + 1) - (l + 1) = p - l
         /\ p = s - 1 => p + 1 = s
         /\ p # s - 1 => p + 1 < s
  OBVIOUS

\* What the handler has written and the FIFO does not hold has been loaded.
LEMMA PageByPageKept ==
  ASSUME TypeOK, MemoryInv, DeviceInv, NEW c \in Objects, CallStep(c)
  PROVE  PageByPage'
<1> USE DEF Handling, Calling
<1>1. UNCHANGED <<env, size>> /\ Undisturbed' = Undisturbed
  BY CallStepMoves DEF memory, TypeOK, Undisturbed
<1>2. SUFFICES ASSUME Undisturbed, NEW h \in Objects, pc'[h] \in Handling,
                      size'[bitstream'[h]] <= PR_FIFO_DEPTH
               PROVE  LET done == page'[h] - Len(pr_fifo')
                      IN  /\ done \in Nat
                          /\ pc'[h] = "start" => page'[h] < size'[bitstream'[h]]
                          /\ pc'[h] = "wait" => page'[h] = size'[bitstream'[h]]
                          /\ Consecutive(pr_fifo', done)
                          /\ done # 0 =>
                               loaded'[target'[h]] = [pages |-> bitstream'[h], n |-> done]
  BY <1>1, Zenon DEF PageByPage
<1>3. CASE \E t \in Targets : reconfigureBase(c, t)
  <2>1. h # c /\ UNCHANGED <<page, static>>
        /\ pc'[h] = pc[h] /\ bitstream'[h] = bitstream[h] /\ target'[h] = target[h]
    BY <1>2, <1>3, Zenon DEF reconfigureBase, Goto, TypeOK, MemoryTypes, DeviceTypes
  <2>2. QED
    BY <1>1, <1>2, <2>1, Zenon DEF static, DeviceInv, PageByPage
<1>4. CASE Decouple(c)
  <2>1. /\ pc' = [pc EXCEPT ![c] = "start"] /\ pc[c] = "reconfigure" /\ rcnfg_lock = None
        /\ UNCHANGED <<bitstream, target, page, pr_fifo>>
    BY <1>4 DEF Decouple, LockFree, Goto, call, static
  <2>2. h = c /\ page[c] = 0 /\ pr_fifo = << >> /\ pc'[c] = "start"
    BY <1>2, <2>1, BitstreamAssumption, Zenon DEF DeviceInv, Handler, Pipeline, TypeOK, MemoryTypes
  <2>3. size[bitstream[c]] \in Nat \ {0}
    BY <2>1, BitstreamInRange DEF MemoryInv, DeviceInv, Sized
  <2>4. page'[h] = 0 /\ Len(pr_fifo') = 0 /\ Consecutive(pr_fifo', 0)
    BY <2>1, <2>2, EmptyFifo, Zenon
  <2>5. size'[bitstream'[h]] = size[bitstream[c]]
    BY <1>1, <2>1, <2>2
  <2>6. page'[h] - Len(pr_fifo') = 0
    BY <2>4
  <2>7. page'[h] < size'[bitstream'[h]]
    BY <2>3, <2>4, <2>5
  <2>8. QED
    BY <2>2, <2>4, <2>6, <2>7
<1>5. CASE WritePage(c)
  <2> DEFINE d(b) == [pages |-> b.pages, page |-> page[c], target |-> target[c],
                      last |-> (page[c] = size[bitstream[c]] - 1)]
             done == page[c] - Len(pr_fifo)
  <2>1. PICK b \in Buffers(c) : pr_fifo' = Pushed(d(b))
    BY <1>5, Zenon DEF WritePage
  <2>2. pc[c] = "start" /\ h = c
    BY <1>2, <1>5, Zenon DEF WritePage, Goto, DeviceInv, Handler, TypeOK, MemoryTypes
  <2>3. d(b) \in Descriptor
    BY <2>1, <2>2, ReconfigurationAssumption, Zenon
    DEF Buffers, Entry, Descriptor, DeviceInv, Handler, TypeOK, MemoryTypes, DeviceTypes
  <2>4. /\ UNCHANGED <<bitstream, target, loaded>>
        /\ page'[c] = page[c] + 1
        /\ pc'[c] = IF page[c] = size[bitstream[c]] - 1 THEN "wait" ELSE "start"
    BY <1>5 DEF WritePage, Goto, TypeOK, MemoryTypes, DeviceTypes
  <2>5. /\ done \in Nat /\ page[c] < size[bitstream[c]]
        /\ Consecutive(pr_fifo, done)
        /\ done # 0 => loaded[target[c]] = [pages |-> bitstream[c], n |-> done]
    BY <1>1, <1>2, <2>2, <2>4, Zenon DEF DeviceInv, PageByPage
  <2>6. /\ page[c] \in Nat /\ Len(pr_fifo) \in Nat /\ size[bitstream[c]] \in Nat
        /\ PR_FIFO_DEPTH \in Nat /\ size[bitstream[c]] <= PR_FIFO_DEPTH
    <3>1. size[bitstream[c]] \in Nat
      BY <2>2, BitstreamInRange, Zenon DEF MemoryInv, DeviceInv
    <3>2. Len(pr_fifo) \in Nat
      BY DEF TypeOK, DeviceTypes
    <3>3. page[c] \in Nat
      BY Zenon DEF TypeOK, DeviceTypes
    <3>4. QED
      BY <1>1, <1>2, <2>2, <2>4, <3>1, <3>2, <3>3, ReconfigurationAssumption, Zenon
  <2>7. Len(pr_fifo) < PR_FIFO_DEPTH /\ page[c] = done + Len(pr_fifo)
    BY <2>5, <2>6, RoomForPage, Zenon
  <2>8. /\ (page[c] + 1) - (Len(pr_fifo) + 1) = done
        /\ page[c] = size[bitstream[c]] - 1 => page[c] + 1 = size[bitstream[c]]
        /\ page[c] # size[bitstream[c]] - 1 => page[c] + 1 < size[bitstream[c]]
    <3>1. (page[c] + 1) - (Len(pr_fifo) + 1) = page[c] - Len(pr_fifo)
      BY <2>5, <2>6, RoomForPage, Zenon
    <3>2. page[c] = size[bitstream[c]] - 1 => page[c] + 1 = size[bitstream[c]]
      BY <2>6
    <3>3. page[c] # size[bitstream[c]] - 1 => page[c] + 1 < size[bitstream[c]]
      BY <2>5, <2>6, RoomForPage, Zenon
    <3>4. QED
      BY <3>1, <3>2, <3>3, Zenon
  <2>9. pr_fifo' = Append(pr_fifo, d(b)) /\ d(b).page = page[c]
    BY <2>1, <2>3, <2>7, PushedPage, Zenon DEF TypeOK
  <2> HIDE DEF done, d
  <2>10. Len(pr_fifo') = Len(pr_fifo) + 1 /\ Consecutive(pr_fifo', done)
    BY <2>3, <2>5, <2>7, <2>9, AppendPage, AppendConsecutive, Zenon DEF TypeOK, DeviceTypes
  <2>11. page'[c] - Len(pr_fifo') = done
    BY <2>4, <2>8, <2>10, Zenon
  <2>12. /\ pc'[c] = "start" => page'[c] < size[bitstream[c]]
         /\ pc'[c] = "wait" => page'[c] = size[bitstream[c]]
    BY <2>4, <2>8
  <2>13. QED
    BY <1>1, <2>2, <2>4, <2>5, <2>10, <2>11, <2>12, Zenon
<1>6. CASE StartFails(c) \/ WaitDone(c) \/ WaitInterrupted(c)
  <2>1. pc[c] \in Handling /\ Return(c)
    BY <1>6 DEF StartFails, WaitDone, WaitInterrupted, Couple
  <2>2. pc'[c] = "idle" /\ \A p \in Objects \ {c} : pc'[p] = pc[p] /\ pc[p] \notin Handling
    BY <2>1, Zenon DEF Return, Goto, DeviceInv, Handler, TypeOK, MemoryTypes
  <2>3. QED
    BY <1>2, <2>2
<1>7. CASE Refused(c)
  <2>1. h # c /\ UNCHANGED static /\ page'[h] = page[h]
        /\ pc'[h] = pc[h] /\ bitstream'[h] = bitstream[h] /\ target'[h] = target[h]
    BY <1>2, <1>7, Zenon DEF Refused, Return, Goto, TypeOK, MemoryTypes, DeviceTypes
  <2>2. QED
    BY <1>1, <1>2, <2>1, Zenon DEF static, DeviceInv, PageByPage
<1>8. QED
  BY <1>3, <1>4, <1>5, <1>6, <1>7, Zenon DEF CallStep

\* The static layer takes a page from the FIFO, or the interrupt is served.
LEMMA StaticInvKept ==
  ASSUME TypeOK, MemoryInv, DeviceInv, LoadPage \/ reconfig_isr
  PROVE  DeviceInv'
<1> USE DEF memory, driver, call, device
<1>1. CASE LoadPage
  <2>1. /\ pr_fifo # << >> /\ pr_fifo' = Tail(pr_fifo)
        /\ pr_done' = (pr_done \/ Head(pr_fifo).last)
        /\ loaded' = [loaded EXCEPT ![Head(pr_fifo).target] = OneMore(@, Head(pr_fifo))]
        /\ UNCHANGED <<pc, memory, call, device>>
    BY <1>1, Zenon DEF LoadPage
  <2>2. pr_fifo \in Seq(Descriptor) /\ pr_done \in BOOLEAN
    BY DEF TypeOK, DeviceTypes
  <2>3. Handler' /\ Undisturbed' = Undisturbed
    BY <2>1, Zenon DEF DeviceInv, Handler, Undisturbed
  <2>4. ASSUME Undisturbed
        PROVE  /\ rcnfg_lock \in Objects /\ rcnfg_lock # None /\ pc[rcnfg_lock] \in Handling
               /\ ~pr_done /\ ~wait_rcnfg
               /\ OneBitstream(pr_fifo', bitstream[rcnfg_lock], target[rcnfg_lock],
                               pc[rcnfg_lock] = "wait")
               /\ Head(pr_fifo).pages = bitstream[rcnfg_lock]
               /\ Head(pr_fifo).target = target[rcnfg_lock]
               /\ Head(pr_fifo).last => pr_fifo' = << >> /\ pc[rcnfg_lock] = "wait"
    <3>1. /\ rcnfg_lock \in Objects /\ rcnfg_lock # None /\ pc[rcnfg_lock] \in Handling
          /\ ~pr_done /\ ~wait_rcnfg
          /\ OneBitstream(pr_fifo, bitstream[rcnfg_lock], target[rcnfg_lock],
                          pc[rcnfg_lock] = "wait")
      BY <2>1, <2>4, Zenon DEF DeviceInv, Pipeline, TypeOK, DeviceTypes
    <3>2. QED
      BY <2>1, <2>2, <3>1, TailOneBitstream, Zenon
  <2>5. Pipeline'
    <3>1. SUFFICES ASSUME Undisturbed
                   PROVE  Pipeline'
      BY <2>3, Zenon DEF Pipeline
    <3>2. Buffers(rcnfg_lock)' = Buffers(rcnfg_lock)
      BY <2>1, Zenon DEF Buffers
    <3>3. \E b \in Buffers(rcnfg_lock) : b.pages = bitstream[rcnfg_lock]
      BY <2>1, <3>1, Zenon DEF DeviceInv, Pipeline
    <3>4. QED
      BY <2>1, <2>4, <3>1, <3>2, <3>3, Zenon DEF Pipeline
  <2>6. PageByPage'
    <3>1. SUFFICES ASSUME Undisturbed, NEW c \in Objects, pc[c] \in Handling,
                          size[bitstream[c]] <= PR_FIFO_DEPTH
                   PROVE  LET done == page[c] - Len(pr_fifo')
                          IN  /\ done \in Nat
                              /\ pc[c] = "start" => page[c] < size[bitstream[c]]
                              /\ pc[c] = "wait" => page[c] = size[bitstream[c]]
                              /\ Consecutive(pr_fifo', done)
                              /\ done # 0 =>
                                   loaded'[target[c]] = [pages |-> bitstream[c], n |-> done]
      BY <2>1, <2>3, Zenon DEF PageByPage
    <3> DEFINE done == page[c] - Len(pr_fifo)
    <3>2. c = rcnfg_lock /\ page[c] \in Nat
      BY <3>1 DEF DeviceInv, Handler, TypeOK, DeviceTypes
    <3>3. /\ done \in Nat
          /\ pc[c] = "start" => page[c] < size[bitstream[c]]
          /\ pc[c] = "wait" => page[c] = size[bitstream[c]]
          /\ Consecutive(pr_fifo, done)
          /\ done # 0 => loaded[target[c]] = [pages |-> bitstream[c], n |-> done]
      BY <3>1, Zenon DEF DeviceInv, PageByPage
    <3>4. Len(pr_fifo) \in Nat /\ Len(pr_fifo') = Len(pr_fifo) - 1
      BY <2>1, <2>2, TailPage
    <3>5. page[c] - Len(pr_fifo') = done + 1
      BY <3>2, <3>4
    <3> HIDE DEF done
    <3>6. Head(pr_fifo).page = done /\ Consecutive(pr_fifo', done + 1)
      BY <2>1, <2>2, <3>3, TailConsecutive, Zenon
    <3>7. /\ target[c] \in Targets
          /\ loaded'[target[c]] = OneMore(loaded[target[c]], Head(pr_fifo))
      BY <2>1, <2>2, <2>4, <3>1, <3>2, TailPage, Zenon DEF Descriptor, TypeOK, DeviceTypes
    <3>8. loaded'[target[c]] = [pages |-> bitstream[c], n |-> done + 1]
      <4>1. Head(pr_fifo).pages = bitstream[c]
        BY <2>4, <3>1, <3>2, Zenon
      <4>2. done = 0 \/ loaded[target[c]] = [pages |-> bitstream[c], n |-> done]
        BY <3>3, Zenon
      <4>3. QED
        BY <3>6, <3>7, <4>1, <4>2, Zenon DEF OneMore
    <3>9. done + 1 \in Nat
      BY <3>3
    <3>10. QED
      BY <3>3, <3>5, <3>6, <3>8, <3>9, Zenon
  <2>7. QED
    BY <2>3, <2>5, <2>6 DEF DeviceInv
<1>2. CASE reconfig_isr
  <2>1. /\ pr_done /\ wait_rcnfg' /\ ~pr_done'
        /\ UNCHANGED <<pc, memory, call, rcnfg_lock, dcpl, pr_fifo, loaded>>
    BY <1>2 DEF reconfig_isr
  <2>2. Handler' /\ Undisturbed' = Undisturbed
    BY <2>1 DEF DeviceInv, Handler, Undisturbed
  <2>3. \A c \in Objects : Buffers(c)' = Buffers(c)
    BY <2>1 DEF Buffers
  <2>4. Pipeline'
    BY <2>1, <2>2, <2>3, Zenon DEF DeviceInv, Pipeline, TypeOK, DeviceTypes
  <2>5. PageByPage'
    BY <2>1, <2>2 DEF DeviceInv, PageByPage
  <2>6. QED
    BY <2>2, <2>4, <2>5 DEF DeviceInv
<1>3. QED
  BY <1>1, <1>2
-----------------------------------------------------------------------------
\* The initial state satisfies the inductive invariant.
LEMMA InitInv == Init => Inv
<1> SUFFICES ASSUME Init
             PROVE  Inv
  OBVIOUS
<1> USE BitstreamAssumption, ReconfigurationAssumption DEF Init, MemoryInit
<1>1. MemoryTypes
  <2>1. /\ pc \in [Objects -> Places]
        /\ allocs \in 0 .. MaxAllocs
        /\ held \in [Objects -> Nat]
    BY DEF Places
  <2>2. QED
    BY <2>1, Zenon DEF MemoryTypes
<1>2. DeviceTypes
  <2>1. pr_fifo \in Seq(Descriptor)
    OBVIOUS
  <2>2. loaded \in [Targets -> [pages : Nat, n : Nat]]
    OBVIOUS
  <2>3. QED
    BY <2>1, <2>2, Zenon DEF DeviceTypes
<1>3. Handles
  BY DEF Handles
<1>4. Exclusive /\ Numbers /\ Slot /\ Entries /\ Sized
  BY DEF Exclusive, Numbers, OwnNumbers, EntryNumbers, Slot, Entries, Sized, Getting, Locked
<1>5. Len(pr_fifo) = 0
  OBVIOUS
<1>6. Handler /\ Pipeline /\ PageByPage
  BY <1>5 DEF Handler, Pipeline, PageByPage, Calling, Handling
<1>7. QED
  BY <1>1, <1>2, <1>3, <1>4, <1>6 DEF Inv, TypeOK, MemoryInv, DeviceInv

\* The steps of Next, by what they touch.
LEMMA NextSteps ==
  ASSUME Next
  PROVE  \/ /\ UNCHANGED <<call, device, static>>
            /\ \E o \in Objects : MemoryStep(o)
         \/ \E c \in Objects : CallStep(c)
         \/ LoadPage \/ reconfig_isr
  BY DEF Next, MemoryNext, MemoryStep, CallStep

\* Every step keeps the inductive invariant.
LEMMA NextInv == Inv /\ [Next]_vars => Inv'
<1> SUFFICES ASSUME TypeOK, MemoryInv, DeviceInv, [Next]_vars
             PROVE  TypeOK' /\ MemoryInv' /\ DeviceInv'
  BY DEF Inv
<1>1. ASSUME NEW o \in Objects, MemoryStep(o), UNCHANGED <<call, device, static>>
      PROVE  TypeOK' /\ MemoryInv' /\ DeviceInv'
  BY <1>1, MemoryInvKept, DeviceInvUndisturbed DEF TypeOK
<1>2. ASSUME NEW c \in Objects, CallStep(c)
      PROVE  TypeOK' /\ MemoryInv' /\ DeviceInv'
  <2>1. /\ UNCHANGED memory /\ pc' \in [Objects -> Places]
        /\ \A p \in Objects :
             pc'[p] = pc[p] \/ {pc[p], pc'[p]} \subseteq Calling \cup {"idle"}
    BY <1>2, CallStepMoves DEF TypeOK
  <2>2. MemoryTypes' /\ MemoryInv'
    BY <2>1, MemoryUntouched DEF TypeOK
  <2>3. DeviceTypes'
    BY <1>2, DeviceTypesKept DEF MemoryInv, DeviceInv
  <2>4. QED
    BY <1>2, <2>2, <2>3, HandlerKept, PipelineKept, PageByPageKept DEF TypeOK, DeviceInv
<1>3. CASE LoadPage \/ reconfig_isr
  <2>1. UNCHANGED <<pc, memory>>
    BY <1>3 DEF LoadPage, reconfig_isr
  <2>2. MemoryTypes' /\ MemoryInv'
    BY <2>1, MemoryUntouched, Zenon DEF TypeOK, MemoryTypes
  <2>3. QED
    BY <1>3, <2>2, StaticTypesKept, StaticInvKept DEF TypeOK
<1>4. CASE UNCHANGED vars
  <2>1. UNCHANGED <<pc, memory, call, device, static>>
    BY <1>4 DEF vars
  <2>2. MemoryTypes' /\ MemoryInv'
    BY <2>1, MemoryUntouched, Zenon DEF TypeOK, MemoryTypes
  <2> USE DEF memory, driver, call, device, static
  <2>3. DeviceTypes'
    BY <2>1 DEF TypeOK, DeviceTypes, Targets, Descriptor
  <2>4. Handler' /\ Undisturbed' = Undisturbed /\ Buffers(rcnfg_lock)' = Buffers(rcnfg_lock)
    BY <2>1 DEF DeviceInv, Handler, Undisturbed, Buffers
  <2>5. Pipeline' /\ PageByPage'
    BY <2>1, <2>4, Zenon DEF DeviceInv, Pipeline, PageByPage
  <2>6. QED
    BY <2>2, <2>3, <2>4, <2>5 DEF TypeOK, DeviceInv
<1>5. QED
  BY <1>1, <1>2, <1>3, <1>4, NextSteps

\* The inductive invariant: types, the rules of the named mutex and of the slot
\* behind it, and those of the reconfiguration pipeline.
THEOREM Invariance == Spec => []Inv
  BY InitInv, NextInv, PTL DEF Spec

\* Every mapping receives the pages its own getMem call allocated, although the
\* driver hands them over through one slot: the named mutex is held from the
\* ioctl to the mmap, so the slot cannot change hands in between.
THEOREM MappingsKeepTheirPages == Spec => []MapsOwnPages
<1>1. Inv => MapsOwnPages
  BY DEF Inv, MemoryInv, Entries, OneMutex, MapsOwnPages
<1>2. QED
  BY <1>1, Invariance, PTL

\* The pages in the FIFO are those of one bitstream, that of the call holding
\* rcnfg_lock; they are still allocated and their target is decoupled.
THEOREM OneBitstreamAtATime == Spec => []WholeBitstreams
<1>1. Inv => WholeBitstreams
  <2>1. SUFFICES ASSUME Inv, Undisturbed, NEW i \in 1 .. Len(pr_fifo)
                 PROVE  /\ rcnfg_lock # None
                        /\ \E b \in Buffers(rcnfg_lock) : b.pages = pr_fifo[i].pages
                        /\ pr_fifo[i].target \in dcpl
                        /\ pr_fifo[i].pages \in live
    BY DEF WholeBitstreams
  <2>2. pr_fifo # << >>
    OBVIOUS
  <2>3. rcnfg_lock \in Objects /\ rcnfg_lock # None /\ pc[rcnfg_lock] \in Handling
    BY <2>1, <2>2 DEF Inv, DeviceInv, Pipeline, TypeOK, DeviceTypes
  <2>4. /\ pr_fifo[i].pages = bitstream[rcnfg_lock]
        /\ pr_fifo[i].target = target[rcnfg_lock]
    BY <2>1, <2>2, Zenon DEF Inv, DeviceInv, Pipeline, OneBitstream
  <2>5. PICK b \in Buffers(rcnfg_lock) : b.pages = bitstream[rcnfg_lock]
    BY <2>1, <2>2, Zenon DEF Inv, DeviceInv, Pipeline
  <2>6. b.pages \in live
    BY <2>1, <2>5 DEF Inv, MemoryInv, Entries, OneMutex, Undisturbed, Buffers
  <2>7. target[rcnfg_lock] \in dcpl
    BY <2>1, <2>3 DEF Inv, DeviceInv, Handler
  <2>8. QED
    BY <2>3, <2>4, <2>5, <2>6, <2>7, Zenon
<1>2. QED
  BY <1>1, Invariance, PTL

\* A handler leaves its wait only through WaitDone, or through a signal.
LEMMA WaitEnds ==
  ASSUME Inv, [Next]_vars, Undisturbed, NEW c \in Objects, pc[c] = "wait", pc'[c] = "idle"
  PROVE  WaitDone(c)
<1> USE DEF Calling, Handling
<1>1. ASSUME NEW o \in Objects, MemoryStep(o)
      PROVE  FALSE
  BY <1>1, BuffersStay, DriverStays DEF Inv, TypeOK, MemoryInv
<1>2. ASSUME NEW d \in Objects, CallStep(d)
      PROVE  WaitDone(c)
  <2>1. d = c
    BY <1>2, CallStepMoves DEF Inv, TypeOK
  <2>2. QED
    BY <1>2, <2>1, Zenon
    DEF CallStep, reconfigureBase, Decouple, Refused, StartFails, WritePage, WaitInterrupted,
        Undisturbed
<1>3. ASSUME LoadPage \/ reconfig_isr \/ UNCHANGED vars
      PROVE  FALSE
  BY <1>3 DEF LoadPage, reconfig_isr, vars
<1>4. QED
  BY <1>1, <1>2, <1>3, NextSteps

\* When the handler returns 0, every page of the object's bitstream has been loaded
\* into the target, in order, if the bitstream fits the FIFO: the flag that ends
\* the wait is never the completion of an earlier call.
THEOREM ReturnsWhenLoaded == Spec => CompletedIsLoaded
<1>1. Inv /\ [Next]_vars =>
        [\A c \in Objects :
           /\ Undisturbed
           /\ pc[c] = "wait" /\ pc'[c] = "idle"
           /\ size[bitstream[c]] <= PR_FIFO_DEPTH
           => loaded[target[c]] = [pages |-> bitstream[c], n |-> size[bitstream[c]]]]_vars
  <2>1. SUFFICES ASSUME Inv, [Next]_vars, Undisturbed, NEW c \in Objects,
                        pc[c] = "wait", pc'[c] = "idle", size[bitstream[c]] <= PR_FIFO_DEPTH
                 PROVE  loaded[target[c]] = [pages |-> bitstream[c], n |-> size[bitstream[c]]]
    OBVIOUS
  <2>2. wait_rcnfg
    BY <2>1, WaitEnds DEF WaitDone
  <2>3. pr_fifo = << >>
    BY <2>1, <2>2, Zenon DEF Inv, DeviceInv, Pipeline
  <2>4. Len(pr_fifo) = 0
    BY <2>3
  <2>5. bitstream[c] \in 1 .. allocs /\ size[bitstream[c]] \in Nat
    BY <2>1, BitstreamInRange DEF Inv, MemoryInv, DeviceInv, Calling, Handling
  <2>6. size[bitstream[c]] # 0
    BY <2>1, <2>5 DEF Inv, MemoryInv, Sized
  <2>7. /\ page[c] = size[bitstream[c]]
        /\ page[c] - Len(pr_fifo) # 0 =>
             loaded[target[c]] = [pages |-> bitstream[c], n |-> page[c] - Len(pr_fifo)]
    BY <2>1, Zenon DEF Inv, DeviceInv, PageByPage, Handling
  <2>8. page[c] - Len(pr_fifo) = size[bitstream[c]]
    BY <2>4, <2>5, <2>7
  <2>9. QED
    BY <2>6, <2>7, <2>8
<1>2. QED
  BY <1>1, Invariance, PTL DEF Spec, CompletedIsLoaded

-----------------------------------------------------------------------------
\* The vFPGAs reconfigured by an object whose crid is another number: the handler
\* decouples the bit of tmp[4] and couples the bit of tmp[3].
Misnumbered == {t \in Vfids : \E o \in Objects : t \in TargetsOf[o] \ {CridOf[o]}}

\* What is decoupled beside these is the target of the handler.
OnlyTarget ==
  /\ \A c \in Objects : pc[c] \in Handling => dcpl \subseteq Misnumbered \cup {target[c]}
  /\ rcnfg_lock = None => dcpl \subseteq Misnumbered

\* The target of a call, unless it is the shell or the vFPGA of the crid, is one
\* of these.
LEMMA TargetNumbered ==
  ASSUME Inv, NEW c \in Objects, pc[c] \in Calling
  PROVE  /\ target[c] \in Targets
         /\ target[c] \in {Shell, CridOf[c]} \cup Misnumbered
<1>1. target[c] \in TargetsOf[c] /\ TargetsOf[c] \subseteq Targets
  BY ReconfigurationAssumption DEF Inv, DeviceInv, Handler
<1>2. QED
  BY <1>1 DEF Targets, Misnumbered

\* Coupling leaves nothing else decoupled.
LEMMA CoupleOnlyTarget ==
  ASSUME Inv, OnlyTarget, NEW c \in Objects, pc[c] = "wait", dcpl' = dcpl \ CoupledBits(c)
  PROVE  dcpl' \subseteq Misnumbered
<1> USE DEF Calling, Handling
<1>1. dcpl \subseteq Misnumbered \cup {target[c]}
  BY DEF OnlyTarget
<1>2. CASE target[c] = Shell
  <2>1. Misnumbered \subseteq Targets /\ Shell \in Targets
    BY DEF Misnumbered, Targets
  <2>2. QED
    BY <1>1, <1>2, <2>1 DEF CoupledBits
<1>3. CASE target[c] # Shell
  BY <1>1, <1>3, TargetNumbered DEF CoupledBits
<1>4. QED
  BY <1>2, <1>3

\* Only the target of the handler that owns rcnfg_lock is decoupled beside them.
LEMMA OnlyTargetKept ==
  ASSUME Inv, OnlyTarget, [Next]_vars
  PROVE  OnlyTarget'
<1> USE DEF Calling, Handling
<1> Misnumbered' = Misnumbered
  BY DEF Misnumbered
<1>1. ASSUME NEW o \in Objects, MemoryStep(o), UNCHANGED <<call, device, static>>
      PROVE  OnlyTarget'
  BY <1>1, BuffersStay, DriverStays, Zenon
  DEF OnlyTarget, call, device, Inv, TypeOK, MemoryInv
<1>2. ASSUME NEW c \in Objects, CallStep(c)
      PROVE  OnlyTarget'
  <2>1. \A p \in Objects \ {c} : pc'[p] = pc[p]
    BY <1>2, CallStepMoves DEF Inv, TypeOK
  <2>2. ASSUME pc[c] \in Handling
        PROVE  \A p \in Objects \ {c} : pc[p] \notin Handling
    BY <2>2 DEF Inv, DeviceInv, Handler
  <2>3. CASE \E t \in Targets : reconfigureBase(c, t)
    BY <2>1, <2>3, Zenon
    DEF reconfigureBase, Goto, device, OnlyTarget, Inv, TypeOK, MemoryTypes,
        DeviceTypes
  <2>4. CASE Decouple(c)
    <3>1. /\ rcnfg_lock = None /\ rcnfg_lock' = c /\ UNCHANGED target
          /\ dcpl' \subseteq Misnumbered \cup {target[c]}
      BY <2>4 DEF Decouple, LockFree, Decoupled, call, OnlyTarget
    <3>2. \A p \in Objects \ {c} : pc'[p] \notin Handling
      BY <2>1, <3>1, BitstreamAssumption DEF Inv, DeviceInv, Handler
    <3>3. QED
      BY <3>1, <3>2, BitstreamAssumption, Zenon DEF OnlyTarget
  <2>5. CASE WritePage(c)
    BY <2>1, <2>5, Zenon DEF WritePage, device, OnlyTarget
  <2>6. CASE StartFails(c)
    <3>1. rcnfg_lock = c /\ UNCHANGED device /\ pc'[c] \notin Handling
      BY <2>6, Zenon DEF StartFails, Return, Goto, Inv, DeviceInv, Handler, TypeOK, MemoryTypes
    <3>2. QED
      BY <2>1, <2>2, <2>6, <3>1, BitstreamAssumption, Zenon
      DEF device, OnlyTarget, StartFails
  <2>7. CASE WaitDone(c) \/ WaitInterrupted(c)
    <3>1. pc[c] = "wait" /\ dcpl' = dcpl \ CoupledBits(c) /\ pc'[c] = "idle"
      BY <2>7 DEF WaitDone, WaitInterrupted, Couple, Return, Goto, Inv, TypeOK, MemoryTypes
    <3>2. dcpl' \subseteq Misnumbered
      BY <3>1, CoupleOnlyTarget
    <3>3. QED
      BY <2>1, <2>2, <3>1, <3>2, Zenon DEF OnlyTarget
  <2>8. CASE Refused(c)
    BY <2>1, <2>8, Zenon
    DEF Refused, Return, Goto, device, OnlyTarget, Inv, TypeOK, MemoryTypes,
        DeviceTypes
  <2>9. QED
    BY <1>2, <2>3, <2>4, <2>5, <2>6, <2>7, <2>8 DEF CallStep
<1>3. CASE LoadPage \/ reconfig_isr \/ UNCHANGED vars
  BY <1>3 DEF LoadPage, reconfig_isr, vars, call, device, OnlyTarget
<1>4. QED
  BY <1>1, <1>2, <1>3, NextSteps

\* While no reconfiguration is going on the shell is coupled, and so is every vFPGA
\* that is reconfigured by objects with its number only, whatever ends the waits.
THEOREM NothingLeftDecoupled == Spec => []CoupledWhenIdle
<1>1. Init => OnlyTarget
  BY DEF Init, MemoryInit, OnlyTarget, Handling
<1>2. Inv /\ OnlyTarget /\ [Next]_vars => OnlyTarget'
  BY OnlyTargetKept
<1>3. OnlyTarget => CoupledWhenIdle
  <2>1. SUFFICES ASSUME OnlyTarget, rcnfg_lock = None, NEW t \in dcpl
                 PROVE  \E o \in Objects : t \in TargetsOf[o] \ {Shell, CridOf[o]}
    BY DEF CoupledWhenIdle
  <2>2. t \in Misnumbered
    BY <2>1 DEF OnlyTarget
  <2>3. t # Shell
    BY <2>2, ReconfigurationAssumption DEF Misnumbered, Shell
  <2>4. QED
    BY <2>2, <2>3 DEF Misnumbered
<1>4. QED
  BY <1>1, <1>2, <1>3, Invariance, PTL DEF Spec
================================================================================
