--------------------------- MODULE BitstreamMemory ---------------------------
(***************************************************************************)
(* The memory that holds partial bitstreams: cRcnfg::getMem and freeMem in *)
(* user space, serialised between processes by the named mutex             *)
(* "reconfig_mtx", and alloc_reconfig_buffer, reconfig_dev_mmap and        *)
(* free_reconfig_buffer in the driver, which hand a buffer over through    *)
(* the single slot curr_buff.                                              *)
(*                                                                         *)
(* An object is a cRcnfg instance used by one thread.  The named mutex has *)
(* generations: every destructor removes the name, and the next            *)
(* constructor then creates a new mutex.  A buffer and its page array are  *)
(* named by the number of the getMem call that allocated them.             *)
(* Reconfiguration extends this module with what is done with the buffers. *)
(***************************************************************************)
EXTENDS Integers

CONSTANTS
  Objects,                \* cRcnfg objects
  PidOf,                  \* getpid() of the process of an object
  TidOf,                  \* a second thread of that process, or the same number
  CridOf,                 \* the configuration identifier of an object
  None,
  MAX_RECONFIG_BUFF_NUM,
  MaxAllocs,              \* bound on the getMem calls of a behaviour
  Environments,           \* the sets of mishaps a behaviour may be exposed to
  Active,                 \* the objects a behaviour constructs, per environment
  Sizes                   \* pages a getMem may ask for, per environment

\* "reopen": an object is constructed after a destructor removed the name while
\* older objects still exist; "failure": kernel allocations and remap_pfn_range
\* may fail; "death": a process dies; "oversize": a bitstream is larger than
\* MAX_RECONFIG_BUFF_NUM pages; "thread": objects are used from TidOf; "signal":
\* a signal interrupts the wait for a reconfiguration; "fixed": the design on the
\* FPGA was built without reconfigurable regions.
Mishaps == {"reopen", "failure", "death", "oversize", "thread", "signal", "fixed"}

ASSUME BitstreamAssumption ==
  /\ None \notin Objects
  /\ {PidOf, TidOf, CridOf} \subseteq [Objects -> Nat]
  /\ {MAX_RECONFIG_BUFF_NUM, MaxAllocs} \subseteq Nat
  /\ Environments \subseteq SUBSET Mishaps
  /\ Active \in [Environments -> SUBSET Objects]
  /\ Sizes \in [Environments -> SUBSET (Nat \ {0})]

VARIABLES
  pc,                 \* where each object is
  size,               \* n_pages of each getMem call
  mine,               \* the number of its getMem call
  mapped_pages,       \* the buffers it has mapped
  handle,             \* the generation of the mutex it opened, 0 when it has none
  name,               \* the generation "reconfig_mtx" names, 0 when removed
  generations,        \* mutexes created so far
  held,               \* the generation it has locked, 0 when it has not
  curr_buff,          \* the driver's slot for an allocated, unmapped buffer
  reconfig_buffs_map, \* the driver's mapped buffers
  mem_lock,           \* has a path returned with the spinlock held?
  live,               \* page arrays allocated and not freed
  allocs,             \* getMem calls so far
  env                 \* the mishaps of this behaviour; never changes

driver == <<curr_buff, reconfig_buffs_map, mem_lock, live>>
mutex == <<handle, name, generations, held>>
memory == <<size, mine, mapped_pages, allocs, env, driver, mutex>>

MemoryInit ==
  /\ pc = [o \in Objects |-> "new"]
  /\ size = [a \in 1 .. MaxAllocs |-> 0]
  /\ mine = [o \in Objects |-> 0]
  /\ mapped_pages = [o \in Objects |-> {}]
  /\ handle = [o \in Objects |-> 0]
  /\ name = 0
  /\ generations = 0
  /\ held = [o \in Objects |-> 0]
  /\ curr_buff = [n_pages |-> 0, pid |-> 0, crid |-> 0, pages |-> 0]
  /\ reconfig_buffs_map = {}
  /\ mem_lock = FALSE
  /\ live = {}
  /\ allocs = 0
  /\ env \in Environments

Goto(o, place) == pc' = [pc EXCEPT ![o] = place]

\* open_or_create of the named mutex
Construct(o) ==
  LET g == IF name = 0 THEN generations + 1 ELSE name
  IN  /\ pc[o] = "new"
      /\ o \in Active[env]
      /\ "reopen" \in env \/ name # 0 \/ \A p \in Objects: handle[p] = 0
      /\ Goto(o, "idle")
      /\ handle' = [handle EXCEPT ![o] = g]
      /\ name' = g
      /\ generations' = IF name = 0 THEN g ELSE generations
      /\ UNCHANGED <<size, mine, mapped_pages, held, allocs, driver, env>>

-----------------------------------------------------------------------------
getMem(o, n) ==
  /\ pc[o] = "idle"
  /\ "oversize" \in env \/ n <= MAX_RECONFIG_BUFF_NUM
  /\ allocs < MaxAllocs
  /\ allocs' = allocs + 1
  /\ mine' = [mine EXCEPT ![o] = allocs + 1]
  /\ size' = [size EXCEPT ![allocs + 1] = n]
  /\ Goto(o, "lock")
  /\ UNCHANGED <<mapped_pages, mutex, driver, env>>

MutexIgnored(o) == TRUE

MutexFree(o) == \A p \in Objects: held[p] # handle[o]

Lock(o) ==
  /\ pc[o] = "lock"
  /\ MutexFree(o)
  /\ held' = [held EXCEPT ![o] = handle[o]]
  /\ Goto(o, "alloc")
  /\ UNCHANGED <<size, mine, mapped_pages, handle, name, generations, allocs, driver, env>>

\* An exception leaves getMem: the object can be used again, the mutex is held.
Throw(o) ==
  /\ Goto(o, "idle")
  /\ mine' = [mine EXCEPT ![o] = 0]
  /\ UNCHANGED <<size, mapped_pages, allocs, mutex, env>>

\* alloc_reconfig_buffer looks at curr_buff before it takes mem_lock.
AllocCheck(o) ==
  /\ pc[o] = "alloc"
  /\ curr_buff.n_pages = 0
  /\ Goto(o, "take")
  /\ UNCHANGED <<size, mine, mapped_pages, allocs, mutex, driver, env>>

AllocRefused(o) ==
  /\ pc[o] = "alloc"
  /\ curr_buff.n_pages # 0
  /\ Throw(o)
  /\ UNCHANGED <<driver, env>>

AllocTooLarge(o) ==
  /\ pc[o] = "take"
  /\ ~mem_lock
  /\ size[mine[o]] > MAX_RECONFIG_BUFF_NUM
  /\ Throw(o)
  /\ UNCHANGED <<driver, env>>

\* alloc_reconfig_buffer past its size check, with mem_lock
Taking(o) ==
  /\ pc[o] = "take"
  /\ ~mem_lock
  /\ size[mine[o]] <= MAX_RECONFIG_BUFF_NUM

\* The array of page pointers cannot be allocated: the function returns with
\* n_pages set and mem_lock held.
AllocNoArray(o) ==
  /\ "failure" \in env
  /\ Taking(o)
  /\ curr_buff' = [curr_buff EXCEPT !.n_pages = size[mine[o]], !.pages = 0]
  /\ mem_lock' = TRUE
  /\ Throw(o)
  /\ UNCHANGED <<reconfig_buffs_map, live, env>>

\* A page, the array of physical addresses or a DMA mapping fails: what was
\* allocated is freed.
AllocNoMemory(o) ==
  /\ "failure" \in env
  /\ Taking(o)
  /\ curr_buff' = [curr_buff EXCEPT !.n_pages = 0, !.pages = mine[o]]
  /\ Throw(o)
  /\ UNCHANGED <<reconfig_buffs_map, mem_lock, live, env>>

AllocTake(o) ==
  /\ Taking(o)
  /\ curr_buff' = [n_pages |-> size[mine[o]], pid |-> PidOf[o], crid |-> CridOf[o],
                   pages |-> mine[o]]
  /\ live' = live \cup {mine[o]}
  /\ Goto(o, "mmap")
  /\ UNCHANGED <<size, mine, mapped_pages, reconfig_buffs_map, mem_lock, allocs, mutex, env>>

\* current->pid in the driver is the number of the calling thread.
CurrentPid(o) == IF "thread" \in env THEN TidOf[o] ELSE PidOf[o]

\* reconfig_dev_mmap compares curr_buff.pid with current->pid.
Mappable(o) == curr_buff.n_pages # 0 /\ curr_buff.pid = CurrentPid(o)

MmapCheck(o) ==
  /\ pc[o] = "mmap"
  /\ Mappable(o)
  /\ Goto(o, "map")
  /\ UNCHANGED <<size, mine, mapped_pages, allocs, mutex, driver, env>>

MmapInvalid(o) ==
  /\ pc[o] = "mmap"
  /\ ~Mappable(o)
  /\ Throw(o)
  /\ UNCHANGED <<driver, env>>

NewBuff(o) ==
  [vaddr |-> mine[o], pid |-> CurrentPid(o), crid |-> curr_buff.crid,
   pages |-> curr_buff.pages]

\* n_pages = 0 marks the slot as empty.
SlotEmptied == [curr_buff EXCEPT !.n_pages = 0]

MmapTake(o) ==
  /\ pc[o] = "map"
  /\ ~mem_lock
  /\ reconfig_buffs_map' = reconfig_buffs_map \cup {NewBuff(o)}
  /\ curr_buff' = SlotEmptied
  /\ Goto(o, "unlock")
  /\ UNCHANGED <<size, mine, mapped_pages, mem_lock, live, allocs, mutex, env>>

\* remap_pfn_range fails: -EIO with the entry added and mem_lock held.
MmapFails(o) ==
  /\ "failure" \in env
  /\ pc[o] = "map"
  /\ ~mem_lock
  /\ reconfig_buffs_map' = reconfig_buffs_map \cup {NewBuff(o)}
  /\ mem_lock' = TRUE
  /\ Throw(o)
  /\ UNCHANGED <<curr_buff, live, env>>

Released(o) == [held EXCEPT ![o] = 0]

Unlock(o) ==
  /\ pc[o] = "unlock"
  /\ held' = Released(o)
  /\ mapped_pages' = [mapped_pages EXCEPT ![o] = @ \cup {mine[o]}]
  /\ mine' = [mine EXCEPT ![o] = 0]
  /\ Goto(o, "idle")
  /\ UNCHANGED <<size, handle, name, generations, allocs, driver, env>>

-----------------------------------------------------------------------------
\* The destructor frees every mapped buffer, then removes the mutex.
Destroy(o) ==
  /\ pc[o] = "idle"
  /\ Goto(o, "free")
  /\ UNCHANGED <<size, mine, mapped_pages, allocs, mutex, driver, env>>

\* The entries free_reconfig_buffer deletes
Freed(o, a) ==
  {b \in reconfig_buffs_map: b.vaddr = a /\ b.pid = PidOf[o] /\ b.crid = CridOf[o]}

\* One iteration of the loop over mapped_pages, from mlock.lock to mlock.unlock
freeMem(o, a) ==
  /\ pc[o] = "free"
  /\ a \in mapped_pages[o]
  /\ MutexFree(o)
  /\ mapped_pages' = [mapped_pages EXCEPT ![o] = @ \ {a}]
  /\ reconfig_buffs_map' = reconfig_buffs_map \ Freed(o, a)
  /\ live' = live \ {b.pages : b \in Freed(o, a)}
  /\ UNCHANGED <<pc, size, mine, allocs, mutex, curr_buff, mem_lock, env>>

RemoveMutex(o) ==
  /\ pc[o] = "free"
  /\ mapped_pages[o] = {}
  /\ name' = 0
  /\ handle' = [handle EXCEPT ![o] = 0]
  /\ Goto(o, "gone")
  /\ UNCHANGED <<size, mine, mapped_pages, generations, held, allocs, driver, env>>

\* The process dies, outside of the driver: reconfig_dev_release frees nothing,
\* and the kernel does not release a named mutex.
Die(o) ==
  /\ "death" \in env
  /\ pc[o] \in {"idle", "lock", "alloc", "mmap", "unlock", "free"}
  /\ Goto(o, "gone")
  /\ handle' = [handle EXCEPT ![o] = 0]
  /\ mapped_pages' = [mapped_pages EXCEPT ![o] = {}]
  /\ mine' = [mine EXCEPT ![o] = 0]
  /\ UNCHANGED <<size, name, generations, held, allocs, driver, env>>

getMemStep(o) ==
  \/ Lock(o)
  \/ AllocCheck(o)
  \/ AllocRefused(o)
  \/ AllocTooLarge(o)
  \/ AllocNoArray(o)
  \/ AllocNoMemory(o)
  \/ AllocTake(o)
  \/ MmapCheck(o)
  \/ MmapInvalid(o)
  \/ MmapTake(o)
  \/ MmapFails(o)
  \/ Unlock(o)

MemoryNext ==
  \E o \in Objects:
    \/ Construct(o)
    \/ \E n \in Sizes[env]: getMem(o, n)
    \/ getMemStep(o)
    \/ Destroy(o)
    \/ \E a \in 1 .. MaxAllocs: freeMem(o, a)
    \/ RemoveMutex(o)
    \/ Die(o)

-----------------------------------------------------------------------------
(* Through the shared slot curr_buff every mapping receives the pages its   *)
(* own getMem allocated, never those of another process, as long as the     *)
(* named mutex is one mutex; failures and deaths do not change this.        *)
MapsOwnPages ==
  "reopen" \notin env => \A b \in reconfig_buffs_map: b.pages = b.vaddr

(* No exception leaves getMem with the named mutex locked.                  *)
NothingThrows == env \subseteq {"reopen"}
=============================================================================
