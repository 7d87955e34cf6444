---------------------------------- MODULE Mmu ----------------------------------
(***************************************************************************)
(* Memory management of one vFPGA: the driver's handlers (vfpga_gup.c, the *)
(* ioctls of vfpga_ops.c, the page-fault worker of vfpga_isr.c) together   *)
(* with the two TLB state machines of the shell, for reads and for writes  *)
(* (hw/hdl/mmu/tlb_fsm.sv), their mutex (mmu_region_top.sv) and the        *)
(* control queues between them (cnfg_slave.sv).                            *)
(*                                                                         *)
(* Addresses are regular virtual pages of one thread of one process.       *)
(* Pinning a buffer gives it new frames, named by a number, so that an     *)
(* address translated before a buffer was released is told from one        *)
(* translated after.  The register writes of one driver loop are one step, *)
(* and a TLB update is in effect before later register writes are.         *)
(*                                                                         *)
(* Buffers of a GPU are exported by its driver, which may move them.  That *)
(* driver and dma-buf are external: a buffer moves under its reservation   *)
(* lock, the importers are told, a mapping made then is of the new place,  *)
(* and the old one can be used until it is given up.                       *)
(***************************************************************************)
EXTENDS Naturals, Sequences, FiniteSets, SequencesExt

CONSTANTS
  Users,          \* threads of the process that call the driver
  Ranges,         \* [vaddr, n_pages]: the buffers they map
  Exported,       \* likewise, of memory of a GPU
  Requests,       \* [vaddr, len, strm]: the transfers the vFPGA asks for
  Environments,   \* how the device is used in a behaviour: sets of Usage
  MaxCalls,       \* bound on the ioctls of a behaviour, per environment
  MaxRequests,    \* likewise on the transfers
  QDEPTH,         \* depth of the control queues of cnfg_slave
  N_TLB_ACTV,     \* transfers in flight per state machine and channel
  CACHE_MAX_SIZE  \* requests kept while a page fault is handled

\* Users map and unmap their buffers; users move buffers between host and
\* card; transfers use pages that are not mapped, or wanted elsewhere at the time;
\* pages cannot be pinned; signals end the waits of users for an invalidation; the
\* kernel does not clear its stack; users attach and detach buffers of a GPU, which
\* moves them; it does so while they are attached or detached, or addresses in them
\* translated; and they lie in more than two pieces.
Usage == {"explicit", "migrate", "paging", "mixed", "unpinnable", "signals",
          "uninitialised", "gpu", "evict", "scattered"}

ASSUME MmuAssumption ==
  /\ Environments \subseteq SUBSET Usage
  /\ {QDEPTH, N_TLB_ACTV, CACHE_MAX_SIZE} \subseteq Nat
  /\ {MaxCalls, MaxRequests} \subseteq [Environments -> Nat]

Fsms == {"rd", "wr"}

Access == {"HOST", "CARD"}

Worker == "pfault"

\* the thread of the GPU's driver that moves buffers
Mover == "mover"

Threads == Users \cup {Worker, Mover}

None == "none"

VARIABLES
  env,            \* how the device is used in this behaviour
  user_buff_map,  \* the buffers mapped: [vaddr, n_pages, host, frame, wrong]
  frames,         \* the number of buffers pinned, and of places on the GPU, so far
  dmabuf,         \* exported buffer -> [place, attached, mapped]
  tlb,            \* entries of the TLB: [page, strm, frame]
  op,             \* thread -> the call it executes
  calls,          \* the number of ioctls so far
  mmu_lock,       \* the thread that holds mmu_lock, or None
  wait_invldt,    \* the flag IRQ_INVLDT sets
  wqueue_pfault,  \* page faults the interrupt handler has queued
  invldt_q,       \* FSM -> commands: a page to invalidate, or lock
  pfault_q,       \* FSM -> answers to its page faults: restart or drop
  invldt_irq,     \* FSM -> the number of invalidations it has reported
  pfault_irq,     \* FSM -> page faults it has reported
  fsm,            \* FSM -> its registers
  mutex,          \* [held, side]: the mutex of the TLB's read port
  inflight,       \* FSM -> channel -> transfers sent and not completed
  reqs,           \* the number of transfers asked for so far
  amiss           \* what has gone wrong so far: a "loss" of commands, a "signal"

driver == <<user_buff_map, frames, dmabuf, op, calls, mmu_lock>>

queues == <<invldt_q, pfault_q, invldt_irq, pfault_irq>>

irqs == <<wait_invldt, wqueue_pfault, amiss>>

hardware == <<fsm, mutex, inflight, reqs>>

vars == <<env, driver, tlb, irqs, queues, hardware>>

PagesOf(b) == b.vaddr .. b.vaddr + b.n_pages - 1

Span(r) == r.vaddr .. r.vaddr + r.len - 1

Idle == [pc |-> "idle", kind |-> None, vaddr |-> 0, n_pages |-> 0,
         strm |-> "HOST", frame |-> 0, wr |-> "rd", ok |-> TRUE]

NoEntry == [page |-> 0, strm |-> "HOST", frame |-> 0]

NoRequest == [vaddr |-> 0, len |-> 0, strm |-> "HOST"]

\* invldt_C and rtrn_C have no reset value.
Unset == {[page |-> 0, last |-> last, rtrn |-> rtrn] :
            last \in BOOLEAN, rtrn \in {"IDLE", "LOCKED", "MISS_IDLE"}}

Init ==
  /\ env \in Environments
  /\ user_buff_map = {}
  /\ frames = 0
  /\ dmabuf = [r \in Exported |-> [place |-> 0, attached |-> FALSE, mapped |-> FALSE]]
  /\ tlb = {}
  /\ op = [t \in Threads |-> Idle]
  /\ calls = 0
  /\ mmu_lock = None
  /\ wait_invldt = FALSE
  /\ wqueue_pfault = <<>>
  /\ invldt_q = [f \in Fsms |-> <<>>]
  /\ pfault_q = [f \in Fsms |-> <<>>]
  /\ invldt_irq = [f \in Fsms |-> 0]
  /\ pfault_irq = [f \in Fsms |-> <<>>]
  /\ fsm = [f \in Fsms |->
              [st |-> "IDLE", invldt |-> Unset, req |-> NoRequest, miss |-> NoRequest,
               entry |-> NoEntry, cache |-> <<>>]]
  /\ mutex = [held |-> FALSE, side |-> "rd"]
  /\ inflight = [f \in Fsms |-> [c \in Access |-> <<>>]]
  /\ reqs = 0
  /\ amiss = {}

-----------------------------------------------------------------------------
(* The driver.                                                             *)

\* A control word goes to the queues of both machines.  The driver does not look
\* whether there is room: a full queue loses it.
Post(cmds) ==
  /\ invldt_q' = [f \in Fsms |->
                    LET q == invldt_q[f] \o cmds
                    IN  SubSeq(q, 1, IF Len(q) <= QDEPTH THEN Len(q) ELSE QDEPTH)]
  /\ amiss' = IF \A f \in Fsms : Len(invldt_q[f]) + Len(cmds) <= QDEPTH
               THEN amiss ELSE amiss \cup {"loss"}

Lock == [lock |-> TRUE, page |-> 0, last |-> FALSE]

\* Mutant: no page is marked last.
InvalidateNoLast(b) ==
  [i \in 1 .. b.n_pages |->
     [lock |-> FALSE, page |-> b.vaddr + i - 1, last |-> i > b.n_pages]]

\* invalidate_tlb_entry for every page of a buffer.
Invalidate(b) ==
  [i \in 1 .. b.n_pages |->
     [lock |-> FALSE, page |-> b.vaddr + i - 1, last |-> i = b.n_pages]]

\* The buffer a thread works on; one of a GPU may get another place meanwhile.
Buffer(t) ==
  CHOOSE b \in user_buff_map :
    IF op[t].kind \in {"detach", "move"} THEN b.vaddr = op[t].vaddr ELSE b.frame = op[t].frame

\* The transfers a page is part of: all of it has been sent, or it has not.
Asked(p) ==
  \E f \in Fsms :
    \/ fsm[f].st \notin {"IDLE", "LOCKED"} /\ p \in Span(fsm[f].req)
    \/ \E r \in Range(fsm[f].cache) : p \in Span(r)

Touched(t) ==
  op[t].vaddr .. op[t].vaddr + op[t].n_pages - 1

\* Without paging a user leaves the buffers alone that a transfer still needs.
MayCall(S) ==
  /\ calls < MaxCalls[env]
  /\ "paging" \in env \/ \A p \in S : ~Asked(p)
  /\ \A t \in Users : op[t].pc = "idle" \/ Touched(t) \cap S = {}

\* IOCTL_MAP_USER_MEM and IOCTL_UNMAP_USER_MEM, up to mmu_lock.
Call(t, kind, r) ==
  /\ op[t].pc = "idle"
  /\ "explicit" \in env
  /\ MayCall(PagesOf(r))
  /\ op' = [op EXCEPT ![t] = [Idle EXCEPT !.pc = "lock", !.kind = kind,
                                !.vaddr = r.vaddr, !.n_pages = r.n_pages]]
  /\ calls' = calls + 1
  /\ UNCHANGED <<env, user_buff_map, frames, dmabuf, mmu_lock, tlb, irqs, queues, hardware>>

\* IOCTL_OFFLOAD_REQ and IOCTL_SYNC_REQ of a mapped buffer: no mmu_lock.
Migrate(t, strm, b) ==
  /\ op[t].pc = "idle"
  /\ "migrate" \in env
  /\ MayCall(PagesOf(b))
  /\ op' = [op EXCEPT ![t] = [Idle EXCEPT !.pc = "unmap", !.kind = "migrate",
                                !.vaddr = b.vaddr, !.n_pages = b.n_pages,
                                !.strm = strm, !.frame = b.frame]]
  /\ calls' = calls + 1
  /\ UNCHANGED <<env, user_buff_map, frames, dmabuf, mmu_lock, tlb, irqs, queues, hardware>>

\* vfpga_pfault_handler starts on the next work item; one at a time.
vfpga_pfault_handler ==
  /\ op[Worker].pc = "idle"
  /\ wqueue_pfault # <<>>
  /\ op' = [op EXCEPT ![Worker] = Head(wqueue_pfault)]
  /\ wqueue_pfault' = Tail(wqueue_pfault)
  /\ UNCHANGED <<env, user_buff_map, frames, dmabuf, calls, mmu_lock, tlb, wait_invldt, amiss,
                 queues, hardware>>

\* mutex_lock(&device->mmu_lock); an ioctl then toggles the TLB lock.
TakeMmuLock(t) ==
  /\ op[t].pc = "lock"
  /\ mmu_lock = None
  /\ mmu_lock' = t
  /\ op' = [op EXCEPT ![t].pc = "handle"]
  /\ IF t = Worker THEN UNCHANGED <<invldt_q, amiss>> ELSE Post(<<Lock>>)
  /\ UNCHANGED <<env, user_buff_map, frames, dmabuf, calls, tlb, wait_invldt, wqueue_pfault,
                 pfault_q, invldt_irq, pfault_irq, hardware>>

\* map_present: the buffer that holds the first page, and the number of pages
\* up to its end or, when there is none, up to the next buffer.
map_present(vaddr) == {b \in user_buff_map : vaddr \in PagesOf(b)}

Clipped(vaddr, n) ==
  CHOOSE m \in 1 .. n :
    /\ \A b \in user_buff_map :
         /\ vaddr \in PagesOf(b) => vaddr + m <= b.vaddr + b.n_pages
         /\ vaddr < b.vaddr => vaddr + m <= b.vaddr
    /\ m = n \/ \E b \in user_buff_map :
                  vaddr + m \in {b.vaddr, b.vaddr + b.n_pages}

\* The entry is or-ed onto words of the stack that have no value: unless they are
\* zero it can be that of another page, or lead elsewhere.
create_tlb_mapping(b, p) ==
  LET e == [page |-> p, strm |-> b.host, frame |-> IF p \in b.wrong THEN 0 ELSE b.frame]
  IN  IF "uninitialised" \in env
        THEN {e, [e EXCEPT !.page = 0], [e EXCEPT !.frame = 0]} ELSE {e}

\* So is the entry to remove: what is removed can be another.
create_tlb_unmapping(b) ==
  LET entries == {e \in tlb : e.page \in PagesOf(b)}
  IN  IF "uninitialised" \in env THEN SUBSET entries ELSE {entries}

\* tlb_map_gup: entries for the pages of the fault.
tlb_map_gup(b, pages) ==
  \E written \in SUBSET UNION {create_tlb_mapping(b, p) : p \in pages} :
    /\ \A p \in pages : Cardinality(written \cap create_tlb_mapping(b, p)) = 1
    /\ tlb' = tlb \cup written

\* The pages are pinned; the data is on the host.
tlb_get_user_pages(vaddr, n) ==
  [vaddr |-> vaddr, n_pages |-> n, host |-> "HOST", frame |-> frames + 1, wrong |-> {}]

\* mmu_handler_gup up to its first wait.
mmu_handler_gup(t) ==
  LET n == Clipped(op[t].vaddr, op[t].n_pages)
      pages == op[t].vaddr .. op[t].vaddr + n - 1
  IN
  /\ op[t].pc = "handle"
  /\ op[t].kind \in {"map", "fault"}
  /\ \/ \E b \in map_present(op[t].vaddr) :
          /\ b.host = op[t].strm
          /\ tlb_map_gup(b, pages)
          /\ op' = [op EXCEPT ![t].pc = "leave"]
          /\ UNCHANGED <<user_buff_map, frames>>
     \/ \E b \in map_present(op[t].vaddr) :
          /\ b.host # op[t].strm
          /\ op' = [op EXCEPT ![t].pc = "unmap", ![t].frame = b.frame, ![t].n_pages = n]
          /\ UNCHANGED <<tlb, user_buff_map, frames>>
     \/ LET b == [tlb_get_user_pages(op[t].vaddr, n) EXCEPT !.host = op[t].strm]
        IN
        /\ map_present(op[t].vaddr) = {}
        /\ user_buff_map' = user_buff_map \cup {b}
        /\ frames' = frames + 1
        /\ IF op[t].strm = "HOST"
             THEN tlb_map_gup(b, pages) /\ op' = [op EXCEPT ![t].pc = "leave"]
             ELSE /\ op' = [op EXCEPT ![t].pc = "migrate", ![t].frame = b.frame, ![t].n_pages = n]
                  /\ UNCHANGED tlb
     \/ /\ "unpinnable" \in env
        /\ map_present(op[t].vaddr) = {}
        /\ op' = [op EXCEPT ![t].pc = "leave", ![t].ok = FALSE]
        /\ UNCHANGED <<tlb, user_buff_map, frames>>
  /\ UNCHANGED <<env, dmabuf, calls, mmu_lock, irqs, queues, hardware>>

\* tlb_put_user_pages looks the buffer up by the address it starts at.
tlb_put_user_pages(t) ==
  LET found == {b \in user_buff_map : b.vaddr = op[t].vaddr}
  IN
  /\ op[t].pc = "handle"
  /\ op[t].kind = "unmap"
  /\ \/ /\ found = {}
        /\ op' = [op EXCEPT ![t].pc = "leave"]
     \/ \E b \in found :
          op' = [op EXCEPT ![t].pc = "unmap", ![t].frame = b.frame]
  /\ UNCHANGED <<env, user_buff_map, frames, dmabuf, calls, mmu_lock, tlb, irqs, queues, hardware>>

\* tlb_unmap_gup: the entries of the whole buffer are removed, and an
\* invalidation of every page is posted, the final one marked last.
tlb_unmap_gup(t) ==
  /\ op[t].pc = "unmap"
  /\ \E removed \in create_tlb_unmapping(Buffer(t)) : tlb' = tlb \ removed
  /\ Post(Invalidate(Buffer(t)))
  /\ op' = [op EXCEPT ![t].pc = "wait"]
  /\ UNCHANGED <<env, user_buff_map, frames, dmabuf, calls, mmu_lock, wait_invldt,
                 wqueue_pfault, pfault_q, invldt_irq, pfault_irq, hardware>>

\* The wait for IRQ_INVLDT is over, or a signal has ended it: an unmapped buffer
\* is released, any other has its new place and is about to be copied there.  For a
\* buffer of a GPU the rest follows.
Invalidated(t) ==
  /\ op[t].pc = "wait"
  /\ \/ wait_invldt /\ UNCHANGED amiss
     \/ "signals" \in env /\ t # Worker /\ ~wait_invldt /\ amiss' = amiss \cup {"signal"}
  /\ wait_invldt' = FALSE
  /\ CASE op[t].kind = "unmap" ->
            /\ user_buff_map' = user_buff_map \ {Buffer(t)}
            /\ op' = [op EXCEPT ![t].pc = "leave"]
       [] op[t].kind \in {"detach", "move"} ->
            /\ op' = [op EXCEPT ![t].pc = op[t].kind]
            /\ UNCHANGED user_buff_map
       [] OTHER ->
            /\ user_buff_map' = (user_buff_map \ {Buffer(t)})
                                  \cup {[Buffer(t) EXCEPT !.host = op[t].strm]}
            /\ op' = [op EXCEPT ![t].pc = "migrate"]
  /\ UNCHANGED <<env, frames, dmabuf, calls, mmu_lock, tlb, wqueue_pfault, queues, hardware>>

\* migrate_to_card and migrate_to_host: one copy at a time in a direction.
StartCopy(t) ==
  /\ op[t].pc = "migrate"
  /\ \A u \in Threads : op[u].pc = "copy" => op[u].strm # op[t].strm
  /\ op' = [op EXCEPT ![t].pc = "copy"]
  /\ UNCHANGED <<env, user_buff_map, frames, dmabuf, calls, mmu_lock, tlb, irqs, queues, hardware>>

\* The copy has completed, its interrupt wakes the thread, which maps the
\* pages it was called for.
EndCopy(t) ==
  /\ op[t].pc = "copy"
  /\ tlb_map_gup(Buffer(t), Touched(t))
  /\ op' = [op EXCEPT ![t] = IF @.kind = "migrate" THEN Idle ELSE [@ EXCEPT !.pc = "leave"]]
  /\ UNCHANGED <<env, user_buff_map, frames, dmabuf, calls, mmu_lock, irqs, queues, hardware>>

\* restart_mmu and drop_irq_pfault.
Answer(t) == [pfault_q EXCEPT ![op[t].wr] = Append(@, op[t].ok)]

\* An ioctl toggles the TLB lock again, the worker restarts the machine that
\* faulted or has it drop the request; then mmu_lock is released.
Leave(t) ==
  /\ op[t].pc = "leave"
  /\ mmu_lock' = None
  /\ op' = [op EXCEPT ![t] = Idle]
  /\ IF t = Worker
       THEN pfault_q' = Answer(t) /\ UNCHANGED <<invldt_q, amiss>>
       ELSE Post(<<Lock>>) /\ UNCHANGED pfault_q
  /\ UNCHANGED <<env, user_buff_map, frames, dmabuf, calls, tlb, wait_invldt, wqueue_pfault,
                 invldt_irq, pfault_irq, hardware>>

-----------------------------------------------------------------------------
(* Buffers of a GPU.                                                       *)

\* The reservation lock of an exported buffer: its driver holds it during a move.
ResvFree(r) == op[Mover].pc = "idle" \/ op[Mover].vaddr # r.vaddr

Imported(r) == {b \in user_buff_map : b.vaddr = r.vaddr}

\* IOCTL_MAP_DMABUF of memory just allocated, IOCTL_UNMAP_DMABUF of what is
\* attached, up to mmu_lock.
CallDmabuf(t, kind, r) ==
  /\ op[t].pc = "idle"
  /\ "gpu" \in env
  /\ "evict" \in env \/ op[Mover].pc = "idle"
  /\ MayCall(PagesOf(r))
  /\ kind = "detach" <=> Imported(r) # {}
  /\ op' = [op EXCEPT ![t] = [Idle EXCEPT !.pc = "lock", !.kind = kind,
                                !.vaddr = r.vaddr, !.n_pages = r.n_pages]]
  /\ IF kind = "attach"
       THEN /\ frames' = frames + 1
            /\ dmabuf' = [dmabuf EXCEPT ![r].place = frames + 1]
       ELSE UNCHANGED <<frames, dmabuf>>
  /\ calls' = calls + 1
  /\ UNCHANGED <<env, user_buff_map, mmu_lock, tlb, irqs, queues, hardware>>

\* p2p_attach_dma_buf up to dma_resv_unlock.  Its error path reads a field of an
\* attachment that is an error code or has been freed, and can leave the mapping.
Attach(t, r) ==
  /\ op[t].pc = "handle" /\ op[t].kind = "attach" /\ op[t].vaddr = r.vaddr
  /\ IF "unpinnable" \in env
       THEN /\ \E pc \in {"leave", "oops"} : op' = [op EXCEPT ![t].pc = pc]
            /\ \E left \in BOOLEAN : dmabuf' = [dmabuf EXCEPT ![r].mapped = left]
       ELSE /\ ResvFree(r)
            /\ dmabuf' = [dmabuf EXCEPT ![r].attached = TRUE, ![r].mapped = TRUE]
            /\ op' = [op EXCEPT ![t].pc = "attached", ![t].frame = dmabuf[r].place]
  /\ UNCHANGED <<env, user_buff_map, frames, calls, mmu_lock, tlb, irqs, queues, hardware>>

\* The rest of it: the entry of the buffer, and those of the TLB.
p2p_attach_dma_buf(t, r) ==
  LET b == [vaddr |-> r.vaddr, n_pages |-> r.n_pages, host |-> "HOST",
            frame |-> op[t].frame, wrong |-> {}]
  IN
  /\ op[t].pc = "attached" /\ op[t].vaddr = r.vaddr
  /\ user_buff_map' = user_buff_map \cup {b}
  /\ tlb_map_gup(b, PagesOf(b))
  /\ op' = [op EXCEPT ![t].pc = "leave"]
  /\ UNCHANGED <<env, frames, dmabuf, calls, mmu_lock, irqs, queues, hardware>>

\* p2p_detach_dma_buf finds the entry; the TLB is invalidated first.
p2p_detach_dma_buf(t, r) ==
  /\ op[t].pc = "handle" /\ op[t].kind = "detach" /\ op[t].vaddr = r.vaddr
  /\ op' = [op EXCEPT ![t].pc = IF Imported(r) = {} THEN "leave" ELSE "unmap"]
  /\ UNCHANGED <<env, user_buff_map, frames, dmabuf, calls, mmu_lock, tlb, irqs, queues, hardware>>

\* The mapping is given up under the reservation lock; then the buffer is detached
\* and its entry removed.
Unmapped(t, r) ==
  /\ op[t].pc = "detach" /\ op[t].vaddr = r.vaddr
  /\ ResvFree(r)
  /\ dmabuf' = [dmabuf EXCEPT ![r].mapped = FALSE]
  /\ op' = [op EXCEPT ![t].pc = "detached"]
  /\ UNCHANGED <<env, user_buff_map, frames, calls, mmu_lock, tlb, irqs, queues, hardware>>

Detached(t, r) ==
  /\ op[t].pc = "detached" /\ op[t].vaddr = r.vaddr
  /\ ResvFree(r)
  /\ dmabuf' = [dmabuf EXCEPT ![r].attached = FALSE]
  /\ user_buff_map' = user_buff_map \ Imported(r)
  /\ op' = [op EXCEPT ![t].pc = "leave"]
  /\ UNCHANGED <<env, frames, calls, mmu_lock, tlb, irqs, queues, hardware>>

\* The GPU's driver moves a buffer and calls p2p_move_notify, which does not take
\* mmu_lock; it does nothing when there is no entry yet.  What it is called with is
\* freed before the buffer is detached.
Move(r) ==
  /\ op[Mover].pc = "idle"
  /\ dmabuf[r].attached
  /\ calls < MaxCalls[env]
  /\ \/ "evict" \in env
     \/ (\A p \in PagesOf(r) : ~Asked(p)) /\ \A t \in Users : op[t].pc = "idle"
  /\ dmabuf' = [dmabuf EXCEPT ![r].place = frames + 1]
  /\ frames' = frames + 1
  /\ calls' = calls + 1
  /\ \E pc \in {"unmap", "oops"} :
       /\ pc = "oops" => \E t \in Users : op[t].pc = "detached" /\ op[t].vaddr = r.vaddr
       /\ op' = [op EXCEPT ![Mover] =
                   IF Imported(r) = {} THEN Idle
                     ELSE [Idle EXCEPT !.pc = pc, !.kind = "move",
                                       !.vaddr = r.vaddr, !.n_pages = r.n_pages]]
  /\ UNCHANGED <<env, user_buff_map, mmu_lock, tlb, irqs, queues, hardware>>

\* The addresses of the new place.  The position of a piece is the length of the one
\* before it, not the sum: of more than two, one per page, only the first comes out right.
NewPages(b, r) ==
  [b EXCEPT !.frame = dmabuf[r].place,
            !.wrong = IF "scattered" \in env /\ b.n_pages > 2 THEN PagesOf(b) \ {b.vaddr} ELSE {}]

\* The rest of p2p_move_notify: the mapping is renewed, and so are the entries.
p2p_move_notify(r) ==
  /\ op[Mover].pc = "move" /\ op[Mover].vaddr = r.vaddr
  /\ user_buff_map' = (user_buff_map \ Imported(r)) \cup {NewPages(b, r) : b \in Imported(r)}
  /\ dmabuf' = [dmabuf EXCEPT ![r].mapped = TRUE]
  /\ \E b \in Imported(r) : tlb_map_gup(NewPages(b, r), PagesOf(b))
  /\ op' = [op EXCEPT ![Mover] = Idle]
  /\ UNCHANGED <<env, frames, calls, mmu_lock, irqs, queues, hardware>>

-----------------------------------------------------------------------------
(* The interrupt handler.  The order among pending interrupts is left open. *)

\* IRQ_INVLDT is raised when both machines have reported.
IsrInvldt ==
  /\ \A f \in Fsms : invldt_irq[f] > 0
  /\ invldt_irq' = [f \in Fsms |-> invldt_irq[f] - 1]
  /\ wait_invldt' = TRUE
  /\ UNCHANGED <<env, driver, tlb, wqueue_pfault, amiss, invldt_q, pfault_q, pfault_irq, hardware>>

\* IRQ_PFAULT: the length register shows the machine's current fault range.
IsrPfault(f) ==
  /\ pfault_irq[f] # <<>>
  /\ LET m == Head(pfault_irq[f])
     IN  wqueue_pfault' = Append(wqueue_pfault,
           [Idle EXCEPT !.pc = "lock", !.kind = "fault", !.vaddr = m.vaddr,
                        !.n_pages = fsm[f].miss.len, !.strm = m.strm, !.wr = f])
  /\ pfault_irq' = [pfault_irq EXCEPT ![f] = Tail(@)]
  /\ UNCHANGED <<env, driver, tlb, wait_invldt, amiss, invldt_q, pfault_q, invldt_irq, hardware>>

-----------------------------------------------------------------------------
(* The TLB state machines.                                                 *)

Goto(f, st) == fsm' = [fsm EXCEPT ![f].st = st]

\* Without paging a transfer asks for mapped pages that nobody is changing;
\* unless mixed, no two transfers want data in different places at a time.
MayRequest(r) ==
  /\ reqs < MaxRequests[env]
  /\ \/ "mixed" \in env
     \/ \A f \in Fsms : \A q \in {fsm[f].req} \cup Range(fsm[f].cache) :
          q.len > 0 => q.strm = r.strm
  /\ \/ "paging" \in env
     \/ \A p \in Span(r) :
          /\ \E b \in user_buff_map : p \in PagesOf(b) /\ b.host = r.strm
          /\ \A t \in Threads : op[t].pc = "idle" \/ p \notin Touched(t)

\* ST_IDLE takes a request from the vFPGA, after those of the cache buffer.
Accept(f, r) ==
  /\ fsm[f].st = "IDLE"
  /\ invldt_q[f] = <<>>
  /\ fsm[f].cache = <<>>
  /\ MayRequest(r)
  /\ fsm' = [fsm EXCEPT ![f].st = "MUTEX", ![f].req = r]
  /\ reqs' = reqs + 1
  /\ UNCHANGED <<env, driver, tlb, irqs, queues, mutex, inflight>>

AcceptCached(f) ==
  /\ fsm[f].st = "IDLE"
  /\ invldt_q[f] = <<>>
  /\ fsm[f].cache # <<>>
  /\ fsm' = [fsm EXCEPT ![f].st = "MUTEX", ![f].req = Head(fsm[f].cache),
                        ![f].cache = Tail(@)]
  /\ UNCHANGED <<env, driver, tlb, irqs, queues, mutex, inflight, reqs>>

\* A lock command toggles between ST_IDLE and ST_LOCKED; ST_MISS_IDLE starts an
\* invalidation for it, without latching one.
Toggle(st) ==
  CASE st = "IDLE" -> "LOCKED"
    [] st = "LOCKED" -> "IDLE"
    [] OTHER -> "INVLDT"

\* A command from the invalidation queue goes before everything else.
TakeCommand(f) ==
  LET c == Head(invldt_q[f])
      st == fsm[f].st
  IN
  /\ st \in {"IDLE", "LOCKED", "MISS_IDLE"}
  /\ invldt_q[f] # <<>>
  /\ invldt_q' = [invldt_q EXCEPT ![f] = Tail(@)]
  /\ IF c.lock
       THEN Goto(f, Toggle(st))
       ELSE fsm' = [fsm EXCEPT ![f].st = "INVLDT",
                      ![f].invldt = {[page |-> c.page, last |-> c.last, rtrn |-> st]}]
  /\ UNCHANGED <<env, driver, tlb, irqs, pfault_q, invldt_irq, pfault_irq, mutex, inflight, reqs>>

\* Mutant: a transfer matches only what follows it.
MatchesRest(d, page) == page = IF d.more THEN d.page + 1 ELSE d.page

\* A sent transfer is recorded with the address that follows it, unless it ended
\* the request; the comparison is inclusive, so it matches the page itself too.
Matches(d, page) == page = d.page \/ (d.more /\ page = d.page + 1)

\* The walks over the transfers in flight repeat until none matches; the last
\* invalidation is reported.
Evaluate(f) ==
  /\ fsm[f].st = "INVLDT"
  /\ \E i \in fsm[f].invldt :
       /\ \A c \in Access : \A d \in Range(inflight[f][c]) : ~Matches(d, i.page)
       /\ invldt_irq' = [invldt_irq EXCEPT ![f] = IF i.last THEN @ + 1 ELSE @]
       /\ Goto(f, i.rtrn)
  /\ UNCHANGED <<env, driver, tlb, irqs, invldt_q, pfault_q, pfault_irq, mutex, inflight, reqs>>

\* Mutant: the mutex is taken whether it is free or not.
MutexIgnored == TRUE

MutexFree == ~mutex.held

\* ST_MUTEX.
Acquire(f) ==
  /\ fsm[f].st = "MUTEX"
  /\ MutexFree
  /\ mutex' = [held |-> TRUE, side |-> f]
  /\ Goto(f, "CHECK")
  /\ UNCHANGED <<env, driver, tlb, irqs, queues, inflight, reqs>>

\* The release of the mutex: that of wr is taken whoever holds it.
Unlock(f) ==
  IF mutex.held /\ (f = "wr" \/ mutex.side = "rd")
    THEN [held |-> FALSE, side |-> f] ELSE mutex

Lookup(r) == {e \in tlb : e.page = r.vaddr /\ e.strm = r.strm}

\* The address of the read port is that of the machine the mutex names; when
\* nothing matches it the data read is that of any entry.
ReadPort ==
  LET found == Lookup(fsm[mutex.side].req)
  IN  IF found = {} THEN tlb ELSE found

\* ST_CHECK to ST_CALC on a hit.
Hit(f) ==
  /\ fsm[f].st = "CHECK"
  /\ Lookup(fsm[f].req) # {}
  /\ \E e \in ReadPort : fsm' = [fsm EXCEPT ![f].st = "SEND", ![f].entry = e]
  /\ mutex' = Unlock(f)
  /\ UNCHANGED <<env, driver, tlb, irqs, queues, inflight, reqs>>

\* A request that continues the fault range extends it.
Extend(m, r) ==
  IF r.vaddr = m.vaddr + m.len /\ r.strm = m.strm THEN [m EXCEPT !.len = @ + r.len] ELSE m

\* ST_CHECK to ST_MISS_SEND on a miss.
Miss(f) ==
  /\ fsm[f].st = "CHECK"
  /\ Lookup(fsm[f].req) = {}
  /\ fsm' = [fsm EXCEPT ![f].st = "MISS_IDLE",
                        ![f].miss = FoldLeft(Extend, fsm[f].req, fsm[f].cache)]
  /\ pfault_irq' = [pfault_irq EXCEPT ![f] = Append(@, fsm[f].req)]
  /\ mutex' = Unlock(f)
  /\ UNCHANGED <<env, driver, tlb, irqs, invldt_q, pfault_q, invldt_irq, inflight, reqs>>

\* ST_HOST_SEND and ST_CARD_SEND: the part of the request on this page.
Send(f) ==
  LET r == fsm[f].req
      more == r.len > 1
  IN
  /\ fsm[f].st = "SEND"
  /\ Len(inflight[f][r.strm]) < N_TLB_ACTV
  /\ inflight' = [inflight EXCEPT ![f][r.strm] =
                    Append(@, [page |-> r.vaddr, more |-> more, entry |-> fsm[f].entry])]
  /\ fsm' = [fsm EXCEPT ![f] =
               IF more THEN [@ EXCEPT !.st = "MUTEX", !.req.vaddr = @ + 1, !.req.len = @ - 1,
                                         !.entry = NoEntry]
                       ELSE [@ EXCEPT !.st = "IDLE", !.req.len = 0, !.entry = NoEntry]]
  /\ UNCHANGED <<env, driver, tlb, irqs, queues, mutex, reqs>>

\* ST_MISS_IDLE takes the answer to the page fault; a drop releases the mutex.
TakeAnswer(f) ==
  /\ fsm[f].st = "MISS_IDLE"
  /\ invldt_q[f] = <<>>
  /\ pfault_q[f] # <<>>
  /\ pfault_q' = [pfault_q EXCEPT ![f] = Tail(@)]
  /\ IF Head(pfault_q[f])
       THEN Goto(f, "MUTEX") /\ UNCHANGED mutex
       ELSE Goto(f, "IDLE") /\ mutex' = Unlock(f)
  /\ UNCHANGED <<env, driver, tlb, irqs, invldt_q, invldt_irq, pfault_irq, inflight, reqs>>

\* ST_MISS_IDLE keeps further requests in the cache buffer.
CacheRequest(f, r) ==
  /\ fsm[f].st = "MISS_IDLE"
  /\ invldt_q[f] = <<>>
  /\ pfault_q[f] = <<>>
  /\ Len(fsm[f].cache) <= CACHE_MAX_SIZE
  /\ MayRequest(r)
  /\ fsm' = [fsm EXCEPT ![f].cache = Append(@, r), ![f].miss = Extend(@, r)]
  /\ reqs' = reqs + 1
  /\ UNCHANGED <<env, driver, tlb, irqs, queues, mutex, inflight>>

\* The DMA engine completes the transfers of a channel in order.
DmaDone(f, c) ==
  /\ inflight[f][c] # <<>>
  /\ inflight' = [inflight EXCEPT ![f][c] = Tail(@)]
  /\ UNCHANGED <<env, driver, tlb, irqs, queues, fsm, mutex, reqs>>

-----------------------------------------------------------------------------
ThreadStep(t) ==
  /\ op[t].pc # "idle"
  /\ \/ TakeMmuLock(t) \/ mmu_handler_gup(t) \/ tlb_put_user_pages(t)
     \/ tlb_unmap_gup(t) \/ Invalidated(t) \/ StartCopy(t) \/ EndCopy(t) \/ Leave(t)
     \/ \E r \in Exported :
          \/ Attach(t, r) \/ p2p_attach_dma_buf(t, r)
          \/ p2p_detach_dma_buf(t, r) \/ Unmapped(t, r) \/ Detached(t, r)
          \/ t = Mover /\ p2p_move_notify(r)

FsmStep(f) ==
  \/ AcceptCached(f) \/ TakeCommand(f) \/ Evaluate(f) \/ Acquire(f)
  \/ Hit(f) \/ Miss(f) \/ Send(f) \/ TakeAnswer(f)

Next ==
  \/ \E t \in Users :
       \/ \E r \in Ranges, kind \in {"map", "unmap"} : Call(t, kind, r)
       \/ \E b \in user_buff_map, strm \in Access : Migrate(t, strm, b)
       \/ \E r \in Exported, kind \in {"attach", "detach"} : CallDmabuf(t, kind, r)
  \/ \E r \in Exported : Move(r)
  \/ vfpga_pfault_handler
  \/ \E t \in Threads : ThreadStep(t)
  \/ IsrInvldt
  \/ \E f \in Fsms : IsrPfault(f)
  \/ \E f \in Fsms : FsmStep(f)
  \/ \E f \in Fsms, r \in Requests : Accept(f, r) \/ CacheRequest(f, r)
  \/ \E f \in Fsms, c \in Access : DmaDone(f, c)

Fairness ==
  /\ \A t \in Threads : WF_vars(ThreadStep(t))
  /\ WF_vars(vfpga_pfault_handler \/ IsrInvldt \/ \E f \in Fsms : IsrPfault(f))
  /\ \A f \in Fsms : WF_vars(FsmStep(f))
  /\ WF_vars(\E f \in Fsms, c \in Access : DmaDone(f, c))

Spec == Init /\ [][Next]_vars /\ Fairness

-----------------------------------------------------------------------------
Sent == UNION {Range(inflight[f][c]) : f \in Fsms, c \in Access}

\* A machine that waits for a page fault takes a lock command for an invalidation,
\* and a full queue loses commands.
LockWorks ==
  /\ {"explicit", "gpu"} \cap env # {} => {"paging", "uninitialised"} \cap env = {}
  /\ "loss" \notin amiss

\* Migration ioctls do not take mmu_lock: they work when nothing else is at work.
MigrationAlone == "migrate" \in env => "paging" \notin env /\ Cardinality(Users) = 1

\* The exported buffer that an entry is of.
ExportOf(b) == {r \in Exported : r.vaddr = b.vaddr /\ dmabuf[r].attached}

\* A transfer in flight goes to frames the driver has pinned, or to memory of a GPU
\* that is still mapped, where the buffer's data is, and no buffer is copied while
\* a transfer of it is in flight (tlb_unmap_gup's wait, ST_INVLDT_EVAL).  When
\* nothing is under way, the entry of a GPU's buffer names its current place.  This
\* is so until a command is lost or a signal ends a wait, and for every page but
\* those of a GPU's buffer in pieces that p2p_move_notify gave a wrong address.
NoStrayTransfer ==
  LockWorks /\ MigrationAlone /\ "signal" \notin amiss
    /\ {"uninitialised", "evict"} \cap env = {} =>
    /\ \A d \in Sent : \E b \in user_buff_map :
         /\ b.frame = d.entry.frame \/ d.page \in b.wrong
         /\ b.host = d.entry.strm
         /\ \A r \in ExportOf(b) : dmabuf[r].mapped
         /\ \A t \in Threads : op[t].pc = "copy" => op[t].frame # b.frame
    /\ (\A t \in Threads : op[t].pc = "idle") =>
         \A b \in user_buff_map : \A r \in ExportOf(b) : b.frame = dmabuf[r].place

\* A transfer goes to the page it was asked for: the machines never read the TLB
\* with each other's address (the mutex of mmu_region_top).
RightPage ==
  "unpinnable" \notin env => \A d \in Sent : d.entry.page = d.page

\* The error path of p2p_attach_dma_buf can bring the kernel down, and a move can
\* take the answer to the invalidation of a detach.
Attachable == "gpu" \in env => {"unpinnable", "evict"} \cap env = {}

\* Every call and every page fault the driver starts on comes to its end: the
\* wait of tlb_unmap_gup is always answered, or ended by a signal.  Every request a
\* machine takes is sent on or dropped, page faults included.  This is so until a
\* command is lost.
EverythingServed ==
  /\ \A t \in Threads :
       (LockWorks /\ MigrationAlone /\ Attachable /\ op[t].pc # "idle")
          ~> (op[t].pc = "idle" \/ "loss" \in amiss)
  /\ \A f \in Fsms :
       (LockWorks /\ MigrationAlone /\ {"mixed", "uninitialised"} \cap env = {} /\ fsm[f].st = "MUTEX")
          ~> (fsm[f].st = "IDLE" \/ "loss" \in amiss)

=============================================================================
