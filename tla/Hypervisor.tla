------------------------------ MODULE Hypervisor ------------------------------
(***************************************************************************)
(* Virtual machines that share the vFPGAs of a card: the hypervisor module *)
(* on the host (contrib/vm/hypervisor) and the driver in each guest        *)
(* (contrib/vm/driver-guest).                                              *)
(*                                                                         *)
(* A mediated device stands for one virtual machine.  A guest process      *)
(* reaches the host through trapped accesses to registers of BAR 2, so the *)
(* host's handlers run in the context of a guest process, or of the        *)
(* guest's interrupt handler: these are the actors.  The page-fault        *)
(* registers and the TLB belong to the vFPGA and are shared by all         *)
(* virtual machines on it.                                                 *)
(*                                                                         *)
(* register_pid and unregister_pid of the host driver and the TLB are      *)
(* external; they are modelled from their use here.                        *)
(***************************************************************************)
EXTENDS Integers, Sequences, FiniteSets, VirtualPci

CONSTANTS
  Regions,        \* the vFPGAs of the card, numbered from 0
  MAX_VMS,        \* the virtual machine identifiers (vcid) of a vFPGA
  Mdevs,          \* the mediated devices, one per virtual machine
  Procs,          \* the guest processes
  VmOf,           \* the virtual machine of each
  PidOf,          \* its process number where all run in one guest
  NCpid,          \* the thread identifiers (cpid) of a vFPGA
  Gvas,           \* the virtual addresses a process maps, each its own bucket
  MaxMaps,        \* the most buffers in a bucket before a call adds one
  MaxCalls,       \* how often processes map and the hardware misses
  MaxEnds,        \* how often devices are removed or closed and drivers unloaded
  Environments,   \* the sets of mishaps a behaviour may be exposed to
  Created         \* the devices a behaviour creates, per environment

\* "shared": all processes run in one virtual machine; "many": there are more devices
\* than identifiers; "hasty": a process leaves without unmapping or unregistering;
\* "late": the hardware still works for a process that has unregistered; "abrupt": a
\* virtual machine is killed; "nomem": an allocation or a pin fails; "small": buffers
\* of regular pages; "full": the driver has no thread identifier left; "reuse": the
\* memory of a freed entry is in use again before the walk reads its link.
Mishaps == {"shared", "many", "hasty", "late", "abrupt", "nomem", "small", "full", "reuse"}

Cpids == 0 .. NCpid - 1

INVALID_CPID == -1

None == "none"

Chunks == Regions \X (0 .. MAX_VMS - 1)

NoChunk == <<-1, -1>>

ASSUME HypervisorAssumption ==
  /\ MAX_VMS \in Nat \ {0} /\ NCpid \in Nat \ {0} /\ MaxMaps \in Nat \ {0}
  /\ MaxEnds \in Nat /\ MaxCalls \in Nat
  /\ 0 \in Regions /\ Regions \subseteq Nat
  /\ VmOf \in [Procs -> Mdevs] /\ PidOf \in [Procs -> Nat \ {0}]
  /\ None \notin Procs \cup Mdevs /\ "freed" \notin Mdevs
  /\ Environments \subseteq SUBSET Mishaps

\* 1 << 16
PidLimit == 256 * 256

\* The processes of a guest have numbers of 16 bits.
ASSUME PidAssumption ==
  \A p \in Procs: PidOf[p] < PidLimit

ASSUME CreatedAssumption ==
  /\ Created \in [Environments -> SUBSET Mdevs]
  /\ \A e \in Environments: "many" \in e \/ Cardinality(Created[e]) <= MAX_VMS

Actors == Procs \cup Mdevs

\* The host page behind a process's virtual address.
Frames == Procs \X Gvas

NoFrame == <<None, None>>

VARIABLES
  env,          \* the mishaps of this behaviour; never changes
  host,         \* "up", or "down" after a BUG_ON, a null or a freed pointer
  chunk_next,   \* vcid_chunks[id].next of every vFPGA
  vcid_alloc,   \* the head of each vFPGA's list of free chunks
  mdev,         \* the mediated devices (struct m_fpga_dev)
  pids,         \* the effective pid of each thread identifier in use, by vFPGA
  vdevs,        \* the mediated device of each thread identifier, by vFPGA
  stat_lock,    \* the holder of the card's lock
  tlb,          \* the host page of each thread identifier and address, by vFPGA
  pins,         \* how often each page is pinned on the host
  guest,        \* the guest drivers (struct vfpga, user_sbuff_map)
  proc,         \* where each process is
  op,           \* the map or unmap each actor is in
  ends,         \* how many removals, closings and unloadings there were
  calls,        \* how many maps and misses
  miss          \* the page-fault registers and interrupt of each vFPGA

lists == <<chunk_next, vcid_alloc>>
table == <<pids, vdevs, stat_lock>>
memory == <<tlb, pins>>
bounds == <<ends, calls>>
vars == <<env, bounds, host, lists, mdev, table, memory, guest, proc, op, miss>>

First == CHOOSE m \in Mdevs : TRUE

Vm(p) == IF "shared" \in env THEN First ELSE VmOf[p]

\* Two guests number their processes alike, one guest does not.
Pid(p) == IF "shared" \in env THEN PidOf[p] ELSE 1

Region(m) == mdev[m].region

Absent ==
  [state |-> "absent", region |-> 0, id |-> 0, kvm |-> FALSE, vector |-> FALSE,
   irq |-> "null", current |-> INVALID_CPID, locked |-> FALSE,
   cfg |-> set_pci_config, sbuff |-> [g \in Gvas |-> <<>>]]

\* A guest driver that is not loaded.
NoGuest ==
  [up |-> FALSE, lock |-> None, pid_array |-> [c \in Cpids |-> 0],
   sbuff |-> [g \in Gvas |-> <<>>], irq |-> FALSE]

\* The map or unmap of an actor: "at" is the address and "p" the process whose page
\* is being handled.
Idle == [pc |-> "idle", p |-> None, cpid |-> INVALID_CPID, todo |-> {}, at |-> None,
         all |-> FALSE]

NoMiss == [state |-> "none", p |-> None, cpid |-> INVALID_CPID, vaddr |-> None]

NoEpid == 0

\* hypervisor_init links all lists through the chunks of the first vFPGA:
\* bd->fpga_dev-> does not depend on the loop index.
Init ==
  /\ env \in Environments
  /\ ends = 0 /\ calls = 0
  /\ host = "up"
  /\ chunk_next = [c \in Chunks |->
                     IF c[2] < MAX_VMS - 1 THEN <<0, c[2] + 1>> ELSE NoChunk]
  /\ vcid_alloc = [r \in Regions |-> <<0, 0>>]
  /\ mdev = [m \in Mdevs |-> Absent]
  /\ pids = [r \in Regions |-> [c \in Cpids |-> NoEpid]]
  /\ vdevs = [r \in Regions |-> [c \in Cpids |-> None]]
  /\ stat_lock = None
  /\ tlb = [r \in Regions |-> [k \in Cpids \X Gvas |-> NoFrame]]
  /\ pins = [f \in Frames |-> 0]
  /\ guest = [m \in Mdevs |-> NoGuest]
  /\ proc = [p \in Procs |-> [pc |-> "new", cpid |-> INVALID_CPID, last |-> INVALID_CPID]]
  /\ op = [a \in Actors |-> Idle]
  /\ miss = [r \in Regions |-> NoMiss]

-----------------------------------------------------------------------------
(* Mediated devices.  The mdev framework serialises the calls for a device  *)
(* and removes only one that is not open.                                   *)

NextVcid(r) == chunk_next[vcid_alloc[r]]

\* hypervisor_vfpga_create does not look whether a chunk is left.
VfpgaCreate(m, r) ==
  /\ mdev[m].state = "absent"
  /\ m \in Created[env]
  /\ IF vcid_alloc[r] = NoChunk
     THEN host' = "down" /\ UNCHANGED <<mdev, vcid_alloc>>
     ELSE /\ mdev' = [mdev EXCEPT ![m] = [Absent EXCEPT !.state = "idle", !.region = r,
                                                        !.id = vcid_alloc[r][2]]]
          /\ vcid_alloc' = [vcid_alloc EXCEPT ![r] = NextVcid(r)]
          /\ UNCHANGED host
  /\ UNCHANGED <<env, bounds, chunk_next, table, memory, guest, proc, op, miss>>

\* The structure is freed; thread identifiers that were never given back still
\* point to it.
VfpgaRemove(m) ==
  LET r == Region(m)
      c == <<r, mdev[m].id>>
  IN  /\ mdev[m].state \in {"idle", "busy"}
      /\ chunk_next' = [chunk_next EXCEPT ![c] = vcid_alloc[r]]
      /\ vcid_alloc' = [vcid_alloc EXCEPT ![r] = c]
      /\ vdevs' = [vdevs EXCEPT ![r] = [k \in Cpids |-> IF @[k] = m THEN "freed" ELSE @[k]]]
      /\ mdev' = [mdev EXCEPT ![m] = Absent]
      /\ ends < MaxEnds
      /\ ends' = ends + 1
      /\ UNCHANGED <<env, calls, host, pids, stat_lock, memory, guest, proc, op, miss>>

\* The buffers of the last virtual machine are forgotten (hash_init).
VfpgaOpen(m) ==
  /\ mdev[m].state = "idle"
  /\ mdev' = [mdev EXCEPT ![m] = [@ EXCEPT !.state = "open", !.vector = TRUE, !.irq = "null",
                                           !.sbuff = [g \in Gvas |-> <<>>]]]
  /\ UNCHANGED <<env, bounds, host, lists, table, memory, guest, proc, op, miss>>

\* An allocation or the registration of the notifier fails: in_use stays set.
VfpgaOpenFails(m) ==
  /\ "nomem" \in env
  /\ mdev[m].state = "idle"
  /\ mdev' = [mdev EXCEPT ![m].state = "busy"]
  /\ UNCHANGED <<env, bounds, host, lists, table, memory, guest, proc, op, miss>>

\* hypervisor_vfio_notifier: the virtual machine monitor announces its kvm.
SetKvm(m) ==
  /\ mdev[m].state = "open"
  /\ ~mdev[m].kvm
  /\ mdev' = [mdev EXCEPT ![m].kvm = TRUE]
  /\ UNCHANGED <<env, bounds, host, lists, table, memory, guest, proc, op, miss>>

\* msix_unset_all_interrupts: the context is put, the pointer to it stays.
Unset(d) == [d EXCEPT !.irq = IF @ = "set" THEN "put" ELSE @]

\* Mutant: a trigger that was once set is not set again.
TriggersOnce(d) == IF d.irq = "null" THEN [d EXCEPT !.irq = "set"] ELSE d

\* handle_set_irq_msix with an event descriptor.
Trigger(d) == [d EXCEPT !.irq = "set"]

VmProcs(m) == {p \in Procs : Vm(p) = m}

\* No handler runs for the virtual machine: a virtual processor in one cannot stop.
Quiet(m) ==
  /\ op[m].pc = "idle"
  /\ \A p \in VmProcs(m) : op[p].pc = "idle" /\ proc[p].pc # "locked"

\* The end of a virtual machine.  Neither thread identifiers nor pages are given
\* back.
VfpgaClose(m) ==
  /\ mdev[m].state = "open"
  /\ Quiet(m)
  /\ "abrupt" \in env \/ \A p \in VmProcs(m) : proc[p].pc \in {"new", "gone"}
  /\ "abrupt" \in env \/ "late" \in env \/ miss[Region(m)] = NoMiss
  /\ mdev' = [mdev EXCEPT ![m] = [Unset(@) EXCEPT !.state = "idle", !.vector = FALSE]]
  /\ guest' = [guest EXCEPT ![m] = NoGuest]
  /\ proc' = [p \in Procs |-> IF p \in VmProcs(m) /\ proc[p].pc # "new"
                              THEN [proc[p] EXCEPT !.pc = "gone", !.cpid = INVALID_CPID]
                              ELSE proc[p]]
  /\ ends < MaxEnds
  /\ ends' = ends + 1
  /\ UNCHANGED <<env, calls, host, lists, table, memory, op, miss>>

\* The guest's PCI core finds the device and its driver takes it (guest_probe):
\* enabling MSI-X lets the monitor set the event descriptor.
Boot(m, addr) ==
  /\ mdev[m].state = "open"
  /\ mdev[m].kvm
  /\ ~guest[m].up
  /\ mdev' = [mdev EXCEPT ![m] = [Trigger(@) EXCEPT !.cfg = Enumerated(@, addr)]]
  /\ guest' = [guest EXCEPT ![m].up = TRUE, ![m].lock = None,
                            ![m].pid_array = [c \in Cpids |-> 0]]
  /\ UNCHANGED <<env, bounds, host, lists, table, memory, proc, op, miss>>

\* guest_remove: the driver is unloaded; MSI-X is disabled.
Unload(m) ==
  /\ guest[m].up
  /\ Quiet(m)
  /\ \A p \in VmProcs(m) : proc[p].pc \in {"new", "gone"}
  /\ "late" \in env \/ miss[Region(m)] = NoMiss
  /\ mdev' = [mdev EXCEPT ![m] = Unset(@)]
  /\ guest' = [guest EXCEPT ![m].up = FALSE, ![m].irq = FALSE]
  /\ ends < MaxEnds
  /\ ends' = ends + 1
  /\ UNCHANGED <<env, calls, host, lists, table, memory, proc, op, miss>>

-----------------------------------------------------------------------------
(* Registration: the guest writes its pid to BAR 2 and then reads the       *)
(* register until a thread identifier appears in it.                        *)

Calls(p) == guest[Vm(p)].up /\ op[p].pc = "idle"

\* Mutant: a registration does not wait for another of the same guest.
CpidLockIgnored(m) == TRUE

CpidLockFree(m) == guest[m].lock = None

\* guest_open, which only notes the device, and IOCTL_REGISTER_PID, which takes the
\* guest's cpid_lock.
RegisterCall(p) ==
  /\ Calls(p)
  /\ proc[p].pc = "new"
  /\ CpidLockFree(Vm(p))
  /\ guest' = [guest EXCEPT ![Vm(p)].lock = p]
  /\ proc' = [proc EXCEPT ![p].pc = "write"]
  /\ UNCHANGED <<env, bounds, host, lists, mdev, table, memory, op, miss>>

\* handle_bar2_write: first the card's lock ...
RegisterLock(p) ==
  /\ proc[p].pc = "write"
  /\ stat_lock = None
  /\ stat_lock' = p
  /\ proc' = [proc EXCEPT ![p].pc = "locked"]
  /\ UNCHANGED <<env, bounds, host, lists, mdev, pids, vdevs, memory, guest, op, miss>>

\* epid = pid | (id << 16), which is a sum for process numbers of 16 bits.
Epid(m, p) == Pid(p) + PidLimit * mdev[m].id

NoteDevice(r, c, m) == vdevs' = [vdevs EXCEPT ![r][c] = m]

ForgetDevice(r, c) == vdevs' = [vdevs EXCEPT ![r][c] = None]

UnlockStat == stat_lock' = None

\* ... then the device's.  A failure leaves the latter locked.
RegisterWrite(p) ==
  LET m == Vm(p)
      r == Region(m)
      free == {c \in Cpids : pids[r][c] = NoEpid}
  IN  /\ proc[p].pc = "locked"
      /\ ~mdev[m].locked
      /\ proc' = [proc EXCEPT ![p].pc = "read"]
      /\ \/ \E c \in free :
              /\ pids' = [pids EXCEPT ![r][c] = Epid(m, p)]
              /\ NoteDevice(r, c, m)
              /\ mdev' = [mdev EXCEPT ![m].current = c]
              /\ UnlockStat
         \/ /\ free = {} \/ "full" \in env
            /\ mdev' = [mdev EXCEPT ![m].locked = TRUE]
            /\ stat_lock' = None
            /\ UNCHANGED <<pids, vdevs>>
      /\ UNCHANGED <<env, bounds, host, lists, memory, guest, op, miss>>

CurrentRead(m) == [mdev EXCEPT ![m].current = INVALID_CPID]

\* handle_bar2_read resets the register; as long as it reads INVALID_CPID the guest
\* reads again.
RegisterRead(p) ==
  LET m == Vm(p)
      c == mdev[m].current
  IN  /\ proc[p].pc = "read"
      /\ ~mdev[m].locked
      /\ c # INVALID_CPID
      /\ mdev' = CurrentRead(m)
      /\ guest' = [guest EXCEPT ![m].pid_array[c] = Pid(p), ![m].lock = None]
      /\ proc' = [proc EXCEPT ![p] = [pc |-> "in", cpid |-> c, last |-> c]]
      /\ UNCHANGED <<env, bounds, host, lists, table, memory, op, miss>>

\* Where an entry is in a bucket.
Places(bucket, e) == {i \in DOMAIN bucket : bucket[i] = e}

Mapped(m, c) == {g \in Gvas : Places(guest[m].sbuff[g], c) # {}}

Missing(p) == \E r \in Regions : miss[r].p = p

\* IOCTL_UNREGISTER_PID, to the end of the host's handler.
Unregister(p) ==
  LET m == Vm(p)
      r == Region(m)
      c == proc[p].cpid
  IN  /\ Calls(p)
      /\ proc[p].pc = "in"
      /\ c # INVALID_CPID
      /\ "hasty" \in env \/ Mapped(m, c) = {}
      /\ "late" \in env \/ ~Missing(p)
      /\ CpidLockFree(m)
      /\ stat_lock = None
      /\ pids' = [pids EXCEPT ![r][c] = NoEpid]
      /\ ForgetDevice(r, c)
      /\ guest' = [guest EXCEPT ![m].pid_array[c] = 0]
      /\ proc' = [proc EXCEPT ![p].cpid = INVALID_CPID]
      /\ UNCHANGED <<env, bounds, host, lists, mdev, stat_lock, memory, op, miss>>

-----------------------------------------------------------------------------
(* Buffers.  The host notes a buffer without its thread identifier, which   *)
(* therefore reads 0.                                                       *)

Entry(p, c, g) == [cpid |-> 0, frame |-> <<p, g>>]

\* guest_get_user_pages has translated the addresses, hypervisor_tlb_get_user_pages
\* pins the pages.
Pin(a, p, c, g) ==
  /\ pins' = [pins EXCEPT ![<<p, g>>] = @ + 1]
  /\ op' = [op EXCEPT ![a] = [Idle EXCEPT !.pc = "pinned", !.p = p, !.cpid = c,
                                           !.at = g]]

\* The host fails.  The guest does not hear of it and notes the buffer.  With
\* regular pages a failed allocation of the map array leaves the pages pinned.
PinFails(a, m, p, c, g) ==
  /\ \/ UNCHANGED pins
     \/ "small" \in env /\ pins' = [pins EXCEPT ![<<p, g>>] = @ + 1]
  /\ guest' = [guest EXCEPT ![m].sbuff[g] = <<c>> \o @, ![m].irq = @ /\ a # m]

\* IOCTL_MAP_USER
Map(p, g) ==
  LET m == Vm(p)
      c == proc[p].cpid
  IN  /\ Calls(p)
      /\ proc[p].pc = "in"
      /\ c # INVALID_CPID
      /\ Len(mdev[m].sbuff[g]) < MaxMaps /\ Len(guest[m].sbuff[g]) < MaxMaps
      /\ \/ Pin(p, p, c, g) /\ UNCHANGED guest
         \/ "nomem" \in env /\ PinFails(p, m, p, c, g) /\ UNCHANGED op
      /\ calls < MaxCalls
      /\ calls' = calls + 1
      /\ UNCHANGED <<env, ends, host, lists, mdev, table, tlb, proc, miss>>

VmOfActor(a) == IF a \in Mdevs THEN a ELSE Vm(a)

\* Mutant: the engine is not restarted.
StaysStopped(a, r) == UNCHANGED miss

\* FPGA_CNFG_CTRL_IRQ_RESTART at the end of the guest's interrupt handler.
Restart(a, r) == miss' = IF a \in Mdevs THEN [miss EXCEPT ![r] = NoMiss] ELSE miss

\* tlb_service_dev, then the entries of the host and of the guest.  With regular
\* pages the host frees a pointer it never set.  The guest's interrupt handler then
\* restarts the engine.
MapDone(a) ==
  LET m == VmOfActor(a)
      r == Region(m)
      o == op[a]
      g == o.at
  IN  /\ o.pc = "pinned"
      /\ tlb' = [tlb EXCEPT ![r][<<o.cpid, g>>] = <<o.p, g>>]
      /\ mdev' = [mdev EXCEPT ![m].sbuff[g] = <<Entry(o.p, o.cpid, g)>> \o @]
      /\ guest' = [guest EXCEPT ![m].sbuff[g] = <<o.cpid>> \o @]
      /\ host' \in IF "small" \in env THEN {"up", "down"} ELSE {"up"}
      /\ op' = [op EXCEPT ![a] = Idle]
      /\ Restart(a, r)
      /\ UNCHANGED <<env, bounds, lists, table, pins, proc>>

\* IOCTL_UNMAP_USER
Unmap(p, g) ==
  LET m == Vm(p)
  IN  /\ Calls(p)
      /\ proc[p].pc = "in"
      /\ proc[p].cpid # INVALID_CPID
      /\ g \in Mapped(m, proc[p].cpid)
      /\ "late" \in env \/ ~Missing(p)
      /\ op' = [op EXCEPT ![p] = [Idle EXCEPT !.pc = "walk", !.cpid = proc[p].cpid,
                                               !.todo = {g}, !.at = g]]
      /\ UNCHANGED <<env, bounds, host, lists, mdev, table, memory, guest, proc, miss>>

\* guest_release puts all buffers of the device, also those of other processes.
\* Deleting an entry ends the walk of its bucket.
Release(p) ==
  LET m == Vm(p)
  IN  /\ Calls(p)
      /\ proc[p].pc = "in"
      /\ "hasty" \in env \/ proc[p].cpid = INVALID_CPID
      /\ guest' = [guest EXCEPT ![m].sbuff = [g \in Gvas |-> IF @[g] = <<>> THEN <<>>
                                                             ELSE Tail(@[g])]]
      /\ op' = [op EXCEPT ![p] = [Idle EXCEPT !.pc = "walk", !.todo = Gvas,
                                               !.all = TRUE]]
      /\ proc' = [proc EXCEPT ![p].pc = "gone", ![p].cpid = INVALID_CPID]
      /\ UNCHANGED <<env, bounds, host, lists, mdev, table, memory, miss>>


Matches(o, e) == o.all \/ e.cpid = o.cpid

FirstPlace(places) == IF places = {} THEN 0 ELSE Min(places)

\* The first entry of the bucket that matches, 0 if there is none.
FirstMatch(o, bucket) == FirstPlace({i \in DOMAIN bucket : Matches(o, bucket[i])})

\* hash_del of the first such entry, if there is one.
hash_del(bucket, e) ==
  LET i == FirstPlace(Places(bucket, e))
  IN  SubSeq(bucket, 1, i - 1) \o SubSeq(bucket, i + 1, Len(bucket))

\* unmap_entry begins: the pages are put.
PutPages(a, g) ==
  LET m == Vm(a)
      o == op[a]
      bucket == mdev[m].sbuff[g]
      i == FirstMatch(o, bucket)
  IN  /\ o.pc = "walk"
      /\ g \in o.todo
      /\ IF i = 0
         THEN op' = [op EXCEPT ![a].todo = @ \ {g}] /\ UNCHANGED pins
         ELSE /\ op' = [op EXCEPT ![a] = [@ EXCEPT !.pc = "invalidate", !.todo = @ \ {g},
                                                   !.at = g, !.p = bucket[i].frame[1]]]
              /\ pins' = [pins EXCEPT ![bucket[i].frame] = @ - 1]
      /\ UNCHANGED <<env, bounds, host, lists, mdev, table, tlb, guest, proc, miss>>

\* Mutant: the pages are put and the entry is deleted, the mapping stays.
LeavesMapping(r, c, g) == UNCHANGED tlb

Invalidate(r, c, g) == tlb' = [tlb EXCEPT ![r][<<c, g>>] = NoFrame]

\* unmap_entry ends: the mapping is removed, under the identifier of the entry,
\* unless the map array cannot be allocated; the entry is deleted, which clears its
\* link, and freed, and then the walk reads the link.  No lock is held: an entry
\* another actor deleted meanwhile is freed twice.
PutEntry(a) ==
  LET m == Vm(a)
      o == op[a]
      bucket == mdev[m].sbuff[o.at]
      e == Entry(o.p, o.cpid, o.at)
  IN  /\ o.pc = "invalidate"
      /\ op' = [op EXCEPT ![a].pc = "walk"]
      /\ \/ Invalidate(Region(m), e.cpid, o.at)
         \/ "nomem" \in env /\ UNCHANGED tlb
      /\ IF Places(bucket, e) # {}
         THEN /\ mdev' = [mdev EXCEPT ![m].sbuff[o.at] = hash_del(bucket, e)]
              /\ host' \in IF "reuse" \in env THEN {"up", "down"} ELSE {"up"}
         ELSE host' = "down" /\ UNCHANGED mdev
      /\ UNCHANGED <<env, bounds, lists, table, pins, guest, proc, miss>>

\* Back in the guest, which deletes its own entry.
WalkDone(a) ==
  LET o == op[a]
  IN  /\ o.pc = "walk"
      /\ o.todo = {}
      /\ op' = [op EXCEPT ![a] = Idle]
      /\ guest' = IF o.all THEN guest
                  ELSE [guest EXCEPT ![Vm(a)].sbuff[o.at] = hash_del(@, o.cpid)]
      /\ UNCHANGED <<env, bounds, host, lists, mdev, table, memory, proc, miss>>

-----------------------------------------------------------------------------
(* Page faults.                                                              *)

\* The hardware works for the process and misses; "late" for one that unregistered.
Access(p, g) ==
  LET m == Vm(p)
      r == Region(m)
      c == proc[p].last
  IN  /\ c # INVALID_CPID
      /\ mdev[m].state # "absent"
      /\ "late" \in env \/ (proc[p].cpid # INVALID_CPID /\ op[p].pc = "idle")
      /\ Len(mdev[m].sbuff[g]) < MaxMaps /\ Len(guest[m].sbuff[g]) < MaxMaps
      /\ tlb[r][<<c, g>>] = NoFrame
      /\ miss[r] = NoMiss
      /\ miss' = [miss EXCEPT ![r] = [state |-> "raised", p |-> p, cpid |-> c, vaddr |-> g]]
      /\ calls < MaxCalls
      /\ calls' = calls + 1
      /\ UNCHANGED <<env, ends, host, lists, mdev, table, memory, guest, proc, op>>

\* fire_interrupt looks neither at the mask nor whether the context was put.
fire_interrupt(d) ==
  IF ~d.vector \/ d.irq = "put" THEN "down" ELSE IF d.irq = "null" THEN "lost" ELSE "fired"

\* fpga_tlb_miss_isr: the interrupt is passed to the device of the identifier.
MissIsr(r) ==
  LET m == vdevs[r][miss[r].cpid]
      fired == IF m \in Mdevs THEN fire_interrupt(mdev[m]) ELSE "down"
  IN  /\ miss[r].state = "raised"
      /\ miss' = [miss EXCEPT ![r].state = IF fired = "fired" THEN "forwarded" ELSE "lost"]
      /\ IF fired = "down" THEN host' = "down" /\ UNCHANGED guest
         ELSE /\ UNCHANGED host
              /\ guest' = IF fired = "fired" THEN [guest EXCEPT ![m].irq = TRUE] ELSE guest
      /\ UNCHANGED <<env, bounds, lists, mdev, table, memory, proc, op>>

\* The process of the guest with this number, found by pid_task.
Tasks(m, pid) == {p \in VmProcs(m) : Pid(p) = pid /\ proc[p].pc \notin {"new", "gone"}}

\* guest_pfault_isr reads the registers of the vFPGA and maps the page; where the
\* guest fails the engine is not restarted.
GuestIsr(m) ==
  LET x == miss[Region(m)]
      tasks == Tasks(m, guest[m].pid_array[x.cpid])
  IN  /\ guest[m].irq /\ guest[m].up
      /\ op[m].pc = "idle"
      /\ \/ \E p \in tasks :
              /\ Pin(m, p, x.cpid, x.vaddr)
              /\ guest' = [guest EXCEPT ![m].irq = FALSE]
              /\ UNCHANGED miss
         \/ /\ tasks = {} \/ "nomem" \in env
            /\ guest' = [guest EXCEPT ![m].irq = FALSE]
            /\ UNCHANGED <<pins, op, miss>>
         \/ \E p \in tasks :
              /\ "nomem" \in env
              /\ PinFails(m, m, p, x.cpid, x.vaddr)
              /\ miss' = [miss EXCEPT ![Region(m)] = NoMiss]
              /\ UNCHANGED op
      /\ UNCHANGED <<env, bounds, host, lists, mdev, table, tlb, proc>>

-----------------------------------------------------------------------------
\* The addresses a guest's firmware gives to the base addresses.
Placement == [bar0 |-> {30}, bar2 |-> {29}, bar4 |-> {29, 30}]

Next ==
  /\ host = "up"
  /\ \/ \E m \in Mdevs :
          \/ \E r \in Regions : VfpgaCreate(m, r)
          \/ VfpgaRemove(m)
          \/ VfpgaOpen(m)
          \/ VfpgaOpenFails(m)
          \/ SetKvm(m)
          \/ VfpgaClose(m)
          \/ Boot(m, Placement)
          \/ Unload(m)
          \/ GuestIsr(m)
     \/ \E p \in Procs :
          \/ RegisterCall(p)
          \/ RegisterLock(p)
          \/ RegisterWrite(p)
          \/ RegisterRead(p)
          \/ Unregister(p)
          \/ Release(p)
          \/ PutEntry(p)
          \/ WalkDone(p)
          \/ \E g \in Gvas : Map(p, g) \/ Unmap(p, g) \/ PutPages(p, g) \/ Access(p, g)
     \/ \E a \in Actors : MapDone(a)
     \/ \E r \in Regions : MissIsr(r)

\* What goes on by itself: a call that has begun, and the interrupts.
Progress ==
  \/ \E p \in Procs :
       \/ RegisterLock(p) \/ RegisterWrite(p) \/ RegisterRead(p)
       \/ PutEntry(p) \/ WalkDone(p) \/ \E g \in Gvas : PutPages(p, g)
  \/ \E a \in Actors : MapDone(a)
  \/ \E m \in Mdevs : GuestIsr(m)
  \/ \E r \in Regions : MissIsr(r)

\* Fairness to these steps together follows from fairness to each.
Spec == Init /\ [][Next]_vars /\ WF_vars(host = "up" /\ Progress)

-----------------------------------------------------------------------------
(* Properties.                                                               *)

\* Two mediated devices of the first vFPGA never have the same identifier ("Unique per
\* fpga region"), however they are created and removed; the lists of the others run
\* through the chunks of the first and do not promise this.  A process holds the thread
\* identifier that the host registered for its own effective pid, page faults of the
\* identifier are passed to its own virtual machine, and the guest finds the process
\* by it: the write and the later read of the register, which any number of
\* processes share, never mix two registrations.  Every identifier in use belongs to
\* a virtual device that exists, so that fpga_tlb_miss_isr has someone to pass a page
\* fault to, unless a process or a virtual machine went away without unregistering.
OwnIdentifier ==
  /\ \A m, n \in Mdevs :
       m # n /\ "absent" \notin {mdev[m].state, mdev[n].state} /\ Region(m) = 0 /\ Region(n) = 0
         => mdev[m].id # mdev[n].id
  /\ \A p \in Procs :
       LET c == proc[p].cpid
           m == Vm(p)
       IN  c # INVALID_CPID
             => /\ pids[Region(m)][c] = Epid(m, p)
                /\ vdevs[Region(m)][c] = m
                /\ guest[m].pid_array[c] = Pid(p)
                /\ \A q \in Procs \ {p} : proc[q].cpid = c => Region(Vm(q)) # Region(m)
  /\ env \cap {"hasty", "abrupt"} = {} =>
       \A r \in Regions : \A c \in Cpids :
         pids[r][c] # NoEpid <=> vdevs[r][c] \in {m \in Mdevs : mdev[m].state = "open"}

Resting == \A a \in Actors : op[a].pc = "idle"

\* While no call is under way the vFPGA can reach no page of a guest through the
\* first thread identifier that the host does not hold pinned, and only pages of
\* the process that owns the identifier.
OnlyPinned ==
  "nomem" \notin env /\ Resting =>
    \A r \in Regions : \A g \in Gvas :
      LET f == tlb[r][<<0, g>>]
      IN  f # NoFrame =>
            /\ pins[f] > 0
            /\ env \cap {"hasty", "late", "abrupt"} = {} => proc[f[1]].cpid = 0

\* The host follows no null pointer and none into memory that is gone or used for
\* something else, on a card with one vFPGA.  The code leaves six ways to do so: a
\* device more than there are identifiers; work of the hardware for a process that
\* is gone; a virtual machine that is killed; processes of one virtual machine that
\* unmap the same buffers; regular pages; and an unmap, which always reads the link
\* of the entry it has just freed, when the memory is in use again by then.
HostUp ==
  Regions = {0} /\ env \cap {"many", "late", "abrupt", "shared", "small", "reuse"} = {}
    => host = "up"

\* What the guest's PCI core finds out about the base addresses is what the virtual
\* machine monitor was told of the regions and of the vectors: 64-bit addresses of
\* the same size, at the place the core gave them.  Only regions whose traps do
\* nothing can be mapped, and what a process of the guest maps lies in them.
GuestSeesRegions ==
  \A m \in Mdevs : guest[m].up =>
    \A b \in Bars :
      /\ SizeRead(mdev[m].cfg, b) = RegionInfo(b).size
      /\ Is64Bit(mdev[m].cfg, b)
      /\ mdev[m].cfg.bar[b] \ TypeBits = Placement[b]
      /\ RegionInfo(b).mmap = Mmaps(b)
      /\ RegionInfo(b).mmap <=> Trap(b) # "handled"
      /\ mdev[m].cfg.control = {i \in Word : i < IrqInfo("msix") - 1}
      /\ \A area \in DOMAIN GuestMmap :
           LET a == GuestMmap[area]
           IN  /\ RegionInfo(a.region).mmap
               /\ a.first + a.size <= 2^(RegionInfo(a.region).size - 16)

\* A registration returns, unless the driver runs out of thread identifiers.  The
\* engine that missed is restarted, unless the process or its virtual machine goes
\* away or memory runs out.
GuestServed ==
  /\ \A p \in Procs :
       proc[p].pc = "write" /\ "full" \notin env
         ~> proc[p].pc \notin {"write", "locked", "read"} \/ host = "down"
  /\ \A r \in Regions :
       miss[r] # NoMiss /\ env \cap {"hasty", "late", "abrupt", "nomem"} = {}
         ~> miss[r] = NoMiss \/ host = "down"
=============================================================================
