--------------------------- MODULE HypervisorProofs ---------------------------
(***************************************************************************)
(* Proofs about Hypervisor, for any number of virtual machines, processes, *)
(* vFPGAs and identifiers and any sequence of calls: who holds which       *)
(* identifier.                                                             *)
(*                                                                         *)
(* A registration is a write to a register of the virtual device and a     *)
(* later read of it.  Between the two the identifier is in the register    *)
(* and the guest's cpid_lock is held, so that the process which reads is   *)
(* the one which wrote.                                                    *)
(***************************************************************************)
EXTENDS Hypervisor, TLAPS

Vcids == 0 .. MAX_VMS - 1

DevFields ==
  {"state", "region", "id", "kvm", "vector", "irq", "current", "locked", "cfg", "sbuff"}

GuestFields == {"up", "lock", "pid_array", "sbuff", "irq"}

\* The types of what the identifiers depend on.
DevOK(m) ==
  /\ DOMAIN mdev[m] = DevFields
  /\ mdev[m].state \in {"absent", "idle", "busy", "open"}
  /\ mdev[m].region \in Regions /\ mdev[m].id \in Vcids
  /\ mdev[m].current \in Cpids \cup {INVALID_CPID} /\ mdev[m].locked \in BOOLEAN

GuestOK(m) ==
  /\ DOMAIN guest[m] = GuestFields
  /\ guest[m].up \in BOOLEAN /\ guest[m].lock \in Procs \cup {None}
  /\ guest[m].pid_array \in [Cpids -> Nat]

TypeOK ==
  /\ chunk_next \in [Chunks -> Chunks \cup {NoChunk}]
  /\ vcid_alloc \in [Regions -> Chunks \cup {NoChunk}]
  /\ DOMAIN mdev = Mdevs /\ DOMAIN guest = Mdevs
  /\ \A m \in Mdevs : DevOK(m) /\ GuestOK(m)
  /\ pids \in [Regions -> [Cpids -> Nat]]
  /\ vdevs \in [Regions -> [Cpids -> Mdevs \cup {None, "freed"}]]
  /\ proc \in [Procs -> [pc : {"new", "write", "locked", "read", "in", "gone"},
                         cpid : Cpids \cup {INVALID_CPID}, last : Cpids \cup {INVALID_CPID}]]

\* The virtual machines run on open devices, and their processes in them.
Running ==
  /\ \A m \in Mdevs : guest[m].up => mdev[m].state = "open"
  /\ \A p \in Procs :
       /\ proc[p].pc \notin {"new", "gone"} => guest[Vm(p)].up
       /\ proc[p].cpid # INVALID_CPID => proc[p].pc = "in"
       /\ proc[p].pc \in {"write", "locked", "read"} => guest[Vm(p)].lock = p

\* Process p has the identifier c, or will read it from the register.
Has(p, c) ==
  \/ proc[p].cpid = c
  \/ proc[p].pc = "read" /\ ~mdev[Vm(p)].locked /\ mdev[Vm(p)].current = c

\* An identifier is registered for the process that has it, and for no other.
Registered ==
  /\ \A p \in Procs, c \in Cpids : Has(p, c) =>
       pids[Region(Vm(p))][c] = Epid(Vm(p), p) /\ vdevs[Region(Vm(p))][c] = Vm(p)
  /\ \A p, q \in Procs, c \in Cpids :
       Has(p, c) /\ Has(q, c) /\ Region(Vm(p)) = Region(Vm(q)) => p = q
  /\ \A p \in Procs : proc[p].cpid # INVALID_CPID =>
       guest[Vm(p)].pid_array[proc[p].cpid] = Pid(p)

\* The two tables of the host agree, and what they say is in use is in use.
InUse ==
  /\ \A r \in Regions, c \in Cpids : pids[r][c] # NoEpid <=> vdevs[r][c] # None
  /\ env \cap {"hasty", "abrupt"} = {} =>
       \A r \in Regions, c \in Cpids :
         vdevs[r][c] # None => \E p \in Procs : Has(p, c) /\ Region(Vm(p)) = r

\* s is the list that begins at the chunk h of the first vFPGA and is linked by f.
ListOf(h, f, s) ==
  /\ h = IF s = << >> THEN NoChunk ELSE <<0, s[1]>>
  /\ \A i \in 1 .. Len(s) :
       f[<<0, s[i]>>] = IF i = Len(s) THEN NoChunk ELSE <<0, s[i + 1]>>
  /\ \A i, j \in 1 .. Len(s) : s[i] = s[j] => i = j

\* The free list of the first vFPGA is s.
Linked(s) == ListOf(vcid_alloc[0], chunk_next, s)

\* The identifiers of the devices of the first vFPGA are not on its free list.
Vcid ==
  \E s \in Seq(Vcids) :
    /\ Linked(s)
    /\ \A m \in Mdevs : mdev[m].state # "absent" /\ Region(m) = 0 =>
         /\ \A i \in 1 .. Len(s) : s[i] # mdev[m].id
         /\ \A n \in Mdevs \ {m} : mdev[n].state # "absent" /\ Region(n) = 0 =>
              mdev[n].id # mdev[m].id

Inv == TypeOK /\ Running /\ Registered /\ InUse /\ Vcid

(* Virtual machines and processes.                                         *)

\* Every process runs in a virtual machine, under a number that is not 0.
LEMMA ProcFacts ==
  ASSUME NEW p \in Procs
  PROVE  Vm(p) \in Mdevs /\ Pid(p) \in Nat \ {0} /\ First \in Mdevs
<1>1. VmOf[p] \in Mdevs /\ PidOf[p] \in Nat \ {0}
  BY HypervisorAssumption
<1>2. First \in Mdevs
  BY <1>1 DEF First
<1>3. QED
  BY <1>1, <1>2 DEF Vm, Pid

\* Its effective process number is not 0 either.
LEMMA EpidNumber ==
  ASSUME TypeOK, NEW m \in Mdevs, NEW p \in Procs
  PROVE  Epid(m, p) \in Nat \ {0}
<1>1. PICK i \in Nat : i = mdev[m].id
  BY HypervisorAssumption DEF TypeOK, DevOK, Vcids
<1>2. PICK n \in Nat \ {0} : n = Pid(p)
  BY ProcFacts
<1>3. n + PidLimit * i \in Nat \ {0}
  BY DEF PidLimit
<1>4. QED
  BY <1>1, <1>2, <1>3, Zenon DEF Epid

\* The virtual machine and the number stay the same.
LEMMA SameVm ==
  ASSUME env' = env, NEW p
  PROVE  Vm(p)' = Vm(p) /\ Pid(p)' = Pid(p)
  BY DEF Vm, Pid

\* The parts of a device and of a guest driver that Inv is about.
DevKept(m) ==
  /\ mdev'[m].state = mdev[m].state /\ mdev'[m].region = mdev[m].region
  /\ mdev'[m].id = mdev[m].id
  /\ mdev'[m].current = mdev[m].current /\ mdev'[m].locked = mdev[m].locked

GuestKept(m) ==
  /\ guest'[m].up = guest[m].up /\ guest'[m].lock = guest[m].lock
  /\ guest'[m].pid_array = guest[m].pid_array

DevicesKept ==
  /\ DOMAIN mdev' = Mdevs
  /\ \A m \in Mdevs : DOMAIN mdev'[m] = DevFields /\ DevKept(m)

GuestsKept ==
  /\ DOMAIN guest' = Mdevs
  /\ \A m \in Mdevs : DOMAIN guest'[m] = GuestFields /\ GuestKept(m)

\* A step that leaves these parts, the tables and the processes alone.
LEMMA Untouched ==
  ASSUME Inv, DevicesKept, GuestsKept, UNCHANGED <<env, lists, pids, vdevs, proc>>
  PROVE  Inv'
<1>1. \A p \in Procs : Vm(p) \in Mdevs /\ Vm(p)' = Vm(p) /\ Pid(p)' = Pid(p)
  BY ProcFacts, SameVm
<1>2. TypeOK'
  BY DEF Inv, TypeOK, DevOK, GuestOK, DevicesKept, DevKept, GuestsKept, GuestKept, lists,
    Vcids, Cpids
<1>3. Running'
  BY <1>1 DEF Inv, Running, DevicesKept, DevKept, GuestsKept, GuestKept
<1>4. \A p \in Procs, c \in Cpids : Has(p, c)' <=> Has(p, c)
  BY <1>1 DEF Has, DevicesKept, DevKept
<1>5. \A p \in Procs : Region(Vm(p))' = Region(Vm(p)) /\ Epid(Vm(p), p)' = Epid(Vm(p), p)
  BY <1>1 DEF Region, Epid, DevicesKept, DevKept
<1>6. Registered'
  <2>1. \A p \in Procs : proc'[p].cpid # INVALID_CPID =>
          guest'[Vm(p)].pid_array[proc'[p].cpid] = Pid(p)
    BY <1>1 DEF Inv, Registered, GuestsKept, GuestKept
  <2>2. QED
    BY <1>1, <1>4, <1>5, <2>1 DEF Inv, Registered, Cpids
<1>7. InUse'
  BY <1>1, <1>4, <1>5 DEF Inv, InUse, Cpids
<1>8. Vcid'
  <2>1. PICK s \in Seq(Vcids) :
          /\ Linked(s)
          /\ \A m \in Mdevs : mdev[m].state # "absent" /\ Region(m) = 0 =>
               /\ \A i \in 1 .. Len(s) : s[i] # mdev[m].id
               /\ \A n \in Mdevs \ {m} : mdev[n].state # "absent" /\ Region(n) = 0 =>
                    mdev[n].id # mdev[m].id
    BY DEF Inv, Vcid
  <2>2. Linked(s)'
    BY <2>1, Zenon DEF Linked, lists
  <2>3. QED
    BY <2>1, <2>2 DEF Vcid, DevicesKept, DevKept, Region, Vcids
<1>9. QED
  BY <1>2, <1>3, <1>6, <1>7, <1>8, Zenon DEF Inv

\* Calls about buffers, page faults and interrupts are such steps.
LEMMA BufferSteps ==
  ASSUME Inv,
         \/ \E m \in Mdevs : SetKvm(m) \/ GuestIsr(m)
         \/ \E p \in Procs :
              \/ PutEntry(p) \/ WalkDone(p)
              \/ \E g \in Gvas : Map(p, g) \/ Unmap(p, g) \/ PutPages(p, g) \/ Access(p, g)
         \/ \E a \in Actors : MapDone(a)
         \/ \E r \in Regions : MissIsr(r)
  PROVE  Inv'
<1> USE DEF lists, table, memory, bounds
<1>0. /\ DOMAIN mdev = Mdevs /\ \A m \in Mdevs : DOMAIN mdev[m] = DevFields
      /\ DOMAIN guest = Mdevs /\ \A m \in Mdevs : DOMAIN guest[m] = GuestFields
  BY DEF Inv, TypeOK, DevOK, GuestOK
<1>1. ASSUME NEW m \in Mdevs, SetKvm(m)
      PROVE  Inv'
  <2>1. DevicesKept /\ GuestsKept
    BY <1>0, <1>1 DEF SetKvm, DevicesKept, DevKept, GuestsKept, GuestKept, DevFields
  <2>2. QED
    BY <1>1, <2>1, Untouched DEF SetKvm
<1>2. ASSUME NEW m \in Mdevs, GuestIsr(m)
      PROVE  Inv'
  <2>1. DevicesKept
    BY <1>0, <1>2, Zenon DEF GuestIsr, DevicesKept, DevKept
  <2>2. GuestsKept
    <3>1. CASE guest' = [guest EXCEPT ![m].irq = FALSE]
      BY <1>0, <3>1 DEF GuestsKept, GuestKept, GuestFields
    <3>2. ASSUME NEW p, NEW c, NEW g, PinFails(m, m, p, c, g)
          PROVE  GuestsKept
      BY <1>0, <3>2 DEF PinFails, GuestsKept, GuestKept, GuestFields
    <3>3. QED
      BY <1>2, <3>1, <3>2, Zenon DEF GuestIsr
  <2>3. QED
    BY <1>2, <2>1, <2>2, Untouched, Zenon DEF GuestIsr
<1>3. ASSUME NEW p \in Procs, PutEntry(p)
      PROVE  Inv'
  <2>1. DevicesKept /\ GuestsKept
    <3>1. CASE UNCHANGED mdev
      BY <1>0, <1>3, <3>1, Zenon DEF PutEntry, DevicesKept, DevKept, GuestsKept, GuestKept
    <3>2. ASSUME NEW g, NEW b, mdev' = [mdev EXCEPT ![Vm(p)].sbuff[g] = b]
          PROVE  DevicesKept
      BY <1>0, <3>2, ProcFacts DEF DevicesKept, DevKept, DevFields
    <3>3. GuestsKept
      BY <1>0, <1>3, Zenon DEF PutEntry, GuestsKept, GuestKept
    <3>4. QED
      BY <1>3, <3>1, <3>2, <3>3, Zenon DEF PutEntry
  <2>2. QED
    BY <1>3, <2>1, Untouched, Zenon DEF PutEntry
<1>4. ASSUME NEW p \in Procs, WalkDone(p)
      PROVE  Inv'
  <2>1. DevicesKept /\ GuestsKept
    BY <1>0, <1>4, ProcFacts DEF WalkDone, DevicesKept, DevKept, GuestsKept, GuestKept, GuestFields
  <2>2. QED
    BY <1>4, <2>1, Untouched DEF WalkDone
<1>5. ASSUME NEW p \in Procs, NEW g \in Gvas, Map(p, g)
      PROVE  Inv'
  <2>1. DevicesKept
    BY <1>0, <1>5 DEF Map, DevicesKept, DevKept
  <2>2. GuestsKept
    <3>1. CASE UNCHANGED guest
      BY <1>0, <3>1, Zenon DEF GuestsKept, GuestKept
    <3>2. ASSUME NEW c, PinFails(p, Vm(p), p, c, g)
          PROVE  GuestsKept
      BY <1>0, <3>2, ProcFacts DEF PinFails, GuestsKept, GuestKept, GuestFields
    <3>3. QED
      BY <1>5, <3>1, <3>2, Zenon DEF Map
  <2>3. QED
    BY <1>5, <2>1, <2>2, Untouched DEF Map
<1>6. ASSUME NEW p \in Procs, NEW g \in Gvas, Unmap(p, g) \/ PutPages(p, g) \/ Access(p, g)
      PROVE  Inv'
  <2>1. DevicesKept /\ GuestsKept
    BY <1>0, <1>6, Zenon DEF Unmap, PutPages, Access, DevicesKept, DevKept, GuestsKept, GuestKept
  <2>2. QED
    BY <1>6, <2>1, Untouched, Zenon DEF Unmap, PutPages, Access
<1>7. ASSUME NEW a \in Actors, MapDone(a)
      PROVE  Inv'
  <2>1. VmOfActor(a) \in Mdevs
    BY ProcFacts DEF Actors, VmOfActor
  <2>2. DevicesKept
    BY <1>0, <1>7, <2>1, Zenon DEF MapDone, DevicesKept, DevKept, DevFields
  <2>3. GuestsKept
    BY <1>0, <1>7, <2>1, Zenon DEF MapDone, GuestsKept, GuestKept, GuestFields
  <2>4. QED
    BY <1>7, <2>2, <2>3, Untouched, Zenon DEF MapDone
<1>8. ASSUME NEW r \in Regions, MissIsr(r)
      PROVE  Inv'
  <2>1. DevicesKept /\ GuestsKept
    <3>1. DevicesKept
      BY <1>0, <1>8, Zenon DEF MissIsr, DevicesKept, DevKept
    <3>2. CASE UNCHANGED guest
      BY <1>0, <3>1, <3>2, Zenon DEF GuestsKept, GuestKept
    <3>3. ASSUME NEW m \in Mdevs, guest' = [guest EXCEPT ![m].irq = TRUE]
          PROVE  GuestsKept
      BY <1>0, <3>3 DEF GuestsKept, GuestKept, GuestFields
    <3> DEFINE n == vdevs[r][miss[r].cpid]
    <3>4. CASE n \in Mdevs
      <4>1. UNCHANGED guest \/ guest' = [guest EXCEPT ![n].irq = TRUE]
        BY <1>8, <3>4, Zenon DEF MissIsr
      <4>2. QED
        BY <3>1, <3>2, <3>3, <3>4, <4>1, Zenon
    <3>5. CASE n \notin Mdevs
      <4>1. UNCHANGED guest
        BY <1>8, <3>5, Zenon DEF MissIsr
      <4>2. QED
        BY <3>1, <3>2, <4>1
    <3>6. QED
      BY <3>4, <3>5
  <2>2. QED
    BY <1>8, <2>1, Untouched, Zenon DEF MissIsr
<1>9. QED
  BY <1>1, <1>2, <1>3, <1>4, <1>5, <1>6, <1>7, <1>8
(* Devices and virtual machines.                                           *)

\* What the free list and the identifiers of the devices depend on.
IdKept(m) ==
  /\ mdev'[m].state = "absent" <=> mdev[m].state = "absent"
  /\ mdev'[m].region = mdev[m].region /\ mdev'[m].id = mdev[m].id

\* A step that creates and removes no device.
LEMMA VcidKept ==
  ASSUME Vcid, UNCHANGED lists, \A m \in Mdevs : IdKept(m)
  PROVE  Vcid'
<1>1. PICK s \in Seq(Vcids) :
        /\ Linked(s)
        /\ \A m \in Mdevs : mdev[m].state # "absent" /\ Region(m) = 0 =>
             /\ \A i \in 1 .. Len(s) : s[i] # mdev[m].id
             /\ \A n \in Mdevs \ {m} : mdev[n].state # "absent" /\ Region(n) = 0 =>
                  mdev[n].id # mdev[m].id
  BY DEF Vcid
<1>2. Linked(s)'
  BY <1>1, Zenon DEF Linked, lists
<1>3. QED
  BY <1>1, <1>2 DEF Vcid, IdKept, Region, Vcids

\* A step of a virtual machine in which no process is at work, or which ends them all.

\* Of the tables only the devices of identifiers may change, from a device to freed.
LEMMA DeviceStep ==
  ASSUME Inv, NEW m \in Mdevs, UNCHANGED <<env, pids>>,
         \A n \in Mdevs \ {m} : DevKept(n) /\ GuestKept(n),
         guest'[m].up => mdev'[m].state = "open",
         \A p \in Procs : IF Vm(p) = m
                          THEN proc'[p].pc \in {"new", "gone"} /\ proc'[p].cpid = INVALID_CPID
                          ELSE proc'[p] = proc[p],
         env \cap {"hasty", "abrupt"} = {} =>
           \A p \in Procs : Vm(p) = m => proc[p].pc \in {"new", "gone"},
         \A r \in Regions, c \in Cpids :
           \/ vdevs'[r][c] = vdevs[r][c]
           \/ vdevs[r][c] = m /\ vdevs'[r][c] = "freed"
  PROVE  Running' /\ Registered' /\ InUse'
<1>1. \A p \in Procs : Vm(p) \in Mdevs /\ Vm(p)' = Vm(p) /\ Pid(p)' = Pid(p)
  BY ProcFacts, SameVm
<1>2. Running'
  BY <1>1 DEF Inv, Running, DevKept, GuestKept
<1>3. \A p \in Procs, c \in Cpids : Has(p, c)' <=> Vm(p) # m /\ Has(p, c)
  BY <1>1 DEF Has, DevKept, Cpids, INVALID_CPID
<1>4. \A p \in Procs : Vm(p) # m =>
        Region(Vm(p))' = Region(Vm(p)) /\ Epid(Vm(p), p)' = Epid(Vm(p), p)
  BY <1>1 DEF Region, Epid, DevKept
<1>5. \A p \in Procs : Region(Vm(p)) \in Regions
  BY <1>1 DEF Inv, TypeOK, DevOK, Region
<1>6. Registered'
  <2>1. \A p \in Procs : proc'[p].cpid # INVALID_CPID =>
          guest'[Vm(p)].pid_array[proc'[p].cpid] = Pid(p)
    BY <1>1 DEF Inv, Registered, GuestKept
  <2>2. \A p \in Procs, c \in Cpids : Has(p, c)' =>
          pids'[Region(Vm(p))'][c] = Epid(Vm(p), p)' /\ vdevs'[Region(Vm(p))'][c] = Vm(p)
    <3>1. SUFFICES ASSUME NEW p \in Procs, NEW c \in Cpids, Has(p, c), Vm(p) # m
                   PROVE  /\ pids[Region(Vm(p))][c] = Epid(Vm(p), p)
                          /\ vdevs'[Region(Vm(p))][c] = Vm(p)
      BY <1>3, <1>4
    <3>2. pids[Region(Vm(p))][c] = Epid(Vm(p), p) /\ vdevs[Region(Vm(p))][c] = Vm(p)
      BY <3>1 DEF Inv, Registered
    <3>3. QED
      BY <1>5, <3>1, <3>2
  <2>3. \A p, q \in Procs, c \in Cpids :
          Has(p, c)' /\ Has(q, c)' /\ Region(Vm(p))' = Region(Vm(q))' => p = q
    BY <1>3, <1>4 DEF Inv, Registered
  <2>4. QED
    BY <1>1, <2>1, <2>2, <2>3 DEF Registered, Cpids
<1>7. InUse'
  <2>1. \A r \in Regions, c \in Cpids : pids'[r][c] # NoEpid <=> vdevs'[r][c] # None
    BY HypervisorAssumption DEF Inv, InUse, None
  <2>2. ASSUME env \cap {"hasty", "abrupt"} = {},
               NEW r \in Regions, NEW c \in Cpids, vdevs'[r][c] # None
        PROVE  \E p \in Procs : Has(p, c)' /\ Region(Vm(p))' = r
    <3>1. vdevs[r][c] # None
      BY <2>2, HypervisorAssumption DEF None
    <3>2. PICK p \in Procs : Has(p, c) /\ Region(Vm(p)) = r
      BY <2>2, <3>1 DEF Inv, InUse
    <3>3. Vm(p) # m
      BY <2>2, <3>2 DEF Has, Inv, Running, Cpids, INVALID_CPID
    <3>4. QED
      BY <1>3, <1>4, <3>2, <3>3
  <2>3. QED
    BY <2>1, <2>2, Zenon DEF InUse, Cpids
<1>8. QED
  BY <1>2, <1>6, <1>7

\* No process is at work in a virtual machine whose driver is not loaded.
LEMMA Asleep ==
  ASSUME Inv, NEW m \in Mdevs, ~guest[m].up
  PROVE  \A p \in Procs : Vm(p) = m =>
           proc[p].pc \in {"new", "gone"} /\ proc[p].cpid = INVALID_CPID
  BY DEF Inv, Running

\* A device keeps its vFPGA, its identifier and its registers.
SameRegisters(m) ==
  /\ mdev'[m].region = mdev[m].region /\ mdev'[m].id = mdev[m].id
  /\ mdev'[m].current = mdev[m].current /\ mdev'[m].locked = mdev[m].locked

\* Opening a device, loading and unloading the guest's driver: no process is at work

\* before and none after.
LEMMA OpenSteps ==
  ASSUME Inv, NEW m \in Mdevs,
         VfpgaOpen(m) \/ VfpgaOpenFails(m) \/ Boot(m, Placement) \/ Unload(m)
  PROVE  Inv'
<1>0. /\ DOMAIN mdev = Mdevs /\ \A n \in Mdevs : DOMAIN mdev[n] = DevFields
      /\ DOMAIN guest = Mdevs /\ \A n \in Mdevs : DOMAIN guest[n] = GuestFields
  BY DEF Inv, TypeOK, DevOK, GuestOK
<1> DEFINE Rest ==
             /\ UNCHANGED <<env, lists, pids, vdevs, proc>>
             /\ DOMAIN mdev' = Mdevs /\ \A n \in Mdevs : DOMAIN mdev'[n] = DevFields
             /\ DOMAIN guest' = Mdevs /\ \A n \in Mdevs : DOMAIN guest'[n] = GuestFields
             /\ \A n \in Mdevs \ {m} : DevKept(n) /\ GuestKept(n)
             /\ SameRegisters(m)
             /\ guest'[m].lock \in {guest[m].lock, None}
             /\ guest'[m].pid_array \in {guest[m].pid_array, [c \in Cpids |-> 0]}
             /\ mdev[m].state # "absent" /\ mdev'[m].state \in {"open", "busy"}
             /\ guest'[m].up \in BOOLEAN
             /\ guest'[m].up => mdev'[m].state = "open"
             /\ \A p \in Procs : Vm(p) = m => proc[p].pc \in {"new", "gone"}
<1>1. ASSUME VfpgaOpen(m) \/ VfpgaOpenFails(m)
      PROVE  Rest
  <2>1. /\ mdev' = [mdev EXCEPT ![m] = mdev'[m]] /\ SameRegisters(m)
        /\ mdev'[m].state \in {"open", "busy"} /\ DOMAIN mdev'[m] = DevFields
    <3>1. CASE VfpgaOpen(m)
      BY <1>0, <3>1 DEF VfpgaOpen, SameRegisters, DevFields
    <3>2. CASE VfpgaOpenFails(m)
      BY <1>0, <3>2 DEF VfpgaOpenFails, SameRegisters, DevFields
    <3>3. QED
      BY <1>1, <3>1, <3>2
  <2>2. UNCHANGED <<env, lists, pids, vdevs, proc, guest>> /\ mdev[m].state = "idle"
    BY <1>1 DEF VfpgaOpen, VfpgaOpenFails, table
  <2>3. guest[m].up = FALSE
    BY <2>2 DEF Inv, Running, TypeOK, GuestOK
  <2>4. \A p \in Procs : Vm(p) = m => proc[p].pc \in {"new", "gone"}
    BY <2>3, Asleep
  <2>5. QED
    BY <1>0, <2>1, <2>2, <2>3, <2>4, Zenon DEF DevKept, GuestKept
<1>2. ASSUME Boot(m, Placement)
      PROVE  Rest
  <2>1. /\ mdev' = [mdev EXCEPT ![m] = mdev'[m]] /\ SameRegisters(m)
        /\ mdev'[m].state = mdev[m].state /\ DOMAIN mdev'[m] = DevFields
    BY <1>0, <1>2 DEF Boot, Trigger, SameRegisters, DevFields
  <2>2. /\ guest' = [guest EXCEPT ![m] = guest'[m]] /\ DOMAIN guest'[m] = GuestFields
        /\ guest'[m].up = TRUE /\ guest'[m].lock = None
        /\ guest'[m].pid_array = [c \in Cpids |-> 0]
    BY <1>0, <1>2, Zenon DEF Boot, GuestFields
  <2>3. UNCHANGED <<env, lists, pids, vdevs, proc>> /\ mdev[m].state = "open" /\ ~guest[m].up
    BY <1>2 DEF Boot, table
  <2>4. \A p \in Procs : Vm(p) = m => proc[p].pc \in {"new", "gone"}
    BY <2>3, Asleep
  <2>5. QED
    BY <1>0, <2>1, <2>2, <2>3, <2>4, Zenon DEF DevKept, GuestKept
<1>3. ASSUME Unload(m)
      PROVE  Rest
  <2>1. /\ mdev' = [mdev EXCEPT ![m] = mdev'[m]] /\ SameRegisters(m)
        /\ mdev'[m].state = mdev[m].state /\ DOMAIN mdev'[m] = DevFields
    BY <1>0, <1>3 DEF Unload, Unset, SameRegisters, DevFields
  <2>2. /\ guest' = [guest EXCEPT ![m] = guest'[m]] /\ DOMAIN guest'[m] = GuestFields
        /\ guest'[m].up = FALSE /\ guest'[m].lock = guest[m].lock
        /\ guest'[m].pid_array = guest[m].pid_array
    BY <1>0, <1>3, Zenon DEF Unload, GuestFields
  <2>3. /\ UNCHANGED <<env, lists, pids, vdevs, proc>> /\ guest[m].up
        /\ \A p \in Procs : Vm(p) = m => proc[p].pc \in {"new", "gone"}
    BY <1>3 DEF Unload, table, VmProcs
  <2>4. mdev[m].state = "open"
    BY <2>3 DEF Inv, Running
  <2>5. QED
    BY <1>0, <2>1, <2>2, <2>3, <2>4, Zenon DEF DevKept, GuestKept
<1>4. Rest
  BY <1>1, <1>2, <1>3
<1> HIDE DEF Rest
<1>5. TypeOK'
  <2>1. \A n \in Mdevs : DevOK(n)'
    BY <1>4 DEF Rest, SameRegisters, DevKept, Inv, TypeOK, DevOK, Cpids, Vcids
  <2>2. \A n \in Mdevs : GuestOK(n)'
    BY <1>4 DEF Rest, GuestKept, Inv, TypeOK, GuestOK, Cpids
  <2>3. QED
    BY <1>4, <2>1, <2>2 DEF Rest, Inv, TypeOK, lists, Cpids, Vcids
<1>6. Running' /\ Registered' /\ InUse'
  <2>1. \A p \in Procs : Vm(p) = m => proc[p].cpid = INVALID_CPID
    BY <1>4 DEF Rest, Inv, Running
  <2>2. QED
    BY <1>4, <2>1, DeviceStep DEF Rest
<1>7. Vcid'
  <2>1. \A n \in Mdevs : IdKept(n)
    BY <1>4 DEF Rest, IdKept, DevKept, SameRegisters
  <2>2. QED
    BY <1>4, <2>1, VcidKept DEF Rest, Inv
<1>8. QED
  BY <1>5, <1>6, <1>7 DEF Inv

\* The end of a virtual machine ends its processes.
LEMMA CloseStep ==
  ASSUME Inv, NEW m \in Mdevs, VfpgaClose(m)
  PROVE  Inv'
<1>0. /\ DOMAIN mdev = Mdevs /\ \A n \in Mdevs : DOMAIN mdev[n] = DevFields
      /\ DOMAIN guest = Mdevs /\ \A n \in Mdevs : DOMAIN guest[n] = GuestFields
  BY DEF Inv, TypeOK, DevOK, GuestOK
<1>1. /\ mdev' = [mdev EXCEPT ![m] = mdev'[m]] /\ SameRegisters(m)
      /\ mdev'[m].state = "idle" /\ mdev[m].state = "open" /\ DOMAIN mdev'[m] = DevFields
  BY <1>0, Zenon DEF VfpgaClose, Unset, SameRegisters, DevFields
<1>2. guest' = [guest EXCEPT ![m] = NoGuest]
  BY Zenon DEF VfpgaClose
<1>3. /\ UNCHANGED <<env, lists, pids, vdevs>>
      /\ "abrupt" \in env \/ \A p \in Procs : Vm(p) = m => proc[p].pc \in {"new", "gone"}
      /\ proc' = [p \in Procs |-> IF Vm(p) = m /\ proc[p].pc # "new"
                                  THEN [proc[p] EXCEPT !.pc = "gone", !.cpid = INVALID_CPID]
                                  ELSE proc[p]]
  BY Zenon DEF VfpgaClose, VmProcs, table
<1>4. \A n \in Mdevs \ {m} : DevKept(n) /\ GuestKept(n)
  BY <1>0, <1>1, <1>2 DEF DevKept, GuestKept
<1>5. TypeOK'
  <2>1. \A n \in Mdevs : DevOK(n)'
    BY <1>0, <1>1 DEF SameRegisters, Inv, TypeOK, DevOK, Cpids, Vcids
  <2>2. \A n \in Mdevs : GuestOK(n)'
    BY <1>0, <1>2, Zenon DEF NoGuest, GuestFields, Inv, TypeOK, GuestOK, Cpids
  <2>3. proc' \in [Procs -> [pc : {"new", "write", "locked", "read", "in", "gone"},
                             cpid : Cpids \cup {INVALID_CPID},
                             last : Cpids \cup {INVALID_CPID}]]
    BY <1>3, Zenon DEF Inv, TypeOK
  <2>4. QED
    BY <1>0, <1>1, <1>2, <1>3, <2>1, <2>2, <2>3, Zenon DEF Inv, TypeOK, lists, Cpids, Vcids
<1>6. Running' /\ Registered' /\ InUse'
  <2>1. ASSUME NEW p \in Procs
        PROVE  IF Vm(p) = m
               THEN proc'[p].pc \in {"new", "gone"} /\ proc'[p].cpid = INVALID_CPID
               ELSE proc'[p] = proc[p]
    <3>1. DOMAIN proc[p] = {"pc", "cpid", "last"}
      BY DEF Inv, TypeOK
    <3>2. proc[p].pc = "new" => proc[p].cpid = INVALID_CPID
      BY DEF Inv, Running
    <3>3. QED
      BY <1>3, <3>1, <3>2, Zenon
  <2>2. ~guest'[m].up
    BY <1>0, <1>2 DEF NoGuest
  <2>3. QED
    BY <1>3, <1>4, <2>1, <2>2, DeviceStep, Zenon
<1>7. Vcid'
  <2>1. \A n \in Mdevs : IdKept(n)
    BY <1>1, <1>4 DEF IdKept, DevKept, SameRegisters
  <2>2. QED
    BY <1>3, <2>1, VcidKept, Zenon DEF Inv
<1>8. QED
  BY <1>5, <1>6, <1>7 DEF Inv

\* Only the empty sequence has no elements.
LEMMA EmptySeq ==
  ASSUME NEW S, NEW t \in Seq(S)
  PROVE  t = << >> <=> Len(t) = 0
OBVIOUS

\* t is what is left of the list s when its first chunk h is taken.
Popped(h, f, s, t) ==
  /\ h[2] \in Vcids /\ t \in Seq(Vcids) /\ ListOf(f[h], f, t)
  /\ \E i \in 1 .. Len(s) : h[2] = s[i]
  /\ \A j \in 1 .. Len(t) : t[j] # h[2] /\ \E i \in 1 .. Len(s) : t[j] = s[i]

\* Taking the first chunk from the list ...
LEMMA PopList ==
  ASSUME NEW h, NEW f, NEW s \in Seq(Vcids), ListOf(h, f, s), h # NoChunk
  PROVE  Popped(h, f, s, Tail(s))
<1>1. s # << >> /\ h = <<0, s[1]>> /\ Len(s) \in Nat \ {0}
  BY DEF ListOf
<1>2. PICK t : t = Tail(s)
  BY Zenon
<1>3. /\ t \in Seq(Vcids) /\ Len(t) = Len(s) - 1 /\ (t = << >> <=> Len(s) = 1)
      /\ \A j \in 1 .. Len(t) : t[j] = s[j + 1]
  <2>1. t \in Seq(Vcids) /\ Len(t) = Len(s) - 1
    BY <1>1, <1>2
  <2>2. t = << >> <=> Len(t) = 0
    BY <2>1, EmptySeq, Zenon
  <2>3. \A j \in 1 .. Len(t) : t[j] = s[j + 1]
    BY <1>1, <1>2, <2>1
  <2>4. QED
    BY <1>1, <2>1, <2>2, <2>3
<1>4. /\ \A i \in 1 .. Len(s) :
           f[<<0, s[i]>>] = IF i = Len(s) THEN NoChunk ELSE <<0, s[i + 1]>>
      /\ \A i, j \in 1 .. Len(s) : s[i] = s[j] => i = j
  BY DEF ListOf
<1>5. f[h] = IF t = << >> THEN NoChunk ELSE <<0, t[1]>>
  <2>1. f[h] = IF 1 = Len(s) THEN NoChunk ELSE <<0, s[2]>>
    <3>1. 1 \in 1 .. Len(s) /\ 1 + 1 = 2
      BY <1>1
    <3>2. f[<<0, s[1]>>] = IF 1 = Len(s) THEN NoChunk ELSE <<0, s[1 + 1]>>
      BY <1>4, <3>1, Zenon
    <3>3. QED
      BY <1>1, <3>1, <3>2
  <2>2. CASE Len(s) = 1
    BY <1>3, <2>1, <2>2
  <2>3. CASE Len(s) # 1
    <3>1. 1 \in 1 .. Len(t)
      BY <1>1, <1>3, <2>3
    <3>2. t[1] = s[2]
      BY <1>3, <3>1
    <3>3. QED
      BY <1>3, <2>1, <2>3, <3>2
  <2>4. QED
    BY <2>2, <2>3
<1>6. ASSUME NEW i \in 1 .. Len(t)
      PROVE  f[<<0, t[i]>>] = IF i = Len(t) THEN NoChunk ELSE <<0, t[i + 1]>>
  <2>1. i + 1 \in 1 .. Len(s) /\ t[i] = s[i + 1] /\ (i = Len(t) <=> i + 1 = Len(s))
    BY <1>1, <1>3
  <2>2. f[<<0, t[i]>>] = IF i + 1 = Len(s) THEN NoChunk ELSE <<0, s[(i + 1) + 1]>>
    BY <1>4, <2>1
  <2>3. CASE i # Len(t)
    <3>1. i + 1 \in 1 .. Len(t)
      BY <1>1, <1>3, <2>3
    <3>2. t[i + 1] = s[(i + 1) + 1]
      BY <1>3, <3>1
    <3>3. QED
      BY <2>1, <2>2, <2>3, <3>2
  <2>4. QED
    BY <2>1, <2>2, <2>3
<1>7. ASSUME NEW i \in 1 .. Len(t), NEW j \in 1 .. Len(t), t[i] = t[j]
      PROVE  i = j
  <2>1. i + 1 \in 1 .. Len(s) /\ j + 1 \in 1 .. Len(s) /\ s[i + 1] = s[j + 1]
    BY <1>1, <1>3, <1>7
  <2>2. i + 1 = j + 1
    BY <1>4, <2>1
  <2>3. QED
    BY <2>2
<1>8. \A j \in 1 .. Len(t) : t[j] # s[1] /\ \E i \in 1 .. Len(s) : t[j] = s[i]
  <2>1. SUFFICES ASSUME NEW j \in 1 .. Len(t)
                 PROVE  t[j] # s[1] /\ \E i \in 1 .. Len(s) : t[j] = s[i]
    OBVIOUS
  <2>2. j + 1 \in 1 .. Len(s) /\ 1 \in 1 .. Len(s) /\ j + 1 # 1 /\ t[j] = s[j + 1]
    BY <1>1, <1>3
  <2>3. QED
    BY <1>4, <2>2
<1>9. ListOf(f[h], f, t)
  BY <1>5, <1>6, <1>7, Zenon DEF ListOf
<1>10. h[2] = s[1] /\ 1 \in 1 .. Len(s) /\ s[1] \in Vcids
  BY <1>1
<1>11. QED
  BY <1>2, <1>3, <1>8, <1>9, <1>10, Zenon DEF Popped

\* The links g come from f by putting the chunk v before the list s that begins at h.
Pushed(g, v, h, f, s) ==
  /\ \A i \in 1 .. Len(s) : s[i] # v /\ g[<<0, s[i]>>] = f[<<0, s[i]>>]
  /\ g[<<0, v>>] = h

\* The links g begin with v and go on with chunks of s.
ListOver(g, v, s) ==
  \E t \in Seq(Vcids) :
    /\ ListOf(<<0, v>>, g, t)
    /\ \A j \in 1 .. Len(t) : t[j] = v \/ \E i \in 1 .. Len(s) : t[j] = s[i]

\* ... and putting one back.
LEMMA PushList ==
  ASSUME NEW h, NEW f, NEW s \in Seq(Vcids), ListOf(h, f, s),
         NEW v \in Vcids, NEW g, Pushed(g, v, h, f, s)
  PROVE  ListOver(g, v, s)
<1>0. /\ \A i \in 1 .. Len(s) : s[i] # v /\ g[<<0, s[i]>>] = f[<<0, s[i]>>]
      /\ g[<<0, v>>] = h
  BY DEF Pushed
<1>1. PICK t : t = <<v>> \o s
  BY Zenon
<1>2. /\ t \in Seq(Vcids) /\ Len(t) = Len(s) + 1 /\ t[1] = v /\ t # << >>
      /\ \A j \in 1 .. Len(s) : t[j + 1] = s[j]
  BY <1>1
<1>3. /\ h = IF s = << >> THEN NoChunk ELSE <<0, s[1]>>
      /\ \A i \in 1 .. Len(s) :
           f[<<0, s[i]>>] = IF i = Len(s) THEN NoChunk ELSE <<0, s[i + 1]>>
      /\ \A i, j \in 1 .. Len(s) : s[i] = s[j] => i = j
  BY DEF ListOf
<1>4. /\ Len(s) \in Nat /\ (s = << >> <=> Len(s) = 0)
      /\ \A j \in 1 .. Len(t) : j # 1 => \E i \in 1 .. Len(s) : j = i + 1 /\ t[j] = s[i]
  <2>1. Len(s) \in Nat /\ (s = << >> <=> Len(s) = 0)
    OBVIOUS
  <2>2. ASSUME NEW j \in 1 .. Len(t), j # 1
        PROVE  \E i \in 1 .. Len(s) : j = i + 1 /\ t[j] = s[i]
    <3>1. j - 1 \in 1 .. Len(s) /\ j = (j - 1) + 1
      BY <1>2, <2>1, <2>2
    <3>2. t[(j - 1) + 1] = s[j - 1]
      BY <1>2, <3>1
    <3>3. QED
      BY <3>1, <3>2
  <2>3. QED
    BY <2>1, <2>2
<1>5. ASSUME NEW j \in 1 .. Len(t)
      PROVE  g[<<0, t[j]>>] = IF j = Len(t) THEN NoChunk ELSE <<0, t[j + 1]>>
  <2>1. CASE j = 1
    <3>1. CASE Len(s) = 0
      BY <1>0, <1>2, <1>3, <1>4, <2>1, <3>1
    <3>2. CASE Len(s) # 0
      <4>1. 1 \in 1 .. Len(s) /\ 1 # Len(t)
        BY <1>2, <1>4, <3>2
      <4>2. t[1 + 1] = s[1]
        BY <1>2, <4>1
      <4>3. g[<<0, v>>] = <<0, s[1]>>
        BY <1>0, <1>3, <1>4, <3>2
      <4>4. QED
        BY <1>2, <2>1, <4>1, <4>2, <4>3, Zenon
    <3>3. QED
      BY <3>1, <3>2
  <2>2. CASE j # 1
    <3>1. PICK i \in 1 .. Len(s) : j = i + 1 /\ t[j] = s[i]
      BY <1>4, <2>2
    <3>2. g[<<0, t[j]>>] = IF i = Len(s) THEN NoChunk ELSE <<0, s[i + 1]>>
      BY <1>0, <1>3, <3>1
    <3>3. i = Len(s) <=> j = Len(t)
      BY <1>2, <1>4, <3>1
    <3>4. i # Len(s) => t[j + 1] = s[i + 1]
      <4>1. i # Len(s) => i + 1 \in 1 .. Len(s)
        BY <1>4
      <4>2. QED
        BY <1>2, <3>1, <4>1
    <3>5. QED
      BY <3>2, <3>3, <3>4
  <2>3. QED
    BY <2>1, <2>2
<1>6. ASSUME NEW i \in 1 .. Len(t), NEW j \in 1 .. Len(t), t[i] = t[j]
      PROVE  i = j
  <2>1. \A k \in 1 .. Len(t) : k # 1 => t[k] # v
    BY <1>0, <1>4
  <2>2. CASE i = 1 \/ j = 1
    BY <1>2, <1>6, <2>1, <2>2
  <2>3. CASE i # 1 /\ j # 1
    <3>1. PICK k \in 1 .. Len(s) : i = k + 1 /\ t[i] = s[k]
      BY <1>4, <2>3
    <3>2. PICK l \in 1 .. Len(s) : j = l + 1 /\ t[j] = s[l]
      BY <1>4, <2>3
    <3>3. k = l
      BY <1>3, <1>6, <3>1, <3>2
    <3>4. QED
      BY <3>1, <3>2, <3>3
  <2>4. QED
    BY <2>2, <2>3
<1>7. ListOf(<<0, v>>, g, t)
  BY <1>2, <1>5, <1>6, Zenon DEF ListOf
<1>8. \A j \in 1 .. Len(t) : t[j] = v \/ \E i \in 1 .. Len(s) : t[j] = s[i]
  BY <1>2, <1>4
<1>9. QED
  BY <1>2, <1>7, <1>8, Zenon DEF ListOver

\* A new device takes the first free identifier of its vFPGA.
LEMMA CreateStep ==
  ASSUME Inv, NEW m \in Mdevs, NEW r \in Regions, VfpgaCreate(m, r)
  PROVE  Inv'
<1>0. /\ DOMAIN mdev = Mdevs /\ \A n \in Mdevs : DOMAIN mdev[n] = DevFields
      /\ DOMAIN guest = Mdevs /\ \A n \in Mdevs : DOMAIN guest[n] = GuestFields
  BY DEF Inv, TypeOK, DevOK, GuestOK
<1>1. /\ mdev[m].state = "absent" /\ UNCHANGED <<env, chunk_next, pids, vdevs, guest, proc>>
      /\ IF vcid_alloc[r] = NoChunk
         THEN UNCHANGED <<mdev, vcid_alloc>>
         ELSE /\ mdev' = [mdev EXCEPT ![m] = [Absent EXCEPT !.state = "idle", !.region = r,
                                                            !.id = vcid_alloc[r][2]]]
              /\ vcid_alloc' = [vcid_alloc EXCEPT ![r] = chunk_next[vcid_alloc[r]]]
  BY DEF VfpgaCreate, NextVcid, table
<1>2. CASE vcid_alloc[r] = NoChunk
  <2>1. DevicesKept /\ GuestsKept
    BY <1>0, <1>1, <1>2 DEF DevicesKept, DevKept, GuestsKept, GuestKept
  <2>2. QED
    BY <1>1, <1>2, <2>1, Untouched DEF lists
<1>3. CASE vcid_alloc[r] # NoChunk
  <2>1. vcid_alloc[r] \in Chunks /\ vcid_alloc[r][2] \in Vcids /\ DOMAIN vcid_alloc = Regions
    BY <1>3 DEF Inv, TypeOK, Chunks, Vcids
  <2>2. /\ mdev' = [mdev EXCEPT ![m] = mdev'[m]] /\ DOMAIN mdev'[m] = DevFields
        /\ mdev'[m].state = "idle" /\ mdev'[m].region = r /\ mdev'[m].id = vcid_alloc[r][2]
        /\ mdev'[m].current = INVALID_CPID /\ mdev'[m].locked = FALSE
    <3>1. /\ mdev' = [mdev EXCEPT ![m] = mdev'[m]]
          /\ mdev'[m] = [Absent EXCEPT !.state = "idle", !.region = r, !.id = vcid_alloc[r][2]]
      BY <1>0, <1>1, <1>3
    <3>2. QED
      BY <3>1 DEF Absent, DevFields
  <2>3. \A n \in Mdevs \ {m} : DevKept(n) /\ GuestKept(n)
    BY <1>0, <1>1, <2>2 DEF DevKept, GuestKept
  <2>4. TypeOK'
    <3>1. \A n \in Mdevs : DevOK(n)'
      BY <1>0, <2>1, <2>2, Zenon DEF Inv, TypeOK, DevOK, Cpids, Vcids
    <3>2. \A n \in Mdevs : GuestOK(n)'
      BY <1>1 DEF Inv, TypeOK, GuestOK, Cpids
    <3>3. vcid_alloc' \in [Regions -> Chunks \cup {NoChunk}]
      BY <1>1, <1>3, <2>1, Zenon DEF Inv, TypeOK
    <3>4. QED
      BY <1>0, <1>1, <2>2, <3>1, <3>2, <3>3 DEF Inv, TypeOK, Cpids, Vcids, Chunks, NoChunk
  <2>5. Running' /\ Registered' /\ InUse'
    <3>1. ~guest[m].up
      BY <1>1 DEF Inv, Running
    <3>2. \A p \in Procs : Vm(p) = m =>
            proc[p].pc \in {"new", "gone"} /\ proc[p].cpid = INVALID_CPID
      BY <3>1, Asleep
    <3>3. QED
      BY <1>1, <2>3, <3>1, <3>2, DeviceStep
  <2>6. Vcid'
    <3>1. /\ chunk_next' = chunk_next
          /\ vcid_alloc'[0] = IF r = 0 THEN chunk_next[vcid_alloc[0]] ELSE vcid_alloc[0]
      BY <1>1, <1>3, <2>1, HypervisorAssumption
    <3>2. \A n \in Mdevs : n # m => mdev'[n] = mdev[n]
      BY <1>0, <2>2
    <3>3. PICK s \in Seq(Vcids) :
            /\ Linked(s)
            /\ \A n \in Mdevs : mdev[n].state # "absent" /\ Region(n) = 0 =>
                 /\ \A i \in 1 .. Len(s) : s[i] # mdev[n].id
                 /\ \A o \in Mdevs \ {n} : mdev[o].state # "absent" /\ Region(o) = 0 =>
                      mdev[o].id # mdev[n].id
      BY DEF Inv, Vcid
    <3>4. CASE r = 0
      <4> DEFINE v == vcid_alloc[0]
      <4>1. PICK t : t = Tail(s)
        BY Zenon
      <4>2. Popped(v, chunk_next, s, t)
        BY <1>3, <3>3, <3>4, <4>1, PopList, Zenon DEF Linked
      <4>3. Linked(t)'
        BY <3>1, <3>4, <4>2, Zenon DEF Linked, Popped
      <4>4. /\ t \in Seq(Vcids) /\ \E i \in 1 .. Len(s) : v[2] = s[i]
            /\ \A j \in 1 .. Len(t) : t[j] # v[2] /\ \E i \in 1 .. Len(s) : t[j] = s[i]
        BY <4>2, Zenon DEF Popped
      <4>5. \A n \in Mdevs : mdev'[n].state # "absent" /\ mdev'[n].region = 0 =>
              /\ \A i \in 1 .. Len(t) : t[i] # mdev'[n].id
              /\ \A o \in Mdevs \ {n} : mdev'[o].state # "absent" /\ mdev'[o].region = 0 =>
                   mdev'[o].id # mdev'[n].id
        <5> HIDE DEF v
        <5>1. mdev'[m].id = v[2]
          BY <2>2, <3>4 DEF v
        <5>2. \A n \in Mdevs : n # m /\ mdev'[n].state # "absent" /\ mdev'[n].region = 0 =>
                \A i \in 1 .. Len(s) : s[i] # mdev'[n].id
          BY <3>2, <3>3, Zenon DEF Region
        <5>3. \A n \in Mdevs : n # m /\ mdev'[n].state # "absent" /\ mdev'[n].region = 0 =>
                mdev'[n].id # v[2] /\ \A i \in 1 .. Len(t) : t[i] # mdev'[n].id
          BY <4>4, <5>2
        <5>4. \A n, o \in Mdevs : n # m /\ o # m /\ n # o
                /\ mdev'[n].state # "absent" /\ mdev'[n].region = 0
                /\ mdev'[o].state # "absent" /\ mdev'[o].region = 0 => mdev'[o].id # mdev'[n].id
          BY <3>2, <3>3, Zenon DEF Region
        <5>5. QED
          BY <4>4, <5>1, <5>3, <5>4
      <4>6. QED
        BY <4>3, <4>4, <4>5, Zenon DEF Vcid, Region, Vcids
    <3>5. CASE r # 0
      <4>1. Linked(s)'
        BY <3>1, <3>3, <3>5, Zenon DEF Linked
      <4>2. QED
        BY <2>2, <3>2, <3>3, <3>5, <4>1 DEF Vcid, Region, Vcids
    <3>6. QED
      BY <3>4, <3>5
  <2>7. QED
    BY <2>4, <2>5, <2>6, Zenon DEF Inv
<1>4. QED
  BY <1>2, <1>3

\* A removed device gives its identifier back; thread identifiers that still point to
\* it become identifiers of a freed device.
LEMMA RemoveStep ==
  ASSUME Inv, NEW m \in Mdevs, VfpgaRemove(m)
  PROVE  Inv'
<1>0. /\ DOMAIN mdev = Mdevs /\ \A n \in Mdevs : DOMAIN mdev[n] = DevFields
      /\ DOMAIN guest = Mdevs /\ \A n \in Mdevs : DOMAIN guest[n] = GuestFields
  BY DEF Inv, TypeOK, DevOK, GuestOK
<1>1. PICK r, v : r = Region(m) /\ v = mdev[m].id
  OBVIOUS
<1>2. /\ mdev[m].state \in {"idle", "busy"} /\ UNCHANGED <<env, pids, guest, proc>>
      /\ chunk_next' = [chunk_next EXCEPT ![<<r, v>>] = vcid_alloc[r]]
      /\ vcid_alloc' = [vcid_alloc EXCEPT ![r] = <<r, v>>]
      /\ vdevs' = [vdevs EXCEPT ![r] = [k \in Cpids |-> IF @[k] = m THEN "freed" ELSE @[k]]]
      /\ mdev' = [mdev EXCEPT ![m] = Absent]
  BY <1>1 DEF VfpgaRemove
<1>3. /\ r \in Regions /\ v \in Vcids /\ <<r, v>> \in Chunks
      /\ DOMAIN vcid_alloc = Regions /\ DOMAIN chunk_next = Chunks
  BY <1>1 DEF Inv, TypeOK, DevOK, Region, Chunks, Vcids
<1>4. /\ mdev'[m].state = "absent" /\ DOMAIN mdev'[m] = DevFields
      /\ mdev'[m].region = 0 /\ mdev'[m].id = 0
      /\ mdev'[m].current = INVALID_CPID /\ mdev'[m].locked = FALSE
  <2>1. mdev'[m] = Absent
    BY <1>0, <1>2
  <2>2. QED
    BY <2>1 DEF Absent, DevFields
<1>5. \A n \in Mdevs : n # m => mdev'[n] = mdev[n]
  BY <1>0, <1>2
<1>6. \A n \in Mdevs \ {m} : DevKept(n) /\ GuestKept(n)
  BY <1>2, <1>5 DEF DevKept, GuestKept
<1>7. TypeOK'
  <2>1. \A n \in Mdevs : DevOK(n)'
    <3>1. 0 \in Regions /\ 0 \in Vcids
      BY HypervisorAssumption DEF Vcids
    <3>2. DevOK(m)'
      BY <1>4, <3>1, Zenon DEF DevOK, Cpids, Vcids
    <3>3. \A n \in Mdevs : n # m => DevOK(n)'
      BY <1>5 DEF Inv, TypeOK, DevOK, Cpids, Vcids
    <3>4. QED
      BY <3>2, <3>3
  <2>2. \A n \in Mdevs : GuestOK(n)'
    BY <1>2 DEF Inv, TypeOK, GuestOK, Cpids
  <2>3. /\ vcid_alloc' \in [Regions -> Chunks \cup {NoChunk}]
        /\ chunk_next' \in [Chunks -> Chunks \cup {NoChunk}]
    BY <1>2, <1>3 DEF Inv, TypeOK
  <2>4. vdevs' \in [Regions -> [Cpids -> Mdevs \cup {None, "freed"}]]
    BY <1>2, <1>3 DEF Inv, TypeOK
  <2>5. QED
    BY <1>0, <1>2, <2>1, <2>2, <2>3, <2>4 DEF Inv, TypeOK, Cpids, Vcids, Chunks, NoChunk
<1>8. Running' /\ Registered' /\ InUse'
  <2>1. ~guest[m].up
    BY <1>2 DEF Inv, Running
  <2>2. \A p \in Procs : Vm(p) = m =>
          proc[p].pc \in {"new", "gone"} /\ proc[p].cpid = INVALID_CPID
    BY <2>1, Asleep
  <2>3. \A q \in Regions, c \in Cpids :
          \/ vdevs'[q][c] = vdevs[q][c]
          \/ vdevs[q][c] = m /\ vdevs'[q][c] = "freed"
    BY <1>2, <1>3 DEF Inv, TypeOK
  <2>4. QED
    BY <1>2, <1>6, <2>1, <2>2, <2>3, DeviceStep, Zenon
<1>9. Vcid'
  <2>1. PICK s \in Seq(Vcids) :
          /\ Linked(s)
          /\ \A n \in Mdevs : mdev[n].state # "absent" /\ Region(n) = 0 =>
               /\ \A i \in 1 .. Len(s) : s[i] # mdev[n].id
               /\ \A o \in Mdevs \ {n} : mdev[o].state # "absent" /\ Region(o) = 0 =>
                    mdev[o].id # mdev[n].id
    BY DEF Inv, Vcid
  <2>2. \A i \in 1 .. Len(s) : s[i] \in Vcids
    OBVIOUS
  <2>3. CASE r = 0
    <3>1. \A i \in 1 .. Len(s) : s[i] # v
      BY <1>1, <1>2, <2>1, <2>3, Zenon
    <3>2. chunk_next'[<<0, v>>] = vcid_alloc[0] /\ vcid_alloc'[0] = <<0, v>>
      BY <1>2, <1>3, <2>3
    <3>3. \A i \in 1 .. Len(s) : chunk_next'[<<0, s[i]>>] = chunk_next[<<0, s[i]>>]
      BY <1>2, <1>3, <2>2, <2>3, <3>1 DEF Chunks, Vcids
    <3>4. PICK t \in Seq(Vcids) :
            /\ ListOf(<<0, v>>, chunk_next', t)
            /\ \A j \in 1 .. Len(t) : t[j] = v \/ \E i \in 1 .. Len(s) : t[j] = s[i]
      <4>1. PICK h, f, g : h = vcid_alloc[0] /\ f = chunk_next /\ g = chunk_next'
        OBVIOUS
      <4>2. ListOf(h, f, s) /\ Pushed(g, v, h, f, s)
        BY <2>1, <3>1, <3>2, <3>3, <4>1, Zenon DEF Linked, Pushed
      <4>3. ListOver(g, v, s)
        BY <1>3, <4>2, PushList, Zenon
      <4>4. QED
        BY <4>1, <4>3, Zenon DEF ListOver
    <3>5. Linked(t)'
      BY <3>2, <3>4, Zenon DEF Linked
    <3>6. \A n \in Mdevs : mdev'[n].state # "absent" /\ mdev'[n].region = 0 =>
            /\ \A i \in 1 .. Len(t) : t[i] # mdev'[n].id
            /\ \A o \in Mdevs \ {n} : mdev'[o].state # "absent" /\ mdev'[o].region = 0 =>
                 mdev'[o].id # mdev'[n].id
      <4>1. \A n \in Mdevs : mdev'[n].state # "absent" => n # m /\ mdev'[n] = mdev[n]
        BY <1>4, <1>5
      <4>2. \A n \in Mdevs : mdev'[n].state # "absent" /\ mdev'[n].region = 0 =>
              mdev'[n].id # v /\ \A i \in 1 .. Len(s) : s[i] # mdev'[n].id
        <5>1. mdev[m].state # "absent" /\ Region(m) = 0
          BY <1>1, <1>2, <2>3
        <5>2. \A n \in Mdevs : mdev[n].state # "absent" /\ Region(n) = 0 /\ n # m =>
                mdev[n].id # v /\ \A i \in 1 .. Len(s) : s[i] # mdev[n].id
          BY <1>1, <2>1, <5>1, Zenon
        <5>3. QED
          BY <4>1, <5>2, Zenon DEF Region
      <4>3. \A n, o \in Mdevs : n # o
              /\ mdev'[n].state # "absent" /\ mdev'[n].region = 0
              /\ mdev'[o].state # "absent" /\ mdev'[o].region = 0 => mdev'[o].id # mdev'[n].id
        BY <2>1, <4>1 DEF Region
      <4>4. QED
        BY <3>4, <4>2, <4>3
    <3>7. QED
      BY <3>5, <3>6, Zenon DEF Vcid, Region, Vcids
  <2>4. CASE r # 0
    <3>1. vcid_alloc'[0] = vcid_alloc[0]
      BY <1>2, <1>3, <2>4, HypervisorAssumption
    <3>2. \A i \in 1 .. Len(s) : chunk_next'[<<0, s[i]>>] = chunk_next[<<0, s[i]>>]
      BY <1>2, <1>3, <2>2, <2>4, HypervisorAssumption DEF Chunks, Vcids
    <3>3. Linked(s)'
      BY <2>1, <3>1, <3>2 DEF Linked, ListOf, NoChunk
    <3>4. QED
      BY <1>4, <1>5, <2>1, <3>3 DEF Vcid, Region, Vcids
  <2>5. QED
    BY <2>3, <2>4
<1>10. QED
  BY <1>7, <1>8, <1>9, Zenon DEF Inv
(* Registration.                                                           *)

\* The record of a process.
ProcOK(x) ==
  x \in [pc : {"new", "write", "locked", "read", "in", "gone"},
         cpid : Cpids \cup {INVALID_CPID}, last : Cpids \cup {INVALID_CPID}]

\* A step of process p.
LEMMA ProcTypes ==
  ASSUME Inv, NEW p \in Procs, UNCHANGED lists, DOMAIN mdev' = Mdevs, DOMAIN guest' = Mdevs,
         \A m \in Mdevs : DevOK(m)' /\ GuestOK(m)',
         pids' \in [Regions -> [Cpids -> Nat]],
         vdevs' \in [Regions -> [Cpids -> Mdevs \cup {None, "freed"}]],
         proc' = [proc EXCEPT ![p] = proc'[p]], ProcOK(proc'[p])
  PROVE  TypeOK'
<1>1. \A q \in Procs : ProcOK(proc[q])
  BY DEF Inv, TypeOK, ProcOK
<1>2. proc' \in [Procs -> [pc : {"new", "write", "locked", "read", "in", "gone"},
                           cpid : Cpids \cup {INVALID_CPID}, last : Cpids \cup {INVALID_CPID}]]
  BY <1>1, Zenon DEF Inv, TypeOK, ProcOK
<1>3. QED
  BY <1>2 DEF Inv, TypeOK, lists, Vcids, Cpids, Chunks, NoChunk

\* The process that holds the guest's lock is the only one there that registers.
LEMMA OneRegisters ==
  ASSUME Inv, NEW p \in Procs, guest[Vm(p)].lock \in {p, None}
  PROVE  \A q \in Procs : Vm(q) = Vm(p) /\ q # p => proc[q].pc \notin {"write", "locked", "read"}
  BY HypervisorAssumption DEF Inv, Running

\* A step after which no process has an identifier that it did not have: the tables of

\* the host stay as they are.
LEMMA TablesKept ==
  ASSUME Inv, UNCHANGED <<env, pids, vdevs>>, \A m \in Mdevs : IdKept(m),
         \A p \in Procs, c \in Cpids : Has(p, c)' => Has(p, c),
         env \cap {"hasty", "abrupt"} = {} =>
           \A p \in Procs, c \in Cpids : Has(p, c) => Has(p, c)',
         \A p \in Procs : proc'[p].cpid # INVALID_CPID =>
           guest'[Vm(p)].pid_array[proc'[p].cpid] = Pid(p)
  PROVE  Registered' /\ InUse'
<1>1. \A p \in Procs : Vm(p) \in Mdevs /\ Vm(p)' = Vm(p) /\ Pid(p)' = Pid(p)
  BY ProcFacts, SameVm
<1>2. \A p \in Procs : Region(Vm(p))' = Region(Vm(p)) /\ Epid(Vm(p), p)' = Epid(Vm(p), p)
  BY <1>1 DEF Region, Epid, IdKept
<1>3. Registered'
  BY <1>1, <1>2, Zenon DEF Inv, Registered, Cpids
<1>4. InUse'
  <2>1. \A r \in Regions, c \in Cpids : pids'[r][c] # NoEpid <=> vdevs'[r][c] # None
    BY Zenon DEF Inv, InUse
  <2>2. ASSUME env \cap {"hasty", "abrupt"} = {},
               NEW r \in Regions, NEW c \in Cpids, vdevs'[r][c] # None
        PROVE  \E p \in Procs : Has(p, c)' /\ Region(Vm(p))' = r
    <3>1. PICK p \in Procs : Has(p, c) /\ Region(Vm(p)) = r
      BY <2>2, Zenon DEF Inv, InUse
    <3>2. QED
      BY <1>2, <2>2, <3>1, Zenon
  <2>3. QED
    BY <2>1, <2>2, Zenon DEF InUse, Cpids
<1>5. QED
  BY <1>3, <1>4

\* The call takes the guest's lock, then the card's.
LEMMA RegisterCallLockStep ==
  ASSUME Inv, NEW p \in Procs, RegisterCall(p) \/ RegisterLock(p)
  PROVE  Inv'
<1>0. /\ DOMAIN guest = Mdevs /\ \A n \in Mdevs : DOMAIN guest[n] = GuestFields
      /\ DOMAIN proc = Procs /\ \A q \in Procs : ProcOK(proc[q])
  BY DEF Inv, TypeOK, GuestOK, ProcOK
<1>1. \A q \in Procs : Vm(q) \in Mdevs /\ Vm(q)' = Vm(q) /\ Pid(q)' = Pid(q)
  <2>1. env' = env
    BY DEF RegisterCall, RegisterLock
  <2>2. QED
    BY <2>1, ProcFacts, SameVm
<1>2. /\ UNCHANGED <<env, lists, mdev, pids, vdevs>>
      /\ \/ /\ proc[p].pc = "new" /\ guest[Vm(p)].up /\ guest[Vm(p)].lock = None
            /\ guest' = [guest EXCEPT ![Vm(p)].lock = p]
            /\ proc' = [proc EXCEPT ![p].pc = "write"]
         \/ /\ proc[p].pc = "write" /\ UNCHANGED guest
            /\ proc' = [proc EXCEPT ![p].pc = "locked"]
  BY DEF RegisterCall, RegisterLock, Calls, CpidLockFree, table
<1>3. /\ proc' = [proc EXCEPT ![p] = proc'[p]] /\ ProcOK(proc'[p])
      /\ proc'[p].cpid = proc[p].cpid /\ proc'[p].pc \in {"write", "locked"}
      /\ proc[p].pc \in {"new", "write"}
  BY <1>0, <1>2 DEF ProcOK
<1>4. /\ DOMAIN guest' = Mdevs
      /\ \A n \in Mdevs : DOMAIN guest'[n] = GuestFields /\ guest'[n].up = guest[n].up
                            /\ guest'[n].pid_array = guest[n].pid_array
      /\ \A n \in Mdevs : n # Vm(p) => guest'[n].lock = guest[n].lock
  BY <1>0, <1>1, <1>2 DEF GuestFields
<1>5. guest'[Vm(p)].lock = p /\ guest[Vm(p)].up /\ guest[Vm(p)].lock \in {p, None}
  BY <1>0, <1>1, <1>2 DEF Inv, Running, GuestFields
<1>6. TypeOK'
  <2>1. \A n \in Mdevs : DevOK(n)'
    BY <1>2 DEF Inv, TypeOK, DevOK, Cpids, Vcids
  <2>2. \A n \in Mdevs : GuestOK(n)'
    BY <1>4, <1>5 DEF Inv, TypeOK, GuestOK, Cpids
  <2>3. DOMAIN mdev' = Mdevs /\ pids' \in [Regions -> [Cpids -> Nat]]
          /\ vdevs' \in [Regions -> [Cpids -> Mdevs \cup {None, "freed"}]]
    BY <1>2 DEF Inv, TypeOK
  <2>4. QED
    BY <1>2, <1>3, <1>4, <2>1, <2>2, <2>3, ProcTypes
<1>7. Running'
  <2>1. \A q \in Procs : Vm(q) = Vm(p) /\ q # p => proc[q].pc \notin {"write", "locked", "read"}
    BY <1>5, OneRegisters
  <2>2. \A q \in Procs : q # p => proc'[q] = proc[q]
    BY <1>0, <1>3
  <2>3. proc[p].cpid = INVALID_CPID
    BY <1>3 DEF Inv, Running
  <2>4. \A m \in Mdevs : guest'[m].up => mdev'[m].state = "open"
    BY <1>2, <1>4 DEF Inv, Running
  <2>5. \A q \in Procs :
          /\ proc'[q].pc \notin {"new", "gone"} => guest'[Vm(q)].up
          /\ proc'[q].cpid # INVALID_CPID => proc'[q].pc = "in"
          /\ proc'[q].pc \in {"write", "locked", "read"} => guest'[Vm(q)].lock = q
    <3>1. SUFFICES ASSUME NEW q \in Procs
                   PROVE  /\ proc'[q].pc \notin {"new", "gone"} => guest'[Vm(q)].up
                          /\ proc'[q].cpid # INVALID_CPID => proc'[q].pc = "in"
                          /\ proc'[q].pc \in {"write", "locked", "read"} =>
                               guest'[Vm(q)].lock = q
      OBVIOUS
    <3>2. CASE q = p
      BY <1>1, <1>3, <1>4, <1>5, <2>3, <3>2, Zenon
    <3>3. CASE q # p
      <4>1. /\ proc[q].pc \notin {"new", "gone"} => guest[Vm(q)].up
            /\ proc[q].cpid # INVALID_CPID => proc[q].pc = "in"
            /\ proc[q].pc \in {"write", "locked", "read"} => guest[Vm(q)].lock = q
        BY Zenon DEF Inv, Running
      <4>2. guest'[Vm(q)].up = guest[Vm(q)].up
        BY <1>1, <1>4, Zenon
      <4>3. Vm(q) # Vm(p) => guest'[Vm(q)].lock = guest[Vm(q)].lock
        BY <1>1, <1>4, Zenon
      <4>4. QED
        BY <2>1, <2>2, <3>3, <4>1, <4>2, <4>3, Zenon
    <3>4. QED
      BY <3>2, <3>3, Zenon
  <2>6. QED
    BY <1>1, <2>4, <2>5 DEF Running
<1>8. Registered' /\ InUse'
  <2>1. \A q \in Procs : proc'[q].cpid = proc[q].cpid
                           /\ (proc'[q].pc = "read" <=> proc[q].pc = "read")
    BY <1>0, <1>3, Zenon
  <2>2. \A q \in Procs, c \in Cpids : Has(q, c)' <=> Has(q, c)
    BY <1>1, <1>2, <2>1 DEF Has
  <2>3. \A q \in Procs : proc'[q].cpid # INVALID_CPID =>
          guest'[Vm(q)].pid_array[proc'[q].cpid] = Pid(q)
    BY <1>1, <1>4, <2>1, Zenon DEF Inv, Registered
  <2>4. \A m \in Mdevs : IdKept(m)
    BY <1>2 DEF IdKept
  <2>5. QED
    BY <1>2, <2>2, <2>3, <2>4, TablesKept
<1>9. Vcid'
  <2>1. \A m \in Mdevs : IdKept(m)
    BY <1>2 DEF IdKept
  <2>2. QED
    BY <1>2, <2>1, VcidKept DEF Inv
<1>10. QED
  BY <1>6, <1>7, <1>8, <1>9, Zenon DEF Inv

\* The read of the register hands the identifier to the process that waited for it.
LEMMA RegisterReadStep ==
  ASSUME Inv, NEW p \in Procs, RegisterRead(p)
  PROVE  Inv'
<1>0. /\ DOMAIN mdev = Mdevs /\ \A n \in Mdevs : DOMAIN mdev[n] = DevFields
      /\ DOMAIN guest = Mdevs /\ \A n \in Mdevs : DOMAIN guest[n] = GuestFields
      /\ DOMAIN proc = Procs
  BY DEF Inv, TypeOK, DevOK, GuestOK
<1>1. PICK m, c : m = Vm(p) /\ c = mdev[m].current
  OBVIOUS
<1>2. /\ UNCHANGED <<env, lists, pids, vdevs>>
      /\ proc[p].pc = "read" /\ ~mdev[m].locked /\ c # INVALID_CPID
      /\ mdev' = [mdev EXCEPT ![m].current = INVALID_CPID]
      /\ guest' = [guest EXCEPT ![m].pid_array[c] = Pid(p), ![m].lock = None]
      /\ proc' = [proc EXCEPT ![p] = [pc |-> "in", cpid |-> c, last |-> c]]
  BY <1>1 DEF RegisterRead, CurrentRead, table
<1>3. \A q \in Procs : Vm(q) \in Mdevs /\ Vm(q)' = Vm(q) /\ Pid(q)' = Pid(q)
                         /\ Pid(q) \in Nat \ {0}
  BY <1>2, ProcFacts, SameVm
<1>4. m \in Mdevs /\ c \in Cpids
  BY <1>1, <1>2, <1>3 DEF Inv, TypeOK, DevOK
<1>5. /\ DOMAIN mdev' = Mdevs /\ \A n \in Mdevs : DOMAIN mdev'[n] = DevFields
      /\ \A n \in Mdevs : n # m => mdev'[n] = mdev[n]
      /\ mdev'[m].current = INVALID_CPID /\ mdev'[m].locked = mdev[m].locked
      /\ mdev'[m].state = mdev[m].state /\ mdev'[m].region = mdev[m].region
      /\ mdev'[m].id = mdev[m].id
  BY <1>0, <1>2, <1>4 DEF DevFields
<1>6. /\ DOMAIN guest' = Mdevs /\ \A n \in Mdevs : DOMAIN guest'[n] = GuestFields
      /\ \A n \in Mdevs : n # m => guest'[n] = guest[n]
      /\ guest'[m].up = guest[m].up /\ guest'[m].lock = None
      /\ guest'[m].pid_array = [guest[m].pid_array EXCEPT ![c] = Pid(p)]
  BY <1>0, <1>2, <1>4 DEF GuestFields
<1>7. /\ proc' = [proc EXCEPT ![p] = proc'[p]]
      /\ proc'[p] = [pc |-> "in", cpid |-> c, last |-> c]
      /\ \A q \in Procs : q # p => proc'[q] = proc[q]
  BY <1>0, <1>2
<1>8. guest[m].lock = p /\ guest[m].up
  BY <1>1, <1>2 DEF Inv, Running
<1>9. \A q \in Procs : Vm(q) = m /\ q # p => proc[q].pc \notin {"write", "locked", "read"}
  BY <1>1, <1>8, OneRegisters
<1>10. TypeOK'
  <2>1. \A n \in Mdevs : DevOK(n)'
    BY <1>5, Zenon DEF Inv, TypeOK, DevOK, Cpids, Vcids
  <2>2. \A n \in Mdevs : GuestOK(n)'
    <3>1. GuestOK(m)
      BY <1>4 DEF Inv, TypeOK
    <3>2. guest'[m].pid_array \in [Cpids -> Nat]
      <4>1. guest[m].pid_array \in [Cpids -> Nat] /\ Pid(p) \in Nat
        BY <1>3, <3>1 DEF GuestOK
      <4>2. QED
        BY <1>6, <4>1, Zenon
    <3>3. GuestOK(m)'
      BY <1>4, <1>6, <3>1, <3>2 DEF GuestOK, Cpids
    <3>4. \A n \in Mdevs : n # m => GuestOK(n)'
      BY <1>6 DEF Inv, TypeOK, GuestOK, Cpids
    <3>5. QED
      BY <3>3, <3>4
  <2>3. /\ pids' \in [Regions -> [Cpids -> Nat]]
        /\ vdevs' \in [Regions -> [Cpids -> Mdevs \cup {None, "freed"}]]
    BY <1>2 DEF Inv, TypeOK
  <2>4. ProcOK(proc'[p])
    BY <1>4, <1>7 DEF ProcOK
  <2>5. QED
    BY <1>2, <1>5, <1>6, <1>7, <2>1, <2>2, <2>3, <2>4, ProcTypes, Zenon
<1>11. Running'
  <2>1. \A n \in Mdevs : guest'[n].up => mdev'[n].state = "open"
    BY <1>5, <1>6 DEF Inv, Running
  <2>2. \A q \in Procs :
          /\ proc'[q].pc \notin {"new", "gone"} => guest'[Vm(q)].up
          /\ proc'[q].cpid # INVALID_CPID => proc'[q].pc = "in"
          /\ proc'[q].pc \in {"write", "locked", "read"} => guest'[Vm(q)].lock = q
    <3>1. SUFFICES ASSUME NEW q \in Procs
                   PROVE  /\ proc'[q].pc \notin {"new", "gone"} => guest'[Vm(q)].up
                          /\ proc'[q].cpid # INVALID_CPID => proc'[q].pc = "in"
                          /\ proc'[q].pc \in {"write", "locked", "read"} =>
                               guest'[Vm(q)].lock = q
      OBVIOUS
    <3>2. CASE q = p
      <4>1. proc'[q].pc = "in"
        BY <1>7, <3>2
      <4>2. guest'[Vm(q)].up
        BY <1>1, <1>6, <1>8, <3>2, Zenon
      <4>3. QED
        BY <4>1, <4>2
    <3>3. CASE q # p
      <4>1. /\ proc[q].pc \notin {"new", "gone"} => guest[Vm(q)].up
            /\ proc[q].cpid # INVALID_CPID => proc[q].pc = "in"
            /\ proc[q].pc \in {"write", "locked", "read"} => guest[Vm(q)].lock = q
        BY DEF Inv, Running
      <4>2. guest'[Vm(q)].up = guest[Vm(q)].up
        BY <1>3, <1>6
      <4>3. Vm(q) # m => guest'[Vm(q)].lock = guest[Vm(q)].lock
        BY <1>3, <1>6
      <4>4. QED
        BY <1>7, <1>9, <3>3, <4>1, <4>2, <4>3
    <3>4. QED
      BY <3>2, <3>3
  <2>3. QED
    BY <1>3, <2>1, <2>2 DEF Running
<1>12. Registered' /\ InUse'
  <2>1. ASSUME NEW q \in Procs, NEW d \in Cpids
        PROVE  Has(q, d)' <=> Has(q, d)
    <3>1. CASE q = p
      <4>1. proc[p].cpid = INVALID_CPID
        BY <1>2 DEF Inv, Running
      <4>2. d # INVALID_CPID
        BY DEF Cpids, INVALID_CPID
      <4>3. QED
        BY <1>1, <1>2, <1>3, <1>7, <3>1, <4>1, <4>2 DEF Has
    <3>2. CASE q # p /\ Vm(q) = m
      BY <1>3, <1>7, <1>9, <3>2 DEF Has
    <3>3. CASE q # p /\ Vm(q) # m
      BY <1>3, <1>5, <1>7, <3>3 DEF Has
    <3>4. QED
      BY <3>1, <3>2, <3>3
  <2>2. ASSUME NEW q \in Procs, proc'[q].cpid # INVALID_CPID
        PROVE  guest'[Vm(q)].pid_array[proc'[q].cpid] = Pid(q)
    <3>0. guest[m].pid_array \in [Cpids -> Nat]
      BY <1>4 DEF Inv, TypeOK, GuestOK
    <3>1. CASE q = p
      BY <1>1, <1>4, <1>6, <1>7, <3>0, <3>1
    <3>2. CASE q # p /\ Vm(q) # m
      BY <1>3, <1>6, <1>7, <2>2, <3>2, Zenon DEF Inv, Registered
    <3>3. CASE q # p /\ Vm(q) = m
      <4>1. proc[q].cpid \in Cpids /\ guest[m].pid_array[proc[q].cpid] = Pid(q)
        BY <1>7, <2>2, <3>3, Zenon DEF Inv, Registered, TypeOK
      <4>2. proc[q].cpid # c
        BY <1>1, <1>2, <1>4, <3>3 DEF Inv, Registered, Has
      <4>3. QED
        BY <1>6, <1>7, <3>0, <3>3, <4>1, <4>2
    <3>4. QED
      BY <3>1, <3>2, <3>3
  <2>3. \A n \in Mdevs : IdKept(n)
    BY <1>5 DEF IdKept
  <2>4. QED
    BY <1>2, <2>1, <2>2, <2>3, TablesKept, Zenon
<1>13. Vcid'
  <2>1. \A n \in Mdevs : IdKept(n)
    BY <1>5 DEF IdKept
  <2>2. QED
    BY <1>2, <2>1, VcidKept DEF Inv
<1>14. QED
  BY <1>10, <1>11, <1>12, <1>13, Zenon DEF Inv

\* A process that leaves gives up its identifier, registered or not.
LEMMA ReleaseStep ==
  ASSUME Inv, NEW p \in Procs, Release(p)
  PROVE  Inv'
<1>0. /\ DOMAIN guest = Mdevs /\ \A n \in Mdevs : DOMAIN guest[n] = GuestFields
      /\ DOMAIN proc = Procs /\ \A q \in Procs : ProcOK(proc[q])
  BY DEF Inv, TypeOK, GuestOK, ProcOK
<1>1. /\ UNCHANGED <<env, lists, mdev, pids, vdevs>> /\ proc[p].pc = "in"
      /\ "hasty" \in env \/ proc[p].cpid = INVALID_CPID
      /\ proc' = [proc EXCEPT ![p].pc = "gone", ![p].cpid = INVALID_CPID]
  BY DEF Release, table
<1>2. \A q \in Procs : Vm(q) \in Mdevs /\ Vm(q)' = Vm(q) /\ Pid(q)' = Pid(q)
  BY <1>1, ProcFacts, SameVm
<1>3. GuestsKept
  BY <1>0, <1>2 DEF Release, GuestsKept, GuestKept, GuestFields
<1>4. /\ proc' = [proc EXCEPT ![p] = proc'[p]] /\ ProcOK(proc'[p])
      /\ proc'[p].pc = "gone" /\ proc'[p].cpid = INVALID_CPID
      /\ \A q \in Procs : q # p => proc'[q] = proc[q]
  BY <1>0, <1>1, Zenon DEF ProcOK
<1>5. TypeOK'
  <2>1. \A n \in Mdevs : DevOK(n)'
    BY <1>1 DEF Inv, TypeOK, DevOK, Cpids, Vcids
  <2>2. \A n \in Mdevs : GuestOK(n)'
    BY <1>3 DEF GuestsKept, GuestKept, Inv, TypeOK, GuestOK, Cpids
  <2>3. /\ DOMAIN mdev' = Mdevs /\ pids' \in [Regions -> [Cpids -> Nat]]
        /\ vdevs' \in [Regions -> [Cpids -> Mdevs \cup {None, "freed"}]]
    BY <1>1 DEF Inv, TypeOK
  <2>4. QED
    BY <1>1, <1>3, <1>4, <2>1, <2>2, <2>3, ProcTypes, Zenon DEF GuestsKept
<1>6. Running'
  <2>1. \A n \in Mdevs : guest'[n].up => mdev'[n].state = "open"
    BY <1>1, <1>3 DEF Inv, Running, GuestsKept, GuestKept
  <2>2. \A q \in Procs : guest'[Vm(q)].up = guest[Vm(q)].up
                           /\ guest'[Vm(q)].lock = guest[Vm(q)].lock
    BY <1>2, <1>3 DEF GuestsKept, GuestKept
  <2>3. \A q \in Procs :
          /\ proc'[q].pc \notin {"new", "gone"} => guest'[Vm(q)].up
          /\ proc'[q].cpid # INVALID_CPID => proc'[q].pc = "in"
          /\ proc'[q].pc \in {"write", "locked", "read"} => guest'[Vm(q)].lock = q
    BY <1>4, <2>2, Zenon DEF Inv, Running
  <2>4. QED
    BY <1>2, <2>1, <2>3 DEF Running
<1>7. Registered' /\ InUse'
  <2>0. \A d \in Cpids : d # INVALID_CPID
    BY DEF Cpids, INVALID_CPID
  <2>1. \A q \in Procs, d \in Cpids : Has(q, d)' => Has(q, d)
    BY <1>1, <1>2, <1>4, <2>0, Zenon DEF Has
  <2>2. proc[p].cpid = INVALID_CPID => \A q \in Procs, d \in Cpids : Has(q, d) => Has(q, d)'
    BY <1>1, <1>2, <1>4, <2>0, Zenon DEF Has
  <2>3. \A q \in Procs : proc'[q].cpid # INVALID_CPID =>
          guest'[Vm(q)].pid_array[proc'[q].cpid] = Pid(q)
    BY <1>2, <1>3, <1>4, Zenon DEF Inv, Registered, GuestsKept, GuestKept
  <2>4. \A n \in Mdevs : IdKept(n)
    BY <1>1 DEF IdKept
  <2>5. env \cap {"hasty", "abrupt"} = {} => proc[p].cpid = INVALID_CPID
    BY <1>1
  <2>6. QED
    BY <1>1, <2>1, <2>2, <2>3, <2>4, <2>5, TablesKept, Zenon
<1>8. Vcid'
  <2>1. \A n \in Mdevs : IdKept(n)
    BY <1>1 DEF IdKept
  <2>2. QED
    BY <1>1, <2>1, VcidKept DEF Inv
<1>9. QED
  BY <1>5, <1>6, <1>7, <1>8, Zenon DEF Inv

\* The write registers a thread identifier that is free and leaves it in the register,
\* or finds none and leaves the register locked.
LEMMA RegisterWriteStep ==
  ASSUME Inv, NEW p \in Procs, RegisterWrite(p)
  PROVE  Inv'
<1>0. /\ DOMAIN mdev = Mdevs /\ \A n \in Mdevs : DOMAIN mdev[n] = DevFields
      /\ DOMAIN proc = Procs /\ \A q \in Procs : ProcOK(proc[q])
  BY DEF Inv, TypeOK, DevOK, ProcOK
<1>1. PICK m, r : m = Vm(p) /\ r = Region(m)
  OBVIOUS
<1> DEFINE Fails == /\ mdev' = [mdev EXCEPT ![m].locked = TRUE] /\ UNCHANGED <<pids, vdevs>>
           Writes(c) == /\ pids[r][c] = NoEpid
                        /\ pids' = [pids EXCEPT ![r][c] = Epid(m, p)]
                        /\ vdevs' = [vdevs EXCEPT ![r][c] = m]
                        /\ mdev' = [mdev EXCEPT ![m].current = c]
<1>2. /\ UNCHANGED <<env, lists, guest>> /\ proc[p].pc = "locked" /\ ~mdev[m].locked
      /\ proc' = [proc EXCEPT ![p].pc = "read"]
      /\ Fails \/ \E c \in Cpids : Writes(c)
  BY <1>1 DEF RegisterWrite, NoteDevice
<1>3. \A q \in Procs : Vm(q) \in Mdevs /\ Vm(q)' = Vm(q) /\ Pid(q)' = Pid(q)
                         /\ Pid(q) \in Nat \ {0}
  BY <1>2, ProcFacts, SameVm
<1>4. m \in Mdevs /\ r \in Regions /\ mdev[m].id \in Vcids /\ Pid(p) \in Nat \ {0}
  BY <1>1, <1>3, Zenon DEF Inv, TypeOK, DevOK, Region
<1>5. /\ DOMAIN mdev' = Mdevs /\ \A n \in Mdevs : DOMAIN mdev'[n] = DevFields
      /\ \A n \in Mdevs : n # m => mdev'[n] = mdev[n]
      /\ mdev'[m].state = mdev[m].state /\ mdev'[m].region = mdev[m].region
      /\ mdev'[m].id = mdev[m].id
      /\ mdev'[m].current \in Cpids \cup {INVALID_CPID} /\ mdev'[m].locked \in BOOLEAN
  <2>0. mdev[m].current \in Cpids \cup {INVALID_CPID} /\ mdev[m].locked \in BOOLEAN
    BY <1>4 DEF Inv, TypeOK, DevOK
  <2>1. CASE Fails
    BY <1>0, <1>4, <2>0, <2>1 DEF DevFields
  <2>2. ASSUME NEW c \in Cpids, Writes(c)
        PROVE  /\ DOMAIN mdev' = Mdevs /\ \A n \in Mdevs : DOMAIN mdev'[n] = DevFields
               /\ \A n \in Mdevs : n # m => mdev'[n] = mdev[n]
               /\ mdev'[m].state = mdev[m].state /\ mdev'[m].region = mdev[m].region
               /\ mdev'[m].id = mdev[m].id
               /\ mdev'[m].current \in Cpids \cup {INVALID_CPID} /\ mdev'[m].locked \in BOOLEAN
    BY <1>0, <1>4, <2>0, <2>2 DEF DevFields
  <2>3. QED
    BY <1>2, <2>1, <2>2
<1>6. /\ proc' = [proc EXCEPT ![p] = proc'[p]] /\ ProcOK(proc'[p])
      /\ proc'[p].pc = "read" /\ proc'[p].cpid = proc[p].cpid
      /\ \A q \in Procs : q # p => proc'[q] = proc[q]
  BY <1>0, <1>2 DEF ProcOK
<1>7. guest[m].lock = p /\ guest[m].up /\ proc[p].cpid = INVALID_CPID
  BY <1>1, <1>2 DEF Inv, Running
<1>8. \A q \in Procs : Vm(q) = m /\ q # p => proc[q].pc \notin {"write", "locked", "read"}
  BY <1>1, <1>7, OneRegisters
<1>9. \A n \in Mdevs : IdKept(n)
  BY <1>5 DEF IdKept
<1>10. TypeOK'
  <2>1. \A n \in Mdevs : DevOK(n)'
    BY <1>5, Zenon DEF Inv, TypeOK, DevOK, Cpids, Vcids
  <2>2. \A n \in Mdevs : GuestOK(n)'
    BY <1>2 DEF Inv, TypeOK, GuestOK, Cpids
  <2>3. /\ pids' \in [Regions -> [Cpids -> Nat]]
        /\ vdevs' \in [Regions -> [Cpids -> Mdevs \cup {None, "freed"}]]
    <3>0. /\ pids \in [Regions -> [Cpids -> Nat]]
          /\ vdevs \in [Regions -> [Cpids -> Mdevs \cup {None, "freed"}]]
      BY DEF Inv, TypeOK
    <3>1. CASE Fails
      BY <3>0, <3>1
    <3>2. ASSUME NEW c \in Cpids, Writes(c)
          PROVE  /\ pids' \in [Regions -> [Cpids -> Nat]]
                 /\ vdevs' \in [Regions -> [Cpids -> Mdevs \cup {None, "freed"}]]
      <4>1. Epid(m, p) \in Nat
        BY <1>4, EpidNumber DEF Inv
      <4>2. QED
        BY <1>4, <3>0, <3>2, <4>1
    <3>3. QED
      BY <1>2, <3>1, <3>2
  <2>4. DOMAIN guest' = Mdevs
    BY <1>2 DEF Inv, TypeOK
  <2>5. QED
    BY <1>2, <1>5, <1>6, <2>1, <2>2, <2>3, <2>4, ProcTypes, Zenon
<1>11. Running'
  <2>1. \A n \in Mdevs : guest'[n].up => mdev'[n].state = "open"
    BY <1>2, <1>5 DEF Inv, Running
  <2>2. \A q \in Procs :
          /\ proc'[q].pc \notin {"new", "gone"} => guest'[Vm(q)].up
          /\ proc'[q].cpid # INVALID_CPID => proc'[q].pc = "in"
          /\ proc'[q].pc \in {"write", "locked", "read"} => guest'[Vm(q)].lock = q
    BY <1>1, <1>2, <1>6, <1>7 DEF Inv, Running
  <2>3. QED
    BY <1>3, <2>1, <2>2 DEF Running
<1>12. \A q \in Procs : proc'[q].cpid # INVALID_CPID =>
         guest'[Vm(q)].pid_array[proc'[q].cpid] = Pid(q)
  BY <1>2, <1>6, <1>7 DEF Inv, Registered
<1>13. \A d \in Cpids : d # INVALID_CPID
  BY DEF Cpids, INVALID_CPID
<1>14. \A q \in Procs, d \in Cpids : q # p => (Has(q, d)' <=> Has(q, d))
  BY <1>3, <1>5, <1>6, <1>8, Zenon DEF Has
<1>15. \A d \in Cpids : ~Has(p, d)
  BY <1>2, <1>7, <1>13 DEF Has
<1>16. CASE Fails
  <2>1. mdev'[m].locked
    BY <1>0, <1>4, <1>16 DEF DevFields
  <2>2. \A d \in Cpids : ~Has(p, d)'
    BY <1>1, <1>3, <1>6, <1>7, <1>13, <2>1 DEF Has
  <2>3. \A q \in Procs, d \in Cpids : Has(q, d)' <=> Has(q, d)
    BY <1>14, <1>15, <2>2
  <2>4. Registered' /\ InUse'
    BY <1>2, <1>9, <1>12, <1>16, <2>3, TablesKept
  <2>5. QED
    BY <1>2, <1>9, <1>10, <1>11, <2>4, VcidKept DEF Inv
<1>17. ASSUME NEW c \in Cpids, Writes(c)
       PROVE  Inv'
  <2>1. mdev'[m].current = c /\ ~mdev'[m].locked
    BY <1>0, <1>2, <1>4, <1>17 DEF DevFields
  <2>2. \A d \in Cpids : Has(p, d)' <=> d = c
    BY <1>1, <1>3, <1>6, <1>7, <1>13, <2>1 DEF Has
  <2>3. /\ pids'[r][c] = Epid(m, p) /\ vdevs'[r][c] = m
        /\ \A s \in Regions, d \in Cpids : s # r \/ d # c =>
             pids'[s][d] = pids[s][d] /\ vdevs'[s][d] = vdevs[s][d]
    BY <1>4, <1>17 DEF Inv, TypeOK
  <2>4. \A q \in Procs : Region(Vm(q))' = Region(Vm(q)) /\ Region(Vm(q)) \in Regions
                           /\ Epid(Vm(q), q)' = Epid(Vm(q), q)
    BY <1>3, <1>9, Zenon DEF Region, Epid, IdKept, Inv, TypeOK, DevOK
  <2>5. \A q \in Procs : Has(q, c) => Region(Vm(q)) # r
    <3>1. \A q \in Procs : Epid(Vm(q), q) # NoEpid
      BY <1>3, EpidNumber DEF Inv, NoEpid
    <3>2. QED
      BY <1>17, <3>1 DEF Inv, Registered
  <2>6. Region(Vm(p)) = r /\ Vm(p) = m
    BY <1>1
  <2>7. Registered'
    <3>1. ASSUME NEW q \in Procs, NEW d \in Cpids, Has(q, d)'
          PROVE  pids'[Region(Vm(q))][d] = Epid(Vm(q), q) /\ vdevs'[Region(Vm(q))][d] = Vm(q)
      <4>1. CASE q = p
        BY <2>2, <2>3, <2>6, <3>1, <4>1, Zenon
      <4>2. CASE q # p
        <5>1. Has(q, d)
          BY <1>14, <3>1, <4>2
        <5>2. pids[Region(Vm(q))][d] = Epid(Vm(q), q) /\ vdevs[Region(Vm(q))][d] = Vm(q)
          BY <5>1, Zenon DEF Inv, Registered
        <5>3. QED
          BY <2>3, <2>4, <2>5, <5>1, <5>2, Zenon
      <4>3. QED
        BY <4>1, <4>2, Zenon
    <3>2. ASSUME NEW q \in Procs, NEW o \in Procs, NEW d \in Cpids,
                 Has(q, d)', Has(o, d)', Region(Vm(q)) = Region(Vm(o))
          PROVE  q = o
      BY <1>14, <2>2, <2>5, <2>6, <3>2, Zenon DEF Inv, Registered
    <3>3. \A q \in Procs, d \in Cpids : Has(q, d)' =>
            pids'[Region(Vm(q))'][d] = Epid(Vm(q), q)' /\ vdevs'[Region(Vm(q))'][d] = Vm(q)'
      BY <1>3, <2>4, <3>1, Zenon
    <3>4. \A q, o \in Procs, d \in Cpids :
            Has(q, d)' /\ Has(o, d)' /\ Region(Vm(q))' = Region(Vm(o))' => q = o
      BY <2>4, <3>2, Zenon
    <3>5. \A q \in Procs : proc'[q].cpid # INVALID_CPID =>
            guest'[Vm(q)'].pid_array[proc'[q].cpid] = Pid(q)'
      BY <1>3, <1>12, Zenon
    <3>6. QED
      BY <3>3, <3>4, <3>5, Zenon DEF Registered, Cpids
  <2>8. InUse'
    <3>1. Epid(m, p) # NoEpid /\ m # None
      BY <1>4, EpidNumber, HypervisorAssumption DEF Inv, NoEpid
    <3>2. \A s \in Regions, d \in Cpids : pids'[s][d] # NoEpid <=> vdevs'[s][d] # None
      BY <2>3, <3>1, Zenon DEF Inv, InUse
    <3>3. ASSUME env \cap {"hasty", "abrupt"} = {},
                 NEW s \in Regions, NEW d \in Cpids, vdevs'[s][d] # None
          PROVE  \E q \in Procs : Has(q, d)' /\ Region(Vm(q)) = s
      <4>1. CASE s = r /\ d = c
        BY <2>2, <2>6, <4>1
      <4>2. CASE ~(s = r /\ d = c)
        <5>1. PICK q \in Procs : Has(q, d) /\ Region(Vm(q)) = s
          BY <2>3, <3>3, <4>2 DEF Inv, InUse
        <5>2. QED
          BY <1>14, <1>15, <5>1
      <4>3. QED
        BY <4>1, <4>2
    <3>4. QED
      BY <1>2, <2>4, <3>2, <3>3 DEF InUse, Cpids
  <2>9. QED
    BY <1>2, <1>9, <1>10, <1>11, <2>7, <2>8, VcidKept DEF Inv
<1>18. QED
  BY <1>2, <1>16, <1>17

\* Unregistering clears what the host and the guest hold about the identifier.
LEMMA UnregisterStep ==
  ASSUME Inv, NEW p \in Procs, Unregister(p)
  PROVE  Inv'
<1>0. /\ DOMAIN guest = Mdevs /\ \A n \in Mdevs : DOMAIN guest[n] = GuestFields
      /\ DOMAIN proc = Procs /\ \A q \in Procs : ProcOK(proc[q])
  BY DEF Inv, TypeOK, GuestOK, ProcOK
<1>1. PICK m, r, c : m = Vm(p) /\ r = Region(m) /\ c = proc[p].cpid
  OBVIOUS
<1>2. /\ UNCHANGED <<env, lists, mdev>> /\ proc[p].pc = "in" /\ c # INVALID_CPID
      /\ pids' = [pids EXCEPT ![r][c] = NoEpid]
      /\ vdevs' = [vdevs EXCEPT ![r][c] = None]
      /\ guest' = [guest EXCEPT ![m].pid_array[c] = 0]
      /\ proc' = [proc EXCEPT ![p].cpid = INVALID_CPID]
  BY <1>1 DEF Unregister, ForgetDevice
<1>3. \A q \in Procs : Vm(q) \in Mdevs /\ Vm(q)' = Vm(q) /\ Pid(q)' = Pid(q)
  BY <1>2, ProcFacts, SameVm
<1>4. m \in Mdevs /\ r \in Regions /\ c \in Cpids
  BY <1>0, <1>1, <1>2, <1>3 DEF Inv, TypeOK, DevOK, Region, ProcOK
<1>5. /\ DOMAIN guest' = Mdevs /\ \A n \in Mdevs : DOMAIN guest'[n] = GuestFields
      /\ \A n \in Mdevs : guest'[n].up = guest[n].up /\ guest'[n].lock = guest[n].lock
      /\ \A n \in Mdevs : n # m => guest'[n].pid_array = guest[n].pid_array
      /\ guest'[m].pid_array = [guest[m].pid_array EXCEPT ![c] = 0]
  BY <1>0, <1>2, <1>4 DEF GuestFields
<1>6. /\ proc' = [proc EXCEPT ![p] = proc'[p]] /\ ProcOK(proc'[p])
      /\ proc'[p].pc = "in" /\ proc'[p].cpid = INVALID_CPID
      /\ \A q \in Procs : q # p => proc'[q] = proc[q]
  BY <1>0, <1>2 DEF ProcOK
<1>7. guest[m].pid_array \in [Cpids -> Nat]
  BY <1>4 DEF Inv, TypeOK, GuestOK
<1>8. \A d \in Cpids : d # INVALID_CPID
  BY DEF Cpids, INVALID_CPID
<1>9. \A q \in Procs, d \in Cpids : Has(q, d)' <=> q # p /\ Has(q, d)
  BY <1>2, <1>3, <1>6, <1>8 DEF Has
<1>10. \A q \in Procs : q # p /\ Has(q, c) => Region(Vm(q)) # r
  <2>1. Has(p, c) /\ Region(Vm(p)) = r
    BY <1>1 DEF Has
  <2>2. QED
    BY <1>4, <2>1, Zenon DEF Inv, Registered
<1>11. TypeOK'
  <2>1. \A n \in Mdevs : DevOK(n)'
    BY <1>2 DEF Inv, TypeOK, DevOK, Cpids, Vcids
  <2>2. \A n \in Mdevs : GuestOK(n)'
    <3>1. guest'[m].pid_array \in [Cpids -> Nat]
      <4>1. [guest[m].pid_array EXCEPT ![c] = 0] \in [Cpids -> Nat]
        BY <1>7, Zenon
      <4>2. QED
        BY <1>5, <4>1, Zenon
    <3>2. \A n \in Mdevs : guest'[n].pid_array \in [Cpids -> Nat]
      BY <1>5, <3>1, Zenon DEF Inv, TypeOK, GuestOK
    <3>3. QED
      BY <1>5, <3>2 DEF Inv, TypeOK, GuestOK, Cpids
  <2>3. /\ pids' \in [Regions -> [Cpids -> Nat]]
        /\ vdevs' \in [Regions -> [Cpids -> Mdevs \cup {None, "freed"}]]
    <3>1. NoEpid \in Nat
      BY DEF NoEpid
    <3>2. /\ pids \in [Regions -> [Cpids -> Nat]]
          /\ vdevs \in [Regions -> [Cpids -> Mdevs \cup {None, "freed"}]]
      BY DEF Inv, TypeOK
    <3>3. QED
      BY <1>2, <1>4, <3>1, <3>2
  <2>4. DOMAIN mdev' = Mdevs
    BY <1>2 DEF Inv, TypeOK
  <2>5. QED
    BY <1>2, <1>5, <1>6, <2>1, <2>2, <2>3, <2>4, ProcTypes, Zenon
<1>12. Running'
  <2>1. \A n \in Mdevs : guest'[n].up => mdev'[n].state = "open"
    BY <1>2, <1>5 DEF Inv, Running
  <2>2. \A q \in Procs : guest'[Vm(q)].up = guest[Vm(q)].up
                           /\ guest'[Vm(q)].lock = guest[Vm(q)].lock
    BY <1>3, <1>5, Zenon
  <2>3. \A q \in Procs :
          /\ proc'[q].pc \notin {"new", "gone"} => guest'[Vm(q)].up
          /\ proc'[q].cpid # INVALID_CPID => proc'[q].pc = "in"
          /\ proc'[q].pc \in {"write", "locked", "read"} => guest'[Vm(q)].lock = q
    BY <1>2, <1>6, <2>2 DEF Inv, Running
  <2>4. QED
    BY <1>3, <2>1, <2>3 DEF Running
<1>13. \A s \in Regions, d \in Cpids :
         IF s = r /\ d = c THEN pids'[s][d] = NoEpid /\ vdevs'[s][d] = None
         ELSE pids'[s][d] = pids[s][d] /\ vdevs'[s][d] = vdevs[s][d]
  BY <1>2, <1>4 DEF Inv, TypeOK
<1>14. \A q \in Procs : Region(Vm(q))' = Region(Vm(q)) /\ Region(Vm(q)) \in Regions
                          /\ Epid(Vm(q), q)' = Epid(Vm(q), q)
  BY <1>2, <1>3 DEF Region, Epid, Inv, TypeOK, DevOK
<1>15. Registered'
  <2>1. ASSUME NEW q \in Procs, NEW d \in Cpids, Has(q, d)'
        PROVE  pids'[Region(Vm(q))][d] = Epid(Vm(q), q) /\ vdevs'[Region(Vm(q))][d] = Vm(q)
    <3>1. q # p /\ Has(q, d)
      BY <1>9, <2>1
    <3>2. pids[Region(Vm(q))][d] = Epid(Vm(q), q) /\ vdevs[Region(Vm(q))][d] = Vm(q)
      BY <3>1, Zenon DEF Inv, Registered
    <3>3. ~(Region(Vm(q)) = r /\ d = c)
      BY <1>10, <3>1
    <3>4. QED
      BY <1>13, <1>14, <3>2, <3>3, Zenon
  <2>2. ASSUME NEW q \in Procs, NEW o \in Procs, NEW d \in Cpids,
               Has(q, d)', Has(o, d)', Region(Vm(q)) = Region(Vm(o))
        PROVE  q = o
    BY <1>9, <2>2, Zenon DEF Inv, Registered
  <2>3. ASSUME NEW q \in Procs, proc'[q].cpid # INVALID_CPID
        PROVE  guest'[Vm(q)].pid_array[proc'[q].cpid] = Pid(q)
    <3>1. q # p /\ proc'[q].cpid = proc[q].cpid /\ proc[q].cpid \in Cpids
      BY <1>0, <1>6, <2>3 DEF ProcOK
    <3>2. guest[Vm(q)].pid_array[proc[q].cpid] = Pid(q)
      BY <2>3, <3>1 DEF Inv, Registered
    <3>3. Vm(q) = m => proc[q].cpid # c
      BY <1>1, <1>10, <3>1 DEF Has
    <3>4. QED
      BY <1>3, <1>5, <1>7, <3>1, <3>2, <3>3, Zenon
  <2>4. QED
    BY <1>3, <1>14, <2>1, <2>2, <2>3, Zenon DEF Registered, Cpids
<1>16. InUse'
  <2>1. \A s \in Regions, d \in Cpids : pids'[s][d] # NoEpid <=> vdevs'[s][d] # None
    BY <1>13 DEF Inv, InUse
  <2>2. ASSUME env \cap {"hasty", "abrupt"} = {},
               NEW s \in Regions, NEW d \in Cpids, vdevs'[s][d] # None
        PROVE  \E q \in Procs : Has(q, d)' /\ Region(Vm(q)) = s
    <3>1. ~(s = r /\ d = c) /\ vdevs[s][d] # None
      BY <1>13, <2>2
    <3>2. PICK q \in Procs : Has(q, d) /\ Region(Vm(q)) = s
      BY <2>2, <3>1 DEF Inv, InUse
    <3>3. q # p
      BY <1>1, <1>2, <3>1, <3>2 DEF Has
    <3>4. QED
      BY <1>9, <3>2, <3>3
  <2>3. QED
    BY <1>2, <1>14, <2>1, <2>2 DEF InUse, Cpids
<1>17. Vcid'
  <2>1. \A n \in Mdevs : IdKept(n)
    BY <1>2 DEF IdKept
  <2>2. QED
    BY <1>2, <2>1, VcidKept DEF Inv
<1>18. QED
  BY <1>11, <1>12, <1>15, <1>16, <1>17, Zenon DEF Inv

(* The invariant and what follows from it.                                 *)

\* At first all chunks of the first vFPGA are on its list and nothing is registered.
LEMMA InitInv ==
  ASSUME Init
  PROVE  Inv
<1>1. /\ mdev = [m \in Mdevs |-> Absent] /\ guest = [m \in Mdevs |-> NoGuest]
      /\ proc = [p \in Procs |-> [pc |-> "new", cpid |-> INVALID_CPID, last |-> INVALID_CPID]]
      /\ pids = [r \in Regions |-> [c \in Cpids |-> NoEpid]]
      /\ vdevs = [r \in Regions |-> [c \in Cpids |-> None]]
      /\ chunk_next = [c \in Chunks |->
                         IF c[2] < MAX_VMS - 1 THEN <<0, c[2] + 1>> ELSE NoChunk]
      /\ vcid_alloc = [r \in Regions |-> <<0, 0>>]
  BY DEF Init
<1>2. 0 \in Regions /\ 0 \in Vcids /\ MAX_VMS \in Nat \ {0}
  BY HypervisorAssumption DEF Vcids
<1>3. \A m \in Mdevs :
        /\ DOMAIN mdev[m] = DevFields /\ mdev[m].state = "absent" /\ mdev[m].region = 0
        /\ mdev[m].id = 0 /\ mdev[m].current = INVALID_CPID /\ mdev[m].locked = FALSE
  BY <1>1, Zenon DEF Absent, DevFields
<1>4. \A m \in Mdevs :
        /\ DOMAIN guest[m] = GuestFields /\ guest[m].up = FALSE /\ guest[m].lock = None
        /\ guest[m].pid_array = [c \in Cpids |-> 0]
  BY <1>1, Zenon DEF NoGuest, GuestFields
<1>5. TypeOK
  <2>1. chunk_next \in [Chunks -> Chunks \cup {NoChunk}]
    <3>1. \A c \in Chunks : c[2] < MAX_VMS - 1 => <<0, c[2] + 1>> \in Chunks
      BY <1>2 DEF Chunks
    <3>2. QED
      BY <1>1, <3>1
  <2>2. vcid_alloc \in [Regions -> Chunks \cup {NoChunk}]
    BY <1>1, <1>2 DEF Chunks, Vcids
  <2>3. \A m \in Mdevs : DevOK(m) /\ GuestOK(m)
    <3>1. \A m \in Mdevs : DevOK(m)
      BY <1>2, <1>3, Zenon DEF DevOK
    <3>2. \A m \in Mdevs : GuestOK(m)
      <4>1. [c \in Cpids |-> 0] \in [Cpids -> Nat]
        OBVIOUS
      <4>2. QED
        BY <1>4, <4>1, Zenon DEF GuestOK
    <3>3. QED
      BY <3>1, <3>2
  <2>4. /\ pids \in [Regions -> [Cpids -> Nat]]
        /\ vdevs \in [Regions -> [Cpids -> Mdevs \cup {None, "freed"}]]
    BY <1>1, <1>2 DEF NoEpid
  <2>5. QED
    BY <1>1, <2>1, <2>2, <2>3, <2>4 DEF TypeOK
<1>6. \A p \in Procs : proc[p].pc = "new" /\ proc[p].cpid = INVALID_CPID
  BY <1>1
<1>7. Running
  BY <1>4, <1>6 DEF Running
<1>8. \A p \in Procs, c \in Cpids : ~Has(p, c)
  BY <1>6 DEF Has, Cpids, INVALID_CPID
<1>9. Registered
  BY <1>6, <1>8 DEF Registered
<1>10. InUse
  BY <1>1 DEF InUse
<1>11. Vcid
  <2>1. PICK s : s = [i \in 1 .. MAX_VMS |-> i - 1]
    BY Zenon
  <2>2. s \in Seq(Vcids) /\ Len(s) = MAX_VMS
    BY <1>2, <2>1 DEF Vcids
  <2>3. \A i \in 1 .. MAX_VMS : s[i] = i - 1
    BY <2>1
  <2>4. s # << >> /\ s[1] = 0
    BY <1>2, <2>2, <2>3
  <2>5. \A i \in 1 .. MAX_VMS :
          chunk_next[<<0, s[i]>>] = IF i = MAX_VMS THEN NoChunk ELSE <<0, s[i + 1]>>
    <3>1. SUFFICES ASSUME NEW i \in 1 .. MAX_VMS
                   PROVE  chunk_next[<<0, s[i]>>] =
                            IF i = MAX_VMS THEN NoChunk ELSE <<0, s[i + 1]>>
      OBVIOUS
    <3>2. s[i] = i - 1 /\ <<0, i - 1>> \in Chunks
      BY <1>2, <2>3 DEF Chunks
    <3>3. chunk_next[<<0, i - 1>>] =
            IF i - 1 < MAX_VMS - 1 THEN <<0, (i - 1) + 1>> ELSE NoChunk
      BY <1>1, <3>2
    <3>4. CASE i = MAX_VMS
      BY <1>2, <3>2, <3>3, <3>4
    <3>5. CASE i # MAX_VMS
      <4>1. i + 1 \in 1 .. MAX_VMS /\ i - 1 < MAX_VMS - 1
        BY <1>2, <3>5
      <4>2. s[i + 1] = (i - 1) + 1
        BY <2>3, <4>1
      <4>3. QED
        BY <3>2, <3>3, <3>5, <4>1, <4>2
    <3>6. QED
      BY <3>4, <3>5
  <2>6. \A i, j \in 1 .. MAX_VMS : s[i] = s[j] => i = j
    BY <2>3
  <2>7. ListOf(<<0, 0>>, chunk_next, s)
    BY <2>2, <2>4, <2>5, <2>6, Zenon DEF ListOf
  <2>8. vcid_alloc[0] = <<0, 0>>
    BY <1>1, <1>2
  <2>9. Linked(s)
    BY <2>7, <2>8, Zenon DEF Linked
  <2>10. QED
    BY <1>3, <2>2, <2>9, Zenon DEF Vcid
<1>12. QED
  BY <1>5, <1>7, <1>9, <1>10, <1>11 DEF Inv

\* Every step keeps the invariant.
LEMMA NextInv ==
  ASSUME Inv, [Next]_vars
  PROVE  Inv'
<1>1. CASE UNCHANGED vars
  <2>1. UNCHANGED <<env, lists, mdev, pids, vdevs, guest, proc>>
    BY <1>1 DEF vars, lists, table
  <2>2. DevicesKept /\ GuestsKept
    BY <2>1 DEF Inv, TypeOK, DevOK, GuestOK, DevicesKept, DevKept, GuestsKept, GuestKept
  <2>3. QED
    BY <2>1, <2>2, Untouched
<1>2. ASSUME NEW m \in Mdevs,
             \/ \E r \in Regions : VfpgaCreate(m, r)
             \/ VfpgaRemove(m) \/ VfpgaOpen(m) \/ VfpgaOpenFails(m)
             \/ VfpgaClose(m) \/ Boot(m, Placement) \/ Unload(m)
      PROVE  Inv'
  BY <1>2, CreateStep, RemoveStep, OpenSteps, CloseStep, Zenon
<1>3. ASSUME NEW p \in Procs,
             \/ RegisterCall(p) \/ RegisterLock(p) \/ RegisterWrite(p)
             \/ RegisterRead(p) \/ Unregister(p) \/ Release(p)
      PROVE  Inv'
  BY <1>3, RegisterCallLockStep, RegisterWriteStep, RegisterReadStep, UnregisterStep,
     ReleaseStep, Zenon
<1>4. QED
  BY <1>1, <1>2, <1>3, BufferSteps, Zenon DEF Next

\* The types, who runs where, who has which thread identifier and which identifiers of
\* devices are free are as Inv says at all times, for any number of virtual machines,
\* processes, vFPGAs and identifiers.
THEOREM Invariance == Spec => []Inv
<1>1. Init => Inv
  BY InitInv
<1>2. Inv /\ [Next]_vars => Inv'
  BY NextInv
<1>3. QED
  BY <1>1, <1>2, PTL DEF Spec

\* What the invariant says of the identifiers in use.
LEMMA InvIdentifiers ==
  ASSUME Inv
  PROVE  OwnIdentifier
<1>1. \A m, n \in Mdevs :
        m # n /\ "absent" \notin {mdev[m].state, mdev[n].state}
          /\ Region(m) = 0 /\ Region(n) = 0 => mdev[m].id # mdev[n].id
  BY DEF Inv, Vcid
<1>2. ASSUME NEW p \in Procs, proc[p].cpid # INVALID_CPID
      PROVE  /\ pids[Region(Vm(p))][proc[p].cpid] = Epid(Vm(p), p)
             /\ vdevs[Region(Vm(p))][proc[p].cpid] = Vm(p)
             /\ guest[Vm(p)].pid_array[proc[p].cpid] = Pid(p)
             /\ \A q \in Procs \ {p} :
                  proc[q].cpid = proc[p].cpid => Region(Vm(q)) # Region(Vm(p))
  <2>1. PICK c : c = proc[p].cpid
    OBVIOUS
  <2>2. c \in Cpids /\ Has(p, c)
    BY <1>2, <2>1 DEF Inv, TypeOK, Has
  <2>3. pids[Region(Vm(p))][c] = Epid(Vm(p), p) /\ vdevs[Region(Vm(p))][c] = Vm(p)
    BY <2>2, Zenon DEF Inv, Registered
  <2>4. \A q \in Procs : proc[q].cpid = c => Has(q, c)
    BY DEF Has
  <2>5. \A q \in Procs \ {p} : proc[q].cpid = c => Region(Vm(q)) # Region(Vm(p))
    BY <2>2, <2>4, Zenon DEF Inv, Registered
  <2>6. guest[Vm(p)].pid_array[c] = Pid(p)
    BY <1>2, <2>1 DEF Inv, Registered
  <2>7. QED
    BY <2>1, <2>3, <2>5, <2>6, Zenon
<1>3. ASSUME env \cap {"hasty", "abrupt"} = {}, NEW r \in Regions, NEW c \in Cpids
      PROVE  pids[r][c] # NoEpid <=> vdevs[r][c] \in {m \in Mdevs : mdev[m].state = "open"}
  <2>1. CASE vdevs[r][c] = None
    BY <2>1, HypervisorAssumption DEF Inv, InUse
  <2>2. CASE vdevs[r][c] # None
    <3>1. PICK p \in Procs : Has(p, c) /\ Region(Vm(p)) = r
      BY <1>3, <2>2 DEF Inv, InUse
    <3>2. Vm(p) \in Mdevs
      BY ProcFacts
    <3>3. proc[p].pc \notin {"new", "gone"}
      BY <3>1 DEF Inv, Running, Has, Cpids, INVALID_CPID
    <3>4. mdev[Vm(p)].state = "open"
      BY <3>2, <3>3 DEF Inv, Running
    <3>5. vdevs[r][c] = Vm(p)
      BY <3>1 DEF Inv, Registered
    <3>6. QED
      BY <2>2, <3>2, <3>4, <3>5 DEF Inv, InUse
  <2>3. QED
    BY <2>1, <2>2
<1>4. QED
  BY <1>1, <1>2, <1>3, Zenon DEF OwnIdentifier

\* Whatever processes register, unregister and leave, whatever virtual machines come and
\* go: the devices of the first vFPGA have different identifiers (vcid_alloc of
\* hypervisor_vfpga_create), a process holds the thread identifier that was registered
\* for it (handle_bar2_write, handle_bar2_read and the guest's cpid_lock), and the
\* identifiers in use belong to open devices unless someone left without unregistering.
THEOREM IdentifiersBelong == Spec => []OwnIdentifier
<1>1. Inv => OwnIdentifier
  BY InvIdentifiers
<1>2. QED
  BY <1>1, Invariance, PTL
=============================================================================
