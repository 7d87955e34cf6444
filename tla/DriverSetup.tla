---------------------------- MODULE DriverSetup ----------------------------
(***************************************************************************)
(* How the drivers come up and go away.  pci_probe (one version for XDMA,  *)
(* one for QDMA cards), guest_probe of the guest driver and hypervisor_init *)
(* each acquire resources in a fixed order and, when one cannot be had,    *)
(* jump into a chain of error labels that gives back the earlier ones;     *)
(* pci_remove gives back all; a shell reconfiguration gives back what      *)
(* belongs to the shell (shell_pci_remove) and acquires it again for the   *)
(* new shell (shell_pci_init).                                             *)
(*                                                                         *)
(* A resource is a pair: what it is, and the index of the region, channel, *)
(* queue or vector it is for.  A set-up function is the sequence of        *)
(* resources it acquires (Gets), what it gives back itself when one of     *)
(* them fails (Undo) and what its counterpart gives back (Puts).  Every    *)
(* acquisition and every release is a step of its own, for interrupts,     *)
(* opened device files and the attributes under /sys are there meanwhile.  *)
(***************************************************************************)
EXTENDS Integers, Sequences, SequencesExt, FiniteSets

CONSTANTS
  MAX_N_REGIONS,   \* regions a shell may have
  MAX_NUM_CHANNELS,\* channels pci_probe looks for engines on
  N_ACTIVE_QUEUES, \* QDMA queues per direction
  N_MEM_BLOCKS,    \* blocks of card memory
  Shells,          \* the shells the card may be loaded with
  Addresses,       \* network addresses and start-up times; 0 is the module's parameter
  MaxReloads,      \* shell reconfigurations in a run
  Writers,         \* processes that write the attributes, per environment
  Platforms,       \* "xdma", "qdma", "guest", "mdev"
  Environments     \* sets of mishaps

ASSUME BoundsAssumption ==
  /\ MAX_N_REGIONS \in Nat /\ MAX_NUM_CHANNELS \in Nat
  /\ N_ACTIVE_QUEUES \in Nat /\ N_MEM_BLOCKS \in Nat /\ MaxReloads \in Nat
  /\ Shells \subseteq [n_regions : 1..MAX_N_REGIONS, n_chan : 1..MAX_NUM_CHANNELS,
                       mem : BOOLEAN, wb : BOOLEAN, net : BOOLEAN]
  /\ 0 \in Addresses
  /\ DOMAIN Writers = Environments

(***************************************************************************)
(* The mishaps: a checked acquisition fails; an unchecked one fails; the   *)
(* card lacks an engine; a process keeps a device file open across a shell *)
(* reconfiguration, or opens one while the driver is not up.               *)
(***************************************************************************)
Mishaps == {"fail", "unchecked", "missing", "busy", "early"}

VARIABLES
  env,      \* the mishaps of this behaviour
  platform, \* the driver
  phase,    \* what the driver is doing, or has done
  pos,      \* the set-up function of the probe or shell load at hand
  got,      \* the acquisitions it has made
  todo,     \* the releases still to be made
  held,     \* the resources held
  lost,     \* the resources acquired again while an earlier one was held
  wrong,    \* the resources released while not held
  failed,   \* the set-up function that failed in the probe, or "none"
  stranded, \* a shell load failed after the old shell was taken down
  hw,       \* the shell on the card
  cfg,      \* bd_data: what read_shell_config has read
  files,    \* open device files: region and generation of vfpga_dev
  gen,      \* generations of vfpga_dev
  setting,  \* net_ip_addr and eost of bd_data
  reg,      \* the registers net_ip and reconfig_eost
  writer,   \* the writes of an address under way: sysfs and ioctl; crossed if the
            \* latest to begin met another, or a new shell
  reloads
vars == <<env, platform, phase, pos, got, todo, held, lost, wrong, failed,
          stranded, hw, cfg, files, gen, setting, reg, writer, reloads>>

NoConfig == [n_regions |-> 0, n_chan |-> 0, mem |-> FALSE, wb |-> FALSE, net |-> FALSE]

One(name) == <<name, 0>>
Indexed(name, n) == [k \in 1..n |-> <<name, k - 1>>]
Flat(f) == FlattenSeq(f)

-----------------------------------------------------------------------------
(* The set-up functions *)

\* engines of channel c: index 2c to the card, 2c + 1 to the host
Engines(c2h) ==
  SelectSeq([k \in 1..MAX_NUM_CHANNELS |-> <<"engine", 2 * (k - 1) + c2h>>],
            LAMBDA e : ~("missing" \in env /\ e[2] = 1))

probe_engines == Engines(0) \o Engines(1)

\* a faulty remove_engines: it does not look whether the engine was found
RemovesUnfound ==
  Flat([k \in 1..cfg.n_chan |-> <<<<"engine", 2 * k - 2>>, <<"engine", 2 * k - 1>>>>])

\* only the engines of channels below n_fpga_chan, which is 0 until the configuration is read
remove_engines ==
  SelectSeq(Flat([k \in 1..cfg.n_chan |-> <<<<"engine", 2 * k - 2>>, <<"engine", 2 * k - 1>>>>]),
            LAMBDA e : e \in held)

C2h(q) == q > N_ACTIVE_QUEUES

\* the descriptor context is written, and read back to see whether the queue runs
SoftwareContext(q) == <<<<"queue", q>>, <<"sw", q>>, <<"idl_stp_b", q>>>>

\* queues to the host also have a prefetch context, checked likewise
PrefetchContext(q) == IF C2h(q) THEN <<<<"pftch", q>>, <<"valid", q>>>> ELSE <<>>

CompletionContext(q) == <<<<"wrb", q>>>>

enable_queue(q) == SoftwareContext(q) \o PrefetchContext(q) \o CompletionContext(q)

enable_queues ==
  Flat([k \in 1..2 * N_ACTIVE_QUEUES + 1 |-> enable_queue(k - 1)]) \o <<One("mm")>>

ReleaseQueue(q) ==
  (IF C2h(q) THEN <<<<"pftch", q>>>> ELSE <<>>) \o <<<<"wrb", q>>, <<"sw", q>>, <<"queue", q>>>>

disable_queues ==
  Flat([k \in 1..2 * N_ACTIVE_QUEUES + 1 |->
          IF <<"queue", k - 1>> \in held /\ <<"wrb", k - 1>> \in held
            THEN ReleaseQueue(k - 1) ELSE <<>>]) \o <<One("mm")>>

allocate_card_resources ==
  IF cfg.mem
    THEN <<One("lblocks"), One("sblocks")>>
           \o Flat([k \in 1..N_MEM_BLOCKS |-> <<<<"lchunks", k - 1>>, <<"schunks", k - 1>>>>])
    ELSE <<>>

free_card_resources ==
  IF cfg.mem
    THEN Flat([k \in 1..N_MEM_BLOCKS |-> <<<<"lchunks", k - 1>>, <<"schunks", k - 1>>>>])
           \o <<One("lblocks"), One("sblocks")>>
    ELSE <<>>

vfpga_device(i) ==
  <<<<"map", i>>, <<"ctid_chunks", i>>, <<"pid_array", i>>, <<"pfault", i>>, <<"notify", i>>>>
    \o (IF cfg.wb THEN <<<<"wb", i>>, <<"uc", i>>>> ELSE <<>>)
    \o <<<<"dev", i>>, <<"cdev", i>>>>

setup_vfpga_devices == Flat([k \in 1..cfg.n_regions |-> vfpga_device(k - 1)])

teardown_vfpga_devices ==
  Flat([k \in 1..cfg.n_regions |->
          <<<<"dev", k - 1>>, <<"cdev", k - 1>>, <<"map", k - 1>>>>
            \o (IF cfg.wb THEN <<<<"wb", k - 1>>>> ELSE <<>>)
            \o <<<<"notify", k - 1>>, <<"pfault", k - 1>>,
                 <<"pid_array", k - 1>>, <<"ctid_chunks", k - 1>>>>])

irq_setup(reconfig) ==
  Indexed("irq", cfg.n_regions)
    \o (IF reconfig THEN <<One("irq_reconfig"), One("msix_vectors")>> ELSE <<>>)

irq_teardown(reconfig) ==
  Indexed("irq", cfg.n_regions) \o (IF reconfig THEN <<One("irq_reconfig")>> ELSE <<>>)

pci_check_msix == <<One("msix")>>
map_bars == Indexed("bar", 3)
unmap_bars == Indexed("bar", 3)

read_shell_config ==
  <<One("stlb_meta"), One("ltlb_meta")>> \o (IF hw.net THEN <<One("mac_addr")>> ELSE <<>>)

create_sysfs_entry == <<One("kobj"), One("group")>>
remove_sysfs_entry == <<One("group"), One("kobj")>>

alloc_reconfig_device == <<One("chrdev_r"), One("class_r"), One("reconfig_dev")>>
free_reconfig_device == <<One("reconfig_dev"), One("class_r"), One("chrdev_r")>>
setup_reconfig_device == <<One("dev_r"), One("cdev_r")>>
teardown_reconfig_device == <<One("dev_r"), One("cdev_r")>>

alloc_vfpga_devices == <<One("chrdev_v"), One("class_v"), One("vfpga_dev")>>
free_vfpga_devices == <<One("vfpga_dev"), One("class_v"), One("chrdev_v")>>

interrupts_enable == <<One("reconfig_mask"), One("user_mask")>>
interrupts_disable == <<One("user_mask"), One("reconfig_mask")>>

\* the guest driver: one vector is used
register_msix == <<One("msix"), One("irq_guest")>>

\* hypervisor_get_ops, the chunks and the registration of each region
hypervisor_region(i) ==
  <<<<"type_group", i>>, <<"name", i>>, <<"type_groups", i>>, <<"ops", i>>,
    <<"vcid_chunks", i>>, <<"mdev", i>>>>

hypervisor_init == Flat([k \in 1..MAX_N_REGIONS |-> hypervisor_region(k - 1)])

\* what a set-up function acquires, in order
Gets(s) ==
  CASE s = "msix"            -> pci_check_msix
    [] s = "bars"            -> map_bars
    [] s = "engines"         -> probe_engines
    [] s = "queues"          -> enable_queues
    [] s = "cnfg"            -> <<One("stat_cnfg"), One("shell_cnfg")>>
    [] s = "config"          -> read_shell_config
    [] s = "sysfs"           -> create_sysfs_entry
    [] s = "card"            -> allocate_card_resources
    [] s = "alloc_reconfig"  -> alloc_reconfig_device
    [] s = "setup_reconfig"  -> setup_reconfig_device
    [] s = "alloc_vfpga"     -> alloc_vfpga_devices
    [] s = "setup_vfpga"     -> setup_vfpga_devices
    [] s = "irq"             -> irq_setup(TRUE)
    [] s = "irq_user"        -> irq_setup(FALSE)
    [] s = "on"              -> interrupts_enable
    [] s = "iomap"           -> Indexed("iomap", 3)
    [] s = "ioremap"         -> Indexed("ioremap", 2)
    [] s = "register_msix"   -> register_msix
    [] s = "mdev"            -> hypervisor_init
    [] OTHER                 -> <<One(s)>>

\* the error labels of setup_vfpga_devices, from the one that is jumped to
UndoVfpga(name, i) ==
  LET before(n) == Indexed(n, i)
      from == CASE name = "cdev" -> 1 [] name \in {"wb", "uc"} -> 2 [] name = "notify" -> 3
                [] name = "pfault" -> 4 [] name = "pid_array" -> 5 [] OTHER -> 6
      wb(q) == IF cfg.wb THEN q ELSE <<>>
      labels == <<Flat([k \in 1..i |-> <<<<"dev", k - 1>>, <<"cdev", k - 1>>>>])
                    \o <<<<"map", i>>>> \o wb(<<<<"wb", i>>>>),
                  wb(before("wb")) \o <<<<"notify", i>>>>,
                  before("notify") \o <<<<"pfault", i>>>>,
                  before("pfault") \o <<<<"pid_array", i>>>>,
                  before("pid_array") \o <<<<"ctid_chunks", i>>>>,
                  before("ctid_chunks")>>
  IN  Flat(SubSeq(labels, from, 6))

\* the error labels of allocate_card_resources
UndoCard(name, i) ==
  CASE name = "lblocks" -> <<>>
    [] name = "sblocks" -> <<One("lblocks")>>
    [] OTHER -> (IF name = "schunks" THEN <<<<"lchunks", i>>>> ELSE <<>>)
                  \o Flat([k \in 1..i |-> <<<<"schunks", k - 1>>, <<"lchunks", k - 1>>>>])
                  \o <<One("sblocks"), One("lblocks")>>

\* a queue that fails its check, then the queues enabled before it
UndoQueues(name, q) ==
  (IF name = "queue" THEN <<>>
     ELSE (IF C2h(q) THEN <<<<"pftch", q>>>> ELSE <<>>) \o <<<<"sw", q>>, <<"queue", q>>>>)
    \o disable_queues

\* the error labels of hypervisor_get_ops, then the roll-back of hypervisor_init
UndoMdev(name, i) ==
  LET parts == <<"type_group", "name", "type_groups", "ops">>
      k == IF name \in ToSet(parts) THEN CHOOSE j \in 1..4 : parts[j] = name ELSE 1
  IN  Reverse([j \in 1..k - 1 |-> <<parts[j], i>>]) \o Reverse(Indexed("mdev", i))

\* the BARs mapped before the one that fails
UndoBars(i) == Indexed("bar", i)

\* the handlers requested before the one that fails
UndoIrq(name, i) ==
  IF name = "irq" THEN Reverse(Indexed("irq", i)) ELSE Indexed("irq", cfg.n_regions)

\* what a set-up function gives back itself when the acquisition of r fails
Undo(s, r) ==
  CASE s = "bars"        -> UndoBars(r[2])
    [] s = "engines"     -> remove_engines
    [] s = "queues"      -> UndoQueues(r[1], r[2])
    [] s = "card"        -> UndoCard(r[1], r[2])
    [] r[1] = "reconfig_dev" -> <<One("class_r"), One("chrdev_r")>>
    [] r[1] = "vfpga_dev"    -> <<One("class_v"), One("chrdev_v")>>
    [] s = "setup_reconfig"  -> <<One("dev_r")>>
    [] s = "setup_vfpga" -> UndoVfpga(r[1], r[2])
    [] s \in {"irq", "irq_user"} -> UndoIrq(r[1], r[2])
    [] s = "mdev"        -> UndoMdev(r[1], r[2])
    [] OTHER             -> <<>>

\* what its counterpart gives back
Puts(s) ==
  CASE s = "bars"           -> unmap_bars
    [] s = "engines"        -> remove_engines
    [] s = "queues"         -> disable_queues
    [] s \in {"mask", "cnfg", "config", "ioremap", "pid_array"} -> <<>>
    [] s = "sysfs"          -> remove_sysfs_entry
    [] s = "card"           -> free_card_resources
    [] s = "setup_reconfig" -> teardown_reconfig_device
    [] s = "alloc_reconfig" -> free_reconfig_device
    [] s = "alloc_vfpga"    -> free_vfpga_devices
    [] s = "setup_vfpga"    -> teardown_vfpga_devices
    [] s = "irq"            -> irq_teardown(TRUE)
    [] s = "irq_user"       -> irq_teardown(FALSE)
    [] s = "on"             -> interrupts_disable
    [] s = "register_msix"  -> <<One("msix")>>
    [] s = "mdev"           -> Indexed("mdev", MAX_N_REGIONS)
    [] OTHER                -> Gets(s)

-----------------------------------------------------------------------------
(* The probes, the shell load and the removals *)

Card == platform \in {"xdma", "qdma"}

XdmaShell == <<"config", "sysfs", "card", "alloc_vfpga", "setup_vfpga", "irq_user", "user_mask">>
QdmaShell == <<"config", "sysfs", "card", "alloc_vfpga", "setup_vfpga", "irq_user">>

XdmaProbe ==
  <<"bd_data", "enable", "msix", "regions", "bars", "mask", "engines", "cnfg", "config", "sysfs",
    "card", "alloc_reconfig", "setup_reconfig", "alloc_vfpga", "setup_vfpga", "irq", "on">>
QdmaProbe ==
  <<"bd_data", "enable", "msix", "regions", "bars", "mask", "cnfg", "queues", "config", "sysfs",
    "card", "alloc_reconfig", "setup_reconfig", "alloc_vfpga", "setup_vfpga", "irq">>
GuestProbe ==
  <<"chrdev", "cdev", "enable", "regions", "iomap", "ioremap", "register_msix", "pid_array", "device">>

ProbeStages == CASE platform = "xdma"  -> XdmaProbe
                 [] platform = "qdma"  -> QdmaProbe
                 [] platform = "guest" -> GuestProbe
                 [] OTHER              -> <<"mdev">>
ShellStages == IF platform = "xdma" THEN XdmaShell ELSE QdmaShell

Stages == IF phase = "reloading" THEN ShellStages ELSE ProbeStages
PutsOf(stages) == Flat([k \in DOMAIN stages |-> Puts(stages[k])])

(***************************************************************************)
(* The chain of error labels: every earlier set-up function, the last one  *)
(* first.  The device stays enabled when its regions were in use.  bd_data *)
(* belongs to the device (devm_kzalloc) and is handed to kfree, which it   *)
(* is not from, before the driver core gives it back.                      *)
(***************************************************************************)
ErrorChain ==
  PutsOf(SelectSeq(Reverse(SubSeq(Stages, 1, pos - 1)),
                   LAMBDA s : s # "bd_data" /\ ~(Card /\ s = "enable" /\ Stages[pos] = "regions")))
    \o (IF Card /\ phase = "probing" THEN <<One("kfree"), One("bd_data")>> ELSE <<>>)

\* a faulty shell_pci_remove: the interrupts go last
InterruptsLast ==
  PutsOf(<<"setup_vfpga", "alloc_vfpga", "card", "sysfs", "user_mask", "irq_user">>)

XdmaShellRemove ==
  PutsOf(<<"user_mask", "irq_user", "setup_vfpga", "alloc_vfpga", "card", "sysfs">>)
QdmaShellRemove ==
  PutsOf(<<"irq_user", "setup_vfpga", "alloc_vfpga", "card", "sysfs">>)
shell_pci_remove == IF platform = "xdma" THEN XdmaShellRemove ELSE QdmaShellRemove

XdmaRemove ==
  PutsOf(<<"on", "irq", "setup_vfpga", "alloc_vfpga", "setup_reconfig", "alloc_reconfig", "card",
           "sysfs", "engines", "bars", "regions", "msix", "enable", "bd_data">>)
QdmaRemove ==
  PutsOf(<<"irq", "setup_vfpga", "alloc_vfpga", "setup_reconfig", "alloc_reconfig", "card",
           "sysfs", "queues", "bars", "regions", "msix", "enable", "bd_data">>)

guest_remove ==
  PutsOf(<<"device", "iomap", "regions">>) \o <<One("irq_guest")>>
    \o PutsOf(<<"register_msix", "enable", "cdev", "chrdev">>)

Removal == CASE platform = "xdma"  -> XdmaRemove
             [] platform = "qdma"  -> QdmaRemove
             [] platform = "guest" -> guest_remove
             [] OTHER              -> Puts("mdev")

\* tests, and registers that are written for good
Tests == {"mask", "idl_stp_b", "valid", "mac_addr", "uc", "msix_vectors"}
\* register writes, and calls that look whether there is something to release
Idempotent == {"dev", "dev_r", "user_mask", "reconfig_mask", "mm", "sw", "pftch", "wrb"}
NeverFails == Idempotent \cup {"msix_vectors"}
\* calls whose result is used without a check, or asserted
Unchecked == {"class_r", "class_v", "stat_cnfg", "shell_cnfg", "map", "stlb_meta", "ltlb_meta",
              "iomap", "ioremap", "vcid_chunks"} \cup (IF Card THEN {} ELSE {"pid_array"})

\* A process that writes an attribute has stored the address in bd_data, or has also
\* read it back and holds the value it read.
Quiet == -2
Stored == -1

Init ==
  /\ env \in Environments /\ platform \in Platforms /\ hw \in Shells
  /\ phase = "unbound" /\ pos = 1 /\ got = 0 /\ todo = <<>>
  /\ held = {} /\ lost = {} /\ wrong = {} /\ failed = "none" /\ stranded = FALSE
  /\ cfg = NoConfig /\ files = {} /\ gen = 0
  /\ setting = [ip |-> 0, eost |-> 0] /\ reg = [ip |-> -1, eost |-> -1]
  /\ writer = [sysfs |-> [w \in Writers[env] |-> Quiet], ioctl |-> -1, crossed |-> FALSE] /\ reloads = 0

Users == <<files, setting, reg, writer>>

Writing == writer.ioctl # -1 \/ \E w \in Writers[env] : writer.sysfs[w] # Quiet

\* coyote_init, guest_init: the bus finds the card and calls the probe
Probe ==
  /\ phase = "unbound"
  /\ phase' = "probing"
  /\ UNCHANGED <<env, platform, pos, got, todo, held, lost, wrong, failed, stranded, hw, cfg,
                 gen, reloads>> /\ UNCHANGED Users

Wanted == Gets(Stages[pos])[got + 1]

\* a faulty read_shell_config: the address does not reach the register of the new shell
ForgetsRegister ==
  IF Stages[pos] = "config" /\ got = 0
    THEN /\ cfg' = hw
         /\ setting' = [ip |-> IF hw.net THEN 0 ELSE setting.ip, eost |-> 0]
         /\ reg' = [reg EXCEPT !.eost = 0]
    ELSE UNCHANGED <<cfg, setting, reg>>

\* the parameters of the module, written when the configuration is read
ReadConfig ==
  IF Stages[pos] = "config" /\ got = 0
    THEN /\ cfg' = hw
         /\ setting' = [ip |-> IF hw.net THEN 0 ELSE setting.ip, eost |-> 0]
         /\ reg' = [ip |-> IF hw.net THEN 0 ELSE reg.ip, eost |-> 0]
    ELSE UNCHANGED <<cfg, setting, reg>>

\* the next acquisition of the set-up function at hand succeeds
Acquire ==
  /\ phase \in {"probing", "reloading"} /\ pos <= Len(Stages) /\ got < Len(Gets(Stages[pos]))
  /\ got' = got + 1
  /\ ReadConfig
  /\ held' = IF Wanted[1] \in Tests THEN held ELSE held \cup {Wanted}
  /\ lost' = IF Wanted \in held THEN lost \cup {Wanted} ELSE lost
  /\ gen' = IF Wanted = One("vfpga_dev") THEN gen + 1 ELSE gen
  /\ UNCHANGED <<env, platform, phase, pos, todo, wrong, failed, stranded, hw, files, writer, reloads>>

NextStage ==
  /\ phase \in {"probing", "reloading"} /\ pos <= Len(Stages) /\ got = Len(Gets(Stages[pos]))
  /\ pos' = pos + 1 /\ got' = 0
  /\ phase' = IF pos = Len(Stages) THEN "up" ELSE phase
  /\ UNCHANGED <<env, platform, todo, held, lost, wrong, failed, stranded, hw, cfg, gen, reloads>>
  /\ UNCHANGED Users

(***************************************************************************)
(* A checked acquisition fails.  A probe that gets no bd_data returns 0,   *)
(* as if it had succeeded.                                                 *)
(***************************************************************************)
AcquireFails ==
  /\ phase \in {"probing", "reloading"} /\ pos <= Len(Stages) /\ got < Len(Gets(Stages[pos]))
  /\ "fail" \in env /\ failed = "none" /\ ~stranded
  /\ Wanted[1] \notin Unchecked \cup NeverFails
  /\ IF Wanted = One("bd_data")
       THEN /\ phase' = "hollow" /\ failed' = "bd_data"
            /\ UNCHANGED <<todo, stranded>>
       ELSE /\ todo' = Undo(Stages[pos], Wanted) \o ErrorChain
            /\ phase' = IF phase = "probing" THEN "failing" ELSE "refailing"
            /\ failed' = CASE phase = "reloading" -> "none"
                           [] Stages[pos] = "mdev" /\ Wanted[1] # "mdev" ->
                                IF Wanted[2] = 0 THEN "first_ops" ELSE "later_ops"
                           [] OTHER -> Stages[pos]
            /\ stranded' = (phase = "reloading")
  /\ UNCHANGED <<env, platform, pos, got, held, lost, wrong, hw, cfg, gen, reloads>>
  /\ UNCHANGED Users

\* an unchecked one fails: its result is used all the same
UncheckedFails ==
  /\ phase \in {"probing", "reloading"} /\ pos <= Len(Stages) /\ got < Len(Gets(Stages[pos]))
  /\ "unchecked" \in env /\ Wanted[1] \in Unchecked
  /\ phase' = "oops"
  /\ UNCHANGED <<env, platform, pos, got, todo, held, lost, wrong, failed, stranded, hw, cfg,
                 gen, reloads>> /\ UNCHANGED Users

\* removing the group of attributes waits for a write of one of them
Release ==
  /\ todo # <<>>
  /\ Head(todo) = One("group") => \A w \in Writers[env] : writer.sysfs[w] = Quiet
  /\ todo' = Tail(todo)
  /\ held' = held \ {Head(todo)}
  /\ wrong' = IF Head(todo) \in held \/ Head(todo)[1] \in Idempotent
                THEN wrong ELSE wrong \cup {Head(todo)}
  /\ UNCHANGED <<env, platform, phase, pos, got, lost, failed, stranded, hw, cfg, gen, reloads>>
  /\ UNCHANGED Users

\* hypervisor_init returns ret_val, which a failing hypervisor_get_ops has not set
Released ==
  /\ todo = <<>>
  /\ \/ /\ phase = "failing"
        /\ phase' \in (CASE failed = "first_ops" -> {"up", "failed"}
                          [] failed = "later_ops" -> {"up"}
                          [] OTHER -> {"failed"})
     \/ phase = "refailing" /\ phase' = "noshell"
     \/ phase = "removing" /\ phase' = "removed"
     \/ phase = "clearing" /\ phase' = "loading"
  /\ UNCHANGED <<env, platform, pos, got, todo, held, lost, wrong, failed, stranded, hw, cfg,
                 gen, reloads>> /\ UNCHANGED Users

(***************************************************************************)
(* IOCTL_RECONFIGURE_SHELL: the old shell is taken down, the card loads    *)
(* the new one, shell_pci_init sets it up, and its result is not looked    *)
(* at.  When the load cannot start, the call returns without a shell.      *)
(***************************************************************************)
ReconfigureShell ==
  /\ phase = "up" /\ Card /\ reloads < MaxReloads
  /\ files = {} \/ "busy" \in env
  /\ reloads' = reloads + 1
  /\ phase' = "clearing" /\ todo' = shell_pci_remove
  /\ UNCHANGED <<env, platform, pos, got, held, lost, wrong, failed, stranded, hw, cfg, gen>>
  /\ UNCHANGED Users

ShellLoaded ==
  /\ phase = "loading"
  /\ hw' \in Shells
  /\ reg' = [reg EXCEPT !.ip = -1]
  /\ writer' = [writer EXCEPT !.crossed = Writing]
  /\ phase' = "reloading" /\ pos' = 1 /\ got' = 0
  /\ UNCHANGED <<env, platform, todo, held, lost, wrong, failed, stranded, cfg, files, gen,
                 setting, reloads>>

ShellNotLoaded ==
  /\ phase = "loading" /\ "fail" \in env /\ failed = "none" /\ ~stranded
  /\ phase' = "noshell" /\ stranded' = TRUE
  /\ UNCHANGED <<env, platform, pos, got, todo, held, lost, wrong, failed, hw, cfg, gen, reloads>>
  /\ UNCHANGED Users

(***************************************************************************)
(* coyote_exit, guest_exit, hypervisor_exit: the kernel does not unload a  *)
(* module one of whose files is open.  Without bd_data there is nothing to *)
(* find the resources by.                                                  *)
(***************************************************************************)
RemoveDriver ==
  /\ phase \in {"up", "noshell", "hollow"} /\ files = {}
  /\ IF phase = "hollow" THEN phase' = "oops" /\ UNCHANGED todo
       ELSE phase' = "removing" /\ todo' = Removal
  /\ UNCHANGED <<env, platform, pos, got, held, lost, wrong, failed, stranded, hw, cfg, gen, reloads>>
  /\ UNCHANGED Users

-----------------------------------------------------------------------------
(* Meanwhile: device files, attributes *)

Rest == <<env, platform, pos, got, todo, held, lost, wrong, failed, stranded, hw, cfg, gen, reloads>>

\* what a call on a device file uses
FileUses == {One("vfpga_dev"), One("bd_data"), One("shell_cnfg")}

\* vfpga_dev_open: the file refers to the structure the cdev is part of
OpenFile(i) ==
  /\ Card /\ <<"cdev", i>> \in held /\ files = {}
  /\ phase = "up" \/ ("early" \in env /\ phase # "oops")
  /\ files' = {[region |-> i, gen |-> gen]}
  /\ UNCHANGED Rest /\ UNCHANGED <<phase, setting, reg, writer>>

CloseFile ==
  /\ files # {} /\ writer.ioctl = -1 /\ phase # "oops"
  /\ files' = {}
  /\ UNCHANGED Rest /\ UNCHANGED <<phase, setting, reg, writer>>

ReadsEngines == {<<"engine", e>> : e \in 0..2 * cfg.n_chan - 1}
ReadsStats == {One("shell_cnfg"), One("stat_cnfg")}
ReadsConfig == {One("stlb_meta"), One("ltlb_meta")}
ReadsQdma == {<<"bar", 1>>}

Attributes == {ReadsStats, ReadsConfig}
                \cup (IF platform = "xdma" THEN {ReadsEngines} ELSE {ReadsQdma})

\* an attribute is read: registers and structures, as long as the attributes are there
ShowAttribute ==
  /\ One("group") \in held /\ phase # "oops"
  /\ \E reads \in Attributes :
       phase' = IF reads \subseteq held THEN phase ELSE "oops"
  /\ UNCHANGED Rest /\ UNCHANGED Users

\* cyt_attr_ip_store: the address is stored in bd_data, whether or not the shell has a
\* network, ...
StoreIp(w, a) ==
  /\ One("group") \in held /\ phase # "oops" /\ writer.sysfs[w] = Quiet
  /\ setting' = [setting EXCEPT !.ip = a]
  /\ writer' = [writer EXCEPT !.sysfs[w] = Stored, !.crossed = Writing]
  /\ UNCHANGED Rest /\ UNCHANGED <<phase, files, reg>>

\* ... read back, ...
ReadBack(w) ==
  /\ writer.sysfs[w] = Stored
  /\ writer' = [writer EXCEPT !.sysfs[w] = setting.ip]
  /\ UNCHANGED Rest /\ UNCHANGED <<phase, files, setting, reg>>

\* ... and written to the register, all without a lock
StoredIp(w) ==
  /\ writer.sysfs[w] \in Addresses
  /\ reg' = [reg EXCEPT !.ip = writer.sysfs[w]]
  /\ writer' = [writer EXCEPT !.sysfs[w] = Quiet]
  /\ UNCHANGED Rest /\ UNCHANGED <<phase, files, setting>>

\* IOCTL_SET_IP_ADDRESS: the register first, then bd_data, under stat_lock
SetIp(a) ==
  /\ phase = "up" /\ cfg.net /\ files # {} /\ writer.ioctl = -1
  /\ reg' = [reg EXCEPT !.ip = a]
  /\ writer' = [writer EXCEPT !.ioctl = a, !.crossed = Writing]
  /\ UNCHANGED Rest /\ UNCHANGED <<phase, files, setting>>

SetDone ==
  /\ writer.ioctl # -1
  /\ setting' = [setting EXCEPT !.ip = writer.ioctl]
  /\ writer' = [writer EXCEPT !.ioctl = -1]
  /\ UNCHANGED Rest /\ UNCHANGED <<phase, files, reg>>

\* cyt_attr_eost_store: the register gets the parameter of the module
StoreEost(a) ==
  /\ One("group") \in held /\ phase # "oops"
  /\ setting' = [setting EXCEPT !.eost = a]
  /\ reg' = [reg EXCEPT !.eost = 0]
  /\ UNCHANGED Rest /\ UNCHANGED <<phase, files, writer>>

Next ==
  \/ Probe \/ Acquire \/ NextStage \/ AcquireFails \/ UncheckedFails
  \/ Release \/ Released
  \/ ReconfigureShell \/ ShellLoaded \/ ShellNotLoaded \/ RemoveDriver
  \/ \E i \in 0..MAX_N_REGIONS - 1 : OpenFile(i)
  \/ CloseFile \/ ShowAttribute
  \/ \E a \in Addresses : SetIp(a) \/ StoreEost(a)
  \/ \E w \in Writers[env] : ReadBack(w) \/ StoredIp(w) \/ \E a \in Addresses : StoreIp(w, a)
  \/ SetDone

Spec == Init /\ [][Next]_vars

-----------------------------------------------------------------------------
(* Properties *)

\* the register mappings and TLB descriptions are never given back, nor are
\* the engines of channels the shell does not use
NeverReleased ==
  {<<"stat_cnfg", 0>>, <<"shell_cnfg", 0>>, <<"stlb_meta", 0>>, <<"ltlb_meta", 0>>,
   <<"ioremap", 0>>, <<"ioremap", 1>>}
    \cup {r \in held : r[1] = "engine" /\ r[2] >= 2 * cfg.n_chan}
    \cup (IF platform = "guest" THEN {<<"pid_array", 0>>} ELSE {})
    \cup (IF platform = "mdev"
             THEN {r \in held : r[1] \in {"type_group", "name", "type_groups", "ops", "vcid_chunks"}}
             ELSE {})

\* what a failing set-up function leaves behind besides; setup_vfpga_devices, of the
\* regions before the one it failed in, all that its labels from there on do not name
LeftBehind(r) ==
  CASE failed = "regions" /\ Card -> r[1] = "enable"
    [] failed = "sysfs"           -> r[1] = "kobj"
    [] failed = "setup_vfpga"     -> LET at == setup_vfpga_devices[got + 1] IN
                                       /\ r[1] \in {"map", "dev", "cdev", "wb", "notify", "pfault", "pid_array"}
                                       /\ r[2] < at[2] \/ (r[2] = at[2] /\ r[1] \in {"map", "dev", "wb"})
    [] failed = "register_msix"   -> r[1] = "msix"
    [] failed = "device"          -> r[1] = "irq_guest"
    [] OTHER                      -> FALSE

(***************************************************************************)
(* pci_probe, guest_probe, hypervisor_init, pci_remove: a probe that fails *)
(* anywhere, and a removal, leave nothing behind but what is named above:  *)
(* no interrupt handler of a card, no card memory table and none of the    *)
(* device structures.  The error labels and the removals release nothing   *)
(* that is not held, also over shell reconfigurations that change the      *)
(* number of regions and channels.  Known exceptions: a failed probe hands *)
(* bd_data to kfree; a removal after a failed shell load, or after         *)
(* hypervisor_init reported success on a failure, releases everything a    *)
(* second time.                                                            *)
(***************************************************************************)
ReleasesOnce ==
  /\ (phase = "failed" \/ (phase = "removed" /\ ~stranded))
       => \A r \in held : r \in NeverReleased \/ LeftBehind(r)
  /\ \/ wrong = {}
     \/ failed # "none" /\ wrong = {One("kfree")}
     \/ stranded
     \/ failed \in {"first_ops", "later_ops"}

(***************************************************************************)
(* vfpga_isr, reconfig_isr, vfpga_dev_open, vfpga_dev_ioctl and the        *)
(* attributes of coyote_sysfs.c: while a handler can be called, the device *)
(* structure and the registers it uses are there, and a file refers to the *)
(* device structure it was opened on, at every step of a probe, a failed   *)
(* probe, a shell reconfiguration and a removal.  A process that keeps its *)
(* file over a shell reconfiguration, or opens it while the driver is not  *)
(* up, is not prevented from it.  No attribute reads through a pointer     *)
(* that is missing or released, unless an unchecked call failed, the card  *)
(* lacks an engine (which probe_engines compares with a number of channels *)
(* it has not read yet), or the probe got no bd_data and said it succeeded.*)
(***************************************************************************)
UsersHaveDevice ==
  /\ \A i \in 0..MAX_N_REGIONS - 1 :
       <<"irq", i>> \in held /\ ~stranded => {One("vfpga_dev"), <<"map", i>>} \subseteq held
  /\ One("irq_reconfig") \in held => {One("reconfig_dev"), One("stat_cnfg"), One("bd_data")} \subseteq held
  /\ \A f \in files : "busy" \in env \/ "early" \in env
                      \/ (FileUses \subseteq held /\ f.gen = gen)
  /\ phase = "oops" => "unchecked" \in env \/ "missing" \in env \/ failed = "bd_data"

(***************************************************************************)
(* cyt_attr_ip_store, IOCTL_SET_IP_ADDRESS, read_shell_config: the network *)
(* address the driver reports is the one the shell uses, also after shell  *)
(* reconfigurations and whatever attributes and ioctls wrote before, once  *)
(* a write has begun and ended alone: without another write beside it, and *)
(* without a shell reconfiguration in the middle of it.                    *)
(***************************************************************************)
AddressInForce ==
  phase = "up" /\ cfg.net /\ ~Writing /\ ~writer.crossed => reg.ip = setting.ip
=============================================================================
