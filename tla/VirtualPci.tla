------------------------------- MODULE VirtualPci -------------------------------
(***************************************************************************)
(* The PCI device the hypervisor module emulates for a virtual machine     *)
(* (contrib/vm/hypervisor/hypervisor_ops.c and hypervisor_interrupts.c):   *)
(* its configuration space, the regions it reports to the virtual machine  *)
(* monitor and what a trapped access to a region does.                     *)
(*                                                                         *)
(* A 32-bit register is the set of its bits that are one; a size is the    *)
(* logarithm of a number of bytes.                                         *)
(***************************************************************************)
EXTENDS Integers, FiniteSets, FiniteSetsExt

Word == 0 .. 31

AllOnes == Word

\* The bits of a base address that tell its type and cannot be written.
TypeBits == 0 .. 3

\* PCI_BASE_ADDRESS_MEM_TYPE_64 | PCI_BASE_ADDRESS_SPACE_MEMORY
Memory64 == {2}

\* The lower halves of the three 64-bit base addresses, and their upper halves.
Bars == {"bar0", "bar2", "bar4"}

\* COYOTE_HYPERVISOR_BAR0_SIZE and its siblings.
BarSize == [bar0 |-> 18, bar2 |-> 14, bar4 |-> 18]

\* VFIO_DEVICE_GET_REGION_INFO: the size of a region (none is -1) and whether the
\* virtual machine may map it.
RegionInfo(index) ==
  [size |-> IF index \in Bars THEN BarSize[index]
            ELSE IF index = "config" THEN 8 ELSE -1,
   mmap |-> index \in {"bar0", "bar4"}]

\* hypervisor_vfpga_mmap: the control registers are passed through.
Mmaps(index) == index \in {"bar0", "bar4"}

\* handle_bar0_access: within the region pos >> 20 is 0, which neither case covers.
Bar0Trap == "fails"

\* What a trapped access does: hypervisor_vfpga_read and hypervisor_vfpga_write hand
\* it to the region; BAR 4 ignores it, other regions do not exist.
Trap(index) ==
  CASE index = "bar0" -> Bar0Trap
    [] index \in {"bar2", "config"} -> "handled"
    [] OTHER -> "ignored"

\* guest_mmap: the region each area a guest process maps lies in, and where, in
\* quarters of 256 KiB.
GuestMmap ==
  [ctrl |-> [region |-> "bar0", first |-> 2, size |-> 1],
   cnfg |-> [region |-> "bar0", first |-> 3, size |-> 1],
   cnfg_avx |-> [region |-> "bar4", first |-> 0, size |-> 4]]

\* VFIO_DEVICE_GET_IRQ_INFO: NUM_INTERRUPTS vectors, of MSI-X alone.
IrqInfo(index) == IF index = "msix" THEN 1 ELSE 0

\* The lower half of ~(size - 1); the upper half is all ones.
SizeMask(bar) == {b \in Word : b >= BarSize[bar]}

\* Mutant: the type bits can be written.
BarForgetsType(reg, val, low) == val

cfg_bar_write(reg, val, low) ==
  IF low THEN (val \ TypeBits) \cup (reg \cap TypeBits) ELSE val

\* set_up_msix_header: the number of vectors less one, in the message control word.
set_up_msix_header(regs) == {b \in 0 .. 10 : ((regs - 1) \div 2^b) % 2 = 1}

\* set_pci_config with set_up_cap_section.  "control" is the message control word
\* of the MSI-X capability; "beyond" is the word as far behind the capability as the
\* capability is from the start.
set_pci_config ==
  [bar |-> [b \in Bars |-> SizeMask(b) \cup Memory64],
   upper |-> [b \in Bars |-> AllOnes],
   control |-> set_up_msix_header(1), beyond |-> {}]

\* A write to a base address; all ones asks for the size.
WriteLower(cfg, b, val) ==
  [cfg EXCEPT !.bar[b] =
     cfg_bar_write(@, IF val = AllOnes THEN SizeMask(b) \cup Memory64 ELSE val, TRUE)]

WriteUpper(cfg, b, val) ==
  [cfg EXCEPT !.upper[b] = cfg_bar_write(@, val, FALSE)]

\* write_to_msix_header is handed cap_section + MSIX_OFFSET, and cap_section itself
\* begins at MSIX_OFFSET: the word written is not the message control word.
write_to_msix_header(cfg, val) == [cfg EXCEPT !.beyond = val \cap {15}]

-----------------------------------------------------------------------------
\* What the guest's PCI core does with the device: it asks every base address for
\* its size, gives it an address, and enables MSI-X.
SizeRead(cfg, b) ==
  LET asked == WriteUpper(WriteLower(cfg, b, AllOnes), b, AllOnes)
  IN  Min(asked.bar[b] \ TypeBits)

Addressed(cfg, addr) ==
  LET step(c, b) == WriteUpper(WriteLower(c, b, addr[b]), b, {})
  IN  step(step(step(cfg, "bar0"), "bar2"), "bar4")

Enumerated(cfg, addr) == write_to_msix_header(Addressed(cfg, addr), {15})

\* The type of a base address as the guest reads it.
Is64Bit(cfg, b) == cfg.bar[b] \cap TypeBits = Memory64

=============================================================================
