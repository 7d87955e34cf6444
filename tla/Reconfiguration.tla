--------------------------- MODULE Reconfiguration ---------------------------
(***************************************************************************)
(* Run-time reconfiguration of the FPGA: cRcnfg::reconfigureBase in user   *)
(* space, the IOCTL_RECONFIGURE_SHELL and IOCTL_RECONFIGURE_APP handlers   *)
(* of the driver, reconfigure_start, which writes the pages of a bitstream *)
(* into the command FIFO of the static layer, and reconfig_isr, which      *)
(* wakes the handler up when the FPGA signals the end of start-up.         *)
(*                                                                         *)
(* It extends BitstreamMemory, which holds the buffers the bitstreams are  *)
(* read into.  The static layer is modelled from its registers: a FIFO of  *)
(* page descriptors and the PR_DONE bit, which drives the interrupt line   *)
(* until the driver clears it.                                             *)
(***************************************************************************)
EXTENDS BitstreamMemory, Sequences

CONSTANTS
  Vfids,              \* vFPGA identifiers
  TargetsOf,          \* what each object reconfigures
  PR_FIFO_DEPTH,      \* descriptors the FIFO of the static layer holds, also the
                      \* driver's RECONFIG_THRESHOLD
  MaxCalls            \* bound on the calls to reconfigure

\* reconfigureBase takes vfid = -1 for the whole shell.
Shell == -1

Targets == Vfids \cup {Shell}

ASSUME ReconfigurationAssumption ==
  /\ Vfids \subseteq Nat
  /\ TargetsOf \in [Objects -> SUBSET Targets]
  /\ PR_FIFO_DEPTH \in Nat \ {0}
  /\ MaxCalls \in Nat

VARIABLES
  calls,       \* calls to reconfigure so far
  bitstream,   \* the buffer each call passes, 0 when there is no call
  target,      \* the target of the call
  page,        \* the next page reconfigure_start writes
  rcnfg_lock,  \* the holder of the mutex of the device
  dcpl,        \* what is decoupled from the rest of the FPGA
  wait_rcnfg,  \* the flag the handler sleeps on
  pr_fifo,     \* page descriptors not yet loaded
  pr_done,     \* PR_DONE of the static layer: the interrupt is asserted
  loaded       \* what each target holds: n pages, from the first, of a buffer

call == <<calls, bitstream, target, page>>
device == <<rcnfg_lock, dcpl, wait_rcnfg>>
static == <<pr_fifo, pr_done, loaded>>
vars == <<pc, memory, call, device, static>>

Init ==
  /\ MemoryInit
  /\ calls = 0
  /\ bitstream = [c \in Objects |-> 0]
  /\ target = [c \in Objects |-> None]
  /\ page = [c \in Objects |-> 0]
  /\ rcnfg_lock = None
  /\ dcpl = {}
  /\ wait_rcnfg = FALSE
  /\ pr_fifo = <<>>
  /\ pr_done = FALSE
  /\ loaded = [t \in Targets |-> [pages |-> 0, n |-> 0]]

\* A bitstream is read into a buffer once and may be loaded again and again.
reconfigureBase(c, t) ==
  /\ pc[c] = "idle"
  /\ calls < MaxCalls
  /\ t \in TargetsOf[c]
  /\ \E a \in mapped_pages[c]: bitstream' = [bitstream EXCEPT ![c] = a]
  /\ calls' = calls + 1
  /\ target' = [target EXCEPT ![c] = t]
  /\ Goto(c, "reconfigure")
  /\ UNCHANGED <<memory, page, device, static>>

\* Mutant: the mutex is not taken.
LockIgnored == TRUE

LockFree == rcnfg_lock = None

Decoupled(t) == dcpl \cup {t}

\* mutex_lock and the write of the decoupling register
Decouple(c) ==
  /\ pc[c] = "reconfigure"
  /\ "fixed" \notin env
  /\ LockFree
  /\ rcnfg_lock' = c
  /\ dcpl' = Decoupled(target[c])
  /\ Goto(c, "start")
  /\ UNCHANGED <<memory, call, wait_rcnfg, static>>

\* The call returns.
Return(c) ==
  /\ Goto(c, "idle")
  /\ target' = [target EXCEPT ![c] = None]
  /\ bitstream' = [bitstream EXCEPT ![c] = 0]
  /\ page' = [page EXCEPT ![c] = 0]
  /\ UNCHANGED <<memory, calls, static>>

\* en_shell_pblock or en_pr is not set.
Refused(c) ==
  /\ pc[c] = "reconfigure"
  /\ "fixed" \in env
  /\ Return(c)
  /\ UNCHANGED device

\* The entry reconfigure_start looks for
Buffers(c) ==
  {b \in reconfig_buffs_map:
     b.vaddr = bitstream[c] /\ b.pid = PidOf[c] /\ b.crid = CridOf[c]}

\* reconfigure_start finds no such entry and returns 1: the handler returns -1
\* as it is, mutex held and target decoupled.
StartFails(c) ==
  /\ pc[c] = "start"
  /\ Buffers(c) = {}
  /\ Return(c)
  /\ UNCHANGED device

\* The control register has no back-pressure: a full FIFO drops the descriptor.
Pushed(d) == IF Len(pr_fifo) < PR_FIFO_DEPTH THEN Append(pr_fifo, d) ELSE pr_fifo

\* One page of reconfigure_start.  cmd_sent starts at 0 and is incremented only
\* after the last page, so the two loops that wait for the FIFO to drain are
\* never entered.  RECONFIG_CTRL_START_LAST also carries the bit that clears
\* PR_DONE.
WritePage(c) ==
  LET last == page[c] = size[bitstream[c]] - 1
  IN  /\ pc[c] = "start"
      /\ \E b \in Buffers(c):
           pr_fifo' = Pushed([pages |-> b.pages, page |-> page[c], target |-> target[c],
                              last |-> last])
      /\ pr_done' = (pr_done /\ ~last)
      /\ page' = [page EXCEPT ![c] = @ + 1]
      /\ Goto(c, IF last THEN "wait" ELSE "start")
      /\ UNCHANGED <<memory, calls, bitstream, target, device, loaded>>

\* What a target holds after one more page: nothing of use once a page is missing.
OneMore(h, p) ==
  [pages |-> p.pages,
   n |-> IF p.page = 0 \/ h = [pages |-> p.pages, n |-> p.page] THEN p.page + 1 ELSE 0]

\* The static layer reads a page from the host and loads it; the last one ends
\* with the end-of-start-up pulse, which sets PR_DONE.
LoadPage ==
  LET p == Head(pr_fifo)
  IN  /\ pr_fifo # <<>>
      /\ pr_fifo' = Tail(pr_fifo)
      /\ pr_done' = (pr_done \/ p.last)
      /\ loaded' = [loaded EXCEPT ![p.target] = OneMore(@, p)]
      /\ UNCHANGED <<pc, memory, call, device>>

\* Mutant: the routine takes the interrupt for somebody else's.
isr_returns_none == pr_done /\ UNCHANGED vars

reconfig_isr ==
  /\ pr_done
  /\ wait_rcnfg' = TRUE
  /\ pr_done' = FALSE
  /\ UNCHANGED <<pc, memory, call, rcnfg_lock, dcpl, pr_fifo, loaded>>

\* Mutant: the coupling register is not written.
CoupledNothing(c) == {}

\* What the handler couples: the shell, in which the register of the vFPGAs starts
\* anew, or the bit of tmp[3], the crid, where Decouple took that of the vFPGA.
CoupledBits(c) == IF target[c] = Shell THEN Targets ELSE {CridOf[c]}

\* Mutant: the flag is not cleared after the wait.
FlagKept == wait_rcnfg

FlagAfterWait == FALSE

\* The handler leaves the wait, clears the flag, couples and unlocks.
Couple(c) ==
  /\ pc[c] = "wait"
  /\ wait_rcnfg' = FlagAfterWait
  /\ dcpl' = dcpl \ CoupledBits(c)
  /\ rcnfg_lock' = None
  /\ Return(c)

WaitDone(c) == wait_rcnfg /\ Couple(c)

\* wait_event_interruptible returns -ERESTARTSYS, which the handler ignores; the
\* signal may be the one that kills the process.
WaitInterrupted(c) ==
  /\ env \cap {"signal", "death"} # {}
  /\ ~wait_rcnfg
  /\ Couple(c)

Next ==
  \/ MemoryNext /\ UNCHANGED <<call, device, static>>
  \/ \E c \in Objects:
       \/ \E t \in Targets: reconfigureBase(c, t)
       \/ Decouple(c)
       \/ Refused(c)
       \/ StartFails(c)
       \/ WritePage(c)
       \/ WaitDone(c)
       \/ WaitInterrupted(c)
  \/ LoadPage
  \/ reconfig_isr

Spec == Init /\ [][Next]_vars

\* What goes on by itself: a thread inside getMem, the destructor or the driver,
\* the FPGA and its interrupt.
Progress ==
  \/ \E c \in Objects:
       \/ /\ \/ getMemStep(c)
             \/ \E a \in 1 .. MaxAllocs: freeMem(c, a)
             \/ RemoveMutex(c)
          /\ UNCHANGED <<call, device, static>>
       \/ Decouple(c)
       \/ Refused(c)
       \/ WritePage(c)
       \/ WaitDone(c)
  \/ LoadPage
  \/ reconfig_isr

\* The calls are bounded, so a behaviour has finitely many steps: it ends only
\* where none of these is enabled, which is the weak fairness of each of them.

FairSpec == Spec /\ WF_vars(Progress)

-----------------------------------------------------------------------------
\* No signal ends a wait, and there is one named mutex.
Undisturbed == env \cap {"signal", "death", "reopen"} = {}

(* "there is only ever one reconfiguration happening at a time"             *)
(* (coyote_defs.h, rcnfg_lock): the pages in the FIFO all come from the     *)
(* buffer of the call that holds the mutex, so two bitstreams are never     *)
(* interleaved; what they are loaded into is decoupled from the rest of the *)
(* FPGA and the pages are still allocated, although the FPGA reads them     *)
(* after reconfigure_start has returned.  A handler that a signal wakes up  *)
(* leaves early, with pages in the FIFO, and its object may free them; a    *)
(* second named mutex lets an object free the pages of another.             *)
WholeBitstreams ==
  Undisturbed => \A i \in 1 .. Len(pr_fifo):
    /\ rcnfg_lock # None
    /\ \E b \in Buffers(rcnfg_lock): b.pages = pr_fifo[i].pages
    /\ pr_fifo[i].target \in dcpl
    /\ pr_fifo[i].pages \in live

(* "Couple and unlock mutex": between reconfigurations the shell is coupled, *)
(* and so is every vFPGA, except one that an object with another crid than   *)
(* the number of the vFPGA reconfigures: the handler couples the vFPGA of    *)
(* the crid.  The scheduler has crid 0 in most programs, whatever vFPGA it   *)
(* serves.                                                                   *)
CoupledWhenIdle ==
  rcnfg_lock = None =>
    \A t \in dcpl: \E o \in Objects: t \in TargetsOf[o] \ {Shell, CridOf[o]}

(* "Reconfigure and wait until completion": when the handler returns 0 the  *)
(* bitstream the object read has been loaded into the target, every page of *)
(* it, if it fits the FIFO, unless a signal ended a wait or two named       *)
(* mutexes let the buffers be mixed up.                                     *)
CompletedIsLoaded ==
  [][\A c \in Objects:
       /\ Undisturbed
       /\ pc[c] = "wait" /\ pc'[c] = "idle"
       /\ size[bitstream[c]] <= PR_FIFO_DEPTH
       => loaded[target[c]] = [pages |-> bitstream[c], n |-> size[bitstream[c]]]]_vars

(* The last descriptor of a bitstream with more pages than the FIFO was     *)
(* dropped: its handler waits for an interrupt that will not come.          *)
LastPageLost ==
  /\ pr_fifo = <<>> /\ ~pr_done /\ ~wait_rcnfg
  /\ \E c \in Objects: pc[c] = "wait" /\ size[bitstream[c]] > PR_FIFO_DEPTH

(* Every call to reconfigure returns: its buffer is found, the mutex is     *)
(* handed on, and each wait gets its interrupt, unless a bitstream that did *)
(* not fit the FIFO lost its last page, since nothing throttles             *)
(* reconfigure_start: then that call and all after it wait for ever.        *)
(* Buffers mixed up through a second named mutex, which make                *)
(* reconfigure_start fail with the driver's mutex locked, are left out.     *)
(* The destructor, which frees the buffers one by one under the named       *)
(* mutex, ends too if no exception left it locked.                          *)
CallReturns ==
  \A c \in Objects:
    /\ Undisturbed /\ pc[c] = "reconfigure" ~> pc[c] = "idle" \/ LastPageLost
    /\ NothingThrows /\ pc[c] = "free" ~> pc[c] = "gone"
=============================================================================
