------------------------------- MODULE Thread -------------------------------
(***************************************************************************)
(* A cThread on the hardware target (sw/src/cThread.cpp): how it posts     *)
(* commands to the registers of its vFPGA and counts their completions,    *)
(* how it owns buffers, and how two of them set up and release an RDMA     *)
(* connection over an out-of-band socket.  The vFPGA's register file, its  *)
(* command queue, its completion counters and their write-back             *)
(* (cnfg_slave.sv) are modelled as far as the class uses them.             *)
(*                                                                         *)
(* A register holds a word: the call that wrote it, and the address or the *)
(* control bits it carries.  The threads of one node share one vFPGA and   *)
(* one process; lengths, offsets and what buffers hold are left out.       *)
(***************************************************************************)
EXTENDS Naturals, Sequences, FiniteSets

CONSTANTS
  Threads,         \* the cThread objects
  Node,            \* the node of each: its process and its vFPGA
  Client, Server,  \* the threads that connect for RDMA
  Addrs,           \* addresses an allocation may return
  Null,            \* the null pointer
  NoOne,           \* no thread
  CMD_FIFO_DEPTH,  \* commands the queue of a vFPGA holds
  CMD_FIFO_THR,    \* and how many of them postCmd leaves unused
  Active,          \* the threads a behaviour constructs, per environment
  Ops,             \* the operations they invoke, likewise
  MaxCalls,        \* invocations and clears of each thread, likewise (bound)
  Environments     \* shell configurations, with the mishaps met

(* The shell's configuration (struct fpgaCnfg).                            *)
Features == {"en_avx", "en_wb", "en_strm", "en_mem", "en_rdma", "en_tcp", "EN_GPU"}

(* What may happen besides programs that are written like the examples:    *)
(*   unlocked  threads share the vFPGA without lock()                      *)
(*   joins     a thread is constructed while others post                   *)
(*   busy      counters are cleared while completions are under way        *)
(*   early     memory is released while commands are under way             *)
(*   free      the program itself calls freeMem                            *)
(*   badargs   an overload of invoke is given what it refuses              *)
(*   nomem     an allocation fails                                         *)
(*   mapfail   the driver cannot map a buffer or the registers             *)
(*   offset    memory of the GPU starts pages into its DMA buffer          *)
(*   nosync    client and server do not meet before they close             *)
(*   netfail   a socket cannot be made, bound, accepted or written to      *)
(*   first     the client may come before the server listens               *)
(*   loop      client and server have the same IP address                  *)
Mishaps == {"unlocked", "joins", "busy", "early", "free", "badargs", "nomem", "mapfail", "offset", "nosync", "netfail", "first", "loop"}

ASSUME ThreadAssumption ==
  /\ {Client, Server} \subseteq Threads /\ Client # Server
  /\ IsFiniteSet(Threads)
  /\ NoOne \notin Threads /\ Null \notin Addrs
  /\ {CMD_FIFO_DEPTH, CMD_FIFO_THR} \subseteq Nat
  /\ CMD_FIFO_THR \in 1..CMD_FIFO_DEPTH
  /\ \A e \in Environments : e \subseteq Features \cup Mishaps
  /\ Active \in [Environments -> SUBSET Threads] /\ DOMAIN Ops = Environments
  /\ MaxCalls \in [Environments -> Nat]

VARIABLES
  env,           \* the configuration and the mishaps of this behaviour
  th,            \* the threads: where each is, and its private fields
  mapped_pages,  \* the allocations of each thread, by address
  vlock,         \* the inter-process lock of each vFPGA
  heap,          \* what each process has allocated, and for which thread
  refreed,       \* memory was released that was not held
  tlb,           \* the buffers each driver has mapped
  hw,            \* each vFPGA's registers, queue, commands and counters
  wback,         \* the counters in the write-back memory of each thread
  qpair,         \* the buffer addresses in each thread's queue pair
  sock,          \* each thread's sockets: sockfd, connfd, is_connected
  wire           \* what was sent to each thread over the connection

vars == <<env, th, mapped_pages, vlock, heap, refreed, tlb, hw, wback, qpair, sock, wire>>
memory == <<mapped_pages, heap, refreed, tlb>>
network == <<qpair, sock, wire>>

Nodes == {Node[t] : t \in Threads}
On(f) == f \in env
Peer(t) == IF t = Client THEN Server ELSE Client
Remote(t) == On("en_rdma") /\ t \in {Client, Server}

-----------------------------------------------------------------------------
(* The operations (cOps.hpp).                                              *)

CoyoteOper == {"LOCAL_READ", "LOCAL_WRITE", "LOCAL_TRANSFER", "LOCAL_OFFLOAD", "LOCAL_SYNC",
               "REMOTE_RDMA_READ", "REMOTE_RDMA_WRITE", "REMOTE_RDMA_SEND", "REMOTE_TCP_SEND"}

isLocalRead(oper) == oper \in {"LOCAL_READ", "LOCAL_TRANSFER"}
isLocalWrite(oper) == oper \in {"LOCAL_WRITE", "LOCAL_TRANSFER"}
isLocalSync(oper) == oper \in {"LOCAL_OFFLOAD", "LOCAL_SYNC"}
isRemoteRdma(oper) == oper \in {"REMOTE_RDMA_WRITE", "REMOTE_RDMA_READ", "REMOTE_RDMA_SEND"}
isRemoteRead(oper) == oper = "REMOTE_RDMA_READ"
isRemoteWriteOrSend(oper) == oper \in {"REMOTE_RDMA_SEND", "REMOTE_RDMA_WRITE"}
isRemoteTcp(oper) == oper = "REMOTE_TCP_SEND"

(* Where the completions of local reads and writes, and of remote ones,    *)
(* are counted (the write-back regions).                                   *)
Counters == {"RD_WBACK", "WR_WBACK", "RD_RDMA_WBACK", "WR_RDMA_WBACK"}
Present == Counters \ IF On("en_rdma") THEN {} ELSE {"RD_RDMA_WBACK", "WR_RDMA_WBACK"}
NoCompletions == [k \in Counters |-> 0]

(* The counters a completed operation advances.                            *)
Advances(oper) ==
  (IF isLocalRead(oper) THEN {"RD_WBACK"} ELSE {}) \cup (IF isLocalWrite(oper) THEN {"WR_WBACK"} ELSE {})
  \cup (IF isRemoteRead(oper) THEN {"RD_RDMA_WBACK"} ELSE {}) \cup (IF isRemoteWriteOrSend(oper) THEN {"WR_RDMA_WBACK"} ELSE {})

(* The one a program looks at to learn that it is complete.                *)
CounterOf(oper) ==
  CASE isLocalWrite(oper) -> "WR_WBACK"
    [] isRemoteRead(oper) -> "RD_RDMA_WBACK"
    [] isRemoteWriteOrSend(oper) -> "WR_RDMA_WBACK"
    [] OTHER -> "RD_WBACK"

-----------------------------------------------------------------------------
(* The registers of the vFPGA.  A control word says what it starts:        *)
(* "start" a local transfer, "rdma" or "tcp" a remote one, "local" is the  *)
(* local side of an RDMA command (no CTRL_START), "clear" is CTRL_CLR_STAT.*)

Word(t, v) == [by |-> t, call |-> th[t].left, v |-> v]
Zero(t) == Word(t, "zero")
Started(w) == w.v \in {"start", "rdma", "tcp"}

(* What postCmd is given: offs_3, offs_2, offs_1 and offs_0.               *)
Command(wr, wctrl, rd, rctrl) == [VADDR_WR |-> wr, CTRL_2 |-> wctrl, VADDR_RD |-> rd, CTRL |-> rctrl]

(* The counter a part of a command advances when it is complete.           *)
ReadCounter(c) == IF c.CTRL.v = "rdma" THEN "RD_RDMA_WBACK" ELSE "RD_WBACK"
WriteCounter(c) == IF c.CTRL_2.v = "rdma" THEN "WR_RDMA_WBACK" ELSE "WR_WBACK"

(* The counters of a clear, with the write-back each of them causes.       *)
Cleared(h, w, ks) ==
  IF w.v # "clear" THEN h
  ELSE [h EXCEPT !.stat[w.by] = [k \in Counters |-> IF k \in ks THEN 0 ELSE @[k]],
                 !.done[w.by] = [k \in Counters |-> IF k \in ks THEN 0 ELSE @[k]],
                 !.wbq = [k \in Counters |-> IF k \in ks \cap Present /\ On("en_wb") THEN Append(@[k], <<w.by, 0>>) ELSE @[k]]]

(* A write of the control register: with what the other registers hold it  *)
(* is a command, which the queue drops when it is full, or a clear.        *)
Triggered(h, r) ==
  LET q == [h EXCEPT !.regs = r,
                     !.fifo = IF (Started(r.CTRL) \/ Started(r.CTRL_2)) /\ Len(@) < CMD_FIFO_DEPTH THEN Append(@, r) ELSE @,
                     !.lost = @ \/ ((Started(r.CTRL) \/ Started(r.CTRL_2)) /\ Len(h.fifo) = CMD_FIFO_DEPTH)]
  IN Cleared(Cleared(q, r.CTRL, {"RD_WBACK", "RD_RDMA_WBACK"}), r.CTRL_2, {"WR_WBACK", "WR_RDMA_WBACK"})

(* The vFPGA takes the oldest command of its queue.                        *)
Take(n) ==
  /\ hw[n].fifo # <<>>
  /\ LET c == Head(hw[n].fifo)
     IN hw' = [hw EXCEPT ![n].fifo = Tail(@),
                         ![n].work = @ \cup {[c |-> c, rd |-> Started(c.CTRL), wr |-> Started(c.CTRL_2)]}]
  /\ UNCHANGED <<env, th, vlock, wback, memory, network>>

(* Commands under way, of which a part is not complete.                    *)
Left(w, rd, wr) == IF rd \/ wr THEN {[w EXCEPT !.rd = rd, !.wr = wr]} ELSE {}

(* A completion advances the counter of the thread the control word names, *)
(* and writes it back.  What is stored for a remote read is computed from  *)
(* the counter of the remote writes.  A remote completion is written back  *)
(* to an address made of its whole acknowledgement, not of the identifier  *)
(* in it, and so never reaches the counter the thread reads.               *)
Counted(h, t, k) ==
  LET from == IF k = "RD_RDMA_WBACK" THEN "WR_RDMA_WBACK" ELSE k
  IN [h EXCEPT !.stat[t][k] = h.stat[t][from] + 1,
               !.done[t][k] = @ + 1,
               !.wbq[k] = IF On("en_wb") /\ k \in {"RD_WBACK", "WR_WBACK"} THEN Append(@, <<t, h.stat[t][k] + 1>>) ELSE @]

ReadDone(n) ==
  \E w \in hw[n].work :
    /\ w.rd
    /\ LET h == [hw[n] EXCEPT !.work = (@ \ {w}) \cup Left(w, FALSE, w.wr)]
       IN hw' = [hw EXCEPT ![n] = Counted(h, w.c.CTRL.by, ReadCounter(w.c))]
    /\ UNCHANGED <<env, th, vlock, wback, memory, network>>

(* The vFPGA writes what it has read; a TCP send is not counted.           *)
WriteDone(n) ==
  \E w \in hw[n].work :
    /\ w.wr /\ ~w.rd
    /\ LET h == [hw[n] EXCEPT !.work = @ \ {w}]
       IN hw' = [hw EXCEPT ![n] = IF w.c.CTRL_2.v = "tcp" THEN h ELSE Counted(h, w.c.CTRL_2.by, WriteCounter(w.c))]
    /\ UNCHANGED <<env, th, vlock, wback, memory, network>>

(* A write-back reaches the host's memory: in order for each counter.      *)
WriteBack(n) ==
  \E k \in Counters :
    /\ hw[n].wbq[k] # <<>>
    /\ wback' = [wback EXCEPT ![Head(hw[n].wbq[k])[1]][k] = Head(hw[n].wbq[k])[2]]
    /\ hw' = [hw EXCEPT ![n].wbq[k] = Tail(@)]
    /\ UNCHANGED <<env, th, vlock, memory, network>>

(* The commands of a thread the vFPGA has, and what is on its way back.    *)
Mine(t) ==
  LET h == hw[Node[t]]
  IN {c \in {h.fifo[i] : i \in DOMAIN h.fifo} \cup {w.c : w \in h.work} : t \in {c.CTRL.by, c.CTRL_2.by}}

Quiet(t) ==
  /\ Mine(t) = {}
  /\ \A k \in Counters : \A i \in DOMAIN hw[Node[t]].wbq[k] : hw[Node[t]].wbq[k][i][1] # t

-----------------------------------------------------------------------------
(* The threads of a program, and how they take turns at their vFPGA.       *)

At(t, pc) == th[t].pc = pc
Goto(t, pc) == th' = [th EXCEPT ![t].pc = pc]

(* An exception leaves the scope of the object, which is destroyed.        *)
Throw(t) == Goto(t, "dtor")

Neighbours(t) == {u \in Active[env] \ {t} : Node[u] = Node[t]}

(* A vFPGA without AVX registers takes one command at a time: its threads  *)
(* hold the lock.                                                          *)
MyTurn(t) ==
  /\ On("en_avx") \/ On("unlocked") \/ Neighbours(t) = {} \/ vlock[Node[t]] = t
  /\ On("joins") \/ \A u \in Neighbours(t) : ~At(u, "none") /\ ~th[u].fresh

(* The constructor maps the registers and clears the counters; if it       *)
(* throws, there is no object, and no destructor runs.                     *)
mmapFpga(t) ==
  /\ t \in Active[env]
  /\ At(t, "none")
  /\ On("joins") \/ \A u \in Neighbours(t) : ~th[u].fresh
  /\ \/ th' = [th EXCEPT ![t].pc = "clear", ![t].fresh = TRUE]
     \/ On("mapfail") /\ th' = [th EXCEPT ![t].pc = "gone"]
  /\ UNCHANGED <<env, vlock, hw, wback, memory, network>>

(* lock() and unlock(): the thread remembers whether it holds the lock.    *)
lock(t) ==
  /\ At(t, "ready") /\ th[t].stage = "run"
  /\ ~On("en_avx") /\ Neighbours(t) # {} /\ vlock[Node[t]] = NoOne
  /\ th[t].left > 0
  /\ vlock' = [vlock EXCEPT ![Node[t]] = t]
  /\ th' = [th EXCEPT ![t].since = th[t].left]
  /\ UNCHANGED <<env, hw, wback, memory, network>>

unlock(t) ==
  /\ At(t, "ready")
  /\ vlock[Node[t]] = t /\ th[t].left < th[t].since
  /\ vlock' = [vlock EXCEPT ![Node[t]] = NoOne]
  /\ UNCHANGED <<env, th, hw, wback, memory, network>>

-----------------------------------------------------------------------------
(* postCmd: waits until the queue has room as far as this thread knows,    *)
(* and writes four registers, of which the last one triggers the command.  *)

WriteReg(t, reg, next) ==
  /\ hw' = [hw EXCEPT ![Node[t]].regs[reg] = th[t].cmd[reg]]
  /\ Goto(t, next)

Posted(t, h) ==
  /\ hw' = [hw EXCEPT ![Node[t]] = h]
  /\ th' = [th EXCEPT ![t].pc = "ready", ![t].cmd = <<>>, ![t].cmd_cnt = @ + 1]

CheckRoom(t) ==
  /\ At(t, "post")
  /\ IF th[t].cmd_cnt > CMD_FIFO_DEPTH - CMD_FIFO_THR
       THEN th' = [th EXCEPT ![t].cmd_cnt = Len(hw[Node[t]].fifo)]
       ELSE Goto(t, "write")
  /\ UNCHANGED <<env, vlock, hw, wback, memory, network>>

(* Mutant: the control register is written before the read address.        *)
ControlFirst(t) ==
  LET h == hw[Node[t]]
  IN /\ \/ At(t, "write") /\ On("en_avx") /\ Posted(t, Triggered(h, th[t].cmd))
        \/ At(t, "write") /\ ~On("en_avx") /\ WriteReg(t, "VADDR_WR", "w2")
        \/ At(t, "w2") /\ WriteReg(t, "CTRL_2", "w1")
        \/ At(t, "w1") /\ Posted(t, Triggered(h, [h.regs EXCEPT !.CTRL = th[t].cmd.CTRL]))
     /\ UNCHANGED <<env, vlock, wback, memory, network>>

postCmd(t) ==
  LET h == hw[Node[t]]
  IN /\ \/ At(t, "write") /\ On("en_avx") /\ Posted(t, Triggered(h, th[t].cmd))
        \/ At(t, "write") /\ ~On("en_avx") /\ WriteReg(t, "VADDR_WR", "w2")
        \/ At(t, "w2") /\ WriteReg(t, "CTRL_2", "w1")
        \/ At(t, "w1") /\ WriteReg(t, "VADDR_RD", "w0")
        \/ At(t, "w0") /\ Posted(t, Triggered(h, [h.regs EXCEPT !.CTRL = th[t].cmd.CTRL]))
     /\ UNCHANGED <<env, vlock, wback, memory, network>>

-----------------------------------------------------------------------------
(* invoke: an overload for each kind of operation.  It throws when the     *)
(* operation is not one of its own, when the shell lacks what it needs, or *)
(* when the transfer is over 128 MB (MAX_TRANSFER_SIZE).                   *)

Invokes(t, oper, accepted, len) ==
  /\ At(t, "ready") /\ th[t].stage = "run" /\ th[t].left > 0
  /\ MyTurn(t)
  /\ oper \in Ops[env]
  /\ On("badargs") \/ (accepted /\ len = "fits")

(* The program counts what it posts, to compare it with checkCompleted.    *)
Issue(t, oper, c) ==
  th' = [th EXCEPT ![t].pc = "post", ![t].cmd = c, ![t].left = @ - 1, ![t].settled = @ \ {CounterOf(oper)},
                   ![t].due = [k \in Counters |-> @[k] + IF k \in Advances(oper) THEN 1 ELSE 0]]

Refuse(t) == th' = [th EXCEPT ![t].pc = "dtor", ![t].left = @ - 1]

(* The buffers a thread has.                                               *)
Buffers(t) == {a \in Addrs : heap[Node[t]][a] = t /\ <<t, a>> \in tlb[Node[t]]}

(* Sync and offload are ioctls that return when the data has been moved.   *)
invokeSync(t, oper, len) ==
  LET accepted == isLocalSync(oper) /\ On("en_mem")
  IN /\ Invokes(t, oper, accepted, len)
     /\ IF accepted /\ len = "fits"
          THEN \/ th' = [th EXCEPT ![t].left = @ - 1]
               \/ On("mapfail") /\ Refuse(t)
          ELSE Refuse(t)
     /\ UNCHANGED <<env, vlock, hw, wback, memory, network>>

(* One-sided: a two-sided operation gets past the check, and is not posted.*)
invokeLocal(t, oper, len) ==
  LET accepted == (isLocalRead(oper) \/ isLocalWrite(oper)) /\ (On("en_strm") \/ On("en_mem"))
      onesided == oper \in {"LOCAL_READ", "LOCAL_WRITE"}
  IN /\ Invokes(t, oper, accepted /\ onesided, len)
     /\ IF accepted /\ len = "fits" /\ ~onesided
          THEN th' = [th EXCEPT ![t].left = @ - 1]
        ELSE IF accepted /\ len = "fits"
          THEN \E a \in Buffers(t) :
                 Issue(t, oper, IF isLocalRead(oper)
                                  THEN Command(Zero(t), Zero(t), Word(t, a), Word(t, "start"))
                                  ELSE Command(Word(t, a), Word(t, "start"), Zero(t), Zero(t)))
          ELSE Refuse(t)
     /\ UNCHANGED <<env, vlock, hw, wback, memory, network>>

invokeTransfer(t, oper, len) ==
  LET accepted == isLocalRead(oper) /\ isLocalWrite(oper) /\ (On("en_strm") \/ On("en_mem"))
  IN /\ Invokes(t, oper, accepted, len)
     /\ IF accepted /\ len = "fits"
          THEN \E src, dst \in Buffers(t) :
                 Issue(t, oper, Command(Word(t, dst), Word(t, "start"), Word(t, src), Word(t, "start")))
          ELSE Refuse(t)
     /\ UNCHANGED <<env, vlock, hw, wback, memory, network>>

(* RDMA: the remote side is started.  Source and destination depend on the *)
(* direction.  Between equal IP addresses a read copies like a write, and  *)
(* nothing is posted that would be counted.                                *)
invokeRdma(t, oper, len) ==
  LET accepted == isRemoteRdma(oper) /\ On("en_rdma")
      here == Word(t, qpair[t].local)
      there == Word(t, qpair[t].remote)
  IN /\ Invokes(t, oper, accepted, len)
     /\ IF ~accepted \/ len # "fits"
          THEN Refuse(t)
        ELSE IF On("loop")
          THEN th' = [th EXCEPT ![t].left = @ - 1, ![t].settled = @ \ {CounterOf(oper)},
                                ![t].due = [k \in Counters |-> @[k] + IF k \in Advances(oper) THEN 1 ELSE 0]]
        ELSE Issue(t, oper, IF isRemoteRead(oper)
                              THEN Command(here, Word(t, "local"), there, Word(t, "rdma"))
                              ELSE Command(there, Word(t, "rdma"), here, Word(t, "local")))
     /\ UNCHANGED <<env, vlock, hw, wback, memory, network>>

invokeTcp(t, oper, len) ==
  LET accepted == isRemoteTcp(oper) /\ On("en_tcp")
  IN /\ Invokes(t, oper, accepted, len)
     /\ IF accepted /\ len = "fits"
          THEN th' = [th EXCEPT ![t].pc = "post", ![t].left = @ - 1,
                                ![t].cmd = Command(Zero(t), Word(t, "tcp"), Zero(t), Zero(t))]
          ELSE Refuse(t)
     /\ UNCHANGED <<env, vlock, hw, wback, memory, network>>

invoke(t, oper, len) ==
  \/ invokeSync(t, oper, len)
  \/ invokeLocal(t, oper, len)
  \/ invokeTransfer(t, oper, len)
  \/ invokeRdma(t, oper, len)
  \/ invokeTcp(t, oper, len)

-----------------------------------------------------------------------------
(* checkCompleted looks for writes first: a two-sided operation is done    *)
(* when it has written.                                                    *)

Read(t, k) == IF On("en_wb") THEN wback[t][k] ELSE hw[Node[t]].stat[t][k]

(* Mutant: reads are looked for first.                                     *)
ReadsFirst(t, oper) ==
  IF isLocalRead(oper) THEN Read(t, "RD_WBACK")
  ELSE IF isLocalWrite(oper) THEN Read(t, "WR_WBACK")
  ELSE IF isRemoteRead(oper) THEN Read(t, "RD_RDMA_WBACK")
  ELSE IF isRemoteWriteOrSend(oper) THEN Read(t, "WR_RDMA_WBACK")
  ELSE 0

checkCompleted(t, oper) ==
  IF isLocalWrite(oper) THEN Read(t, "WR_WBACK")
  ELSE IF isLocalRead(oper) THEN Read(t, "RD_WBACK")
  ELSE IF isRemoteRead(oper) THEN Read(t, "RD_RDMA_WBACK")
  ELSE IF isRemoteWriteOrSend(oper) THEN Read(t, "WR_RDMA_WBACK")
  ELSE 0

(* The program polls until the count is that of what it has invoked.       *)
Polled(t, oper) ==
  /\ At(t, "ready") /\ Advances(oper) # {} /\ CounterOf(oper) \notin th[t].settled
  /\ checkCompleted(t, oper) = th[t].due[CounterOf(oper)]
  /\ th' = [th EXCEPT ![t].settled = @ \cup {CounterOf(oper)}]
  /\ UNCHANGED <<env, vlock, hw, wback, memory, network>>

(* clearCompleted: the memory is zeroed, then the counters of the vFPGA.   *)
(* It is rash to call it while completions are under way.                  *)
Clear(t) ==
  /\ At(t, "ready") /\ th[t].stage = "run" /\ th[t].left > 0
  /\ MyTurn(t)
  /\ On("busy") \/ Quiet(t)
  /\ th' = [th EXCEPT ![t].pc = "clear", ![t].left = @ - 1, ![t].settled = Counters, ![t].due = NoCompletions,
                          ![t].rash = @ \/ ~Quiet(t)]
  /\ UNCHANGED <<env, vlock, hw, wback, memory, network>>

clearCompleted(t) ==
  LET h == hw[Node[t]]
      clr == Word(t, "clear")
      Cleared2(r) ==
        /\ hw' = [hw EXCEPT ![Node[t]] = Triggered(h, r)]
        /\ th' = [th EXCEPT ![t].pc = "ready", ![t].fresh = FALSE]
        /\ UNCHANGED wback
  IN /\ \/ /\ At(t, "clear")
           /\ wback' = [wback EXCEPT ![t] = IF On("en_wb") THEN NoCompletions ELSE @]
           /\ Goto(t, "clear2")
           /\ UNCHANGED hw
        \/ At(t, "clear2") /\ On("en_avx") /\ Cleared2(Command(Zero(t), clr, Zero(t), clr))
        \/ /\ At(t, "clear2") /\ ~On("en_avx")
           /\ hw' = [hw EXCEPT ![Node[t]].regs.CTRL_2 = clr]
           /\ Goto(t, "clear3")
           /\ UNCHANGED wback
        \/ At(t, "clear3") /\ Cleared2([h.regs EXCEPT !.CTRL = clr])
     /\ UNCHANGED <<env, vlock, memory, network>>

-----------------------------------------------------------------------------
(* Memory.  getMem allocates, has the driver map the buffer (userMap) and  *)
(* enters it into mapped_pages, unless an entry is there already.          *)

CoyoteAllocType == {"REG", "THP", "HPF", "PRM", "GPU"}

Emplace(m, a, alloc) == [x \in DOMAIN m \cup {a} |-> IF x \in DOMAIN m THEN m[x] ELSE alloc]

Entered(t, a, alloc, mapped) ==
  IF mapped THEN Emplace(mapped_pages[t], a, alloc) ELSE mapped_pages[t]

userMap(t, a, alloc, next) ==
  LET n == Node[t]
  IN \/ /\ heap' = [heap EXCEPT ![n][a] = t]
        /\ tlb' = [tlb EXCEPT ![n] = @ \cup {<<t, a>>}]
        /\ mapped_pages' = [mapped_pages EXCEPT ![t] = Entered(t, a, alloc, TRUE)]
        /\ qpair' = IF alloc.remote THEN [qpair EXCEPT ![t].local = a] ELSE qpair
        /\ th' = [th EXCEPT ![t].pc = next, ![t].allocs = @ - 1, ![t].given = @ \ {a}]
     \/ /\ On("mapfail")
        /\ heap' = [heap EXCEPT ![n][a] = IF alloc.type = "GPU" THEN NoOne ELSE t]
        /\ mapped_pages' = [mapped_pages EXCEPT ![t] = Entered(t, a, alloc, FALSE)]
        /\ Throw(t)
        /\ UNCHANGED <<tlb, qpair>>

getMem(t, alloc, next) ==
  /\ \/ /\ alloc.type \in {"REG", "THP", "HPF"} \/ (alloc.type = "GPU" /\ On("EN_GPU"))
        /\ \E a \in {x \in Addrs : heap[Node[t]][x] = NoOne} : userMap(t, a, alloc, next)
     \/ (* no huge page, or no such GPU: a null pointer *)
        /\ On("nomem") /\ alloc.type \in {"THP", "HPF"} \cup IF On("EN_GPU") THEN {"GPU"} ELSE {}
        /\ th' = [th EXCEPT ![t].pc = next, ![t].allocs = @ - 1]
        /\ UNCHANGED <<heap, tlb, mapped_pages, qpair>>
     \/ (* mmap is not checked, and its error cannot be mapped; a full GPU *)
        /\ (On("nomem") /\ alloc.type \in {"REG", "GPU"}) \/ (alloc.type = "GPU" /\ ~On("EN_GPU"))
        /\ Throw(t)
        /\ UNCHANGED <<heap, tlb, mapped_pages, qpair>>
     \/ /\ alloc.type = "PRM"
        /\ mapped_pages' = [mapped_pages EXCEPT ![t] = Emplace(@, Null, alloc)]
        /\ th' = [th EXCEPT ![t].pc = next, ![t].allocs = @ - 1]
        /\ UNCHANGED <<heap, tlb, qpair>>
  /\ UNCHANGED <<env, vlock, refreed, hw, wback, sock, wire>>

(* The program allocates: the plain kind, or any when that is in question. *)
Allocate(t) ==
  /\ At(t, "ready") /\ th[t].stage = "run" /\ ~Remote(t) /\ th[t].allocs > 0
  /\ \E type \in IF On("nomem") THEN CoyoteAllocType ELSE {"HPF"} :
       getMem(t, [type |-> type, remote |-> FALSE], "ready")

(* freeMem: the driver unmaps the buffer, then the memory is released.     *)
(* The entry of mapped_pages stays.  A GPU buffer is unmapped by its own   *)
(* address, not by the one it was mapped at.  The ioctl fails only if the  *)
(* driver cannot copy the arguments from the caller's stack, so that it    *)
(* never makes userUnmap throw.                                            *)
userUnmap(t, a) ==
  tlb' = [tlb EXCEPT ![Node[t]] = IF mapped_pages[t][a].type = "GPU" /\ On("offset") THEN @ ELSE @ \ {<<t, a>>}]

Release(t, a) ==
  IF mapped_pages[t][a].type = "PRM" THEN UNCHANGED <<heap, refreed>>
  ELSE /\ heap' = [heap EXCEPT ![Node[t]][a] = NoOne]
       /\ refreed' = (refreed \/ heap[Node[t]][a] # t)

(* Mutant: the memory is released before the driver unmaps it.             *)
ReleasedFirst(t) ==
  /\ \/ /\ At(t, "free")
        /\ Release(t, th[t].addr)
        /\ Goto(t, "free2")
        /\ UNCHANGED <<tlb, qpair>>
     \/ /\ At(t, "free2")
        /\ userUnmap(t, th[t].addr)
        /\ Goto(t, IF th[t].dying THEN "pages" ELSE "ready")
        /\ UNCHANGED <<heap, refreed, qpair>>
  /\ UNCHANGED <<env, vlock, mapped_pages, hw, wback, sock, wire>>

freeMem(t) ==
  /\ \/ /\ At(t, "free")
        /\ userUnmap(t, th[t].addr)
        /\ Goto(t, "free2")
        /\ UNCHANGED <<heap, refreed, qpair>>
     \/ /\ At(t, "free2")
        /\ Release(t, th[t].addr)
        /\ qpair' = IF mapped_pages[t][th[t].addr].remote THEN [qpair EXCEPT ![t].local = Null] ELSE qpair
        /\ Goto(t, IF th[t].dying THEN "pages" ELSE "ready")
        /\ UNCHANGED tlb
  /\ UNCHANGED <<env, vlock, mapped_pages, hw, wback, sock, wire>>

(* The program has polled for everything it has posted.                    *)
Settled(t) == On("early") \/ th[t].settled = Counters

FreeCall(t) ==
  /\ At(t, "ready") /\ On("free") /\ Settled(t)
  /\ \E a \in DOMAIN mapped_pages[t] :
       /\ a \notin th[t].given
       /\ th' = [th EXCEPT ![t].pc = "free", ![t].addr = a, ![t].given = @ \cup {a}]
  /\ UNCHANGED <<env, vlock, hw, wback, memory, network>>

-----------------------------------------------------------------------------
(* The out-of-band connection.  A message is a queue (ibvQ, of which the   *)
(* buffer's address matters) or a word: an acknowledgement, or the request *)
(* to close, which is the same word (DEF_OP_CLOSE_CONN and the ack are 0). *)

ibvQ(t) == <<"queue", qpair[t].local>>
DEF_OP_CLOSE_CONN == <<"word", Null>>
Ack == <<"word", Null>>

Send(t, m) == wire' = [wire EXCEPT ![Peer(t)] = Append(@, m)]
Receive(t) == wire' = [wire EXCEPT ![t] = Tail(@)]
Hungup(t) == wire[t] = <<>> /\ sock[Peer(t)].connfd = "closed"
Hangup(t, connected) == sock' = [sock EXCEPT ![t].connfd = "closed", ![t].is_connected = connected]
Advance(t, pc, stage) == th' = [th EXCEPT ![t].pc = pc, ![t].stage = stage]

Remote_HPF == [type |-> "HPF", remote |-> TRUE]

(* The server listens on the port; the client connects to it.              *)
Open(t) ==
  /\ At(t, "ready") /\ th[t].stage = "init"
  /\ \/ t = Server /\ sock' = [sock EXCEPT ![t].listens = TRUE] /\ Goto(t, "accept")
     \/ /\ t = Client /\ (On("first") \/ sock[Server].listens)
        /\ IF sock[Server].listens
             THEN sock' = [sock EXCEPT ![t].connfd = "open", ![t].is_connected = "yes"] /\ Goto(t, "alloc")
             ELSE Throw(t) /\ UNCHANGED sock
     \/ On("netfail") /\ Throw(t) /\ UNCHANGED sock
  /\ UNCHANGED <<env, vlock, hw, wback, memory, qpair, wire>>

Accept(t) ==
  /\ At(t, "accept")
  /\ \/ sock[Client].connfd # "none" /\ sock' = [sock EXCEPT ![t].connfd = "open", ![t].is_connected = "yes"] /\ Goto(t, "recvq")
     \/ On("netfail") /\ Throw(t) /\ UNCHANGED sock
  /\ UNCHANGED <<env, vlock, hw, wback, memory, qpair, wire>>

(* The buffer of the connection is allocated, and its address sent.  The   *)
(* server closes when it cannot send.                                      *)
Offer(t) ==
  \/ /\ At(t, "alloc")
     /\ getMem(t, Remote_HPF, "sendq")
  \/ /\ At(t, "sendq")
     /\ \/ Send(t, ibvQ(t)) /\ Goto(t, IF t = Client THEN "recvq" ELSE "context") /\ UNCHANGED sock
        \/ /\ On("netfail") /\ Throw(t)
           /\ IF t = Server THEN Hangup(t, "no") ELSE UNCHANGED sock
           /\ UNCHANGED wire
     /\ UNCHANGED <<env, vlock, hw, wback, memory, qpair>>

(* The other side's queue is read.  The server closes on a failure.        *)
Obtain(t) ==
  /\ At(t, "recvq")
  /\ \/ /\ wire[t] # <<>> /\ Head(wire[t])[1] = "queue"
        /\ qpair' = [qpair EXCEPT ![t].remote = Head(wire[t])[2]]
        /\ Receive(t)
        /\ Goto(t, IF t = Client THEN "context" ELSE "alloc")
        /\ UNCHANGED sock
     \/ /\ Hungup(t) \/ (wire[t] # <<>> /\ Head(wire[t])[1] = "word")
        /\ wire' = [wire EXCEPT ![t] = <<>>]
        /\ IF t = Server THEN Hangup(t, "no") ELSE UNCHANGED sock
        /\ Throw(t)
        /\ UNCHANGED qpair
  /\ UNCHANGED <<env, vlock, hw, wback, memory>>

(* The queue pair is written to the vFPGA, and the peer's address looked   *)
(* up.  The program gives up when it has got no buffer.                    *)
writeQpContext(t) ==
  /\ At(t, "context")
  /\ hw' = [hw EXCEPT ![Node[t]].peer = qpair[t].remote]
  /\ IF qpair[t].local = Null THEN Throw(t) ELSE Advance(t, "ready", "sync")
  /\ UNCHANGED <<env, vlock, wback, memory, network>>

initRDMA(t) == Open(t) \/ Accept(t) \/ Offer(t) \/ Obtain(t) \/ writeQpContext(t)

(* readAck and sendAck close the connection when they fail.                *)
readAck(t, pc, stage) ==
  \/ wire[t] # <<>> /\ Receive(t) /\ Advance(t, pc, stage) /\ UNCHANGED sock
  \/ /\ Hungup(t)
     /\ sock' = [sock EXCEPT ![t].connfd = "closed"]
     /\ Throw(t)
     /\ UNCHANGED wire

sendAck(t, pc, stage) ==
  \/ Send(t, Ack) /\ Advance(t, pc, stage) /\ UNCHANGED sock
  \/ /\ On("netfail")
     /\ sock' = [sock EXCEPT ![t].connfd = "closed"]
     /\ Throw(t)
     /\ UNCHANGED wire

(* Both sides meet: before the transfers, and after them.                  *)
NextStage(t) == IF th[t].stage = "sync" THEN "run" ELSE "close"

(* Mutant: the client, too, reads before it sends.                         *)
BothRead(t) ==
  /\ th[t].stage \in {"sync", "sync2"}
  /\ \/ At(t, "ready") /\ readAck(t, "ack", th[t].stage)
     \/ At(t, "ack") /\ sendAck(t, "ready", NextStage(t))
  /\ UNCHANGED <<env, vlock, hw, wback, memory, qpair>>

connSync(t) ==
  /\ th[t].stage \in {"sync", "sync2"}
  /\ \/ At(t, "ready") /\ t = Client /\ sendAck(t, "ack", th[t].stage)
     \/ At(t, "ready") /\ t = Server /\ readAck(t, "ack", th[t].stage)
     \/ At(t, "ack") /\ t = Client /\ readAck(t, "ready", NextStage(t))
     \/ At(t, "ack") /\ t = Server /\ sendAck(t, "ready", NextStage(t))
  /\ UNCHANGED <<env, vlock, hw, wback, memory, qpair>>

(* closeConn: the server waits for the client's request.  On anything else *)
(* it stays connected.                                                     *)
closeConn(t, pc, stage) ==
  /\ IF t = Server
       THEN IF sock[t].connfd # "open" \/ Hungup(t)
              THEN UNCHANGED <<sock, wire>>
              ELSE /\ wire[t] # <<>>
                   /\ Receive(t)
                   /\ sock' = IF Head(wire[t]) = DEF_OP_CLOSE_CONN
                                THEN [sock EXCEPT ![t] = [listens |-> FALSE, connfd |-> "closed", is_connected |-> "no"]]
                                ELSE sock
       ELSE /\ IF sock[t].connfd = "open" THEN Send(t, DEF_OP_CLOSE_CONN) ELSE UNCHANGED wire
            /\ sock' = [sock EXCEPT ![t].is_connected = "no", ![t].connfd = IF @ = "open" THEN "closed" ELSE @]
  /\ Advance(t, pc, stage)
  /\ UNCHANGED <<env, vlock, hw, wback, memory, qpair>>

(* The end of the transfers, and of the connection.                        *)
Finish(t) ==
  /\ At(t, "ready") /\ Remote(t)
  /\ \/ /\ th[t].stage = "run" /\ Settled(t) /\ ~On("nosync")
        /\ Advance(t, "ready", "sync2")
        /\ UNCHANGED <<env, vlock, hw, wback, memory, network>>
     \/ th[t].stage = "close" /\ closeConn(t, "ready", "end")

-----------------------------------------------------------------------------
(* The destructor: the lock, the memory, the registers and the identifier, *)
(* and at last the connection.                                             *)

Destroy(t) ==
  /\ At(t, "ready") /\ Settled(t)
  /\ th[t].stage = "end" \/ (th[t].stage = "run" /\ (~Remote(t) \/ On("nosync")))
  /\ Goto(t, "dtor")
  /\ UNCHANGED <<env, vlock, hw, wback, memory, network>>

DtorUnlock(t) ==
  /\ At(t, "dtor")
  /\ vlock' = [vlock EXCEPT ![Node[t]] = IF @ = t THEN NoOne ELSE @]
  /\ th' = [th EXCEPT ![t].pc = "pages", ![t].dying = TRUE, ![t].given = {}]
  /\ UNCHANGED <<env, hw, wback, memory, network>>

DtorFree(t) ==
  /\ At(t, "pages")
  /\ \E a \in DOMAIN mapped_pages[t] \ th[t].given :
       th' = [th EXCEPT ![t].pc = "free", ![t].addr = a, ![t].given = @ \cup {a}]
  /\ UNCHANGED <<env, vlock, hw, wback, memory, network>>

(* munmapFpga, and IOCTL_UNREGISTER_CTID, with which the driver unmaps     *)
(* what is left.                                                           *)
munmapFpga(t) ==
  /\ At(t, "pages") /\ DOMAIN mapped_pages[t] = th[t].given
  /\ mapped_pages' = [mapped_pages EXCEPT ![t] = <<>>]
  /\ tlb' = [tlb EXCEPT ![Node[t]] = {p \in @ : p[1] # t}]
  /\ Goto(t, "closing")
  /\ UNCHANGED <<env, vlock, heap, refreed, hw, wback, network>>

(* is_connected is not initialised: before a connection it has any value,  *)
(* and closeConn finds no socket.                                          *)
DtorClose(t) ==
  /\ At(t, "closing")
  /\ \/ On("en_rdma") /\ sock[t].is_connected # "no" /\ closeConn(t, "gone", "end")
     \/ /\ ~On("en_rdma") \/ sock[t].is_connected # "yes"
        /\ Advance(t, "gone", "end")
        /\ UNCHANGED <<env, vlock, hw, wback, memory, network>>

-----------------------------------------------------------------------------
NewThread ==
  [pc |-> "none", stage |-> "run", fresh |-> FALSE, dying |-> FALSE, rash |-> FALSE, since |-> 0, cmd_cnt |-> 0, cmd |-> <<>>,
   left |-> 0, allocs |-> 0, settled |-> Counters, due |-> NoCompletions, addr |-> Null, given |-> {}]

(* The counters hold what an earlier thread with the identifier has left.  *)
Stale == [k \in Counters |-> 1]

Init ==
  /\ env \in Environments
  /\ th = [t \in Threads |-> [NewThread EXCEPT !.left = IF t = Server THEN 0 ELSE MaxCalls[env],
                                               !.allocs = IF On("nomem") \/ On("free") THEN 2 ELSE 1,
                                               !.stage = IF Remote(t) THEN "init" ELSE "run"]]
  /\ mapped_pages = [t \in Threads |-> <<>>]
  /\ vlock = [n \in Nodes |-> NoOne]
  /\ heap = [n \in Nodes |-> [a \in Addrs |-> NoOne]]
  /\ refreed = FALSE
  /\ tlb = [n \in Nodes |-> {}]
  /\ LET none == [by |-> NoOne, call |-> 0, v |-> "zero"]
     IN hw = [n \in Nodes |-> [regs |-> Command(none, none, none, none), fifo |-> <<>>, work |-> {}, lost |-> FALSE, peer |-> Null,
                               stat |-> [t \in Threads |-> Stale], done |-> [t \in Threads |-> Stale],
                               wbq |-> [k \in Counters |-> <<>>]]]
  /\ wback = [t \in Threads |-> Stale]
  /\ qpair = [t \in Threads |-> [local |-> Null, remote |-> Null]]
  /\ sock = [t \in Threads |-> [listens |-> FALSE, connfd |-> "none", is_connected |-> "unset"]]
  /\ wire = [t \in Threads |-> <<>>]

Hardware(n) == Take(n) \/ ReadDone(n) \/ WriteDone(n) \/ WriteBack(n)
Destructor(t) == DtorUnlock(t) \/ DtorFree(t) \/ munmapFpga(t) \/ DtorClose(t)

(* What a program that has called the object goes on to do.                *)
Running(t) ==
  \/ CheckRoom(t) \/ postCmd(t) \/ clearCompleted(t) \/ freeMem(t)
  \/ initRDMA(t) \/ connSync(t) \/ Finish(t) \/ Destroy(t) \/ Destructor(t)
  \/ mmapFpga(t) \/ unlock(t)
  \/ \E oper \in Ops[env] : Polled(t, oper)

Calling(t) ==
  \/ lock(t) \/ Clear(t) \/ Allocate(t) \/ FreeCall(t)
  \/ \E oper \in Ops[env], len \in {"fits", "over"} : invoke(t, oper, len)

Progress == (\E n \in Nodes : Hardware(n)) \/ \E t \in Threads : Running(t)
Next == Progress \/ \E t \in Threads : Calling(t)
Spec == Init /\ [][Next]_vars /\ WF_vars(Progress)
-----------------------------------------------------------------------------
Without(mishaps) == env \cap mishaps = {}

Entries(n) == {hw[n].fifo[i] : i \in DOMAIN hw[n].fifo} \cup {w.c : w \in hw[n].work}

\* One thread at a time writes the registers of a vFPGA
Orderly == On("en_avx") \/ Without({"unlocked", "joins"})

(* A command the vFPGA has taken consists of the four words of one call of *)
(* postCmd: the threads that share the registers do not mix theirs, since  *)
(* one AVX store writes all of them, or since they hold the lock.  And the *)
(* queue drops no command as long as one thread posts to it, however far   *)
(* the count of postCmd lags behind the queue.                             *)
CommandsWhole ==
  \A n \in Nodes :
    /\ Orderly =>
         \A c \in Entries(n) : \A r \in DOMAIN c :
           c[r].by = c.CTRL.by /\ c[r].call = c.CTRL.call
    /\ Cardinality({t \in Active[env] : Node[t] = n}) <= 1 => ~hw[n].lost

(* What a thread is told of its operations is not to be relied upon: it    *)
(* has cleared its counters too early, or has invoked remote writes and    *)
(* remote reads, of which the counter is that of the writes plus one.      *)
Misled(t) ==
  \/ th[t].rash
  \/ th[t].due["RD_RDMA_WBACK"] > 0 /\ th[t].due["WR_RDMA_WBACK"] > 0

(* A thread that has seen checkCompleted return the number of operations   *)
(* it invoked has none of them left in the vFPGA: neither a completion of  *)
(* an earlier thread, nor one before clearCompleted, nor the read half of  *)
(* a transfer is taken for the one it waits for, and another thread that   *)
(* clears its own counters, however early, or is constructed meanwhile     *)
(* does not disturb it.                                                    *)
PolledIsDone ==
  Orderly =>
    \A t \in Threads : \A c \in Mine(t) :
      c.CTRL_2.v # "tcp" /\ ~Misled(t) =>
        (IF Started(c.CTRL_2) THEN WriteCounter(c) ELSE ReadCounter(c)) \notin th[t].settled

(* A side of a command names a buffer mapped where it is: its own thread's *)
(* on this node, or the one of the connection on the other.                *)
Reaches(n, addr, ctrl) ==
  CASE ctrl.v \in {"start", "local"} -> <<ctrl.by, addr.v>> \in tlb[n]
    [] ctrl.v = "rdma" -> addr.v = hw[n].peer /\ <<Peer(ctrl.by), addr.v>> \in tlb[Node[Peer(ctrl.by)]]
    [] OTHER -> TRUE

(* The commands in a vFPGA, except those of a thread that was misled about *)
(* their completion, reach mapped buffers only.  For RDMA this is about    *)
(* two processes: the queues are exchanged after both buffers exist, and   *)
(* the destructor, which frees the buffer before it closes the connection, *)
(* runs after connSync.  What the driver maps is memory its owner still    *)
(* has, and memory is released by its owner, once: unless the program      *)
(* itself has called freeMem, which leaves the entry for the destructor to *)
(* free again.                                                             *)
OwnedMemory ==
  /\ Orderly /\ Without({"early", "nosync", "nomem", "mapfail", "badargs"}) =>
       \A n \in Nodes : \A c \in Entries(n) :
         Misled(c.CTRL.by) \/ (Reaches(n, c.VADDR_WR, c.CTRL_2) /\ Reaches(n, c.VADDR_RD, c.CTRL))
  /\ Without({"free", "offset"}) =>
       /\ ~refreed
       /\ \A n \in Nodes : \A p \in tlb[n] : heap[n][p[2]] = p[1]

(* The counters of a thread, or of its peer, are not what its poll waits   *)
(* for: a clear came too early, or the count of remote reads is wrong.     *)
CountsAmiss(t) ==
  \E u \in {t} \cup (IF Remote(t) THEN {Peer(t)} ELSE {}) :
    th[u].rash \/ hw[Node[u]].stat[u]["RD_RDMA_WBACK"] # hw[Node[u]].done[u]["RD_RDMA_WBACK"]

(* Every thread that is constructed is destroyed in the end: no poll, no   *)
(* wait for room in the queue, for the lock, for the other side of the     *)
(* connection or for its request to close lasts for ever, as long as the   *)
(* queue of its vFPGA drops no command, its counters and those of its peer *)
(* are right and remote completions are not read from the write-back       *)
(* memory.  Two remote reads without a write get the count wrong, and end  *)
(* in a poll that does last for ever.  Failed allocations, failed mappings *)
(* and refused calls do not keep a thread, unless the buffer of a          *)
(* connection cannot be mapped.                                            *)
EveryThreadEnds ==
  Orderly /\ Without({"loop", "first", "netfail"})
    /\ ~({"en_rdma", "en_wb"} \subseteq env) /\ ~({"en_rdma", "mapfail"} \subseteq env) =>
    \A t \in Threads : t \in Active[env] => <>(At(t, "gone") \/ hw[Node[t]].lost \/ CountsAmiss(t))

(* checkCompleted returns the number of operations of its kind that have   *)
(* completed since the last clearCompleted.                                *)
CountsItsOwn ==
  \A n \in Nodes : \A t \in Threads : hw[n].stat[t] = hw[n].done[t]

=============================================================================
