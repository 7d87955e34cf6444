----------------------------- MODULE Simulation -----------------------------
(***************************************************************************)
(* The simulation target of the user library (sim/sw): the same class      *)
(* cThread, talking to a Vivado simulation of the vFPGA through two named  *)
(* pipes instead of to the device.  Every call of the class registers with *)
(* a broadcast, hands a lambda to a helper thread and waits for that       *)
(* helper, or for the news that the simulation has ended                   *)
(* (executeUnlessCrash).  The actors are the user threads and their        *)
(* helpers, the thread that drives Vivado (SIM), the thread that reads the *)
(* simulation's output (OUT), the interrupt thread, and the simulator.     *)
(*                                                                         *)
(* A message of a pipe is one element of a sequence.  What a register, a   *)
(* buffer or an interrupt holds is abstracted: an answer carries the user  *)
(* thread that asked for it, interrupts carry their number.  A transfer is *)
(* the last of its request (the default of invoke), so it is counted.      *)
(***************************************************************************)
EXTENDS Naturals, Sequences, FiniteSets

CONSTANTS
  Users,          \* threads of the program that call one cThread object
  Main,           \* the one that constructs and destroys it
  Bufs,           \* buffers getMem can return
  NoOne,          \* no thread, no buffer
  Fns,            \* the functions of the class that are called, for each set of mishaps
  MaxCalls,       \* calls of each thread, for each set of mishaps (bound)
  MaxIrqs,        \* interrupts the vFPGA raises, for each set of mishaps (bound)
  PipeCap,        \* messages a pipe holds (bound)
  Environments    \* the sets of mishaps a behaviour may meet

(* What may happen besides one thread making calls one after another:      *)
(*   threads  several user threads call the object                         *)
(*   syncs    they also offload and sync, and clear the counters           *)
(*   crash    Vivado fails, or the simulation stops, at any moment         *)
(*   dut      the vFPGA itself reads buffers of the host                   *)
(*   burst    a message fills the pipe it is written to                    *)
(*   late     buffers are freed, and the object destroyed, while transfers *)
(*            are still under way                                          *)
Mishaps == {"threads", "syncs", "crash", "dut", "burst", "late"}

ASSUME SimulationAssumption ==
  /\ Main \in Users
  /\ NoOne \notin Users \cup Bufs
  /\ \A e \in Environments : e \subseteq Mishaps
  /\ DOMAIN Fns = Environments
  /\ MaxCalls \in [Environments -> [Users -> Nat]]
  /\ MaxIrqs \in [Environments -> Nat]

VARIABLES
  env,      \* the mishaps of this behaviour
  proc,     \* the process: what is set up, "up", "gone" (terminated) or "over"
  life,     \* the object: "ctor", "ready", "dying", "closed"
  user,     \* the user threads
  lambda,   \* what is left to run of each helper's lambda
  bt,       \* where each thread is that broadcasts
  bc,       \* the Broadcast object
  mtx,      \* write_mtx, get_csr_mtx and check_completed_mtx
  inp,      \* input.bin
  outp,     \* output.bin
  sim,      \* the simulator
  outt,     \* out_thread
  queues,   \* csr_queue, completed_queue and irq_queue
  irq,      \* interrupts handled, and whether irq_thread has returned
  mem       \* buffers: allocated, in tlb_pages, in mapped_pages

vars == <<env, proc, life, user, lambda, bt, bc, mtx, inp, outp, sim, outt, queues, irq, mem>>

Broadcasters == Users \cup {"SIM", "OUT"}

-----------------------------------------------------------------------------
(* The protocol of the pipes.                                              *)

(* The completion counter a call asks for.                                 *)
Counter(fn) == IF fn \in {"sync", "offload"} THEN fn ELSE "write"

InMsg(op, u) == [op |-> op, who |-> u, buf |-> user[u].buf, of |-> Counter(user[u].fn), cnt |-> user[u].seen + 1]
OutMsg(op, who, n) == [op |-> op, who |-> who, n |-> n]
Nothing == OutMsg("none", NoOne, 0)

Room(pipe) == Len(pipe) < (IF "burst" \in env THEN 1 ELSE PipeCap)

(* The lambdas a call passes to executeUnlessCrash, one after another.     *)
Write(op) == <<"write", op>>
Ask(lock, op, queue) == << <<"lock", lock>>, Write(op), <<"pop", queue>>, <<"unlock", lock>> >>

getCSR == Ask("csr", "GET_CSR", "csr")
(* Mutant: checkCompleted without check_completed_mtx.                     *)
CheckUnlocked == <<Write("CHECK_COMPLETED"), <<"pop", "completed">>>>

checkCompleted == Ask("check", "CHECK_COMPLETED", "completed")
poll == <<Write("POLL"), <<"pop", "completed">>>>

Lambdas(fn) ==
  CASE fn = "open" -> << << <<"open", "input">> >> >>
    [] fn = "clearCompleted" -> << <<Write("CLEAR_COMPLETED")>> >>
    [] fn = "setCSR" -> << <<Write("SET_CSR")>> >>
    [] fn = "getCSR" -> <<getCSR>>
    [] fn = "getMem" -> << <<Write("USER_MAP")>> >>
    [] fn = "freeMem" -> << <<Write("USER_UNMAP")>> >>
    [] fn = "write" -> << <<Write("LOCAL_WRITE")>> >>
    [] fn = "writeCard" -> << <<Write("CARD_WRITE")>> >>
    [] fn = "read" -> << <<Write("MEM_WRITE"), Write("LOCAL_READ")>> >>
    [] fn = "transfer" -> << <<Write("MEM_WRITE"), Write("LOCAL_READ")>>, <<Write("LOCAL_WRITE")>> >>
    [] fn = "checkCompleted" -> <<checkCompleted>>
    [] fn = "sync" -> <<checkCompleted, <<Write("LOCAL_SYNC")>>, poll>>
    [] fn = "offload" -> <<checkCompleted, <<Write("MEM_WRITE"), Write("LOCAL_OFFLOAD")>>, poll>>

-----------------------------------------------------------------------------
(* Broadcast.hpp.  A thread that waits on a condition variable sleeps      *)
(* until it is notified and then evaluates its condition again.            *)

Sleeping == {"prev", "acks"}

(* ack_cv.notify_one(): any one of the threads that sleep on ack_cv.       *)
NotifyOne(threads) ==
  LET asleep == {t \in Broadcasters : threads[t] \in Sleeping}
  IN IF asleep = {} THEN {threads}
     ELSE {[threads EXCEPT ![t] = IF @ = "prev" THEN "call2" ELSE "acks2"] : t \in asleep}

register_receiver(u) == [bc EXCEPT !.num = @ + 1]

unregister_receiver(u) ==
  /\ bc' = [bc EXCEPT !.num = @ - 1]
  /\ bt' \in IF bc.active /\ bc.ack >= bc.num - 1 THEN NotifyOne(bt) ELSE {bt}

(* Mutant: broadcast() without notify_all.                                 *)
BroadcastSilent(t) ==
  /\ proc = "up"
  /\ bt[t] \in {"call", "call2"}
  /\ IF bt[t] = "call" /\ bc.num = 0
       THEN bt' = [bt EXCEPT ![t] = "over"] /\ UNCHANGED <<bc, user>>
       ELSE IF bc.active
         THEN bt' = [bt EXCEPT ![t] = "prev"] /\ UNCHANGED <<bc, user>>
       ELSE IF bc.num = 0
         THEN /\ bc' = [bc EXCEPT !.data = t, !.gen = @ + 1, !.ack = 0]
              /\ bt' \in NotifyOne([bt EXCEPT ![t] = "over"])
              /\ UNCHANGED user
         ELSE /\ bc' = [bc EXCEPT !.data = t, !.gen = @ + 1, !.ack = 0, !.active = TRUE]
              /\ bt' = [bt EXCEPT ![t] = "acks"]
              /\ UNCHANGED user
  /\ UNCHANGED <<env, proc, life, lambda, mtx, inp, outp, sim, outt, queues, irq, mem>>

(* The first part of broadcast(): up to the wait for the acknowledgements. *)
(* A condition that already holds is not waited for.                       *)
BroadcastBegin(t) ==
  /\ proc = "up"
  /\ bt[t] \in {"call", "call2"}
  /\ IF bt[t] = "call" /\ bc.num = 0
       THEN bt' = [bt EXCEPT ![t] = "over"] /\ UNCHANGED <<bc, user>>
       ELSE IF bc.active
         THEN bt' = [bt EXCEPT ![t] = "prev"] /\ UNCHANGED <<bc, user>>
       ELSE IF bc.num = 0
         THEN /\ bc' = [bc EXCEPT !.data = t, !.gen = @ + 1, !.ack = 0]
              /\ bt' \in NotifyOne([bt EXCEPT ![t] = "over"])
              /\ UNCHANGED user
         ELSE /\ bc' = [bc EXCEPT !.data = t, !.gen = @ + 1, !.ack = 0, !.active = TRUE]
              /\ bt' = [bt EXCEPT ![t] = "acks"]
              /\ user' = [u \in Users |-> IF user[u].pc = "asleep" THEN [user[u] EXCEPT !.pc = "recv"] ELSE user[u]]
  /\ UNCHANGED <<env, proc, life, lambda, mtx, inp, outp, sim, outt, queues, irq, mem>>

BroadcastEnd(t) ==
  /\ proc = "up"
  /\ bt[t] = "acks2"
  /\ IF bc.ack >= bc.num
       THEN /\ bc' = [bc EXCEPT !.active = FALSE]
            /\ bt' \in NotifyOne([bt EXCEPT ![t] = "over"])
       ELSE bt' = [bt EXCEPT ![t] = "acks"] /\ UNCHANGED bc
  /\ UNCHANGED <<env, proc, life, user, lambda, mtx, inp, outp, sim, outt, queues, irq, mem>>

(* receive_any(): takes the broadcast it has not seen yet, acknowledges it *)
(* and wakes the broadcaster if it was the last to do so.  The loop of     *)
(* executeUnlessCrash ends with the own helper's broadcast or with the     *)
(* news that SIM or OUT has ended.                                         *)
receive_any(u) ==
  /\ proc = "up"
  /\ user[u].pc = "recv"
  /\ IF bc.active /\ bc.gen > user[u].last
       THEN /\ bc' = [bc EXCEPT !.ack = @ + 1]
            /\ bt' \in IF bc.ack + 1 >= bc.num THEN NotifyOne(bt) ELSE {bt}
            /\ user' = [user EXCEPT ![u].last = @ + 1,
                                    ![u].pc = IF bc.data = u THEN "leave"
                                              ELSE IF bc.data \in Users THEN "recv" ELSE "doomed"]
       ELSE user' = [user EXCEPT ![u].pc = "asleep"] /\ UNCHANGED <<bc, bt>>
  /\ UNCHANGED <<env, proc, life, lambda, mtx, inp, outp, sim, outt, queues, irq, mem>>

(* After the loop: the own result is followed by the join of the helper,   *)
(* any other ends the process.                                             *)
Leave(u) ==
  /\ proc = "up"
  /\ user[u].pc \in {"leave", "doomed"}
  /\ unregister_receiver(u)
  /\ IF user[u].pc = "leave"
       THEN user' = [user EXCEPT ![u].pc = "join"] /\ UNCHANGED proc
       ELSE proc' = "gone" /\ UNCHANGED user
  /\ UNCHANGED <<env, life, lambda, mtx, inp, outp, sim, outt, queues, irq, mem>>

-----------------------------------------------------------------------------
(* The calls of the user threads.                                          *)

Idle(u) == user[u].pc = "idle"

(* Nothing is under way that touches the buffer.                           *)
Settled(b) ==
  /\ \A i \in DOMAIN inp : inp[i].buf # b
  /\ b \notin {sim.rd[i] : i \in DOMAIN sim.rd} \cup {sim.wr[i] : i \in DOMAIN sim.wr}
  /\ b \notin {sim.dut[i] : i \in DOMAIN sim.dut} \cup {sim.card[i] : i \in DOMAIN sim.card}
  /\ sim.out.op # "none" => sim.out.who # b
  /\ \A i \in DOMAIN outp : outp[i].who # b
  /\ outt.buf # b

Own(u) == {b \in Bufs : mem.mapped[b] = u}
Free == {b \in Bufs : b \notin mem.alloc}

(* A call begins: what it does before its first lambda, the registration   *)
(* as a receiver and the start of the helper.                              *)
Begin(u, fn, b) ==
  /\ user' = [user EXCEPT ![u].pc = "recv", ![u].last = bc.gen, ![u].fn = fn, ![u].buf = b,
                          ![u].todo = Tail(Lambdas(fn)), ![u].calls = @ + 1, ![u].seen = 0, ![u].got = NoOne]
  /\ lambda' = [lambda EXCEPT ![u] = Head(Lambdas(fn))]
  /\ bc' = register_receiver(u)
  /\ mem' = CASE fn = "getMem" -> [mem EXCEPT !.alloc = @ \cup {b}, !.tlb = @ \cup {b}]
              [] fn = "freeMem" -> [mem EXCEPT !.tlb = @ \ {b}, !.rushed = @ \/ ~Settled(b)]
              [] OTHER -> mem

Target(u, fn) ==
  CASE fn = "getMem" -> Free
    [] fn = "freeMem" -> {b \in Own(u) : Settled(b) \/ "late" \in env}
    [] fn \in {"read", "write", "writeCard", "transfer", "sync", "offload"} -> Own(u)
    [] fn = "setCSR" -> IF Own(u) = {} THEN {NoOne} ELSE Own(u)
    [] OTHER -> {NoOne}

MayCall(u, fn) ==
  /\ u = Main \/ "threads" \in env
  /\ "threads" \in env /\ fn \in {"sync", "offload", "clearCompleted"} => "syncs" \in env

Call(u) ==
  /\ proc = "up" /\ life = "ready"
  /\ Idle(u) /\ user[u].calls < MaxCalls[env][u]
  /\ \E fn \in Fns[env] : MayCall(u, fn) /\ \E b \in Target(u, fn) : Begin(u, fn, b)
  /\ UNCHANGED <<env, proc, life, bt, mtx, inp, outp, sim, outt, queues, irq>>

(* An operation of the wrong kind, or one that is too large: invoke throws *)
(* before it has done anything, and the program catches what it throws.    *)
Refused(u) ==
  /\ proc = "up" /\ life = "ready"
  /\ Idle(u) /\ user[u].calls < MaxCalls[env][u]
  /\ u = Main \/ "threads" \in env
  /\ user' = [user EXCEPT ![u].calls = @ + 1]
  /\ UNCHANGED <<env, proc, life, lambda, bt, bc, mtx, inp, outp, sim, outt, queues, irq, mem>>

(* The helper is joined; the call goes on with its next lambda, or returns *)
(* after what it does last.                                                *)
Join(u) ==
  /\ proc = "up"
  /\ user[u].pc = "join" /\ bt[u] = "over"
  /\ bt' = [bt EXCEPT ![u] = "off"]
  /\ IF user[u].todo # <<>>
       THEN /\ user' = [user EXCEPT ![u].pc = "recv", ![u].last = bc.gen, ![u].todo = Tail(@)]
            /\ lambda' = [lambda EXCEPT ![u] = Head(user[u].todo)]
            /\ bc' = register_receiver(u)
            /\ UNCHANGED mem
       ELSE /\ user' = [user EXCEPT ![u].pc = "idle", ![u].last = 0, ![u].buf = NoOne, ![u].seen = 0, ![u].got = NoOne]
            /\ mem' = CASE user[u].fn = "getMem" -> [mem EXCEPT !.mapped[user[u].buf] = u]
                        [] user[u].fn = "freeMem" -> [mem EXCEPT !.mapped[user[u].buf] = NoOne, !.alloc = @ \ {user[u].buf}]
                        [] OTHER -> mem
            /\ UNCHANGED <<lambda, bc>>
  /\ UNCHANGED <<env, proc, life, mtx, inp, outp, sim, outt, queues, irq>>
-----------------------------------------------------------------------------
(* The helper threads: the steps of a lambda.                              *)

(* BinaryInputWriter: a message is written under write_mtx, which stays    *)
(* held while the pipe is full.  Writing to a pipe whose reader is gone,   *)
(* or to a file that is closed, ends the process.                          *)
WriteInput(t, msg) ==
  /\ mtx.write \in {NoOne, t}
  /\ IF sim.st \in {"ended", "dead"} \/ life = "closed"
       THEN proc' = "gone" /\ UNCHANGED <<mtx, inp>>
     ELSE IF Room(inp)
       THEN inp' = Append(inp, msg) /\ mtx' = [mtx EXCEPT !.write = NoOne] /\ UNCHANGED proc
       ELSE mtx' = [mtx EXCEPT !.write = t] /\ UNCHANGED <<proc, inp>>

Step(u, kind) == proc = "up" /\ lambda[u] # <<>> /\ lambda[u][1][1] = kind
Name(u) == lambda[u][1][2]

(* After its last step the helper broadcasts its result.                   *)
NextStep(u) ==
  /\ lambda' = [lambda EXCEPT ![u] = Tail(@)]
  /\ bt' = IF Len(lambda[u]) = 1 THEN [bt EXCEPT ![u] = "call"] ELSE bt

OpenInput(u) ==
  /\ Step(u, "open") /\ sim.st = "running"
  /\ NextStep(u)
  /\ UNCHANGED <<env, proc, life, user, bc, mtx, inp, outp, sim, outt, queues, irq, mem>>

WriteStep(u) ==
  /\ Step(u, "write")
  /\ ~(mtx.write = u /\ ~Room(inp) /\ sim.st = "running")
  /\ WriteInput(u, InMsg(Name(u), u))
  /\ IF inp' # inp THEN NextStep(u) ELSE UNCHANGED <<lambda, bt>>
  /\ UNCHANGED <<env, life, user, bc, outp, sim, outt, queues, irq, mem>>

LockStep(u) ==
  /\ Step(u, "lock") /\ mtx[Name(u)] = NoOne
  /\ mtx' = [mtx EXCEPT ![Name(u)] = u]
  /\ NextStep(u)
  /\ UNCHANGED <<env, proc, life, user, bc, inp, outp, sim, outt, queues, irq, mem>>

UnlockStep(u) ==
  /\ Step(u, "unlock")
  /\ mtx' = [mtx EXCEPT ![Name(u)] = NoOne]
  /\ NextStep(u)
  /\ UNCHANGED <<env, proc, life, user, bc, inp, outp, sim, outt, queues, irq, mem>>

(* BlockingQueue::pop by getCSRResult and checkCompletedResult.            *)
PopStep(u) ==
  /\ Step(u, "pop") /\ queues[Name(u)] # <<>>
  /\ LET m == Head(queues[Name(u)])
     IN user' = [user EXCEPT ![u].got = m.who, ![u].seen = IF Name(u) = "completed" THEN m.n ELSE @]
  /\ queues' = [queues EXCEPT ![Name(u)] = Tail(@)]
  /\ NextStep(u)
  /\ UNCHANGED <<env, proc, life, bc, mtx, inp, outp, sim, outt, irq, mem>>

-----------------------------------------------------------------------------
(* The simulator: generator, control and memory simulation, scoreboard.    *)
(* It is one process: while a message does not fit into the output pipe,   *)
(* nothing else of it runs.                                                *)

SimRuns == sim.st = "running" /\ sim.out = Nothing

SimOnly == UNCHANGED <<env, proc, life, user, lambda, bt, bc, mtx, outt, queues, irq, mem>>

Flush ==
  /\ sim.st = "running" /\ sim.out # Nothing /\ Room(outp)
  /\ outp' = Append(outp, sim.out)
  /\ sim' = [sim EXCEPT !.out = Nothing]
  /\ SimOnly /\ UNCHANGED inp

(* A buffer the memory mock does not know ends the simulation ($fatal).    *)
Known(b, after) == IF b \in sim.map THEN after ELSE [sim EXCEPT !.st = "dead"]

Answer(m) == OutMsg("CHECK_COMPLETED", m.who, sim.cnt[m.of])

Handled(m) ==
  CASE m.op = "SET_CSR" -> IF "dut" \in env /\ m.buf # NoOne THEN [sim EXCEPT !.dut = Append(@, m.buf)] ELSE sim
    [] m.op = "GET_CSR" -> [sim EXCEPT !.ctrl = Append(@, m.who)]
    [] m.op = "USER_MAP" -> [sim EXCEPT !.map = @ \cup {m.buf}]
    [] m.op = "USER_UNMAP" -> Known(m.buf, [sim EXCEPT !.map = @ \ {m.buf}])
    [] m.op = "MEM_WRITE" ->
         Known(m.buf, IF sim.sync = m.buf
                      THEN [sim EXCEPT !.sync = NoOne, !.dut = Tail(@), !.rd = Append(@, m.buf)] ELSE sim)
    [] m.op = "LOCAL_READ" -> [sim EXCEPT !.rd = Append(@, m.buf)]
    [] m.op = "LOCAL_WRITE" -> [sim EXCEPT !.wr = Append(@, m.buf)]
    [] m.op = "CARD_WRITE" -> Known(m.buf, [sim EXCEPT !.card = Append(@, m.buf)])
    [] m.op = "LOCAL_OFFLOAD" -> Known(m.buf, [sim EXCEPT !.cnt.offload = @ + 1])
    [] m.op = "LOCAL_SYNC" -> Known(m.buf, [sim EXCEPT !.out = OutMsg("HOST_WRITE", m.buf, 0), !.cnt.sync = @ + 1])
    [] m.op = "CHECK_COMPLETED" -> [sim EXCEPT !.out = Answer(m)]
    [] m.op = "POLL" -> [sim EXCEPT !.poll = <<m>>]
    [] m.op = "CLEAR_COMPLETED" -> [sim EXCEPT !.cnt = [c \in DOMAIN @ |-> 0]]

GenRead ==
  /\ SimRuns /\ sim.poll = <<>> /\ inp # <<>>
  /\ sim' = Handled(Head(inp))
  /\ inp' = Tail(inp)
  /\ SimOnly /\ UNCHANGED outp

(* A polling check holds up the generator until the counter is reached.    *)
GenPoll ==
  /\ SimRuns /\ sim.poll # <<>>
  /\ LET m == sim.poll[1]
     IN /\ sim.cnt[m.of] >= m.cnt
        /\ sim' = [sim EXCEPT !.poll = <<>>, !.out = Answer(m)]
  /\ SimOnly /\ UNCHANGED <<inp, outp>>

(* run_read_queue: the stream has taken the data of a read.                *)
DoRead ==
  /\ SimRuns /\ sim.rd # <<>>
  /\ sim' = Known(Head(sim.rd), [sim EXCEPT !.rd = Tail(@), !.cnt.read = @ + 1])
  /\ SimOnly /\ UNCHANGED <<inp, outp>>

(* run_write_queue: a write of the host stream sends its data to the host, *)
(* and is then counted as complete (run_ack).                              *)
DoWrite ==
  /\ SimRuns /\ sim.wr # <<>> /\ ~sim.sent
  /\ sim' = Known(Head(sim.wr), [sim EXCEPT !.out = OutMsg("HOST_WRITE", Head(sim.wr), 1), !.sent = TRUE])
  /\ SimOnly /\ UNCHANGED <<inp, outp>>

DoWriteAck ==
  /\ SimRuns /\ sim.sent
  /\ sim' = [sim EXCEPT !.wr = Tail(@), !.sent = FALSE, !.cnt.write = @ + 1]
  /\ SimOnly /\ UNCHANGED <<inp, outp>>

(* The write queue of the card stream: nothing is sent to the host.        *)
DoCardWrite ==
  /\ SimRuns /\ sim.card # <<>>
  /\ sim' = Known(Head(sim.card), [sim EXCEPT !.card = Tail(@), !.cnt.write = @ + 1, !.carded = @ + 1])
  /\ SimOnly /\ UNCHANGED <<inp, outp>>

(* ctrl_simulation answers the register reads in order.                    *)
DoCtrl ==
  /\ SimRuns /\ sim.ctrl # <<>>
  /\ sim' = [sim EXCEPT !.ctrl = Tail(@), !.out = OutMsg("GET_CSR", Head(sim.ctrl), 0)]
  /\ SimOnly /\ UNCHANGED <<inp, outp>>

(* notify_simulation: the vFPGA raises an interrupt.                       *)
DoIrq ==
  /\ SimRuns /\ sim.raised < MaxIrqs[env]
  /\ sim' = [sim EXCEPT !.raised = @ + 1, !.out = OutMsg("IRQ", NoOne, sim.raised + 1)]
  /\ SimOnly /\ UNCHANGED <<inp, outp>>

(* run_sq_rd_recv: the vFPGA reads from the host, whose memory is asked    *)
(* for first.                                                              *)
DoHostRead ==
  /\ SimRuns /\ sim.dut # <<>> /\ sim.sync = NoOne
  /\ sim' = [sim EXCEPT !.out = OutMsg("HOST_READ", Head(sim.dut), 0), !.sync = Head(sim.dut)]
  /\ SimOnly /\ UNCHANGED <<inp, outp>>

(* The input is closed and read to its end: the testbench finishes.        *)
GenEof ==
  /\ SimRuns /\ sim.poll = <<>> /\ inp = <<>> /\ life = "closed"
  /\ sim' = [sim EXCEPT !.st = "ended"]
  /\ SimOnly /\ UNCHANGED <<inp, outp>>

Crash ==
  /\ "crash" \in env /\ sim.st \in {"starting", "running"}
  /\ sim' = [sim EXCEPT !.st = "dead"]
  /\ SimOnly /\ UNCHANGED <<inp, outp>>

-----------------------------------------------------------------------------
(* The threads of the object.                                              *)

(* The two ends of output.bin are opened together; the generator opens the *)
(* input afterwards.                                                       *)
OutOpen ==
  /\ proc = "up" /\ outt.pc = "open" /\ sim.st = "starting"
  /\ outt' = [outt EXCEPT !.pc = "read"]
  /\ sim' = [sim EXCEPT !.st = "running"]
  /\ UNCHANGED <<env, proc, life, user, lambda, bt, bc, mtx, inp, outp, queues, irq, mem>>

boundsCheck(b) == b \in mem.tlb

Push(queue, m) == queues' = [queues EXCEPT ![queue] = Append(@, m)]

(* readUntilEOF: one message.                                              *)
OutRead ==
  /\ proc = "up" /\ outt.pc = "read" /\ outp # <<>>
  /\ outp' = Tail(outp)
  /\ LET m == Head(outp)
     IN CASE m.op = "GET_CSR" -> Push("csr", m) /\ UNCHANGED <<proc, outt, mem>>
          [] m.op = "CHECK_COMPLETED" -> Push("completed", m) /\ UNCHANGED <<proc, outt, mem>>
          [] m.op = "IRQ" -> Push("irq", m) /\ UNCHANGED <<proc, outt, mem>>
          [] ~boundsCheck(m.who) -> proc' = "gone" /\ UNCHANGED <<outt, queues, mem>>
          [] m.op = "HOST_WRITE" /\ boundsCheck(m.who) ->
               mem' = [mem EXCEPT !.written = @ + m.n] /\ UNCHANGED <<proc, outt, queues>>
          [] m.op = "HOST_READ" /\ boundsCheck(m.who) ->
               outt' = [pc |-> "mem", buf |-> m.who] /\ UNCHANGED <<proc, queues, mem>>
  /\ UNCHANGED <<env, life, user, lambda, bt, bc, mtx, inp, sim, irq>>

(* A host read is answered through the input pipe.                         *)
OutWriteMem ==
  /\ proc = "up" /\ outt.pc = "mem"
  /\ ~(mtx.write = "OUT" /\ ~Room(inp) /\ sim.st = "running")
  /\ WriteInput("OUT", [op |-> "MEM_WRITE", who |-> "OUT", buf |-> outt.buf, of |-> "write", cnt |-> 0])
  /\ outt' = IF inp' # inp THEN [pc |-> "read", buf |-> NoOne] ELSE outt
  /\ UNCHANGED <<env, life, user, lambda, bt, bc, outp, sim, queues, irq, mem>>

OutEof ==
  /\ proc = "up" /\ outt.pc = "read" /\ outp = <<>> /\ sim.st \in {"ended", "dead"}
  /\ outt' = [outt EXCEPT !.pc = "done"]
  /\ irq' = [irq EXCEPT !.stopped = TRUE]
  /\ bt' = [bt EXCEPT !["OUT"] = "call"]
  /\ UNCHANGED <<env, proc, life, user, lambda, bc, mtx, inp, outp, sim, queues, mem>>

(* runSimulation has returned.                                             *)
SimReturns ==
  /\ proc = "up" /\ sim.st \in {"ended", "dead"} /\ bt["SIM"] = "off"
  /\ bt' = [bt EXCEPT !["SIM"] = "call"]
  /\ UNCHANGED <<env, proc, life, user, lambda, bc, mtx, inp, outp, sim, outt, queues, irq, mem>>

(* Mutant: the interrupt that arrived last is taken first.                 *)
IrqLast ==
  /\ proc = "up" /\ ~irq.over
  /\ \/ /\ queues.irq # <<>>
        /\ irq' = [irq EXCEPT !.handled = Append(@, queues.irq[Len(queues.irq)].n)]
        /\ queues' = [queues EXCEPT !.irq = SubSeq(@, 1, Len(@) - 1)]
     \/ /\ queues.irq = <<>> /\ irq.stopped
        /\ irq' = [irq EXCEPT !.over = TRUE]
        /\ UNCHANGED queues
  /\ UNCHANGED <<env, proc, life, user, lambda, bt, bc, mtx, inp, outp, sim, outt, mem>>

(* getNextIRQ and the interrupt routine.  A queue that is stopped is       *)
(* emptied first.                                                          *)
IrqPop ==
  /\ proc = "up" /\ ~irq.over
  /\ \/ /\ queues.irq # <<>>
        /\ irq' = [irq EXCEPT !.handled = Append(@, Head(queues.irq).n)]
        /\ queues' = [queues EXCEPT !.irq = Tail(@)]
     \/ /\ queues.irq = <<>> /\ irq.stopped
        /\ irq' = [irq EXCEPT !.over = TRUE]
        /\ UNCHANGED queues
  /\ UNCHANGED <<env, proc, life, user, lambda, bt, bc, mtx, inp, outp, sim, outt, mem>>
-----------------------------------------------------------------------------
(* The life of the object.                                                 *)

Init ==
  /\ env \in Environments
  /\ proc = "setup" /\ life = "ctor"
  /\ user = [u \in Users |-> [pc |-> "idle", last |-> 0, fn |-> "none", buf |-> NoOne, todo |-> <<>>,
                              calls |-> 0, seen |-> 0, got |-> NoOne]]
  /\ lambda = [u \in Users |-> <<>>]
  /\ bt = [t \in Broadcasters |-> "off"]
  /\ bc = [num |-> 0, active |-> FALSE, gen |-> 0, ack |-> 0, data |-> NoOne]
  /\ mtx = [m \in {"write", "csr", "check"} |-> NoOne]
  /\ inp = <<>> /\ outp = <<>>
  /\ sim = [st |-> "off", out |-> Nothing, rd |-> <<>>, wr |-> <<>>, sent |-> FALSE, card |-> <<>>, carded |-> 0, dut |-> <<>>, sync |-> NoOne,
            ctrl |-> <<>>, poll |-> <<>>, cnt |-> [c \in {"read", "write", "offload", "sync"} |-> 0],
            map |-> {}, raised |-> 0]
  /\ outt = [pc |-> "open", buf |-> NoOne]
  /\ queues = [q \in {"csr", "completed", "irq"} |-> <<>>]
  /\ irq = [handled |-> <<>>, stopped |-> FALSE, over |-> TRUE]
  /\ mem = [alloc |-> {}, tlb |-> {}, mapped |-> [b \in Bufs |-> NoOne], written |-> 0, rushed |-> FALSE]

(* What the constructor does before its threads run: the pipes, Vivado and *)
(* the project.  The failure of any of it ends the process.                *)
Stage(from, to) ==
  /\ proc = from
  /\ proc' \in {to} \cup (IF "crash" \in env THEN {"gone"} ELSE {})
  /\ UNCHANGED <<env, life, user, lambda, bt, bc, mtx, inp, outp, sim, outt, queues, irq, mem>>

MakePipes == Stage("setup", "pipes")
initialize == Stage("pipes", "vivado")
openProject == Stage("vivado", "project")
compileProject == Stage("project", "compiled")

(* The threads SIM and OUT are created; SIM starts the simulation.         *)
StartThreads ==
  /\ proc = "compiled"
  /\ proc' = "up" /\ sim' = [sim EXCEPT !.st = "starting"]
  /\ UNCHANGED <<env, life, user, lambda, bt, bc, mtx, inp, outp, outt, queues, irq, mem>>

Constructing == proc = "up" /\ life = "ctor" /\ Idle(Main)

CtorOpen ==
  /\ Constructing /\ user[Main].fn = "none"
  /\ Begin(Main, "open", NoOne)
  /\ UNCHANGED <<env, proc, life, bt, mtx, inp, outp, sim, outt, queues, irq>>

CtorClear ==
  /\ Constructing /\ user[Main].fn = "open"
  /\ irq' = [irq EXCEPT !.over = FALSE]
  /\ Begin(Main, "clearCompleted", NoOne)
  /\ UNCHANGED <<env, proc, life, bt, mtx, inp, outp, sim, outt, queues>>

CtorReturn ==
  /\ Constructing /\ user[Main].fn = "clearCompleted"
  /\ life' = "ready"
  /\ user' = [user EXCEPT ![Main].calls = 0]
  /\ UNCHANGED <<env, proc, lambda, bt, bc, mtx, inp, outp, sim, outt, queues, irq, mem>>

(* The program destroys the object after the calls on it have returned.    *)
Destroy ==
  /\ proc = "up" /\ life = "ready"
  /\ \A u \in Users : Idle(u)
  /\ "late" \in env \/ \A b \in Bufs : Settled(b)
  /\ life' = "dying"
  /\ UNCHANGED <<env, proc, user, lambda, bt, bc, mtx, inp, outp, sim, outt, queues, irq, mem>>

Destroying == proc = "up" /\ life = "dying" /\ Idle(Main)

DtorFree ==
  /\ Destroying
  /\ \E b \in Bufs : mem.mapped[b] # NoOne /\ Begin(Main, "freeMem", b)
  /\ UNCHANGED <<env, proc, life, bt, mtx, inp, outp, sim, outt, queues, irq>>

DtorClose ==
  /\ Destroying
  /\ \A b \in Bufs : mem.mapped[b] = NoOne
  /\ life' = "closed"
  /\ UNCHANGED <<env, proc, user, lambda, bt, bc, mtx, inp, outp, sim, outt, queues, irq, mem>>

DtorJoin ==
  /\ proc = "up" /\ life = "closed"
  /\ bt["SIM"] = "over" /\ bt["OUT"] = "over" /\ irq.over
  /\ proc' = "over"
  /\ UNCHANGED <<env, life, user, lambda, bt, bc, mtx, inp, outp, sim, outt, queues, irq, mem>>

UserThread(u) == receive_any(u) \/ Leave(u) \/ Join(u)
Helper(u) == OpenInput(u) \/ WriteStep(u) \/ LockStep(u) \/ UnlockStep(u) \/ PopStep(u)
Broadcast(t) == BroadcastBegin(t) \/ BroadcastEnd(t)
Simulator == Flush \/ GenRead \/ GenPoll \/ DoRead \/ DoWrite \/ DoWriteAck \/ DoCardWrite \/ DoCtrl \/ DoHostRead \/ GenEof
OutThread == OutOpen \/ OutRead \/ OutWriteMem \/ OutEof
Lifetime ==
  \/ MakePipes \/ initialize \/ openProject \/ compileProject \/ StartThreads
  \/ CtorOpen \/ CtorClear \/ CtorReturn \/ DtorFree \/ DtorClose \/ DtorJoin

Progress ==
  \/ \E u \in Users : UserThread(u) \/ Helper(u)
  \/ \E t \in Broadcasters : Broadcast(t)
  \/ Simulator \/ OutThread \/ SimReturns \/ IrqPop \/ Lifetime

Next == Progress \/ (\E u \in Users : Call(u) \/ Refused(u)) \/ DoIrq \/ Crash \/ Destroy

(* Some thread of the process, or the simulation, runs as long as one of   *)
(* them can; calls, interrupts, a crash and the destruction need not       *)
(* happen.                                                                 *)
Spec == Init /\ [][Next]_vars /\ WF_vars(Progress)
-----------------------------------------------------------------------------
(* Properties.                                                             *)

(* An answer of the simulation goes to the thread that asked for it: the   *)
(* answers carry no name and are told apart only by their order, which     *)
(* getCSR and checkCompleted keep by holding a mutex from the request to   *)
(* the answer.  The blocking check of sync and offload holds none: beside  *)
(* it only the answers of getCSR are sure to find their asker.  And when   *)
(* checkCompleted reports n completed writes, those of them that are not   *)
(* writes of the card's memory have their data in the host's memory: the   *)
(* simulation sends the data before it counts, and readUntilEOF applies    *)
(* its output in order.                                                    *)
AnswersMatch ==
  \A u \in Users :
    \/ /\ user[u].got \in {NoOne, u}
       /\ user[u].fn = "checkCompleted" => user[u].seen <= mem.written + sim.carded
    \/ {"threads", "syncs"} \subseteq env /\ user[u].fn # "getCSR"

(* The process ends in order.  The user's routine sees the interrupts once *)
(* and in the order in which the vFPGA raised them, and unless the         *)
(* simulation crashed the destructor returns only after it has seen all    *)
(* that the simulation sent, although the end of the output stops the      *)
(* queue.  A thread terminates the process only when the simulation has    *)
(* crashed or the program has freed a buffer before its transfers were     *)
(* complete: otherwise no bounds check fails, no answer to a host read     *)
(* meets a closed pipe, and the end of the simulation is never taken for a *)
(* crash.                                                                  *)
EndsInOrder ==
  /\ \E n \in 0..sim.raised :
       /\ irq.handled = [i \in 1..n |-> i]
       /\ proc = "over" /\ "crash" \notin env => n = sim.raised - (IF sim.out.op = "IRQ" THEN 1 ELSE 0)
  /\ proc = "gone" => "crash" \in env \/ mem.rushed

\* The conditions under which the calls return
Orderly == env \cap {"threads", "crash", "late"} = {} /\ ~({"burst", "dut"} \subseteq env)

(* The constructor, every call and the destructor return, as long as one   *)
(* thread makes the calls, the simulation does not crash and the pipes     *)
(* hold what the vFPGA sends while the library answers its host reads.     *)
EveryCallReturns ==
  Orderly => /\ <>(life = "ready")
             /\ \A u \in Users : user[u].pc # "idle" ~> Idle(u)
             /\ life = "dying" ~> proc = "over"
=============================================================================
