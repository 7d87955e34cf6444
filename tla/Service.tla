------------------------------- MODULE Service -------------------------------
(***************************************************************************)
(* The background service cService and its clients cConn: the accept loop, *)
(* one request thread and one response thread per connection, the cleaning *)
(* thread, and on the other side of each socket a client that submits      *)
(* tasks and a thread that collects the results.  The scheduler is the     *)
(* abstract TaskExecutor, which Scheduler implements.                      *)
(*                                                                         *)
(* A socket is two streams.  Towards the service it carries 32-bit words:  *)
(* a request is three of them, an argument one.  Towards the client it     *)
(* carries pairs of words: a response header is <<ret_code, task id>> and  *)
(* a return value is a pair too (an int64_t).  The reader decides what a   *)
(* word is, as in the code.                                                *)
(***************************************************************************)
EXTENDS Integers, Sequences, FiniteSets, SequencesExt

CONSTANTS
  Conns,            \* the connections of a behaviour, 1 .. n
  Fds,              \* descriptors the kernel may hand out, 1 .. n
  Fids, Bitstreams, BitstreamOf, InitialBitstream,   \* as in TaskExecutor
  UnknownFid,       \* a function that is not registered
  NArgs,            \* does a function take an argument (1) or none (0)?
  MaxTasks,         \* bound on the tasks of each client, per environment
  Environments      \* the sets of mishaps a behaviour may be exposed to

\* "unknown": clients ask for UnknownFid; "failing": tasks fail; "timeout": the
\* argument of a request arrives too late; "impatient": a client disconnects
\* before its tasks are answered; "death": a client dies without disconnecting;
\* "reuse": a descriptor is accepted again before it was cleaned; "nothread": the
\* constructor of a cThread throws.
Mishaps == {"unknown", "failing", "timeout", "impatient", "death", "reuse", "nothread"}

ASSUME ServiceAssumption ==
  /\ Environments \subseteq SUBSET Mishaps
  /\ UnknownFid \notin Fids
  /\ NArgs \in {0, 1}
  /\ MaxTasks \in [Environments -> [Conns -> Nat]]

\* cDefs.hpp
DEF_OP_CLOSE_CONN == 0
DEF_OP_SUBMIT_TASK == 1

\* An argument; the words after the opcode of a close request are not set.
ArgWord == 77
AnyWord == 88

VARIABLES
  cstate,          \* client: "new", "open", "closed"
  ctasks,          \* client: its tasks by task id + 1
  writing,         \* client: words of the current request still to be written
  reading,         \* client: the task whose return value is read next, or -1
  up, down,        \* the two streams of each connection
  sock,            \* service: the connection behind each descriptor, 0 if closed
  connfd,          \* service: the descriptor of each connection
  req, rsp,        \* service: request and response thread of each connection
  tasks,           \* service, by descriptor: pairs <<client_tid, server_tid>>
  task_locks,      \* service, by descriptor: is the task lock held?
  connection_threads,  \* service, by descriptor: the connection its threads serve
  coyote_threads,  \* service, by descriptor: the connection its cThread was made for
  conns_to_clean,  \* service: descriptors marked stale
  cleaner,         \* service: what cleanConns does next, and to which descriptor
  task_counter,
  pool, loaded, busy,  \* the scheduler
  ids,             \* task identifier, connection and cThread of each task of pool
  sent,            \* server task ids whose response was sent, in order
  up_and_running,  \* the daemon has not been killed
  env              \* the mishaps of this behaviour; never changes

client == <<cstate, ctasks, writing, reading>>
threads == <<req, rsp>>
tables == <<sock, connfd, connection_threads, coyote_threads, cleaner>>
queues == <<tasks, task_locks>>
scheduler == <<pool, loaded, busy, ids, task_counter>>
vars == <<client, up, down, threads, tables, queues, conns_to_clean, scheduler,
          sent, up_and_running, env>>

Executor == INSTANCE TaskExecutor

\* insert on a std::map: an entry that is there stays.
Insert(map, f, v) == map @@ (f :> v)

Erase(map, f) == Restrict(map, DOMAIN map \ {f})

NoRequest == [pc |-> "off", fid |-> 0, tid |-> 0, sid |-> 0]
NoScan == [pc |-> "off", pos |-> 1]
Asleep == [pc |-> "sleep", fd |-> 0]

Init ==
  /\ cstate = [c \in Conns |-> "new"]
  /\ ctasks = [c \in Conns |-> <<>>]
  /\ writing = [c \in Conns |-> <<>>]
  /\ reading = [c \in Conns |-> -1]
  /\ up = [c \in Conns |-> <<>>]
  /\ down = [c \in Conns |-> <<>>]
  /\ sock = [f \in Fds |-> 0]
  /\ connfd = [c \in Conns |-> 0]
  /\ req = [c \in Conns |-> NoRequest]
  /\ rsp = [c \in Conns |-> NoScan]
  /\ tasks = <<>>
  /\ task_locks = <<>>
  /\ connection_threads = <<>>
  /\ coyote_threads = <<>>
  /\ conns_to_clean = {}
  /\ cleaner = Asleep
  /\ task_counter = 0
  /\ Executor!Init
  /\ ids = <<>>
  /\ sent = <<>>
  /\ up_and_running = TRUE
  /\ env \in Environments

-----------------------------------------------------------------------------
\* The client.

\* task and iTask: the request is written in one call, its argument in another.
iTask(c, fid) ==
  /\ cstate[c] = "open"
  /\ writing[c] = <<>>
  /\ Len(ctasks[c]) < MaxTasks[env][c]
  /\ fid \in Fids \/ "unknown" \in env
  /\ ctasks' = [ctasks EXCEPT ![c] = Append(@, [fid |-> fid, completed |-> FALSE,
                                                ret_code |-> -1, ret_val |-> <<>>])]
  /\ up' = [up EXCEPT ![c] = @ \o <<DEF_OP_SUBMIT_TASK, fid, Len(ctasks[c])>>]
  /\ writing' = [writing EXCEPT ![c] = [i \in 1 .. NArgs |-> ArgWord]]
  /\ UNCHANGED <<cstate, reading, down, threads, tables, queues, conns_to_clean,
                 scheduler, sent, up_and_running, env>>

WriteArgument(c) ==
  /\ cstate[c] = "open"
  /\ writing[c] # <<>>
  /\ up' = [up EXCEPT ![c] = @ \o writing[c]]
  /\ writing' = [writing EXCEPT ![c] = <<>>]
  /\ UNCHANGED <<cstate, ctasks, reading, down, threads, tables, queues,
                 conns_to_clean, scheduler, sent, up_and_running, env>>

\* checkCompletedTasks reads a header.
ReceiveHeader(c) ==
  LET ret_code == down[c][1][1]
      tid == down[c][1][2]
      known == tid + 1 \in DOMAIN ctasks[c]
  IN  /\ cstate[c] = "open"
      /\ reading[c] = -1
      /\ down[c] # <<>>
      /\ down' = [down EXCEPT ![c] = Tail(@)]
      /\ reading' = [reading EXCEPT ![c] = IF known /\ ret_code = 0 THEN tid ELSE -1]
      /\ ctasks' = IF known /\ ret_code # 0
                   THEN [ctasks EXCEPT ![c][tid + 1].ret_code = ret_code,
                                       ![c][tid + 1].completed = TRUE]
                   ELSE ctasks
      /\ UNCHANGED <<cstate, writing, up, threads, tables, queues, conns_to_clean,
                     scheduler, sent, up_and_running, env>>

\* ... and then the return value.
ReceiveValue(c) ==
  /\ cstate[c] = "open"
  /\ reading[c] # -1
  /\ down[c] # <<>>
  /\ down' = [down EXCEPT ![c] = Tail(@)]
  /\ reading' = [reading EXCEPT ![c] = -1]
  /\ ctasks' = [ctasks EXCEPT ![c][reading[c] + 1].ret_val = down[c][1],
                              ![c][reading[c] + 1].ret_code = 0,
                              ![c][reading[c] + 1].completed = TRUE]
  /\ UNCHANGED <<cstate, writing, up, threads, tables, queues, conns_to_clean,
                 scheduler, sent, up_and_running, env>>

AllAnswered(c) == \A i \in DOMAIN ctasks[c]: ctasks[c][i].completed

\* The destructor of cConn
Disconnect(c) ==
  /\ cstate[c] = "open"
  /\ writing[c] = <<>>
  /\ "impatient" \in env \/ AllAnswered(c)
  /\ up' = [up EXCEPT ![c] = @ \o <<DEF_OP_CLOSE_CONN, AnyWord, AnyWord>>]
  /\ cstate' = [cstate EXCEPT ![c] = "closed"]
  /\ down' = [down EXCEPT ![c] = <<>>]
  /\ reading' = [reading EXCEPT ![c] = -1]
  /\ UNCHANGED <<ctasks, writing, threads, tables, queues,
                 conns_to_clean, scheduler, sent, up_and_running, env>>

ClientDies(c) ==
  /\ "death" \in env
  /\ cstate[c] = "open"
  /\ cstate' = [cstate EXCEPT ![c] = "closed"]
  /\ down' = [down EXCEPT ![c] = <<>>]
  /\ reading' = [reading EXCEPT ![c] = -1]
  /\ writing' = [writing EXCEPT ![c] = <<>>]
  /\ UNCHANGED <<ctasks, up, threads, tables, queues,
                 conns_to_clean, scheduler, sent, up_and_running, env>>

-----------------------------------------------------------------------------
\* The service: descriptors, accepting and cleaning.

\* accept returns the lowest free descriptor.
NextFd == CHOOSE f \in Fds: sock[f] = 0 /\ \A g \in Fds: g < f => sock[g] # 0

HasFreeFd == \E f \in Fds: sock[f] = 0

\* Connections are made one after the other.
Connecting(c) ==
  /\ up_and_running
  /\ cstate[c] = "new"
  /\ \A d \in Conns: d < c => cstate[d] # "new"
  /\ HasFreeFd

\* No table of the service has an entry for f.
Clear(f) ==
  /\ f \notin DOMAIN tasks \cup DOMAIN task_locks
  /\ f \notin DOMAIN connection_threads \cup DOMAIN coyote_threads
  /\ f \notin conns_to_clean

\* A client connects, and acceptConnectionLocal reads its pid and serves it.
Accept(c) ==
  LET f == NextFd
  IN  /\ Connecting(c)
      /\ Clear(f) \/ "reuse" \in env
      /\ f \notin DOMAIN connection_threads
      /\ cstate' = [cstate EXCEPT ![c] = "open"]
      /\ sock' = [sock EXCEPT ![f] = c]
      /\ connfd' = [connfd EXCEPT ![c] = f]
      /\ task_locks' = Insert(task_locks, f, FALSE)
      /\ tasks' = Insert(tasks, f, <<>>)
      /\ coyote_threads' = Insert(coyote_threads, f, c)
      /\ connection_threads' = Insert(connection_threads, f, c)
      /\ req' = [req EXCEPT ![c].pc = "read"]
      /\ rsp' = [rsp EXCEPT ![c].pc = "idle"]
      /\ UNCHANGED <<ctasks, writing, reading, up, down, conns_to_clean, cleaner,
                     scheduler, sent, up_and_running, env>>

\* The accept loop ends the daemon.  Either the descriptor is that of a connection
\* whose threads have not been joined: connection_threads keeps the old pair, and
\* the new one is destroyed running.  Or the cThread cannot be made: the exception
\* ends the loop, start returns, and the running cleanup thread is destroyed.
AcceptFatal(c) ==
  /\ Connecting(c)
  /\ \/ "reuse" \in env /\ NextFd \in DOMAIN connection_threads
     \/ "nothread" \in env
  /\ cstate' = [cstate EXCEPT ![c] = "open"]
  /\ up_and_running' = FALSE
  /\ UNCHANGED <<ctasks, writing, reading, up, down, threads, tables, queues,
                 conns_to_clean, scheduler, sent, env>>

\* The pid does not arrive, or not in time: the service closes the connection and
\* has noted nothing.  A client that is only late dies of its next write.
AcceptSilent(c) ==
  /\ Connecting(c)
  /\ env \cap {"death", "timeout"} # {}
  /\ cstate' = [cstate EXCEPT ![c] = "closed"]
  /\ UNCHANGED <<ctasks, writing, reading, up, down, threads, tables, queues,
                 conns_to_clean, scheduler, sent, up_and_running, env>>

\* write on a descriptor: EBADF when it is closed, SIGPIPE when the client has
\* closed its end.
Write(f, pair) ==
  LET c == sock[f]
      broken == c # 0 /\ cstate[c] = "closed"
  IN  /\ down' = IF c = 0 \/ broken THEN down ELSE [down EXCEPT ![c] = Append(@, pair)]
      /\ up_and_running' = ~broken

ThreadsEnded(c) == req[c].pc = "ended" /\ rsp[c].pc = "ended"

\* cleanConns takes up a stale connection, ...
CleanBegin(f) ==
  /\ up_and_running
  /\ cleaner.pc = "sleep"
  /\ f \in conns_to_clean
  /\ cleaner' = [pc |-> "join", fd |-> f]
  /\ UNCHANGED <<client, up, down, threads, sock, connfd, connection_threads,
                 coyote_threads, queues, conns_to_clean, scheduler, sent, up_and_running, env>>

\* ... joins its two threads, ...
CleanJoin(f) ==
  /\ up_and_running
  /\ cleaner = [pc |-> "join", fd |-> f]
  /\ f \in DOMAIN connection_threads => ThreadsEnded(connection_threads[f])
  /\ connection_threads' = Erase(connection_threads, f)
  /\ cleaner' = [cleaner EXCEPT !.pc = "release"]
  /\ UNCHANGED <<client, up, down, threads, sock, connfd, coyote_threads, queues,
                 conns_to_clean, scheduler, sent, up_and_running, env>>

NothingReleased(f) == coyote_threads

AllReleased(f) == <<>>

\* coyote_threads.erase
Released(f) == Erase(coyote_threads, f)

\* ... releases its cThread, ...
CleanRelease(f) ==
  /\ up_and_running
  /\ cleaner = [pc |-> "release", fd |-> f]
  /\ coyote_threads' = Released(f)
  /\ cleaner' = [cleaner EXCEPT !.pc = "tasks"]
  /\ UNCHANGED <<client, up, down, threads, sock, connfd, connection_threads, queues,
                 conns_to_clean, scheduler, sent, up_and_running, env>>

\* ... deletes its tasks and then their lock, ...
CleanTasks(f) ==
  /\ up_and_running
  /\ \/ /\ cleaner = [pc |-> "tasks", fd |-> f]
        /\ tasks' = Erase(tasks, f)
        /\ cleaner' = [cleaner EXCEPT !.pc = "lock"]
        /\ UNCHANGED task_locks
     \/ /\ cleaner = [pc |-> "lock", fd |-> f]
        /\ task_locks' = Erase(task_locks, f)
        /\ cleaner' = [cleaner EXCEPT !.pc = "mark"]
        /\ UNCHANGED tasks
  /\ UNCHANGED <<client, up, down, threads, sock, connfd, connection_threads,
                 coyote_threads, conns_to_clean, scheduler, sent, up_and_running, env>>

\* ... and forgets that it was stale.
CleanEnd(f) ==
  /\ up_and_running
  /\ cleaner = [pc |-> "mark", fd |-> f]
  /\ conns_to_clean' = conns_to_clean \ {f}
  /\ cleaner' = Asleep
  /\ UNCHANGED <<client, up, down, threads, sock, connfd, connection_threads,
                 coyote_threads, queues, scheduler, sent, up_and_running, env>>

-----------------------------------------------------------------------------
\* The request thread.

Reading(c) == up_and_running /\ req[c].pc = "read"

\* What read finds in the stream: at most three words.
Words(c) == SubSeq(up[c], 1, IF Len(up[c]) < 3 THEN Len(up[c]) ELSE 3)

Consume(c, n) == up' = [up EXCEPT ![c] = SubSeq(@, n + 1, Len(@))]

\* Fewer than three words, or an unknown opcode: ignored.
ReadIgnored(c) ==
  /\ Reading(c)
  /\ up[c] # <<>>
  /\ \/ Len(Words(c)) < 3
     \/ Words(c)[1] \notin {DEF_OP_CLOSE_CONN, DEF_OP_SUBMIT_TASK}
  /\ Consume(c, Len(Words(c)))
  /\ UNCHANGED <<client, down, threads, tables, queues, conns_to_clean, scheduler,
                 sent, up_and_running, env>>

ReadClose(c) ==
  /\ Reading(c)
  /\ Len(Words(c)) = 3
  /\ Words(c)[1] = DEF_OP_CLOSE_CONN
  /\ Consume(c, 3)
  /\ sock' = [sock EXCEPT ![connfd[c]] = 0]
  /\ req' = [req EXCEPT ![c].pc = "closing"]
  /\ UNCHANGED <<client, down, rsp, connfd, connection_threads, coyote_threads, cleaner,
                 queues, conns_to_clean, scheduler, sent, up_and_running, env>>

\* An unregistered function: an error reply, and any argument stays in the stream.
ReadUnknown(c) ==
  /\ Reading(c)
  /\ Len(Words(c)) = 3
  /\ Words(c)[1] = DEF_OP_SUBMIT_TASK
  /\ Words(c)[2] \notin Fids
  /\ Consume(c, 3)
  /\ Write(connfd[c], <<1, Words(c)[3]>>)
  /\ UNCHANGED <<client, threads, tables, queues, conns_to_clean, scheduler, sent, env>>

ReadSubmit(c) ==
  /\ Reading(c)
  /\ Len(Words(c)) = 3
  /\ Words(c)[1] = DEF_OP_SUBMIT_TASK
  /\ Words(c)[2] \in Fids
  /\ Consume(c, 3)
  /\ req' = [req EXCEPT ![c] = [pc |-> IF NArgs = 0 THEN "queue" ELSE "args",
                                fid |-> Words(c)[2], tid |-> Words(c)[3], sid |-> 0]]
  /\ UNCHANGED <<client, down, rsp, tables, queues, conns_to_clean, scheduler, sent,
                 up_and_running, env>>

ReadArgument(c) ==
  /\ up_and_running
  /\ req[c].pc = "args"
  /\ up[c] # <<>>
  /\ Consume(c, 1)
  /\ req' = [req EXCEPT ![c].pc = "queue"]
  /\ UNCHANGED <<client, down, rsp, tables, queues, conns_to_clean, scheduler, sent,
                 up_and_running, env>>

\* SO_RCVTIMEO expires, or the client is gone: an error reply.
ArgumentMissing(c) ==
  /\ up_and_running
  /\ req[c].pc = "args"
  /\ up[c] = <<>>
  /\ "timeout" \in env \/ cstate[c] = "closed"
  /\ Write(connfd[c], <<1, req[c].tid>>)
  /\ req' = [req EXCEPT ![c] = [NoRequest EXCEPT !.pc = "read"]]
  /\ UNCHANGED <<client, up, rsp, tables, queues, conns_to_clean, scheduler, sent, env>>

IdOfClient(c) == req[c].tid

\* server_tid
FreshId(c) == task_counter

\* The response thread finds the tasks of the connection and their lock.
EntryFound(c) == connfd[c] \in DOMAIN tasks \cap DOMAIN task_locks

\* The entries of the connection are gone: an error reply.
QueueMissing(c) ==
  /\ up_and_running
  /\ req[c].pc = "queue"
  /\ ~EntryFound(c)
  /\ Write(connfd[c], <<1, req[c].tid>>)
  /\ req' = [req EXCEPT ![c] = [NoRequest EXCEPT !.pc = "read"]]
  /\ UNCHANGED <<client, up, rsp, tables, queues, conns_to_clean, scheduler, sent, env>>

\* The task is noted for the response thread under the task lock ...
QueueTask(c) ==
  /\ up_and_running
  /\ req[c].pc = "queue"
  /\ EntryFound(c)
  /\ ~task_locks[connfd[c]]
  /\ tasks' = [tasks EXCEPT ![connfd[c]] = Append(@, <<req[c].tid, FreshId(c)>>)]
  /\ req' = [req EXCEPT ![c].pc = "add", ![c].sid = FreshId(c)]
  /\ task_counter' = task_counter + 1
  /\ UNCHANGED <<client, up, down, rsp, tables, task_locks, conns_to_clean, pool,
                 loaded, busy, ids, sent, up_and_running, env>>

\* ... and then given to the scheduler, with coyote_threads[connfd].get(): operator[]
\* makes an empty entry when there is none.
AddTask(c) ==
  /\ up_and_running
  /\ req[c].pc = "add"
  /\ Executor!Submit
  /\ pool'[Len(pool')].fid = req[c].fid
  /\ coyote_threads' = Insert(coyote_threads, connfd[c], 0)
  /\ ids' = Append(ids, [sid |-> req[c].sid, conn |-> c, tid |-> req[c].tid,
                         cthread |-> coyote_threads'[connfd[c]]])
  /\ req' = [req EXCEPT ![c] = [NoRequest EXCEPT !.pc = "read"]]
  /\ UNCHANGED <<client, up, down, rsp, sock, connfd, connection_threads, cleaner, queues,
                 conns_to_clean, task_counter, sent, up_and_running, env>>

MarkStale(c) ==
  /\ up_and_running
  /\ req[c].pc = "closing"
  /\ conns_to_clean' = conns_to_clean \cup {connfd[c]}
  /\ req' = [req EXCEPT ![c].pc = "ended"]
  /\ UNCHANGED <<client, up, down, rsp, tables, queues, scheduler, sent, up_and_running, env>>

-----------------------------------------------------------------------------
\* The response thread.

HasTasks(c) == connfd[c] \in DOMAIN tasks

Tasks(c) == tasks[connfd[c]]

\* isTaskCompleted and getTask: the place of a task in the scheduler
Indices(sid) == {i \in DOMAIN ids: ids[i].sid = sid}

CompletedTask(sid) == \E i \in Indices(sid): pool[i].outcome # "pending"

\* The return value of a task that succeeded
Result(sid) == <<100 + sid, 0>>

ScanBegin(c) ==
  /\ up_and_running
  /\ rsp[c].pc = "idle"
  /\ EntryFound(c)
  /\ ~task_locks[connfd[c]]
  /\ task_locks' = [task_locks EXCEPT ![connfd[c]] = TRUE]
  /\ rsp' = [rsp EXCEPT ![c] = [pc |-> "scan", pos |-> 1]]
  /\ UNCHANGED <<client, up, down, req, tables, tasks, conns_to_clean, scheduler, sent,
                 up_and_running, env>>

AnswerableAtOnce(sid) == TRUE

Answerable(sid) == CompletedTask(sid)

ScanPending(c) ==
  /\ up_and_running
  /\ rsp[c].pc = "scan"
  /\ HasTasks(c)
  /\ rsp[c].pos <= Len(Tasks(c))
  /\ ~Answerable(Tasks(c)[rsp[c].pos][2])
  /\ rsp' = [rsp EXCEPT ![c].pos = @ + 1]
  /\ UNCHANGED <<client, up, down, req, tables, queues, conns_to_clean, scheduler, sent,
                 up_and_running, env>>

\* The header, always with ret_code 0
SendHeader(c) ==
  LET f == connfd[c]
      task == Tasks(c)[rsp[c].pos]
  IN  /\ up_and_running
      /\ rsp[c].pc = "scan"
      /\ HasTasks(c)
      /\ rsp[c].pos <= Len(Tasks(c))
      /\ Answerable(task[2])
      /\ Write(f, <<0, task[1]>>)
      /\ rsp' = [rsp EXCEPT ![c].pc = IF sock[f] = 0 THEN "unlock" ELSE "value"]
      /\ sent' = IF sock[f] = 0 THEN sent ELSE Append(sent, task[2])
      /\ UNCHANGED <<client, up, req, tables, queues, conns_to_clean, scheduler, env>>

EntryKept(c) == Tasks(c)

\* tasks.erase
EntryErased(c) == RemoveAt(Tasks(c), rsp[c].pos)

\* The value: a failed task has none, and the write of a null buffer fails.
\* After the erase the iterator is advanced once more.
SendValue(c) ==
  LET f == connfd[c]
      sid == Tasks(c)[rsp[c].pos][2]
      rest == EntryErased(c)
      has == \E i \in Indices(sid): pool[i].outcome = "done"
  IN  /\ up_and_running
      /\ rsp[c].pc = "value"
      /\ HasTasks(c)
      /\ IF has THEN Write(f, Result(sid)) ELSE UNCHANGED <<down, up_and_running>>
      /\ tasks' = [tasks EXCEPT ![f] = rest]
      /\ rsp' = [rsp EXCEPT ![c] = [pc |-> "scan",
                                    pos |-> IF @.pos <= Len(rest) THEN @.pos + 1 ELSE @.pos]]
      /\ UNCHANGED <<client, up, req, tables, task_locks, conns_to_clean, scheduler, sent, env>>

\* The tasks were erased under the iterator of the scan, which is then undefined:
\* the scan ends, or it runs into memory that is not its own.
ScanLost(c) ==
  /\ up_and_running
  /\ rsp[c].pc \in {"scan", "value"}
  /\ ~HasTasks(c)
  /\ tasks' = Insert(tasks, connfd[c], <<>>)
  /\ rsp' = [rsp EXCEPT ![c].pc = "unlock"]
  /\ up_and_running' \in BOOLEAN
  /\ UNCHANGED <<client, up, down, req, tables, task_locks, conns_to_clean, scheduler, sent, env>>

\* The lock is released: a lock that was erased in the meantime is a null pointer.
ScanEnd(c) ==
  LET f == connfd[c]
  IN  /\ up_and_running
      /\ \/ rsp[c].pc = "unlock"
         \/ rsp[c].pc = "scan" /\ HasTasks(c) /\ rsp[c].pos > Len(Tasks(c))
      /\ task_locks' = [g \in DOMAIN task_locks |-> task_locks[g] /\ g # f]
      /\ up_and_running' = (f \in DOMAIN task_locks)
      /\ rsp' = [rsp EXCEPT ![c] = [pc |-> IF f \in conns_to_clean THEN "ended" ELSE "idle",
                                    pos |-> 1]]
      /\ UNCHANGED <<client, up, down, req, tables, tasks, conns_to_clean, scheduler, sent, env>>

-----------------------------------------------------------------------------
\* The scheduler: what TaskExecutor allows.  Tasks end in errors only if "failing".

Execute ==
  /\ up_and_running
  /\ \/ \E i \in DOMAIN pool: Executor!Begin(i)
     \/ Executor!Load
     \/ Executor!Finish /\ ("failing" \in env \/ pool'[busy].outcome = "done")
     \/ Executor!Reject /\ "failing" \in env
  /\ UNCHANGED <<client, up, down, threads, tables, queues, conns_to_clean, ids,
                 task_counter, sent, up_and_running, env>>

-----------------------------------------------------------------------------
ClientReads(c) == ReceiveHeader(c) \/ ReceiveValue(c)

Requests(c) ==
  \/ ReadIgnored(c) \/ ReadClose(c) \/ ReadUnknown(c) \/ ReadSubmit(c)
  \/ ReadArgument(c) \/ ArgumentMissing(c) \/ QueueMissing(c) \/ QueueTask(c)
  \/ AddTask(c) \/ MarkStale(c)

Responses(c) ==
  ScanBegin(c) \/ ScanPending(c) \/ SendHeader(c) \/ SendValue(c)
  \/ ScanLost(c) \/ ScanEnd(c)

Cleans(f) == CleanBegin(f) \/ CleanJoin(f) \/ CleanRelease(f) \/ CleanTasks(f) \/ CleanEnd(f)

Next ==
  \/ \E c \in Conns:
       \/ Accept(c)
       \/ AcceptFatal(c)
       \/ AcceptSilent(c)
       \/ \E fid \in Fids \cup {UnknownFid}: iTask(c, fid)
       \/ WriteArgument(c)
       \/ ClientReads(c)
       \/ Disconnect(c)
       \/ ClientDies(c)
       \/ Requests(c)
       \/ Responses(c)
  \/ \E f \in Fds: Cleans(f)
  \/ Execute

Spec == Init /\ [][Next]_vars

\* Every thread of the daemon keeps running, a client finishes writing a request
\* and reads what arrives, and tasks end.  These steps each use something up, so
\* fairness to them together is enough; it follows from fairness to each.  The
\* response thread sleeps without the task lock between two scans, so the request
\* thread gets the lock eventually.
Work ==
  \/ Execute /\ <<pool, busy>>' # <<pool, busy>>
  \/ \E c \in Conns: WriteArgument(c) \/ ClientReads(c) \/ Requests(c)
  \/ \E f \in Fds: Cleans(f)

FairSpec ==
  /\ Spec
  /\ WF_vars(Work)
  /\ \A c \in Conns: SF_vars(QueueTask(c)) /\ WF_vars(Responses(c))

-----------------------------------------------------------------------------
\* The task of the scheduler behind task number t of client c
Behind(c, t) == {i \in DOMAIN ids: ids[i].conn = c /\ ids[i].tid = t - 1}

(* The client can "link the result to the task" (cService.hpp): a task the   *)
(* client sees as completed with code 0 was executed, and it holds the value *)
(* of its own execution, not of another task or another client.  Clients may *)
(* leave or die at any moment; an error reply or a timeout, which both take  *)
(* the streams out of step, must not have happened.                          *)
RightResult ==
  env \cap {"unknown", "failing", "timeout"} = {} =>
  \A c \in Conns: \A t \in DOMAIN ctasks[c]:
    ctasks[c][t].completed /\ ctasks[c][t].ret_code = 0 =>
      \E i \in Behind(c, t): pool[i].outcome = "done" /\ ctasks[c][t].ret_val = Result(ids[i].sid)

(* A task never runs on a cThread that was released: cleanConns may erase    *)
(* the cThread of a connection only when no task of it is executing.  It     *)
(* holds unless the client of the task left before its answer, whatever      *)
(* other clients do, if no descriptor is in use again before it was cleaned. *)
NoDanglingThread ==
  "reuse" \notin env /\ up_and_running /\ busy # 0 =>
    \/ ids[busy].cthread \in Range(coyote_threads)
    \/ "impatient" \in env /\ cstate[ids[busy].conn] = "closed"

(* The daemon outlives its clients: it ends only if a client left or died    *)
(* while a task of it was unanswered, if a descriptor returned before it was *)
(* cleaned ("At any given time, no two clients will have the same value of   *)
(* connfd", cService.cpp), or if a cThread could not be made.  It answers no *)
(* task twice ("Remove the task from the list to avoid sending the response  *)
(* again"), and none before the scheduler is done with it.                   *)
ServiceUp ==
  /\ ~up_and_running =>
       \/ env \cap {"reuse", "nothread"} # {}
       \/ env \cap {"impatient", "death"} # {}
          /\ \E c \in Conns: cstate[c] = "closed" /\ ~AllAnswered(c)
  /\ IsInjective(sent)
  /\ \A k \in DOMAIN sent: CompletedTask(sent[k])

(* Every task a client submits is eventually answered, although the scan     *)
(* skips the successor of every task it answers, and although other clients  *)
(* leave, die or ask for functions there are not: again and again a client   *)
(* that has not left waits for nothing, unless the daemon ended.  A failed   *)
(* task has no value to answer with, a late argument and a descriptor in use *)
(* again take the words of a stream for others.                              *)
EveryTaskAnswered ==
  \A c \in Conns:
    []<>(\/ env \cap {"failing", "timeout", "reuse"} # {}
         \/ AllAnswered(c) \/ cstate[c] = "closed" \/ ~up_and_running)

\* The tables hold nothing of connection c; its descriptor may serve another.
Gone(c) ==
  /\ c \notin Range(coyote_threads) \cup Range(connection_threads)
  /\ Clear(connfd[c]) \/ connfd[c] \in DOMAIN connection_threads

(* The resources "held by stale connections" are released: after a client    *)
(* has disconnected, with or without its answers, its descriptor is free in  *)
(* every table, and its threads and its cThread are gone, whether its tasks  *)
(* succeeded or failed; but not if the daemon ended.                         *)
CleanedUp ==
  \A c \in Conns:
    env \subseteq {"failing", "impatient", "nothread"} /\ cstate[c] = "closed" ~> Gone(c) \/ ~up_and_running
=============================================================================
