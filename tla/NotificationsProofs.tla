-------------------------- MODULE NotificationsProofs --------------------------
(***************************************************************************)
(* Proofs about Notifications, for any number of threads, identifiers and  *)
(* interrupts.                                                             *)
(*                                                                         *)
(* The values are numbered as they are raised.  The workqueue holds the    *)
(* last ones, the worker the one before them, and Done counts the ones the *)
(* worker is through with.  Between NotifySignal and EventProcessed the    *)
(* mutex of the ctid is held on behalf of the event thread, so nothing     *)
(* overwrites interrupt_value before it was read.                          *)
(***************************************************************************)
EXTENDS Notifications, TLAPS

Item == [ctid : Ctids, value : Nat]

TypeOK ==
  /\ main \in [Cthreads -> {"new", "registered", "live", "unregistered", "joining", "gone", "dead"}]
  /\ ctid \in [Cthreads -> Ctids \cup {None}]
  /\ event_thread \in [Cthreads -> {"off", "wait", "read", "call", "called"}]
  /\ efd \in [Cthreads -> Nat]
  /\ terminate_efd \in [Cthreads -> BOOLEAN]
  /\ isr_val \in [Cthreads -> Nat]
  /\ user_notifier \in [Ctids -> Cthreads \cup {None}]
  /\ user_notifier_lock \in [Ctids -> BOOLEAN]
  /\ interrupt_value \in [Ctids -> Nat]
  /\ wqueue_notify \in Seq(Item)
  /\ worker \in [pc : {"idle", "locking", "check", "signal", "oops", "stuck"},
                 ctid : Ctids \cup {None}, value : Nat]
  /\ raised \in Seq(Cthreads)
  /\ delivered \in [Cthreads -> Seq(Nat)]
  /\ env \subseteq Mishaps

\* How many values the worker is through with: signalled or dropped.
Done == Len(raised) - Len(wqueue_notify) - (IF worker.pc = "idle" THEN 0 ELSE 1)

\* How many values the worker has taken from the queue.
Taken == IF worker.pc = "idle" THEN Done ELSE Done + 1

\* Threads have their ctid from the constructor on; an event thread runs from the
\* constructor until the destructor tells it to end.
Threads ==
  \A t \in Cthreads :
    /\ ctid[t] = None <=> main[t] = "new"
    /\ event_thread[t] # "off" => main[t] \in {"live", "unregistered", "joining"}
    /\ main[t] \in {"live", "unregistered"} => event_thread[t] # "off"
    /\ terminate_efd[t] => main[t] \in {"joining", "gone"}

\* The values at the worker and in the queue are the last ones raised, in order,
\* and go to the ctid of the thread they were raised for.
Queue ==
  /\ Done \in Nat
  /\ \A i \in 1 .. Len(wqueue_notify) :
       LET v == Len(raised) - Len(wqueue_notify) + i
       IN  wqueue_notify[i].value = v /\ wqueue_notify[i].ctid = ctid[raised[v]]
  /\ IF worker.pc = "idle"
     THEN worker.ctid = None
     ELSE worker.value = Done + 1 /\ worker.ctid = ctid[raised[Done + 1]]
  /\ \A v \in 1 .. Len(raised) : main[raised[v]] \notin {"new", "registered"}

\* Values only grow on their way to a callback, whoever has the ctid.
Values ==
  /\ \A c \in Ctids : interrupt_value[c] <= Taken
  /\ \A t \in Cthreads :
       /\ IF ctid[t] = None THEN isr_val[t] = 0 ELSE isr_val[t] <= interrupt_value[ctid[t]]
       /\ \A i \in 1 .. Len(delivered[t]) : delivered[t][i] <= isr_val[t]
       /\ \A i, j \in 1 .. Len(delivered[t]) : i < j => delivered[t][i] <= delivered[t][j]

\* No two threads ever have the same ctid.
Alone ==
  \A t, u \in Cthreads : ctid[t] # None /\ ctid[t] = ctid[u] => t = u

\* The eventfd of a thread is registered from its constructor to its destructor.
Notifier ==
  /\ \A t \in Cthreads :
       /\ main[t] \in {"live", "unregistered", "dead"} => user_notifier[ctid[t]] = t
       /\ main[t] \in {"registered", "joining", "gone"} => user_notifier[ctid[t]] = None
  /\ \A c \in Ctids : user_notifier[c] # None => ctid[user_notifier[c]] = c

\* The event thread has a notification to handle.
Busy(t) == efd[t] > 0 \/ event_thread[t] \in {"read", "call", "called"}

\* A notification that was signalled holds the mutex until it is handled.
HoldsMutex(t) ==
  /\ efd[t] > 0 => event_thread[t] \in {"off", "wait"}
  /\ efd[t] > 0 /\ event_thread[t] = "off" => main[t] = "dead"
  /\ Busy(t) =>
       /\ ctid[t] # None
       /\ user_notifier_lock[ctid[t]]
       /\ worker.ctid = ctid[t] => worker.pc = "locking"

\* The mutex passes from the worker to the event thread with the notification.
Token ==
  /\ worker.pc \in {"check", "signal"} /\ user_notifier[worker.ctid] # None =>
       user_notifier_lock[worker.ctid]
  /\ \A t \in Cthreads : HoldsMutex(t)

Delivered(t, v) == \E i \in 1 .. Len(delivered[t]) : delivered[t][i] = v

\* Value v is the next one for the callback of t.
InTurn(t, v) ==
  /\ v \in 1 .. Len(raised) /\ raised[v] = t /\ v <= Done
  /\ \A i \in 1 .. Len(delivered[t]) : delivered[t][i] < v
  /\ \A w \in 1 .. v - 1 : raised[w] = t => Delivered(t, w)

\* The event thread is about to read, or to pass on, value v.
Reading(t) == event_thread[t] = "read" \/ (event_thread[t] = "wait" /\ efd[t] > 0)

Flight ==
  \A t \in Cthreads :
    /\ Reading(t) => InTurn(t, interrupt_value[ctid[t]])
    /\ event_thread[t] = "call" => InTurn(t, isr_val[t])

\* What the worker is through with has been delivered or is being delivered, as
\* long as the eventfd of its thread is registered.
Handled ==
  \A t \in Cthreads :
    main[t] \in {"live", "unregistered"} =>
      \A v \in 1 .. Done :
        raised[v] = t =>
          \/ Delivered(t, v)
          \/ Reading(t) /\ v = interrupt_value[ctid[t]]
          \/ event_thread[t] = "call" /\ v = isr_val[t]

Past ==
  \A t \in Cthreads :
    /\ Received(t, delivered[t])
    /\ \A i \in 1 .. Len(delivered[t]) : delivered[t][i] <= Done

\* What holds while no ctid is given a second time.
Exclusive ==
  /\ Alone /\ Notifier /\ Token /\ Flight /\ Handled /\ Past
  /\ worker.pc # "stuck"
  /\ worker.pc = "signal" => interrupt_value[worker.ctid] = worker.value

\* If destructors wait, nothing is under way for a thread being destroyed.
Quiet ==
  /\ worker.pc # "oops"
  /\ \A t \in Cthreads :
       main[t] \in {"unregistered", "joining", "gone"} =>
         /\ worker.ctid # ctid[t]
         /\ \A i \in 1 .. Len(wqueue_notify) : wqueue_notify[i].ctid # ctid[t]

Inv ==
  /\ TypeOK /\ Threads /\ Queue /\ Values
  /\ "reuse" \notin env => Exclusive
  /\ env \cap {"reuse", "abrupt"} = {} => Quiet
--------------------------------------------------------------------------------
(* Sequences.                                                              *)

\* What queue_work and raising a notification do to a sequence ...
LEMMA AppendFacts ==
  ASSUME NEW S, NEW q \in Seq(S), NEW x \in S
  PROVE  /\ Append(q, x) \in Seq(S)
         /\ Len(q) \in Nat /\ Len(Append(q, x)) = Len(q) + 1
         /\ \A i \in 1 .. Len(q) : Append(q, x)[i] = q[i]
         /\ Append(q, x)[Len(q) + 1] = x
         /\ \A i \in 1 .. Len(q) + 1 : i \in 1 .. Len(q) \/ i = Len(q) + 1
  OBVIOUS

\* ... and what the worker does when it takes an item.
LEMMA TailFacts ==
  ASSUME NEW S, NEW q \in Seq(S), q # << >>
  PROVE  /\ Tail(q) \in Seq(S) /\ Head(q) \in S /\ Head(q) = q[1]
         /\ Len(q) \in Nat \ {0} /\ Len(Tail(q)) = Len(q) - 1 /\ 1 \in 1 .. Len(q)
         /\ \A i \in 1 .. Len(q) - 1 : Tail(q)[i] = q[i + 1] /\ i + 1 \in 1 .. Len(q)
  OBVIOUS

--------------------------------------------------------------------------------
(* Types.                                                                  *)

\* Done and the lengths it is made of.
LEMMA DoneRange ==
  ASSUME TypeOK, Queue
  PROVE  /\ Done \in Nat /\ Len(raised) \in Nat /\ Len(wqueue_notify) \in Nat
         /\ Done + Len(wqueue_notify) + (IF worker.pc = "idle" THEN 0 ELSE 1) = Len(raised)
<1>1. Len(raised) \in Nat /\ Len(wqueue_notify) \in Nat
  BY DEF TypeOK
<1>2. Done \in Nat
  BY DEF Queue
<1>3. QED
  BY <1>1, <1>2 DEF Done

\* The worker handles a notification of a thread that has been constructed.
LEMMA WorkerItem ==
  ASSUME TypeOK, Threads, Queue, worker.pc # "idle"
  PROVE  /\ Done + 1 \in 1 .. Len(raised) /\ worker.value = Done + 1
         /\ raised[Done + 1] \in Cthreads
         /\ worker.ctid = ctid[raised[Done + 1]] /\ worker.ctid \in Ctids /\ worker.ctid # None
         /\ main[raised[Done + 1]] \notin {"new", "registered"}
<1>1. Done + 1 \in 1 .. Len(raised)
  BY DoneRange
<1>2. raised[Done + 1] \in Cthreads
  BY <1>1 DEF TypeOK
<1>3. main[raised[Done + 1]] \notin {"new", "registered"}
  BY <1>1, Zenon DEF Queue
<1>4. worker.value = Done + 1 /\ worker.ctid = ctid[raised[Done + 1]]
  BY Zenon DEF Queue
<1>5. ctid[raised[Done + 1]] \in Ctids /\ ctid[raised[Done + 1]] # None
  BY <1>2, <1>3, NotificationsAssumption DEF TypeOK, Threads
<1>6. QED
  BY <1>1, <1>2, <1>3, <1>4, <1>5, Zenon

\* The types are kept.
LEMMA TypeKept ==
  ASSUME TypeOK, Threads, Queue, [Next]_vars
  PROVE  TypeOK'
<1> USE NotificationsAssumption DEF driver, user
<1>1. CASE \E t \in Cthreads : vfpga_isr(t)
  <2>1. PICK t \in Cthreads : vfpga_isr(t)
    BY <1>1
  <2>2. [ctid |-> ctid[t], value |-> Len(raised) + 1] \in Item
    BY <2>1 DEF vfpga_isr, TypeOK, Threads, Item
  <2>3. raised' \in Seq(Cthreads) /\ wqueue_notify' \in Seq(Item)
    BY <2>1, <2>2, AppendFacts DEF vfpga_isr, queue_work, TypeOK
  <2>4. QED
    BY <2>1, <2>3 DEF vfpga_isr, TypeOK, Item, Mishaps
<1>2. CASE NotifyTake
  <2>1. wqueue_notify' \in Seq(Item) /\ Head(wqueue_notify) \in Item
    BY <1>2, TailFacts DEF NotifyTake, TypeOK
  <2>2. worker' \in [pc : {"idle", "locking", "check", "signal", "oops", "stuck"},
                     ctid : Ctids \cup {None}, value : Nat]
    BY <1>2, <2>1 DEF NotifyTake, Item
  <2>3. QED
    BY <1>2, <2>1, <2>2 DEF NotifyTake, TypeOK, Item, Mishaps
<1>3. CASE NotifyLock
  BY <1>3, Zenon DEF NotifyLock, TypeOK, Item, Mishaps
<1>4. CASE NotifyDrop
  BY <1>4, Zenon DEF NotifyDrop, DropUnlocks, Idle, TypeOK, Item, Mishaps
<1>5. CASE NotifySet
  BY <1>5, Zenon DEF NotifySet, ValueStored, TypeOK, Item, Mishaps
<1>6. CASE NotifySignal
  <2>1. /\ efd' \in [Cthreads -> Nat]
        /\ worker' \in [pc : {"idle", "locking", "check", "signal", "oops", "stuck"},
                        ctid : Ctids \cup {None}, value : Nat]
    <3>1. CASE user_notifier[worker.ctid] = None
      <4>1. worker' = [worker EXCEPT !.pc = "oops"] /\ efd' = efd
        BY <1>6, <3>1, Zenon DEF NotifySignal
      <4>2. QED
        BY <4>1, Zenon DEF TypeOK
    <3>2. CASE user_notifier[worker.ctid] # None
      <4>1. worker.ctid \in Ctids
        BY <1>6, WorkerItem DEF NotifySignal
      <4>2. user_notifier[worker.ctid] \in Cthreads
        BY <3>2, <4>1 DEF TypeOK
      <4>3. /\ worker' = Idle
            /\ efd' = [efd EXCEPT ![user_notifier[worker.ctid]] = @ + 1]
        BY <1>6, <3>2, Zenon DEF NotifySignal
      <4>4. efd[user_notifier[worker.ctid]] + 1 \in Nat
        BY <4>2 DEF TypeOK
      <4>5. QED
        BY <4>3, <4>4, Zenon DEF Idle, TypeOK
    <3>3. QED
      BY <3>1, <3>2
  <2>2. QED
    BY <1>6, <2>1 DEF NotifySignal, TypeOK, Item, Mishaps
<1>7. ASSUME NEW t \in Cthreads, EventThread(t)
      PROVE  TypeOK'
  <2>1. CASE EventRead(t)
    BY <2>1 DEF EventRead, TypeOK, Item, Mishaps
  <2>2. CASE EventGetValue(t)
    <3>1. ctid[t] \in Ctids
      BY <2>2, Zenon DEF EventGetValue, Threads, TypeOK
    <3>2. QED
      BY <2>2, <3>1 DEF EventGetValue, TypeOK, Item, Mishaps
  <2>3. CASE EventCall(t)
    <3>1. Append(delivered[t], isr_val[t]) \in Seq(Nat)
      BY DEF TypeOK
    <3>2. QED
      BY <2>3, <3>1 DEF EventCall, TypeOK, Item, Mishaps
  <2>4. CASE EventProcessed(t)
    BY <2>4, Zenon DEF EventProcessed, SetProcessed, TypeOK, Item, Mishaps
  <2>5. CASE EventTerminate(t)
    BY <2>5 DEF EventTerminate, TypeOK, Item, Mishaps
  <2>6. QED
    BY <1>7, <2>1, <2>2, <2>3, <2>4, <2>5 DEF EventThread
<1>8. ASSUME NEW t \in Cthreads, RegisterCtid(t)
      PROVE  TypeOK'
  BY <1>8 DEF RegisterCtid, TypeOK, Item, Mishaps
<1>9. ASSUME NEW t \in Cthreads, RegisterEventfd(t)
      PROVE  TypeOK'
  <2>1. worker' = worker \/ worker' = [worker EXCEPT !.pc = "stuck"]
    BY <1>9 DEF RegisterEventfd
  <2>2. worker' \in [pc : {"idle", "locking", "check", "signal", "oops", "stuck"},
                     ctid : Ctids \cup {None}, value : Nat]
    BY <2>1, Zenon DEF TypeOK
  <2>3. QED
    BY <1>9, <2>2, Zenon DEF RegisterEventfd, TypeOK, Item, Mishaps
<1>10. ASSUME NEW t \in Cthreads, Destructor(t) \/ Die(t)
       PROVE  TypeOK'
  <2>1. CASE UnregisterCtid(t)
    BY <2>1 DEF UnregisterCtid, TypeOK, Item, Mishaps
  <2>2. CASE UnregisterEventfd(t)
    BY <2>2, Zenon DEF UnregisterEventfd, Forgotten, Told, TypeOK, Item, Mishaps
  <2>3. CASE Join(t)
    BY <2>3, Zenon DEF Join, SetProcessed, TypeOK, Item, Mishaps
  <2>4. CASE Die(t)
    BY <2>4 DEF Die, TypeOK, Item, Mishaps
  <2>5. QED
    BY <1>10, <2>1, <2>2, <2>3, <2>4 DEF Destructor
<1>11. CASE UNCHANGED vars
  BY <1>11 DEF vars, TypeOK, Item, Mishaps
<1>12. QED
  BY <1>1, <1>2, <1>3, <1>4, <1>5, <1>6, <1>7, <1>8, <1>9, <1>10, <1>11 DEF Next, Worker

\* The steps of Next, one action at a time.
LEMMA NextSteps ==
  ASSUME Next
  PROVE  \/ NotifyTake \/ NotifyLock \/ NotifyDrop \/ NotifySet \/ NotifySignal
         \/ \E t \in Cthreads :
              \/ vfpga_isr(t)
              \/ EventRead(t) \/ EventGetValue(t) \/ EventCall(t) \/ EventProcessed(t)
              \/ EventTerminate(t)
              \/ RegisterCtid(t) \/ RegisterEventfd(t)
              \/ UnregisterCtid(t) \/ UnregisterEventfd(t) \/ Join(t) \/ Die(t)
  BY Zenon DEF Next, Worker, EventThread, Destructor

--------------------------------------------------------------------------------
(* Threads and the queue.                                                  *)

\* The life of a thread and of its event thread.
LEMMA ThreadsKept ==
  ASSUME TypeOK, Threads, [Next]_vars
  PROVE  Threads'
<1> USE NotificationsAssumption DEF driver, user
<1>1. CASE UNCHANGED <<main, ctid, event_thread, terminate_efd>>
  BY <1>1, Zenon DEF Threads
<1>2. ASSUME NEW t \in Cthreads,
             \/ EventRead(t) \/ EventGetValue(t) \/ EventCall(t) \/ EventProcessed(t)
             \/ EventTerminate(t)
      PROVE  Threads'
  <2>1. /\ UNCHANGED <<main, ctid, terminate_efd>> /\ event_thread[t] # "off"
        /\ event_thread'[t] = "off" => terminate_efd[t]
        /\ \A u \in Cthreads \ {t} : event_thread'[u] = event_thread[u]
    BY <1>2 DEF EventRead, EventGetValue, EventCall, EventProcessed, EventTerminate, TypeOK
  <2>2. QED
    BY <2>1 DEF Threads
<1>3. ASSUME NEW t \in Cthreads, RegisterCtid(t)
      PROVE  Threads'
  <2>1. PICK c \in Ctids : ctid' = [ctid EXCEPT ![t] = c]
    BY <1>3, Zenon DEF RegisterCtid
  <2>2. QED
    BY <1>3, <2>1 DEF RegisterCtid, Threads, TypeOK
<1>4. ASSUME NEW t \in Cthreads,
             \/ RegisterEventfd(t) \/ UnregisterCtid(t) \/ UnregisterEventfd(t)
             \/ Join(t) \/ Die(t)
      PROVE  Threads'
  <2>1. /\ UNCHANGED ctid /\ main[t] # "new" /\ main'[t] # "new"
        /\ event_thread'[t] # "off" => main'[t] \in {"live", "unregistered", "joining"}
        /\ main'[t] \in {"live", "unregistered"} => event_thread'[t] # "off"
        /\ terminate_efd'[t] => main'[t] \in {"joining", "gone"}
        /\ \A u \in Cthreads \ {t} : /\ event_thread'[u] = event_thread[u] /\ main'[u] = main[u]
                                     /\ terminate_efd'[u] = terminate_efd[u]
    BY <1>4 DEF RegisterEventfd, UnregisterCtid, UnregisterEventfd, Told, Join, Die, TypeOK, Threads
  <2>2. QED
    BY <2>1 DEF Threads
<1>5. ASSUME NotifyTake \/ NotifyLock \/ NotifyDrop \/ NotifySet \/ NotifySignal
               \/ (\E t \in Cthreads : vfpga_isr(t)) \/ UNCHANGED vars
      PROVE  UNCHANGED <<main, ctid, event_thread, terminate_efd>>
  BY <1>5, Zenon DEF NotifyTake, NotifyLock, NotifyDrop, NotifySet, NotifySignal, vfpga_isr, vars
<1>6. QED
  BY <1>1, <1>2, <1>3, <1>4, <1>5, NextSteps

\* A step that leaves the worker and the queue alone, or moves the worker within
\* its item.
LEMMA QueueUntouched ==
  ASSUME TypeOK, Threads, Queue,
         UNCHANGED <<raised, wqueue_notify>>,
         worker'.pc = "idle" <=> worker.pc = "idle",
         worker'.ctid = worker.ctid, worker'.value = worker.value,
         \A t \in Cthreads : main[t] \notin {"new", "registered"} =>
           main'[t] \notin {"new", "registered"} /\ ctid'[t] = ctid[t]
  PROVE  Queue' /\ Done' = Done
<1>1. Done' = Done
  BY DEF Done
<1>2. \A v \in 1 .. Len(raised) :
        /\ raised[v] \in Cthreads /\ main'[raised[v]] \notin {"new", "registered"}
        /\ ctid'[raised[v]] = ctid[raised[v]]
  <2>1. \A v \in 1 .. Len(raised) : raised[v] \in Cthreads
    BY DEF TypeOK
  <2>2. QED
    BY <2>1, Zenon DEF Queue
<1>3. \A i \in 1 .. Len(wqueue_notify) :
        Len(raised) - Len(wqueue_notify) + i \in 1 .. Len(raised)
  BY DoneRange
<1>4. worker.pc # "idle" => Done + 1 \in 1 .. Len(raised)
  BY DoneRange
<1>5. QED
  BY <1>1, <1>2, <1>3, <1>4, Zenon DEF Queue

\* An interrupt: the value goes to the end of the queue.
LEMMA IsrQueue ==
  ASSUME TypeOK, Threads, Queue, NEW t \in Cthreads, vfpga_isr(t)
  PROVE  /\ Queue' /\ Done' = Done
         /\ Len(raised') = Len(raised) + 1
         /\ \A v \in 1 .. Len(raised) : raised'[v] = raised[v]
         /\ \A i \in 1 .. Len(wqueue_notify') :
              \/ i \in 1 .. Len(wqueue_notify) /\ wqueue_notify'[i] = wqueue_notify[i]
              \/ wqueue_notify'[i].ctid = ctid[t]
<1> DEFINE item == [ctid |-> ctid[t], value |-> Len(raised) + 1]
           r == Len(raised)
           q == Len(wqueue_notify)
<1>1. item \in Item /\ item.ctid = ctid[t] /\ item.value = r + 1
  BY NotificationsAssumption DEF vfpga_isr, TypeOK, Threads, Item
<1>2. /\ raised' = Append(raised, t) /\ wqueue_notify' = Append(wqueue_notify, item)
      /\ UNCHANGED <<main, ctid, worker>> /\ main[t] = "live"
  BY DEF vfpga_isr, queue_work, user
<1>0. raised \in Seq(Cthreads) /\ wqueue_notify \in Seq(Item)
  BY DEF TypeOK
<1> HIDE DEF item
<1>3. /\ Len(raised') = r + 1 /\ raised'[r + 1] = t
      /\ \A v \in 1 .. r : raised'[v] = raised[v]
      /\ \A v \in 1 .. r + 1 : v \in 1 .. r \/ v = r + 1
  BY <1>0, <1>2, AppendFacts
<1>4. /\ Len(wqueue_notify') = q + 1 /\ wqueue_notify'[q + 1] = item
      /\ \A i \in 1 .. q : wqueue_notify'[i] = wqueue_notify[i]
      /\ \A i \in 1 .. q + 1 : i \in 1 .. q \/ i = q + 1
  BY <1>0, <1>1, <1>2, AppendFacts
<1>5. r \in Nat /\ q \in Nat /\ Done \in Nat
      /\ Done + q + (IF worker.pc = "idle" THEN 0 ELSE 1) = r
  BY DoneRange, Zenon
<1> HIDE DEF r, q
<1>6. Done' = Done /\ (r + 1) - (q + 1) = r - q /\ (r - q) + (q + 1) = r + 1
      /\ \A i \in 1 .. q : (r - q) + i \in 1 .. r
  BY <1>2, <1>3, <1>4, <1>5 DEF Done, r, q
<1>7. worker.pc # "idle" => Done + 1 \in 1 .. r
  BY <1>5
<1>8. ASSUME NEW i \in 1 .. q + 1
      PROVE  /\ wqueue_notify'[i].value = (r - q) + i
             /\ wqueue_notify'[i].ctid = ctid[raised'[(r - q) + i]]
  <2>1. CASE i \in 1 .. q
    BY <1>3, <1>4, <1>6, <2>1, Zenon DEF Queue, r, q
  <2>2. CASE i = q + 1
    BY <1>1, <1>3, <1>4, <1>6, <2>2, Zenon
  <2>3. QED
    BY <1>4, <1>8, <2>1, <2>2
<1>9. Queue'
  <2>1. Done' \in Nat
    BY <1>5, <1>6
  <2>2. \A i \in 1 .. Len(wqueue_notify') :
          LET v == Len(raised') - Len(wqueue_notify') + i
          IN  wqueue_notify'[i].value = v /\ wqueue_notify'[i].ctid = ctid'[raised'[v]]
    <3>1. Len(raised') - Len(wqueue_notify') = r - q
      BY <1>3, <1>4, <1>6, Zenon
    <3>2. QED
      BY <1>2, <1>4, <1>8, <3>1, Zenon
  <2>3. IF worker'.pc = "idle"
        THEN worker'.ctid = None
        ELSE worker'.value = Done' + 1 /\ worker'.ctid = ctid'[raised'[Done' + 1]]
    BY <1>2, <1>3, <1>6, <1>7, Zenon DEF Queue
  <2>4. \A v \in 1 .. Len(raised') : main'[raised'[v]] \notin {"new", "registered"}
    BY <1>2, <1>3 DEF Queue, r
  <2>5. QED
    BY <2>1, <2>2, <2>3, <2>4, Zenon DEF Queue
<1>10. QED
  BY <1>1, <1>3, <1>4, <1>6, <1>9, Zenon DEF r, q

\* The worker takes the first item: it is the next value after the ones done.
LEMMA TakeQueue ==
  ASSUME TypeOK, Threads, Queue, NotifyTake
  PROVE  /\ Queue' /\ Done' = Done
         /\ worker'.ctid = wqueue_notify[1].ctid /\ 1 \in 1 .. Len(wqueue_notify)
         /\ \A i \in 1 .. Len(wqueue_notify') :
              i + 1 \in 1 .. Len(wqueue_notify) /\ wqueue_notify'[i] = wqueue_notify[i + 1]
<1> DEFINE r == Len(raised)
           q == Len(wqueue_notify)
<1>1. /\ worker'.pc = "locking" /\ worker.pc = "idle"
      /\ worker'.ctid = Head(wqueue_notify).ctid
      /\ worker'.value = Head(wqueue_notify).value
      /\ wqueue_notify # << >> /\ wqueue_notify' = Tail(wqueue_notify)
      /\ UNCHANGED <<main, ctid, raised>>
  BY DEF NotifyTake, user
<1>2. /\ Head(wqueue_notify) = wqueue_notify[1]
      /\ q \in Nat \ {0} /\ Len(wqueue_notify') = q - 1 /\ 1 \in 1 .. q
      /\ \A i \in 1 .. q - 1 : wqueue_notify'[i] = wqueue_notify[i + 1] /\ i + 1 \in 1 .. q
  <2>1. wqueue_notify \in Seq(Item)
    BY DEF TypeOK
  <2>2. QED
    BY <1>1, <2>1, TailFacts
<1>3. r \in Nat /\ Done \in Nat /\ Done = r - q
  BY <1>1, DoneRange
<1> HIDE DEF r, q
<1>4. Done' = Done /\ r - q + 1 = Done + 1
      /\ \A i \in 1 .. q - 1 : r - (q - 1) + i = r - q + (i + 1)
  BY <1>1, <1>2, <1>3 DEF Done, r, q
<1>5. \A i \in 1 .. q : /\ wqueue_notify[i].value = r - q + i
                        /\ wqueue_notify[i].ctid = ctid[raised[r - q + i]]
  BY Zenon DEF Queue, r, q
<1>6. worker'.value = Done + 1 /\ worker'.ctid = ctid[raised[Done + 1]]
  BY <1>1, <1>2, <1>4, <1>5, Zenon
<1>7. \A i \in 1 .. q - 1 : /\ wqueue_notify'[i].value = r - (q - 1) + i
                            /\ wqueue_notify'[i].ctid = ctid[raised[r - (q - 1) + i]]
  BY <1>2, <1>4, <1>5, Zenon
<1>8. Queue'
  <2>1. \A i \in 1 .. Len(wqueue_notify') :
          LET v == Len(raised') - Len(wqueue_notify') + i
          IN  wqueue_notify'[i].value = v /\ wqueue_notify'[i].ctid = ctid'[raised'[v]]
    BY <1>1, <1>2, <1>7, Zenon DEF r
  <2>2. worker'.pc # "idle"
    BY <1>1
  <2>3. QED
    BY <1>1, <1>3, <1>4, <1>6, <2>1, <2>2, Zenon DEF Queue
<1>9. QED
  BY <1>1, <1>2, <1>4, <1>8, Zenon DEF q

\* The worker is through with its item.
LEMMA EndItem ==
  ASSUME TypeOK, Threads, Queue, worker.pc # "idle", worker' = Idle,
         UNCHANGED <<main, ctid, raised, wqueue_notify>>
  PROVE  Queue' /\ Done' = Done + 1
<1>1. worker'.pc = "idle" /\ worker'.ctid = None
  BY DEF Idle
<1>2. Done' = Done + 1 /\ Done' \in Nat
  BY <1>1, DoneRange DEF Done
<1>3. QED
  BY <1>1, <1>2, Zenon DEF Queue

\* Steps of the threads do not disturb the queue.
LEMMA ThreadStepQueue ==
  ASSUME TypeOK, Threads, Queue, NEW t \in Cthreads,
         \/ EventRead(t) \/ EventGetValue(t) \/ EventCall(t) \/ EventProcessed(t)
         \/ EventTerminate(t)
         \/ RegisterCtid(t) \/ RegisterEventfd(t)
         \/ UnregisterCtid(t) \/ UnregisterEventfd(t) \/ Join(t) \/ Die(t)
  PROVE  /\ Queue' /\ Done' = Done /\ Taken' = Taken
         /\ UNCHANGED <<raised, wqueue_notify, interrupt_value, env>>
         /\ worker'.ctid = worker.ctid /\ worker'.value = worker.value
<1>1. /\ UNCHANGED <<raised, wqueue_notify, interrupt_value, env>>
      /\ worker' = worker \/ (worker.pc = "locking" /\ worker' = [worker EXCEPT !.pc = "stuck"])
  BY DEF EventRead, EventGetValue, EventCall, EventProcessed, EventTerminate, RegisterCtid,
         RegisterEventfd, UnregisterCtid, UnregisterEventfd, Join, Die, driver, user
<1>2. /\ worker'.pc = "idle" <=> worker.pc = "idle"
      /\ worker'.ctid = worker.ctid /\ worker'.value = worker.value
  BY <1>1 DEF TypeOK
<1>3. \A u \in Cthreads : main[u] \notin {"new", "registered"} =>
        main'[u] \notin {"new", "registered"} /\ ctid'[u] = ctid[u]
  <2>1. CASE RegisterCtid(t)
    BY <2>1 DEF RegisterCtid, TypeOK
  <2>2. CASE UNCHANGED ctid
    BY <2>2 DEF EventRead, EventGetValue, EventCall, EventProcessed, EventTerminate, RegisterCtid,
                RegisterEventfd, UnregisterCtid, UnregisterEventfd, Join, Die, TypeOK
  <2>3. QED
    BY <2>1, <2>2 DEF EventRead, EventGetValue, EventCall, EventProcessed, EventTerminate,
                      RegisterEventfd, UnregisterCtid, UnregisterEventfd, Join, Die
<1>4. QED
  BY <1>1, <1>2, <1>3, QueueUntouched DEF Taken

\* Steps of the worker that do not end its item.
LEMMA WorkerStepQueue ==
  ASSUME TypeOK, Threads, Queue, NotifyLock \/ NotifySet \/ NotifySignal, worker' # Idle
  PROVE  /\ Queue' /\ Done' = Done /\ Taken' = Taken
         /\ worker'.ctid = worker.ctid /\ worker'.value = worker.value
<1>1. /\ UNCHANGED <<main, ctid, raised, wqueue_notify>>
      /\ worker'.pc # "idle" /\ worker.pc # "idle"
      /\ worker'.ctid = worker.ctid /\ worker'.value = worker.value
  BY DEF NotifyLock, NotifySet, NotifySignal, user, TypeOK
<1>2. QED
  BY <1>1, QueueUntouched DEF Taken

\* The queue is kept; the worker takes values one by one.
LEMMA QueueKept ==
  ASSUME TypeOK, Threads, Queue, [Next]_vars
  PROVE  Queue' /\ Taken \in Nat /\ Taken <= Taken'
<1>1. Taken \in Nat
  BY DEF Queue, Taken
<1>2. ASSUME NEW t \in Cthreads, vfpga_isr(t)
      PROVE  Queue' /\ Taken' = Taken
  BY <1>2, IsrQueue DEF vfpga_isr, Taken
<1>3. CASE NotifyTake
  BY <1>1, <1>3, TakeQueue DEF NotifyTake, Taken
<1>4. CASE NotifyDrop \/ (NotifySignal /\ worker' = Idle)
  <2>1. worker' = Idle /\ worker.pc # "idle" /\ UNCHANGED <<main, ctid, raised, wqueue_notify>>
    BY <1>4 DEF NotifyDrop, NotifySignal, user
  <2>2. QED
    BY <1>1, <2>1, EndItem DEF Taken, Idle
<1>5. CASE (NotifyLock \/ NotifySet \/ NotifySignal) /\ worker' # Idle
  BY <1>1, <1>5, WorkerStepQueue
<1>6. NotifyLock \/ NotifySet => worker' # Idle
  BY DEF NotifyLock, NotifySet, Idle, TypeOK
<1>7. CASE UNCHANGED vars
  BY <1>1, <1>7, QueueUntouched DEF vars, driver, user, Taken
<1>8. QED
  BY <1>1, <1>2, <1>3, <1>4, <1>5, <1>6, <1>7, NextSteps, ThreadStepQueue
--------------------------------------------------------------------------------
(* The values.                                                             *)

\* A callback that is called with a value no smaller than the earlier ones.
LEMMA AppendSorted ==
  ASSUME NEW q \in Seq(Nat), NEW v \in Nat,
         \A i \in 1 .. Len(q) : q[i] <= v,
         \A i, j \in 1 .. Len(q) : i < j => q[i] <= q[j]
  PROVE  /\ \A i \in 1 .. Len(Append(q, v)) : Append(q, v)[i] <= v
         /\ \A i, j \in 1 .. Len(Append(q, v)) : i < j => Append(q, v)[i] <= Append(q, v)[j]
  OBVIOUS

\* The values at the ctids never decrease, and never pass what the worker took.
LEMMA InterruptValues ==
  ASSUME TypeOK, Threads, Queue, Values, [Next]_vars, NEW c \in Ctids
  PROVE  /\ interrupt_value[c] \in Nat /\ interrupt_value'[c] \in Nat
         /\ interrupt_value[c] <= interrupt_value'[c] /\ interrupt_value'[c] <= Taken'
<1>1. /\ interrupt_value[c] \in Nat /\ interrupt_value'[c] \in Nat
      /\ Taken \in Nat /\ Taken <= Taken' /\ Taken' \in Nat
  <2>1. TypeOK' /\ Queue' /\ Taken \in Nat /\ Taken <= Taken'
    BY TypeKept, QueueKept
  <2>2. QED
    BY <2>1, Zenon DEF TypeOK, Queue, Taken
<1>2. interrupt_value[c] <= Taken
  BY DEF Values
<1>3. CASE NotifySet /\ c = worker.ctid
  <2>1. interrupt_value'[c] = Taken
    BY <1>3, WorkerItem DEF NotifySet, ValueStored, TypeOK, Taken
  <2>2. QED
    BY <1>1, <1>2, <2>1
<1>4. CASE ~(NotifySet /\ c = worker.ctid)
  <2>1. interrupt_value'[c] = interrupt_value[c]
    BY <1>4, NextSteps, Zenon
    DEF TypeOK, NotifyTake, NotifyLock, NotifyDrop, NotifySet, ValueStored, NotifySignal, vfpga_isr,
        EventRead, EventGetValue, EventCall, EventProcessed, EventTerminate, RegisterCtid,
        RegisterEventfd, UnregisterCtid, UnregisterEventfd, Join, Die, driver, user, vars
  <2>2. QED
    BY <1>1, <1>2, <2>1
<1>5. QED
  BY <1>3, <1>4

\* What a step does to the values on their way to the callback of t.
LEMMA ReaderSteps ==
  ASSUME TypeOK, Threads, [Next]_vars, NEW t \in Cthreads
  PROVE  \/ ctid'[t] = ctid[t] /\ isr_val'[t] = isr_val[t] /\ delivered'[t] = delivered[t]
         \/ RegisterCtid(t) \/ EventGetValue(t) \/ EventCall(t)
<1>1. ASSUME NEW u \in Cthreads, u # t, RegisterCtid(u) \/ EventGetValue(u) \/ EventCall(u)
      PROVE  ctid'[t] = ctid[t] /\ isr_val'[t] = isr_val[t] /\ delivered'[t] = delivered[t]
  BY <1>1 DEF RegisterCtid, EventGetValue, EventCall, TypeOK
<1>2. ASSUME NEW u \in Cthreads,
             \/ EventRead(u) \/ EventProcessed(u) \/ EventTerminate(u) \/ RegisterEventfd(u)
             \/ UnregisterCtid(u) \/ UnregisterEventfd(u) \/ Join(u) \/ Die(u) \/ vfpga_isr(u)
      PROVE  UNCHANGED <<ctid, isr_val, delivered>>
  BY <1>2 DEF EventRead, EventProcessed, EventTerminate, RegisterEventfd, UnregisterCtid,
              UnregisterEventfd, Join, Die, vfpga_isr, user
<1>3. ASSUME NotifyTake \/ NotifyLock \/ NotifyDrop \/ NotifySet \/ NotifySignal \/ UNCHANGED vars
      PROVE  UNCHANGED <<ctid, isr_val, delivered>>
  BY <1>3 DEF NotifyTake, NotifyLock, NotifyDrop, NotifySet, NotifySignal, vars, user
<1>4. QED
  BY <1>1, <1>2, <1>3, NextSteps

\* Values only grow on their way to a callback.
LEMMA ValuesKept ==
  ASSUME TypeOK, Threads, Queue, Values, [Next]_vars
  PROVE  Values'
<1>1. ASSUME NEW t \in Cthreads
      PROVE  /\ IF ctid'[t] = None THEN isr_val'[t] = 0
                ELSE isr_val'[t] <= interrupt_value'[ctid'[t]]
             /\ \A i \in 1 .. Len(delivered'[t]) : delivered'[t][i] <= isr_val'[t]
             /\ \A i, j \in 1 .. Len(delivered'[t]) :
                  i < j => delivered'[t][i] <= delivered'[t][j]
  <2>1. /\ IF ctid[t] = None THEN isr_val[t] = 0 ELSE isr_val[t] <= interrupt_value[ctid[t]]
        /\ \A i \in 1 .. Len(delivered[t]) : delivered[t][i] <= isr_val[t]
        /\ \A i, j \in 1 .. Len(delivered[t]) : i < j => delivered[t][i] <= delivered[t][j]
    BY Zenon DEF Values
  <2>2. /\ isr_val[t] \in Nat /\ delivered[t] \in Seq(Nat) /\ ctid[t] \in Ctids \cup {None}
        /\ \A i \in 1 .. Len(delivered[t]) : delivered[t][i] \in Nat
    BY DEF TypeOK
  <2>3. \A c \in Ctids : /\ interrupt_value[c] \in Nat /\ interrupt_value'[c] \in Nat
                         /\ interrupt_value[c] <= interrupt_value'[c]
    BY InterruptValues
  <2>4. CASE /\ ctid'[t] = ctid[t] /\ isr_val'[t] = isr_val[t]
             /\ delivered'[t] = delivered[t]
    <3>1. ctid[t] # None => isr_val[t] <= interrupt_value'[ctid[t]]
      BY <2>1, <2>2, <2>3
    <3>2. QED
      BY <2>1, <2>4, <3>1, Zenon
  <2>5. CASE RegisterCtid(t)
    <3>1. /\ isr_val[t] = 0 /\ ctid'[t] \in Ctids /\ ctid'[t] # None
          /\ isr_val'[t] = isr_val[t] /\ delivered'[t] = delivered[t]
      BY <2>1, <2>5, NotificationsAssumption DEF RegisterCtid, Threads, TypeOK
    <3>2. 0 <= interrupt_value'[ctid'[t]]
      BY <2>3, <3>1
    <3>3. QED
      BY <2>1, <3>1, <3>2, Zenon
  <2>6. CASE EventGetValue(t)
    <3>1. /\ ctid[t] \in Ctids /\ ctid'[t] = ctid[t] /\ delivered'[t] = delivered[t]
          /\ interrupt_value' = interrupt_value /\ isr_val'[t] = interrupt_value[ctid[t]]
          /\ ctid[t] # None
      BY <2>6, NotificationsAssumption, Zenon DEF EventGetValue, Threads, TypeOK, driver
    <3>2. /\ isr_val[t] <= interrupt_value[ctid[t]] /\ interrupt_value[ctid[t]] \in Nat
          /\ interrupt_value[ctid[t]] <= interrupt_value[ctid[t]]
      BY <2>1, <2>3, <3>1
    <3>3. \A i \in 1 .. Len(delivered[t]) : delivered[t][i] <= interrupt_value[ctid[t]]
      BY <2>1, <2>2, <3>2
    <3>4. QED
      BY <2>1, <3>1, <3>2, <3>3, Zenon
  <2>7. CASE EventCall(t)
    <3>1. /\ ctid'[t] = ctid[t] /\ isr_val'[t] = isr_val[t] /\ interrupt_value' = interrupt_value
          /\ delivered'[t] = Append(delivered[t], isr_val[t])
      BY <2>7 DEF EventCall, TypeOK, driver
    <3>2. /\ \A i \in 1 .. Len(delivered'[t]) : delivered'[t][i] <= isr_val[t]
          /\ \A i, j \in 1 .. Len(delivered'[t]) : i < j => delivered'[t][i] <= delivered'[t][j]
      BY <2>1, <2>2, <3>1, AppendSorted
    <3>3. QED
      BY <2>1, <3>1, <3>2, Zenon
  <2>8. QED
    BY <2>4, <2>5, <2>6, <2>7, ReaderSteps
<1>2. QED
  BY <1>1, InterruptValues, Zenon DEF Values
--------------------------------------------------------------------------------
(* While no ctid is given a second time: who has a ctid and its eventfd.   *)

\* A fresh ctid belongs to the thread that registers it only.
LEMMA FreshCtid ==
  ASSUME TypeOK, "reuse" \notin env, NEW t \in Cthreads, RegisterCtid(t)
  PROVE  \E c \in Ctids : /\ ctid' = [ctid EXCEPT ![t] = c]
                          /\ \A u \in Cthreads : ctid[u] # c
                          /\ c # None
  BY NotificationsAssumption, Zenon DEF RegisterCtid

\* Steps other than IOCTL_REGISTER_CTID leave the ctids alone.
LEMMA CtidsFixed ==
  ASSUME [Next]_vars, \A t \in Cthreads : ~RegisterCtid(t)
  PROVE  ctid' = ctid
  BY NextSteps, Zenon
  DEF NotifyTake, NotifyLock, NotifyDrop, NotifySet, NotifySignal, vfpga_isr,
      EventRead, EventGetValue, EventCall, EventProcessed, EventTerminate,
      RegisterEventfd, UnregisterCtid, UnregisterEventfd, Join, Die, user, vars

\* No two threads get the same ctid.
LEMMA AloneKept ==
  ASSUME TypeOK, Alone, "reuse" \notin env, [Next]_vars
  PROVE  Alone'
<1>1. ASSUME NEW t \in Cthreads, RegisterCtid(t)
      PROVE  Alone'
  <2>1. PICK c \in Ctids : /\ ctid' = [ctid EXCEPT ![t] = c]
                           /\ \A u \in Cthreads : ctid[u] # c
    BY <1>1, FreshCtid
  <2>2. QED
    BY <2>1 DEF Alone, TypeOK
<1>2. CASE ctid' = ctid
  BY <1>2, Zenon DEF Alone
<1>3. QED
  BY <1>1, <1>2, CtidsFixed

\* Which eventfd is registered follows the constructors and destructors.
LEMMA NotifierKept ==
  ASSUME TypeOK, Threads, Alone, Notifier, "reuse" \notin env, [Next]_vars
  PROVE  Notifier'
<1> USE NotificationsAssumption
<1>1. ASSUME NEW t \in Cthreads, RegisterCtid(t)
      PROVE  Notifier'
  <2>1. PICK c \in Ctids : /\ ctid' = [ctid EXCEPT ![t] = c]
                           /\ \A u \in Cthreads : ctid[u] # c
    BY <1>1, FreshCtid
  <2>2. user_notifier[c] = None
    BY <2>1 DEF Notifier, TypeOK
  <2>3. /\ main' = [main EXCEPT ![t] = "registered"] /\ user_notifier' = user_notifier
        /\ ctid[t] = None
    BY <1>1 DEF RegisterCtid, driver, Threads
  <2>4. \A d \in Ctids : user_notifier[d] # None => user_notifier[d] # t
    BY <2>3 DEF Notifier
  <2>5. QED
    BY <2>1, <2>2, <2>3, <2>4 DEF Notifier, TypeOK
<1>2. ASSUME NEW t \in Cthreads, RegisterEventfd(t) \/ UnregisterEventfd(t)
      PROVE  Notifier'
  <2>1. /\ UNCHANGED ctid /\ ctid[t] \in Ctids
        /\ \A u \in Cthreads : u # t /\ ctid[u] # None => ctid[u] # ctid[t]
    BY <1>2 DEF RegisterEventfd, UnregisterEventfd, Threads, TypeOK, Alone
  <2>2. CASE RegisterEventfd(t)
    BY <2>1, <2>2 DEF RegisterEventfd, Notifier, Threads, TypeOK
  <2>3. CASE UnregisterEventfd(t)
    BY <2>1, <2>3 DEF UnregisterEventfd, Forgotten, Notifier, Threads, TypeOK
  <2>4. QED
    BY <1>2, <2>2, <2>3
<1>3. ASSUME NEW t \in Cthreads, UnregisterCtid(t) \/ Join(t) \/ Die(t)
      PROVE  Notifier'
  <2>1. /\ UNCHANGED <<ctid, user_notifier>>
        /\ \A u \in Cthreads \ {t} : main'[u] = main[u]
        /\ \/ main[t] = "live" /\ main'[t] \in {"unregistered", "dead"}
           \/ main[t] = "joining" /\ main'[t] = "gone"
    BY <1>3 DEF UnregisterCtid, Join, Die, driver, TypeOK
  <2>2. QED
    BY <2>1 DEF Notifier
<1>4. CASE UNCHANGED <<main, ctid, user_notifier>>
  BY <1>4, Zenon DEF Notifier
<1>5. ASSUME NEW t \in Cthreads,
             \/ EventRead(t) \/ EventGetValue(t) \/ EventCall(t) \/ EventProcessed(t)
             \/ EventTerminate(t) \/ vfpga_isr(t)
      PROVE  UNCHANGED <<main, ctid, user_notifier>>
  BY <1>5 DEF EventRead, EventGetValue, EventCall, EventProcessed, EventTerminate, vfpga_isr,
              driver, user
<1>6. ASSUME NotifyTake \/ NotifyLock \/ NotifyDrop \/ NotifySet \/ NotifySignal \/ UNCHANGED vars
      PROVE  UNCHANGED <<main, ctid, user_notifier>>
  BY <1>6 DEF NotifyTake, NotifyLock, NotifyDrop, NotifySet, NotifySignal, vars, driver, user
<1>7. QED
  BY <1>1, <1>2, <1>3, <1>4, <1>5, <1>6, NextSteps
--------------------------------------------------------------------------------
(* The mutex.                                                              *)

\* The notification at the worker goes to the thread it was raised for.
LEMMA Recipient ==
  ASSUME TypeOK, Threads, Queue, Alone, Notifier, worker.pc # "idle",
         NEW t, t = user_notifier[worker.ctid], t # None
  PROVE  /\ t \in Cthreads /\ ctid[t] = worker.ctid /\ worker.ctid \in Ctids
         /\ raised[Done + 1] = t
         /\ main[t] \in {"live", "unregistered", "dead"}
<1>1. /\ raised[Done + 1] \in Cthreads /\ worker.ctid = ctid[raised[Done + 1]]
      /\ worker.ctid \in Ctids /\ worker.ctid # None
      /\ main[raised[Done + 1]] \notin {"new", "registered"}
  BY WorkerItem, Zenon
<1>2. t \in Cthreads /\ ctid[t] = worker.ctid
  BY <1>1 DEF TypeOK, Notifier
<1>3. raised[Done + 1] = t
  BY <1>1, <1>2, Zenon DEF Alone
<1>4. main[t] \notin {"joining", "gone"}
  BY <1>1, <1>2, Zenon DEF Notifier
<1>5. QED
  BY <1>1, <1>2, <1>3, <1>4 DEF TypeOK

\* No notification waits for the mutex that a constructor initialises.
LEMMA NoWaiter ==
  ASSUME TypeOK, Threads, Queue, Alone, NEW t \in Cthreads, RegisterEventfd(t)
  PROVE  worker' = worker /\ worker.ctid # ctid[t]
<1>1. main[t] = "registered" /\ ctid[t] \in Ctids /\ ctid[t] # None
  BY NotificationsAssumption DEF RegisterEventfd, Threads, TypeOK
<1>2. worker.ctid # ctid[t]
  <2>1. CASE worker.pc = "idle"
    BY <1>1, <2>1 DEF Queue
  <2>2. CASE worker.pc # "idle"
    BY <1>1, <2>2, WorkerItem, Zenon DEF Alone
  <2>3. QED
    BY <2>1, <2>2
<1>3. QED
  BY <1>2 DEF RegisterEventfd

\* A thread whose event thread is not running has nothing to handle.
LEMMA NotBusy ==
  ASSUME TypeOK, Threads, Token, NEW t \in Cthreads,
         main[t] \in {"new", "registered"} \/ (main[t] = "joining" /\ event_thread[t] = "off")
  PROVE  ~Busy(t) /\ ~(efd[t] > 0) /\ event_thread[t] = "off"
  BY DEF Threads, Token, HoldsMutex, Busy

\* The worker has the mutex of its notification ...
LEMMA WorkerToken ==
  ASSUME TypeOK, Threads, Queue, Alone, Notifier, Token, [Next]_vars
  PROVE  worker'.pc \in {"check", "signal"} /\ user_notifier'[worker'.ctid] # None =>
           user_notifier_lock'[worker'.ctid]
<1> USE DEF driver, user
<1>1. CASE NotifyTake \/ NotifyDrop
  BY <1>1 DEF NotifyTake, NotifyDrop, Idle
<1>2. CASE NotifyLock
  <2>1. worker.ctid \in Ctids /\ worker'.ctid = worker.ctid
    BY <1>2, WorkerItem DEF NotifyLock, TypeOK
  <2>2. QED
    BY <1>2, <2>1 DEF NotifyLock, TypeOK
<1>3. CASE NotifySet
  BY <1>3 DEF NotifySet, Token, TypeOK
<1>4. CASE NotifySignal
  BY <1>4 DEF NotifySignal, Idle, TypeOK
<1>5. ASSUME NEW t \in Cthreads, RegisterEventfd(t)
      PROVE  worker'.pc \in {"check", "signal"} /\ user_notifier'[worker'.ctid] # None =>
               user_notifier_lock'[worker'.ctid]
  <2>1. worker' = worker /\ worker.ctid # ctid[t]
    BY <1>5, NoWaiter
  <2>2. worker.pc \in {"check", "signal"} => worker.ctid \in Ctids
    BY WorkerItem
  <2>3. QED
    BY <1>5, <2>1, <2>2 DEF RegisterEventfd, Token, TypeOK
<1>6. ASSUME NEW t \in Cthreads, UnregisterEventfd(t)
      PROVE  worker'.pc \in {"check", "signal"} /\ user_notifier'[worker'.ctid] # None =>
               user_notifier_lock'[worker'.ctid]
  <2>1. UNCHANGED <<worker, user_notifier_lock>> /\ user_notifier' = Forgotten(ctid[t])
    BY <1>6 DEF UnregisterEventfd
  <2>2. worker.pc \in {"check", "signal"} => worker.ctid \in Ctids
    BY WorkerItem
  <2>3. QED
    BY <2>1, <2>2 DEF Forgotten, Token, TypeOK
<1>7. ASSUME NEW t \in Cthreads, EventProcessed(t)
      PROVE  worker'.pc \in {"check", "signal"} /\ user_notifier'[worker'.ctid] # None =>
               user_notifier_lock'[worker'.ctid]
  <2>1. worker.ctid = ctid[t] => worker.pc = "locking"
    BY <1>7 DEF EventProcessed, Token, HoldsMutex, Busy
  <2>2. QED
    BY <1>7, <2>1 DEF EventProcessed, SetProcessed, Token, TypeOK
<1>8. ASSUME NEW t \in Cthreads, Join(t)
      PROVE  worker'.pc \in {"check", "signal"} /\ user_notifier'[worker'.ctid] # None =>
               user_notifier_lock'[worker'.ctid]
  <2>1. user_notifier[ctid[t]] = None
    BY <1>8 DEF Join, Notifier
  <2>2. QED
    BY <1>8, <2>1 DEF Join, SetProcessed, Token, TypeOK
<1>9. CASE UNCHANGED <<worker, user_notifier, user_notifier_lock>>
  BY <1>9, Zenon DEF Token
<1>10. ASSUME NEW t \in Cthreads,
              \/ EventRead(t) \/ EventGetValue(t) \/ EventCall(t) \/ EventTerminate(t)
              \/ vfpga_isr(t) \/ RegisterCtid(t) \/ UnregisterCtid(t) \/ Die(t)
       PROVE  UNCHANGED <<worker, user_notifier, user_notifier_lock>>
  BY <1>10 DEF EventRead, EventGetValue, EventCall, EventTerminate, vfpga_isr, RegisterCtid,
               UnregisterCtid, Die
<1>11. QED
  BY <1>1, <1>2, <1>3, <1>4, <1>5, <1>6, <1>7, <1>8, <1>9, <1>10, NextSteps DEF vars
\* ... and a notification that was signalled keeps it until it is handled.
LEMMA ThreadToken ==
  ASSUME TypeOK, Threads, Queue, Alone, Notifier, Token, [Next]_vars, NEW u \in Cthreads
  PROVE  HoldsMutex(u)'
<1> USE DEF driver, user
<1>1. HoldsMutex(u) /\ efd[u] \in Nat /\ (ctid[u] # None => ctid[u] \in Ctids)
  BY DEF Token, TypeOK
<1>2. CASE \/ NotifyTake \/ NotifyLock \/ NotifyDrop \/ NotifySet
           \/ NotifySignal /\ user_notifier[worker.ctid] = None
           \/ UNCHANGED <<main, ctid, event_thread, efd, worker, user_notifier_lock>>
  <2>1. UNCHANGED <<main, ctid, event_thread, efd>>
    BY <1>2 DEF NotifyTake, NotifyLock, NotifyDrop, NotifySet, NotifySignal
  <2>2. Busy(u)' <=> Busy(u)
    BY <2>1, Zenon DEF Busy
  <2>3. CASE UNCHANGED <<worker, user_notifier_lock>>
    BY <1>1, <2>1, <2>2, <2>3, Zenon DEF HoldsMutex
  <2>4. CASE NotifyTake
    BY <1>1, <2>1, <2>2, <2>4 DEF HoldsMutex, NotifyTake
  <2>5. CASE NotifyLock
    BY <1>1, <2>1, <2>2, <2>5 DEF HoldsMutex, NotifyLock, MutexFree, TypeOK
  <2>6. CASE NotifyDrop
    BY <1>1, <2>1, <2>2, <2>6 DEF HoldsMutex, NotifyDrop, DropUnlocks, Idle, TypeOK
  <2>7. CASE NotifySet
    BY <1>1, <2>1, <2>2, <2>7 DEF HoldsMutex, NotifySet, TypeOK
  <2>8. CASE NotifySignal
    BY <1>1, <2>1, <2>2, <2>8 DEF HoldsMutex, NotifySignal, Idle, TypeOK
  <2>9. QED
    BY <1>2, <2>3, <2>4, <2>5, <2>6, <2>7, <2>8
<1>3. CASE NotifySignal /\ user_notifier[worker.ctid] # None
  <2> DEFINE t == user_notifier[worker.ctid]
  <2>1. /\ t \in Cthreads /\ ctid[t] = worker.ctid /\ worker.ctid \in Ctids
        /\ main[t] \in {"live", "unregistered", "dead"} /\ worker.pc = "signal"
    BY <1>3, Recipient DEF NotifySignal
  <2>2. /\ efd' = [efd EXCEPT ![t] = @ + 1] /\ worker' = Idle
        /\ UNCHANGED <<main, ctid, event_thread, user_notifier_lock>>
    BY <1>3 DEF NotifySignal
  <2>3. user_notifier_lock[ctid[t]]
    BY <1>3, <2>1 DEF Token
  <2> HIDE DEF t
  <2>4. CASE u = t
    <3>1. ~Busy(u) /\ ctid[u] # None
      BY <1>1, <2>1, <2>4, NotificationsAssumption DEF HoldsMutex
    <3>2. event_thread[u] = "off" => main[u] = "dead"
      BY <2>1, <2>4 DEF Threads
    <3>3. event_thread[u] \in {"off", "wait"}
      BY <3>1 DEF Busy, TypeOK
    <3>4. QED
      BY <2>1, <2>2, <2>3, <2>4, <3>1, <3>2, <3>3, NotificationsAssumption DEF HoldsMutex, Idle
  <2>5. CASE u # t
    <3>1. efd'[u] = efd[u]
      BY <2>2, <2>5 DEF TypeOK
    <3>2. Busy(u)' <=> Busy(u)
      BY <2>2, <3>1 DEF Busy
    <3>3. QED
      BY <1>1, <2>2, <3>1, <3>2, NotificationsAssumption DEF HoldsMutex, Idle
  <2>6. QED
    BY <2>4, <2>5
<1>4. ASSUME NEW t \in Cthreads, EventRead(t) \/ EventGetValue(t) \/ EventCall(t)
      PROVE  HoldsMutex(u)'
  <2>1. /\ UNCHANGED <<driver, main, ctid>>
        /\ u # t => efd'[u] = efd[u] /\ event_thread'[u] = event_thread[u]
        /\ efd'[t] = efd[t] \/ efd'[t] = 0
        /\ event_thread'[t] \in {"read", "call", "called"}
    BY <1>4 DEF EventRead, EventGetValue, EventCall, TypeOK
  <2>2. Busy(t) /\ ~(efd'[t] > 0)
    BY <1>4, <2>1 DEF Token, HoldsMutex, Busy, EventRead, EventGetValue, EventCall, TypeOK
  <2>3. CASE u = t
    BY <1>1, <2>1, <2>2, <2>3, Zenon DEF HoldsMutex
  <2>4. CASE u # t
    BY <1>1, <2>1, <2>4 DEF HoldsMutex, Busy
  <2>5. QED
    BY <2>3, <2>4
<1>5. ASSUME NEW t \in Cthreads, EventProcessed(t)
      PROVE  HoldsMutex(u)'
  <2>1. CASE u = t
    <3>1. ~(efd[u] > 0)
      BY <1>1, <1>5, <2>1 DEF EventProcessed, HoldsMutex
    <3>2. QED
      BY <1>5, <2>1, <3>1 DEF HoldsMutex, Busy, EventProcessed, TypeOK
  <2>2. CASE u # t
    <3>1. ctid[u] # None => ctid[u] # ctid[t]
      BY <2>2 DEF Alone
    <3>2. QED
      BY <1>1, <1>5, <2>2, <3>1 DEF HoldsMutex, Busy, EventProcessed, SetProcessed, TypeOK
  <2>3. QED
    BY <2>1, <2>2
<1>6. ASSUME NEW t \in Cthreads, EventTerminate(t)
      PROVE  HoldsMutex(u)'
  BY <1>1, <1>6 DEF HoldsMutex, Busy, EventTerminate, TypeOK
<1>7. ASSUME NEW t \in Cthreads, RegisterCtid(t)
      PROVE  HoldsMutex(u)'
  <2>1. CASE u = t
    BY <1>7, <2>1, NotBusy DEF HoldsMutex, Busy, RegisterCtid
  <2>2. CASE u # t
    <3>1. ctid'[u] = ctid[u] /\ main'[u] = main[u] /\ UNCHANGED <<driver, event_thread, efd>>
      BY <1>7, <2>2 DEF RegisterCtid, TypeOK
    <3>2. QED
      BY <1>1, <3>1 DEF HoldsMutex, Busy
  <2>3. QED
    BY <2>1, <2>2
<1>8. ASSUME NEW t \in Cthreads, RegisterEventfd(t) \/ Join(t)
      PROVE  HoldsMutex(u)'
  <2>1. ~Busy(t) /\ ~(efd[t] > 0) /\ worker' = worker /\ UNCHANGED <<ctid, efd>>
        /\ event_thread'[t] \notin {"read", "call", "called"}
    BY <1>8, NotBusy, NoWaiter, Zenon DEF RegisterEventfd, Join, TypeOK
  <2>2. CASE u = t
    BY <2>1, <2>2 DEF HoldsMutex, Busy
  <2>3. CASE u # t
    <3>1. ctid[u] # None => ctid[u] # ctid[t]
      BY <2>3 DEF Alone
    <3>2. /\ main'[u] = main[u] /\ event_thread'[u] = event_thread[u]
          /\ ctid[u] # None => user_notifier_lock'[ctid[u]] = user_notifier_lock[ctid[u]]
      BY <1>1, <1>8, <2>3, <3>1 DEF RegisterEventfd, Join, SetProcessed, TypeOK
    <3>3. QED
      BY <1>1, <2>1, <3>2 DEF HoldsMutex, Busy
  <2>4. QED
    BY <2>2, <2>3
<1>9. ASSUME NEW t \in Cthreads, UnregisterCtid(t) \/ UnregisterEventfd(t) \/ Die(t)
      PROVE  HoldsMutex(u)'
  BY <1>1, <1>9 DEF HoldsMutex, Busy, UnregisterCtid, UnregisterEventfd, Die, TypeOK, Threads
<1>10. QED
  BY <1>2, <1>3, <1>4, <1>5, <1>6, <1>7, <1>8, <1>9, NextSteps, Zenon DEF vfpga_isr, vars

\* The mutex is kept as Token says.
LEMMA TokenKept ==
  ASSUME TypeOK, Threads, Queue, Alone, Notifier, Token, [Next]_vars
  PROVE  Token'
  BY WorkerToken, ThreadToken, Zenon DEF Token
--------------------------------------------------------------------------------
(* What was raised, handled and delivered.                                 *)

\* What was raised stays, and what the worker is through with grows one by one.
LEMMA History ==
  ASSUME TypeOK, Threads, Queue, [Next]_vars
  PROVE  /\ Len(raised) \in Nat /\ Len(raised') \in Nat /\ Len(raised) <= Len(raised')
         /\ \A v \in 1 .. Len(raised) : raised'[v] = raised[v]
         /\ Done \in Nat /\ Done' \in Nat /\ Done <= Done'
         /\ Done <= Len(raised) /\ Done' <= Len(raised')
         /\ Done' # Done => Done' = Done + 1 /\ (NotifyDrop \/ NotifySignal) /\ worker' = Idle
<1>1. /\ Done \in Nat /\ Len(raised) \in Nat /\ Done <= Len(raised)
      /\ Done' \in Nat /\ Len(raised') \in Nat /\ Done' <= Len(raised')
  <2>1. TypeOK' /\ Queue'
    BY TypeKept, QueueKept
  <2>2. Done \in Nat /\ Len(raised) \in Nat /\ Done <= Len(raised)
    BY DoneRange
  <2>3. Done' \in Nat /\ Len(raised') \in Nat /\ Len(wqueue_notify') \in Nat
    BY <2>1 DEF TypeOK, Queue
  <2>4. QED
    BY <2>2, <2>3 DEF Done
<1>2. CASE \E t \in Cthreads : vfpga_isr(t)
  BY <1>1, <1>2, IsrQueue
<1>3. CASE NotifyTake
  <2>1. raised' = raised
    BY <1>3 DEF NotifyTake
  <2>2. QED
    BY <1>1, <1>3, <2>1, TakeQueue
<1>4. CASE (NotifyDrop \/ NotifySignal) /\ worker' = Idle
  <2>1. worker.pc # "idle" /\ UNCHANGED <<main, ctid, raised, wqueue_notify>>
    BY <1>4 DEF NotifyDrop, NotifySignal, user
  <2>2. QED
    BY <1>1, <1>4, <2>1, EndItem
<1>5. CASE (NotifyLock \/ NotifySet \/ NotifySignal) /\ worker' # Idle
  <2>1. raised' = raised
    BY <1>5 DEF NotifyLock, NotifySet, NotifySignal
  <2>2. QED
    BY <1>1, <1>5, <2>1, WorkerStepQueue
<1>6. ASSUME NEW t \in Cthreads,
             \/ EventRead(t) \/ EventGetValue(t) \/ EventCall(t) \/ EventProcessed(t)
             \/ EventTerminate(t)
             \/ RegisterCtid(t) \/ RegisterEventfd(t)
             \/ UnregisterCtid(t) \/ UnregisterEventfd(t) \/ Join(t) \/ Die(t)
      PROVE  raised' = raised /\ Done' = Done
  BY <1>6, ThreadStepQueue
<1>7. UNCHANGED vars => raised' = raised /\ Done' = Done
  BY QueueUntouched DEF vars, driver, user
<1>8. CASE raised' = raised /\ Done' = Done
  BY <1>1, <1>8
<1>9. /\ NotifyDrop => worker' = Idle
      /\ NotifyLock \/ NotifySet => worker' # Idle
  BY DEF NotifyDrop, NotifyLock, NotifySet, Idle, TypeOK
<1>10. QED
  BY <1>2, <1>3, <1>4, <1>5, <1>6, <1>7, <1>8, <1>9, NextSteps

\* Later interrupts do not change whose turn it is.
LEMMA InTurnKept ==
  ASSUME TypeOK, Threads, Queue, [Next]_vars, NEW t \in Cthreads, NEW v,
         delivered'[t] = delivered[t], InTurn(t, v)
  PROVE  InTurn(t, v)'
<1>1. /\ Len(raised) \in Nat /\ Len(raised') \in Nat /\ Len(raised) <= Len(raised')
      /\ \A w \in 1 .. Len(raised) : raised'[w] = raised[w]
      /\ Done \in Nat /\ Done' \in Nat /\ Done <= Done'
  BY History
<1>2. v \in 1 .. Len(raised) /\ raised[v] = t /\ v <= Done
  BY DEF InTurn
<1>3. /\ v \in 1 .. Len(raised') /\ raised'[v] = t /\ v <= Done'
      /\ \A w \in 1 .. v - 1 : raised'[w] = raised[w]
  BY <1>1, <1>2
<1>4. QED
  BY <1>3, Zenon DEF InTurn, Delivered

\* s continues r; q is the beginning of what r says about t; x comes next in it.
Continues(r, s) == Len(r) <= Len(s) /\ \A v \in 1 .. Len(r) : s[v] = r[v]

Beginning(r, q, t) ==
  /\ \A i \in 1 .. Len(q) : q[i] \in 1 .. Len(r) /\ r[q[i]] = t
  /\ \A i, j \in 1 .. Len(q) : i < j => q[i] < q[j]
  /\ \A v \in 1 .. Len(r), i \in 1 .. Len(q) :
       r[v] = t /\ v < q[i] => \E j \in 1 .. Len(q) : q[j] = v

ComesNext(r, q, t, x) ==
  /\ x \in 1 .. Len(r) /\ r[x] = t
  /\ \A i \in 1 .. Len(q) : q[i] < x
  /\ \A w \in 1 .. x - 1 : r[w] = t => \E i \in 1 .. Len(q) : q[i] = w

\* Later interrupts do not change what a thread received.
LEMMA BeginningKept ==
  ASSUME NEW S, NEW r \in Seq(S), NEW s \in Seq(S), NEW q \in Seq(Nat), NEW t,
         Continues(r, s), Beginning(r, q, t)
  PROVE  Beginning(s, q, t)
<1> USE DEF Continues, Beginning
<1>1. Len(r) \in Nat /\ Len(s) \in Nat /\ \A i \in 1 .. Len(q) : q[i] \in Nat
  OBVIOUS
<1>2. \A i \in 1 .. Len(q) : q[i] \in 1 .. Len(s) /\ s[q[i]] = t
  BY <1>1
<1>3. \A v \in 1 .. Len(s), i \in 1 .. Len(q) : v < q[i] => v \in 1 .. Len(r)
  BY <1>1
<1>4. QED
  BY <1>2, <1>3, Zenon

\* A callback called with the next value received the beginning of what was raised.
LEMMA BeginningNext ==
  ASSUME NEW S, NEW r \in Seq(S), NEW q \in Seq(Nat), NEW t, NEW x \in Nat,
         Beginning(r, q, t), ComesNext(r, q, t, x),
         NEW p, p = Append(q, x)
  PROVE  Beginning(r, p, t)
<1> USE DEF Beginning, ComesNext
<1>1. /\ Len(q) \in Nat /\ Len(p) = Len(q) + 1 /\ p[Len(q) + 1] = x
      /\ \A i \in 1 .. Len(q) : p[i] = q[i] /\ i \in 1 .. Len(p)
      /\ \A i \in 1 .. Len(p) : i \in 1 .. Len(q) \/ i = Len(q) + 1
      /\ Len(q) + 1 \in 1 .. Len(p)
  OBVIOUS
<1>2. \A i \in 1 .. Len(p) : p[i] \in 1 .. Len(r) /\ r[p[i]] = t
  BY <1>1
<1>3. \A i, j \in 1 .. Len(p) : i < j => p[i] < p[j]
  <2>1. SUFFICES ASSUME NEW i \in 1 .. Len(p), NEW j \in 1 .. Len(p), i < j
                 PROVE  p[i] < p[j]
    BY Zenon
  <2>2. i \in 1 .. Len(q)
    BY <1>1, <2>1
  <2>3. QED
    BY <1>1, <2>1, <2>2
<1>4. ASSUME NEW v \in 1 .. Len(r), NEW i \in 1 .. Len(p), r[v] = t, v < p[i]
      PROVE  \E j \in 1 .. Len(p) : p[j] = v
  <2>1. \E j \in 1 .. Len(q) : q[j] = v
    <3>1. CASE i \in 1 .. Len(q)
      BY <1>1, <1>4, <3>1
    <3>2. CASE i = Len(q) + 1
      BY <1>1, <1>4, <3>2
    <3>3. QED
      BY <1>1, <3>1, <3>2
  <2>2. QED
    BY <1>1, <2>1
<1>5. QED
  BY <1>2, <1>3, <1>4
\* The steps that concern the event thread of u.
LEMMA EventSteps ==
  ASSUME TypeOK, Threads, [Next]_vars, NEW u \in Cthreads
  PROVE  \/ /\ event_thread'[u] = event_thread[u] /\ efd'[u] = efd[u] /\ ctid'[u] = ctid[u]
            /\ isr_val'[u] = isr_val[u] /\ delivered'[u] = delivered[u]
            /\ main'[u] \in {"live", "unregistered"} => main[u] \in {"live", "unregistered"}
         \/ NotifySignal /\ user_notifier[worker.ctid] = u
         \/ EventRead(u) \/ EventGetValue(u) \/ EventCall(u) \/ EventProcessed(u)
         \/ EventTerminate(u) \/ RegisterCtid(u) \/ RegisterEventfd(u) \/ Die(u)
<1> USE DEF driver, user
<1>1. ASSUME NEW t \in Cthreads,
             \/ EventRead(t) \/ EventGetValue(t) \/ EventCall(t) \/ EventProcessed(t)
             \/ EventTerminate(t) \/ RegisterCtid(t) \/ RegisterEventfd(t) \/ Die(t),
             t # u
      PROVE  /\ event_thread'[u] = event_thread[u] /\ efd'[u] = efd[u] /\ ctid'[u] = ctid[u]
             /\ isr_val'[u] = isr_val[u] /\ delivered'[u] = delivered[u] /\ main'[u] = main[u]
  BY <1>1 DEF EventRead, EventGetValue, EventCall, EventProcessed, EventTerminate,
              RegisterCtid, RegisterEventfd, Die, TypeOK
<1>2. ASSUME NEW t \in Cthreads,
             \/ vfpga_isr(t) \/ UnregisterCtid(t) \/ UnregisterEventfd(t) \/ Join(t)
      PROVE  /\ UNCHANGED <<event_thread, efd, ctid, isr_val, delivered>>
             /\ main'[u] \in {"live", "unregistered"} => main[u] \in {"live", "unregistered"}
  BY <1>2 DEF vfpga_isr, UnregisterCtid, UnregisterEventfd, Join, TypeOK
<1>3. ASSUME NotifyTake \/ NotifyLock \/ NotifyDrop \/ NotifySet \/ UNCHANGED vars
      PROVE  UNCHANGED <<event_thread, efd, ctid, isr_val, delivered, main>>
  BY <1>3 DEF NotifyTake, NotifyLock, NotifyDrop, NotifySet, vars
<1>4. ASSUME NotifySignal, user_notifier[worker.ctid] # u
      PROVE  UNCHANGED <<event_thread, ctid, isr_val, delivered, main>> /\ efd'[u] = efd[u]
  BY <1>4 DEF NotifySignal, TypeOK
<1>5. QED
  BY <1>1, <1>2, <1>3, <1>4, NextSteps

\* Nothing overwrites the value of a notification that is being handled.
LEMMA ValueHeld ==
  ASSUME TypeOK, Threads, Token, [Next]_vars, NEW u \in Cthreads, Busy(u)
  PROVE  interrupt_value'[ctid[u]] = interrupt_value[ctid[u]]
<1>1. worker.ctid = ctid[u] => worker.pc = "locking"
  BY DEF Token, HoldsMutex
<1>2. CASE NotifySet
  BY <1>1, <1>2 DEF NotifySet, ValueStored, TypeOK
<1>3. CASE ~NotifySet
  BY <1>3, NextSteps, Zenon
  DEF NotifyTake, NotifyLock, NotifyDrop, NotifySignal, vfpga_isr,
      EventRead, EventGetValue, EventCall, EventProcessed, EventTerminate, RegisterCtid,
      RegisterEventfd, UnregisterCtid, UnregisterEventfd, Join, Die, driver, user, vars
<1>4. QED
  BY <1>2, <1>3

\* The value that NotifySignal signals is the next one of its thread.
LEMMA SignalInTurn ==
  ASSUME TypeOK, Threads, Queue, Exclusive, NotifySignal,
         NEW t \in Cthreads, user_notifier[worker.ctid] = t, event_thread[t] # "off",
         NEW v, v = Done + 1
  PROVE  /\ event_thread[t] = "wait" /\ ~Reading(t)
         /\ interrupt_value[ctid[t]] = v /\ interrupt_value'[ctid'[t]] = v
         /\ InTurn(t, v)'
<1>1. /\ ctid[t] = worker.ctid /\ worker.ctid \in Ctids /\ raised[Done + 1] = t
      /\ main[t] \in {"live", "unregistered", "dead"} /\ worker.pc = "signal"
  <2>1. worker.pc = "signal" /\ t # None
    BY NotificationsAssumption DEF NotifySignal
  <2>2. QED
    BY <2>1, Recipient DEF Exclusive
<1>2. ~Busy(t)
  BY <1>1 DEF Exclusive, Token, HoldsMutex
<1>3. event_thread[t] = "wait" /\ ~Reading(t) /\ event_thread[t] # "call"
  BY <1>2 DEF Busy, Reading, TypeOK
<1>4. interrupt_value[ctid[t]] = Done + 1
  BY <1>1, WorkerItem DEF Exclusive
<1>5. main[t] \in {"live", "unregistered"}
  BY <1>1 DEF Threads
<1>6. \A w \in 1 .. Done : raised[w] = t => Delivered(t, w)
  BY <1>3, <1>5, Zenon DEF Exclusive, Handled
<1>7. /\ \A i \in 1 .. Len(delivered[t]) : delivered[t][i] <= Done
      /\ \A i \in 1 .. Len(delivered[t]) : delivered[t][i] \in Nat
  BY DEF Exclusive, Past, TypeOK
<1>8. /\ worker' = Idle
      /\ UNCHANGED <<main, ctid, raised, wqueue_notify, delivered, interrupt_value>>
  BY NotificationsAssumption DEF NotifySignal
<1>9. Done' = v /\ Done \in Nat /\ v \in 1 .. Len(raised)
  BY <1>1, <1>8, EndItem, WorkerItem, DoneRange
<1>10. /\ \A i \in 1 .. Len(delivered[t]) : delivered[t][i] < v
       /\ \A w \in 1 .. v - 1 : w \in 1 .. Done
       /\ v <= Done'
  BY <1>7, <1>9
<1>11. InTurn(t, v)'
  BY <1>1, <1>6, <1>8, <1>9, <1>10, Zenon DEF InTurn, Delivered
<1>12. QED
  BY <1>3, <1>4, <1>8, <1>11
\* What the event thread of u reads and passes on is the next value of u.
LEMMA FlightKept ==
  ASSUME TypeOK, Threads, Queue, Exclusive, [Next]_vars
  PROVE  Flight'
<1>1. SUFFICES ASSUME NEW u \in Cthreads
               PROVE  /\ Reading(u)' => InTurn(u, interrupt_value[ctid[u]])'
                      /\ event_thread'[u] = "call" => InTurn(u, isr_val[u])'
  BY Zenon DEF Flight
<1>2. /\ Reading(u) => InTurn(u, interrupt_value[ctid[u]])
      /\ event_thread[u] = "call" => InTurn(u, isr_val[u])
      /\ HoldsMutex(u) /\ Token
  BY Zenon DEF Exclusive, Flight, Token
<1>3. Reading(u) => Busy(u)
  BY DEF Reading, Busy
<1>4. CASE /\ event_thread'[u] = event_thread[u] /\ efd'[u] = efd[u] /\ ctid'[u] = ctid[u]
           /\ isr_val'[u] = isr_val[u] /\ delivered'[u] = delivered[u]
  <2>1. Reading(u)' <=> Reading(u)
    BY <1>4 DEF Reading
  <2>2. ASSUME Reading(u)
        PROVE  InTurn(u, interrupt_value[ctid[u]])'
    <3>1. PICK v : v = interrupt_value[ctid[u]]
      OBVIOUS
    <3>2. interrupt_value'[ctid'[u]] = v
      BY <1>2, <1>3, <1>4, <2>2, <3>1, ValueHeld
    <3>3. InTurn(u, v)'
      BY <1>2, <1>4, <2>2, <3>1, InTurnKept
    <3>4. QED
      BY <3>2, <3>3, Zenon DEF InTurn
  <2>3. ASSUME event_thread[u] = "call"
        PROVE  InTurn(u, isr_val[u])'
    <3>1. PICK v : v = isr_val[u]
      OBVIOUS
    <3>2. InTurn(u, v)'
      BY <1>2, <1>4, <2>3, <3>1, InTurnKept
    <3>3. QED
      BY <1>4, <3>1, <3>2, Zenon DEF InTurn
  <2>4. QED
    BY <1>4, <2>1, <2>2, <2>3
<1>5. CASE NotifySignal /\ user_notifier[worker.ctid] = u
  <2>1. UNCHANGED event_thread
    BY <1>5 DEF NotifySignal
  <2>2. CASE event_thread[u] = "off"
    BY <2>1, <2>2 DEF Reading
  <2>3. CASE event_thread[u] # "off"
    <3>1. PICK v : v = Done + 1
      OBVIOUS
    <3>2. event_thread[u] = "wait" /\ interrupt_value'[ctid'[u]] = v /\ InTurn(u, v)'
      BY <1>5, <2>3, <3>1, SignalInTurn
    <3>3. QED
      BY <2>1, <3>2 DEF InTurn
  <2>4. QED
    BY <2>2, <2>3
<1>6. CASE EventRead(u)
  <2>1. /\ Reading(u) /\ event_thread'[u] = "read"
        /\ UNCHANGED <<interrupt_value, ctid, delivered>>
    BY <1>6 DEF EventRead, Reading, TypeOK, driver
  <2>2. PICK v : v = interrupt_value[ctid[u]]
    OBVIOUS
  <2>3. InTurn(u, v)'
    BY <1>2, <2>1, <2>2, InTurnKept
  <2>4. InTurn(u, interrupt_value[ctid[u]])'
    BY <2>1, <2>2, <2>3, Zenon DEF InTurn
  <2>5. QED
    BY <2>1, <2>4
<1>7. CASE EventGetValue(u)
  <2>1. /\ Reading(u) /\ event_thread'[u] = "call" /\ isr_val'[u] = interrupt_value[ctid[u]]
        /\ UNCHANGED delivered
    BY <1>7 DEF EventGetValue, Reading, TypeOK
  <2>2. PICK v : v = interrupt_value[ctid[u]]
    OBVIOUS
  <2>3. InTurn(u, v)'
    BY <1>2, <2>1, <2>2, InTurnKept
  <2>4. InTurn(u, isr_val[u])'
    BY <2>1, <2>2, <2>3, Zenon DEF InTurn
  <2>5. QED
    BY <2>1, <2>4 DEF Reading
<1>8. CASE EventCall(u) \/ EventTerminate(u) \/ Die(u)
  BY <1>8 DEF EventCall, EventTerminate, Die, Reading, TypeOK
<1>9. CASE EventProcessed(u)
  BY <1>2, <1>9 DEF EventProcessed, HoldsMutex, Reading, TypeOK
<1>10. CASE RegisterCtid(u)
  <2>1. main[u] = "new" /\ event_thread' = event_thread
    BY <1>10 DEF RegisterCtid
  <2>2. event_thread[u] = "off"
    BY <1>2, <2>1, NotBusy
  <2>3. QED
    BY <2>1, <2>2 DEF Reading
<1>11. CASE RegisterEventfd(u)
  <2>1. main[u] = "registered" /\ event_thread'[u] = "wait" /\ efd' = efd
    BY <1>11 DEF RegisterEventfd, TypeOK
  <2>2. ~(efd[u] > 0)
    BY <1>2, <2>1, NotBusy
  <2>3. QED
    BY <2>1, <2>2 DEF Reading
<1>12. QED
  BY <1>4, <1>5, <1>6, <1>7, <1>8, <1>9, <1>10, <1>11, EventSteps, Zenon

\* What a callback was called with is the beginning of what was raised for it.
LEMMA PastKept ==
  ASSUME TypeOK, Threads, Queue, Exclusive, [Next]_vars
  PROVE  Past'
<1>1. SUFFICES ASSUME NEW u \in Cthreads
               PROVE  /\ Received(u, delivered[u])'
                      /\ \A i \in 1 .. Len(delivered'[u]) : delivered'[u][i] <= Done'
  BY Zenon DEF Past
<1>2. /\ Received(u, delivered[u])
      /\ \A i \in 1 .. Len(delivered[u]) : delivered[u][i] <= Done
      /\ event_thread[u] = "call" => InTurn(u, isr_val[u])
  BY Zenon DEF Exclusive, Past, Flight
<1>3. /\ raised \in Seq(Cthreads) /\ raised' \in Seq(Cthreads) /\ delivered[u] \in Seq(Nat)
      /\ isr_val[u] \in Nat /\ \A i \in 1 .. Len(delivered[u]) : delivered[u][i] \in Nat
  <2>1. TypeOK'
    BY TypeKept
  <2>2. raised \in Seq(Cthreads) /\ raised' \in Seq(Cthreads)
    BY <2>1 DEF TypeOK
  <2>3. QED
    BY <2>2 DEF TypeOK
<1>4. /\ Len(raised) <= Len(raised') /\ \A v \in 1 .. Len(raised) : raised'[v] = raised[v]
      /\ Done \in Nat /\ Done' \in Nat /\ Done <= Done'
  BY History
<1>5. CASE delivered'[u] = delivered[u]
  <2>1. \A i \in 1 .. Len(delivered[u]) : delivered[u][i] <= Done'
    BY <1>2, <1>3, <1>4
  <2>2. Continues(raised, raised')
    BY <1>4, Zenon DEF Continues
  <2>3. Beginning(raised, delivered[u], u)
    BY <1>2, Zenon DEF Beginning, Received
  <2>4. Beginning(raised', delivered[u], u)
    BY <1>3, <2>2, <2>3, BeginningKept, Zenon
  <2>5. QED
    BY <1>5, <2>1, <2>4, Zenon DEF Received, Beginning
<1>6. CASE EventCall(u)
  <2>1. /\ delivered'[u] = Append(delivered[u], isr_val[u]) /\ raised' = raised
        /\ InTurn(u, isr_val[u])
    BY <1>2, <1>6 DEF EventCall, TypeOK
  <2>2. Beginning(raised, delivered[u], u) /\ ComesNext(raised, delivered[u], u, isr_val[u])
    BY <1>2, <2>1, Zenon DEF Beginning, ComesNext, Received, InTurn, Delivered
  <2>3. Received(u, delivered[u])'
    <3>1. Beginning(raised, delivered'[u], u)
      BY <1>3, <2>1, <2>2, BeginningNext, Zenon
    <3>2. QED
      BY <2>1, <3>1, Zenon DEF Received, Beginning
  <2>4. isr_val[u] <= Done'
    BY <1>3, <1>4, <2>1 DEF InTurn
  <2>5. \A i \in 1 .. Len(delivered[u]) : delivered[u][i] <= Done'
    BY <1>2, <1>3, <1>4
  <2>6. \A i \in 1 .. Len(delivered'[u]) : delivered'[u][i] <= Done'
    BY <1>3, <2>1, <2>4, <2>5, AppendFacts
  <2>7. QED
    BY <2>3, <2>6
<1>7. QED
  BY <1>5, <1>6, ReaderSteps DEF RegisterCtid, EventGetValue
\* What the worker is through with was delivered, or is being delivered.
LEMMA HandledKept ==
  ASSUME TypeOK, Threads, Queue, Exclusive, [Next]_vars
  PROVE  Handled'
<1>1. SUFFICES ASSUME NEW u \in Cthreads, main'[u] \in {"live", "unregistered"},
                      NEW v \in 1 .. Done', raised'[v] = u
               PROVE  \/ Delivered(u, v)'
                      \/ Reading(u)' /\ v = interrupt_value'[ctid'[u]]
                      \/ event_thread'[u] = "call" /\ v = isr_val'[u]
  BY Zenon DEF Handled
<1>2. /\ HoldsMutex(u) /\ Token /\ Alone /\ Notifier
      /\ worker.pc = "signal" => interrupt_value[worker.ctid] = worker.value
  BY Zenon DEF Exclusive, Token
<1>3. /\ Done \in Nat /\ Done' \in Nat /\ Done <= Len(raised) /\ Done <= Done'
      /\ \A w \in 1 .. Len(raised) : raised'[w] = raised[w]
      /\ Done' # Done => Done' = Done + 1 /\ (NotifyDrop \/ NotifySignal) /\ worker' = Idle
      /\ Len(raised) \in Nat
  BY History
<1>4. CASE v \notin 1 .. Done
  <2>1. /\ v = Done + 1 /\ (NotifyDrop \/ NotifySignal) /\ worker' = Idle
        /\ UNCHANGED <<main, ctid, raised>>
    BY <1>3, <1>4 DEF NotifyDrop, NotifySignal, user
  <2>2. /\ worker.ctid = ctid[u] /\ user_notifier[ctid[u]] = u /\ worker.pc # "idle"
        /\ u # None
    <3>1. worker.pc # "idle"
      BY <2>1 DEF NotifyDrop, NotifySignal
    <3>2. worker.ctid = ctid[raised[Done + 1]]
      BY <3>1, WorkerItem
    <3>3. user_notifier[ctid[u]] = u
      BY <1>1, <1>2, <2>1 DEF Notifier
    <3>4. QED
      BY <1>1, <2>1, <3>1, <3>2, <3>3, NotificationsAssumption
  <2>3. NotifySignal
    BY <2>1, <2>2 DEF NotifyDrop
  <2>4. event_thread[u] # "off"
    BY <1>1, <2>1 DEF Threads
  <2>5. event_thread[u] = "wait" /\ interrupt_value'[ctid'[u]] = v
    BY <2>1, <2>2, <2>3, <2>4, SignalInTurn
  <2>6. event_thread' = event_thread /\ efd'[u] = efd[u] + 1 /\ efd[u] \in Nat
    BY <2>2, <2>3 DEF NotifySignal, TypeOK
  <2>7. QED
    BY <2>5, <2>6 DEF Reading
<1>5. CASE v \in 1 .. Done
  <2>1. raised[v] = u
    BY <1>1, <1>3, <1>5
  <2>2. main[u] \notin {"new", "registered"}
    BY <1>3, <1>5, <2>1 DEF Queue
  <2>3. ASSUME main[u] \in {"live", "unregistered"}
        PROVE  \/ Delivered(u, v)
               \/ Reading(u) /\ v = interrupt_value[ctid[u]]
               \/ event_thread[u] = "call" /\ v = isr_val[u]
    BY <1>5, <2>1, <2>3, Zenon DEF Exclusive, Handled
  <2>4. delivered'[u] = delivered[u] => (Delivered(u, v)' <=> Delivered(u, v))
    BY Zenon DEF Delivered
  <2>5. Reading(u) => interrupt_value'[ctid[u]] = interrupt_value[ctid[u]]
    BY <1>2, ValueHeld DEF Reading, Busy
  <2>6. CASE /\ event_thread'[u] = event_thread[u] /\ efd'[u] = efd[u] /\ ctid'[u] = ctid[u]
             /\ isr_val'[u] = isr_val[u] /\ delivered'[u] = delivered[u]
             /\ main'[u] \in {"live", "unregistered"} => main[u] \in {"live", "unregistered"}
    <3>1. Reading(u)' <=> Reading(u)
      BY <2>6 DEF Reading
    <3>2. QED
      BY <1>1, <2>3, <2>4, <2>5, <2>6, <3>1, Zenon
  <2>7. CASE NotifySignal /\ user_notifier[worker.ctid] = u
    <3>1. UNCHANGED <<main, delivered, event_thread>>
      BY <2>7 DEF NotifySignal
    <3>2. event_thread[u] # "off" /\ main[u] \in {"live", "unregistered"}
      BY <1>1, <3>1 DEF Threads
    <3>3. event_thread[u] = "wait" /\ ~Reading(u)
      BY <2>7, <3>2, SignalInTurn
    <3>4. QED
      BY <2>3, <2>4, <3>1, <3>2, <3>3
  <2>8. CASE EventRead(u)
    <3>1. /\ UNCHANGED <<main, delivered, ctid, interrupt_value>> /\ event_thread'[u] = "read"
          /\ event_thread[u] = "wait"
      BY <2>8 DEF EventRead, TypeOK, driver
    <3>2. Reading(u)'
      BY <3>1 DEF Reading
    <3>3. QED
      BY <1>1, <2>3, <2>4, <3>1, <3>2
  <2>9. CASE EventGetValue(u)
    <3>1. /\ UNCHANGED <<main, delivered>> /\ event_thread'[u] = "call"
          /\ isr_val'[u] = interrupt_value[ctid[u]] /\ event_thread[u] = "read"
      BY <2>9 DEF EventGetValue, TypeOK
    <3>2. QED
      BY <1>1, <2>3, <2>4, <3>1
  <2>10. CASE EventCall(u)
    <3>1. /\ UNCHANGED main /\ event_thread[u] = "call"
          /\ delivered'[u] = Append(delivered[u], isr_val[u])
          /\ delivered[u] \in Seq(Nat) /\ isr_val[u] \in Nat
      BY <2>10 DEF EventCall, TypeOK
    <3>2. ~Reading(u)
      BY <3>1 DEF Reading
    <3>3. Delivered(u, v) \/ v = isr_val[u]
      BY <1>1, <2>3, <3>1, <3>2
    <3>4. /\ \A i \in 1 .. Len(delivered[u]) : i \in 1 .. Len(delivered'[u])
          /\ \A i \in 1 .. Len(delivered[u]) : delivered'[u][i] = delivered[u][i]
          /\ Len(delivered[u]) + 1 \in 1 .. Len(delivered'[u])
          /\ delivered'[u][Len(delivered[u]) + 1] = isr_val[u]
      BY <3>1
    <3>5. Delivered(u, v)'
      BY <3>3, <3>4, Zenon DEF Delivered
    <3>6. QED
      BY <3>5
  <2>11. CASE EventProcessed(u)
    <3>1. UNCHANGED <<main, delivered>> /\ event_thread[u] = "called"
      BY <2>11 DEF EventProcessed
    <3>2. QED
      BY <1>1, <2>3, <2>4, <3>1 DEF Reading
  <2>12. ~EventTerminate(u) /\ ~RegisterCtid(u) /\ ~RegisterEventfd(u) /\ ~Die(u)
    BY <1>1, <2>2, Zenon DEF EventTerminate, RegisterCtid, RegisterEventfd, Die, TypeOK, Threads
  <2>13. QED
    BY <2>6, <2>7, <2>8, <2>9, <2>10, <2>11, <2>12, EventSteps, Zenon
<1>6. QED
  BY <1>4, <1>5

\* The worker signals the value it stored, and never sleeps on a forgotten mutex.
LEMMA WorkerKept ==
  ASSUME TypeOK, Threads, Queue, Exclusive, [Next]_vars
  PROVE  /\ worker'.pc # "stuck"
         /\ worker'.pc = "signal" => interrupt_value'[worker'.ctid] = worker'.value
<1> USE DEF driver, user
<1>1. worker.pc # "stuck" /\ (worker.pc = "signal" => interrupt_value[worker.ctid] = worker.value)
  BY DEF Exclusive
<1>2. CASE UNCHANGED <<worker, interrupt_value>>
  BY <1>1, <1>2
<1>3. CASE NotifyTake \/ NotifyLock \/ NotifyDrop \/ NotifySignal
  BY <1>3 DEF NotifyTake, NotifyLock, NotifyDrop, NotifySignal, Idle, TypeOK
<1>4. CASE NotifySet
  <2>1. worker.ctid \in Ctids
    BY <1>4, WorkerItem DEF NotifySet
  <2>2. QED
    BY <1>4, <2>1 DEF NotifySet, ValueStored, TypeOK
<1>5. ASSUME NEW t \in Cthreads, RegisterEventfd(t)
      PROVE  UNCHANGED <<worker, interrupt_value>>
  BY <1>5, NoWaiter, Zenon DEF RegisterEventfd, Exclusive
<1>6. ASSUME NEW t \in Cthreads,
             \/ vfpga_isr(t)
             \/ EventRead(t) \/ EventGetValue(t) \/ EventCall(t) \/ EventProcessed(t)
             \/ EventTerminate(t)
             \/ RegisterCtid(t) \/ UnregisterCtid(t) \/ UnregisterEventfd(t) \/ Join(t) \/ Die(t)
      PROVE  UNCHANGED <<worker, interrupt_value>>
  BY <1>6, Zenon DEF vfpga_isr, EventRead, EventGetValue, EventCall, EventProcessed, EventTerminate,
              RegisterCtid, UnregisterCtid, UnregisterEventfd, Join, Die
<1>7. QED
  BY <1>2, <1>3, <1>4, <1>5, <1>6, NextSteps, Zenon DEF vars

\* Everything that rests on a ctid being given once is kept.
LEMMA ExclusiveKept ==
  ASSUME TypeOK, Threads, Queue, Exclusive, "reuse" \notin env, [Next]_vars
  PROVE  Exclusive'
<1>1. Alone' /\ Notifier' /\ Token'
  BY AloneKept, NotifierKept, TokenKept DEF Exclusive
<1>2. QED
  BY <1>1, FlightKept, HandledKept, PastKept, WorkerKept, Zenon DEF Exclusive
--------------------------------------------------------------------------------
(* Destructors that wait.                                                  *)

\* A destructor that waits starts when nothing is under way for its thread, and
\* nothing is raised for it afterwards.
LEMMA QuietKept ==
  ASSUME TypeOK, Threads, Queue, Exclusive, Quiet, "abrupt" \notin env, [Next]_vars
  PROVE  Quiet'
<1> USE DEF driver, user
<1>1. worker'.pc # "oops"
  <2>1. CASE NotifySignal
    <3> DEFINE t == raised[Done + 1]
    <3>1. /\ t \in Cthreads /\ worker.ctid = ctid[t] /\ main[t] \notin {"new", "registered"}
      BY <2>1, WorkerItem DEF NotifySignal
    <3> HIDE DEF t
    <3>2. main[t] \in {"live", "dead"}
      BY <3>1 DEF Quiet, TypeOK
    <3>3. user_notifier[worker.ctid] # None
      BY <3>1, <3>2, NotificationsAssumption DEF Exclusive, Notifier
    <3>4. QED
      BY <2>1, <3>3 DEF NotifySignal, Idle
  <2>2. CASE ~NotifySignal
    <3>1. worker.pc # "oops"
      BY DEF Quiet
    <3>2. CASE NotifyTake \/ NotifyLock \/ NotifyDrop \/ NotifySet
      BY <3>2 DEF NotifyTake, NotifyLock, NotifyDrop, NotifySet, Idle, TypeOK
    <3>3. ASSUME NEW t \in Cthreads, RegisterEventfd(t)
          PROVE  worker' = worker
      BY <3>3, NoWaiter DEF Exclusive
    <3>4. ASSUME NEW t \in Cthreads,
                 \/ vfpga_isr(t)
                 \/ EventRead(t) \/ EventGetValue(t) \/ EventCall(t) \/ EventProcessed(t)
                 \/ EventTerminate(t) \/ RegisterCtid(t)
                 \/ UnregisterCtid(t) \/ UnregisterEventfd(t) \/ Join(t) \/ Die(t)
          PROVE  worker' = worker
      BY <3>4, Zenon
      DEF vfpga_isr, EventRead, EventGetValue, EventCall, EventProcessed, EventTerminate,
          RegisterCtid, UnregisterCtid, UnregisterEventfd, Join, Die
    <3>5. QED
      BY <2>2, <3>1, <3>2, <3>3, <3>4, NextSteps DEF vars
  <2>3. QED
    BY <2>1, <2>2
<1>2. ASSUME NEW t \in Cthreads, main'[t] \in {"unregistered", "joining", "gone"}
      PROVE  /\ worker'.ctid # ctid'[t]
             /\ \A i \in 1 .. Len(wqueue_notify') : wqueue_notify'[i].ctid # ctid'[t]
  <2>1. CASE main[t] \in {"unregistered", "joining", "gone"}
    <3>1. ctid'[t] = ctid[t] /\ ctid[t] # None
      <4>1. ASSUME NEW u \in Cthreads, RegisterCtid(u)
            PROVE  ctid'[t] = ctid[t]
        BY <2>1, <4>1 DEF RegisterCtid, TypeOK
      <4>2. QED
        BY <2>1, <4>1, CtidsFixed DEF Threads
    <3>2. /\ worker.ctid # ctid[t]
          /\ \A i \in 1 .. Len(wqueue_notify) : wqueue_notify[i].ctid # ctid[t]
      BY <2>1 DEF Quiet
    <3>3. ASSUME NEW u \in Cthreads, vfpga_isr(u)
          PROVE  /\ worker'.ctid # ctid[t]
                 /\ \A i \in 1 .. Len(wqueue_notify') : wqueue_notify'[i].ctid # ctid[t]
      <4>1. ctid[u] # ctid[t] /\ worker' = worker
        BY <2>1, <3>1, <3>3 DEF vfpga_isr, Exclusive, Alone
      <4>2. QED
        BY <3>2, <3>3, <4>1, IsrQueue, Zenon
    <3>4. CASE NotifyTake
      BY <3>1, <3>2, <3>4, TakeQueue, Zenon
    <3>5. CASE UNCHANGED wqueue_notify /\ (worker'.ctid = worker.ctid \/ worker' = Idle)
      BY <3>1, <3>2, <3>5 DEF Idle
    <3>6. CASE NotifyLock \/ NotifyDrop \/ NotifySet \/ NotifySignal
      <4>1. UNCHANGED wqueue_notify /\ (worker'.ctid = worker.ctid \/ worker' = Idle)
        BY <3>6 DEF NotifyLock, NotifyDrop, NotifySet, NotifySignal, TypeOK
      <4>2. QED
        BY <3>5, <4>1
    <3>7. ASSUME NEW u \in Cthreads,
                 \/ EventRead(u) \/ EventGetValue(u) \/ EventCall(u) \/ EventProcessed(u)
                 \/ EventTerminate(u)
                 \/ RegisterCtid(u) \/ RegisterEventfd(u)
                 \/ UnregisterCtid(u) \/ UnregisterEventfd(u) \/ Join(u) \/ Die(u)
          PROVE  UNCHANGED wqueue_notify /\ worker'.ctid = worker.ctid
      BY <3>7, ThreadStepQueue
    <3>8. UNCHANGED vars => UNCHANGED wqueue_notify /\ worker'.ctid = worker.ctid
      BY DEF vars
    <3>9. QED
      BY <3>1, <3>3, <3>4, <3>5, <3>6, <3>7, <3>8, NextSteps, Zenon
  <2>2. CASE main[t] \notin {"unregistered", "joining", "gone"}
    <3>1. UnregisterCtid(t)
      <4>1. main'[t] # main[t]
        BY <1>2, <2>2
      <4>2. ASSUME NEW u \in Cthreads,
                   \/ EventRead(u) \/ EventGetValue(u) \/ EventCall(u) \/ EventProcessed(u)
                   \/ EventTerminate(u) \/ vfpga_isr(u)
            PROVE  main' = main
        BY <4>2 DEF EventRead, EventGetValue, EventCall, EventProcessed, EventTerminate, vfpga_isr
      <4>3. ASSUME NEW u \in Cthreads,
                   \/ RegisterCtid(u) \/ RegisterEventfd(u)
                   \/ UnregisterCtid(u) \/ UnregisterEventfd(u) \/ Join(u) \/ Die(u)
            PROVE  UnregisterCtid(u) /\ u = t
        BY <1>2, <2>2, <4>3
        DEF RegisterCtid, RegisterEventfd, UnregisterCtid, UnregisterEventfd, Join, Die, TypeOK
      <4>4. ASSUME NotifyTake \/ NotifyLock \/ NotifyDrop \/ NotifySet \/ NotifySignal
                     \/ UNCHANGED vars
            PROVE  main' = main
        BY <4>4 DEF NotifyTake, NotifyLock, NotifyDrop, NotifySet, NotifySignal, vars
      <4>5. QED
        BY <4>1, <4>2, <4>3, <4>4, NextSteps
    <3>2. ~Pending(ctid[t]) /\ UNCHANGED <<worker, wqueue_notify, ctid>>
      BY <3>1 DEF UnregisterCtid
    <3>3. DOMAIN wqueue_notify = 1 .. Len(wqueue_notify)
      BY DEF TypeOK
    <3>4. QED
      BY <3>2, <3>3, Zenon DEF Pending
  <2>3. QED
    BY <2>1, <2>2, Zenon
<1>3. QED
  BY <1>1, <1>2, Zenon DEF Quiet

--------------------------------------------------------------------------------
(* The theorems.                                                           *)

\* Before any thread is constructed.
LEMMA InitInv ==
  ASSUME Init
  PROVE  Inv
<1>1. TypeOK
  BY NotificationsAssumption DEF Init, Idle, TypeOK, Item, Mishaps
<1>2. /\ Done = 0 /\ Taken = 0 /\ Len(raised) = 0 /\ Len(wqueue_notify) = 0
      /\ \A t \in Cthreads : Len(delivered[t]) = 0
  <2>1. Len(raised) = 0 /\ Len(wqueue_notify) = 0 /\ worker.pc = "idle"
    BY DEF Init, Idle
  <2>2. \A t \in Cthreads : Len(delivered[t]) = 0
    BY Zenon DEF Init
  <2>3. QED
    BY <2>1, <2>2 DEF Done, Taken
<1>3. Threads /\ Queue
  BY <1>2 DEF Init, Idle, Threads, Queue
<1>4. Values
  BY <1>2 DEF Init, Values
<1>5. Alone /\ Notifier /\ Token
  BY NotificationsAssumption DEF Init, Idle, Alone, Notifier, Token, HoldsMutex, Busy
<1>6. Flight /\ Handled /\ Past
  BY <1>2 DEF Init, Flight, Reading, Handled, Past, Received
<1>7. Exclusive
  BY <1>5, <1>6 DEF Init, Idle, Exclusive
<1>8. Quiet
  BY <1>2 DEF Init, Idle, Quiet
<1>9. QED
  BY <1>1, <1>3, <1>4, <1>7, <1>8, Zenon DEF Inv

\* Every step keeps Inv.
LEMMA NextInv ==
  ASSUME Inv, [Next]_vars
  PROVE  Inv'
<1>1. TypeOK /\ Threads /\ Queue /\ Values
  BY DEF Inv
<1>2. TypeOK' /\ Threads' /\ Queue' /\ Values'
  BY <1>1, TypeKept, ThreadsKept, QueueKept, ValuesKept
<1>3. env' = env
  BY NextSteps, Zenon
  DEF NotifyTake, NotifyLock, NotifyDrop, NotifySet, NotifySignal, vfpga_isr,
      EventRead, EventGetValue, EventCall, EventProcessed, EventTerminate, RegisterCtid,
      RegisterEventfd, UnregisterCtid, UnregisterEventfd, Join, Die, vars
<1>4. ASSUME "reuse" \notin env
      PROVE  Exclusive /\ Exclusive'
  BY <1>1, <1>4, ExclusiveKept DEF Inv
<1>5. ASSUME env \cap {"reuse", "abrupt"} = {}
      PROVE  Quiet'
  <2>1. "reuse" \notin env /\ "abrupt" \notin env
    BY <1>5
  <2>2. Quiet
    BY <1>5, Zenon DEF Inv
  <2>3. QED
    BY <1>1, <1>4, <2>1, <2>2, QuietKept
<1>6. QED
  BY <1>2, <1>3, <1>4, <1>5, Zenon DEF Inv

\* The inductive invariant holds in every behaviour, with any mishaps.
THEOREM Invariance == Spec => []Inv
<1>1. Init => Inv
  BY InitInv
<1>2. Inv /\ [Next]_vars => Inv'
  BY NextInv
<1>3. QED
  BY <1>1, <1>2, PTL DEF Spec

\* The callback of a thread is called with the values raised for it, in order and
\* none left out, and never with an older value after a newer one if ctids are
\* given again: the mutex between vfpga_notify_handler and eventHandler works.
THEOREM CallbacksInOrder == Spec => []DeliveredInOrder
<1>1. Inv => DeliveredInOrder
  BY Zenon DEF Inv, Exclusive, Past, Values, DeliveredInOrder
<1>2. QED
  BY <1>1, Invariance, PTL

\* The handler never signals an eventfd that vfpga_unregister_eventfd forgot, if
\* destructors wait and no ctid is given again.
THEOREM NoForgottenNotifier == Spec => []NoSignalAfterUnregister
<1>1. Inv => NoSignalAfterUnregister
  BY Zenon DEF Inv, Quiet, NoSignalAfterUnregister
<1>2. QED
  BY <1>1, Invariance, PTL
================================================================================
