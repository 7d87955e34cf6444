----------------------------- MODULE Notifications -----------------------------
(***************************************************************************)
(* User interrupts (notifications), from the interrupt of a vFPGA to the   *)
(* callback of a cThread: vfpga_isr and vfpga_notify_handler               *)
(* (driver/src/vfpga/vfpga_isr.c), the eventfds (vfpga_uisr.c), the two    *)
(* ioctls on notification values (vfpga_ops.c), and eventHandler, the      *)
(* constructor and the destructor of cThread (sw/src/cThread.cpp).         *)
(*                                                                         *)
(* Actors: the vFPGA; the worker of wqueue_notify, a workqueue that runs   *)
(* one item at a time; and for every cThread its main thread and its event *)
(* thread.  user_notifier_lock[ctid] is taken by the worker and released   *)
(* by the event thread, from user space.  The identifiers of the threads   *)
(* come from module CtidTable; here any ctid that is free may be given.    *)
(***************************************************************************)
EXTENDS Integers, Sequences

CONSTANTS
  Cthreads,    \* cThread objects with a callback, each constructed once
  Ctids,
  None,
  MaxNotify,   \* bound on the notifications the vFPGA raises
  Environments \* the sets of mishaps a behaviour may be exposed to

\* What may happen beyond the calm use of the interface: "reuse", a ctid is
\* given to a second thread; "abrupt", a destructor starts although
\* notifications of its thread are under way; "death", a process dies.
Mishaps == {"reuse", "abrupt", "death"}

ASSUME NotificationsAssumption ==
  /\ None \notin Cthreads \cup Ctids
  /\ MaxNotify \in Nat
  /\ Environments \subseteq SUBSET Mishaps

VARIABLES
  main,             \* where the main thread of each cThread is
  ctid,             \* its ctid
  event_thread,     \* where its event thread is
  efd,              \* the counter of its eventfd
  terminate_efd,    \* its termination event
  isr_val,          \* the value its event thread read
  user_notifier,    \* ctid -> the cThread whose eventfd is registered
  user_notifier_lock,  \* ctid -> whether the mutex is held
  interrupt_value,  \* ctid -> the value of the last notification
  wqueue_notify,    \* the items waiting in the workqueue
  worker,           \* where the worker is, and with which item
  raised,           \* history: the recipient of each notification raised
  delivered,        \* history: the values each callback was called with
  env               \* the mishaps of this behaviour; never changes

driver == <<user_notifier, user_notifier_lock, interrupt_value, wqueue_notify, worker>>
user == <<main, ctid, event_thread, efd, terminate_efd, isr_val, delivered>>
vars == <<driver, user, raised, env>>

Idle == [pc |-> "idle", ctid |-> None, value |-> 0]

Init ==
  /\ main = [t \in Cthreads |-> "new"]
  /\ ctid = [t \in Cthreads |-> None]
  /\ event_thread = [t \in Cthreads |-> "off"]
  /\ efd = [t \in Cthreads |-> 0]
  /\ terminate_efd = [t \in Cthreads |-> FALSE]
  /\ isr_val = [t \in Cthreads |-> 0]
  /\ user_notifier = [c \in Ctids |-> None]
  /\ user_notifier_lock = [c \in Ctids |-> FALSE]
  /\ interrupt_value = [c \in Ctids |-> 0]
  /\ wqueue_notify = << >>
  /\ worker = Idle
  /\ raised = << >>
  /\ delivered = [t \in Cthreads |-> << >>]
  /\ env \in Environments

\* The thread that holds a ctid: from its registration until it is unregistered,
\* or for good if the process died and others keep the device open.
Holds(t, c) == ctid[t] = c /\ main[t] \in {"registered", "live", "dead"}

Pending(c) ==
  \/ \E i \in DOMAIN wqueue_notify : wqueue_notify[i].ctid = c
  \/ worker.ctid = c
  \/ user_notifier_lock[c]

--------------------------------------------------------------------------------
(* The interrupt: the vFPGA raises a notification for a live thread and    *)
(* vfpga_isr queues it.  Values are numbered.                              *)

\* Mutant: a later interrupt overtakes the ones that wait.
QueueFront(item) == <<item>> \o wqueue_notify

queue_work(item) == Append(wqueue_notify, item)

vfpga_isr(t) ==
  /\ main[t] = "live"
  /\ Len(raised) < MaxNotify
  /\ raised' = Append(raised, t)
  /\ wqueue_notify' = queue_work([ctid |-> ctid[t], value |-> Len(raised) + 1])
  /\ UNCHANGED <<user, user_notifier, user_notifier_lock, interrupt_value, worker, env>>

--------------------------------------------------------------------------------
(* vfpga_notify_handler, run by the worker.                                *)

NotifyTake ==
  /\ worker.pc = "idle"
  /\ wqueue_notify # << >>
  /\ worker' = [pc |-> "locking", ctid |-> Head(wqueue_notify).ctid,
                value |-> Head(wqueue_notify).value]
  /\ wqueue_notify' = Tail(wqueue_notify)
  /\ UNCHANGED <<user, user_notifier, user_notifier_lock, interrupt_value, raised, env>>

MutexFree(c) == ~user_notifier_lock[c]

NotifyLock ==
  /\ worker.pc = "locking"
  /\ MutexFree(worker.ctid)
  /\ user_notifier_lock' = [user_notifier_lock EXCEPT ![worker.ctid] = TRUE]
  /\ worker' = [worker EXCEPT !.pc = "check"]
  /\ UNCHANGED <<user, user_notifier, interrupt_value, wqueue_notify, raised, env>>

DropUnlocks(c) == [user_notifier_lock EXCEPT ![c] = FALSE]

\* No recipient: the notification is dropped and the mutex released.
NotifyDrop ==
  /\ worker.pc = "check"
  /\ user_notifier[worker.ctid] = None
  /\ user_notifier_lock' = DropUnlocks(worker.ctid)
  /\ worker' = Idle
  /\ UNCHANGED <<user, user_notifier, interrupt_value, wqueue_notify, raised, env>>

ValueStored(c, value) == [interrupt_value EXCEPT ![c] = value]

\* The recipient was there when it was checked; the value is set.
NotifySet ==
  /\ worker.pc = "check"
  /\ user_notifier[worker.ctid] # None
  /\ interrupt_value' = ValueStored(worker.ctid, worker.value)
  /\ worker' = [worker EXCEPT !.pc = "signal"]
  /\ UNCHANGED <<user, user_notifier, user_notifier_lock, wqueue_notify, raised, env>>

\* eventfd_signal on the pointer as it is now; a null pointer ends the worker.
NotifySignal ==
  /\ worker.pc = "signal"
  /\ LET t == user_notifier[worker.ctid]
     IN IF t = None
        THEN worker' = [worker EXCEPT !.pc = "oops"] /\ efd' = efd
        ELSE worker' = Idle /\ efd' = [efd EXCEPT ![t] = @ + 1]
  /\ UNCHANGED <<main, ctid, event_thread, terminate_efd, isr_val, delivered,
                 user_notifier, user_notifier_lock, interrupt_value, wqueue_notify, raised, env>>

--------------------------------------------------------------------------------
(* eventHandler, the event thread of a cThread.                            *)

\* epoll_wait reports the eventfd; eventfd_read resets its counter.
EventRead(t) ==
  /\ event_thread[t] = "wait"
  /\ efd[t] > 0
  /\ efd' = [efd EXCEPT ![t] = 0]
  /\ event_thread' = [event_thread EXCEPT ![t] = "read"]
  /\ UNCHANGED <<driver, main, ctid, terminate_efd, isr_val, raised, delivered, env>>

\* IOCTL_GET_NOTIFICATION_VALUE
EventGetValue(t) ==
  /\ event_thread[t] = "read"
  /\ isr_val' = [isr_val EXCEPT ![t] = interrupt_value[ctid[t]]]
  /\ event_thread' = [event_thread EXCEPT ![t] = "call"]
  /\ UNCHANGED <<driver, main, ctid, efd, terminate_efd, raised, delivered, env>>

\* The callback.
EventCall(t) ==
  /\ event_thread[t] = "call"
  /\ delivered' = [delivered EXCEPT ![t] = Append(@, isr_val[t])]
  /\ event_thread' = [event_thread EXCEPT ![t] = "called"]
  /\ UNCHANGED <<driver, main, ctid, efd, terminate_efd, isr_val, raised, env>>

\* Mutant: the notification is not marked as processed.
NotProcessed(c) == user_notifier_lock

\* IOCTL_SET_NOTIFICATION_PROCESSED: mutex_unlock, whoever holds it.
SetProcessed(c) == [user_notifier_lock EXCEPT ![c] = FALSE]

EventProcessed(t) ==
  /\ event_thread[t] = "called"
  /\ user_notifier_lock' = SetProcessed(ctid[t])
  /\ event_thread' = [event_thread EXCEPT ![t] = "wait"]
  /\ UNCHANGED <<main, ctid, efd, terminate_efd, isr_val, delivered,
                 user_notifier, interrupt_value, wqueue_notify, worker, raised, env>>

\* The termination event: an eventfd that is ready is reported with it and
\* handled first or in the same round.
EventTerminate(t) ==
  /\ event_thread[t] = "wait"
  /\ terminate_efd[t]
  /\ efd[t] = 0
  /\ event_thread' = [event_thread EXCEPT ![t] = "off"]
  /\ UNCHANGED <<driver, main, ctid, efd, terminate_efd, isr_val, raised, delivered, env>>

EventThread(t) ==
  \/ EventRead(t) \/ EventGetValue(t) \/ EventCall(t) \/ EventProcessed(t)
  \/ EventTerminate(t)

--------------------------------------------------------------------------------
(* The constructor and the destructor of cThread.                          *)

\* IOCTL_REGISTER_CTID
RegisterCtid(t) ==
  /\ main[t] = "new"
  /\ \E c \in Ctids :
       /\ \A u \in Cthreads : ~Holds(u, c)
       /\ "reuse" \notin env => \A u \in Cthreads : ctid[u] # c
       /\ ctid' = [ctid EXCEPT ![t] = c]
  /\ main' = [main EXCEPT ![t] = "registered"]
  /\ UNCHANGED <<driver, event_thread, efd, terminate_efd, isr_val, raised, delivered, env>>

\* The event thread starts, then vfpga_register_eventfd.  mutex_init on a mutex
\* the worker waits for forgets the waiter, which may then sleep for good.
RegisterEventfd(t) ==
  /\ main[t] = "registered"
  /\ event_thread' = [event_thread EXCEPT ![t] = "wait"]
  /\ user_notifier' = [user_notifier EXCEPT ![ctid[t]] = t]
  /\ user_notifier_lock' = [user_notifier_lock EXCEPT ![ctid[t]] = FALSE]
  /\ worker' \in
       IF worker.pc = "locking" /\ worker.ctid = ctid[t] /\ user_notifier_lock[ctid[t]]
       THEN {worker, [worker EXCEPT !.pc = "stuck"]} ELSE {worker}
  /\ main' = [main EXCEPT ![t] = "live"]
  /\ UNCHANGED <<ctid, efd, terminate_efd, isr_val, delivered,
                 interrupt_value, wqueue_notify, raised, env>>

\* The destructor, first half: IOCTL_UNREGISTER_CTID.
UnregisterCtid(t) ==
  /\ main[t] = "live"
  /\ "abrupt" \in env \/ ~Pending(ctid[t])
  /\ main' = [main EXCEPT ![t] = "unregistered"]
  /\ UNCHANGED <<driver, ctid, event_thread, efd, terminate_efd, isr_val, raised, delivered, env>>

\* Mutant: the eventfds of all threads are forgotten.
AllForgotten(c) == [d \in Ctids |-> None]

\* vfpga_unregister_eventfd
Forgotten(c) == [user_notifier EXCEPT ![c] = None]

\* Mutant: the event thread is not told to end.
NotTold(t) == terminate_efd

\* eventfd_write(terminate_efd, 1)
Told(t) == [terminate_efd EXCEPT ![t] = TRUE]

\* IOCTL_UNREGISTER_EVENTFD, then the termination event.
UnregisterEventfd(t) ==
  /\ main[t] = "unregistered"
  /\ user_notifier' = Forgotten(ctid[t])
  /\ terminate_efd' = Told(t)
  /\ main' = [main EXCEPT ![t] = "joining"]
  /\ UNCHANGED <<ctid, event_thread, efd, isr_val, delivered,
                 user_notifier_lock, interrupt_value, wqueue_notify, worker, raised, env>>

\* join, close, and a last IOCTL_SET_NOTIFICATION_PROCESSED.
Join(t) ==
  /\ main[t] = "joining"
  /\ event_thread[t] = "off"
  /\ user_notifier_lock' = SetProcessed(ctid[t])
  /\ main' = [main EXCEPT ![t] = "gone"]
  /\ UNCHANGED <<ctid, event_thread, efd, terminate_efd, isr_val, delivered,
                 user_notifier, interrupt_value, wqueue_notify, worker, raised, env>>

\* The process dies: vfpga_dev_release closes the file, and while other files
\* are open neither the ctid nor the eventfd nor the mutex is given back.
Die(t) ==
  /\ "death" \in env
  /\ main[t] = "live"
  /\ \E u \in Cthreads \ {t} : main[u] = "live"
  /\ main' = [main EXCEPT ![t] = "dead"]
  /\ event_thread' = [event_thread EXCEPT ![t] = "off"]
  /\ UNCHANGED <<driver, ctid, efd, terminate_efd, isr_val, raised, delivered, env>>

Worker == NotifyTake \/ NotifyLock \/ NotifyDrop \/ NotifySet \/ NotifySignal

Destructor(t) == UnregisterCtid(t) \/ UnregisterEventfd(t) \/ Join(t)

Next ==
  \/ Worker
  \/ \E t \in Cthreads :
       \/ vfpga_isr(t)
       \/ EventThread(t)
       \/ RegisterCtid(t) \/ RegisterEventfd(t)
       \/ Destructor(t)
       \/ Die(t)

Spec == Init /\ [][Next]_vars

\* The kernel runs the worker, the callbacks return, and a destructor that
\* has started goes on.
FairSpec ==
  /\ Spec
  /\ WF_vars(Worker)
  /\ \A t \in Cthreads :
       WF_vars(EventThread(t)) /\ WF_vars(UnregisterEventfd(t) \/ Join(t))

--------------------------------------------------------------------------------
(* Properties.                                                             *)

\* The sequence s of values is the beginning of what was raised for t: each of its
\* values was, they increase, and none raised before one of them is missing.
Received(t, s) ==
  /\ \A i \in 1 .. Len(s) : s[i] \in 1 .. Len(raised) /\ raised[s[i]] = t
  /\ \A i, j \in 1 .. Len(s) : i < j => s[i] < s[j]
  /\ \A v \in 1 .. Len(raised), i \in 1 .. Len(s) :
       raised[v] = t /\ v < s[i] => \E j \in 1 .. Len(s) : s[j] = v

\* "a mutex (to prevent some interrupts being dropped)": the callback of a
\* thread sees every value raised for it, in order, none twice and none of
\* another thread, although interrupt_value holds only the last one.  Destructors
\* and deaths at any moment do not change this; a ctid given again does, and even
\* then a callback is never called with an older value after a newer one.
DeliveredInOrder ==
  \A t \in Cthreads :
    /\ "reuse" \notin env => Received(t, delivered[t])
    /\ \A i, j \in 1 .. Len(delivered[t]) : i < j => delivered[t][i] <= delivered[t][j]

\* "the mutex is locked, avoiding race conditions until the interrupt has been
\* handled": the handler never signals a notifier that was unregistered, if
\* destructors wait until the notifications of their thread are handled.
NoSignalAfterUnregister ==
  env \cap {"reuse", "abrupt"} = {} => worker.pc # "oops"

\* Without mishaps every notification raised for a thread reaches its callback.
EveryNotificationDelivered ==
  \A t \in Cthreads, v \in 1 .. MaxNotify :
    (env = {} /\ v \in DOMAIN raised /\ raised[v] = t) ~>
      (\E i \in DOMAIN delivered[t] : delivered[t][i] = v)

\* A destructor that has started ends, whatever is under way and whoever dies.
DestructorEnds == \A t \in Cthreads : main[t] = "unregistered" ~> main[t] = "gone"
================================================================================
