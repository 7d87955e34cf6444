------------------------------- MODULE CtidTable -------------------------------
(***************************************************************************)
(* The Coyote threads of one vFPGA device, as the driver keeps them: the   *)
(* free list of thread identifiers (ctid), the host process of every ctid, *)
(* the hash map from host processes to their ctids, the buffers mapped for *)
(* a ctid and the count of open files (driver/src/vfpga/vfpga_ops.c and    *)
(* setup_vfpga_devices in driver/src/coyote_setup.c).                      *)
(*                                                                         *)
(* Every cThread of the user library is an actor: it opens the device,     *)
(* registers, maps buffers, unregisters and closes; a process that dies    *)
(* closes without unregistering.  The worker of page faults maps buffers   *)
(* too.  The ioctls run under pid_lock or mmu_lock and are single steps.   *)
(* open and release take no lock: the update of ref_cnt is a load and a    *)
(* store, and release walks the hash map bucket by bucket.                 *)
(* The HMM variant of the driver is not part of this build.                *)
(***************************************************************************)
EXTENDS Integers, Sequences, FiniteSets, Functions

CONSTANTS
  Cthreads,       \* the cThread objects
  HpidOf,         \* the host process of each
  N_CTID_MAX,     \* the number of chunks
  NBuckets,       \* the buckets of hpid_ctid_map
  BucketOf,       \* the bucket a host process hashes to
  Buffers,        \* the virtual addresses a thread maps, each in its own bucket
  Environments    \* the sets of mishaps a behaviour may be exposed to

\* "collide": all processes hash to one bucket, and so do all buffers;
\* "overlap": open and release run concurrently; "full": all ctids are in use;
\* "late": the vFPGA still works for a ctid that was given back, and faults.
Mishaps == {"collide", "overlap", "full", "late"}

Hpids == {HpidOf[t] : t \in Cthreads}

Ctids == 0 .. N_CTID_MAX - 1

Nil == -1

ASSUME CtidAssumption ==
  /\ IsFiniteSet(Cthreads)
  /\ N_CTID_MAX \in Nat \ {0}
  /\ NBuckets \in Nat \ {0}
  /\ HpidOf \in [Cthreads -> Nat]
  /\ BucketOf \in [Hpids -> 0 .. NBuckets - 1]
  /\ Environments \subseteq SUBSET Mishaps

VARIABLES
  state,          \* where each cThread is
  ctid,           \* the ctid it was given
  seen,           \* the ref_cnt it loaded
  cursor,         \* the next bucket of its walk in release
  ref_cnt,        \* the count of open files
  next,           \* ctid_chunks[c].next
  pid_alloc,      \* the head of the free list
  pid_array,      \* ctid -> host process
  chain,          \* hpid_ctid_map: the entries of each bucket, newest first
  ctid_list,      \* the ctid list of each entry
  user_buff_map,  \* ctid -> the buffers mapped for it, newest first
  env             \* the mishaps of this behaviour; never changes

table == <<next, pid_alloc, pid_array, chain, ctid_list, user_buff_map>>

vars == <<state, ctid, seen, cursor, ref_cnt, table, env>>

\* setup_vfpga_devices numbers all chunks but the last, which stays zeroed.
ChunkId(c) == IF c < N_CTID_MAX - 1 THEN c ELSE 0

ChunkNext(c) == IF c < N_CTID_MAX - 1 THEN c + 1 ELSE Nil

\* The number of free chunks: set once, never updated.
num_free_ctid_chunks == N_CTID_MAX

Init ==
  /\ state = [t \in Cthreads |-> "closed"]
  /\ ctid = [t \in Cthreads |-> Nil]
  /\ seen = [t \in Cthreads |-> 0]
  /\ cursor = [t \in Cthreads |-> 0]
  /\ ref_cnt = 0
  /\ next = [c \in Ctids |-> ChunkNext(c)]
  /\ pid_alloc = 0
  /\ pid_array = [c \in Ctids |-> 0]
  /\ chain = [b \in 0 .. NBuckets - 1 |-> << >>]
  /\ ctid_list = [h \in Hpids |-> << >>]
  /\ user_buff_map = [c \in Ctids |-> << >>]
  /\ env \in Environments

Listed == UNION {Range(ctid_list[h]) : h \in Hpids}

\* hash_add in hpid_ctid_map and in user_buff_map
Bucket(hpid) == IF "collide" \in env THEN 0 ELSE BucketOf[hpid]

SameBucket(vaddr, waddr) == "collide" \in env \/ vaddr = waddr

Quiet(t) == \A u \in Cthreads \ {t} : state[u] \notin {"opening", "closing", "releasing"}

--------------------------------------------------------------------------------
(* vfpga_dev_open                                                          *)

OpenLoad(t) ==
  /\ state[t] = "closed"
  /\ "overlap" \in env \/ Quiet(t)
  /\ seen' = [seen EXCEPT ![t] = ref_cnt]
  /\ state' = [state EXCEPT ![t] = "opening"]
  /\ UNCHANGED <<ctid, cursor, ref_cnt, table, env>>

OpenStore(t) ==
  /\ state[t] = "opening"
  /\ ref_cnt' = seen[t] + 1
  /\ seen' = [seen EXCEPT ![t] = 0]
  /\ state' = [state EXCEPT ![t] = "open"]
  /\ UNCHANGED <<ctid, cursor, table, env>>

--------------------------------------------------------------------------------
(* IOCTL_REGISTER_CTID and IOCTL_UNREGISTER_CTID                           *)

\* Mutant: the head of the list is handed out and stays on the list.
HeadStays == pid_alloc

\* The list after its head was handed out.
AfterHead == next[pid_alloc]

Register(t) ==
  /\ state[t] = "open"
  /\ num_free_ctid_chunks # 0
  /\ pid_alloc # Nil
  /\ "full" \in env \/ Cardinality(Listed) < N_CTID_MAX - 1
  /\ LET id == ChunkId(pid_alloc)
         hpid == HpidOf[t]
     IN /\ ctid' = [ctid EXCEPT ![t] = id]
        /\ pid_array' = [pid_array EXCEPT ![id] = hpid]
        /\ chain' = IF ctid_list[hpid] = << >>
                    THEN [chain EXCEPT ![Bucket(hpid)] = <<hpid>> \o @]
                    ELSE chain
        /\ ctid_list' = [ctid_list EXCEPT ![hpid] = Append(@, id)]
  /\ pid_alloc' = AfterHead
  /\ state' = [state EXCEPT ![t] = "registered"]
  /\ UNCHANGED <<seen, cursor, ref_cnt, next, user_buff_map, env>>

Places(list, x) == {i \in DOMAIN list : list[i] = x}

\* What stays of a list when the entries at the other places are deleted.
Select(list, kept) ==
  [k \in 1 .. Cardinality(kept) |->
     list[CHOOSE i \in kept : Cardinality({j \in kept : j <= i}) = k]]

\* Mutant: leftover pages are not unmapped.
PutNothing(buffs, n) == buffs

\* n calls of tlb_put_user_pages_ctid: hash_for_each ends its walk of a bucket when
\* the entry it stands on is deleted, so each call takes the newest entry of every
\* bucket.
PutPages(buffs, n) ==
  LET newer(i) == {j \in 1 .. i - 1 : SameBucket(buffs[j], buffs[i])}
  IN  Select(buffs, {i \in DOMAIN buffs : Cardinality(newer(i)) >= n})

\* The free list after the ctids of the sequence were put back, one by one.
PushedNext(cs) ==
  [c \in Ctids |->
     IF c \notin Range(cs) THEN next[c]
     ELSE LET i == CHOOSE k \in DOMAIN cs : cs[k] = c /\ \A m \in DOMAIN cs : cs[m] = c => m <= k
          IN IF i = 1 THEN pid_alloc ELSE cs[i - 1]]

PushedAlloc(cs) == IF cs = << >> THEN pid_alloc ELSE cs[Len(cs)]

Unregister(t) ==
  /\ state[t] = "registered"
  /\ LET id == ctid[t]
         hpid == pid_array[id]
         list == ctid_list[hpid]
         mine == Select(list, Places(list, id))
         rest == Select(list, DOMAIN list \ Places(list, id))
     IN /\ user_buff_map' = [user_buff_map EXCEPT ![id] = PutPages(@, Len(mine))]
        /\ next' = PushedNext(mine)
        /\ pid_alloc' = PushedAlloc(mine)
        /\ ctid_list' = [ctid_list EXCEPT ![hpid] = rest]
        /\ chain' = IF rest = << >>
                    THEN [chain EXCEPT ![Bucket(hpid)] = Select(@, DOMAIN @ \ Places(@, hpid))]
                    ELSE chain
  /\ state' = [state EXCEPT ![t] = "unregistered"]
  /\ UNCHANGED <<ctid, seen, cursor, ref_cnt, pid_array, env>>

--------------------------------------------------------------------------------
(* The map of buffers: IOCTL_MAP_USER_MEM and IOCTL_UNMAP_USER_MEM, the    *)
(* same for GPU buffers, and the worker of page faults.  The driver does   *)
(* not ask whether a ctid is in use: a cThread passes the one it was given *)
(* and the worker the one that the vFPGA worked for.                       *)

\* hash_add; map_present finds an address that is there, and hipMalloc returns one
\* that is not.
AddBuffer(c) ==
  /\ \E vaddr \in Buffers :
       /\ vaddr \notin Range(user_buff_map[c])
       /\ user_buff_map' = [user_buff_map EXCEPT ![c] = <<vaddr>> \o @]
  /\ UNCHANGED <<state, ctid, seen, cursor, ref_cnt, env>>
  /\ UNCHANGED <<next, pid_alloc, pid_array, chain, ctid_list>>

DeleteBuffer(c) ==
  /\ \E vaddr \in Range(user_buff_map[c]) :
       user_buff_map' = [user_buff_map EXCEPT ![c] = Select(@, DOMAIN @ \ Places(@, vaddr))]
  /\ UNCHANGED <<state, ctid, seen, cursor, ref_cnt, env>>
  /\ UNCHANGED <<next, pid_alloc, pid_array, chain, ctid_list>>

MapUserMem(t) == state[t] = "registered" /\ AddBuffer(ctid[t])

UnmapUserMem(t) == state[t] = "registered" /\ DeleteBuffer(ctid[t])

AttachDmaBuf(t) == state[t] = "registered" /\ AddBuffer(ctid[t])

DetachDmaBuf(t) == state[t] = "registered" /\ DeleteBuffer(ctid[t])

\* A fault of a ctid whose thread is registered or, when the vFPGA did not finish
\* in time, of one that was given back: pid_array still names the process.
PageFault(c) ==
  /\ \/ \E t \in Cthreads : state[t] = "registered" /\ ctid[t] = c
     \/ "late" \in env /\ pid_array[c] # 0
  /\ AddBuffer(c)

--------------------------------------------------------------------------------
(* vfpga_dev_release: the file is closed, by the destructor of the cThread *)
(* after it unregistered, or by the kernel when the process died.          *)

CloseLoad(t) ==
  /\ state[t] \in {"open", "registered", "unregistered"}
  /\ "overlap" \in env \/ Quiet(t)
  /\ seen' = [seen EXCEPT ![t] = ref_cnt]
  /\ state' = [state EXCEPT ![t] = "closing"]
  /\ ctid' = [ctid EXCEPT ![t] = Nil]
  /\ UNCHANGED <<cursor, ref_cnt, table, env>>

LastFile(cnt) == cnt = 0

CloseStore(t) ==
  /\ state[t] = "closing"
  /\ ref_cnt' = seen[t] - 1
  /\ state' = [state EXCEPT ![t] = IF LastFile(seen[t] - 1) THEN "releasing" ELSE "closed"]
  /\ seen' = [seen EXCEPT ![t] = 0]
  /\ UNCHANGED <<ctid, cursor, table, env>>

\* One bucket of the walk: the ctids of its first host process are put back and
\* the entry is deleted, which ends the walk of this bucket.
ReleaseBucket(t) ==
  /\ state[t] = "releasing"
  /\ cursor[t] < NBuckets
  /\ LET entries == chain[cursor[t]]
         list == IF entries = << >> THEN << >> ELSE ctid_list[entries[1]]
     IN /\ user_buff_map' =
             [c \in Ctids |-> PutPages(user_buff_map[c], Cardinality(Places(list, c)))]
        /\ next' = PushedNext(list)
        /\ pid_alloc' = PushedAlloc(list)
        /\ ctid_list' = IF entries = << >> THEN ctid_list
                        ELSE [ctid_list EXCEPT ![entries[1]] = << >>]
        /\ chain' = IF entries = << >> THEN chain
                    ELSE [chain EXCEPT ![cursor[t]] = Tail(@)]
  /\ cursor' = [cursor EXCEPT ![t] = @ + 1]
  /\ UNCHANGED <<state, ctid, seen, ref_cnt, pid_array, env>>

ReleaseDone(t) ==
  /\ state[t] = "releasing"
  /\ cursor[t] = NBuckets
  /\ cursor' = [cursor EXCEPT ![t] = 0]
  /\ state' = [state EXCEPT ![t] = "closed"]
  /\ UNCHANGED <<ctid, seen, ref_cnt, table, env>>

Next ==
  \/ \E t \in Cthreads :
       \/ OpenLoad(t) \/ OpenStore(t)
       \/ Register(t) \/ Unregister(t)
       \/ MapUserMem(t) \/ UnmapUserMem(t)
       \/ AttachDmaBuf(t) \/ DetachDmaBuf(t)
       \/ CloseLoad(t) \/ CloseStore(t)
       \/ ReleaseBucket(t) \/ ReleaseDone(t)
  \/ \E c \in Ctids : PageFault(c)

Spec == Init /\ [][Next]_vars

--------------------------------------------------------------------------------
(* Properties.                                                             *)

\* s is the free list: pid_alloc and the next pointers lead through it to its end.
FreeList(s) ==
  /\ pid_alloc = IF s = << >> THEN Nil ELSE s[1]
  /\ \A i \in DOMAIN s : next[s[i]] = IF i = Len(s) THEN Nil ELSE s[i + 1]

\* "Each vFPGA can have multiple Coyote threads registered, which are
\* identified by a unique Coyote thread ID": no two registered threads share
\* a ctid, and none is lost or could be given out twice: every ctid is either
\* once on the free list or once on the list of one process, at every moment,
\* through any sequence of registrations, deaths and releases.
UniqueCtids ==
  env \cap {"overlap", "full"} = {} =>
    /\ \A t, u \in Cthreads :
         t # u /\ state[t] = "registered" /\ state[u] = "registered" => ctid[t] # ctid[u]
    /\ \A h \in Hpids : IsInjective(ctid_list[h])
    /\ \A g, h \in Hpids : g # h => Range(ctid_list[g]) \cap Range(ctid_list[h]) = {}
    /\ \E n \in 0 .. N_CTID_MAX : \E s \in Injection(1 .. n, Ctids) :
         FreeList(s) /\ Range(s) = Ctids \ Listed

\* "Traverse all Coyote threads for this vFPGA device and free their
\* resources": when the last file is closed no ctid is in use, also when the
\* vFPGA works on; it fails when processes collide, since the walk misses them.
\* "Unmap any leftover user pages for this Coyote thread": while besides the
\* vFPGA finishes before its thread unregisters, buffers are mapped only for a
\* ctid in use, so no thread starts with the buffers of the one that had its
\* ctid before.  A later page fault maps a buffer that nobody takes down.
NothingStale ==
  /\ env \subseteq {"late"} =>
       ((\A t \in Cthreads : state[t] = "closed") => Listed = {})
  /\ env = {} => \A c \in Ctids : user_buff_map[c] # << >> => c \in Listed
================================================================================
