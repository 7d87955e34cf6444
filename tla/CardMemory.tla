------------------------------ MODULE CardMemory -------------------------------
(***************************************************************************)
(* The allocator of card memory: alloc_card_memory and free_card_memory    *)
(* (driver/src/vfpga/vfpga_hw.c) on the partitions that                    *)
(* allocate_card_resources sets up (driver/src/coyote_setup.c).            *)
(*                                                                         *)
(* A block is a ring of N chunks: next never changes, alloc points to the  *)
(* chunk the next allocation starts at.  Regular and huge pages have       *)
(* blocks of their own handled by the same code; one kind is modelled.     *)
(* Callers are contexts of the driver (ioctls and page faults of any       *)
(* vFPGA); they choose a block before they take card_lock.                 *)
(***************************************************************************)
EXTENDS Integers, Sequences, FiniteSets

CONSTANTS
  Callers,      \* concurrent calls into the driver
  N_MEM_BLOCKS,
  N,            \* chunks in a block
  MaxPages,     \* bound on the pages of one buffer
  MaxBuffers,   \* bound on the buffers at any time
  Environments  \* how the allocator is used in a behaviour: sets of Habits

Blocks == 0 .. N_MEM_BLOCKS - 1

Chunks == 0 .. N - 1

AnyBlock == -1

\* Buffers are freed in another order than the reverse of their allocation;
\* callers name the block (mem_block # -1).
Habits == {"any order", "named block"}

ASSUME CardAssumption ==
  /\ N_MEM_BLOCKS \in Nat \ {0}
  /\ N \in Nat \ {0}
  /\ MaxPages \in Nat
  /\ MaxBuffers \in Nat
  /\ Environments \subseteq SUBSET Habits

VARIABLES
  env,          \* how the allocator is used in this behaviour
  alloc,        \* block -> the chunk the next allocation starts at
  used,         \* block -> the chunks marked as used
  free_chunks,  \* block -> the count of free chunks
  card_lock,    \* whether the spinlock is held by a call that has returned
  pc,           \* where each caller is
  wanted,       \* the block and the number of pages each caller asks for
  buffers       \* the buffers allocated, in order: a block and its chunks

vars == <<env, alloc, used, free_chunks, card_lock, pc, wanted, buffers>>

Nothing == [block |-> AnyBlock, n_pages |-> 0]

Init ==
  /\ env \in Environments
  /\ alloc = [b \in Blocks |-> 0]
  /\ used = [b \in Blocks |-> {}]
  /\ free_chunks = [b \in Blocks |-> N]
  /\ card_lock = FALSE
  /\ pc = [p \in Callers |-> "idle"]
  /\ wanted = [p \in Callers |-> Nothing]
  /\ buffers = << >>

--------------------------------------------------------------------------------
(* alloc_card_memory                                                       *)

\* The test of a block, without the lock; "more than" what is needed.
HasSpace(b, n_pages) == free_chunks[b] > n_pages

FirstOf(S) == CHOOSE b \in S : \A c \in S : b <= c

\* A block is chosen, or the one the user named is taken.
AllocChoose(p) ==
  /\ pc[p] = "idle"
  /\ \E n_pages \in 1 .. MaxPages,
        mem_block \in IF "named block" \in env THEN Blocks ELSE {AnyBlock} :
       LET room == {b \in Blocks : HasSpace(b, n_pages)}
           target_block == IF mem_block # AnyBlock THEN mem_block ELSE FirstOf(room)
       IN /\ mem_block # AnyBlock \/ room # {}
          /\ wanted' = [wanted EXCEPT ![p] = [block |-> target_block, n_pages |-> n_pages]]
  /\ pc' = [pc EXCEPT ![p] = "chosen"]
  /\ UNCHANGED <<env, alloc, used, free_chunks, card_lock, buffers>>

\* The block named does not exist: -EINVAL; or no block has the space: -ENOMEM.
\* Nothing changes.
AllocNoBlock(p) ==
  /\ pc[p] = "idle"
  /\ \E n_pages \in 1 .. MaxPages,
        mem_block \in IF "named block" \in env THEN {N_MEM_BLOCKS} ELSE {AnyBlock} :
       /\ mem_block = AnyBlock => \A b \in Blocks : ~HasSpace(b, n_pages)
       /\ wanted' = [wanted EXCEPT ![p] = [block |-> AnyBlock, n_pages |-> n_pages]]
  /\ pc' = [pc EXCEPT ![p] = "refused"]
  /\ UNCHANGED <<env, alloc, used, free_chunks, card_lock, buffers>>

\* The chunks an allocation walks over.
Taken(b, n_pages) == {(alloc[b] + i) % N : i \in 0 .. n_pages - 1}

Counted(n_pages) == n_pages

\* Mutant: alloc stays at the chunks it handed out.
NotAdvanced(b, n_pages) == alloc[b]

Advanced(b, n_pages) == (alloc[b] + n_pages) % N

Enough(b, n_pages) == free_chunks[b] >= n_pages

AllocTake(p) ==
  /\ pc[p] = "chosen"
  /\ ~card_lock
  /\ Len(buffers) < MaxBuffers
  /\ LET b == wanted[p].block
         n_pages == wanted[p].n_pages
     IN /\ Enough(b, n_pages)
        /\ used' = [used EXCEPT ![b] = @ \cup Taken(b, n_pages)]
        /\ free_chunks' = [free_chunks EXCEPT ![b] = @ - Counted(n_pages)]
        /\ alloc' = [alloc EXCEPT ![b] = Advanced(b, n_pages)]
        /\ buffers' = Append(buffers, [block |-> b, first |-> alloc[b], n_pages |-> n_pages])
  /\ pc' = [pc EXCEPT ![p] = "idle"]
  /\ wanted' = [wanted EXCEPT ![p] = Nothing]
  /\ UNCHANGED <<env, card_lock>>

\* The space went to another caller in the meantime: -ENOMEM is returned with
\* card_lock held.
AllocShort(p) ==
  /\ pc[p] = "chosen"
  /\ ~card_lock
  /\ ~Enough(wanted[p].block, wanted[p].n_pages)
  /\ card_lock' = TRUE
  /\ pc' = [pc EXCEPT ![p] = "refused"]
  /\ UNCHANGED <<env, alloc, used, free_chunks, wanted, buffers>>

\* The caller reports the failure to its own caller.
Refused(p) ==
  /\ pc[p] = "refused"
  /\ pc' = [pc EXCEPT ![p] = "idle"]
  /\ wanted' = [wanted EXCEPT ![p] = Nothing]
  /\ UNCHANGED <<env, alloc, used, free_chunks, card_lock, buffers>>

--------------------------------------------------------------------------------
(* free_card_memory                                                        *)

Page(buff, i) == (buff.first + i) % N

Pages(buff) == {Page(buff, i) : i \in 0 .. buff.n_pages - 1}

\* The pages of a buffer that are marked as used.
Freed(buff) == Pages(buff) \cap used[buff.block]

\* The pages are freed from the last to the first, alloc follows.
AllocAfter(buff) ==
  LET marked == {i \in 0 .. buff.n_pages - 1 : Page(buff, i) \in used[buff.block]}
  IN  IF marked = {} THEN alloc[buff.block] ELSE Page(buff, FirstOf(marked))

Remove(s, k) == SubSeq(s, 1, k - 1) \o SubSeq(s, k + 1, Len(s))

Free(k) ==
  /\ k \in DOMAIN buffers
  /\ k # Len(buffers) => "any order" \in env
  /\ ~card_lock
  /\ LET buff == buffers[k]
     IN /\ used' = [used EXCEPT ![buff.block] = @ \ Pages(buff)]
        /\ free_chunks' = [free_chunks EXCEPT ![buff.block] = @ + Cardinality(Freed(buff))]
        /\ alloc' = [alloc EXCEPT ![buff.block] = AllocAfter(buff)]
  /\ buffers' = Remove(buffers, k)
  /\ UNCHANGED <<env, card_lock, pc, wanted>>

Next ==
  \/ \E p \in Callers :
       AllocChoose(p) \/ AllocNoBlock(p) \/ AllocTake(p) \/ AllocShort(p) \/ Refused(p)
  \/ \E k \in 1 .. MaxBuffers : Free(k)

Spec == Init /\ [][Next]_vars

--------------------------------------------------------------------------------
(* Properties.                                                             *)

\* "Obtain the next available physical address": no chunk is part of two
\* buffers at the same time, the chunks of the buffers are the ones marked as
\* used, and the count of free chunks is right.  That is so as long as buffers
\* are freed last in, first out, whichever call gets card_lock first and
\* wherever the ring wraps around; in whatever order buffers come and go, the
\* count never promises more chunks than are unmarked.
NoOverlap ==
  \A b \in Blocks :
    LET here == {i \in DOMAIN buffers : buffers[i].block = b}
    IN  /\ "any order" \notin env =>
             /\ \A i, j \in here : i # j => Pages(buffers[i]) \cap Pages(buffers[j]) = {}
             /\ used[b] = UNION {Pages(buffers[i]) : i \in here}
             /\ free_chunks[b] = N - Cardinality(used[b])
        /\ free_chunks[b] + Cardinality(used[b]) <= N
================================================================================
