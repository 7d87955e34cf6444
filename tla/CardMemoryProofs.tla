---------------------------- MODULE CardMemoryProofs ---------------------------
(***************************************************************************)
(* Proofs about CardMemory, for any number of callers, blocks and chunks.  *)
(*                                                                         *)
(* While buffers are freed last in, first out, the chunks in use are those *)
(* below the fill level N - free_chunks: every allocation starts at the    *)
(* level and every free lowers it to where the buffer starts.  In any      *)
(* other order only the count can be relied on.                            *)
(***************************************************************************)
EXTENDS CardMemory, FiniteSetTheorems, NaturalsInduction, WellFoundedInduction, TLAPS

Buffer == [block : Blocks, first : Chunks, n_pages : 1 .. MaxPages]

TypeOK ==
  /\ env \subseteq Habits
  /\ alloc \in [Blocks -> Chunks]
  /\ used \in [Blocks -> SUBSET Chunks]
  /\ free_chunks \in [Blocks -> Nat]
  /\ card_lock \in BOOLEAN
  /\ pc \in [Callers -> {"idle", "chosen", "refused"}]
  /\ wanted \in [Callers -> [block : Blocks \cup {AnyBlock}, n_pages : 0 .. MaxPages]]
  /\ buffers \in Seq(Buffer)

\* A caller on its way to card_lock has a block and a positive number of pages.
Asking ==
  \A p \in Callers :
    pc[p] = "chosen" => wanted[p].block \in Blocks /\ wanted[p].n_pages \in 1 .. MaxPages

\* No more chunks are counted as free than are unmarked.
Count == \A b \in Blocks : free_chunks[b] + Cardinality(used[b]) <= N

End(buff) == buff.first + buff.n_pages

\* The buffers of block b, in the order of s, fill it up to the level.
Stacked(s, b, level) ==
  /\ \A i \in 1 .. Len(s) : s[i].block = b => End(s[i]) <= level
  /\ \A i, j \in 1 .. Len(s) :
       s[i].block = b /\ s[j].block = b /\ i < j => End(s[i]) <= s[j].first
  /\ \A x \in 0 .. level - 1 :
       \E i \in 1 .. Len(s) : s[i].block = b /\ s[i].first <= x /\ x < End(s[i])

\* Block b with count chunks free, marked ones in use, the next allocation at next.
Filled(s, b, count, marked, next) ==
  /\ count <= N
  /\ marked = 0 .. N - count - 1
  /\ next = IF count = 0 THEN 0 ELSE N - count
  /\ Stacked(s, b, N - count)

Stack ==
  "any order" \notin env =>
    \A b \in Blocks : Filled(buffers, b, free_chunks[b], used[b], alloc[b])

Inv == TypeOK /\ Asking /\ Count /\ Stack
--------------------------------------------------------------------------------
(* Arithmetic of the ring, sequences and least elements.                   *)

\* Positions below N are chunks, N is chunk 0 again.
LEMMA ModRange ==
  ASSUME NEW n \in Nat \ {0}, NEW x \in Nat
  PROVE  /\ x % n \in 0 .. n - 1
         /\ x < n => x % n = x
         /\ x = n => x % n = 0
  OBVIOUS

\* The block and the page the loops take is the first that fits.
LEMMA FirstOfProperties ==
  ASSUME NEW S, S \subseteq Nat, S # {}
  PROVE  FirstOf(S) \in S /\ \A j \in S : FirstOf(S) <= j
<1> DEFINE R == {ss \in Nat \X Nat : ss[1] < ss[2]}
<1>1. IsWellFoundedOn(R, Nat)
  BY NatLessThanWellFounded DEF OpToRel
<1>2. PICK x \in S : \A y \in S : ~(<<y, x>> \in R)
  BY <1>1, WFMin, Zenon
<1>3. \A y \in S : x <= y
  <2> SUFFICES ASSUME NEW y \in S PROVE x <= y
    OBVIOUS
  <2>1. x \in Nat /\ y \in Nat
    OBVIOUS
  <2>2. y < x => <<y, x>> \in R
    BY <2>1
  <2>3. QED
    BY <1>2, <2>1, <2>2
<1>4. QED
  BY <1>2, <1>3, Zenon DEF FirstOf

\* Removing a buffer leaves a sequence of buffers; removing the last one leaves
\* the others where they were.
LEMMA RemoveProperties ==
  ASSUME NEW S, NEW s \in Seq(S), NEW k \in 1 .. Len(s)
  PROVE  /\ Remove(s, k) \in Seq(S)
         /\ k = Len(s) => /\ Len(Remove(s, k)) = Len(s) - 1
                          /\ \A i \in 1 .. Len(s) - 1 : Remove(s, k)[i] = s[i]
<1> DEFINE left == SubSeq(s, 1, k - 1)
           right == SubSeq(s, k + 1, Len(s))
<1>1. left \in Seq(S) /\ Len(left) = k - 1 /\ \A i \in 1 .. k - 1 : left[i] = s[i]
  OBVIOUS
<1>2. right \in Seq(S) /\ Len(right) = Len(s) - k
  OBVIOUS
<1> HIDE DEF left, right
<1>3. /\ left \o right \in Seq(S)
      /\ Len(left \o right) = Len(left) + Len(right)
      /\ \A i \in 1 .. Len(left) : (left \o right)[i] = left[i]
  BY <1>1, <1>2
<1>4. Remove(s, k) = left \o right
  BY DEF Remove, left, right
<1>5. QED
  BY <1>1, <1>2, <1>3, <1>4

\* Adding a buffer leaves the others where they were.
LEMMA AppendProperties ==
  ASSUME NEW S, NEW s \in Seq(S), NEW x \in S
  PROVE  /\ Append(s, x) \in Seq(S)
         /\ Len(Append(s, x)) = Len(s) + 1
         /\ \A i \in 1 .. Len(s) : Append(s, x)[i] = s[i]
         /\ Append(s, x)[Len(s) + 1] = x
  OBVIOUS
--------------------------------------------------------------------------------
(* The pages of a buffer.                                                  *)

\* A buffer of a sequence of buffers starts at a chunk and is not empty.
LEMMA BufferNumbers ==
  ASSUME NEW s \in Seq(Buffer), NEW i \in 1 .. Len(s)
  PROVE  s[i].first \in Nat /\ s[i].n_pages \in Nat \ {0}
<1>1. s[i] \in Buffer
  OBVIOUS
<1>2. QED
  BY <1>1, CardAssumption DEF Buffer, Chunks

\* The chunks of a buffer are chunks, no more than it has pages.
LEMMA PagesBound ==
  ASSUME NEW buff \in Buffer
  PROVE  /\ Pages(buff) \subseteq Chunks
         /\ IsFiniteSet(Pages(buff))
         /\ Cardinality(Pages(buff)) <= buff.n_pages
<1>1. N \in Nat \ {0} /\ buff.first \in Nat /\ buff.n_pages \in Nat
  BY CardAssumption DEF Buffer, Chunks
<1>2. Pages(buff) \subseteq Chunks
  <2> SUFFICES ASSUME NEW i \in 0 .. buff.n_pages - 1
               PROVE  Page(buff, i) \in Chunks
    BY DEF Pages
  <2>1. buff.first + i \in Nat
    BY <1>1
  <2>2. QED
    BY <1>1, <2>1, ModRange, Zenon DEF Page, Chunks
<1>3. ExistsSurjection(1 .. buff.n_pages, Pages(buff))
  <2> DEFINE f == [i \in 1 .. buff.n_pages |-> Page(buff, i - 1)]
  <2>1. f \in [1 .. buff.n_pages -> Pages(buff)]
    BY <1>1 DEF Pages
  <2>2. \A t \in Pages(buff) : \E i \in 1 .. buff.n_pages : f[i] = t
    <3> SUFFICES ASSUME NEW t \in Pages(buff)
                 PROVE  \E i \in 1 .. buff.n_pages : f[i] = t
      OBVIOUS
    <3>1. PICK i \in 0 .. buff.n_pages - 1 : t = Page(buff, i)
      BY DEF Pages
    <3>2. i + 1 \in 1 .. buff.n_pages /\ (i + 1) - 1 = i
      BY <1>1
    <3>3. f[i + 1] = t
      BY <3>1, <3>2
    <3>4. QED
      BY <3>2, <3>3
  <2>3. QED
    BY <2>1, <2>2, Zenon DEF ExistsSurjection, Surjection
<1>4. IsFiniteSet(Pages(buff)) /\ Cardinality(Pages(buff)) <= buff.n_pages
  BY <1>1, <1>3, FS_NatSurjection, FS_SurjCardinalityBound
<1>5. QED
  BY <1>2, <1>4

\* A buffer that does not wrap around has the chunks from first on.
LEMMA PagesStraight ==
  ASSUME NEW buff \in Buffer, End(buff) <= N
  PROVE  /\ Pages(buff) = buff.first .. End(buff) - 1
         /\ Cardinality(Pages(buff)) = buff.n_pages
         /\ \A i \in 0 .. buff.n_pages - 1 : Page(buff, i) = buff.first + i
<1>1. N \in Nat \ {0} /\ buff.first \in Nat /\ buff.n_pages \in Nat \ {0}
  BY CardAssumption DEF Buffer, Chunks
<1>2. \A i \in 0 .. buff.n_pages - 1 : Page(buff, i) = buff.first + i
  <2> TAKE i \in 0 .. buff.n_pages - 1
  <2>1. buff.first + i \in Nat /\ buff.first + i < N
    BY <1>1 DEF End
  <2>2. QED
    BY <1>1, <2>1, ModRange, Zenon DEF Page
<1>3. Pages(buff) = {buff.first + i : i \in 0 .. buff.n_pages - 1}
  BY <1>2 DEF Pages
<1>4. \A x \in buff.first .. End(buff) - 1 :
        x - buff.first \in 0 .. buff.n_pages - 1 /\ x = buff.first + (x - buff.first)
  BY <1>1 DEF End
<1>5. Pages(buff) = buff.first .. End(buff) - 1
  BY <1>1, <1>3, <1>4 DEF End
<1>6. Cardinality(buff.first .. End(buff) - 1) = buff.n_pages
  <2>1. /\ buff.first \in Int /\ End(buff) - 1 \in Int
        /\ ~(buff.first > End(buff) - 1)
        /\ (End(buff) - 1) - buff.first + 1 = buff.n_pages
    BY <1>1 DEF End
  <2>2. Cardinality(buff.first .. End(buff) - 1) = (End(buff) - 1) - buff.first + 1
    BY <2>1, FS_Interval, Zenon
  <2>3. QED
    BY <2>1, <2>2
<1>7. QED
  BY <1>2, <1>5, <1>6

\* The chunks marked as used are finitely many.
LEMMA UsedFinite ==
  ASSUME TypeOK, NEW b \in Blocks
  PROVE  /\ IsFiniteSet(used[b]) /\ Cardinality(used[b]) \in Nat
         /\ \A S : IsFiniteSet(used[b] \cap S) /\ Cardinality(used[b] \cap S) \in Nat
<1>1. IsFiniteSet(Chunks)
  BY CardAssumption, FS_Interval DEF Chunks
<1>2. IsFiniteSet(used[b])
  BY <1>1, FS_Subset DEF TypeOK
<1>3. QED
  BY <1>2, FS_CardinalityType, FS_Intersection, Zenon
--------------------------------------------------------------------------------
(* The buffers of a block as a stack.                                      *)

\* A buffer allocated at the level raises it, in its own block.
LEMMA StackPush ==
  ASSUME NEW s \in Seq(Buffer), NEW b \in Blocks, NEW level \in Nat, NEW buff \in Buffer,
         Stacked(s, b, level), buff.block = b => buff.first = level
  PROVE  Stacked(Append(s, buff), b, IF buff.block = b THEN level + buff.n_pages ELSE level)
<1> DEFINE t == Append(s, buff)
           l == IF buff.block = b THEN level + buff.n_pages ELSE level
           len == Len(s)
<1>1. buff.first \in Nat /\ buff.n_pages \in Nat \ {0} /\ len \in Nat
  BY CardAssumption DEF Buffer, Chunks
<1>2. /\ Len(t) = len + 1 /\ t[len + 1] = buff
      /\ \A i \in 1 .. len : t[i] = s[i] /\ s[i].first \in Nat /\ s[i].n_pages \in Nat
  BY AppendProperties, BufferNumbers
<1>3. level <= l /\ l \in Nat /\ (buff.block = b => End(buff) = l)
  BY <1>1 DEF End
<1> HIDE DEF t, l, len
<1>4. ASSUME NEW i \in 1 .. Len(t), t[i].block = b
      PROVE  End(t[i]) <= l
  <2>1. CASE i = len + 1
    BY <1>2, <1>3, <1>4, <2>1
  <2>2. CASE i \in 1 .. len
    BY <1>2, <1>3, <1>4, <2>2 DEF Stacked, End, len
  <2>3. QED
    BY <1>1, <1>2, <2>1, <2>2
<1>5. ASSUME NEW i \in 1 .. Len(t), NEW j \in 1 .. Len(t),
             t[i].block = b, t[j].block = b, i < j
      PROVE  End(t[i]) <= t[j].first
  <2>1. i \in 1 .. len
    BY <1>1, <1>2, <1>5
  <2>2. CASE j = len + 1
    BY <1>2, <1>5, <2>1, <2>2 DEF Stacked, len
  <2>3. CASE j \in 1 .. len
    BY <1>2, <1>5, <2>1, <2>3, Zenon DEF Stacked, len
  <2>4. QED
    BY <1>1, <1>2, <2>2, <2>3
<1>6. ASSUME NEW x \in 0 .. l - 1
      PROVE  \E i \in 1 .. Len(t) : t[i].block = b /\ t[i].first <= x /\ x < End(t[i])
  <2>1. CASE x \in 0 .. level - 1
    <3>1. PICK i \in 1 .. len : s[i].block = b /\ s[i].first <= x /\ x < End(s[i])
      BY <2>1, Zenon DEF Stacked, len
    <3>2. i \in 1 .. Len(t) /\ t[i] = s[i]
      BY <1>1, <1>2
    <3>3. QED
      BY <3>1, <3>2, Zenon
  <2>2. CASE x \notin 0 .. level - 1
    <3>1. level <= x /\ x < l /\ buff.block = b
      BY <1>3, <1>6, <2>2 DEF l
    <3>2. len + 1 \in 1 .. Len(t)
      BY <1>1, <1>2
    <3>3. QED
      BY <1>2, <1>3, <3>1, <3>2, Zenon
  <2>3. QED
    BY <2>1, <2>2
<1>7. Stacked(t, b, l)
  BY <1>4, <1>5, <1>6, Zenon DEF Stacked
<1>8. QED
  BY <1>7 DEF t, l

\* Taking n_pages chunks at the level keeps the block filled.
LEMMA FilledTake ==
  ASSUME NEW s \in Seq(Buffer), NEW b \in Blocks, NEW f \in Nat, NEW u, NEW a,
         NEW buff \in Buffer, buff.block = b, buff.first = a,
         NEW n \in Nat \ {0}, buff.n_pages = n, f >= n, Filled(s, b, f, u, a)
  PROVE  Filled(Append(s, buff), b, f - n, u \cup Pages(buff), (a + n) % N)
<1>1. N \in Nat \ {0}
  BY CardAssumption
<1>2. f <= N /\ f # 0 /\ a = N - f /\ u = 0 .. N - f - 1
  BY DEF Filled
<1>3. /\ a \in Nat /\ a + n \in Nat /\ a + n <= N /\ f - n <= N /\ N - (f - n) = a + n
      /\ f - n = 0 => a + n = N
      /\ f - n # 0 => a + n < N
  BY <1>1, <1>2
<1>4. Pages(buff) = a .. a + n - 1
  <2>1. End(buff) = a + n /\ End(buff) <= N
    BY <1>3 DEF End
  <2>2. Pages(buff) = buff.first .. End(buff) - 1
    BY <2>1, PagesStraight, Zenon
  <2>3. QED
    BY <1>3, <2>1, <2>2
<1>5. u \cup Pages(buff) = 0 .. a + n - 1
  BY <1>1, <1>2, <1>3, <1>4
<1>6. (a + n) % N = IF f - n = 0 THEN 0 ELSE a + n
  BY <1>1, <1>3, ModRange, Zenon
<1>7. Stacked(Append(s, buff), b, a + n)
  BY <1>2, <1>3, StackPush, Zenon DEF Filled
<1>8. /\ u \cup Pages(buff) = 0 .. N - (f - n) - 1
      /\ (a + n) % N = IF f - n = 0 THEN 0 ELSE N - (f - n)
      /\ Stacked(Append(s, buff), b, N - (f - n))
  <2>1. u \cup Pages(buff) = 0 .. N - (f - n) - 1
    BY <1>3, <1>5
  <2>2. (a + n) % N = IF f - n = 0 THEN 0 ELSE N - (f - n)
    BY <1>3, <1>6
  <2>3. Stacked(Append(s, buff), b, N - (f - n))
    BY <1>3, <1>7
  <2>4. QED
    BY <2>1, <2>2, <2>3, Zenon
<1>9. QED
  BY <1>3, <1>8, Zenon DEF Filled

\* Taking chunks of another block leaves the block as it is.
LEMMA FilledOther ==
  ASSUME NEW s \in Seq(Buffer), NEW b \in Blocks, NEW f \in Nat, NEW u, NEW a,
         NEW buff \in Buffer, buff.block # b, Filled(s, b, f, u, a)
  PROVE  Filled(Append(s, buff), b, f, u, a)
<1>1. N - f \in Nat
  BY CardAssumption DEF Filled
<1>2. Stacked(Append(s, buff), b, N - f)
  BY <1>1, StackPush, Zenon DEF Filled
<1>3. QED
  BY <1>2, Zenon DEF Filled

\* The last buffer ends at the level of its block; without it the level is where
\* it started.
LEMMA StackPop ==
  ASSUME NEW s \in Seq(Buffer), NEW b \in Blocks, NEW level \in Nat,
         NEW k \in 1 .. Len(s), k = Len(s), Stacked(s, b, level)
  PROVE  /\ s[k].block = b => End(s[k]) = level
         /\ Stacked(Remove(s, k), b, IF s[k].block = b THEN s[k].first ELSE level)
<1> DEFINE t == Remove(s, k)
           l == IF s[k].block = b THEN s[k].first ELSE level
<1>1. /\ k \in Nat \ {0} /\ Len(t) = k - 1
      /\ \A i \in 1 .. k - 1 : t[i] = s[i] /\ i \in 1 .. Len(s) /\ i < k
  <2>1. Len(t) = Len(s) - 1 /\ \A i \in 1 .. Len(s) - 1 : t[i] = s[i]
    BY RemoveProperties, Zenon
  <2> HIDE DEF t
  <2>2. QED
    BY <2>1
<1>2. \A i \in 1 .. Len(s) : s[i].first \in Nat /\ s[i].n_pages \in Nat \ {0}
  BY BufferNumbers
<1>3. s[k].block = b => End(s[k]) <= level
  BY Zenon DEF Stacked
<1>4. l \in Nat /\ l <= level
  BY <1>2, <1>3 DEF End
<1>5. ASSUME NEW i \in 1 .. Len(s), s[i].block = b, i # k
      PROVE  End(s[i]) <= l
  <2>1. i < k
    BY <1>5
  <2>2. QED
    BY <1>5, <2>1, Zenon DEF Stacked
<1>6. s[k].block = b => End(s[k]) = level
  <2> SUFFICES ASSUME s[k].block = b, End(s[k]) # level
               PROVE  FALSE
    OBVIOUS
  <2>1. level - 1 \in 0 .. level - 1 /\ End(s[k]) <= level - 1 /\ s[k].first < level
    <3>1. s[k].first \in Nat /\ s[k].n_pages \in Nat \ {0}
      BY <1>2
    <3>2. QED
      BY <1>3, <3>1 DEF End
  <2>2. PICK i \in 1 .. Len(s) : s[i].block = b /\ level - 1 < End(s[i])
    BY <2>1, Zenon DEF Stacked
  <2>3. i # k
    BY <1>2, <2>1, <2>2 DEF End
  <2>4. End(s[i]) <= s[k].first
    BY <1>5, <2>2, <2>3
  <2>5. QED
    BY <1>2, <2>1, <2>2, <2>4 DEF End
<1>7. ASSUME NEW x \in 0 .. l - 1
      PROVE  \E i \in 1 .. Len(t) : t[i].block = b /\ t[i].first <= x /\ x < End(t[i])
  <2>1. x \in 0 .. level - 1
    BY <1>4, <1>7
  <2>2. PICK i \in 1 .. Len(s) : s[i].block = b /\ s[i].first <= x /\ x < End(s[i])
    BY <2>1, Zenon DEF Stacked
  <2>3. i # k
    BY <1>2, <1>4, <1>7, <2>2
  <2>4. i \in 1 .. k - 1
    BY <2>3
  <2>5. QED
    BY <1>1, <2>2, <2>4, Zenon
<1>8. Stacked(t, b, l)
  <2> HIDE DEF t, l
  <2>1. \A i \in 1 .. Len(t) : t[i].block = b => End(t[i]) <= l
    BY <1>1, <1>5
  <2>2. \A i, j \in 1 .. Len(t) :
          t[i].block = b /\ t[j].block = b /\ i < j => End(t[i]) <= t[j].first
    BY <1>1, Zenon DEF Stacked
  <2>3. QED
    BY <1>7, <2>1, <2>2, Zenon DEF Stacked
<1>9. QED
  BY <1>6, <1>8
\* Freeing the last buffer finds all its chunks marked and keeps the block filled.
LEMMA FilledFree ==
  ASSUME NEW s \in Seq(Buffer), NEW b \in Blocks, NEW f \in Nat, NEW u, NEW a,
         NEW k \in 1 .. Len(s), k = Len(s), s[k].block = b, Filled(s, b, f, u, a)
  PROVE  /\ Pages(s[k]) \subseteq u
         /\ Filled(Remove(s, k), b, f + Cardinality(Pages(s[k]) \cap u), u \ Pages(s[k]),
                   s[k].first)
<1>1. N \in Nat \ {0} /\ f <= N /\ u = 0 .. N - f - 1 /\ N - f \in Nat
  BY CardAssumption DEF Filled
<1>2. End(s[k]) = N - f /\ Stacked(Remove(s, k), b, s[k].first)
  BY <1>1, StackPop, Zenon DEF Filled
<1>3. PICK x \in Nat, n \in Nat \ {0} : s[k].first = x /\ s[k].n_pages = n
  BY BufferNumbers
<1>4. x + n = N - f /\ s[k] \in Buffer
  BY <1>2, <1>3 DEF End
<1>5. Pages(s[k]) = x .. x + n - 1 /\ Cardinality(Pages(s[k])) = n
  <2>1. End(s[k]) <= N
    BY <1>1, <1>2
  <2>2. Pages(s[k]) = s[k].first .. End(s[k]) - 1 /\ Cardinality(Pages(s[k])) = s[k].n_pages
    BY <1>4, <2>1, PagesStraight, Zenon
  <2>3. QED
    BY <1>1, <1>2, <1>3, <1>4, <2>2
<1>6. Pages(s[k]) \subseteq u /\ u \ Pages(s[k]) = 0 .. x - 1
  BY <1>1, <1>4, <1>5
<1>7. Pages(s[k]) \cap u = Pages(s[k])
  BY <1>6
<1>8. N - (f + n) = x /\ f + n <= N /\ f + n # 0
  BY <1>1, <1>4
<1>9. Filled(Remove(s, k), b, f + n, u \ Pages(s[k]), x)
  <2>1. u \ Pages(s[k]) = 0 .. N - (f + n) - 1
    BY <1>6, <1>8
  <2>2. Stacked(Remove(s, k), b, N - (f + n))
    BY <1>2, <1>3, <1>8
  <2>3. x = IF f + n = 0 THEN 0 ELSE N - (f + n)
    BY <1>8
  <2>4. QED
    BY <1>8, <2>1, <2>2, <2>3, Zenon DEF Filled
<1>10. QED
  BY <1>3, <1>5, <1>6, <1>7, <1>9, Zenon

\* Freeing the last buffer, of another block, leaves the block as it is.
LEMMA FilledFreeOther ==
  ASSUME NEW s \in Seq(Buffer), NEW b \in Blocks, NEW f \in Nat, NEW u, NEW a,
         NEW k \in 1 .. Len(s), k = Len(s), s[k].block # b, Filled(s, b, f, u, a)
  PROVE  Filled(Remove(s, k), b, f, u, a)
<1>1. N - f \in Nat
  BY CardAssumption DEF Filled
<1>2. Stacked(Remove(s, k), b, N - f)
  BY <1>1, StackPop, Zenon DEF Filled
<1>3. QED
  BY <1>2, Zenon DEF Filled

--------------------------------------------------------------------------------
(* The inductive invariant.                                                *)

\* The initial state satisfies the inductive invariant.
LEMMA InitInv == Init => Inv
<1> SUFFICES ASSUME Init
             PROVE  Inv
  OBVIOUS
<1> USE CardAssumption
<1>1. TypeOK
  <2>1. 0 \in Chunks /\ Nothing \in [block : Blocks \cup {AnyBlock}, n_pages : 0 .. MaxPages]
    BY DEF Chunks, Nothing
  <2>2. buffers \in Seq(Buffer)
    BY DEF Init
  <2>3. QED
    BY <2>1, <2>2, Zenon DEF Init, TypeOK
<1>2. Asking
  BY DEF Init, Asking
<1>3. Count
  BY FS_EmptySet DEF Init, Count
<1>4. \A b \in Blocks : Stacked(buffers, b, 0)
  BY DEF Init, Stacked
<1>5. N - N = 0 /\ 0 .. 0 - 1 = {} /\ N <= N /\ N # 0
  OBVIOUS
<1>6. \A b \in Blocks : Filled(buffers, b, N, {}, 0)
  BY <1>4, <1>5, Zenon DEF Filled
<1>7. Stack
  BY <1>6, Zenon DEF Init, Stack
<1>8. QED
  BY <1>1, <1>2, <1>3, <1>7 DEF Inv

\* A caller chooses a block, or is refused: the blocks are left alone.
LEMMA ChooseInv ==
  ASSUME Inv, NEW p \in Callers,
         AllocChoose(p) \/ AllocNoBlock(p) \/ AllocShort(p) \/ Refused(p)
  PROVE  Inv'
<1>1. UNCHANGED <<env, alloc, used, free_chunks, buffers>>
  BY Zenon DEF AllocChoose, AllocNoBlock, AllocShort, Refused
<1>2. \A n_pages \in Nat :
        LET room == {b \in Blocks : HasSpace(b, n_pages)}
        IN  room # {} => FirstOf(room) \in Blocks
  <2> SUFFICES ASSUME NEW n_pages \in Nat, {b \in Blocks : HasSpace(b, n_pages)} # {}
               PROVE  FirstOf({b \in Blocks : HasSpace(b, n_pages)}) \in Blocks
    OBVIOUS
  <2> DEFINE room == {b \in Blocks : HasSpace(b, n_pages)}
  <2>1. room \subseteq Nat /\ room \subseteq Blocks
    BY CardAssumption DEF Blocks
  <2> HIDE DEF room
  <2>2. FirstOf(room) \in room
    BY <2>1, FirstOfProperties DEF room
  <2>3. QED
    BY <2>1, <2>2 DEF room
<1>3. TypeOK' /\ Asking'
  <2>1. CASE AllocChoose(p)
    <3>1. PICK block \in Blocks, n_pages \in 1 .. MaxPages :
            wanted' = [wanted EXCEPT ![p] = [block |-> block, n_pages |-> n_pages]]
      <4>1. PICK n_pages \in 1 .. MaxPages, mem_block \in Blocks \cup {AnyBlock} :
              LET room == {b \in Blocks : HasSpace(b, n_pages)}
                  target_block == IF mem_block # AnyBlock THEN mem_block ELSE FirstOf(room)
              IN /\ mem_block # AnyBlock \/ room # {}
                 /\ wanted' = [wanted EXCEPT ![p] = [block |-> target_block, n_pages |-> n_pages]]
        <5>1. (IF "named block" \in env THEN Blocks ELSE {AnyBlock})
                \subseteq Blocks \cup {AnyBlock}
          BY Zenon
        <5>2. QED
          BY <2>1, <5>1, Zenon DEF AllocChoose
      <4>2. n_pages \in Nat
        BY CardAssumption
      <4>3. QED
        BY <1>2, <4>1, <4>2, Zenon
    <3>2. pc' = [pc EXCEPT ![p] = "chosen"] /\ UNCHANGED card_lock
      BY <2>1, Zenon DEF AllocChoose
    <3>3. [block |-> block, n_pages |-> n_pages]
            \in [block : Blocks \cup {AnyBlock}, n_pages : 0 .. MaxPages]
      BY CardAssumption
    <3>4. QED
      BY <1>1, <3>1, <3>2, <3>3, Zenon DEF Inv, TypeOK, Asking, Blocks, Chunks, Buffer, Habits
  <2>2. CASE AllocNoBlock(p)
    <3>1. PICK n_pages \in 1 .. MaxPages :
            wanted' = [wanted EXCEPT ![p] = [block |-> AnyBlock, n_pages |-> n_pages]]
      BY <2>2, Zenon DEF AllocNoBlock
    <3>2. pc' = [pc EXCEPT ![p] = "refused"] /\ UNCHANGED card_lock
      BY <2>2, Zenon DEF AllocNoBlock
    <3>3. [block |-> AnyBlock, n_pages |-> n_pages]
            \in [block : Blocks \cup {AnyBlock}, n_pages : 0 .. MaxPages]
      BY CardAssumption
    <3>4. QED
      BY <1>1, <3>1, <3>2, <3>3, Zenon DEF Inv, TypeOK, Asking, Blocks, Chunks, Buffer, Habits
  <2>3. CASE AllocShort(p)
    BY <1>1, <2>3, Zenon DEF AllocShort, Inv, TypeOK, Asking, Blocks, Chunks, Buffer, Habits
  <2>4. CASE Refused(p)
    <3>1. Nothing \in [block : Blocks \cup {AnyBlock}, n_pages : 0 .. MaxPages]
      BY CardAssumption DEF Nothing
    <3>2. QED
      BY <1>1, <2>4, <3>1, Zenon DEF Refused, Inv, TypeOK, Asking, Blocks, Chunks, Buffer, Habits
  <2>5. QED
    BY <2>1, <2>2, <2>3, <2>4
<1>4. Count' /\ Stack'
  BY <1>1, Zenon DEF Inv, Count, Stack
<1>5. QED
  BY <1>3, <1>4 DEF Inv
\* Marking the chunks of a buffer counts at most its pages.
LEMMA AllocTakeInv ==
  ASSUME Inv, NEW p \in Callers, AllocTake(p)
  PROVE  Inv'
<1> DEFINE b == wanted[p].block
           n == wanted[p].n_pages
           buff == [block |-> b, first |-> alloc[b], n_pages |-> n]
<1>1. b \in Blocks /\ n \in 1 .. MaxPages /\ n \in Nat \ {0} /\ free_chunks[b] \in Nat
  BY CardAssumption DEF AllocTake, Inv, Asking, TypeOK
<1>2. /\ free_chunks[b] >= n
      /\ used' = [used EXCEPT ![b] = @ \cup Pages(buff)]
      /\ free_chunks' = [free_chunks EXCEPT ![b] = @ - n]
      /\ alloc' = [alloc EXCEPT ![b] = (@ + n) % N]
      /\ buffers' = Append(buffers, buff)
      /\ pc' = [pc EXCEPT ![p] = "idle"]
      /\ wanted' = [wanted EXCEPT ![p] = Nothing]
      /\ UNCHANGED <<env, card_lock>>
  BY DEF AllocTake, Enough, Counted, Advanced, Taken, Pages, Page
<1>3. /\ buff \in Buffer /\ buff.block = b /\ buff.first = alloc[b] /\ buff.n_pages = n
      /\ alloc[b] \in Nat /\ alloc[b] < N /\ N \in Nat \ {0}
  BY <1>1, CardAssumption DEF Buffer, Inv, TypeOK, Chunks
<1> HIDE DEF b, n, buff
<1>4. TypeOK'
  <2>1. (alloc[b] + n) % N \in Chunks
    <3>1. alloc[b] + n \in Nat
      BY <1>1, <1>3
    <3>2. QED
      BY <1>3, <3>1, ModRange, Zenon DEF Chunks
  <2>2. free_chunks[b] - n \in Nat
    BY <1>1, <1>2
  <2>3. Append(buffers, buff) \in Seq(Buffer)
    BY <1>3, AppendProperties DEF Inv, TypeOK
  <2>4. Nothing \in [block : Blocks \cup {AnyBlock}, n_pages : 0 .. MaxPages]
    BY CardAssumption DEF Nothing
  <2>5. Pages(buff) \subseteq Chunks
    BY <1>3, PagesBound
  <2>6. QED
    BY <1>1, <1>2, <2>1, <2>2, <2>3, <2>4, <2>5, Zenon
    DEF Inv, TypeOK, Blocks, Chunks, Buffer, Habits
<1>5. Asking'
  BY <1>2 DEF Inv, Asking, TypeOK, Blocks
<1>6. Count'
  <2> SUFFICES ASSUME NEW c \in Blocks
               PROVE  free_chunks'[c] + Cardinality(used'[c]) <= N
    BY DEF Count, Blocks
  <2>1. CASE c = b
    <3>1. /\ IsFiniteSet(used[b]) /\ Cardinality(used[b]) \in Nat
          /\ Cardinality(used[b] \cap Pages(buff)) \in Nat
      BY <1>1, UsedFinite DEF Inv
    <3>2. /\ IsFiniteSet(Pages(buff)) /\ Cardinality(Pages(buff)) <= n
          /\ Cardinality(Pages(buff)) \in Nat
      BY <1>3, PagesBound, FS_CardinalityType, Zenon
    <3>3. Cardinality(used[b] \cup Pages(buff)) =
            Cardinality(used[b]) + Cardinality(Pages(buff)) - Cardinality(used[b] \cap Pages(buff))
      BY <3>1, <3>2, FS_Union, Zenon
    <3>4. /\ free_chunks'[b] = free_chunks[b] - n
          /\ used'[b] = used[b] \cup Pages(buff)
          /\ free_chunks[b] + Cardinality(used[b]) <= N
      BY <1>1, <1>2 DEF Inv, TypeOK, Count
    <3>5. QED
      BY <1>1, <1>3, <2>1, <3>1, <3>2, <3>3, <3>4
  <2>2. CASE c # b
    BY <1>2, <2>2 DEF Inv, TypeOK, Count
  <2>3. QED
    BY <2>1, <2>2
<1>7. Stack'
  <2> SUFFICES ASSUME "any order" \notin env, NEW c \in Blocks
               PROVE  Filled(buffers', c, free_chunks'[c], used'[c], alloc'[c])
    BY <1>2, Zenon DEF Stack, Blocks, Filled, Stacked, End
  <2>1. buffers \in Seq(Buffer) /\ free_chunks[c] \in Nat
        /\ Filled(buffers, c, free_chunks[c], used[c], alloc[c])
    BY Zenon DEF Inv, TypeOK, Stack
  <2>2. CASE c # b
    <3>1. used'[c] = used[c] /\ alloc'[c] = alloc[c] /\ free_chunks'[c] = free_chunks[c]
      BY <1>2, <2>2, Zenon DEF Inv, TypeOK
    <3>2. QED
      BY <1>2, <1>3, <2>1, <2>2, <3>1, FilledOther, Zenon
  <2>3. CASE c = b
    <3>1. /\ free_chunks'[b] = free_chunks[b] - n
          /\ alloc'[b] = (alloc[b] + n) % N
          /\ used'[b] = used[b] \cup Pages(buff)
      BY <1>1, <1>2, Zenon DEF Inv, TypeOK
    <3>2. Filled(buffers, b, free_chunks[b], used[b], alloc[b])
      BY <2>1, <2>3, Zenon
    <3>3. Filled(Append(buffers, buff), b, free_chunks[b] - n, used[b] \cup Pages(buff),
                 (alloc[b] + n) % N)
      BY <1>1, <1>2, <1>3, <2>1, <3>2, FilledTake, Zenon
    <3>4. QED
      BY <1>2, <2>3, <3>1, <3>3, Zenon
  <2>4. QED
    BY <2>2, <2>3, Zenon
<1>8. QED
  BY <1>4, <1>5, <1>6, <1>7 DEF Inv
\* After a free the next allocation starts at a page of the buffer, or where it
\* did; at its first page if all its pages were marked.
LEMMA AllocAfterProperties ==
  ASSUME TypeOK, NEW buff \in Buffer
  PROVE  /\ AllocAfter(buff) \in Chunks
         /\ Pages(buff) \subseteq used[buff.block] => AllocAfter(buff) = buff.first
<1> DEFINE marked == {i \in 0 .. buff.n_pages - 1 : Page(buff, i) \in used[buff.block]}
<1>1. buff.n_pages \in Nat \ {0} /\ buff.first \in Chunks /\ buff.block \in Blocks
      /\ N \in Nat \ {0} /\ buff.first \in Nat /\ buff.first < N
  BY CardAssumption DEF Buffer, Chunks
<1>2. \A i \in marked : i \in Nat /\ i \in 0 .. buff.n_pages - 1
  BY <1>1
<1>3. marked # {} => FirstOf(marked) \in marked /\ \A j \in marked : FirstOf(marked) <= j
  <2> HIDE DEF marked
  <2>1. QED
    BY <1>2, FirstOfProperties
<1>4. AllocAfter(buff) = IF marked = {} THEN alloc[buff.block] ELSE Page(buff, FirstOf(marked))
  BY DEF AllocAfter
<1> HIDE DEF marked
<1>5. AllocAfter(buff) \in Chunks
  <2>1. CASE marked = {}
    BY <1>1, <1>4, <2>1 DEF TypeOK
  <2>2. CASE marked # {}
    BY <1>2, <1>3, <1>4, <2>2, PagesBound, Zenon DEF Pages
  <2>3. QED
    BY <2>1, <2>2
<1>6. ASSUME Pages(buff) \subseteq used[buff.block]
      PROVE  AllocAfter(buff) = buff.first
  <2>1. 0 \in marked
    BY <1>1, <1>6 DEF marked, Pages
  <2>2. FirstOf(marked) = 0
    BY <1>2, <1>3, <2>1
  <2>3. Page(buff, 0) = buff.first
    <3>1. buff.first + 0 = buff.first
      BY <1>1
    <3>2. QED
      BY <1>1, <3>1, ModRange, Zenon DEF Page
  <2>4. QED
    BY <1>4, <2>1, <2>2, <2>3
<1>7. QED
  BY <1>5, <1>6

\* A buffer is freed.
LEMMA FreeInv ==
  ASSUME Inv, NEW k \in 1 .. MaxBuffers, Free(k)
  PROVE  Inv'
<1> DEFINE buff == buffers[k]
           b == buffers[k].block
<1>1. /\ buffers \in Seq(Buffer) /\ k \in 1 .. Len(buffers)
      /\ buff \in Buffer /\ b \in Blocks
  <2>1. buffers \in Seq(Buffer) /\ k \in DOMAIN buffers
    BY Zenon DEF Free, Inv, TypeOK
  <2>2. k \in 1 .. Len(buffers) /\ buff \in Buffer
    BY <2>1
  <2>3. QED
    BY <2>1, <2>2 DEF Buffer
<1>2. /\ used' = [used EXCEPT ![b] = @ \ Pages(buff)]
      /\ free_chunks' = [free_chunks EXCEPT ![b] = @ + Cardinality(Freed(buff))]
      /\ alloc' = [alloc EXCEPT ![b] = AllocAfter(buff)]
      /\ buffers' = Remove(buffers, k)
      /\ UNCHANGED <<env, card_lock, pc, wanted>>
  BY Zenon DEF Free
<1>3. /\ Freed(buff) = Pages(buff) \cap used[b] /\ Freed(buff) = used[b] \cap Pages(buff)
      /\ Cardinality(Freed(buff)) \in Nat
  BY <1>1, UsedFinite, Zenon DEF Inv, Freed
<1>4. /\ used'[b] = used[b] \ Pages(buff)
      /\ free_chunks'[b] = free_chunks[b] + Cardinality(Freed(buff))
      /\ alloc'[b] = AllocAfter(buff) /\ free_chunks[b] \in Nat
      /\ \A c \in Blocks : c # b => /\ used'[c] = used[c] /\ alloc'[c] = alloc[c]
                                  /\ free_chunks'[c] = free_chunks[c]
  BY <1>1, <1>2, Zenon DEF Inv, TypeOK
<1> HIDE DEF buff, b
<1>5. TypeOK'
  <2>1. free_chunks[b] + Cardinality(Freed(buff)) \in Nat
    BY <1>3, <1>4
  <2>2. AllocAfter(buff) \in Chunks
    BY <1>1, AllocAfterProperties DEF Inv
  <2>3. Remove(buffers, k) \in Seq(Buffer)
    BY <1>1, RemoveProperties
  <2>4. QED
    BY <1>1, <1>2, <2>1, <2>2, <2>3, Zenon DEF Inv, TypeOK, Blocks, Chunks, Buffer, Habits
<1>6. Asking'
  BY <1>2 DEF Inv, Asking, Blocks
<1>7. Count'
  <2> SUFFICES ASSUME NEW c \in Blocks
               PROVE  free_chunks'[c] + Cardinality(used'[c]) <= N
    BY DEF Count, Blocks
  <2>1. CASE c = b
    <3>1. /\ Cardinality(used[b] \ Pages(buff))
               = Cardinality(used[b]) - Cardinality(used[b] \cap Pages(buff))
          /\ Cardinality(used[b]) \in Nat
      BY <1>1, UsedFinite, FS_Difference, Zenon DEF Inv
    <3>2. free_chunks[b] + Cardinality(used[b]) <= N
      BY <1>1 DEF Inv, Count
    <3>3. Cardinality(used'[b]) = Cardinality(used[b]) - Cardinality(Freed(buff))
      BY <1>3, <1>4, <3>1, Zenon
    <3>4. free_chunks'[b] + Cardinality(used'[b]) <= N
      <4>1. free_chunks'[b] = free_chunks[b] + Cardinality(Freed(buff)) /\ free_chunks[b] \in Nat
        BY <1>4, Zenon
      <4>2. Cardinality(Freed(buff)) \in Nat /\ Cardinality(used[b]) \in Nat /\ N \in Nat
        BY <1>3, <3>1, CardAssumption, Zenon
      <4>3. QED
        BY <3>2, <3>3, <4>1, <4>2
    <3>5. QED
      BY <2>1, <3>4, Zenon
  <2>2. CASE c # b
    BY <1>4, <2>2 DEF Inv, Count
  <2>3. QED
    BY <2>1, <2>2
<1>8. Stack'
  <2> SUFFICES ASSUME "any order" \notin env, NEW c \in Blocks
               PROVE  Filled(buffers', c, free_chunks'[c], used'[c], alloc'[c])
    BY <1>2, Zenon DEF Stack, Blocks, Filled, Stacked, End
  <2>1. /\ k = Len(buffers) /\ free_chunks[c] \in Nat
        /\ Filled(buffers, c, free_chunks[c], used[c], alloc[c])
    BY Zenon DEF Free, Inv, TypeOK, Stack
  <2>2. CASE c # b
    BY <1>1, <1>2, <1>4, <2>1, <2>2, FilledFreeOther, Zenon DEF b
  <2>3. CASE c = b
    <3>1. /\ Pages(buff) \subseteq used[b]
          /\ Filled(Remove(buffers, k), b, free_chunks[b] + Cardinality(Pages(buff) \cap used[b]),
                    used[b] \ Pages(buff), buff.first)
      <4>1. Filled(buffers, b, free_chunks[b], used[b], alloc[b])
        BY <2>1, <2>3, Zenon
      <4>2. buffers[k].block = b /\ buffers[k] = buff
        BY Zenon DEF b, buff
      <4>3. /\ Pages(buffers[k]) \subseteq used[b]
            /\ Filled(Remove(buffers, k), b,
                      free_chunks[b] + Cardinality(Pages(buffers[k]) \cap used[b]),
                      used[b] \ Pages(buffers[k]), buffers[k].first)
        BY <1>1, <1>4, <2>1, <4>1, <4>2, FilledFree, Zenon
      <4>4. QED
        BY <4>2, <4>3, Zenon
    <3>2. AllocAfter(buff) = buff.first
      BY <1>1, <3>1, AllocAfterProperties, Zenon DEF Inv, b, buff
    <3>3. QED
      BY <1>2, <1>3, <1>4, <2>3, <3>1, <3>2, Zenon
  <2>4. QED
    BY <2>2, <2>3, Zenon
<1>9. QED
  BY <1>5, <1>6, <1>7, <1>8 DEF Inv

\* Every step keeps the inductive invariant.
LEMMA NextInv == Inv /\ [Next]_vars => Inv'
<1> SUFFICES ASSUME Inv, [Next]_vars
             PROVE  Inv'
  OBVIOUS
<1>1. CASE \E p \in Callers :
        AllocChoose(p) \/ AllocNoBlock(p) \/ AllocShort(p) \/ Refused(p)
  BY <1>1, ChooseInv
<1>2. CASE \E p \in Callers : AllocTake(p)
  BY <1>2, AllocTakeInv
<1>3. CASE \E k \in 1 .. MaxBuffers : Free(k)
  BY <1>3, FreeInv
<1>4. CASE UNCHANGED vars
  <2>1. TypeOK'
    BY <1>4, Zenon DEF vars, Inv, TypeOK, Blocks, Chunks, Buffer, Habits
  <2>2. Asking' /\ Count'
    BY <1>4 DEF vars, Inv, Asking, Count, Blocks
  <2>3. Stack'
    BY <1>4, Zenon DEF vars, Inv, Stack, Blocks, Filled, Stacked, End
  <2>4. QED
    BY <2>1, <2>2, <2>3 DEF Inv
<1>5. QED
  BY <1>1, <1>2, <1>3, <1>4 DEF Next

\* The inductive invariant holds throughout, whichever calls interleave.
THEOREM Invariance == Spec => []Inv
  BY InitInv, NextInv, PTL DEF Spec

\* What the level says about the chunks of the buffers of one block.
LEMMA FilledSafe ==
  ASSUME NEW s \in Seq(Buffer), NEW b \in Blocks, NEW f \in Nat, NEW u, NEW a,
         Filled(s, b, f, u, a)
  PROVE  LET here == {i \in 1 .. Len(s) : s[i].block = b}
         IN  /\ \A i, j \in here : i # j => Pages(s[i]) \cap Pages(s[j]) = {}
             /\ u = UNION {Pages(s[i]) : i \in here}
             /\ f = N - Cardinality(u)
<1> DEFINE here == {i \in 1 .. Len(s) : s[i].block = b}
<1>1. N \in Nat \ {0} /\ f <= N /\ u = 0 .. N - f - 1 /\ N - f \in Nat
  BY CardAssumption DEF Filled
<1>2. Stacked(s, b, N - f)
  BY DEF Filled
<1>3. ASSUME NEW i \in here
      PROVE  /\ s[i].first \in Nat /\ End(s[i]) \in Nat /\ End(s[i]) <= N - f
             /\ Pages(s[i]) = s[i].first .. End(s[i]) - 1
  <2>1. s[i].first \in Nat /\ s[i].n_pages \in Nat \ {0} /\ s[i] \in Buffer
    BY BufferNumbers
  <2>2. End(s[i]) <= N - f /\ End(s[i]) \in Nat
    BY <1>2, <2>1 DEF Stacked, End
  <2>3. End(s[i]) <= N
    BY <1>1, <2>2
  <2>4. QED
    BY <2>1, <2>2, <2>3, PagesStraight
<1>4. ASSUME NEW i \in here, NEW j \in here, i < j
      PROVE  Pages(s[i]) \cap Pages(s[j]) = {}
  <2>1. End(s[i]) <= s[j].first
    BY <1>2, <1>4, Zenon DEF Stacked
  <2>2. /\ s[i].first \in Nat /\ End(s[i]) \in Nat /\ Pages(s[i]) = s[i].first .. End(s[i]) - 1
        /\ s[j].first \in Nat /\ End(s[j]) \in Nat /\ Pages(s[j]) = s[j].first .. End(s[j]) - 1
    BY <1>3, Zenon
  <2>3. QED
    BY <2>1, <2>2
<1>5. \A i, j \in here : i # j => Pages(s[i]) \cap Pages(s[j]) = {}
  <2> SUFFICES ASSUME NEW i \in here, NEW j \in here, i # j
               PROVE  Pages(s[i]) \cap Pages(s[j]) = {}
    BY Zenon
  <2>1. i < j \/ j < i
    OBVIOUS
  <2>2. QED
    BY <1>4, <2>1, Zenon
<1>6. u = UNION {Pages(s[i]) : i \in here}
  <2>1. ASSUME NEW x \in u
        PROVE  \E i \in here : x \in Pages(s[i])
    <3>1. PICK i \in 1 .. Len(s) : s[i].block = b /\ s[i].first <= x /\ x < End(s[i])
      BY <1>1, <1>2, <2>1, Zenon DEF Stacked
    <3>2. x \in Nat
      BY <1>1, <2>1
    <3>3. x \in s[i].first .. End(s[i]) - 1 /\ i \in here
      BY <1>3, <3>1, <3>2
    <3>4. QED
      BY <1>3, <3>3, Zenon
  <2>2. ASSUME NEW i \in here, NEW x \in Pages(s[i])
        PROVE  x \in u
    <3>1. x \in s[i].first .. End(s[i]) - 1
      BY <1>3, <2>2, Zenon
    <3>2. s[i].first \in Nat /\ End(s[i]) \in Nat /\ End(s[i]) <= N - f
      BY <1>3, Zenon
    <3>3. QED
      BY <1>1, <3>1, <3>2
  <2>3. QED
    BY <2>1, <2>2, Zenon
<1>7. f = N - Cardinality(u)
  <2>1. CASE N - f = 0
    BY <1>1, <2>1, FS_EmptySet
  <2>2. CASE N - f # 0
    <3>1. 0 \in Int /\ N - f - 1 \in Int /\ ~(0 > N - f - 1) /\ (N - f - 1) - 0 + 1 = N - f
      BY <1>1, <2>2
    <3>2. Cardinality(0 .. N - f - 1) = (N - f - 1) - 0 + 1
      BY <3>1, FS_Interval, Zenon
    <3>3. QED
      BY <1>1, <3>1, <3>2
  <2>3. QED
    BY <2>1, <2>2
<1>8. QED
  BY <1>5, <1>6, <1>7, Zenon

\* No chunk of card memory belongs to two buffers, the marks are those of the
\* buffers and free_chunks is right, while buffers are freed last in, first out;
\* in any order the count never promises more than is unmarked.  For any number
\* of callers, blocks, chunks and pages.
THEOREM AllocationsNeverOverlap == Spec => []NoOverlap
<1>1. Inv => NoOverlap
  <2> SUFFICES ASSUME Inv, NEW b \in Blocks
               PROVE  LET here == {i \in DOMAIN buffers : buffers[i].block = b}
                      IN  /\ "any order" \notin env =>
                               /\ \A i, j \in here :
                                    i # j => Pages(buffers[i]) \cap Pages(buffers[j]) = {}
                               /\ used[b] = UNION {Pages(buffers[i]) : i \in here}
                               /\ free_chunks[b] = N - Cardinality(used[b])
                          /\ free_chunks[b] + Cardinality(used[b]) <= N
    BY Zenon DEF NoOverlap
  <2>1. /\ buffers \in Seq(Buffer) /\ DOMAIN buffers = 1 .. Len(buffers)
        /\ free_chunks[b] \in Nat
    BY DEF Inv, TypeOK
  <2>2. free_chunks[b] + Cardinality(used[b]) <= N
    BY DEF Inv, Count
  <2>3. "any order" \notin env => Filled(buffers, b, free_chunks[b], used[b], alloc[b])
    BY Zenon DEF Inv, Stack
  <2>4. QED
    BY <2>1, <2>2, <2>3, FilledSafe, Zenon
<1>2. QED
  BY <1>1, Invariance, PTL
================================================================================
