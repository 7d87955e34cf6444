---------------------------- MODULE CtidTableProofs ----------------------------
(***************************************************************************)
(* Proofs about the table of thread identifiers, for any number of threads,*)
(* processes, identifiers, buckets and buffers.                            *)
(***************************************************************************)
EXTENDS CtidTable, FiniteSetTheorems, TLAPS

\* open and release do not interleave and a ctid is always left.
Calm == env \cap {"overlap", "full"} = {}

Buckets == 0 .. NBuckets - 1

Last == N_CTID_MAX - 1

\* Threads whose file counts in ref_cnt, and states between its load and its end.
Files == {t \in Cthreads : state[t] \in {"open", "registered", "unregistered", "closing"}}

Moving == {"opening", "closing", "releasing"}

TypeOK ==
  /\ state \in [Cthreads -> {"closed", "opening", "open", "registered", "unregistered",
                             "closing", "releasing"}]
  /\ ctid \in [Cthreads -> Ctids \cup {Nil}]
  /\ seen \in [Cthreads -> Int] /\ cursor \in [Cthreads -> 0 .. NBuckets]
  /\ pid_array \in [Ctids -> Nat]
  /\ DOMAIN chain = Buckets /\ DOMAIN ctid_list = Hpids /\ DOMAIN user_buff_map = Ctids

\* One thread at a time opens or closes; ref_cnt counts the open files, and the walk
\* of a release happens when there are none.
Counted ==
  /\ \A t, u \in Cthreads : state[t] \in Moving /\ state[u] \in Moving => t = u
  /\ ref_cnt = Cardinality(Files)
  /\ \A t \in Cthreads :
       /\ state[t] \in {"opening", "closing"} => seen[t] = ref_cnt
       /\ state[t] = "releasing" => Files = {}
       /\ state[t] # "releasing" => cursor[t] = 0

\* A list of S without repetition.
OneEach(list, S) == \E n \in Nat : list \in Injection(1 .. n, S)

\* One of ctids that belong to process h.
OneList(list, h, array) == OneEach(list, Ctids) /\ \A c \in Range(list) : array[c] = h

\* The ctids of a process are on its list, each once, and those of its threads are.
Owned ==
  /\ \A h \in Hpids : OneList(ctid_list[h], h, pid_array)
  /\ \A t \in Cthreads :
       state[t] = "registered" => ctid[t] \in Range(ctid_list[HpidOf[t]])
  /\ \A t, u \in Cthreads :
       t # u /\ state[t] = "registered" /\ state[u] = "registered" => ctid[t] # ctid[u]

\* s is the list of n chunks that begins at h and is linked by f; it ends with the last
\* chunk, the one without a number.
Linked(h, f, s, n) ==
  /\ h = s[1] /\ s[n] = Last
  /\ \A i \in 1 .. n : f[s[i]] = IF i = n THEN Nil ELSE s[i + 1]

\* The chunks that are not in L form such a list, each once.
FreeOver(h, f, L) ==
  \E n \in Nat \ {0} : \E s \in Injection(1 .. n, Ctids) :
    Linked(h, f, s, n) /\ Range(s) = Ctids \ L

\* Bucket b has the processes that hash to it and have ctids, each once.
InBucket(entries, b, lists) ==
  /\ OneEach(entries, Hpids)
  /\ \A h \in Hpids : h \in Range(entries) <=> Bucket(h) = b /\ lists[h] # << >>

Chained == \A b \in Buckets : InBucket(chain[b], b, ctid_list)

CalmInv == TypeOK /\ Counted /\ Owned /\ Chained /\ FreeOver(pid_alloc, next, Listed)

\* What a release has walked over is empty, and so is everything when no file is open.
Swept ==
  Files = {} =>
    \A b \in Buckets :
      chain[b] # << >> => \E t \in Cthreads : state[t] = "releasing" /\ cursor[t] <= b

\* Buffers are mapped once, for ctids in use.
Mapped ==
  \A c \in Ctids :
    /\ OneEach(user_buff_map[c], Buffers)
    /\ user_buff_map[c] # << >> => c \in Listed

\* Processes that do not collide.
Apart == \A g, h \in Hpids : BucketOf[g] = BucketOf[h] => g = h

Inv == Calm => CalmInv

\* The vFPGA may fault late; besides, nothing goes wrong.
Tidy == env \subseteq {"late"}

CleanInv == (Tidy => Swept) /\ (env = {} => Mapped)
--------------------------------------------------------------------------------
(* Lists.                                                                  *)

\* A function on 1 .. n is a sequence of length n.
LEMMA ListLen ==
  ASSUME NEW S, NEW n \in Nat, NEW s \in [1 .. n -> S]
  PROVE  Len(s) = n /\ DOMAIN s = 1 .. n /\ (s = << >> <=> n = 0)
  OBVIOUS

\* Keeping every entry changes nothing.
LEMMA SelectAll ==
  ASSUME NEW S, NEW n \in Nat, NEW s \in [1 .. n -> S]
  PROVE  Select(s, 1 .. n) = s
<1>1. \A i \in 1 .. n : {j \in 1 .. n : j <= i} = 1 .. i /\ Cardinality(1 .. i) = i
  <2>1. SUFFICES ASSUME NEW i \in 1 .. n
                 PROVE  {j \in 1 .. n : j <= i} = 1 .. i /\ Cardinality(1 .. i) = i
    OBVIOUS
  <2>2. 1 \in Int /\ i \in Int /\ ~(1 > i) /\ i - 1 + 1 = i
    OBVIOUS
  <2>3. Cardinality(1 .. i) = i
    BY <2>2, FS_Interval
  <2>4. QED
    BY <2>3
<1>2. Cardinality(1 .. n) = n
  BY FS_Interval
<1>3. \A k \in 1 .. n :
        (CHOOSE i \in 1 .. n : Cardinality({j \in 1 .. n : j <= i}) = k) = k
  BY <1>1, Zenon
<1>4. QED
  BY <1>2, <1>3, Zenon DEF Select

\* Deleting every entry leaves nothing.
LEMMA SelectNone ==
  ASSUME NEW s
  PROVE  Select(s, {}) = << >>
<1>1. Cardinality({}) = 0
  BY FS_EmptySet
<1>2. DOMAIN Select(s, {}) = 1 .. 0
  BY <1>1 DEF Select
<1>3. QED
  BY <1>1 DEF Select

\* Keeping one entry leaves that one.
LEMMA SelectOne ==
  ASSUME NEW S, NEW n \in Nat, NEW s \in [1 .. n -> S], NEW p \in 1 .. n
  PROVE  Select(s, {p}) \in [1 .. 1 -> S] /\ Select(s, {p})[1] = s[p]
<1>1. Cardinality({p}) = 1
  BY FS_Singleton, Zenon
<1>2. {j \in {p} : j <= p} = {p}
  OBVIOUS
<1>3. (CHOOSE i \in {p} : Cardinality({j \in {p} : j <= i}) = 1) = p
  BY <1>1, <1>2
<1>4. Select(s, {p}) =
        [k \in 1 .. 1 |-> s[CHOOSE i \in {p} : Cardinality({j \in {p} : j <= i}) = k]]
  BY <1>1, Zenon DEF Select
<1>5. 1 \in 1 .. 1 /\ \A k \in 1 .. 1 : k = 1
  OBVIOUS
<1>6. Select(s, {p}) = [k \in 1 .. 1 |-> s[p]]
  BY <1>3, <1>4, <1>5, Zenon
<1>7. QED
  BY <1>5, <1>6

\* The list of n entries without the one at p.
DropOf(s, p, n) == [k \in 1 .. n - 1 |-> s[IF k < p THEN k ELSE k + 1]]

\* Deleting the entry at p moves the later ones up.
LEMMA SelectOut ==
  ASSUME NEW S, NEW n \in Nat, NEW s \in [1 .. n -> S], NEW p \in 1 .. n
  PROVE  Select(s, (1 .. n) \ {p}) = DropOf(s, p, n)
<1> DEFINE kept == (1 .. n) \ {p}
           count(i) == Cardinality({j \in kept : j <= i})
<1>1. \A i \in 0 .. n : IsFiniteSet(1 .. i) /\ Cardinality(1 .. i) = i
  <2>1. SUFFICES ASSUME NEW i \in 0 .. n
                 PROVE  IsFiniteSet(1 .. i) /\ Cardinality(1 .. i) = i
    OBVIOUS
  <2>2. 1 \in Int /\ i \in Int /\ (IF 1 > i THEN 0 ELSE i - 1 + 1) = i
    OBVIOUS
  <2>3. QED
    BY <2>2, FS_Interval
<1>2. Cardinality(kept) = n - 1
  <2>1. n \in 0 .. n
    OBVIOUS
  <2>2. Cardinality(kept) = Cardinality(1 .. n) - 1
    BY <1>1, <2>1, FS_RemoveElement, Zenon
  <2>3. QED
    BY <1>1, <2>1, <2>2
<1>3. \A i \in kept : count(i) = IF i < p THEN i ELSE i - 1
  <2>1. SUFFICES ASSUME NEW i \in kept
                 PROVE  count(i) = IF i < p THEN i ELSE i - 1
    OBVIOUS
  <2>2. CASE i < p
    <3>1. {j \in kept : j <= i} = 1 .. i
      BY <2>2
    <3>2. Cardinality(1 .. i) = i
      BY <1>1
    <3>3. QED
      BY <2>2, <3>1, <3>2, Zenon
  <2>3. CASE i > p
    <3>1. {j \in kept : j <= i} = (1 .. i) \ {p} /\ p \in 1 .. i /\ i \in 0 .. n /\ ~(i < p)
      BY <2>3
    <3>2. IsFiniteSet(1 .. i) /\ Cardinality(1 .. i) = i
      BY <1>1, <3>1
    <3>3. Cardinality((1 .. i) \ {p}) = i - 1
      BY <3>1, <3>2, FS_RemoveElement, Zenon
    <3>4. QED
      BY <3>1, <3>3, Zenon
  <2>4. QED
    BY <2>2, <2>3
<1>4. ASSUME NEW k \in 1 .. n - 1
      PROVE  (CHOOSE i \in kept : count(i) = k) = IF k < p THEN k ELSE k + 1
  <2> DEFINE x == IF k < p THEN k ELSE k + 1
  <2> HIDE DEF count
  <2>1. x \in kept /\ count(x) = k
    BY <1>3
  <2>2. \A i \in kept : count(i) = k => i = x
    BY <1>3
  <2> HIDE DEF x, kept
  <2>3. (CHOOSE i \in kept : count(i) = k) = x
    BY <2>1, <2>2
  <2>4. QED
    BY <2>3 DEF x
<1>5. Select(s, kept) = [k \in 1 .. n - 1 |-> s[CHOOSE i \in kept : count(i) = k]]
  BY <1>2 DEF Select
<1>6. QED
  BY <1>4, <1>5, Zenon DEF DropOf

\* The empty list, and what a list has.
LEMMA EmptyEach ==
  ASSUME NEW S
  PROVE  /\ OneEach(<< >>, S) /\ Range(<< >>) = {}
         /\ \A s : OneEach(s, S) => Range(s) \subseteq S /\ (s = << >> <=> Range(s) = {})
<1>1. << >> \in [1 .. 0 -> S] /\ DOMAIN << >> = {}
  OBVIOUS
<1>2. OneEach(<< >>, S)
  BY <1>1 DEF OneEach, Injection, IsInjective
<1>3. Range(<< >>) = {}
  BY <1>1 DEF Range
<1>4. ASSUME NEW s, OneEach(s, S)
      PROVE  Range(s) \subseteq S /\ (s = << >> <=> Range(s) = {})
  <2>1. PICK n \in Nat : s \in [1 .. n -> S]
    BY <1>4 DEF OneEach, Injection
  <2>2. Range(s) = {s[i] : i \in 1 .. n}
    BY <2>1 DEF Range
  <2>3. Range(s) \subseteq S
    BY <2>1, <2>2
  <2>4. CASE n = 0
    <3>1. s = << >>
      BY <2>1, <2>4, ListLen
    <3>2. QED
      BY <1>3, <2>3, <3>1, Zenon
  <2>5. CASE n # 0
    <3>1. s # << >>
      BY <2>1, <2>5, ListLen
    <3>2. s[1] \in Range(s)
      BY <2>2, <2>5
    <3>3. QED
      BY <2>3, <3>1, <3>2, Zenon
  <2>6. QED
    BY <2>4, <2>5
<1>5. QED
  BY <1>2, <1>3, <1>4, Zenon

\* A list with an entry has a value of S.
LEMMA SomeEach ==
  ASSUME NEW S, NEW s, OneEach(s, S), s # << >>
  PROVE  \E x \in S : x \in Range(s)
<1>1. PICK n \in Nat : s \in [1 .. n -> S]
  BY DEF OneEach, Injection
<1>2. n # 0
  BY <1>1, ListLen
<1>3. s[1] \in S /\ s[1] \in Range(s)
  BY <1>1, <1>2 DEF Range
<1>4. QED
  BY <1>3, Zenon

\* list_add_tail: adding at the end ...
LEMMA AddEach ==
  ASSUME NEW S, NEW s, OneEach(s, S), NEW x \in S, x \notin Range(s)
  PROVE  OneEach(Append(s, x), S) /\ Range(Append(s, x)) = Range(s) \cup {x}
<1>1. PICK n \in Nat : s \in Injection(1 .. n, S)
  BY Zenon DEF OneEach
<1>2. s \in [1 .. n -> S] /\ \A i, j \in 1 .. n : s[i] = s[j] => i = j
  BY <1>1 DEF Injection, IsInjective
<1>3. PICK r : r = Append(s, x)
  BY Zenon
<1>4. r \in [1 .. n + 1 -> S] /\ (\A i \in 1 .. n : r[i] = s[i]) /\ r[n + 1] = x
  <2>1. s \in Seq(S) /\ Len(s) = n
    BY <1>2
  <2>2. r \in Seq(S) /\ Len(r) = n + 1
    BY <1>3, <2>1
  <2>3. (\A i \in 1 .. n : r[i] = s[i]) /\ r[n + 1] = x
    BY <1>3, <2>1
  <2>4. r \in [1 .. n + 1 -> S]
    BY <2>2
  <2>5. QED
    BY <2>3, <2>4, Zenon
<1>5. Range(s) = {s[i] : i \in 1 .. n} /\ Range(r) = {r[i] : i \in 1 .. n + 1}
  BY <1>2, <1>4 DEF Range
<1>6. \A i \in 1 .. n + 1 : i \in 1 .. n \/ i = n + 1
  OBVIOUS
<1>7. \A i \in 1 .. n : s[i] # x /\ i \in 1 .. n + 1
  BY <1>5
<1>8. \A i, j \in 1 .. n + 1 : r[i] = r[j] => i = j
  BY <1>2, <1>4, <1>6, <1>7, Zenon
<1>9. n + 1 \in 1 .. n + 1 /\ n + 1 \in Nat
  OBVIOUS
<1>10. r \in Injection(1 .. n + 1, S)
  BY <1>4, <1>8 DEF Injection, IsInjective
<1>11. Range(r) = Range(s) \cup {x}
  <2>1. \A y \in Range(r) : y \in Range(s) \cup {x}
    BY <1>4, <1>5, <1>6
  <2>2. \A y \in Range(s) \cup {x} : y \in Range(r)
    BY <1>4, <1>5, <1>7, <1>9
  <2>3. QED
    BY <2>1, <2>2
<1>12. QED
  BY <1>3, <1>9, <1>10, <1>11, Zenon DEF OneEach

\* ... and hash_add: at the front.
LEMMA PrependEach ==
  ASSUME NEW S, NEW s, OneEach(s, S), NEW x \in S, x \notin Range(s)
  PROVE  OneEach(<<x>> \o s, S) /\ Range(<<x>> \o s) = Range(s) \cup {x}
<1>1. PICK n \in Nat : s \in Injection(1 .. n, S)
  BY Zenon DEF OneEach
<1>2. s \in [1 .. n -> S] /\ \A i, j \in 1 .. n : s[i] = s[j] => i = j
  BY <1>1 DEF Injection, IsInjective
<1>3. PICK r : r = <<x>> \o s
  BY Zenon
<1>4. r \in [1 .. n + 1 -> S] /\ (\A i \in 1 .. n : r[i + 1] = s[i]) /\ r[1] = x
  <2>1. s \in Seq(S) /\ Len(s) = n
    BY <1>2
  <2>2. /\ r \in Seq(S) /\ Len(r) = n + 1 /\ r[1] = x
        /\ \A i \in 1 .. n : r[i + 1] = s[i]
    BY <1>3, <2>1
  <2>3. r \in [1 .. n + 1 -> S]
    BY <2>2
  <2>4. QED
    BY <2>2, <2>3, Zenon
<1>5. Range(s) = {s[i] : i \in 1 .. n} /\ Range(r) = {r[i] : i \in 1 .. n + 1}
  BY <1>2, <1>4 DEF Range
<1>6. \A i \in 1 .. n + 1 : i = 1 \/ \E j \in 1 .. n : i = j + 1
  <2>1. ASSUME NEW i \in 1 .. n + 1, i # 1
        PROVE  \E j \in 1 .. n : i = j + 1
    <3>1. i - 1 \in 1 .. n /\ i = (i - 1) + 1
      BY <2>1
    <3>2. QED
      BY <3>1
  <2>2. QED
    BY <2>1
<1>7. (\A i \in 1 .. n : s[i] # x /\ i + 1 \in 1 .. n + 1) /\ 1 \in 1 .. n + 1 /\ n + 1 \in Nat
  BY <1>5
<1>8. \A i, j \in 1 .. n + 1 : r[i] = r[j] => i = j
  <2>1. SUFFICES ASSUME NEW i \in 1 .. n + 1, NEW j \in 1 .. n + 1, r[i] = r[j]
                 PROVE  i = j
    OBVIOUS
  <2>2. ASSUME NEW a \in 1 .. n, NEW b \in 1 .. n, i = a + 1, j = b + 1
        PROVE  i = j
    BY <1>2, <1>4, <2>1, <2>2, Zenon
  <2>3. QED
    <3>1. CASE i = 1
      <4>1. CASE j = 1
        BY <3>1, <4>1
      <4>2. ASSUME NEW a \in 1 .. n, j = a + 1
            PROVE  i = j
        BY <1>4, <1>7, <2>1, <3>1, <4>2, Zenon
      <4>3. QED
        BY <1>6, <4>1, <4>2, Zenon
    <3>2. ASSUME NEW a \in 1 .. n, i = a + 1
          PROVE  i = j
      <4>1. CASE j = 1
        BY <1>4, <1>7, <2>1, <3>2, <4>1, Zenon
      <4>2. ASSUME NEW b \in 1 .. n, j = b + 1
            PROVE  i = j
        BY <2>2, <3>2, <4>2, Zenon
      <4>3. QED
        BY <1>6, <4>1, <4>2, Zenon
    <3>3. QED
      BY <1>6, <3>1, <3>2, Zenon
<1>9. r \in Injection(1 .. n + 1, S)
  BY <1>4, <1>8 DEF Injection, IsInjective
<1>10. Range(r) = Range(s) \cup {x}
  <2>1. \A y \in Range(r) : y \in Range(s) \cup {x}
    BY <1>4, <1>5, <1>6
  <2>2. \A y \in Range(s) \cup {x} : y \in Range(r)
    BY <1>4, <1>5, <1>7
  <2>3. QED
    BY <2>1, <2>2
<1>11. QED
  BY <1>3, <1>7, <1>9, <1>10, Zenon DEF OneEach

\* Deleting an entry: its value is gone.
LEMMA DropEach ==
  ASSUME NEW S, NEW n \in Nat, NEW s \in Injection(1 .. n, S), NEW p \in 1 .. n
  PROVE  OneEach(DropOf(s, p, n), S) /\ Range(DropOf(s, p, n)) = Range(s) \ {s[p]}
<1>1. s \in [1 .. n -> S] /\ \A i, j \in 1 .. n : s[i] = s[j] => i = j
  BY DEF Injection, IsInjective
<1> DEFINE g(k) == IF k < p THEN k ELSE k + 1
<1>2. /\ n - 1 \in Nat
      /\ \A k \in 1 .. n - 1 : g(k) \in 1 .. n /\ g(k) # p
      /\ \A k, m \in 1 .. n - 1 : g(k) = g(m) => k = m
  OBVIOUS
<1>3. \A i \in 1 .. n : i # p => \E k \in 1 .. n - 1 : i = g(k)
  <2>1. SUFFICES ASSUME NEW i \in 1 .. n, i # p
                 PROVE  \E k \in 1 .. n - 1 : i = g(k)
    BY Zenon
  <2>2. CASE i < p
    <3>1. i \in 1 .. n - 1 /\ i = g(i)
      BY <2>2
    <3>2. QED
      BY <3>1, Zenon
  <2>3. CASE i > p
    <3>1. i - 1 \in 1 .. n - 1 /\ i = g(i - 1)
      BY <2>3
    <3>2. QED
      BY <3>1, Zenon
  <2>4. QED
    BY <2>1, <2>2, <2>3
<1>4. PICK r : r = DropOf(s, p, n) /\ r = [k \in 1 .. n - 1 |-> s[g(k)]]
  BY Zenon DEF DropOf
<1> HIDE DEF g
<1>5. r \in [1 .. n - 1 -> S] /\ \A k \in 1 .. n - 1 : r[k] = s[g(k)]
  BY <1>1, <1>2, <1>4
<1>6. r \in Injection(1 .. n - 1, S)
  <2>1. \A k, m \in 1 .. n - 1 : r[k] = r[m] => k = m
    <3>1. SUFFICES ASSUME NEW k \in 1 .. n - 1, NEW m \in 1 .. n - 1, r[k] = r[m]
                   PROVE  k = m
      OBVIOUS
    <3>2. s[g(k)] = s[g(m)] /\ g(k) \in 1 .. n /\ g(m) \in 1 .. n
      BY <1>2, <1>5, <3>1, Zenon
    <3>3. g(k) = g(m)
      BY <1>1, <3>2, Zenon
    <3>4. QED
      BY <1>2, <3>3, Zenon
  <2>2. QED
    BY <1>5, <2>1 DEF Injection, IsInjective
<1>7. Range(s) = {s[i] : i \in 1 .. n} /\ Range(r) = {r[k] : k \in 1 .. n - 1}
  BY <1>1, <1>5 DEF Range
<1>8. \A y \in Range(r) : y \in Range(s) /\ y # s[p]
  BY <1>1, <1>2, <1>5, <1>7
<1>9. \A y \in Range(s) : y # s[p] => y \in Range(r)
  <2>1. SUFFICES ASSUME NEW i \in 1 .. n, s[i] # s[p]
                 PROVE  s[i] \in Range(r)
    BY <1>7
  <2>2. PICK k \in 1 .. n - 1 : i = g(k)
    BY <1>3, <2>1
  <2>3. QED
    BY <1>5, <1>7, <2>2
<1>10. Range(r) = Range(s) \ {s[p]}
  BY <1>8, <1>9
<1>11. QED
  BY <1>2, <1>4, <1>6, <1>10, Zenon DEF OneEach

\* hash_del and list_del: the deleted value is gone, and is the one selected before.
LEMMA RemoveEach ==
  ASSUME NEW S, NEW s, OneEach(s, S), NEW x \in Range(s)
  PROVE  /\ OneEach(Select(s, DOMAIN s \ Places(s, x)), S)
         /\ Range(Select(s, DOMAIN s \ Places(s, x))) = Range(s) \ {x}
         /\ Select(s, Places(s, x)) \in [1 .. 1 -> S] /\ Select(s, Places(s, x))[1] = x
<1>1. PICK n \in Nat : s \in Injection(1 .. n, S)
  BY Zenon DEF OneEach
<1>2. s \in [1 .. n -> S] /\ \A i, j \in 1 .. n : s[i] = s[j] => i = j
  BY <1>1 DEF Injection, IsInjective
<1>3. DOMAIN s = 1 .. n
  BY <1>2
<1>4. PICK p \in 1 .. n : s[p] = x
  BY <1>3 DEF Range
<1>5. Places(s, x) = {p}
  BY <1>2, <1>3, <1>4 DEF Places
<1>6. Select(s, (1 .. n) \ {p}) = DropOf(s, p, n)
  BY <1>2, SelectOut, Zenon
<1>7. Select(s, {p}) \in [1 .. 1 -> S] /\ Select(s, {p})[1] = x
  <2>1. s \in [1 .. n -> S]
    BY <1>2
  <2>2. Select(s, {p}) \in [1 .. 1 -> S] /\ Select(s, {p})[1] = s[p]
    BY <2>1, SelectOne
  <2>3. QED
    BY <1>4, <2>2, Zenon
<1>8. /\ OneEach(Select(s, (1 .. n) \ {p}), S)
      /\ Range(Select(s, (1 .. n) \ {p})) = Range(s) \ {x}
  <2>1. /\ OneEach(DropOf(s, p, n), S)
        /\ Range(DropOf(s, p, n)) = Range(s) \ {s[p]}
    BY <1>1, DropEach
  <2>2. QED
    BY <1>4, <1>6, <2>1, Zenon
<1>9. QED
  BY <1>3, <1>5, <1>7, <1>8, Zenon

\* The list without its first entry.
LEMMA TailEach ==
  ASSUME NEW S, NEW s, OneEach(s, S), s # << >>
  PROVE  s[1] \in Range(s) /\ OneEach(Tail(s), S) /\ Range(Tail(s)) = Range(s) \ {s[1]}
<1>1. PICK n \in Nat : s \in Injection(1 .. n, S)
  BY Zenon DEF OneEach
<1>2. s \in [1 .. n -> S]
  BY <1>1 DEF Injection
<1>3. n # 0 /\ 1 \in 1 .. n
  BY <1>2, ListLen
<1>4. Tail(s) = DropOf(s, 1, n)
  <2>1. s \in Seq(S) /\ Len(s) = n
    BY <1>2
  <2>2. PICK r : r = Tail(s)
    BY Zenon
  <2>3. r \in Seq(S) /\ Len(r) = n - 1 /\ \A k \in 1 .. n - 1 : r[k] = s[k + 1]
    BY <1>3, <2>1, <2>2
  <2>4. r \in [1 .. n - 1 -> S]
    BY <2>3
  <2>5. \A k \in 1 .. n - 1 : r[k] = s[IF k < 1 THEN k ELSE k + 1]
    BY <2>3
  <2>6. r = [k \in 1 .. n - 1 |-> s[IF k < 1 THEN k ELSE k + 1]]
    BY <2>4, <2>5
  <2>7. QED
    BY <2>2, <2>6, Zenon DEF DropOf
<1>5. s[1] \in Range(s)
  BY <1>2, <1>3 DEF Range
<1>6. OneEach(Tail(s), S) /\ Range(Tail(s)) = Range(s) \ {s[1]}
  <2>1. OneEach(DropOf(s, 1, n), S) /\ Range(DropOf(s, 1, n)) = Range(s) \ {s[1]}
    BY <1>1, <1>3, DropEach
  <2>2. QED
    BY <1>4, <2>1, Zenon
<1>7. QED
  BY <1>5, <1>6

--------------------------------------------------------------------------------
(* The free list.                                                          *)

\* There is a last chunk, and no chunk is the null pointer.
LEMMA CtidFacts == N_CTID_MAX \in Nat \ {0} /\ Last \in Ctids /\ Nil \notin Ctids
  BY CtidAssumption DEF Last, Ctids, Nil

\* While another ctid is left, the head of the list is a chunk with its own number.
LEMMA FreeRoom ==
  ASSUME NEW h, NEW f, NEW L \in SUBSET Ctids, FreeOver(h, f, L),
         Cardinality(L) < N_CTID_MAX - 1
  PROVE  h \in Ctids \ L /\ h # Last /\ ChunkId(h) = h
<1>1. PICK n \in Nat \ {0} : \E s \in Injection(1 .. n, Ctids) :
        Linked(h, f, s, n) /\ Range(s) = Ctids \ L
  BY Zenon DEF FreeOver
<1>2. PICK s \in Injection(1 .. n, Ctids) : Linked(h, f, s, n) /\ Range(s) = Ctids \ L
  BY <1>1, Zenon
<1>3. s \in [1 .. n -> Ctids] /\ \A i, j \in 1 .. n : s[i] = s[j] => i = j
  BY <1>2 DEF Injection, IsInjective
<1>4. h = s[1] /\ s[n] = Last
  BY <1>2, Zenon DEF Linked
<1>5. h \in Ctids \ L
  BY <1>2, <1>3, <1>4 DEF Range
<1>6. ASSUME h = Last
      PROVE  FALSE
  <2>1. n = 1
    <3>1. 1 \in 1 .. n /\ n \in 1 .. n
      OBVIOUS
    <3>2. QED
      BY <1>3, <1>4, <1>6, <3>1, Zenon
  <2>2. Ctids \ L = {Last}
    BY <1>2, <1>3, <1>4, <2>1 DEF Range
  <2>3. L = 0 .. N_CTID_MAX - 2
    <3>1. \A x \in Ctids : x \in 0 .. N_CTID_MAX - 2 <=> x # Last
      BY CtidAssumption DEF Ctids, Last
    <3>2. 0 .. N_CTID_MAX - 2 \subseteq Ctids
      BY CtidAssumption DEF Ctids
    <3>3. \A x \in Ctids : x \in L <=> x # Last
      BY <2>2, CtidFacts
    <3>4. QED
      BY <3>1, <3>2, <3>3, Zenon
  <2>4. 0 \in Int /\ N_CTID_MAX - 2 \in Int
        /\ (IF 0 > N_CTID_MAX - 2 THEN 0 ELSE N_CTID_MAX - 2 - 0 + 1) = N_CTID_MAX - 1
    BY CtidAssumption
  <2>5. Cardinality(L) = N_CTID_MAX - 1
    BY <2>3, <2>4, FS_Interval
  <2>6. QED
    BY <2>5, CtidAssumption
<1>7. QED
  BY <1>5, <1>6, CtidAssumption DEF ChunkId, Ctids, Last

\* Taking the head of the list.
LEMMA PopFree ==
  ASSUME NEW h, NEW f, NEW L, FreeOver(h, f, L), h # Last
  PROVE  FreeOver(f[h], f, L \cup {h})
<1>1. PICK n \in Nat \ {0} : \E s \in Injection(1 .. n, Ctids) :
        Linked(h, f, s, n) /\ Range(s) = Ctids \ L
  BY Zenon DEF FreeOver
<1>2. PICK s \in Injection(1 .. n, Ctids) : Linked(h, f, s, n) /\ Range(s) = Ctids \ L
  BY <1>1, Zenon
<1>3. s \in [1 .. n -> Ctids] /\ \A i, j \in 1 .. n : s[i] = s[j] => i = j
  BY <1>2 DEF Injection, IsInjective
<1>4. /\ h = s[1] /\ s[n] = Last
      /\ \A i \in 1 .. n : f[s[i]] = IF i = n THEN Nil ELSE s[i + 1]
  BY <1>2, Zenon DEF Linked
<1>5. n # 1
  BY <1>4
<1> DEFINE t == [i \in 1 .. n - 1 |-> s[i + 1]]
<1>6. t \in Injection(1 .. n - 1, Ctids)
  BY <1>3, <1>5 DEF Injection, IsInjective
<1>7. Linked(f[h], f, t, n - 1)
  <2>1. f[h] = t[1] /\ t[n - 1] = Last
    BY <1>4, <1>5
  <2>2. ASSUME NEW i \in 1 .. n - 1
        PROVE  f[t[i]] = IF i = n - 1 THEN Nil ELSE t[i + 1]
    <3>1. i + 1 \in 1 .. n /\ t[i] = s[i + 1] /\ (i + 1 = n <=> i = n - 1)
          /\ (i # n - 1 => t[i + 1] = s[i + 1 + 1])
      OBVIOUS
    <3>2. QED
      BY <1>4, <3>1
  <2>3. QED
    BY <2>1, <2>2, Zenon DEF Linked
<1>8. Range(t) = Ctids \ (L \cup {h})
  <2>1. Range(s) = {s[i] : i \in 1 .. n}
    BY <1>3 DEF Range
  <2>2. ASSUME NEW x \in Ctids \ (L \cup {h})
        PROVE  \E i \in 1 .. n - 1 : x = t[i]
    <3>1. PICK i \in 1 .. n : x = s[i]
      BY <1>2, <2>1, <2>2
    <3>2. i # 1
      BY <1>4, <3>1
    <3>3. i - 1 \in 1 .. n - 1 /\ t[i - 1] = s[i]
      BY <3>2
    <3>4. QED
      BY <3>1, <3>3
  <2>3. ASSUME NEW i \in 1 .. n - 1
        PROVE  t[i] \in Ctids \ (L \cup {h})
    <3>1. i + 1 \in 1 .. n /\ i + 1 # 1 /\ 1 \in 1 .. n /\ t[i] = s[i + 1]
      OBVIOUS
    <3>2. t[i] \in Ctids \ L
      BY <1>2, <2>1, <3>1
    <3>3. t[i] # h
      BY <1>3, <1>4, <3>1
    <3>4. QED
      BY <3>2, <3>3
  <2>4. DOMAIN t = 1 .. n - 1
    OBVIOUS
  <2> HIDE DEF t
  <2>5. QED
    BY <2>2, <2>3, <2>4, Zenon DEF Range
<1>9. n - 1 \in Nat \ {0}
  BY <1>5
<1>10. QED
  BY <1>6, <1>7, <1>8, <1>9, Zenon DEF FreeOver

\* The links g and the head k come from f and h by putting the m chunks of cs back,
\* one by one.
Pushed(g, k, h, f, cs, m) ==
  /\ k = IF m = 0 THEN h ELSE cs[m]
  /\ \A i \in 1 .. m : g[cs[i]] = IF i = 1 THEN h ELSE cs[i - 1]
  /\ \A c \in Ctids \ Range(cs) : g[c] = f[c]

\* ... which leaves them before the others.
LEMMA PushFree ==
  ASSUME NEW h, NEW f, NEW L, FreeOver(h, f, L), NEW m \in Nat,
         NEW cs \in Injection(1 .. m, Ctids), Range(cs) \subseteq L,
         NEW g, NEW k, Pushed(g, k, h, f, cs, m)
  PROVE  FreeOver(k, g, L \ Range(cs))
<1>1. PICK n \in Nat \ {0} : \E s \in Injection(1 .. n, Ctids) :
        Linked(h, f, s, n) /\ Range(s) = Ctids \ L
  BY Zenon DEF FreeOver
<1>2. PICK s \in Injection(1 .. n, Ctids) : Linked(h, f, s, n) /\ Range(s) = Ctids \ L
  BY <1>1, Zenon
<1>3. s \in [1 .. n -> Ctids] /\ \A i, j \in 1 .. n : s[i] = s[j] => i = j
  BY <1>2 DEF Injection, IsInjective
<1>4. /\ h = s[1] /\ s[n] = Last
      /\ \A i \in 1 .. n : f[s[i]] = IF i = n THEN Nil ELSE s[i + 1]
  BY <1>2, Zenon DEF Linked
<1>5. cs \in [1 .. m -> Ctids] /\ \A i, j \in 1 .. m : cs[i] = cs[j] => i = j
  BY DEF Injection, IsInjective
<1>6. /\ \A i \in 1 .. m : cs[i] \in L /\ cs[i] \in Range(cs)
      /\ \A i \in 1 .. n : s[i] \in Ctids /\ s[i] \notin L /\ s[i] \notin Range(cs)
  <2>1. \A i \in 1 .. m : cs[i] \in Range(cs)
    BY <1>5, Zenon DEF Range
  <2>2. \A i \in 1 .. n : s[i] \in Range(s)
    BY <1>3, Zenon DEF Range
  <2>3. QED
    BY <1>2, <2>1, <2>2, Zenon
<1> DEFINE r == [i \in 1 .. m + n |-> IF i <= m THEN cs[m + 1 - i] ELSE s[i - m]]
<1>7. /\ \A i \in 1 .. m : m + 1 - i \in 1 .. m /\ i \in 1 .. m + n /\ r[i] = cs[m + 1 - i]
      /\ \A i \in 1 .. n : m + i \in 1 .. m + n /\ r[m + i] = s[i]
      /\ \A i \in 1 .. m + n : i \in 1 .. m \/ \E j \in 1 .. n : i = m + j
      /\ DOMAIN r = 1 .. m + n /\ m + n \in Nat \ {0}
  <2>1. \A i \in 1 .. m : m + 1 - i \in 1 .. m /\ i \in 1 .. m + n /\ r[i] = cs[m + 1 - i]
    OBVIOUS
  <2>2. ASSUME NEW i \in 1 .. n
        PROVE  m + i \in 1 .. m + n /\ r[m + i] = s[i]
    <3>1. m + i \in 1 .. m + n /\ ~(m + i <= m) /\ (m + i) - m = i
      OBVIOUS
    <3>2. r[m + i] = s[(m + i) - m]
      BY <3>1
    <3>3. QED
      BY <3>1, <3>2
  <2>3. ASSUME NEW i \in 1 .. m + n, i \notin 1 .. m
        PROVE  \E j \in 1 .. n : i = m + j
    <3>1. i - m \in 1 .. n /\ i = m + (i - m)
      BY <2>3
    <3>2. QED
      BY <3>1
  <2>4. DOMAIN r = 1 .. m + n /\ m + n \in Nat \ {0}
    OBVIOUS
  <2>5. QED
    BY <2>1, <2>2, <2>3, <2>4, Zenon
<1> HIDE DEF r
<1>8. r \in [1 .. m + n -> Ctids]
  <2>1. ASSUME NEW i \in 1 .. m + n
        PROVE  r[i] \in Ctids
    <3>1. CASE i \in 1 .. m
      BY <1>5, <1>7, <3>1
    <3>2. ASSUME NEW j \in 1 .. n, i = m + j
          PROVE  r[i] \in Ctids
      BY <1>6, <1>7, <3>2, Zenon
    <3>3. QED
      BY <1>7, <3>1, <3>2, Zenon
  <2>2. QED
    BY <2>1 DEF r
<1>9. \A i, j \in 1 .. m + n : r[i] = r[j] => i = j
  <2>1. SUFFICES ASSUME NEW i \in 1 .. m + n, NEW j \in 1 .. m + n, r[i] = r[j]
                 PROVE  i = j
    BY Zenon
  <2>2. CASE i \in 1 .. m /\ j \in 1 .. m
    <3>1. m + 1 - i = m + 1 - j
      BY <1>5, <1>7, <2>1, <2>2
    <3>2. QED
      BY <3>1
  <2>3. ASSUME NEW a \in 1 .. n, NEW b \in 1 .. n, i = m + a, j = m + b
        PROVE  i = j
    BY <1>3, <1>7, <2>1, <2>3
  <2>4. ASSUME NEW a \in 1 .. n, \/ i \in 1 .. m /\ j = m + a
                                 \/ j \in 1 .. m /\ i = m + a
        PROVE  FALSE
    <3>1. s[a] \notin L /\ r[m + a] = s[a]
      BY <1>6, <1>7
    <3>2. \A l \in 1 .. m : r[l] \in L
      BY <1>6, <1>7, Zenon
    <3>3. QED
      BY <2>1, <2>4, <3>1, <3>2, Zenon
  <2>5. QED
    BY <1>7, <2>2, <2>3, <2>4, Zenon
<1>10. k = r[1]
  <2>1. CASE m = 0
    <3>1. r[0 + 1] = s[1]
      BY <1>7, <2>1
    <3>2. QED
      BY <1>4, <2>1, <3>1 DEF Pushed
  <2>2. CASE m # 0
    <3>1. r[1] = cs[m + 1 - 1] /\ m + 1 - 1 = m
      BY <1>7, <2>2
    <3>2. QED
      BY <2>2, <3>1, Zenon DEF Pushed
  <2>3. QED
    BY <2>1, <2>2
<1>11. r[m + n] = Last
  BY <1>4, <1>7
<1>12. ASSUME NEW i \in 1 .. m + n
       PROVE  g[r[i]] = IF i = m + n THEN Nil ELSE r[i + 1]
  <2>1. CASE i \in 1 .. m
    <3>1. i # m + n
      BY <2>1
    <3>2. m + 1 - i \in 1 .. m /\ r[i] = cs[m + 1 - i]
      BY <1>7, <2>1, Zenon
    <3>3. g[r[i]] = IF m + 1 - i = 1 THEN h ELSE cs[(m + 1 - i) - 1]
      BY <3>2, Zenon DEF Pushed
    <3>4. CASE i = m
      <4>1. m + 1 - i = 1 /\ i + 1 = m + 1 /\ 1 \in 1 .. n
        BY <3>4
      <4>2. r[m + 1] = s[1]
        BY <1>7, <4>1
      <4>3. QED
        BY <1>4, <3>1, <3>3, <4>1, <4>2, Zenon
    <3>5. CASE i # m
      <4>1. m + 1 - i # 1 /\ i + 1 \in 1 .. m /\ (m + 1 - i) - 1 = m + 1 - (i + 1)
        BY <2>1, <3>5
      <4>2. r[i + 1] = cs[m + 1 - (i + 1)]
        BY <1>7, <4>1, Zenon
      <4>3. QED
        BY <3>1, <3>3, <4>1, <4>2, Zenon
    <3>6. QED
      BY <3>4, <3>5, Zenon
  <2>2. ASSUME NEW j \in 1 .. n, i = m + j
        PROVE  g[r[i]] = IF i = m + n THEN Nil ELSE r[i + 1]
    <3>1. r[i] = s[j] /\ s[j] \in Ctids /\ s[j] \notin Range(cs)
      BY <1>6, <1>7, <2>2, Zenon
    <3>2. g[r[i]] = f[s[j]]
      BY <3>1, Zenon DEF Pushed
    <3>3. g[r[i]] = IF j = n THEN Nil ELSE s[j + 1]
      BY <1>4, <3>2, Zenon
    <3>4. (i = m + n <=> j = n) /\ (j # n => j + 1 \in 1 .. n /\ i + 1 = m + (j + 1))
      BY <2>2
    <3>5. ASSUME j # n
          PROVE  r[i + 1] = s[j + 1]
      <4>1. j + 1 \in 1 .. n /\ i + 1 = m + (j + 1)
        BY <3>4, <3>5, Zenon
      <4>2. r[m + (j + 1)] = s[j + 1]
        BY <1>7, <4>1, Zenon
      <4>3. QED
        BY <4>1, <4>2, Zenon
    <3>6. QED
      BY <3>3, <3>4, <3>5, Zenon
  <2>3. QED
    BY <1>7, <2>1, <2>2, Zenon
<1>13. Range(r) = Ctids \ (L \ Range(cs))
  <2>1. \A i \in 1 .. m + n : r[i] \in Ctids \ (L \ Range(cs))
    <3>1. \A i \in 1 .. m : r[i] \in Ctids /\ r[i] \in Range(cs)
      BY <1>6, <1>7, <1>8
    <3>2. \A i \in 1 .. n : r[m + i] \in Ctids /\ r[m + i] \notin L
      BY <1>6, <1>7, Zenon
    <3>3. ASSUME NEW i \in 1 .. m + n
          PROVE  r[i] \in Ctids \ (L \ Range(cs))
      <4>1. CASE i \in 1 .. m
        BY <3>1, <4>1, Zenon
      <4>2. ASSUME NEW j \in 1 .. n, i = m + j
            PROVE  r[i] \in Ctids \ (L \ Range(cs))
        BY <3>2, <4>2, Zenon
      <4>3. QED
        BY <1>7, <4>1, <4>2, Zenon
    <3>4. QED
      BY <3>3, Zenon
  <2>2. ASSUME NEW x \in Ctids \ (L \ Range(cs))
        PROVE  \E i \in 1 .. m + n : x = r[i]
    <3>1. CASE x \in Range(cs)
      <4>1. PICK i \in 1 .. m : x = cs[i]
        BY <1>5, <3>1 DEF Range
      <4>2. m + 1 - i \in 1 .. m /\ m + 1 - (m + 1 - i) = i
        OBVIOUS
      <4>3. r[m + 1 - i] = cs[m + 1 - (m + 1 - i)] /\ m + 1 - i \in 1 .. m + n
        BY <1>7, <4>2, Zenon
      <4>4. QED
        BY <4>1, <4>2, <4>3, Zenon
    <3>2. CASE x \notin Range(cs)
      <4>1. x \in Range(s)
        BY <1>2, <2>2, <3>2, Zenon
      <4>2. PICK i \in 1 .. n : x = s[i]
        BY <1>3, <4>1 DEF Range
      <4>3. QED
        BY <1>7, <4>2, Zenon
    <3>3. QED
      BY <3>1, <3>2
  <2>3. QED
    BY <1>7, <2>1, <2>2, Zenon DEF Range
<1>14. Linked(k, g, r, m + n)
  BY <1>10, <1>11, <1>12, Zenon DEF Linked
<1>15. r \in Injection(1 .. m + n, Ctids)
  BY <1>7, <1>8, <1>9, Zenon DEF Injection, IsInjective
<1>16. QED
  BY <1>7, <1>13, <1>14, <1>15, Zenon DEF FreeOver

\* PushedNext and PushedAlloc put the ctids of a list without repetition back.
LEMMA PushedLinks ==
  ASSUME NEW m \in Nat, NEW cs \in Injection(1 .. m, Ctids)
  PROVE  Pushed(PushedNext(cs), PushedAlloc(cs), pid_alloc, next, cs, m)
<1>1. cs \in [1 .. m -> Ctids] /\ \A i, j \in 1 .. m : cs[i] = cs[j] => i = j
  BY DEF Injection, IsInjective
<1>2. Len(cs) = m /\ DOMAIN cs = 1 .. m /\ (cs = << >> <=> m = 0)
  BY <1>1, ListLen
<1>3. \A i \in 1 .. m : cs[i] \in Ctids /\ cs[i] \in Range(cs)
  BY <1>1, <1>2, Zenon DEF Range
<1>4. ASSUME NEW i \in 1 .. m
      PROVE  PushedNext(cs)[cs[i]] = IF i = 1 THEN pid_alloc ELSE cs[i - 1]
  <2> DEFINE last(c, k) == cs[k] = c /\ \A l \in DOMAIN cs : cs[l] = c => l <= k
  <2>1. last(cs[i], i) /\ i \in DOMAIN cs
    BY <1>1, <1>2
  <2>2. \A k \in DOMAIN cs : last(cs[i], k) => k = i
    BY <1>1, <1>2, Zenon
  <2>3. PushedNext(cs)[cs[i]] =
          LET j == CHOOSE k \in DOMAIN cs : last(cs[i], k)
          IN  IF j = 1 THEN pid_alloc ELSE cs[j - 1]
    BY <1>3, Zenon DEF PushedNext
  <2> HIDE DEF last
  <2>4. (CHOOSE k \in DOMAIN cs : last(cs[i], k)) = i
    BY <2>1, <2>2, Zenon
  <2>5. QED
    BY <2>3, <2>4, Zenon
<1>5. \A c \in Ctids \ Range(cs) : PushedNext(cs)[c] = next[c]
  BY Zenon DEF PushedNext
<1>6. PushedAlloc(cs) = IF m = 0 THEN pid_alloc ELSE cs[m]
  BY <1>2, Zenon DEF PushedAlloc
<1>7. QED
  BY <1>4, <1>5, <1>6, Zenon DEF Pushed
--------------------------------------------------------------------------------
(* The count of open files.                                                *)

\* The open files can be counted.
LEMMA FilesFinite == IsFiniteSet(Files) /\ Cardinality(Files) \in Nat
<1>1. Files \in SUBSET Cthreads
  BY Zenon DEF Files
<1>2. IsFiniteSet(Files)
  BY <1>1, CtidAssumption, FS_Subset, Zenon
<1>3. QED
  BY <1>2, FS_CardinalityType, Zenon

\* Steps between opening and closing do not change it.
LEMMA CountKept ==
  ASSUME Counted, ref_cnt' = ref_cnt, seen' = seen,
         \A u \in Cthreads :
           /\ \/ state'[u] = state[u]
              \/ {state[u], state'[u]} \subseteq {"open", "registered", "unregistered"}
           /\ state[u] # "releasing" => cursor'[u] = cursor[u]
  PROVE  Counted' /\ Files' = Files
<1>1. Files' = Files
  BY DEF Files
<1>2. \A u \in Cthreads :
        /\ state'[u] \in Moving <=> state[u] \in Moving
        /\ state'[u] \in Moving => state'[u] = state[u]
        /\ state'[u] = "releasing" <=> state[u] = "releasing"
  BY DEF Moving
<1>3. QED
  BY <1>1, <1>2 DEF Counted, Moving

\* vfpga_dev_open loads ref_cnt: nobody else is between load and store.
LEMMA OpenLoadCount ==
  ASSUME TypeOK, Counted, Calm, NEW t \in Cthreads, OpenLoad(t)
  PROVE  Counted' /\ Files' = Files
<1>1. /\ state[t] = "closed" /\ Quiet(t)
      /\ seen' = [seen EXCEPT ![t] = ref_cnt] /\ state' = [state EXCEPT ![t] = "opening"]
      /\ ref_cnt' = ref_cnt /\ cursor' = cursor
  BY DEF OpenLoad, Calm
<1>2. /\ state'[t] = "opening" /\ seen'[t] = ref_cnt
      /\ \A u \in Cthreads \ {t} :
           state'[u] = state[u] /\ seen'[u] = seen[u] /\ state[u] \notin Moving
  BY <1>1 DEF TypeOK, Quiet, Moving
<1>3. Files' = Files
  BY <1>1, <1>2 DEF Files
<1>4. QED
  BY <1>1, <1>2, <1>3 DEF Counted, Moving

\* It stores the count with one file more.
LEMMA OpenStoreCount ==
  ASSUME TypeOK, Counted, NEW t \in Cthreads, OpenStore(t)
  PROVE  Counted' /\ Files' = Files \cup {t}
<1>1. /\ state[t] = "opening" /\ ref_cnt' = seen[t] + 1 /\ cursor' = cursor
      /\ seen' = [seen EXCEPT ![t] = 0] /\ state' = [state EXCEPT ![t] = "open"]
  BY DEF OpenStore
<1>2. /\ state'[t] = "open"
      /\ \A u \in Cthreads \ {t} : state'[u] = state[u] /\ state[u] \notin Moving
  BY <1>1 DEF TypeOK, Counted, Moving
<1>3. Files' = Files \cup {t} /\ t \notin Files
  BY <1>1, <1>2 DEF Files
<1>4. Cardinality(Files \cup {t}) = Cardinality(Files) + 1
  BY <1>3, FilesFinite, FS_AddElement, Zenon
<1>5. ref_cnt' = Cardinality(Files')
  BY <1>1, <1>3, <1>4 DEF Counted
<1>6. QED
  BY <1>1, <1>2, <1>3, <1>5 DEF Counted, Moving

\* vfpga_dev_release loads ref_cnt; its file still counts.
LEMMA CloseLoadCount ==
  ASSUME TypeOK, Counted, Calm, NEW t \in Cthreads, CloseLoad(t)
  PROVE  Counted' /\ Files' = Files
<1>1. /\ state[t] \in {"open", "registered", "unregistered"} /\ Quiet(t)
      /\ seen' = [seen EXCEPT ![t] = ref_cnt] /\ state' = [state EXCEPT ![t] = "closing"]
      /\ ref_cnt' = ref_cnt /\ cursor' = cursor
  BY DEF CloseLoad, Calm
<1>2. /\ state'[t] = "closing" /\ seen'[t] = ref_cnt
      /\ \A u \in Cthreads \ {t} :
           state'[u] = state[u] /\ seen'[u] = seen[u] /\ state[u] \notin Moving
  BY <1>1 DEF TypeOK, Quiet, Moving
<1>3. Files' = Files
  BY <1>1, <1>2 DEF Files
<1>4. QED
  BY <1>1, <1>2, <1>3 DEF Counted, Moving

\* The last file to be closed starts the walk.
LEMMA CloseStoreCount ==
  ASSUME TypeOK, Counted, NEW t \in Cthreads, CloseStore(t)
  PROVE  /\ Counted' /\ Files' = Files \ {t}
         /\ state' = [state EXCEPT ![t] = IF Files' = {} THEN "releasing" ELSE "closed"]
<1>1. /\ state[t] = "closing" /\ ref_cnt' = seen[t] - 1 /\ cursor' = cursor
      /\ seen' = [seen EXCEPT ![t] = 0]
      /\ state' = [state EXCEPT ![t] = IF seen[t] - 1 = 0 THEN "releasing" ELSE "closed"]
  BY DEF CloseStore, LastFile
<1>2. /\ state'[t] \in {"releasing", "closed"}
      /\ \A u \in Cthreads \ {t} : state'[u] = state[u] /\ state[u] \notin Moving
  BY <1>1 DEF TypeOK, Counted, Moving
<1>3. Files' = Files \ {t} /\ t \in Files
  BY <1>1, <1>2 DEF Files
<1>4. IsFiniteSet(Files \ {t}) /\ Cardinality(Files \ {t}) = Cardinality(Files) - 1
  BY <1>3, FilesFinite, FS_RemoveElement, Zenon
<1>5. seen[t] - 1 = Cardinality(Files') /\ ref_cnt' = Cardinality(Files')
  BY <1>1, <1>3, <1>4 DEF Counted
<1>6. Cardinality(Files') = 0 <=> Files' = {}
  BY <1>3, <1>4, FS_EmptySet, Zenon
<1>7. state' = [state EXCEPT ![t] = IF Files' = {} THEN "releasing" ELSE "closed"]
  BY <1>1, <1>5, <1>6, Zenon
<1>8. state'[t] = "releasing" => Files' = {}
  BY <1>7 DEF TypeOK
<1>9. QED
  BY <1>1, <1>2, <1>3, <1>5, <1>7, <1>8, Zenon DEF Counted, Moving

\* The walk ends and the cThread is closed.
LEMMA ReleaseDoneCount ==
  ASSUME TypeOK, Counted, NEW t \in Cthreads, ReleaseDone(t)
  PROVE  Counted' /\ Files' = Files
<1>1. /\ state[t] = "releasing" /\ ref_cnt' = ref_cnt /\ seen' = seen
      /\ cursor' = [cursor EXCEPT ![t] = 0] /\ state' = [state EXCEPT ![t] = "closed"]
  BY DEF ReleaseDone
<1>2. /\ state'[t] = "closed" /\ cursor'[t] = 0
      /\ \A u \in Cthreads \ {t} :
           state'[u] = state[u] /\ cursor'[u] = cursor[u] /\ state[u] \notin Moving
  BY <1>1 DEF TypeOK, Counted, Moving
<1>3. Files' = Files
  BY <1>1, <1>2 DEF Files
<1>4. QED
  BY <1>1, <1>2, <1>3 DEF Counted, Moving

--------------------------------------------------------------------------------
(* The table.                                                              *)

\* A ctid in use is on one list, that of the process pid_array gives.
LEMMA ListedFacts ==
  ASSUME Owned
  PROVE  /\ Listed \in SUBSET Ctids
         /\ \A h \in Hpids : \A c \in Range(ctid_list[h]) : c \in Listed /\ pid_array[c] = h
         /\ \A c \in Listed : \E h \in Hpids : c \in Range(ctid_list[h])
<1>1. \A h \in Hpids :
        Range(ctid_list[h]) \subseteq Ctids /\ \A c \in Range(ctid_list[h]) : pid_array[c] = h
  BY EmptyEach, Zenon DEF Owned, OneList
<1>2. \A c : c \in Listed <=> \E h \in Hpids : c \in Range(ctid_list[h])
  BY DEF Listed
<1>3. QED
  BY <1>1, <1>2, Zenon

\* Steps that leave the lists alone.
LEMMA TableKept ==
  ASSUME Owned, Chained, FreeOver(pid_alloc, next, Listed),
         UNCHANGED <<next, pid_alloc, pid_array, chain, ctid_list, env>>,
         \A t \in Cthreads :
           state'[t] = "registered" => state[t] = "registered" /\ ctid'[t] = ctid[t]
  PROVE  Owned' /\ Chained' /\ FreeOver(pid_alloc, next, Listed)' /\ Listed' = Listed
<1>1. Listed' = Listed
  BY Zenon DEF Listed
<1>2. FreeOver(pid_alloc, next, Listed)'
  BY <1>1 DEF FreeOver, Linked
<1>3. Chained'
  BY DEF Chained, InBucket, Bucket
<1>4. Owned'
  <2>1. \A h \in Hpids : OneList(ctid_list[h], h, pid_array)'
    BY DEF Owned, OneList
  <2>2. QED
    BY <2>1 DEF Owned
<1>5. QED
  BY <1>1, <1>2, <1>3, <1>4

\* The lists after that of process h became r.
LEMMA ListReplaced ==
  ASSUME DOMAIN ctid_list = Hpids, NEW h \in Hpids, NEW r,
         ctid_list' = [ctid_list EXCEPT ![h] = r]
  PROVE  ctid_list'[h] = r /\ \A g \in Hpids : g # h => ctid_list'[g] = ctid_list[g]
  OBVIOUS

\* hash_add uses a bucket of the map.
LEMMA BucketType == \A h \in Hpids : Bucket(h) \in Buckets
  BY CtidAssumption DEF Bucket, Buckets

\* The bucket of process h, whose list changed, became e.
LEMMA ChainChange ==
  ASSUME Chained, env' = env, NEW h \in Hpids,
         \A g \in Hpids : g # h => ctid_list'[g] = ctid_list[g],
         OneEach(chain'[Bucket(h)], Hpids),
         h \in Range(chain'[Bucket(h)]) <=> ctid_list'[h] # << >>,
         \A g \in Hpids :
           g # h => (g \in Range(chain'[Bucket(h)]) <=> g \in Range(chain[Bucket(h)])),
         \A b \in Buckets : b # Bucket(h) => chain'[b] = chain[b]
  PROVE  Chained'
<1>1. \A g \in Hpids : Bucket(g)' = Bucket(g)
  BY DEF Bucket
<1>2. ASSUME NEW b \in Buckets, b # Bucket(h)
      PROVE  InBucket(chain[b], b, ctid_list)'
  BY <1>1, <1>2 DEF Chained, InBucket
<1>3. ASSUME NEW b \in Buckets, b = Bucket(h)
      PROVE  InBucket(chain[b], b, ctid_list)'
  <2>1. OneEach(chain'[b], Hpids)
    BY <1>3
  <2>2. ASSUME NEW g \in Hpids
        PROVE  g \in Range(chain'[b]) <=> Bucket(g)' = b /\ ctid_list'[g] # << >>
    BY <1>1, <1>3 DEF Chained, InBucket
  <2>3. QED
    BY <2>1, <2>2 DEF InBucket
<1>4. QED
  BY <1>2, <1>3 DEF Chained

\* A thread that registers takes the head of the free list.
LEMMA RegisterTable ==
  ASSUME TypeOK, Calm, Owned, Chained, FreeOver(pid_alloc, next, Listed),
         NEW t \in Cthreads, Register(t)
  PROVE  /\ pid_alloc \in Ctids \ Listed /\ ctid' = [ctid EXCEPT ![t] = pid_alloc]
         /\ pid_array' = [pid_array EXCEPT ![pid_alloc] = HpidOf[t]]
         /\ Owned' /\ Chained' /\ FreeOver(pid_alloc, next, Listed)'
         /\ Listed' = Listed \cup {pid_alloc}
<1>1. pid_alloc \in Ctids \ Listed /\ pid_alloc # Last /\ ChunkId(pid_alloc) = pid_alloc
  <2>1. Cardinality(Listed) < N_CTID_MAX - 1
    BY DEF Register, Calm
  <2>2. Listed \in SUBSET Ctids
    BY ListedFacts
  <2>3. QED
    BY <2>1, <2>2, FreeRoom
<1>2. PICK id : id = pid_alloc
  BY Zenon
<1>3. PICK h \in Hpids : h = HpidOf[t]
  BY DEF Hpids
<1>4. PICK r : r = Append(ctid_list[h], id)
  BY Zenon
<1>5. /\ state[t] = "open" /\ state' = [state EXCEPT ![t] = "registered"]
      /\ ctid' = [ctid EXCEPT ![t] = id] /\ pid_array' = [pid_array EXCEPT ![id] = h]
      /\ ctid_list' = [ctid_list EXCEPT ![h] = r]
      /\ chain' = IF ctid_list[h] = << >> THEN [chain EXCEPT ![Bucket(h)] = <<h>> \o @] ELSE chain
      /\ pid_alloc' = next[id] /\ next' = next /\ env' = env
  BY <1>1, <1>2, <1>3, <1>4, Zenon DEF Register, AfterHead
<1>6. ctid_list'[h] = r /\ \A g \in Hpids : g # h => ctid_list'[g] = ctid_list[g]
  BY <1>5, ListReplaced DEF TypeOK
<1>7. OneEach(ctid_list[h], Ctids) /\ id \in Ctids /\ id \notin Range(ctid_list[h])
  BY <1>1, <1>2, ListedFacts DEF Owned, OneList
<1>8. OneEach(r, Ctids) /\ Range(r) = Range(ctid_list[h]) \cup {id}
  BY <1>4, <1>7, AddEach, Zenon
<1>9. Listed' = Listed \cup {id}
  BY <1>6, <1>8 DEF Listed
<1>10. FreeOver(pid_alloc, next, Listed)'
  <2>1. FreeOver(next[id], next, Listed \cup {id})
    BY <1>1, <1>2, PopFree, Zenon
  <2>2. QED
    BY <1>5, <1>9, <2>1, Zenon
<1>11. Chained'
  <2>1. Bucket(h) \in Buckets /\ DOMAIN chain = Buckets
    BY BucketType DEF TypeOK
  <2>2. ctid_list'[h] # << >>
    BY <1>6, <1>8, EmptyEach, Zenon
  <2>3. /\ OneEach(chain[Bucket(h)], Hpids)
        /\ h \in Range(chain[Bucket(h)]) <=> ctid_list[h] # << >>
    BY <2>1 DEF Chained, InBucket
  <2>4. CASE ctid_list[h] = << >>
    <3>1. PICK d : d = chain[Bucket(h)]
      BY Zenon
    <3>2. PICK e : e = <<h>> \o d
      BY Zenon
    <3>3. OneEach(d, Hpids) /\ h \notin Range(d)
      BY <2>3, <2>4, <3>1, Zenon
    <3>4. OneEach(e, Hpids) /\ Range(e) = Range(d) \cup {h}
      BY <3>2, <3>3, PrependEach, Zenon
    <3>5. chain'[Bucket(h)] = e /\ \A b \in Buckets : b # Bucket(h) => chain'[b] = chain[b]
      BY <1>5, <2>1, <2>4, <3>1, <3>2
    <3>6. QED
      BY <1>5, <1>6, <2>2, <3>1, <3>4, <3>5, ChainChange, Zenon
  <2>5. CASE ctid_list[h] # << >>
    BY <1>5, <1>6, <2>2, <2>3, <2>5, ChainChange
  <2>6. QED
    BY <2>4, <2>5
<1>12. Owned'
  <2>1. /\ pid_array'[id] = h /\ \A c \in Ctids : c # id => pid_array'[c] = pid_array[c]
        /\ ctid'[t] = id /\ \A u \in Cthreads : u # t => ctid'[u] = ctid[u] /\ state'[u] = state[u]
    BY <1>5, <1>7 DEF TypeOK
  <2>2. ASSUME NEW g \in Hpids
        PROVE  OneList(ctid_list[g], g, pid_array)'
    <3>1. CASE g = h
      BY <1>6, <1>7, <1>8, <2>1, <3>1, ListedFacts DEF OneList
    <3>2. CASE g # h
      BY <1>1, <1>2, <1>6, <2>1, <3>2, ListedFacts DEF Owned, OneList
    <3>3. QED
      BY <3>1, <3>2
  <2>3. ASSUME NEW u \in Cthreads, state'[u] = "registered"
        PROVE  ctid'[u] \in Range(ctid_list'[HpidOf[u]])
    <3>1. HpidOf[u] \in Hpids
      BY DEF Hpids
    <3>2. QED
      BY <1>3, <1>6, <1>8, <2>1, <2>3, <3>1 DEF Owned
  <2>4. \A u \in Cthreads : state[u] = "registered" => ctid[u] # id
    <3>1. \A u \in Cthreads : HpidOf[u] \in Hpids
      BY DEF Hpids
    <3>2. QED
      BY <1>1, <1>2, <3>1, ListedFacts DEF Owned
  <2>5. QED
    BY <2>1, <2>2, <2>3, <2>4 DEF Owned
<1>13. QED
  BY <1>1, <1>2, <1>3, <1>5, <1>9, <1>10, <1>11, <1>12, Zenon

\* The ctids of D, which are the m of cs, are put back and r is left of the list of h.
GivesBack(h, r, D, cs, m) ==
  /\ ctid_list' = [ctid_list EXCEPT ![h] = r] /\ OneEach(r, Ctids)
  /\ D \subseteq Range(ctid_list[h]) /\ Range(r) = Range(ctid_list[h]) \ D
  /\ cs \in Injection(1 .. m, Ctids) /\ Range(cs) = D
  /\ next' = PushedNext(cs) /\ pid_alloc' = PushedAlloc(cs) /\ pid_array' = pid_array
  /\ \A u \in Cthreads : state'[u] = "registered" =>
       state[u] = "registered" /\ ctid'[u] = ctid[u] /\ ctid[u] \notin D

\* Then the others keep their ctids and the free list has those of D as well.
LEMMA ListShrinks ==
  ASSUME TypeOK, Owned, FreeOver(pid_alloc, next, Listed), NEW h \in Hpids, NEW r, NEW D,
         NEW m \in Nat, NEW cs, GivesBack(h, r, D, cs, m)
  PROVE  Owned' /\ Listed' = Listed \ D /\ FreeOver(pid_alloc, next, Listed)'
<1>1. ctid_list'[h] = r /\ \A g \in Hpids : g # h => ctid_list'[g] = ctid_list[g]
  BY ListReplaced DEF TypeOK, GivesBack
<1>2. Listed' = Listed \ D
  <2>1. \A c : c \in Listed' <=> \E g \in Hpids : c \in Range(ctid_list'[g])
    BY DEF Listed
  <2>2. \A c \in D : pid_array[c] = h
    BY ListedFacts DEF GivesBack
  <2>3. \A g \in Hpids : \A c \in Range(ctid_list'[g]) : c \in Listed /\ c \notin D
    BY <1>1, <2>2, ListedFacts DEF GivesBack
  <2>4. \A c \in Listed \ D : \E g \in Hpids : c \in Range(ctid_list'[g])
    BY <1>1, ListedFacts DEF GivesBack
  <2>5. QED
    BY <2>1, <2>3, <2>4
<1>3. FreeOver(pid_alloc, next, Listed)'
  <2>1. Range(cs) \subseteq Listed /\ Range(cs) = D /\ cs \in Injection(1 .. m, Ctids)
    BY ListedFacts DEF GivesBack
  <2>2. Pushed(next', pid_alloc', pid_alloc, next, cs, m)
    BY <2>1, PushedLinks, Zenon DEF GivesBack
  <2>3. FreeOver(pid_alloc', next', Listed \ Range(cs))
    BY <2>1, <2>2, PushFree, Zenon
  <2>4. QED
    BY <1>2, <2>1, <2>3, Zenon
<1>4. Owned'
  <2>1. ASSUME NEW g \in Hpids
        PROVE  OneList(ctid_list[g], g, pid_array)'
    <3>1. CASE g = h
      BY <1>1, <3>1 DEF Owned, OneList, GivesBack
    <3>2. CASE g # h
      BY <1>1, <3>2 DEF Owned, OneList, GivesBack
    <3>3. QED
      BY <3>1, <3>2
  <2>2. ASSUME NEW u \in Cthreads, state'[u] = "registered"
        PROVE  ctid'[u] \in Range(ctid_list'[HpidOf[u]])
    <3>1. HpidOf[u] \in Hpids
      BY DEF Hpids
    <3>2. QED
      BY <1>1, <2>2, <3>1 DEF Owned, GivesBack
  <2>3. QED
    BY <2>1, <2>2 DEF Owned, GivesBack
<1>5. QED
  BY <1>2, <1>3, <1>4

\* A thread that unregisters puts back its own ctid.
LEMMA UnregisterTable ==
  ASSUME TypeOK, Owned, Chained, FreeOver(pid_alloc, next, Listed),
         NEW t \in Cthreads, Unregister(t)
  PROVE  /\ ctid[t] \in Listed /\ Owned' /\ Chained' /\ FreeOver(pid_alloc, next, Listed)'
         /\ Listed' = Listed \ {ctid[t]} /\ DOMAIN ctid_list' = Hpids /\ DOMAIN chain' = Buckets
         /\ user_buff_map' = [user_buff_map EXCEPT ![ctid[t]] = PutPages(@, 1)]
<1>1. PICK id : id = ctid[t]
  BY Zenon
<1>2. PICK h \in Hpids : h = HpidOf[t]
  BY DEF Hpids
<1>3. /\ id \in Range(ctid_list[h]) /\ OneEach(ctid_list[h], Ctids)
      /\ pid_array[id] = h /\ id \in Listed
  BY <1>1, <1>2, ListedFacts, Zenon DEF Owned, OneList, Unregister
<1>4. PICK mine : mine = Select(ctid_list[h], Places(ctid_list[h], id))
  BY Zenon
<1>5. PICK r : r = Select(ctid_list[h], DOMAIN ctid_list[h] \ Places(ctid_list[h], id))
  BY Zenon
<1>6. /\ state' = [state EXCEPT ![t] = "unregistered"] /\ ctid' = ctid
      /\ pid_array' = pid_array /\ env' = env
      /\ user_buff_map' = [user_buff_map EXCEPT ![id] = PutPages(@, Len(mine))]
      /\ next' = PushedNext(mine) /\ pid_alloc' = PushedAlloc(mine)
      /\ ctid_list' = [ctid_list EXCEPT ![h] = r]
      /\ chain' = IF r = << >>
                  THEN [chain EXCEPT ![Bucket(h)] = Select(@, DOMAIN @ \ Places(@, h))]
                  ELSE chain
  BY <1>1, <1>3, <1>4, <1>5, Zenon DEF Unregister
<1>7. /\ OneEach(r, Ctids) /\ Range(r) = Range(ctid_list[h]) \ {id}
      /\ mine \in [1 .. 1 -> Ctids] /\ mine[1] = id
  <2>1. PICK l : l = ctid_list[h]
    BY Zenon
  <2>2. OneEach(l, Ctids) /\ id \in Range(l)
    BY <1>3, <2>1, Zenon
  <2>3. /\ OneEach(Select(l, DOMAIN l \ Places(l, id)), Ctids)
        /\ Range(Select(l, DOMAIN l \ Places(l, id))) = Range(l) \ {id}
        /\ Select(l, Places(l, id)) \in [1 .. 1 -> Ctids] /\ Select(l, Places(l, id))[1] = id
    BY <2>2, RemoveEach
  <2>4. QED
    BY <1>4, <1>5, <2>1, <2>3, Zenon
<1>8. /\ mine \in Injection(1 .. 1, Ctids) /\ Range(mine) = {id} /\ Len(mine) = 1
  <2>1. \A i \in 1 .. 1 : i = 1
    OBVIOUS
  <2>2. mine \in Injection(1 .. 1, Ctids)
    BY <1>7, <2>1 DEF Injection, IsInjective
  <2>3. Range(mine) = {id}
    BY <1>7, <2>1 DEF Range
  <2>4. Len(mine) = 1
    BY <1>7, ListLen
  <2>5. QED
    BY <2>2, <2>3, <2>4
<1>9. \A u \in Cthreads : state'[u] = "registered" =>
        state[u] = "registered" /\ ctid'[u] = ctid[u] /\ ctid[u] \notin {id}
  BY <1>1, <1>6 DEF TypeOK, Owned, Unregister
<1>10. Owned' /\ Listed' = Listed \ {id} /\ FreeOver(pid_alloc, next, Listed)'
  <2>1. {id} \subseteq Range(ctid_list[h]) /\ 1 \in Nat
    BY <1>3
  <2>2. GivesBack(h, r, {id}, mine, 1)
    BY <1>6, <1>7, <1>8, <1>9, <2>1, Zenon DEF GivesBack
  <2>3. QED
    BY <2>1, <2>2, ListShrinks, Zenon
<1>11. ctid_list'[h] = r /\ \A g \in Hpids : g # h => ctid_list'[g] = ctid_list[g]
  BY <1>6, ListReplaced DEF TypeOK
<1>12. Chained'
  <2>1. Bucket(h) \in Buckets /\ DOMAIN chain = Buckets
    BY BucketType DEF TypeOK
  <2>2. ctid_list[h] # << >>
    BY <1>3, EmptyEach, Zenon
  <2>3. OneEach(chain[Bucket(h)], Hpids) /\ h \in Range(chain[Bucket(h)])
    BY <2>1, <2>2 DEF Chained, InBucket
  <2>4. CASE r = << >>
    <3>1. PICK d : d = chain[Bucket(h)]
      BY Zenon
    <3>2. PICK e : e = Select(d, DOMAIN d \ Places(d, h))
      BY Zenon
    <3>3. OneEach(d, Hpids) /\ h \in Range(d)
      BY <2>3, <3>1, Zenon
    <3>4. OneEach(e, Hpids) /\ Range(e) = Range(d) \ {h}
      BY <3>2, <3>3, RemoveEach, Zenon
    <3>5. chain'[Bucket(h)] = e /\ \A b \in Buckets : b # Bucket(h) => chain'[b] = chain[b]
      BY <1>6, <2>1, <2>4, <3>1, <3>2
    <3>6. QED
      BY <1>6, <1>11, <2>4, <3>1, <3>4, <3>5, ChainChange, Zenon
  <2>5. CASE r # << >>
    BY <1>6, <1>11, <2>3, <2>5, ChainChange
  <2>6. QED
    BY <2>4, <2>5
<1>13. DOMAIN ctid_list' = Hpids /\ DOMAIN chain' = Buckets
  BY <1>6 DEF TypeOK
<1>14. QED
  BY <1>1, <1>3, <1>6, <1>8, <1>10, <1>12, <1>13, Zenon

\* The ctids a step of the walk puts back.
Freed(t) == IF chain[cursor[t]] = << >> THEN << >> ELSE ctid_list[chain[cursor[t]][1]]

\* The walk puts back the ctids of the first process in a bucket, when no file is open.
LEMMA ReleaseTable ==
  ASSUME TypeOK, Counted, Owned, Chained, FreeOver(pid_alloc, next, Listed),
         NEW t \in Cthreads, ReleaseBucket(t)
  PROVE  /\ cursor[t] \in Buckets /\ OneEach(Freed(t), Ctids)
         /\ Owned' /\ Chained' /\ FreeOver(pid_alloc, next, Listed)'
         /\ Listed' = Listed \ Range(Freed(t))
         /\ DOMAIN ctid_list' = Hpids /\ DOMAIN chain' = Buckets
         /\ \A b \in Buckets : b # cursor[t] => chain'[b] = chain[b]
         /\ chain'[cursor[t]] # << >> =>
              \E h \in Hpids : Bucket(h) = cursor[t] /\ h \notin Range(chain'[cursor[t]])
         /\ user_buff_map' =
              [c \in Ctids |-> PutPages(user_buff_map[c], Cardinality(Places(Freed(t), c)))]
<1>1. PICK b \in Buckets : b = cursor[t]
  BY CtidAssumption DEF TypeOK, ReleaseBucket, Buckets
<1>2. PICK cs : cs = Freed(t)
  BY Zenon
<1>3. /\ state' = state /\ ctid' = ctid /\ pid_array' = pid_array /\ env' = env
      /\ user_buff_map' =
           [c \in Ctids |-> PutPages(user_buff_map[c], Cardinality(Places(cs, c)))]
      /\ next' = PushedNext(cs) /\ pid_alloc' = PushedAlloc(cs)
      /\ ctid_list' = IF chain[b] = << >> THEN ctid_list
                      ELSE [ctid_list EXCEPT ![chain[b][1]] = << >>]
      /\ chain' = IF chain[b] = << >> THEN chain ELSE [chain EXCEPT ![b] = Tail(@)]
  BY <1>1, <1>2, Zenon DEF ReleaseBucket, Freed
<1>4. \A u \in Cthreads : state'[u] # "registered"
  BY <1>3, Zenon DEF Counted, Files, ReleaseBucket
<1>5. DOMAIN ctid_list' = Hpids /\ DOMAIN chain' = Buckets
  BY <1>3 DEF TypeOK
<1>6. OneEach(chain[b], Hpids)
  BY DEF Chained, InBucket
<1>7. ASSUME chain[b] = << >>
      PROVE  /\ OneEach(cs, Ctids) /\ Owned' /\ Chained' /\ FreeOver(pid_alloc, next, Listed)'
             /\ Listed' = Listed \ Range(cs)
             /\ \A d \in Buckets : d # b => chain'[d] = chain[d]
             /\ chain'[b] = << >>
  <2>1. cs = << >> /\ ctid_list' = ctid_list /\ chain' = chain
    BY <1>1, <1>2, <1>3, <1>7, Zenon DEF Freed
  <2>2. OneEach(cs, Ctids) /\ Range(cs) = {}
    BY <2>1, EmptyEach, Zenon
  <2>3. Listed' = Listed /\ Listed \ Range(cs) = Listed
    BY <2>1, <2>2 DEF Listed
  <2>4. Owned'
    BY <1>3, <1>4, <2>1 DEF Owned, OneList
  <2>5. Chained'
    BY <1>3, <2>1 DEF Chained, InBucket, Bucket
  <2>6. cs \in Injection(1 .. 0, Ctids) /\ 0 \in Nat /\ Range(cs) \subseteq Listed
    BY <2>1, <2>2 DEF Injection, IsInjective
  <2>7. FreeOver(pid_alloc, next, Listed)'
    <3>1. Pushed(next', pid_alloc', pid_alloc, next, cs, 0)
      BY <1>3, <2>6, PushedLinks, Zenon
    <3>2. FreeOver(pid_alloc', next', Listed \ Range(cs))
      BY <2>6, <3>1, PushFree, Zenon
    <3>3. QED
      BY <2>3, <3>2, Zenon
  <2>8. QED
    BY <1>7, <2>1, <2>2, <2>3, <2>4, <2>5, <2>7, Zenon
<1>8. ASSUME chain[b] # << >>
      PROVE  /\ OneEach(cs, Ctids) /\ Owned' /\ Chained' /\ FreeOver(pid_alloc, next, Listed)'
             /\ Listed' = Listed \ Range(cs)
             /\ \A d \in Buckets : d # b => chain'[d] = chain[d]
             /\ \E h \in Hpids : Bucket(h) = b /\ h \notin Range(chain'[b])
  <2>1. PICK e : e = chain[b]
    BY Zenon
  <2>2. e[1] \in Range(e) /\ OneEach(Tail(e), Hpids) /\ Range(Tail(e)) = Range(e) \ {e[1]}
    BY <1>6, <1>8, <2>1, TailEach, Zenon
  <2>3. PICK h \in Hpids : h = e[1] /\ Bucket(h) = b
    <3>1. e[1] \in Hpids
      BY <1>6, <2>1, <2>2, EmptyEach, Zenon
    <3>2. Bucket(e[1]) = b
      BY <2>1, <2>2, <3>1 DEF Chained, InBucket
    <3>3. QED
      BY <3>1, <3>2
  <2>4. /\ cs = ctid_list[h] /\ ctid_list' = [ctid_list EXCEPT ![h] = << >>]
        /\ chain' = [chain EXCEPT ![b] = Tail(@)]
    BY <1>1, <1>2, <1>3, <1>8, <2>1, <2>3, Zenon DEF Freed
  <2>5. OneEach(cs, Ctids)
    BY <2>4 DEF Owned, OneList
  <2>6. PICK m \in Nat : cs \in Injection(1 .. m, Ctids)
    BY <2>5, Zenon DEF OneEach
  <2>7. GivesBack(h, << >>, Range(cs), cs, m)
    <3>1. OneEach(<< >>, Ctids) /\ Range(<< >>) = Range(ctid_list[h]) \ Range(cs)
      BY <2>4, EmptyEach
    <3>2. Range(cs) \subseteq Range(ctid_list[h])
      BY <2>4
    <3>3. QED
      BY <1>3, <1>4, <2>4, <2>6, <3>1, <3>2, Zenon DEF GivesBack
  <2>8. Owned' /\ Listed' = Listed \ Range(cs) /\ FreeOver(pid_alloc, next, Listed)'
    BY <2>6, <2>7, ListShrinks, Zenon
  <2>9. chain'[b] = Tail(e) /\ \A d \in Buckets : d # b => chain'[d] = chain[d]
    BY <2>1, <2>4 DEF TypeOK
  <2>10. ctid_list'[h] = << >> /\ \A g \in Hpids : g # h => ctid_list'[g] = ctid_list[g]
    BY <2>4 DEF TypeOK
  <2>11. Chained'
    <3>1. OneEach(chain'[b], Hpids) /\ Range(chain'[b]) = Range(chain[b]) \ {h}
      BY <2>1, <2>2, <2>3, <2>9, Zenon
    <3>2. QED
      BY <1>3, <2>3, <2>9, <2>10, <3>1, ChainChange
  <2>12. h \notin Range(chain'[b])
    BY <2>2, <2>3, <2>9
  <2>13. QED
    BY <2>3, <2>5, <2>8, <2>9, <2>11, <2>12, Zenon
<1>9. QED
  BY <1>1, <1>2, <1>3, <1>5, <1>7, <1>8, Zenon

--------------------------------------------------------------------------------
(* Every step keeps the invariant of the table.                            *)

\* The count that open and release load is a number.
LEMMA SeenType ==
  ASSUME Counted
  PROVE  ref_cnt \in Int
  BY FilesFinite DEF Counted

\* One step per operation: the types, the count and the table.
LEMMA CalmStep ==
  ASSUME Calm, CalmInv, [Next]_vars
  PROVE  CalmInv'
<1> USE DEF CalmInv
<1>1. ASSUME NEW t \in Cthreads, OpenLoad(t)
      PROVE  CalmInv'
  <2>1. TypeOK'
    BY <1>1, SeenType DEF TypeOK, OpenLoad, table
  <2>2. Counted'
    BY <1>1, OpenLoadCount
  <2>3. Owned' /\ Chained' /\ FreeOver(pid_alloc, next, Listed)'
    BY <1>1, TableKept DEF OpenLoad, TypeOK, table
  <2>4. QED
    BY <2>1, <2>2, <2>3
<1>2. ASSUME NEW t \in Cthreads, OpenStore(t)
      PROVE  CalmInv'
  <2>1. TypeOK'
    BY <1>2 DEF TypeOK, OpenStore, table
  <2>2. Counted'
    BY <1>2, OpenStoreCount
  <2>3. Owned' /\ Chained' /\ FreeOver(pid_alloc, next, Listed)'
    BY <1>2, TableKept DEF OpenStore, TypeOK, table
  <2>4. QED
    BY <2>1, <2>2, <2>3
<1>3. ASSUME NEW t \in Cthreads, Register(t)
      PROVE  CalmInv'
  <2>1. TypeOK'
    <3>1. HpidOf[t] \in Nat
      BY CtidAssumption
    <3>2. DOMAIN chain' = Buckets /\ DOMAIN ctid_list' = Hpids
      BY <1>3 DEF TypeOK, Register
    <3>3. QED
      BY <1>3, <3>1, <3>2, RegisterTable, Zenon DEF TypeOK, Register
  <2>2. Counted'
    BY <1>3, CountKept DEF Register, TypeOK
  <2>3. Owned' /\ Chained' /\ FreeOver(pid_alloc, next, Listed)'
    BY <1>3, RegisterTable
  <2>4. QED
    BY <2>1, <2>2, <2>3
<1>4. ASSUME NEW t \in Cthreads, Unregister(t)
      PROVE  CalmInv'
  <2>1. TypeOK'
    <3>1. DOMAIN chain' = Buckets /\ DOMAIN ctid_list' = Hpids /\ DOMAIN user_buff_map' = Ctids
      BY <1>4, UnregisterTable DEF TypeOK
    <3>2. /\ state' = [state EXCEPT ![t] = "unregistered"]
          /\ UNCHANGED <<ctid, seen, cursor, pid_array>>
      BY <1>4, Zenon DEF Unregister
    <3>3. QED
      BY <3>1, <3>2 DEF TypeOK
  <2>2. Counted'
    BY <1>4, CountKept DEF Unregister, TypeOK
  <2>3. Owned' /\ Chained' /\ FreeOver(pid_alloc, next, Listed)'
    BY <1>4, UnregisterTable
  <2>4. QED
    BY <2>1, <2>2, <2>3
<1>5. ASSUME NEW c, AddBuffer(c) \/ DeleteBuffer(c)
      PROVE  CalmInv'
  <2>1. /\ UNCHANGED <<state, ctid, seen, cursor, ref_cnt>>
        /\ UNCHANGED <<next, pid_alloc, pid_array, chain, ctid_list, env>>
        /\ DOMAIN user_buff_map' = DOMAIN user_buff_map
    BY <1>5, Zenon DEF AddBuffer, DeleteBuffer
  <2>2. TypeOK'
    BY <2>1, Zenon DEF TypeOK
  <2>3. Counted'
    BY <2>1, CountKept
  <2>4. Owned' /\ Chained' /\ FreeOver(pid_alloc, next, Listed)'
    BY <2>1, TableKept
  <2>5. QED
    BY <2>2, <2>3, <2>4
<1>6. ASSUME NEW t \in Cthreads, CloseLoad(t)
      PROVE  CalmInv'
  <2>1. TypeOK'
    BY <1>6, SeenType DEF TypeOK, CloseLoad, table
  <2>2. Counted'
    BY <1>6, CloseLoadCount
  <2>3. Owned' /\ Chained' /\ FreeOver(pid_alloc, next, Listed)'
    BY <1>6, TableKept DEF CloseLoad, TypeOK, table
  <2>4. QED
    BY <2>1, <2>2, <2>3
<1>7. ASSUME NEW t \in Cthreads, CloseStore(t)
      PROVE  CalmInv'
  <2>1. TypeOK'
    BY <1>7 DEF TypeOK, CloseStore, table
  <2>2. Counted'
    BY <1>7, CloseStoreCount
  <2>3. Owned' /\ Chained' /\ FreeOver(pid_alloc, next, Listed)'
    BY <1>7, TableKept DEF CloseStore, TypeOK, table
  <2>4. QED
    BY <2>1, <2>2, <2>3
<1>8. ASSUME NEW t \in Cthreads, ReleaseBucket(t)
      PROVE  CalmInv'
  <2>1. TypeOK'
    <3>1. DOMAIN chain' = Buckets /\ DOMAIN ctid_list' = Hpids /\ DOMAIN user_buff_map' = Ctids
      BY <1>8, ReleaseTable
    <3>2. /\ cursor[t] < NBuckets /\ cursor' = [cursor EXCEPT ![t] = @ + 1]
          /\ UNCHANGED <<state, ctid, seen, pid_array>>
      BY <1>8 DEF ReleaseBucket
    <3>3. QED
      BY <3>1, <3>2, CtidAssumption DEF TypeOK
  <2>2. Counted'
    BY <1>8, CountKept DEF ReleaseBucket, TypeOK
  <2>3. Owned' /\ Chained' /\ FreeOver(pid_alloc, next, Listed)'
    BY <1>8, ReleaseTable
  <2>4. QED
    BY <2>1, <2>2, <2>3
<1>9. ASSUME NEW t \in Cthreads, ReleaseDone(t)
      PROVE  CalmInv'
  <2>1. TypeOK'
    BY <1>9, CtidAssumption DEF TypeOK, ReleaseDone, table
  <2>2. Counted'
    BY <1>9, ReleaseDoneCount
  <2>3. Owned' /\ Chained' /\ FreeOver(pid_alloc, next, Listed)'
    BY <1>9, TableKept DEF ReleaseDone, TypeOK, table
  <2>4. QED
    BY <2>1, <2>2, <2>3
<1>10. CASE UNCHANGED vars
  <2>1. TypeOK' /\ Counted'
    BY <1>10 DEF vars, table, TypeOK, Counted, Files
  <2>2. Owned' /\ Chained' /\ FreeOver(pid_alloc, next, Listed)'
    BY <1>10, TableKept, Zenon DEF vars, table
  <2>3. QED
    BY <2>1, <2>2
<1>11. QED
  BY <1>1, <1>2, <1>3, <1>4, <1>5, <1>6, <1>7, <1>8, <1>9, <1>10
  DEF Next, MapUserMem, UnmapUserMem, AttachDmaBuf, DetachDmaBuf, PageFault

--------------------------------------------------------------------------------
(* Nothing is left behind, where no two entries share a bucket.            *)

\* One call of tlb_put_user_pages_ctid takes all buffers, each in a bucket of its own.
LEMMA PutEach ==
  ASSUME env = {}, NEW s, OneEach(s, Buffers)
  PROVE  PutPages(s, 0) = s /\ PutPages(s, 1) = << >>
<1>1. PICK n \in Nat : s \in Injection(1 .. n, Buffers)
  BY Zenon DEF OneEach
<1>2. s \in [1 .. n -> Buffers] /\ \A i, j \in 1 .. n : s[i] = s[j] => i = j
  BY <1>1 DEF Injection, IsInjective
<1>3. DOMAIN s = 1 .. n
  BY <1>2
<1>4. \A i \in 1 .. n : {j \in 1 .. i - 1 : SameBucket(s[j], s[i])} = {}
  BY <1>2 DEF SameBucket
<1>5. Cardinality({}) = 0
  BY FS_EmptySet
<1>6. /\ {i \in 1 .. n : Cardinality({j \in 1 .. i - 1 : SameBucket(s[j], s[i])}) >= 0} = 1 .. n
      /\ {i \in 1 .. n : Cardinality({j \in 1 .. i - 1 : SameBucket(s[j], s[i])}) >= 1} = {}
  <2>1. \A i \in 1 .. n : Cardinality({j \in 1 .. i - 1 : SameBucket(s[j], s[i])}) = 0
    BY <1>4, <1>5, Zenon
  <2>2. 0 >= 0 /\ ~(0 >= 1)
    OBVIOUS
  <2>3. QED
    BY <2>1, <2>2, Zenon
<1>7. PutPages(s, 0) = Select(s, 1 .. n) /\ PutPages(s, 1) = Select(s, {})
  BY <1>3, <1>6, Zenon DEF PutPages
<1>8. Select(s, 1 .. n) = s
  BY <1>2, SelectAll, Zenon
<1>9. QED
  BY <1>7, <1>8, SelectNone, Zenon

\* Buffers stay with a ctid in use.
LEMMA MappedKept ==
  ASSUME Mapped, user_buff_map' = user_buff_map, Listed \subseteq Listed'
  PROVE  Mapped'
  BY DEF Mapped

\* A buffer is added or deleted for a ctid in use.
LEMMA MapStep ==
  ASSUME Mapped, TypeOK, NEW c \in Ctids, c \in Listed, AddBuffer(c) \/ DeleteBuffer(c)
  PROVE  Mapped'
<1>1. PICK s : s = user_buff_map[c]
  BY Zenon
<1>2. PICK r : user_buff_map' = [user_buff_map EXCEPT ![c] = r] /\ OneEach(r, Buffers)
  <2>1. OneEach(s, Buffers)
    BY <1>1 DEF Mapped
  <2>2. CASE AddBuffer(c)
    <3>1. PICK x \in Buffers :
            x \notin Range(s) /\ user_buff_map' = [user_buff_map EXCEPT ![c] = <<x>> \o s]
      BY <1>1, <2>2, Zenon DEF AddBuffer
    <3>2. OneEach(<<x>> \o s, Buffers)
      BY <2>1, <3>1, PrependEach, Zenon
    <3>3. QED
      BY <3>1, <3>2, Zenon
  <2>3. CASE DeleteBuffer(c)
    <3>1. PICK x \in Range(s) :
            user_buff_map' = [user_buff_map EXCEPT ![c] = Select(s, DOMAIN s \ Places(s, x))]
      BY <1>1, <2>3, Zenon DEF DeleteBuffer
    <3>2. OneEach(Select(s, DOMAIN s \ Places(s, x)), Buffers)
      BY <2>1, RemoveEach, Zenon
    <3>3. QED
      BY <3>1, <3>2, Zenon
  <2>4. QED
    BY <2>2, <2>3
<1>3. Listed' = Listed
  BY Zenon DEF Listed, AddBuffer, DeleteBuffer
<1>4. QED
  BY <1>2, <1>3 DEF Mapped, TypeOK

\* The ctid of a registered thread is in use.
LEMMA BufferOwned ==
  ASSUME TypeOK, Owned, NEW t \in Cthreads, state[t] = "registered"
  PROVE  ctid[t] \in Ctids /\ ctid[t] \in Listed
<1>1. HpidOf[t] \in Hpids
  BY DEF Hpids
<1>2. QED
  BY <1>1, ListedFacts DEF Owned

\* IOCTL_UNREGISTER_CTID unmaps the buffers of the ctid it puts back.
LEMMA UnregisterMapped ==
  ASSUME Mapped, env = {}, CalmInv, NEW t \in Cthreads, Unregister(t)
  PROVE  Mapped'
<1>1. /\ Listed' = Listed \ {ctid[t]} /\ ctid[t] \in Ctids
      /\ user_buff_map' = [user_buff_map EXCEPT ![ctid[t]] = PutPages(@, 1)]
  BY UnregisterTable, ListedFacts DEF CalmInv
<1>2. PutPages(user_buff_map[ctid[t]], 1) = << >>
  BY <1>1, PutEach, Zenon DEF Mapped
<1>3. /\ user_buff_map'[ctid[t]] = << >>
      /\ \A c \in Ctids : c # ctid[t] => user_buff_map'[c] = user_buff_map[c]
  BY <1>1, <1>2 DEF CalmInv, TypeOK
<1>4. OneEach(<< >>, Buffers)
  BY EmptyEach, Zenon
<1>5. QED
  BY <1>1, <1>3, <1>4 DEF Mapped

\* The walk of vfpga_dev_release unmaps the buffers of the ctids it puts back.
LEMMA ReleaseMapped ==
  ASSUME Mapped, env = {}, CalmInv, NEW t \in Cthreads, ReleaseBucket(t)
  PROVE  Mapped'
<1>1. PICK cs : cs = Freed(t)
  BY Zenon
<1>2. /\ OneEach(cs, Ctids) /\ Listed' = Listed \ Range(cs)
      /\ user_buff_map' =
           [c \in Ctids |-> PutPages(user_buff_map[c], Cardinality(Places(cs, c)))]
  BY <1>1, ReleaseTable, Zenon DEF CalmInv
<1>3. ASSUME NEW c \in Ctids, c \in Range(cs)
      PROVE  user_buff_map'[c] = << >>
  <2>1. PICK m \in Nat : cs \in [1 .. m -> Ctids] /\ \A i, j \in 1 .. m : cs[i] = cs[j] => i = j
    BY <1>2 DEF OneEach, Injection, IsInjective
  <2>2. PICK p \in 1 .. m : cs[p] = c
    BY <1>3, <2>1 DEF Range
  <2>3. Places(cs, c) = {p}
    BY <2>1, <2>2 DEF Places
  <2>4. Cardinality(Places(cs, c)) = 1
    BY <2>3, FS_Singleton, Zenon
  <2>5. PutPages(user_buff_map[c], 1) = << >>
    BY PutEach, Zenon DEF Mapped
  <2>6. QED
    BY <1>2, <2>4, <2>5
<1>4. ASSUME NEW c \in Ctids, c \notin Range(cs)
      PROVE  user_buff_map'[c] = user_buff_map[c]
  <2>1. Places(cs, c) = {}
    BY <1>4 DEF Places, Range
  <2>2. Cardinality(Places(cs, c)) = 0
    BY <2>1, FS_EmptySet
  <2>3. PutPages(user_buff_map[c], 0) = user_buff_map[c]
    BY PutEach, Zenon DEF Mapped
  <2>4. QED
    BY <1>2, <2>2, <2>3
<1>5. OneEach(<< >>, Buffers)
  BY EmptyEach, Zenon
<1>6. QED
  BY <1>2, <1>3, <1>4, <1>5 DEF Mapped

\* While a file is open there is nothing to sweep.
LEMMA SweptOpen ==
  ASSUME Files' # {}
  PROVE  Swept'
  BY DEF Swept

\* An open starts when no walk is under way.
LEMMA OpenLoadSwept ==
  ASSUME Swept, Calm, CalmInv, NEW t \in Cthreads, OpenLoad(t)
  PROVE  Swept'
<1>1. Files' = Files /\ chain' = chain
  BY OpenLoadCount, Zenon DEF CalmInv, OpenLoad, table
<1>2. \A u \in Cthreads : state[u] # "releasing"
  BY DEF OpenLoad, Calm, Quiet
<1>3. QED
  BY <1>1, <1>2 DEF Swept

\* The last close starts the walk at the first bucket.
LEMMA CloseStoreSwept ==
  ASSUME CalmInv, NEW t \in Cthreads, CloseStore(t)
  PROVE  Swept'
<1>1. state' = [state EXCEPT ![t] = IF Files' = {} THEN "releasing" ELSE "closed"]
  BY CloseStoreCount DEF CalmInv
<1>2. cursor'[t] = 0
  BY DEF CalmInv, Counted, CloseStore
<1>3. ASSUME Files' = {}, NEW b \in Buckets
      PROVE  state'[t] = "releasing" /\ cursor'[t] <= b
  BY <1>1, <1>2, <1>3 DEF CalmInv, TypeOK, Buckets
<1>4. QED
  BY <1>3 DEF Swept

\* The walk leaves no process in the bucket: there was only one.
LEMMA ReleaseSwept ==
  ASSUME Apart, Swept, Tidy, CalmInv, NEW t \in Cthreads, ReleaseBucket(t)
  PROVE  Swept'
<1>1. PICK b \in Buckets : b = cursor[t]
  BY ReleaseTable DEF CalmInv
<1>2. chain'[b] = << >>
  <2>1. SUFFICES ASSUME chain'[b] # << >>
                 PROVE  FALSE
    OBVIOUS
  <2>2. PICK h \in Hpids : Bucket(h) = b /\ h \notin Range(chain'[b])
    BY <1>1, <2>1, ReleaseTable, Zenon DEF CalmInv
  <2>3. Chained' /\ env' = env
    BY ReleaseTable, Zenon DEF CalmInv, ReleaseBucket
  <2>4. OneEach(chain'[b], Hpids) /\ \A g \in Hpids : g \in Range(chain'[b]) => Bucket(g)' = b
    BY <2>3 DEF Chained, InBucket
  <2>5. PICK g \in Hpids : g \in Range(chain'[b])
    BY <2>1, <2>4, SomeEach, Zenon
  <2>6. Bucket(g)' = Bucket(g) /\ Bucket(g) = BucketOf[g] /\ Bucket(h) = BucketOf[h]
    BY <2>3 DEF Bucket, Tidy
  <2>7. QED
    BY <2>2, <2>4, <2>5, <2>6 DEF Apart
<1>3. ASSUME NEW d \in Buckets, d # b, chain'[d] # << >>
      PROVE  state'[t] = "releasing" /\ cursor'[t] <= d
  <2>1. /\ state[t] = "releasing" /\ Files = {} /\ state' = state
        /\ cursor' = [cursor EXCEPT ![t] = @ + 1]
    BY DEF CalmInv, Counted, ReleaseBucket
  <2>2. chain[d] # << >>
    BY <1>1, <1>3, ReleaseTable, Zenon DEF CalmInv
  <2>3. PICK u \in Cthreads : state[u] = "releasing" /\ cursor[u] <= d
    BY <2>1, <2>2 DEF Swept
  <2>4. u = t
    BY <2>1, <2>3 DEF CalmInv, Counted, Moving
  <2>5. QED
    <3>1. cursor \in [Cthreads -> 0 .. NBuckets] /\ cursor'[t] = cursor[t] + 1
      BY <2>1 DEF CalmInv, TypeOK
    <3>2. b \in Int /\ d \in Int
      BY CtidAssumption DEF Buckets
    <3>3. b <= d
      BY <1>1, <2>3, <2>4
    <3>4. QED
      BY <1>1, <1>3, <2>1, <3>1, <3>2, <3>3
<1>4. QED
  BY <1>2, <1>3 DEF Swept

\* The walk ends behind the last bucket.
LEMMA ReleaseDoneSwept ==
  ASSUME Swept, CalmInv, NEW t \in Cthreads, ReleaseDone(t)
  PROVE  Swept'
<1>1. state[t] = "releasing" /\ cursor[t] = NBuckets /\ Files = {} /\ chain' = chain
  BY DEF ReleaseDone, CalmInv, Counted, table
<1>2. \A u \in Cthreads : state[u] = "releasing" => u = t
  BY <1>1 DEF CalmInv, Counted, Moving
<1>3. \A b \in Buckets : ~(cursor[t] <= b)
  BY <1>1, CtidAssumption DEF Buckets
<1>4. QED
  BY <1>1, <1>2, <1>3 DEF Swept

\* Operations on an open file: it is still open.
LEMMA StillOpen ==
  ASSUME TypeOK, NEW t \in Cthreads,
         Register(t) \/ Unregister(t) \/ CloseLoad(t) \/ OpenStore(t)
  PROVE  Files' # {}
<1>1. state'[t] \in {"open", "registered", "unregistered", "closing"}
  BY Zenon DEF TypeOK, Register, Unregister, CloseLoad, OpenStore
<1>2. QED
  BY <1>1 DEF Files

\* One step per operation: what is swept ...
LEMMA SweptStep ==
  ASSUME Apart, Tidy, CalmInv, Swept, [Next]_vars
  PROVE  Swept'
<1>1. Calm
  BY DEF Calm, Tidy
<1>2. ASSUME NEW t \in Cthreads, OpenLoad(t)
      PROVE  Swept'
  BY <1>1, <1>2, OpenLoadSwept
<1>3. ASSUME NEW t \in Cthreads, Register(t) \/ Unregister(t) \/ CloseLoad(t) \/ OpenStore(t)
      PROVE  Swept'
  BY <1>3, StillOpen, SweptOpen DEF CalmInv
<1>4. ASSUME NEW c, AddBuffer(c) \/ DeleteBuffer(c)
      PROVE  Swept'
  <2>1. state' = state /\ chain' = chain /\ cursor' = cursor
    BY <1>4, Zenon DEF AddBuffer, DeleteBuffer
  <2>2. QED
    BY <2>1 DEF Swept, Files
<1>5. ASSUME NEW t \in Cthreads, CloseStore(t)
      PROVE  Swept'
  BY <1>5, CloseStoreSwept
<1>6. ASSUME NEW t \in Cthreads, ReleaseBucket(t)
      PROVE  Swept'
  BY <1>6, ReleaseSwept
<1>7. ASSUME NEW t \in Cthreads, ReleaseDone(t)
      PROVE  Swept'
  BY <1>7, ReleaseDoneSwept
<1>8. CASE UNCHANGED vars
  BY <1>8 DEF vars, table, Swept, Files
<1>9. QED
  BY <1>2, <1>3, <1>4, <1>5, <1>6, <1>7, <1>8
  DEF Next, MapUserMem, UnmapUserMem, AttachDmaBuf, DetachDmaBuf, PageFault

\* ... and what is mapped.
LEMMA MappedStep ==
  ASSUME env = {}, CalmInv, Mapped, [Next]_vars
  PROVE  Mapped'
<1>1. Calm
  BY DEF Calm
<1>2. ASSUME user_buff_map' = user_buff_map, ctid_list' = ctid_list
      PROVE  Mapped'
  <2>1. Listed' = Listed
    BY <1>2, Zenon DEF Listed
  <2>2. QED
    BY <1>2, <2>1, MappedKept
<1>3. ASSUME NEW t \in Cthreads, OpenLoad(t) \/ OpenStore(t) \/ CloseLoad(t)
      PROVE  Mapped'
  BY <1>2, <1>3, Zenon DEF OpenLoad, OpenStore, CloseLoad, table
<1>4. ASSUME NEW t \in Cthreads, Register(t)
      PROVE  Mapped'
  <2>1. Listed \subseteq Listed' /\ user_buff_map' = user_buff_map
    BY <1>1, <1>4, RegisterTable, Zenon DEF CalmInv, Register
  <2>2. QED
    BY <2>1, MappedKept
<1>5. ASSUME NEW t \in Cthreads, Unregister(t)
      PROVE  Mapped'
  BY <1>5, UnregisterMapped
<1>6. ASSUME NEW t \in Cthreads, state[t] = "registered",
             AddBuffer(ctid[t]) \/ DeleteBuffer(ctid[t])
      PROVE  Mapped'
  BY <1>6, BufferOwned, MapStep DEF CalmInv
<1>7. ASSUME NEW c \in Ctids, PageFault(c)
      PROVE  Mapped'
  <2>1. PICK t \in Cthreads : state[t] = "registered" /\ ctid[t] = c
    BY <1>7 DEF PageFault
  <2>2. QED
    BY <1>6, <1>7, <2>1 DEF PageFault
<1>8. ASSUME NEW t \in Cthreads, ReleaseBucket(t)
      PROVE  Mapped'
  BY <1>8, ReleaseMapped
<1>9. ASSUME NEW t \in Cthreads, CloseStore(t) \/ ReleaseDone(t)
      PROVE  Mapped'
  BY <1>2, <1>9, Zenon DEF CloseStore, ReleaseDone, table
<1>10. CASE UNCHANGED vars
  BY <1>2, <1>10 DEF vars, table
<1>11. QED
  BY <1>3, <1>4, <1>5, <1>6, <1>7, <1>8, <1>9, <1>10
  DEF Next, MapUserMem, UnmapUserMem, AttachDmaBuf, DetachDmaBuf

--------------------------------------------------------------------------------
(* The theorems.                                                           *)

\* setup_vfpga_devices links all chunks, from the first to the last.
LEMMA InitInv ==
  ASSUME Init
  PROVE  Inv /\ CleanInv
<1>1. OneEach(<< >>, Ctids) /\ OneEach(<< >>, Hpids) /\ OneEach(<< >>, Buffers) /\ Range(<< >>) = {}
  BY EmptyEach, Zenon
<1>2. Listed = {}
  <2>1. \A h \in Hpids : ctid_list[h] = << >>
    BY DEF Init
  <2>2. QED
    BY <1>1, <2>1 DEF Listed
<1>3. TypeOK
  BY CtidAssumption DEF Init, TypeOK, Nil, Ctids, Buckets
<1>4. Files = {} /\ Cardinality({}) = 0
  BY FS_EmptySet DEF Init, Files
<1>5. Counted
  BY <1>4 DEF Init, Counted, Moving
<1>6. Owned
  <2>1. \A h \in Hpids : ctid_list[h] = << >>
    BY DEF Init
  <2>2. \A h \in Hpids : OneList(ctid_list[h], h, pid_array)
    BY <1>1, <2>1 DEF OneList
  <2>3. QED
    BY <2>2 DEF Init, Owned
<1>7. Chained
  <2>1. (\A h \in Hpids : ctid_list[h] = << >>) /\ \A b \in Buckets : chain[b] = << >>
    BY DEF Init, Buckets
  <2>2. QED
    BY <1>1, <2>1 DEF Chained, InBucket
<1>8. FreeOver(pid_alloc, next, Listed)
  <2>1. N_CTID_MAX \in Nat \ {0}
    BY CtidAssumption
  <2>2. PICK s : s = [i \in 1 .. N_CTID_MAX |-> i - 1]
    BY Zenon
  <2>3. \A i \in 1 .. N_CTID_MAX : s[i] = i - 1 /\ i - 1 \in Ctids
    BY <2>1, <2>2 DEF Ctids
  <2>4. s \in [1 .. N_CTID_MAX -> Ctids]
    BY <2>2, <2>3
  <2>5. s \in Injection(1 .. N_CTID_MAX, Ctids)
    BY <2>3, <2>4 DEF Injection, IsInjective
  <2>6. Range(s) = Ctids \ Listed
    <3>1. \A c \in Ctids : c + 1 \in 1 .. N_CTID_MAX /\ c = (c + 1) - 1
      BY <2>1 DEF Ctids
    <3>2. \A c \in Ctids : \E i \in 1 .. N_CTID_MAX : c = s[i]
      BY <2>3, <3>1
    <3>3. QED
      BY <1>2, <2>4, <3>2 DEF Range
  <2>7. Linked(pid_alloc, next, s, N_CTID_MAX)
    <3>1. pid_alloc = 0 /\ s[1] = 0 /\ s[N_CTID_MAX] = Last
      BY <2>1, <2>3 DEF Init, Last
    <3>2. ASSUME NEW i \in 1 .. N_CTID_MAX
          PROVE  next[s[i]] = IF i = N_CTID_MAX THEN Nil ELSE s[i + 1]
      <4>1. next[s[i]] = ChunkNext(i - 1)
        BY <2>3 DEF Init
      <4>2. CASE i = N_CTID_MAX
        BY <2>1, <4>1, <4>2 DEF ChunkNext
      <4>3. CASE i # N_CTID_MAX
        <5>1. i + 1 \in 1 .. N_CTID_MAX /\ ChunkNext(i - 1) = i
          BY <2>1, <4>3 DEF ChunkNext
        <5>2. s[i + 1] = i
          BY <2>3, <5>1
        <5>3. QED
          BY <4>1, <4>3, <5>1, <5>2
      <4>4. QED
        BY <4>2, <4>3
    <3>3. QED
      BY <3>1, <3>2 DEF Linked
  <2>8. QED
    BY <2>1, <2>5, <2>6, <2>7, Zenon DEF FreeOver
<1>9. Swept
  BY DEF Init, Swept, Buckets
<1>10. Mapped
  BY <1>1 DEF Init, Mapped
<1>11. QED
  BY <1>3, <1>5, <1>6, <1>7, <1>8, <1>9, <1>10 DEF Inv, CalmInv, CleanInv

\* The mishaps a behaviour is exposed to never change.
LEMMA EnvKept ==
  ASSUME [Next]_vars
  PROVE  env' = env
  BY Zenon DEF Next, OpenLoad, OpenStore, Register, Unregister, MapUserMem, UnmapUserMem,
         AttachDmaBuf, DetachDmaBuf, PageFault, AddBuffer, DeleteBuffer, CloseLoad, CloseStore,
         ReleaseBucket, ReleaseDone, vars

\* The invariant of the table is inductive ...
LEMMA InvStep ==
  ASSUME Inv, [Next]_vars
  PROVE  Inv'
<1>1. Calm' = Calm
  BY EnvKept DEF Calm
<1>2. QED
  BY <1>1, CalmStep DEF Inv

\* ... and so is that of what is left behind.
LEMMA CleanInvStep ==
  ASSUME Apart, Inv, CleanInv, [Next]_vars
  PROVE  CleanInv'
<1>1. (env = {} => Calm) /\ (Tidy => Calm)
  BY DEF Calm, Tidy
<1>2. env' = env /\ Tidy' = Tidy
  BY EnvKept DEF Tidy
<1>3. Tidy => Swept'
  BY <1>1, SweptStep DEF Inv, CleanInv
<1>4. env = {} => Mapped'
  BY <1>1, MappedStep DEF Inv, CleanInv
<1>5. QED
  BY <1>2, <1>3, <1>4 DEF CleanInv

\* The table is whole whenever open and release do not interleave and a ctid is left.
THEOREM TableWhole == Spec => []Inv
<1>1. Init => Inv
  BY InitInv
<1>2. Inv /\ [Next]_vars => Inv'
  BY InvStep
<1>3. QED
  BY <1>1, <1>2, PTL DEF Spec

\* What it says of the ctids.
LEMMA InvUnique ==
  ASSUME Inv
  PROVE  UniqueCtids
<1>1. SUFFICES ASSUME CalmInv
               PROVE  UniqueCtids
  BY Zenon DEF Inv, Calm, UniqueCtids
<1>2. \A t, u \in Cthreads :
        t # u /\ state[t] = "registered" /\ state[u] = "registered" => ctid[t] # ctid[u]
  BY <1>1, Zenon DEF CalmInv, Owned
<1>3. \A h \in Hpids : IsInjective(ctid_list[h])
  BY <1>1 DEF CalmInv, Owned, OneList, OneEach, Injection
<1>4. \A g, h \in Hpids : g # h => Range(ctid_list[g]) \cap Range(ctid_list[h]) = {}
  BY <1>1, ListedFacts DEF CalmInv
<1>5. \E n \in 0 .. N_CTID_MAX : \E s \in Injection(1 .. n, Ctids) :
        FreeList(s) /\ Range(s) = Ctids \ Listed
  <2>1. PICK n \in Nat \ {0} : \E s \in Injection(1 .. n, Ctids) :
          Linked(pid_alloc, next, s, n) /\ Range(s) = Ctids \ Listed
    BY <1>1, Zenon DEF CalmInv, FreeOver
  <2>2. PICK s \in Injection(1 .. n, Ctids) :
          Linked(pid_alloc, next, s, n) /\ Range(s) = Ctids \ Listed
    BY <2>1, Zenon
  <2>3. s \in [1 .. n -> Ctids]
    BY <2>2 DEF Injection
  <2>4. Len(s) = n /\ DOMAIN s = 1 .. n /\ s # << >>
    BY <2>3, ListLen
  <2>5. FreeList(s)
    BY <2>2, <2>4, Zenon DEF FreeList, Linked
  <2>6. /\ Cardinality(1 .. n) = n /\ IsFiniteSet(Ctids) /\ Cardinality(Ctids) = N_CTID_MAX
    <3>1. /\ (IF 1 > n THEN 0 ELSE n - 1 + 1) = n
          /\ (IF 0 > N_CTID_MAX - 1 THEN 0 ELSE N_CTID_MAX - 1 - 0 + 1) = N_CTID_MAX
          /\ 1 \in Int /\ n \in Int /\ 0 \in Int /\ N_CTID_MAX - 1 \in Int
      BY CtidAssumption
    <3>2. Cardinality(1 .. n) = n
      BY <3>1, FS_Interval
    <3>3. IsFiniteSet(Ctids) /\ Cardinality(Ctids) = N_CTID_MAX
      BY <3>1, FS_Interval, Zenon DEF Ctids
    <3>4. QED
      BY <3>2, <3>3
  <2>7. Cardinality(1 .. n) <= Cardinality(Ctids)
    BY <2>2, <2>6, FS_Injection, Zenon
  <2>8. n \in 0 .. N_CTID_MAX
    BY <2>6, <2>7, CtidAssumption
  <2>9. QED
    BY <2>2, <2>5, <2>8, Zenon
<1>6. QED
  BY <1>2, <1>3, <1>4, <1>5, Zenon DEF UniqueCtids

\* IOCTL_REGISTER_CTID never gives out a ctid that is in use, and none is lost, for any
\* number of threads, processes, ctids and buckets, where open and release do not
\* interleave and the last ctid stays free.
THEOREM CtidsUnique == Spec => []UniqueCtids
<1>1. Inv => UniqueCtids
  BY InvUnique
<1>2. QED
  BY <1>1, TableWhole, PTL

\* The last vfpga_dev_release leaves no ctid in use, where processes hash to different
\* buckets, also when page faults arrive late; while none does, IOCTL_UNREGISTER_CTID
\* and the release leave no buffer mapped for a ctid that is not in use.
THEOREM NothingLeft ==
  ASSUME Apart
  PROVE  Spec => []NothingStale
<1>1. Init => Inv /\ CleanInv
  BY InitInv
<1>2. Inv /\ CleanInv /\ [Next]_vars => (Inv /\ CleanInv)'
  BY InvStep, CleanInvStep
<1>3. Inv /\ CleanInv => NothingStale
  <2>1. SUFFICES ASSUME Inv, CleanInv
                 PROVE  NothingStale
    OBVIOUS
  <2>2. ASSUME Tidy, \A t \in Cthreads : state[t] = "closed"
        PROVE  Listed = {}
    <3>1. Files = {} /\ \A t \in Cthreads : state[t] # "releasing"
      BY <2>2 DEF Files
    <3>2. CalmInv /\ Swept
      BY <2>1, <2>2 DEF Inv, CleanInv, Calm, Tidy
    <3>3. \A b \in Buckets : chain[b] = << >>
      BY <3>1, <3>2 DEF Swept
    <3>4. \A h \in Hpids : ctid_list[h] = << >>
      BY <3>2, <3>3, BucketType, EmptyEach DEF CalmInv, Chained, InBucket
    <3>5. QED
      BY <3>4, EmptyEach DEF Listed
  <2>3. env = {} => \A c \in Ctids : user_buff_map[c] # << >> => c \in Listed
    BY <2>1 DEF CleanInv, Mapped
  <2>4. QED
    BY <2>2, <2>3, Zenon DEF NothingStale, Tidy
<1>4. QED
  BY <1>1, <1>2, <1>3, PTL DEF Spec
================================================================================
