-------------------------- MODULE DevmemPoolProofs --------------------------
(***************************************************************************)
(* Proofs about the device-memory allocator, for every number of threads,  *)
(* chunks and pages per chunk.                                             *)
(***************************************************************************)
EXTENDS DevmemPool, SequenceTheorems, FiniteSetTheorems, WellFoundedInduction, TLAPS

-----------------------------------------------------------------------------
(***************************************************************************)
(* What the list operations of the allocator do to the set of the pages on *)
(* the list, and to its being free of duplicates.                          *)
(***************************************************************************)

(***************************************************************************)
(* Popping the head, as dmirror_devmem_alloc_page() does.                  *)
(***************************************************************************)
LEMMA PopLemma ==
    ASSUME NEW S, NEW s \in Seq(S), s # <<>>
    PROVE  /\ Head(s) \in S
           /\ Tail(s) \in Seq(S)
           /\ Elems(s) = {Head(s)} \cup Elems(Tail(s))
           /\ Distinct(s) => Distinct(Tail(s)) /\ Head(s) \notin Elems(Tail(s))
<1>1. /\ Head(s) \in S
      /\ Tail(s) \in Seq(S)
      /\ Len(Tail(s)) = Len(s) - 1
      /\ \A i \in 1 .. Len(Tail(s)) : Tail(s)[i] = s[i + 1]
  BY HeadTailProperties
<1>2. Len(s) \in Nat /\ Len(s) # 0 /\ Head(s) = s[1]
  OBVIOUS
<1> DEFINE r == Tail(s)
<1> HIDE DEF r
<1>3. Len(r) = Len(s) - 1 /\ \A i \in 1..Len(r) : r[i] = s[i + 1]
  BY <1>1 DEF r
<1>4. Elems(s) = {s[1]} \cup Elems(r)
  <2>1. ASSUME NEW i \in 1..Len(s) PROVE s[i] \in {s[1]} \cup Elems(r)
    <3>1. CASE i = 1
      BY <3>1
    <3>2. CASE i # 1
      <4>1. i - 1 \in 1..Len(r) /\ r[i - 1] = s[i]
        BY <3>2, <1>2, <1>3
      <4> QED BY <4>1 DEF Elems
    <3> QED BY <3>1, <3>2
  <2>2. s[1] \in Elems(s)
    BY <1>2 DEF Elems
  <2>3. ASSUME NEW i \in 1..Len(r) PROVE r[i] \in Elems(s)
    BY <1>2, <1>3 DEF Elems
  <2> QED BY <2>1, <2>2, <2>3 DEF Elems
<1>5. Distinct(s) => Distinct(r) /\ s[1] \notin Elems(r)
  BY <1>2, <1>3 DEF Distinct, Elems
<1> QED BY <1>1, <1>2, <1>4, <1>5 DEF r

(***************************************************************************)
(* Putting one list in front of another, as dmirror_devmem_free() does     *)
(* with one page and dmirror_allocate_chunk() with those of a chunk.       *)
(***************************************************************************)
LEMMA PushLemma ==
    ASSUME NEW S, NEW r \in Seq(S), NEW s \in Seq(S)
    PROVE  /\ r \o s \in Seq(S)
           /\ Elems(r \o s) = Elems(r) \cup Elems(s)
           /\ Distinct(r) /\ Distinct(s) /\ Elems(r) \cap Elems(s) = {}
                => Distinct(r \o s)
<1> DEFINE q == r \o s
<1> HIDE DEF q
<1>1. /\ q \in Seq(S)
      /\ Len(q) = Len(r) + Len(s)
      /\ \A i \in 1 .. Len(r) + Len(s) : q[i] = IF i <= Len(r) THEN r[i] ELSE s[i - Len(r)]
  BY ConcatProperties DEF q
<1>2. Len(r) \in Nat /\ Len(s) \in Nat
  OBVIOUS
<1>3. \A i \in 1..Len(r) : i \in 1..Len(q) /\ q[i] = r[i]
  BY <1>1, <1>2
<1>4. \A i \in 1..Len(s) : i + Len(r) \in 1..Len(q) /\ q[i + Len(r)] = s[i]
  <2> SUFFICES ASSUME NEW i \in 1..Len(s)
               PROVE  i + Len(r) \in 1..Len(q) /\ q[i + Len(r)] = s[i]
    OBVIOUS
  <2>1. /\ i + Len(r) \in 1 .. Len(r) + Len(s)
        /\ ~(i + Len(r) <= Len(r))
        /\ i + Len(r) - Len(r) = i
    BY <1>2
  <2> HIDE <1>2
  <2> QED BY <2>1, <1>1
<1>5. \A i \in 1..Len(q) : \/ i \in 1..Len(r) /\ q[i] = r[i]
                           \/ i - Len(r) \in 1..Len(s) /\ q[i] = s[i - Len(r)]
  BY <1>1, <1>2
<1>6. Elems(q) = Elems(r) \cup Elems(s)
  <2>1. Elems(r) \subseteq Elems(q)
    BY <1>3 DEF Elems
  <2>2. Elems(s) \subseteq Elems(q)
    BY <1>4 DEF Elems
  <2>3. Elems(q) \subseteq Elems(r) \cup Elems(s)
    BY <1>5 DEF Elems
  <2> QED BY <2>1, <2>2, <2>3
<1>7. ASSUME Distinct(r), Distinct(s), Elems(r) \cap Elems(s) = {},
             NEW i \in 1..Len(q), NEW j \in 1..Len(q), q[i] = q[j]
      PROVE  i = j
  <2>1. CASE i \in 1..Len(r) /\ q[i] = r[i] /\ j \in 1..Len(r) /\ q[j] = r[j]
    BY <2>1, <1>7 DEF Distinct
  <2>2. CASE /\ i - Len(r) \in 1..Len(s) /\ q[i] = s[i - Len(r)]
             /\ j - Len(r) \in 1..Len(s) /\ q[j] = s[j - Len(r)]
    <3>1. i - Len(r) = j - Len(r)
      BY <2>2, <1>7 DEF Distinct
    <3> QED BY <3>1, <1>2
  <2>3. CASE /\ i \in 1..Len(r) /\ q[i] = r[i]
             /\ j - Len(r) \in 1..Len(s) /\ q[j] = s[j - Len(r)]
    BY <2>3, <1>7 DEF Elems
  <2>4. CASE /\ j \in 1..Len(r) /\ q[j] = r[j]
             /\ i - Len(r) \in 1..Len(s) /\ q[i] = s[i - Len(r)]
    BY <2>4, <1>7 DEF Elems
  <2> QED BY <1>5, <2>1, <2>2, <2>3, <2>4
<1> QED BY <1>1, <1>6, <1>7 DEF q, Distinct

(***************************************************************************)
(* Pushing one page.                                                       *)
(***************************************************************************)
LEMMA PushOneLemma ==
    ASSUME NEW S, NEW p \in S, NEW s \in Seq(S)
    PROVE  /\ <<p>> \o s \in Seq(S)
           /\ Elems(<<p>> \o s) = {p} \cup Elems(s)
           /\ Distinct(s) /\ p \notin Elems(s) => Distinct(<<p>> \o s)
<1> DEFINE r == <<p>>
<1>1. r \in Seq(S) /\ Len(r) = 1 /\ r[1] = p
  OBVIOUS
<1> HIDE DEF r
<1>2. Elems(r) = {p} /\ Distinct(r)
  BY <1>1 DEF Elems, Distinct
<1>3. /\ r \o s \in Seq(S)
      /\ Elems(r \o s) = {p} \cup Elems(s)
      /\ Distinct(s) /\ p \notin Elems(s) => Distinct(r \o s)
  BY <1>1, <1>2, PushLemma
<1> QED BY <1>3 DEF r

(***************************************************************************)
(* The last of a non-empty set of list positions exists.                   *)
(***************************************************************************)
LEMMA LastExists ==
    ASSUME NEW n \in Nat, NEW I \in SUBSET (1..n), I # {}
    PROVE  \E i \in I : \A j \in I : j <= i
<1> DEFINE T == {n - i : i \in I}
<1>1. T \subseteq Nat /\ T # {}
  OBVIOUS
<1>2. PICK x \in T : \A y \in T : ~(<<y, x>> \in OpToRel(<, Nat))
  BY <1>1, NatLessThanWellFounded, WFMin, Zenon
<1>3. \A y \in T : ~(y < x)
  BY <1>1, <1>2 DEF OpToRel
<1>4. PICK i \in I : x = n - i
  OBVIOUS
<1>5. ASSUME NEW j \in I PROVE j <= i
  <2>1. n - j \in T
    OBVIOUS
  <2>2. ~(n - j < n - i)
    BY <2>1, <1>3, <1>4
  <2> QED BY <2>2
<1> QED BY <1>5

(***************************************************************************)
(* What dmirror_remove_free_pages() leaves: a part of the list, in which   *)
(* no page of the chunk is left.                                           *)
(***************************************************************************)
LEMMA RemoveLemma ==
    ASSUME free_pages \in Seq(Page), NEW c
    PROVE  LET rest == dmirror_remove_free_pages(c) IN
           /\ rest \in Seq(Page)
           /\ Elems(rest) \subseteq Elems(free_pages)
           /\ \A p \in Elems(rest) : dmirror_page_to_chunk(p) # c
           /\ Distinct(free_pages) => Distinct(rest)
<1> DEFINE mine == {i \in 1..Len(free_pages) : dmirror_page_to_chunk(free_pages[i]) = c}
<1> DEFINE last == CHOOSE i \in mine : \A j \in mine : j <= i
<1>1. CASE mine = {}
  <2>1. dmirror_remove_free_pages(c) = free_pages
    BY <1>1 DEF dmirror_remove_free_pages
  <2>2. \A p \in Elems(free_pages) : dmirror_page_to_chunk(p) # c
    BY <1>1 DEF Elems
  <2> QED BY <2>1, <2>2
<1>2. CASE mine # {}
  <2> Len(free_pages) \in Nat
    OBVIOUS
  <2>1. last \in mine /\ \A j \in mine : j <= last
    BY <1>2, LastExists
  <2> DEFINE rest == SubSeq(free_pages, last + 1, Len(free_pages))
  <2>2. dmirror_remove_free_pages(c) = rest
    BY <1>2 DEF dmirror_remove_free_pages
  <2>3. last \in 1..Len(free_pages)
    BY <2>1
  <2>4. \A i \in 1..Len(free_pages) : i > last => dmirror_page_to_chunk(free_pages[i]) # c
    <3>1. ASSUME NEW i \in 1..Len(free_pages), i > last, i \in mine PROVE FALSE
      <4>1. i <= last
        BY <3>1, <2>1
      <4> HIDE DEF last
      <4> QED BY <3>1, <2>3, <4>1
    <3> QED BY <3>1
  <2> HIDE DEF last, mine
  <2>5. /\ rest \in Seq(Page)
        /\ Len(rest) = Len(free_pages) - last
        /\ \A i \in 1 .. Len(free_pages) - last : rest[i] = free_pages[last + i]
    <3>1. \A i \in (last + 1) .. Len(free_pages) : free_pages[i] \in Page
      BY <2>3
    <3> QED BY <3>1, <2>3, SubSeqProperties
  <2> HIDE DEF rest
  <2>6. \A i \in 1..Len(rest) : /\ last + i \in 1..Len(free_pages)
                                /\ last + i > last
                                /\ rest[i] = free_pages[last + i]
    BY <2>3, <2>5
  <2>7. Elems(rest) \subseteq Elems(free_pages)
    BY <2>6 DEF Elems
  <2>8. \A p \in Elems(rest) : dmirror_page_to_chunk(p) # c
    BY <2>4, <2>6 DEF Elems
  <2>9. Distinct(free_pages) => Distinct(rest)
    <3>1. SUFFICES ASSUME Distinct(free_pages), NEW i \in 1..Len(rest), NEW j \in 1..Len(rest),
                          rest[i] = rest[j]
                   PROVE  i = j
      BY DEF Distinct
    <3>2. last + i = last + j
      BY <2>6, <3>1 DEF Distinct
    <3> QED BY <3>2, <2>3
  <2> QED BY <2>2, <2>5, <2>7, <2>8, <2>9
<1> QED BY <1>1, <1>2

(***************************************************************************)
(* Two pages of one chunk are the same only when their numbers are.        *)
(***************************************************************************)
LEMMA PairLemma ==
    ASSUME NEW c, NEW a, NEW b, <<c, a>> = <<c, b>>
    PROVE  a = b
OBVIOUS

(***************************************************************************)
(* The pages of a chunk in the order dmirror_allocate_chunk() stacks them. *)
(***************************************************************************)
LEMMA StackLemma ==
    ASSUME NEW c \in Chunk
    PROVE  /\ Stacked(c) \in Seq(Page)
           /\ Stacked(c) # <<>>
           /\ Elems(Stacked(c)) = PagesOf(c)
           /\ Distinct(Stacked(c))
<1> ChunkSize \in Nat \ {0}
  BY PoolAssumption
<1> DEFINE s == Stacked(c)
<1>1. \A i \in 1..ChunkSize : s[i] = <<c, ChunkSize + 1 - i>> /\ s[i] \in Page
  BY DEF Stacked, Page
<1>2. s \in [1..ChunkSize -> Page]
  BY DEF Stacked, Page
<1> HIDE DEF s
<1>3. s \in Seq(Page) /\ Len(s) = ChunkSize
  BY <1>2, IsASeq, LenProperties
<1>4. s # <<>>
  BY <1>3
<1>5. Elems(s) = PagesOf(c)
  <2>1. ASSUME NEW k \in 1..ChunkSize PROVE <<c, k>> \in Elems(s)
    <3>1. ChunkSize + 1 - k \in 1..Len(s) /\ ChunkSize + 1 - (ChunkSize + 1 - k) = k
      BY <1>3
    <3>2. s[ChunkSize + 1 - k] = <<c, k>>
      BY <3>1, <1>1, <1>3
    <3> QED BY <3>1, <3>2 DEF Elems
  <2>2. ASSUME NEW i \in 1..Len(s) PROVE s[i] \in PagesOf(c)
    <3>1. s[i] = <<c, ChunkSize + 1 - i>> /\ ChunkSize + 1 - i \in 1..ChunkSize
      BY <1>1, <1>3
    <3> QED BY <3>1 DEF PagesOf
  <2> QED BY <2>1, <2>2 DEF Elems, PagesOf
<1>6. Distinct(s)
  <2> SUFFICES ASSUME NEW i \in 1..Len(s), NEW j \in 1..Len(s), s[i] = s[j]
               PROVE  i = j
    BY DEF Distinct
  <2>1. /\ s[i] = <<c, ChunkSize + 1 - i>>
        /\ s[j] = <<c, ChunkSize + 1 - j>>
    BY <1>1, <1>3
  <2>2. <<c, ChunkSize + 1 - i>> = <<c, ChunkSize + 1 - j>>
    BY <2>1, Zenon
  <2>3. i \in Int /\ j \in Int
    BY <1>3
  <2>4. ChunkSize + 1 - i = ChunkSize + 1 - j
    BY <2>2, PairLemma
  <2> QED BY <2>3, <2>4
<1> QED BY <1>3, <1>4, <1>5, <1>6 DEF s

-----------------------------------------------------------------------------
(***************************************************************************)
(* Type correctness.                                                       *)
(***************************************************************************)

(***************************************************************************)
(* A page given to dmirror_devmem_free() leaves list and counter typed.    *)
(***************************************************************************)
LEMMA FreeType ==
    ASSUME TypeOK, NEW p \in Page, dmirror_devmem_free(p)
    PROVE  free_pages' \in Seq(Page) /\ cfree' \in Nat
<1>1. <<p>> \o free_pages \in Seq(Page)
  BY PushOneLemma DEF TypeOK
<1>2. \/ UNCHANGED <<free_pages, cfree>>
      \/ free_pages' = <<p>> \o free_pages /\ cfree' = cfree + 1
  BY Zenon DEF dmirror_devmem_free
<1>3. free_pages \in Seq(Page) /\ cfree \in Nat
  BY DEF TypeOK
<1>4. CASE UNCHANGED <<free_pages, cfree>>
  BY <1>3, <1>4
<1>5. CASE free_pages' = <<p>> \o free_pages /\ cfree' = cfree + 1
  <2>1. free_pages' \in Seq(Page)
    BY <1>1, <1>5, Zenon
  <2> QED BY <2>1, <1>3, <1>5
<1> QED BY <1>2, <1>4, <1>5

(***************************************************************************)
(* What dmirror_allocate_chunk() makes of the list, and the page it hands  *)
(* to its caller.                                                          *)
(***************************************************************************)
LEMMA StackedListType ==
    ASSUME TypeOK, NEW c \in Chunk
    PROVE  LET list == Stacked(c) \o free_pages IN
           /\ list \in Seq(Page)
           /\ list # <<>>
           /\ Head(list) \in Page
           /\ Tail(list) \in Seq(Page)
           /\ Elems(list) = PagesOf(c) \cup FreeSet
           /\ Distinct(free_pages) /\ PagesOf(c) \cap FreeSet = {} => Distinct(list)
<1> DEFINE list == Stacked(c) \o free_pages
<1>1. free_pages \in Seq(Page)
  BY DEF TypeOK
<1>2. /\ Stacked(c) \in Seq(Page)
      /\ Stacked(c) # <<>>
      /\ Elems(Stacked(c)) = PagesOf(c)
      /\ Distinct(Stacked(c))
  BY StackLemma
<1>3. /\ list \in Seq(Page)
      /\ Elems(list) = PagesOf(c) \cup FreeSet
      /\ Distinct(free_pages) /\ PagesOf(c) \cap FreeSet = {} => Distinct(list)
  BY <1>1, <1>2, PushLemma DEF FreeSet
<1>4. list # <<>>
  <2>1. <<c, 1>> \in Elems(list)
    BY <1>3, PoolAssumption DEF PagesOf
  <2> QED BY <2>1 DEF Elems
<1> HIDE DEF list
<1>5. Head(list) \in Page /\ Tail(list) \in Seq(Page)
  BY <1>3, <1>4, HeadTailProperties
<1> QED BY <1>3, <1>4, <1>5 DEF list

(***************************************************************************)
(* An entry of the chunk table is a chunk.                                 *)
(***************************************************************************)
LEMMA EntryType ==
    ASSUME TypeOK, next <= Len(devmem_chunks)
    PROVE  devmem_chunks[next] \in Chunk
BY DEF TypeOK

(***************************************************************************)
(* The threads inside dmirror_allocate_chunk() have a chunk in hand, and   *)
(* the removal loop stays inside the table while it works on an entry.     *)
(***************************************************************************)
PlaceOK ==
    /\ \A t \in Thread : pc[t] \in {"lock", "register", "push"} => devmem[t] \in Chunk
    /\ \A t \in Thread : pc[t] = "init" => dpage[t] \in Page
    /\ \A t \in Thread : pc[t] \in {"evict", "unmap"} => next <= Len(devmem_chunks)
    /\ \A t \in Thread : devmem_lock = t <=> pc[t] \in {"register"} \cup RemoverPC

TypeInv == TypeOK /\ PlaceOK

(***************************************************************************)
(* Every step keeps the types and the places.                              *)
(***************************************************************************)
LEMMA TypeStep ==
    ASSUME TypeInv, [Next]_vars
    PROVE  TypeInv'
<1> USE PoolAssumption DEF TypeInv, PlaceOK, AllocPC, RemoverPC
<1> TypeOK
  OBVIOUS
<1>1. ASSUME NEW t \in Thread, MigrateStart(t) PROVE TypeInv'
  BY <1>1 DEF TypeOK, MigrateStart, tableVars, listVars, regionVars, threadVars
<1>2. ASSUME NEW t \in Thread, AllocStart(t) PROVE TypeInv'
  BY <1>2 DEF TypeOK, AllocStart, tableVars, listVars, regionVars, threadVars
<1>3. ASSUME NEW t \in Thread, PopFree(t) PROVE TypeInv'
  <2>1. Head(free_pages) \in Page /\ Tail(free_pages) \in Seq(Page)
    BY <1>3, HeadTailProperties DEF TypeOK, PopFree
  <2> QED BY <1>3, <2>1 DEF TypeOK, PopFree, tableVars, listVars, regionVars, threadVars
<1>4. ASSUME NEW t \in Thread, ListEmpty(t) PROVE TypeInv'
  BY <1>4 DEF TypeOK, ListEmpty, tableVars, listVars, regionVars, threadVars
<1>5. ASSUME NEW t \in Thread, PageInit(t) PROVE TypeInv'
  BY <1>5 DEF TypeOK, PageInit, tableVars, listVars, regionVars, threadVars
<1>6. ASSUME NEW t \in Thread, AllocDone(t) PROVE TypeInv'
  BY <1>6 DEF TypeOK, AllocDone, tableVars, listVars, regionVars, threadVars
<1>7. ASSUME NEW t \in Thread, FinalizePage(t) PROVE TypeInv'
  <2>1. free_pages' \in Seq(Page) /\ cfree' \in Nat /\ resident' \subseteq Page
    BY <1>7, FreeType DEF TypeOK, FinalizePage
  <2>2. batch' \in [Thread -> SUBSET Page]
    BY <1>7 DEF TypeOK, FinalizePage
  <2> QED BY <1>7, <2>1, <2>2 DEF TypeOK, FinalizePage, tableVars, listVars, regionVars, threadVars
<1>8. ASSUME NEW t \in Thread, FinalizeDone(t) PROVE TypeInv'
  BY <1>8 DEF TypeOK, FinalizeDone, tableVars, listVars, regionVars, threadVars
<1>9. ASSUME NEW t \in Thread, ReserveFails(t) PROVE TypeInv'
  BY <1>9 DEF TypeOK, ReserveFails, AfterChunk, tableVars, listVars, regionVars, threadVars
<1>10. ASSUME NEW t \in Thread, Reserve(t) PROVE TypeInv'
  BY <1>10 DEF TypeOK, Reserve, tableVars, listVars, regionVars, threadVars
<1>11. ASSUME NEW t \in Thread, ChunkLock(t) PROVE TypeInv'
  BY <1>11 DEF TypeOK, ChunkLock, tableVars, listVars, regionVars, threadVars
<1>12. ASSUME NEW t \in Thread, RegisterFails(t) PROVE TypeInv'
  BY <1>12 DEF TypeOK, RegisterFails, AfterChunk, GrownCapacity, tableVars, listVars, regionVars, threadVars
<1>13. ASSUME NEW t \in Thread, Register(t) PROVE TypeInv'
  <2>1. devmem[t] \in Chunk
    BY <1>13 DEF Register
  <2>2. devmem_chunks' \in Seq(Chunk)
    BY <1>13, <2>1, AppendProperties DEF TypeOK, Register
  <2>3. devmem_capacity' \in Nat
    BY <1>13 DEF TypeOK, Register, GrownCapacity
  <2> QED BY <1>13, <2>1, <2>2, <2>3 DEF TypeOK, Register, tableVars, listVars, regionVars, threadVars
<1>14. ASSUME NEW t \in Thread, PushChunk(t) PROVE TypeInv'
  <2>1. devmem[t] \in Chunk
    BY <1>14 DEF PushChunk
  <2> DEFINE list == Stacked(devmem[t]) \o free_pages
  <2>2. list \in Seq(Page) /\ Head(list) \in Page /\ Tail(list) \in Seq(Page)
    BY <2>1, StackedListType
  <2> HIDE DEF list
  <2>3. /\ free_pages' \in Seq(Page)
        /\ calloc' \in Nat
        /\ dpage' \in [Thread -> Page \cup {NoPage}]
        /\ ppage[t] => dpage'[t] \in Page
        /\ \A s \in Thread \ {t} : dpage'[s] = dpage[s]
    <3>1. CASE ppage[t]
      <4>1. /\ free_pages' = Tail(list)
            /\ dpage' = [dpage EXCEPT ![t] = Head(list)]
            /\ calloc' = calloc + 1
        BY <1>14, <3>1 DEF PushChunk, list
      <4> QED BY <4>1, <2>2 DEF TypeOK
    <3>2. CASE ~ppage[t]
      <4>1. free_pages' = list /\ dpage' = dpage /\ calloc' = calloc
        BY <1>14, <3>2 DEF PushChunk, list
      <4> QED BY <4>1, <2>2, <3>2 DEF TypeOK
    <3> QED BY <3>1, <3>2
  <2> QED BY <1>14, <2>3 DEF TypeOK, PushChunk, AfterChunk, tableVars, listVars, regionVars, threadVars
<1>15. ASSUME NEW t \in Thread, ReleaseStart(t) PROVE TypeInv'
  BY <1>15 DEF TypeOK, ReleaseStart, tableVars, listVars, regionVars, threadVars
<1>16. ASSUME NEW t \in Thread, MarkChunk(t) PROVE TypeInv'
  <2>1. free_pages' \in Seq(Page)
    BY <1>16, RemoveLemma DEF TypeOK, MarkChunk
  <2>2. devmem_chunks[next] \in Chunk
    BY <1>16, EntryType DEF MarkChunk
  <2> QED BY <1>16, <2>1, <2>2 DEF TypeOK, MarkChunk, tableVars, listVars, regionVars, threadVars
<1>17. ASSUME NEW t \in Thread, dmirror_device_evict_chunk(t) PROVE TypeInv'
  BY <1>17 DEF TypeOK, dmirror_device_evict_chunk, tableVars, listVars, regionVars, threadVars
<1>18. ASSUME NEW t \in Thread, UnmapChunk(t) PROVE TypeInv'
  <2>1. devmem_chunks[next] \in Chunk
    BY <1>18, EntryType DEF UnmapChunk
  <2> QED BY <1>18, <2>1 DEF TypeOK, UnmapChunk, tableVars, listVars, regionVars, threadVars
<1>19. ASSUME NEW t \in Thread, RemoveDone(t) PROVE TypeInv'
  <2>1. free_pages' \in Seq(Page)
    <3>1. CASE free_pages' = <<>>
      BY <3>1
    <3>2. CASE free_pages' = free_pages
      BY <3>2 DEF TypeOK
    <3> QED BY <1>19, <3>1, <3>2 DEF RemoveDone
  <2>2. TypeOK'
    BY <1>19, <2>1 DEF TypeOK, RemoveDone, regionVars
  <2>3. \A s \in Thread : pc'[s] \notin {"register"} \cup RemoverPC
    BY <1>19 DEF TypeOK, RemoveDone
  <2> QED BY <1>19, <2>2, <2>3 DEF TypeOK, RemoveDone
<1>20. ASSUME FreeResident PROVE TypeInv'
  <2>1. free_pages' \in Seq(Page) /\ cfree' \in Nat /\ resident' \subseteq Page
    BY <1>20, FreeType DEF TypeOK, FreeResident
  <2> QED BY <1>20, <2>1 DEF TypeOK, FreeResident, tableVars, listVars, regionVars, threadVars
<1>21. ASSUME UNCHANGED vars PROVE TypeInv'
  BY <1>21 DEF TypeOK, vars, tableVars, listVars, regionVars, threadVars
<1> QED
  BY <1>1, <1>2, <1>3, <1>4, <1>5, <1>6, <1>7, <1>8, <1>9, <1>10, <1>11, <1>12, <1>13, <1>14, <1>15, <1>16, <1>17, <1>18, <1>19, <1>20, <1>21
  DEF Next, Migrate, AllocateChunk, RemoveChunks

(***************************************************************************)
(* Every variable keeps its type, whatever the threads do.                 *)
(***************************************************************************)
THEOREM TypeCorrect == Spec => []TypeOK
<1>1. Init => TypeInv
  BY PoolAssumption DEF Init, TypeInv, TypeOK, PlaceOK, AllocPC, RemoverPC
<1>2. TypeInv /\ [Next]_vars => TypeInv'
  BY TypeStep
<1>3. TypeInv => TypeOK
  BY DEF TypeInv
<1> QED BY <1>1, <1>2, <1>3, PTL DEF Spec

-----------------------------------------------------------------------------
(***************************************************************************)
(* The chunk table.  Its entries are the mapped chunks; while a removal    *)
(* runs, those from `next' on.  A chunk that waits to be registered is     *)
(* reserved by one thread only and not mapped, so registering it cannot    *)
(* make a duplicate.                                                       *)
(***************************************************************************)
TableInv ==
    /\ Len(devmem_chunks) <= devmem_capacity
    /\ Distinct(devmem_chunks)
    /\ live \subseteq reserved
    /\ ~Removing => live = Elems(devmem_chunks)
    /\ Removing => /\ next <= Len(devmem_chunks) + 1
                   /\ live = {devmem_chunks[i] : i \in next..Len(devmem_chunks)}
    /\ \A t \in Thread : pc[t] \in {"lock", "register"} => devmem[t] \in reserved \ live
    /\ \A s, t \in Thread :
         /\ s # t
         /\ pc[s] \in {"lock", "register"}
         /\ pc[t] \in {"lock", "register"}
         => devmem[s] # devmem[t]

(***************************************************************************)
(* A step that changes no part of the table, of the regions or of the      *)
(* chunks in hand, and moves no thread to or from the lock and the removal *)
(* loop, keeps the table.                                                  *)
(***************************************************************************)
LEMMA TableFrame ==
    ASSUME TypeInv, TypeInv', TableInv,
           UNCHANGED <<devmem_chunks, devmem_capacity, live, next>>,
           live \subseteq reserved',
           Removing' = Removing,
           \A t \in Thread : pc'[t] \in {"lock", "register"} =>
               pc[t] \in {"lock", "register"} /\ devmem'[t] = devmem[t] /\ devmem[t] \in reserved'
    PROVE  TableInv'
BY DEF TableInv

(***************************************************************************)
(* Only the thread that holds devmem_lock is in the removal loop.          *)
(***************************************************************************)
LEMMA LockExcludes ==
    ASSUME TypeInv, NEW t \in Thread, pc[t] \in {"register"} \cup RemoverPC
    PROVE  \A s \in Thread : pc[s] \in {"register"} \cup RemoverPC => s = t
BY DEF TypeInv, PlaceOK

(***************************************************************************)
(* Every step keeps the table.                                             *)
(***************************************************************************)
LEMMA TableStep ==
    ASSUME TypeInv, TableInv, [Next]_vars
    PROVE  TableInv'
<1>0. TypeInv'
  BY TypeStep
<1> USE DEF AllocPC, RemoverPC
<1>1. ASSUME NEW t \in Thread, MigrateStart(t) PROVE TableInv'
  <2>1. Removing' = Removing
    BY <1>1 DEF MigrateStart, Removing, TypeInv, TypeOK
  <2>2. /\ UNCHANGED <<devmem_chunks, devmem_capacity, live, next, reserved>>
        /\ \A s \in Thread : pc'[s] \in {"lock", "register"} =>
             pc[s] \in {"lock", "register"} /\ devmem'[s] = devmem[s]
    BY <1>1 DEF MigrateStart, TypeInv, TypeOK, tableVars, regionVars
  <2> QED BY <1>0, <2>1, <2>2, TableFrame DEF TableInv
<1>2. ASSUME NEW t \in Thread, AllocStart(t) PROVE TableInv'
  <2>1. Removing' = Removing
    BY <1>2 DEF AllocStart, Removing, TypeInv, TypeOK
  <2>2. /\ UNCHANGED <<devmem_chunks, devmem_capacity, live, next, reserved>>
        /\ \A s \in Thread : pc'[s] \in {"lock", "register"} =>
             pc[s] \in {"lock", "register"} /\ devmem'[s] = devmem[s]
    BY <1>2 DEF AllocStart, TypeInv, TypeOK, tableVars, regionVars
  <2> QED BY <1>0, <2>1, <2>2, TableFrame DEF TableInv
<1>3. ASSUME NEW t \in Thread, PopFree(t) PROVE TableInv'
  <2>1. Removing' = Removing
    BY <1>3 DEF PopFree, Removing, TypeInv, TypeOK
  <2>2. /\ UNCHANGED <<devmem_chunks, devmem_capacity, live, next, reserved>>
        /\ \A s \in Thread : pc'[s] \in {"lock", "register"} =>
             pc[s] \in {"lock", "register"} /\ devmem'[s] = devmem[s]
    BY <1>3 DEF PopFree, TypeInv, TypeOK, tableVars, regionVars
  <2> QED BY <1>0, <2>1, <2>2, TableFrame DEF TableInv
<1>4. ASSUME NEW t \in Thread, ListEmpty(t) PROVE TableInv'
  <2>1. Removing' = Removing
    BY <1>4 DEF ListEmpty, Removing, TypeInv, TypeOK
  <2>2. /\ UNCHANGED <<devmem_chunks, devmem_capacity, live, next, reserved>>
        /\ \A s \in Thread : pc'[s] \in {"lock", "register"} =>
             pc[s] \in {"lock", "register"} /\ devmem'[s] = devmem[s]
    BY <1>4 DEF ListEmpty, TypeInv, TypeOK, tableVars, regionVars
  <2> QED BY <1>0, <2>1, <2>2, TableFrame DEF TableInv
<1>5. ASSUME NEW t \in Thread, PageInit(t) PROVE TableInv'
  <2>1. Removing' = Removing
    BY <1>5 DEF PageInit, Removing, TypeInv, TypeOK
  <2>2. /\ UNCHANGED <<devmem_chunks, devmem_capacity, live, next, reserved>>
        /\ \A s \in Thread : pc'[s] \in {"lock", "register"} =>
             pc[s] \in {"lock", "register"} /\ devmem'[s] = devmem[s]
    BY <1>5 DEF PageInit, TypeInv, TypeOK, tableVars, regionVars
  <2> QED BY <1>0, <2>1, <2>2, TableFrame DEF TableInv
<1>6. ASSUME NEW t \in Thread, AllocDone(t) PROVE TableInv'
  <2>1. Removing' = Removing
    BY <1>6 DEF AllocDone, Removing, TypeInv, TypeOK
  <2>2. /\ UNCHANGED <<devmem_chunks, devmem_capacity, live, next, reserved>>
        /\ \A s \in Thread : pc'[s] \in {"lock", "register"} =>
             pc[s] \in {"lock", "register"} /\ devmem'[s] = devmem[s]
    BY <1>6 DEF AllocDone, TypeInv, TypeOK, tableVars, regionVars
  <2> QED BY <1>0, <2>1, <2>2, TableFrame DEF TableInv
<1>7. ASSUME NEW t \in Thread, FinalizePage(t) PROVE TableInv'
  <2>1. Removing' = Removing
    BY <1>7 DEF FinalizePage, Removing, TypeInv, TypeOK
  <2>2. /\ UNCHANGED <<devmem_chunks, devmem_capacity, live, next, reserved>>
        /\ \A s \in Thread : pc'[s] \in {"lock", "register"} =>
             pc[s] \in {"lock", "register"} /\ devmem'[s] = devmem[s]
    BY <1>7 DEF FinalizePage, TypeInv, TypeOK, tableVars, regionVars
  <2> QED BY <1>0, <2>1, <2>2, TableFrame DEF TableInv
<1>8. ASSUME NEW t \in Thread, FinalizeDone(t) PROVE TableInv'
  <2>1. Removing' = Removing
    BY <1>8 DEF FinalizeDone, Removing, TypeInv, TypeOK
  <2>2. /\ UNCHANGED <<devmem_chunks, devmem_capacity, live, next, reserved>>
        /\ \A s \in Thread : pc'[s] \in {"lock", "register"} =>
             pc[s] \in {"lock", "register"} /\ devmem'[s] = devmem[s]
    BY <1>8 DEF FinalizeDone, TypeInv, TypeOK, tableVars, regionVars
  <2> QED BY <1>0, <2>1, <2>2, TableFrame DEF TableInv
<1>9. ASSUME NEW t \in Thread, ReserveFails(t) PROVE TableInv'
  <2>1. Removing' = Removing
    BY <1>9 DEF ReserveFails, AfterChunk, Removing, TypeInv, TypeOK
  <2>2. /\ UNCHANGED <<devmem_chunks, devmem_capacity, live, next, reserved>>
        /\ \A s \in Thread : pc'[s] \in {"lock", "register"} =>
             pc[s] \in {"lock", "register"} /\ devmem'[s] = devmem[s]
    BY <1>9 DEF ReserveFails, AfterChunk, TypeInv, TypeOK, tableVars, regionVars
  <2> QED BY <1>0, <2>1, <2>2, TableFrame DEF TableInv
<1>10. ASSUME NEW t \in Thread, Reserve(t) PROVE TableInv'
  <2>1. PICK c \in Chunk \ reserved : devmem' = [devmem EXCEPT ![t] = c] /\ reserved' = reserved \cup {c}
    BY <1>10 DEF Reserve
  <2>2. Removing' = Removing
    BY <1>10, <1>0 DEF Reserve, Removing, TypeInv, TypeOK
  <2>3. c \notin live
    BY <2>1 DEF TableInv
  <2>4. \A s \in Thread : pc'[s] \in {"lock", "register"} =>
           \/ s = t /\ devmem'[s] = c
           \/ s # t /\ pc[s] \in {"lock", "register"} /\ devmem'[s] = devmem[s]
    BY <1>10, <2>1 DEF Reserve, TypeInv, TypeOK
  <2>5. UNCHANGED <<devmem_chunks, devmem_capacity, live, next>>
    BY <1>10 DEF Reserve, tableVars
  <2> QED BY <2>1, <2>2, <2>3, <2>4, <2>5 DEF TableInv
<1>11. ASSUME NEW t \in Thread, ChunkLock(t) PROVE TableInv'
  <2>1. Removing' = Removing
    BY <1>11 DEF ChunkLock, Removing, TypeInv, TypeOK
  <2>2. /\ UNCHANGED <<devmem_chunks, devmem_capacity, live, next, reserved>>
        /\ \A s \in Thread : pc'[s] \in {"lock", "register"} =>
             pc[s] \in {"lock", "register"} /\ devmem'[s] = devmem[s]
    BY <1>11 DEF ChunkLock, TypeInv, TypeOK, tableVars, regionVars
  <2> QED BY <1>0, <2>1, <2>2, TableFrame DEF TableInv
<1>12. ASSUME NEW t \in Thread, RegisterFails(t) PROVE TableInv'
  <2>1. Removing' = Removing
    BY <1>12, <1>0 DEF RegisterFails, AfterChunk, Removing, TypeInv, TypeOK
  <2>2. devmem_capacity' >= devmem_capacity
    BY <1>12, PoolAssumption DEF RegisterFails, GrownCapacity, TypeInv, TypeOK
  <2>3. \A s \in Thread : pc'[s] \in {"lock", "register"} =>
           s # t /\ pc[s] \in {"lock", "register"} /\ devmem'[s] = devmem[s]
    BY <1>12 DEF RegisterFails, AfterChunk, TypeInv, TypeOK
  <2>4. reserved' = reserved \ {devmem[t]} /\ devmem[t] \notin live
    BY <1>12 DEF RegisterFails, TableInv
  <2>5. \A s \in Thread \ {t} : pc[s] \in {"lock", "register"} => devmem[s] # devmem[t]
    BY <1>12 DEF RegisterFails, TableInv
  <2>6. UNCHANGED <<devmem_chunks, live, next>>
    BY <1>12 DEF RegisterFails
  <2>7. Len(devmem_chunks) <= devmem_capacity'
    BY <2>2, <1>0 DEF TableInv, TypeInv, TypeOK
  <2> QED BY <2>1, <2>3, <2>4, <2>5, <2>6, <2>7 DEF TableInv
<1>13. ASSUME NEW t \in Thread, Register(t) PROVE TableInv'
  <2>1. ~Removing /\ ~Removing'
    BY <1>13, LockExcludes DEF Register, Removing, TypeInv, TypeOK
  <2> DEFINE c == devmem[t]
             n == Len(devmem_chunks)
  <2>2. c \in Chunk /\ c \in reserved \ live /\ live = Elems(devmem_chunks)
    BY <1>13, <2>1 DEF Register, TableInv, TypeInv, PlaceOK
  <2>3. devmem_chunks \in Seq(Chunk) /\ n \in Nat /\ devmem_capacity \in Nat
    BY DEF TypeInv, TypeOK
  <2>4. /\ Len(devmem_chunks') = n + 1
        /\ \A i \in 1..n : devmem_chunks'[i] = devmem_chunks[i]
        /\ devmem_chunks'[n + 1] = c
    BY <1>13, <2>2, <2>3, AppendProperties DEF Register
  <2>5. n + 1 <= devmem_capacity'
    BY <1>13, <2>3, PoolAssumption DEF Register, GrownCapacity, TableFull, TableInv
  <2>6. Elems(devmem_chunks') = live \cup {c}
    <3>1. Elems(devmem_chunks) \subseteq Elems(devmem_chunks')
      BY <2>3, <2>4 DEF Elems
    <3>2. c \in Elems(devmem_chunks')
      BY <2>3, <2>4 DEF Elems
    <3>3. ASSUME NEW i \in 1..(n + 1) PROVE devmem_chunks'[i] \in Elems(devmem_chunks) \cup {c}
      <4>1. CASE i = n + 1
        BY <4>1, <2>4
      <4>2. CASE i # n + 1
        <5>1. i \in 1..n
          BY <4>2, <2>3
        <5> QED BY <5>1, <2>4 DEF Elems
      <4> QED BY <4>1, <4>2
    <3>4. Elems(devmem_chunks') \subseteq Elems(devmem_chunks) \cup {c}
      BY <3>3, <2>4 DEF Elems
    <3> QED BY <2>2, <3>1, <3>2, <3>4
  <2>7. Distinct(devmem_chunks')
    <3>1. SUFFICES ASSUME NEW i \in 1..(n + 1), NEW j \in 1..(n + 1),
                          devmem_chunks'[i] = devmem_chunks'[j]
                   PROVE  i = j
      BY <2>4 DEF Distinct
    <3>2. \A k \in 1..n : devmem_chunks'[k] # c
      BY <2>2, <2>4 DEF Elems
    <3>3. CASE i \in 1..n /\ j \in 1..n
      BY <3>1, <3>3, <2>4 DEF TableInv, Distinct
    <3>4. CASE ~(i \in 1..n /\ j \in 1..n)
      BY <3>1, <3>2, <3>4, <2>3, <2>4
    <3> QED BY <3>3, <3>4
  <2>8. /\ live' = live \cup {c} /\ reserved' = reserved /\ devmem' = devmem
        /\ \A s \in Thread : pc'[s] \in {"lock", "register"} => s # t /\ pc[s] \in {"lock", "register"}
    BY <1>13 DEF Register, TypeInv, TypeOK
  <2>9. \A s \in Thread \ {t} : pc[s] \in {"lock", "register"} => devmem[s] # c
    BY <1>13 DEF Register, TableInv
  <2> QED BY <2>1, <2>2, <2>4, <2>5, <2>6, <2>7, <2>8, <2>9 DEF TableInv
<1>14. ASSUME NEW t \in Thread, PushChunk(t) PROVE TableInv'
  <2>1. Removing' = Removing
    BY <1>14 DEF PushChunk, AfterChunk, Removing, TypeInv, TypeOK
  <2>2. /\ UNCHANGED <<devmem_chunks, devmem_capacity, live, next, reserved>>
        /\ \A s \in Thread : pc'[s] \in {"lock", "register"} =>
             pc[s] \in {"lock", "register"} /\ devmem'[s] = devmem[s]
    BY <1>14 DEF PushChunk, AfterChunk, TypeInv, TypeOK, tableVars, regionVars
  <2> QED BY <1>0, <2>1, <2>2, TableFrame DEF TableInv
<1>15. ASSUME NEW t \in Thread, ReleaseStart(t) PROVE TableInv'
  <2>1. ~Removing /\ Removing'
    BY <1>15, PoolAssumption DEF ReleaseStart, Removing, TypeInv, TypeOK, PlaceOK
  <2>2. next' = 1 /\ UNCHANGED <<devmem_chunks, devmem_capacity, live, reserved, devmem>>
    BY <1>15 DEF ReleaseStart, regionVars
  <2>3. \A s \in Thread : pc'[s] \in {"lock", "register"} => pc[s] \in {"lock", "register"}
    BY <1>15 DEF ReleaseStart, TypeInv, TypeOK
  <2>4. Len(devmem_chunks) \in Nat
    BY DEF TypeInv, TypeOK
  <2> QED BY <2>1, <2>2, <2>3, <2>4 DEF TableInv, Elems
<1>16. ASSUME NEW t \in Thread, MarkChunk(t) PROVE TableInv'
  <2>1. Removing' = Removing
    BY <1>16 DEF MarkChunk, Removing, TypeInv, TypeOK
  <2>2. /\ UNCHANGED <<devmem_chunks, devmem_capacity, live, next, reserved>>
        /\ \A s \in Thread : pc'[s] \in {"lock", "register"} =>
             pc[s] \in {"lock", "register"} /\ devmem'[s] = devmem[s]
    BY <1>16 DEF MarkChunk, TypeInv, TypeOK, tableVars, regionVars
  <2> QED BY <1>0, <2>1, <2>2, TableFrame DEF TableInv
<1>17. ASSUME NEW t \in Thread, dmirror_device_evict_chunk(t) PROVE TableInv'
  <2>1. Removing' = Removing
    BY <1>17 DEF dmirror_device_evict_chunk, Removing, TypeInv, TypeOK
  <2>2. /\ UNCHANGED <<devmem_chunks, devmem_capacity, live, next, reserved>>
        /\ \A s \in Thread : pc'[s] \in {"lock", "register"} =>
             pc[s] \in {"lock", "register"} /\ devmem'[s] = devmem[s]
    BY <1>17 DEF dmirror_device_evict_chunk, TypeInv, TypeOK, tableVars, regionVars
  <2> QED BY <1>0, <2>1, <2>2, TableFrame DEF TableInv
<1>18. ASSUME NEW t \in Thread, UnmapChunk(t) PROVE TableInv'
  <2> DEFINE c == devmem_chunks[next]
  <2>1. Removing /\ Removing'
    BY <1>18 DEF UnmapChunk, Removing, TypeInv, TypeOK
  <2>2. next \in 1..Len(devmem_chunks) /\ Len(devmem_chunks) \in Nat
    BY <1>18 DEF UnmapChunk, TypeInv, TypeOK, PlaceOK
  <2>3. /\ live' = live \ {c} /\ reserved' = reserved \ {c} /\ next' = next + 1
        /\ UNCHANGED <<devmem_chunks, devmem_capacity, devmem>>
    BY <1>18 DEF UnmapChunk, tableVars
  <2>4. \A s \in Thread : pc'[s] \in {"lock", "register"} => pc[s] \in {"lock", "register"}
    BY <1>18 DEF UnmapChunk, TypeInv, TypeOK
  <2>5. live = {devmem_chunks[i] : i \in next..Len(devmem_chunks)}
    BY <2>1 DEF TableInv
  <2>6. c \in live
    BY <2>2, <2>5
  <2>7. live \ {c} = {devmem_chunks[i] : i \in (next + 1)..Len(devmem_chunks)}
    <3>1. \A i \in (next + 1)..Len(devmem_chunks) :
              i \in next..Len(devmem_chunks) /\ devmem_chunks[i] # c
      BY <2>2 DEF TableInv, Distinct
    <3>2. \A i \in next..Len(devmem_chunks) : i = next \/ i \in (next + 1)..Len(devmem_chunks)
      BY <2>2
    <3> QED BY <2>5, <3>1, <3>2
  <2>8. next + 1 <= Len(devmem_chunks) + 1
    BY <2>2
  <2> QED BY <2>1, <2>3, <2>4, <2>6, <2>7, <2>8 DEF TableInv
<1>19. ASSUME NEW t \in Thread, RemoveDone(t) PROVE TableInv'
  <2>1. Removing /\ ~Removing'
    <3>1. \A s \in Thread : pc[s] \in {"register"} \cup RemoverPC => s = t
      BY <1>19, LockExcludes DEF RemoveDone
    <3> QED BY <1>19, <3>1 DEF RemoveDone, Removing, TypeInv, TypeOK
  <2>2. live = {}
    <3>1. next > Len(devmem_chunks) /\ next \in Nat /\ Len(devmem_chunks) \in Nat
      BY <1>19 DEF RemoveDone, TypeInv, TypeOK
    <3> QED BY <2>1, <3>1 DEF TableInv
  <2>3. /\ devmem_chunks' = <<>> /\ devmem_capacity' = 0
        /\ UNCHANGED <<live, reserved, devmem>>
    BY <1>19 DEF RemoveDone, regionVars
  <2>4. Elems(devmem_chunks') = {} /\ Distinct(devmem_chunks') /\ Len(devmem_chunks') = 0
    BY <2>3 DEF Elems, Distinct
  <2>5. \A s \in Thread : pc'[s] \in {"lock", "register"} => pc[s] \in {"lock", "register"}
    BY <1>19 DEF RemoveDone, TypeInv, TypeOK
  <2> QED BY <2>1, <2>2, <2>3, <2>4, <2>5 DEF TableInv
<1>20. ASSUME FreeResident PROVE TableInv'
  BY <1>0, <1>20, TableFrame DEF FreeResident, TableInv, Removing, tableVars, regionVars, threadVars
<1>21. ASSUME UNCHANGED vars PROVE TableInv'
  BY <1>0, <1>21, TableFrame DEF vars, TableInv, Removing, tableVars, regionVars, threadVars
<1> QED
  BY <1>1, <1>2, <1>3, <1>4, <1>5, <1>6, <1>7, <1>8, <1>9, <1>10, <1>11, <1>12, <1>13, <1>14, <1>15, <1>16, <1>17, <1>18, <1>19, <1>20, <1>21
  DEF Next, Migrate, AllocateChunk, RemoveChunks

(***************************************************************************)
(* The initial state satisfies both invariants.                            *)
(***************************************************************************)
LEMMA TableInit ==
    ASSUME Init
    PROVE  TypeInv /\ TableInv
<1>1. TypeInv
  BY PoolAssumption DEF Init, TypeInv, TypeOK, PlaceOK, AllocPC, RemoverPC
<1>2. ~Removing /\ Elems(devmem_chunks) = {} /\ Distinct(devmem_chunks)
  BY DEF Init, Removing, RemoverPC, Elems, Distinct
<1> QED BY <1>1, <1>2 DEF Init, TableInv

(***************************************************************************)
(* The chunk table is sound in every run, also when releases overlap       *)
(* migrations: devmem_lock is enough for it.                               *)
(***************************************************************************)
THEOREM TableIsSound == Spec => []TableSound
<1>1. Init => TypeInv /\ TableInv
  BY TableInit
<1>2. TypeInv /\ TableInv /\ [Next]_vars => (TypeInv /\ TableInv)'
  BY TypeStep, TableStep
<1>3. TableInv => TableSound
  BY DEF TableInv, TableSound
<1> QED BY <1>1, <1>2, <1>3, PTL DEF Spec

-----------------------------------------------------------------------------
(***************************************************************************)
(* Ownership of pages, when a release does not overlap migrations.        *)
(*                                                                         *)
(* Allocators and the remover then never run together (Excluded).  A page  *)
(* is in a thread's hands only between the pop and zone_device_page_init() *)
(* (HandPlace); a chunk whose pages are still to be pushed is mapped, is   *)
(* in one thread's hands only, and none of its pages has been seen by      *)
(* anyone (PushPlace); only the chunk the removal loop is at is marked     *)
(* (MarkPlace).                                                            *)
(***************************************************************************)
ChunkPC == {"lock", "register", "push"}

Excluded == Removing => \A t \in Thread : pc[t] \notin AllocPC

HandPlace == \A t \in Thread : dpage[t] # NoPage => pc[t] = "init"

PushPlace ==
    /\ \A t \in Thread : pc[t] = "push" =>
         /\ devmem[t] \in live
         /\ PagesOf(devmem[t]) \cap (FreeSet \cup InHand \cup InUse) = {}
    /\ \A s, t \in Thread : s # t /\ pc[s] \in ChunkPC /\ pc[t] \in ChunkPC => devmem[s] # devmem[t]

MarkPlace ==
    /\ \A c \in Chunk : remove[c] =>
         \E t \in Thread : pc[t] \in {"evict", "unmap"} /\ devmem_chunks[next] = c
    /\ \A t \in Thread : pc[t] \in {"evict", "unmap"} => remove[devmem_chunks[next]]

PlaceInv == Excluded /\ HandPlace /\ PushPlace /\ MarkPlace

OwnerInv == SoleOwner /\ NoDanglingPage /\ RemovedNotReallocated

PoolInv == TypeInv /\ TableInv /\ PlaceInv /\ OwnerInv

(***************************************************************************)
(* While a migration is under way nothing is being removed.                *)
(***************************************************************************)
LEMMA Quiet ==
    ASSUME PoolInv, NEW t \in Thread, pc[t] \in AllocPC
    PROVE  ~Removing /\ \A c \in Chunk : ~remove[c]
<1>1. ~Removing
  BY DEF PoolInv, PlaceInv, Excluded
<1>2. \A s \in Thread : pc[s] \notin {"evict", "unmap"}
  BY <1>1 DEF Removing, RemoverPC
<1> QED BY <1>1, <1>2 DEF PoolInv, PlaceInv, MarkPlace

(***************************************************************************)
(* While a removal is under way no thread has a page in hand.              *)
(***************************************************************************)
LEMMA EmptyHands ==
    ASSUME PoolInv, Removing
    PROVE  InHand = {}
BY DEF PoolInv, PlaceInv, Excluded, HandPlace, InHand, AllocPC

(***************************************************************************)
(* Taking pages away from the list or from processes makes no new owner.   *)
(***************************************************************************)
LEMMA OwnerFrame ==
    ASSUME PoolInv,
           UNCHANGED <<dpage, batch>>, resident' \subseteq resident,
           FreeSet' \subseteq FreeSet, Distinct(free_pages')
    PROVE  /\ SoleOwner'
           /\ InHand' = InHand
           /\ (FreeSet \cup InHand \cup InUse)' \subseteq FreeSet \cup InHand \cup InUse
<1>1. InHand' = InHand /\ InUse' \subseteq InUse
  BY DEF InHand, InUse
<1> QED BY <1>1 DEF PoolInv, OwnerInv, SoleOwner

(***************************************************************************)
(* What a call of dmirror_devmem_free() does to the list when the page was *)
(* not on it: the set gains the page, or the chunk is being removed and    *)
(* nothing happens.                                                        *)
(***************************************************************************)
LEMMA FreeStep ==
    ASSUME PoolInv, NEW p \in Page, p \in InUse, dmirror_devmem_free(p)
    PROVE  /\ Distinct(free_pages')
           /\ FreeSet' \subseteq FreeSet \cup {p}
           /\ remove[dmirror_page_to_chunk(p)] => FreeSet' = FreeSet
<1> DEFINE c == dmirror_page_to_chunk(p)
<1>1. \/ UNCHANGED <<free_pages, cfree>>
      \/ ~remove[c] /\ free_pages' = <<p>> \o free_pages
  BY Zenon DEF dmirror_devmem_free
<1>2. Distinct(free_pages) /\ p \notin FreeSet
  BY DEF PoolInv, OwnerInv, SoleOwner
<1>3. CASE UNCHANGED <<free_pages, cfree>>
  BY <1>2, <1>3 DEF FreeSet
<1>4. CASE ~remove[c] /\ free_pages' = <<p>> \o free_pages
  <2>1. free_pages \in Seq(Page)
    BY DEF PoolInv, TypeInv, TypeOK
  <2> DEFINE list == <<p>> \o free_pages
  <2>2. Elems(list) = {p} \cup Elems(free_pages)
    BY <2>1, PushOneLemma
  <2>3. Distinct(list)
    BY <2>1, <1>2, PushOneLemma DEF FreeSet
  <2>4. free_pages' = list
    BY <1>4
  <2> HIDE DEF list
  <2>5. Distinct(free_pages') /\ Elems(free_pages') = {p} \cup Elems(free_pages)
    BY <2>2, <2>3, <2>4
  <2> QED BY <1>4, <2>5 DEF FreeSet
<1> QED BY <1>1, <1>3, <1>4

(***************************************************************************)
(* A page lies in the pages of its chunk only.                             *)
(***************************************************************************)
LEMMA PageChunk ==
    ASSUME NEW p \in Page, NEW c
    PROVE  p \in PagesOf(c) <=> dmirror_page_to_chunk(p) = c
BY DEF Page, PagesOf, dmirror_page_to_chunk

(***************************************************************************)
(* All pages in sight are pages.                                           *)
(***************************************************************************)
LEMMA SeenType ==
    ASSUME TypeInv
    PROVE  FreeSet \cup InHand \cup InUse \subseteq Page
BY DEF TypeInv, TypeOK, FreeSet, Elems, InHand, InUse

(***************************************************************************)
(* Every step keeps page ownership.                                        *)
(***************************************************************************)
LEMMA OwnerStep ==
    ASSUME PoolInv, [Next]_vars
    PROVE  OwnerInv'
<1>0. TypeInv' /\ TypeInv /\ TypeOK
  BY TypeStep DEF PoolInv, TypeInv
<1> NoPage \notin Page
  BY PoolAssumption DEF Page
<1>a. ASSUME UNCHANGED <<dpage, batch, resident, free_pages, remove>>, live \subseteq live'
      PROVE  OwnerInv'
  <2>1. UNCHANGED <<FreeSet, InHand, InUse>> /\ Distinct(free_pages')
    BY <1>a DEF FreeSet, InHand, InUse, PoolInv, OwnerInv, SoleOwner
  <2>2. SoleOwner'
    BY <1>a, <2>1, OwnerFrame
  <2> QED BY <1>a, <2>1, <2>2 DEF PoolInv, OwnerInv, NoDanglingPage, RemovedNotReallocated
<1>b. ASSUME NEW t \in Thread, pc[t] \in AllocPC, UNCHANGED remove
      PROVE  RemovedNotReallocated'
  BY <1>b, Quiet DEF RemovedNotReallocated
<1>1. ASSUME NEW t \in Thread, MigrateStart(t) PROVE OwnerInv'
  BY <1>1, <1>a DEF MigrateStart, listVars, regionVars
<1>2. ASSUME NEW t \in Thread, AllocStart(t) PROVE OwnerInv'
  BY <1>2, <1>a DEF AllocStart, listVars, regionVars
<1>3. ASSUME NEW t \in Thread, PopFree(t) PROVE OwnerInv'
  <2> DEFINE h == Head(free_pages)
  <2>1. free_pages \in Seq(Page) /\ free_pages # <<>> /\ Distinct(free_pages)
    BY <1>3, <1>0 DEF PopFree, TypeOK, PoolInv, OwnerInv, SoleOwner
  <2>2. /\ h \in Page
        /\ Elems(free_pages) = {h} \cup Elems(Tail(free_pages))
        /\ Distinct(Tail(free_pages)) /\ h \notin Elems(Tail(free_pages))
    BY <2>1, PopLemma
  <2>3. /\ h \in Page /\ FreeSet = {h} \cup FreeSet'
        /\ Distinct(free_pages') /\ h \notin FreeSet'
    BY <1>3, <2>2 DEF PopFree, FreeSet
  <2> HIDE DEF h
  <2>4. /\ dpage' = [dpage EXCEPT ![t] = h]
        /\ UNCHANGED <<batch, resident, live, remove>>
    BY <1>3 DEF PopFree, h, regionVars
  <2>5. InHand' \subseteq InHand \cup {h} /\ InUse' = InUse
    BY <2>4, <1>0 DEF InHand, InUse, TypeOK
  <2>6. \A s \in Thread : dpage[s] # h /\ h \notin batch[s] /\ h \notin resident
    BY <2>3 DEF PoolInv, OwnerInv, SoleOwner, InHand, InUse
  <2>7. h \notin InHand \cup InUse
    BY <2>3 DEF PoolInv, OwnerInv, SoleOwner
  <2>8. SoleOwner'
    <3>1. FreeSet' \cap (InHand' \cup InUse') = {}
      BY <2>3, <2>5 DEF PoolInv, OwnerInv, SoleOwner
    <3>2. \A u, v \in Thread :
            /\ u # v /\ dpage'[u] # NoPage => dpage'[u] # dpage'[v]
            /\ u # v => batch'[u] \cap batch'[v] = {}
            /\ dpage'[u] \notin batch'[v]
      BY <2>3, <2>4, <2>6, <1>0 DEF PoolInv, OwnerInv, SoleOwner, TypeOK
    <3>3. \A u \in Thread : batch'[u] \cap resident' = {} /\ dpage'[u] \notin resident'
      BY <2>4, <2>6, <1>0 DEF PoolInv, OwnerInv, SoleOwner, TypeOK
    <3> QED BY <2>3, <3>1, <3>2, <3>3 DEF SoleOwner
  <2>9. NoDanglingPage'
    BY <2>3, <2>4, <2>5 DEF PoolInv, OwnerInv, NoDanglingPage
  <2>10. RemovedNotReallocated'
    BY <1>3, <2>4, <1>b DEF PopFree, AllocPC
  <2> QED BY <2>8, <2>9, <2>10 DEF OwnerInv
<1>4. ASSUME NEW t \in Thread, ListEmpty(t) PROVE OwnerInv'
  BY <1>4, <1>a DEF ListEmpty, listVars, regionVars
<1>5. ASSUME NEW t \in Thread, PageInit(t) PROVE OwnerInv'
  <2> DEFINE p == dpage[t]
  <2>1. p \in Page /\ p \in InHand
    BY <1>5, <1>0 DEF PageInit, TypeInv, PlaceOK, InHand
  <2>2. /\ dpage' = [dpage EXCEPT ![t] = NoPage]
        /\ batch' = [batch EXCEPT ![t] = @ \cup {p}]
        /\ UNCHANGED <<resident, free_pages, live, remove>>
    BY <1>5 DEF PageInit, listVars, regionVars
  <2>3. InHand' \subseteq InHand /\ InUse' = InUse \cup {p} /\ FreeSet' = FreeSet
    BY <2>2, <1>0 DEF InHand, InUse, FreeSet, TypeOK
  <2>4. SoleOwner'
    <3>1. \A u, v \in Thread :
            /\ u # v /\ dpage'[u] # NoPage => dpage'[u] # dpage'[v]
            /\ u # v => batch'[u] \cap batch'[v] = {}
            /\ dpage'[u] \notin batch'[v]
      BY <2>1, <2>2, <1>0 DEF PoolInv, OwnerInv, SoleOwner, TypeOK
    <3>2. \A u \in Thread : batch'[u] \cap resident' = {} /\ dpage'[u] \notin resident'
      BY <2>1, <2>2, <1>0 DEF PoolInv, OwnerInv, SoleOwner, TypeOK
    <3>3. FreeSet' \cap (InHand' \cup InUse') = {} /\ Distinct(free_pages')
      BY <2>1, <2>2, <2>3 DEF PoolInv, OwnerInv, SoleOwner
    <3> QED BY <3>1, <3>2, <3>3 DEF SoleOwner
  <2>5. NoDanglingPage'
    BY <2>1, <2>2, <2>3 DEF PoolInv, OwnerInv, NoDanglingPage
  <2>6. RemovedNotReallocated'
    BY <1>5, <2>2, <1>b DEF PageInit, AllocPC
  <2> QED BY <2>4, <2>5, <2>6 DEF OwnerInv
<1>6. ASSUME NEW t \in Thread, AllocDone(t) PROVE OwnerInv'
  BY <1>6, <1>a DEF AllocDone, listVars, regionVars
<1>7. ASSUME NEW t \in Thread, FinalizePage(t) PROVE OwnerInv'
  <2>1. PICK p \in batch[t] :
          /\ batch' = [batch EXCEPT ![t] = @ \ {p}]
          /\ \/ resident' = resident \cup {p} /\ UNCHANGED <<free_pages, cfree>>
             \/ UNCHANGED resident /\ dmirror_devmem_free(p)
    BY <1>7 DEF FinalizePage
  <2>2. UNCHANGED <<dpage, live, remove>>
    BY <1>7 DEF FinalizePage, regionVars
  <2>3. p \in Page /\ p \in InUse
    BY <1>0 DEF TypeOK, InUse
  <2>4. p \notin resident /\ \A s \in Thread : dpage[s] # p /\ (s # t => p \notin batch[s])
    BY <2>3 DEF PoolInv, OwnerInv, SoleOwner
  <2>5. InHand' = InHand
    BY <2>2 DEF InHand
  <2>6. RemovedNotReallocated'
    BY <1>7, <2>2, <1>b DEF FinalizePage, AllocPC
  <2>7. CASE resident' = resident \cup {p} /\ UNCHANGED <<free_pages, cfree>>
    <3>1. InUse' = InUse /\ FreeSet' = FreeSet
      BY <2>1, <2>3, <2>7, <1>0 DEF InUse, FreeSet, TypeOK
    <3>2. SoleOwner'
      BY <2>1, <2>2, <2>4, <2>5, <2>7, <3>1, <1>0 DEF PoolInv, OwnerInv, SoleOwner, TypeOK
    <3>3. NoDanglingPage'
      BY <2>2, <2>5, <3>1 DEF PoolInv, OwnerInv, NoDanglingPage
    <3> QED BY <2>6, <3>2, <3>3 DEF OwnerInv
  <2>8. CASE UNCHANGED resident /\ dmirror_devmem_free(p)
    <3>1. InUse' \subseteq InUse /\ p \notin InUse'
      BY <2>1, <2>4, <2>8, <1>0 DEF InUse, TypeOK
    <3>2. Distinct(free_pages') /\ FreeSet' \subseteq FreeSet \cup {p}
      BY <2>3, <2>8, FreeStep
    <3>3. p \notin InHand
      BY <2>4 DEF InHand
    <3>4. SoleOwner'
      <4>1. FreeSet' \cap (InHand' \cup InUse') = {}
        BY <2>5, <3>1, <3>2, <3>3 DEF PoolInv, OwnerInv, SoleOwner
      <4>2. \A u \in Thread : batch'[u] \subseteq batch[u]
        BY <2>1, <1>0 DEF TypeOK
      <4> QED BY <2>2, <2>8, <3>2, <4>1, <4>2 DEF PoolInv, OwnerInv, SoleOwner
    <3>5. NoDanglingPage'
      BY <2>2, <2>3, <2>5, <3>1, <3>2 DEF PoolInv, OwnerInv, NoDanglingPage
    <3> QED BY <2>6, <3>4, <3>5 DEF OwnerInv
  <2> QED BY <2>1, <2>7, <2>8
<1>8. ASSUME NEW t \in Thread, FinalizeDone(t) PROVE OwnerInv'
  BY <1>8, <1>a DEF FinalizeDone, listVars, regionVars
<1>9. ASSUME NEW t \in Thread, ReserveFails(t) PROVE OwnerInv'
  BY <1>9, <1>a DEF ReserveFails, listVars, regionVars
<1>10. ASSUME NEW t \in Thread, Reserve(t) PROVE OwnerInv'
  BY <1>10, <1>a DEF Reserve, listVars, regionVars
<1>11. ASSUME NEW t \in Thread, ChunkLock(t) PROVE OwnerInv'
  BY <1>11, <1>a DEF ChunkLock, listVars, regionVars
<1>12. ASSUME NEW t \in Thread, RegisterFails(t) PROVE OwnerInv'
  BY <1>12, <1>a DEF RegisterFails, listVars, regionVars
<1>13. ASSUME NEW t \in Thread, Register(t) PROVE OwnerInv'
  BY <1>13, <1>a DEF Register, listVars, regionVars
<1>14. ASSUME NEW t \in Thread, PushChunk(t) PROVE OwnerInv'
  <2> DEFINE c == devmem[t]
             list == Stacked(c) \o free_pages
             h == Head(list)
  <2>1. c \in Chunk /\ c \in live /\ PagesOf(c) \cap (FreeSet \cup InHand \cup InUse) = {}
    BY <1>14, <1>0 DEF PushChunk, TypeInv, PlaceOK, PoolInv, PlaceInv, PushPlace
  <2>2. /\ list \in Seq(Page) /\ list # <<>>
        /\ Elems(list) = PagesOf(c) \cup FreeSet /\ Distinct(list)
    BY <2>1, <1>0, StackedListType DEF PoolInv, OwnerInv, SoleOwner
  <2> HIDE DEF list
  <2>3. /\ h \in Page /\ Elems(list) = {h} \cup Elems(Tail(list))
        /\ Distinct(Tail(list)) /\ h \notin Elems(Tail(list))
    BY <2>2, PopLemma
  <2> HIDE DEF h
  <2>4. /\ UNCHANGED <<batch, resident, live, remove>>
        /\ \/ dpage' = [dpage EXCEPT ![t] = h] /\ free_pages' = Tail(list)
           \/ dpage' = dpage /\ free_pages' = list
    BY <1>14 DEF PushChunk, list, h, regionVars
  <2>5. PagesOf(c) \cup FreeSet \subseteq Page /\ \A p \in PagesOf(c) : dmirror_page_to_chunk(p) = c
    BY <2>1, <1>0, SeenType DEF Page, PagesOf, dmirror_page_to_chunk
  <2>6. InUse' = InUse
    BY <2>4 DEF InUse
  <2>7. RemovedNotReallocated'
    BY <1>14, <2>4, <1>b DEF PushChunk, AllocPC
  <2>8. CASE dpage' = [dpage EXCEPT ![t] = h] /\ free_pages' = Tail(list)
    <3>1. /\ FreeSet' \subseteq PagesOf(c) \cup FreeSet /\ h \in PagesOf(c) \cup FreeSet
          /\ h \notin FreeSet' /\ Distinct(free_pages')
      BY <2>2, <2>3, <2>8 DEF FreeSet
    <3>2. h \notin InHand \cup InUse
      BY <2>1, <3>1 DEF PoolInv, OwnerInv, SoleOwner
    <3>3. InHand' \subseteq InHand \cup {h}
      BY <2>8, <1>0 DEF InHand, TypeOK
    <3>4. \A s \in Thread : dpage[s] # h /\ h \notin batch[s] /\ h \notin resident
      BY <3>2, <2>3 DEF InHand, InUse
    <3>5. SoleOwner'
      <4>1. FreeSet' \cap (InHand' \cup InUse') = {}
        BY <2>1, <2>6, <3>1, <3>2, <3>3 DEF PoolInv, OwnerInv, SoleOwner
      <4>2. \A u, v \in Thread :
              /\ u # v /\ dpage'[u] # NoPage => dpage'[u] # dpage'[v]
              /\ u # v => batch'[u] \cap batch'[v] = {}
              /\ dpage'[u] \notin batch'[v]
        BY <2>3, <2>4, <2>8, <3>4, <1>0 DEF PoolInv, OwnerInv, SoleOwner, TypeOK
      <4>3. \A u \in Thread : batch'[u] \cap resident' = {} /\ dpage'[u] \notin resident'
        BY <2>4, <2>8, <3>4, <1>0 DEF PoolInv, OwnerInv, SoleOwner, TypeOK
      <4> QED BY <3>1, <4>1, <4>2, <4>3 DEF SoleOwner
    <3>6. NoDanglingPage'
      BY <2>1, <2>4, <2>5, <2>6, <3>1, <3>3 DEF PoolInv, OwnerInv, NoDanglingPage
    <3> QED BY <2>7, <3>5, <3>6 DEF OwnerInv
  <2>9. CASE dpage' = dpage /\ free_pages' = list
    <3>1. FreeSet' = PagesOf(c) \cup FreeSet /\ Distinct(free_pages')
      BY <2>2, <2>9 DEF FreeSet
    <3>2. InHand' = InHand
      BY <2>9 DEF InHand
    <3>3. SoleOwner'
      BY <2>1, <2>4, <2>6, <2>9, <3>1, <3>2 DEF PoolInv, OwnerInv, SoleOwner
    <3>4. NoDanglingPage'
      BY <2>1, <2>4, <2>5, <2>6, <3>1, <3>2 DEF PoolInv, OwnerInv, NoDanglingPage
    <3> QED BY <2>7, <3>3, <3>4 DEF OwnerInv
  <2> QED BY <2>4, <2>8, <2>9
<1>15. ASSUME NEW t \in Thread, ReleaseStart(t) PROVE OwnerInv'
  BY <1>15, <1>a DEF ReleaseStart, listVars, regionVars
<1>16. ASSUME NEW t \in Thread, MarkChunk(t) PROVE OwnerInv'
  <2> DEFINE c == devmem_chunks[next]
  <2>1. c \in Chunk /\ free_pages' = dmirror_remove_free_pages(c)
    BY <1>16, <1>0, EntryType DEF MarkChunk
  <2>2. /\ remove' = [remove EXCEPT ![c] = TRUE]
        /\ UNCHANGED <<dpage, batch, resident, live>>
    BY <1>16 DEF MarkChunk
  <2>3. /\ Elems(free_pages') \subseteq Elems(free_pages)
        /\ \A p \in Elems(free_pages') : dmirror_page_to_chunk(p) # c
        /\ Distinct(free_pages')
    BY <2>1, <1>0, RemoveLemma DEF TypeOK, PoolInv, OwnerInv, SoleOwner
  <2>4. FreeSet' \subseteq FreeSet /\ \A p \in FreeSet' : dmirror_page_to_chunk(p) # c
    BY <2>3 DEF FreeSet
  <2>5. /\ SoleOwner' /\ InHand' = InHand
        /\ (FreeSet \cup InHand \cup InUse)' \subseteq FreeSet \cup InHand \cup InUse
    BY <2>2, <2>3, <2>4, OwnerFrame
  <2>6. NoDanglingPage'
    BY <2>2, <2>5 DEF PoolInv, OwnerInv, NoDanglingPage
  <2>7. InHand = {}
    BY <1>16, EmptyHands DEF MarkChunk, Removing, RemoverPC
  <2>8. RemovedNotReallocated'
    <3>1. SUFFICES ASSUME NEW d \in Chunk, remove'[d] PROVE PagesOf(d) \cap FreeSet' = {}
      BY <2>5, <2>7 DEF RemovedNotReallocated
    <3>2. CASE d = c
      BY <2>4, <3>2, <1>0, SeenType, PageChunk
    <3>3. CASE d # c
      <4>1. remove[d]
        BY <2>1, <2>2, <3>1, <3>3, <1>0 DEF TypeOK
      <4> QED BY <2>4, <4>1 DEF PoolInv, OwnerInv, RemovedNotReallocated
    <3> QED BY <3>2, <3>3
  <2> QED BY <2>5, <2>6, <2>8 DEF OwnerInv
<1>17. ASSUME NEW t \in Thread, dmirror_device_evict_chunk(t) PROVE OwnerInv'
  <2>1. UNCHANGED <<dpage, batch, free_pages, live, remove>> /\ resident' \subseteq resident
    BY <1>17 DEF dmirror_device_evict_chunk, listVars, regionVars
  <2>2. FreeSet' = FreeSet /\ Distinct(free_pages')
    BY <2>1 DEF FreeSet, PoolInv, OwnerInv, SoleOwner
  <2>3. /\ SoleOwner' /\ InHand' = InHand
        /\ (FreeSet \cup InHand \cup InUse)' \subseteq FreeSet \cup InHand \cup InUse
    BY <2>1, <2>2, OwnerFrame
  <2> QED BY <2>1, <2>2, <2>3 DEF PoolInv, OwnerInv, NoDanglingPage, RemovedNotReallocated
<1>18. ASSUME NEW t \in Thread, UnmapChunk(t) PROVE OwnerInv'
  <2> DEFINE c == devmem_chunks[next]
  <2>1. /\ c \in Chunk /\ remove[c]
    BY <1>18, <1>0, EntryType DEF UnmapChunk, TypeInv, PlaceOK, PoolInv, PlaceInv, MarkPlace
  <2>2. /\ UNCHANGED <<dpage, batch, resident, free_pages>>
        /\ live' = live \ {c} /\ remove' = [remove EXCEPT ![c] = FALSE]
        /\ InUse \cap PagesOf(c) = {}
    BY <1>18 DEF UnmapChunk, listVars
  <2>3. UNCHANGED <<FreeSet, InHand, InUse>> /\ Distinct(free_pages')
    BY <2>2 DEF FreeSet, InHand, InUse, PoolInv, OwnerInv, SoleOwner
  <2>4. SoleOwner'
    BY <2>2, <2>3, OwnerFrame
  <2>5. PagesOf(c) \cap (FreeSet \cup InHand \cup InUse) = {}
    BY <2>1, <2>2 DEF PoolInv, OwnerInv, RemovedNotReallocated
  <2>6. \A p \in FreeSet \cup InHand \cup InUse : dmirror_page_to_chunk(p) # c
    BY <2>5, <1>0, SeenType, PageChunk
  <2>7. NoDanglingPage'
    BY <2>2, <2>3, <2>6 DEF PoolInv, OwnerInv, NoDanglingPage
  <2>8. \A d \in Chunk : remove'[d] => remove[d]
    BY <2>1, <2>2, <1>0 DEF TypeOK
  <2>9. RemovedNotReallocated'
    BY <2>3, <2>8 DEF PoolInv, OwnerInv, RemovedNotReallocated
  <2> QED BY <2>4, <2>7, <2>9 DEF OwnerInv
<1>19. ASSUME NEW t \in Thread, RemoveDone(t) PROVE OwnerInv'
  <2>1. /\ UNCHANGED <<dpage, batch, resident, live, remove>>
        /\ free_pages' = <<>> \/ free_pages' = free_pages
    BY <1>19 DEF RemoveDone, regionVars
  <2>2. FreeSet' \subseteq FreeSet /\ Distinct(free_pages')
    <3>1. CASE free_pages' = <<>>
      BY <3>1 DEF FreeSet, Elems, Distinct
    <3>2. CASE free_pages' = free_pages
      BY <3>2 DEF FreeSet, PoolInv, OwnerInv, SoleOwner
    <3> QED BY <2>1, <3>1, <3>2
  <2>3. /\ SoleOwner' /\ InHand' = InHand
        /\ (FreeSet \cup InHand \cup InUse)' \subseteq FreeSet \cup InHand \cup InUse
    BY <2>1, <2>2, OwnerFrame
  <2> QED BY <2>1, <2>2, <2>3 DEF PoolInv, OwnerInv, NoDanglingPage, RemovedNotReallocated
<1>20. ASSUME FreeResident PROVE OwnerInv'
  <2>1. PICK p \in resident : resident' = resident \ {p} /\ dmirror_devmem_free(p)
    BY <1>20 DEF FreeResident
  <2>2. UNCHANGED <<dpage, batch, live, remove>>
    BY <1>20 DEF FreeResident, threadVars, regionVars
  <2>3. p \in Page /\ p \in InUse /\ p \notin InHand
    BY <1>0 DEF TypeOK, InUse, InHand, PoolInv, OwnerInv, SoleOwner
  <2>4. \A s \in Thread : p \notin batch[s]
    BY DEF PoolInv, OwnerInv, SoleOwner
  <2>5. InHand' = InHand /\ InUse' \subseteq InUse /\ p \notin InUse'
    BY <2>1, <2>2, <2>4 DEF InHand, InUse
  <2>6. /\ Distinct(free_pages') /\ FreeSet' \subseteq FreeSet \cup {p}
        /\ remove[dmirror_page_to_chunk(p)] => FreeSet' = FreeSet
    BY <2>1, <2>3, FreeStep
  <2>7. SoleOwner'
    <3>1. FreeSet' \cap (InHand' \cup InUse') = {}
      BY <2>3, <2>5, <2>6 DEF PoolInv, OwnerInv, SoleOwner
    <3> QED BY <2>1, <2>2, <2>6, <3>1 DEF PoolInv, OwnerInv, SoleOwner
  <2>8. NoDanglingPage'
    BY <2>2, <2>3, <2>5, <2>6 DEF PoolInv, OwnerInv, NoDanglingPage
  <2>9. RemovedNotReallocated'
    <3>1. SUFFICES ASSUME NEW c \in Chunk, remove[c]
                   PROVE  PagesOf(c) \cap (FreeSet' \cup InHand) = {}
      BY <2>2, <2>5 DEF RemovedNotReallocated
    <3>2. PagesOf(c) \cap (FreeSet \cup InHand) = {}
      BY <3>1 DEF PoolInv, OwnerInv, RemovedNotReallocated
    <3>3. p \in PagesOf(c) => FreeSet' = FreeSet
      BY <2>3, <2>6, <3>1, PageChunk
    <3> QED BY <2>6, <3>2, <3>3
  <2> QED BY <2>7, <2>8, <2>9 DEF OwnerInv
<1>21. ASSUME UNCHANGED vars PROVE OwnerInv'
  BY <1>21, <1>a DEF vars, listVars, regionVars, threadVars
<1> QED
  BY <1>1, <1>2, <1>3, <1>4, <1>5, <1>6, <1>7, <1>8, <1>9, <1>10, <1>11, <1>12, <1>13, <1>14, <1>15, <1>16, <1>17, <1>18, <1>19, <1>20, <1>21
  DEF Next, Migrate, AllocateChunk, RemoveChunks

(***************************************************************************)
(* Every step keeps allocators and remover apart, and every page and chunk *)
(* in its place, provided a release waits for the migrations to end.       *)
(***************************************************************************)
LEMMA PlaceStep ==
    ASSUME ~Concurrent, PoolInv, [Next]_vars
    PROVE  PlaceInv'
<1>0. TypeInv' /\ TypeInv /\ TypeOK /\ TypeOK'
  BY TypeStep DEF PoolInv, TypeInv
<1> NoPage \notin Page
  BY PoolAssumption DEF Page
<1> USE DEF AllocPC, RemoverPC, ChunkPC
\* Steps that leave pages, chunks in hand and the removal loop where they are.
<1>a. ASSUME UNCHANGED <<dpage, batch, resident, free_pages, remove, devmem_chunks, next>>,
             live \subseteq live',
             \A s \in Thread : pc'[s] \in {"evict", "unmap"} <=> pc[s] \in {"evict", "unmap"},
             \A s \in Thread : dpage[s] # NoPage => pc'[s] = "init",
             \A s \in Thread : pc'[s] \in ChunkPC => pc[s] \in ChunkPC /\ devmem'[s] = devmem[s],
             \A s \in Thread : pc'[s] = "push" => pc[s] = "push"
      PROVE  HandPlace' /\ PushPlace' /\ MarkPlace'
  <2>1. UNCHANGED <<FreeSet, InHand, InUse>>
    BY <1>a DEF FreeSet, InHand, InUse
  <2> QED BY <1>a, <2>1 DEF PoolInv, PlaceInv, HandPlace, PushPlace, MarkPlace
<1>1. ASSUME NEW t \in Thread, MigrateStart(t) PROVE PlaceInv'
  <2>1. HandPlace' /\ PushPlace' /\ MarkPlace'
    BY <1>1, <1>a, <1>0 DEF MigrateStart, listVars, regionVars, tableVars, TypeOK, PoolInv, PlaceInv, HandPlace
  <2>2. Excluded'
    BY <1>1, <1>0 DEF MigrateStart, Excluded, Removing, PoolInv, PlaceInv, TypeOK
  <2> QED BY <2>1, <2>2 DEF PlaceInv
<1>2. ASSUME NEW t \in Thread, AllocStart(t) PROVE PlaceInv'
  <2>1. HandPlace' /\ PushPlace' /\ MarkPlace'
    BY <1>2, <1>a, <1>0 DEF AllocStart, listVars, regionVars, tableVars, TypeOK, PoolInv, PlaceInv, HandPlace
  <2>2. Excluded'
    BY <1>2, <1>0 DEF AllocStart, Excluded, Removing, PoolInv, PlaceInv, TypeOK
  <2> QED BY <2>1, <2>2 DEF PlaceInv
<1>3. ASSUME NEW t \in Thread, PopFree(t) PROVE PlaceInv'
  <2>1. free_pages \in Seq(Page) /\ free_pages # <<>>
    BY <1>3, <1>0 DEF PopFree, TypeOK
  <2>2. Elems(free_pages) = {Head(free_pages)} \cup Elems(Tail(free_pages))
    BY <2>1, PopLemma
  <2>3. Head(free_pages) \in FreeSet /\ FreeSet' \subseteq FreeSet
    BY <1>3, <2>2 DEF PopFree, FreeSet
  <2>4. (FreeSet \cup InHand \cup InUse)' \subseteq FreeSet \cup InHand \cup InUse
    BY <1>3, <2>3, <1>0 DEF PopFree, InHand, InUse, TypeOK
  <2>5. HandPlace'
    BY <1>3, <1>0 DEF PopFree, PoolInv, PlaceInv, HandPlace, TypeOK
  <2>6. PushPlace'
    BY <1>3, <2>4, <1>0 DEF PopFree, PoolInv, PlaceInv, PushPlace, TypeOK, regionVars
  <2>7. MarkPlace'
    BY <1>3, <1>0 DEF PopFree, PoolInv, PlaceInv, MarkPlace, TypeOK, regionVars, tableVars
  <2> QED BY <1>3, <2>5, <2>6, <2>7, <1>0 DEF PopFree, PlaceInv, Excluded, Removing, PoolInv, TypeOK
<1>4. ASSUME NEW t \in Thread, ListEmpty(t) PROVE PlaceInv'
  <2>1. HandPlace' /\ PushPlace' /\ MarkPlace'
    BY <1>4, <1>a, <1>0 DEF ListEmpty, listVars, regionVars, tableVars, TypeOK, PoolInv, PlaceInv, HandPlace
  <2>2. Excluded'
    BY <1>4, <1>0 DEF ListEmpty, Excluded, Removing, PoolInv, PlaceInv, TypeOK
  <2> QED BY <2>1, <2>2 DEF PlaceInv
<1>5. ASSUME NEW t \in Thread, PageInit(t) PROVE PlaceInv'
  <2>1. dpage[t] \in InHand
    BY <1>5, <1>0 DEF PageInit, TypeInv, PlaceOK, InHand
  <2>2. (FreeSet \cup InHand \cup InUse)' \subseteq FreeSet \cup InHand \cup InUse
    BY <1>5, <2>1, <1>0 DEF PageInit, FreeSet, InHand, InUse, TypeOK, listVars
  <2>3. HandPlace'
    BY <1>5, <1>0 DEF PageInit, PoolInv, PlaceInv, HandPlace, TypeOK
  <2>4. PushPlace'
    BY <1>5, <2>2, <1>0 DEF PageInit, PoolInv, PlaceInv, PushPlace, TypeOK, regionVars
  <2>5. MarkPlace'
    BY <1>5, <1>0 DEF PageInit, PoolInv, PlaceInv, MarkPlace, TypeOK, regionVars, tableVars
  <2> QED BY <1>5, <2>3, <2>4, <2>5, <1>0 DEF PageInit, PlaceInv, Excluded, Removing, PoolInv, TypeOK
<1>6. ASSUME NEW t \in Thread, AllocDone(t) PROVE PlaceInv'
  <2>1. HandPlace' /\ PushPlace' /\ MarkPlace'
    BY <1>6, <1>a, <1>0 DEF AllocDone, listVars, regionVars, tableVars, TypeOK, PoolInv, PlaceInv, HandPlace
  <2>2. Excluded'
    BY <1>6, <1>0 DEF AllocDone, Excluded, Removing, PoolInv, PlaceInv, TypeOK
  <2> QED BY <2>1, <2>2 DEF PlaceInv
<1>7. ASSUME NEW t \in Thread, FinalizePage(t) PROVE PlaceInv'
  <2>1. (FreeSet \cup InHand \cup InUse)' \subseteq FreeSet \cup InHand \cup InUse
    <3>1. PICK p \in batch[t] :
            /\ batch' = [batch EXCEPT ![t] = @ \ {p}]
            /\ \/ resident' = resident \cup {p} /\ UNCHANGED <<free_pages, cfree>>
               \/ UNCHANGED resident /\ dmirror_devmem_free(p)
      BY <1>7 DEF FinalizePage
    <3>2. p \in Page /\ p \in InUse
      BY <1>0 DEF TypeOK, InUse
    <3>3. FreeSet' \subseteq FreeSet \cup {p}
      BY <3>1, <3>2, FreeStep DEF FreeSet
    <3>4. InUse' \subseteq InUse
      BY <3>1, <3>2, <1>0 DEF InUse, TypeOK
    <3>5. InHand' = InHand
      BY <1>7 DEF FinalizePage, InHand
    <3> QED BY <3>2, <3>3, <3>4, <3>5
  <2>2. UNCHANGED <<pc, dpage, devmem, live, remove, devmem_chunks, next>>
    BY <1>7 DEF FinalizePage, regionVars, tableVars
  <2> QED BY <2>1, <2>2 DEF PoolInv, PlaceInv, Excluded, Removing, HandPlace, PushPlace, MarkPlace
<1>8. ASSUME NEW t \in Thread, FinalizeDone(t) PROVE PlaceInv'
  <2>1. HandPlace' /\ PushPlace' /\ MarkPlace'
    BY <1>8, <1>a, <1>0 DEF FinalizeDone, listVars, regionVars, tableVars, TypeOK, PoolInv, PlaceInv, HandPlace
  <2>2. Excluded'
    BY <1>8, <1>0 DEF FinalizeDone, Excluded, Removing, PoolInv, PlaceInv, TypeOK
  <2> QED BY <2>1, <2>2 DEF PlaceInv
<1>9. ASSUME NEW t \in Thread, ReserveFails(t) PROVE PlaceInv'
  <2>1. HandPlace' /\ PushPlace' /\ MarkPlace'
    BY <1>9, <1>a, <1>0 DEF ReserveFails, AfterChunk, listVars, regionVars, tableVars, TypeOK, PoolInv, PlaceInv, HandPlace
  <2>2. Excluded'
    BY <1>9, <1>0 DEF ReserveFails, AfterChunk, Excluded, Removing, PoolInv, PlaceInv, TypeOK
  <2> QED BY <2>1, <2>2 DEF PlaceInv
<1>10. ASSUME NEW t \in Thread, Reserve(t) PROVE PlaceInv'
  <2>1. PICK c \in Chunk \ reserved : devmem' = [devmem EXCEPT ![t] = c]
    BY <1>10 DEF Reserve
  <2>2. UNCHANGED <<dpage, batch, resident, free_pages, live, remove, devmem_chunks, next>>
    BY <1>10 DEF Reserve, listVars, tableVars
  <2>3. UNCHANGED <<FreeSet, InHand, InUse>>
    BY <2>2 DEF FreeSet, InHand, InUse
  <2>4. pc' = [pc EXCEPT ![t] = "lock"] /\ pc[t] = "reserve"
    BY <1>10 DEF Reserve
  <2>5. \A s \in Thread : pc[s] \in ChunkPC => devmem[s] \in reserved
    BY DEF PoolInv, TableInv, PlaceInv, PushPlace
  <2>6. PushPlace'
    <3>1. \A s \in Thread : pc'[s] = "push" => s # t /\ pc[s] = "push" /\ devmem'[s] = devmem[s]
      BY <2>1, <2>4, <1>0 DEF TypeOK
    <3>2. \A u, v \in Thread : u # v /\ pc'[u] \in ChunkPC /\ pc'[v] \in ChunkPC => devmem'[u] # devmem'[v]
      BY <2>1, <2>4, <2>5, <1>0 DEF TypeOK, PoolInv, PlaceInv, PushPlace
    <3> QED BY <2>2, <2>3, <3>1, <3>2 DEF PoolInv, PlaceInv, PushPlace
  <2>7. HandPlace' /\ MarkPlace'
    BY <2>2, <2>4, <1>0 DEF TypeOK, PoolInv, PlaceInv, HandPlace, MarkPlace
  <2> QED BY <2>4, <2>6, <2>7, <1>0 DEF PlaceInv, Excluded, Removing, PoolInv, TypeOK
<1>11. ASSUME NEW t \in Thread, ChunkLock(t) PROVE PlaceInv'
  <2>1. HandPlace' /\ PushPlace' /\ MarkPlace'
    BY <1>11, <1>a, <1>0 DEF ChunkLock, listVars, regionVars, tableVars, TypeOK, PoolInv, PlaceInv, HandPlace
  <2>2. Excluded'
    BY <1>11, <1>0 DEF ChunkLock, Excluded, Removing, PoolInv, PlaceInv, TypeOK
  <2> QED BY <2>1, <2>2 DEF PlaceInv
<1>12. ASSUME NEW t \in Thread, RegisterFails(t) PROVE PlaceInv'
  <2>1. HandPlace' /\ PushPlace' /\ MarkPlace'
    BY <1>12, <1>a, <1>0 DEF RegisterFails, AfterChunk, listVars, regionVars, tableVars, TypeOK, PoolInv, PlaceInv, HandPlace
  <2>2. Excluded'
    BY <1>12, <1>0 DEF RegisterFails, AfterChunk, Excluded, Removing, PoolInv, PlaceInv, TypeOK
  <2> QED BY <2>1, <2>2 DEF PlaceInv
<1>13. ASSUME NEW t \in Thread, Register(t) PROVE PlaceInv'
  <2>1. ~Removing /\ \A c \in Chunk : ~remove[c]
    BY <1>13, Quiet DEF Register
  <2>2. /\ UNCHANGED <<dpage, batch, resident, free_pages, remove, devmem>>
        /\ live' = live \cup {devmem[t]}
        /\ pc' = [pc EXCEPT ![t] = "push"] /\ pc[t] = "register"
    BY <1>13 DEF Register, listVars
  <2>3. UNCHANGED <<FreeSet, InHand, InUse>>
    BY <2>2 DEF FreeSet, InHand, InUse
  <2>4. devmem[t] \notin live
    BY <2>2 DEF PoolInv, TableInv
  <2>5. PagesOf(devmem[t]) \cap (FreeSet \cup InHand \cup InUse) = {}
    <3>1. \A p \in FreeSet \cup InHand \cup InUse : dmirror_page_to_chunk(p) # devmem[t]
      BY <2>4 DEF PoolInv, OwnerInv, NoDanglingPage
    <3> QED BY <3>1, <1>0, SeenType, PageChunk
  <2>6. PushPlace'
    BY <2>2, <2>3, <2>5, <1>0 DEF TypeOK, PoolInv, PlaceInv, PushPlace
  <2>7. HandPlace'
    BY <2>2, <1>0 DEF TypeOK, PoolInv, PlaceInv, HandPlace
  <2>8. ~Removing'
    BY <2>1, <2>2, <1>0 DEF Removing, TypeOK
  <2>9. MarkPlace'
    BY <2>1, <2>2, <2>8 DEF MarkPlace, Removing
  <2> QED BY <2>6, <2>7, <2>8, <2>9 DEF PlaceInv, Excluded
<1>14. ASSUME NEW t \in Thread, PushChunk(t) PROVE PlaceInv'
  <2> DEFINE c == devmem[t]
             list == Stacked(c) \o free_pages
             h == Head(list)
  <2>1. ~Removing /\ \A d \in Chunk : ~remove[d]
    BY <1>14, Quiet DEF PushChunk
  <2>2. c \in Chunk
    BY <1>14, <1>0 DEF PushChunk, TypeInv, PlaceOK
  <2>3. list \in Seq(Page) /\ list # <<>> /\ Elems(list) = PagesOf(c) \cup FreeSet
    BY <2>2, <1>0, StackedListType
  <2> HIDE DEF list
  <2>4. Elems(list) = {h} \cup Elems(Tail(list))
    BY <2>3, PopLemma
  <2>5. /\ UNCHANGED <<batch, resident, live, remove>>
        /\ devmem' = [devmem EXCEPT ![t] = NoChunk]
        /\ pc' = [pc EXCEPT ![t] = AfterChunk(t, TRUE)] /\ pc[t] = "push"
        /\ \/ dpage' = [dpage EXCEPT ![t] = h] /\ free_pages' = Tail(list) /\ AfterChunk(t, TRUE) = "init"
           \/ dpage' = dpage /\ free_pages' = list /\ AfterChunk(t, TRUE) = "idle"
    BY <1>14 DEF PushChunk, AfterChunk, list, regionVars
  <2> HIDE DEF h
  <2>6. (FreeSet \cup InHand \cup InUse)' \subseteq FreeSet \cup InHand \cup InUse \cup PagesOf(c)
    <3>1. InUse' = InUse
      BY <2>5 DEF InUse
    <3>2. FreeSet' \subseteq PagesOf(c) \cup FreeSet
      BY <2>3, <2>4, <2>5 DEF FreeSet
    <3>3. h \in PagesOf(c) \cup FreeSet
      BY <2>3, <2>4
    <3>4. \A s \in Thread : dpage'[s] \in {dpage[s], h}
      BY <2>5, <1>0 DEF TypeOK
    <3>5. InHand' \subseteq InHand \cup {h}
      BY <3>4 DEF InHand
    <3> QED BY <3>1, <3>2, <3>3, <3>5
  <2>7. HandPlace'
    BY <2>5, <1>0 DEF TypeOK, PoolInv, PlaceInv, HandPlace
  <2>8. PushPlace'
    <3>1. \A s \in Thread : pc'[s] \in ChunkPC => s # t /\ pc[s] \in ChunkPC /\ devmem'[s] = devmem[s]
      BY <2>5, <1>0 DEF TypeOK
    <3>2. \A s \in Thread : pc'[s] = "push" => s # t /\ pc[s] = "push" /\ devmem'[s] = devmem[s]
      BY <2>5, <1>0 DEF TypeOK
    <3>3. \A s \in Thread \ {t} : pc[s] = "push" => PagesOf(devmem[s]) \cap PagesOf(c) = {}
      BY <2>5 DEF PoolInv, PlaceInv, PushPlace, PagesOf
    <3>4. \A s \in Thread : pc'[s] = "push" =>
            /\ devmem'[s] \in live'
            /\ PagesOf(devmem'[s]) \cap (FreeSet \cup InHand \cup InUse)' = {}
      <4> SUFFICES ASSUME NEW s \in Thread, pc'[s] = "push"
                   PROVE  /\ devmem'[s] \in live'
                          /\ PagesOf(devmem'[s]) \cap (FreeSet \cup InHand \cup InUse)' = {}
        OBVIOUS
      <4>1. s # t /\ pc[s] = "push" /\ devmem'[s] = devmem[s]
        BY <3>2
      <4>2. devmem[s] \in live /\ PagesOf(devmem[s]) \cap (FreeSet \cup InHand \cup InUse) = {}
        BY <4>1 DEF PoolInv, PlaceInv, PushPlace
      <4> QED BY <2>5, <2>6, <3>3, <4>1, <4>2
    <3>5. \A u, v \in Thread : u # v /\ pc'[u] \in ChunkPC /\ pc'[v] \in ChunkPC => devmem'[u] # devmem'[v]
      BY <3>1 DEF PoolInv, PlaceInv, PushPlace
    <3> QED BY <3>4, <3>5 DEF PushPlace
  <2>9. ~Removing'
    BY <2>1, <2>5, <1>0 DEF Removing, TypeOK
  <2>10. MarkPlace'
    BY <2>1, <2>5, <2>9 DEF MarkPlace, Removing
  <2> QED BY <2>7, <2>8, <2>9, <2>10 DEF PlaceInv, Excluded
<1>15. ASSUME NEW t \in Thread, ReleaseStart(t) PROVE PlaceInv'
  <2>1. \A s \in Thread : pc[s] \notin AllocPC
    BY <1>15 DEF ReleaseStart, Allocating
  <2>2. \A s \in Thread : pc[s] \notin RemoverPC
    BY <1>15, PoolAssumption, <1>0 DEF ReleaseStart, TypeInv, PlaceOK
  <2>3. /\ UNCHANGED <<dpage, remove>>
        /\ pc' = [pc EXCEPT ![t] = "mark"]
    BY <1>15 DEF ReleaseStart, regionVars
  <2>4. \A s \in Thread : pc'[s] \in {"idle", "mark"}
    BY <2>1, <2>2, <2>3, <1>0 DEF TypeOK
  <2>5. \A c \in Chunk : ~remove[c]
    BY <2>2 DEF PoolInv, PlaceInv, MarkPlace
  <2>6. \A s \in Thread : dpage[s] = NoPage
    BY <2>1 DEF PoolInv, PlaceInv, HandPlace
  <2> QED BY <2>3, <2>4, <2>5, <2>6 DEF PlaceInv, Excluded, HandPlace, PushPlace, MarkPlace
<1>16. ASSUME NEW t \in Thread, MarkChunk(t) PROVE PlaceInv'
  <2>1. \A s \in Thread : pc[s] \in RemoverPC => s = t
    BY <1>16, <1>0, LockExcludes DEF MarkChunk
  <2>2. Removing /\ pc[t] \in RemoverPC
    BY <1>16 DEF MarkChunk, Removing
  <2>3. \A s \in Thread : pc[s] \notin AllocPC /\ dpage[s] = NoPage
    BY <2>2 DEF PoolInv, PlaceInv, Excluded, HandPlace
  <2>4. \A s \in Thread \ {t} : pc'[s] = "idle"
    BY <1>16, <2>1, <2>3, <1>0 DEF MarkChunk, TypeOK
  <2>5. pc'[t] = "evict" /\ dpage' = dpage
    BY <1>16, <1>0 DEF MarkChunk, TypeOK
  <2>6. Excluded' /\ HandPlace' /\ PushPlace'
    BY <2>3, <2>4, <2>5 DEF Excluded, HandPlace, PushPlace
  <2>7. devmem_chunks[next] \in Chunk /\ \A c \in Chunk : ~remove[c]
    <3>1. \A s \in Thread : pc[s] \notin {"evict", "unmap"}
      BY <1>16, <2>1 DEF MarkChunk
    <3> QED BY <1>16, <3>1, <1>0, EntryType DEF MarkChunk, PoolInv, PlaceInv, MarkPlace
  <2>8. /\ remove' = [remove EXCEPT ![devmem_chunks[next]] = TRUE]
        /\ UNCHANGED <<devmem_chunks, next>>
    BY <1>16 DEF MarkChunk, tableVars
  <2>9. MarkPlace'
    BY <2>4, <2>5, <2>7, <2>8, <1>0 DEF MarkPlace, TypeOK
  <2> QED BY <2>6, <2>9 DEF PlaceInv
<1>17. ASSUME NEW t \in Thread, dmirror_device_evict_chunk(t) PROVE PlaceInv'
  <2>1. \A s \in Thread : pc[s] \in RemoverPC => s = t
    BY <1>17, <1>0, LockExcludes DEF dmirror_device_evict_chunk
  <2>2. Removing /\ pc[t] \in RemoverPC
    BY <1>17 DEF dmirror_device_evict_chunk, Removing
  <2>3. \A s \in Thread : pc[s] \notin AllocPC /\ dpage[s] = NoPage
    BY <2>2 DEF PoolInv, PlaceInv, Excluded, HandPlace
  <2>4. \A s \in Thread \ {t} : pc'[s] = "idle"
    BY <1>17, <2>1, <2>3, <1>0 DEF dmirror_device_evict_chunk, TypeOK
  <2>5. pc'[t] = "unmap" /\ dpage' = dpage
    BY <1>17, <1>0 DEF dmirror_device_evict_chunk, TypeOK
  <2>6. Excluded' /\ HandPlace' /\ PushPlace'
    BY <2>3, <2>4, <2>5 DEF Excluded, HandPlace, PushPlace
  <2>7. UNCHANGED <<remove, devmem_chunks, next>> /\ pc[t] = "evict"
    BY <1>17 DEF dmirror_device_evict_chunk, regionVars, tableVars
  <2>8. MarkPlace'
    BY <2>1, <2>4, <2>5, <2>7 DEF PoolInv, PlaceInv, MarkPlace
  <2> QED BY <2>6, <2>8 DEF PlaceInv
<1>18. ASSUME NEW t \in Thread, UnmapChunk(t) PROVE PlaceInv'
  <2>1. \A s \in Thread : pc[s] \in RemoverPC => s = t
    BY <1>18, <1>0, LockExcludes DEF UnmapChunk
  <2>2. Removing /\ pc[t] \in RemoverPC
    BY <1>18 DEF UnmapChunk, Removing
  <2>3. \A s \in Thread : pc[s] \notin AllocPC /\ dpage[s] = NoPage
    BY <2>2 DEF PoolInv, PlaceInv, Excluded, HandPlace
  <2>4. \A s \in Thread \ {t} : pc'[s] = "idle"
    BY <1>18, <2>1, <2>3, <1>0 DEF UnmapChunk, TypeOK
  <2>5. pc'[t] = "mark" /\ dpage' = dpage
    BY <1>18, <1>0 DEF UnmapChunk, TypeOK
  <2>6. Excluded' /\ HandPlace' /\ PushPlace'
    BY <2>3, <2>4, <2>5 DEF Excluded, HandPlace, PushPlace
  <2>7. remove' = [remove EXCEPT ![devmem_chunks[next]] = FALSE]
    BY <1>18 DEF UnmapChunk
  <2>8. \A c \in Chunk : ~remove'[c]
    BY <2>7, <1>0 DEF TypeOK, PoolInv, PlaceInv, MarkPlace
  <2>9. MarkPlace'
    BY <2>4, <2>5, <2>8 DEF MarkPlace
  <2> QED BY <2>6, <2>9 DEF PlaceInv
<1>19. ASSUME NEW t \in Thread, RemoveDone(t) PROVE PlaceInv'
  <2>1. \A s \in Thread : pc[s] \in RemoverPC => s = t
    BY <1>19, <1>0, LockExcludes DEF RemoveDone
  <2>2. Removing /\ pc[t] \in RemoverPC
    BY <1>19 DEF RemoveDone, Removing
  <2>3. \A s \in Thread : pc[s] \notin AllocPC /\ dpage[s] = NoPage
    BY <2>2 DEF PoolInv, PlaceInv, Excluded, HandPlace
  <2>4. \A s \in Thread \ {t} : pc'[s] = "idle"
    BY <1>19, <2>1, <2>3, <1>0 DEF RemoveDone, TypeOK
  <2>5. pc'[t] = "idle" /\ dpage' = dpage
    BY <1>19, <1>0 DEF RemoveDone, TypeOK
  <2>6. Excluded' /\ HandPlace' /\ PushPlace'
    BY <2>3, <2>4, <2>5 DEF Excluded, HandPlace, PushPlace
  <2>7. \A c \in Chunk : ~remove'[c]
    BY <1>19, <2>1 DEF RemoveDone, regionVars, PoolInv, PlaceInv, MarkPlace
  <2>8. MarkPlace'
    BY <2>4, <2>5, <2>7 DEF MarkPlace
  <2> QED BY <2>6, <2>8 DEF PlaceInv
<1>20. ASSUME FreeResident PROVE PlaceInv'
  <2>1. (FreeSet \cup InHand \cup InUse)' \subseteq FreeSet \cup InHand \cup InUse
    <3>1. PICK p \in resident : resident' = resident \ {p} /\ dmirror_devmem_free(p)
      BY <1>20 DEF FreeResident
    <3>2. p \in Page /\ p \in InUse
      BY <1>0 DEF TypeOK, InUse
    <3>3. FreeSet' \subseteq FreeSet \cup {p}
      BY <3>1, <3>2, FreeStep
    <3>4. InUse' \subseteq InUse /\ InHand' = InHand
      BY <1>20, <3>1 DEF FreeResident, InUse, InHand, threadVars
    <3> QED BY <3>2, <3>3, <3>4
  <2>2. UNCHANGED <<pc, dpage, devmem, live, remove, devmem_chunks, next>>
    BY <1>20 DEF FreeResident, regionVars, tableVars, threadVars
  <2> QED BY <2>1, <2>2 DEF PoolInv, PlaceInv, Excluded, Removing, HandPlace, PushPlace, MarkPlace
<1>21. ASSUME UNCHANGED vars PROVE PlaceInv'
  <2>1. HandPlace' /\ PushPlace' /\ MarkPlace'
    BY <1>21, <1>a DEF vars, listVars, regionVars, tableVars, threadVars, PoolInv, PlaceInv, HandPlace
  <2>2. Excluded'
    BY <1>21 DEF vars, threadVars, Excluded, Removing, PoolInv, PlaceInv
  <2> QED BY <2>1, <2>2 DEF PlaceInv
<1> QED
  BY <1>1, <1>2, <1>3, <1>4, <1>5, <1>6, <1>7, <1>8, <1>9, <1>10, <1>11, <1>12, <1>13, <1>14, <1>15, <1>16, <1>17, <1>18, <1>19, <1>20, <1>21
  DEF Next, Migrate, AllocateChunk, RemoveChunks

(***************************************************************************)
(* The invariant holds in every run in which no release overlaps a         *)
(* migration.                                                              *)
(***************************************************************************)
LEMMA PoolInvariant ==
    ASSUME ~Concurrent
    PROVE  Spec => []PoolInv
<1>1. ASSUME Init PROVE PoolInv
  <2>1. TypeInv /\ TableInv
    BY <1>1, TableInit
  <2>2. FreeSet = {} /\ InHand = {} /\ InUse = {} /\ Distinct(free_pages)
    BY <1>1 DEF Init, FreeSet, InHand, InUse, Elems, Distinct
  <2>3. OwnerInv
    BY <1>1, <2>2, PoolAssumption DEF Init, OwnerInv, SoleOwner, NoDanglingPage, RemovedNotReallocated
  <2>4. PlaceInv
    BY <1>1 DEF Init, PlaceInv, Excluded, HandPlace, PushPlace, MarkPlace, Removing, RemoverPC, ChunkPC
  <2> QED BY <2>1, <2>3, <2>4 DEF PoolInv
<1>2. PoolInv /\ [Next]_vars => PoolInv'
  BY TypeStep, TableStep, PlaceStep, OwnerStep DEF PoolInv
<1> QED BY <1>1, <1>2, PTL DEF Spec

(***************************************************************************)
(* No device page ever has two owners.                                     *)
(***************************************************************************)
THEOREM PagesHaveOneOwner ==
    ASSUME ~Concurrent
    PROVE  Spec => []SoleOwner
<1>1. PoolInv => SoleOwner
  BY DEF PoolInv, OwnerInv
<1> QED BY <1>1, PoolInvariant, PTL

(***************************************************************************)
(* The allocator never touches a page whose chunk was unmapped.            *)
(***************************************************************************)
THEOREM PagesAreLive ==
    ASSUME ~Concurrent
    PROVE  Spec => []NoDanglingPage
<1>1. PoolInv => NoDanglingPage
  BY DEF PoolInv, OwnerInv
<1> QED BY <1>1, PoolInvariant, PTL

(***************************************************************************)
(* A page of a chunk that is being removed cannot be allocated again.      *)
(***************************************************************************)
THEOREM RemovedPagesStayRemoved ==
    ASSUME ~Concurrent
    PROVE  Spec => []RemovedNotReallocated
<1>1. PoolInv => RemovedNotReallocated
  BY DEF PoolInv, OwnerInv
<1> QED BY <1>1, PoolInvariant, PTL

-----------------------------------------------------------------------------
(***************************************************************************)
(* No page is lost.  Outside a removal a page that is seen stays seen: it  *)
(* moves from the list to a thread, on to its batch, to a process and back *)
(* to the list, where dmirror_devmem_free() always puts it then.           *)
(***************************************************************************)
Seen == FreeSet \cup InHand \cup InUse

(***************************************************************************)
(* Outside a removal dmirror_devmem_free() puts the page on the list.      *)
(***************************************************************************)
LEMMA FreeKeeps ==
    ASSUME PoolInv, ~Removing, NEW p \in Page, p \in InUse, dmirror_devmem_free(p)
    PROVE  FreeSet' = FreeSet \cup {p}
<1> DEFINE c == dmirror_page_to_chunk(p)
<1>1. c \in Chunk /\ c \in live
  BY DEF PoolInv, OwnerInv, NoDanglingPage, dmirror_page_to_chunk, Page
<1>2. ~remove[c]
  BY <1>1 DEF PoolInv, PlaceInv, MarkPlace, Removing, RemoverPC
<1> HIDE DEF c
<1>3. free_pages' = <<p>> \o free_pages
  BY <1>1, <1>2, Zenon DEF dmirror_devmem_free, c
<1>4. Elems(<<p>> \o free_pages) = {p} \cup Elems(free_pages)
  BY PushOneLemma DEF PoolInv, TypeInv, TypeOK
<1> QED BY <1>3, <1>4, Zenon DEF FreeSet

(***************************************************************************)
(* When the removal loop has passed the last entry nothing is mapped.      *)
(***************************************************************************)
LEMMA NothingLive ==
    ASSUME PoolInv, NEW t \in Thread, RemoveDone(t)
    PROVE  live' = {}
<1>1. Removing /\ next > Len(devmem_chunks) /\ live' = live
  BY DEF RemoveDone, Removing, RemoverPC, regionVars
<1>2. live = {devmem_chunks[i] : i \in next..Len(devmem_chunks)}
  BY <1>1 DEF PoolInv, TableInv
<1>3. next \in Nat /\ Len(devmem_chunks) \in Nat
  BY DEF PoolInv, TypeInv, TypeOK
<1>4. next..Len(devmem_chunks) = {}
  BY <1>1, <1>3
<1> QED BY <1>1, <1>2, <1>4

(***************************************************************************)
(* Every step keeps the pages of mapped chunks in sight.                   *)
(***************************************************************************)
LEMMA LostStep ==
    ASSUME PoolInv, NoPageLost, [Next]_vars
    PROVE  NoPageLost'
<1>0. TypeInv /\ TypeOK
  BY DEF PoolInv, TypeInv
<1> NoPage \notin Page
  BY PoolAssumption DEF Page
<1>a. ASSUME ~Removing, live' = live, Seen \subseteq Seen',
             \A t \in Thread : pc[t] = "push" => pc'[t] = "push" /\ devmem'[t] = devmem[t]
      PROVE  NoPageLost'
  <2> SUFFICES ASSUME NEW c \in live
               PROVE  \/ \E t \in Thread : pc'[t] = "push" /\ devmem'[t] = c
                      \/ PagesOf(c) \subseteq Seen'
    BY <1>a DEF NoPageLost, Seen
  <2>1. \/ \E t \in Thread : pc[t] = "push" /\ devmem[t] = c
        \/ PagesOf(c) \subseteq Seen
    BY <1>a DEF NoPageLost, Seen
  <2> QED BY <1>a, <2>1
<1>b. ASSUME UNCHANGED <<dpage, batch, resident, free_pages>>  PROVE Seen' = Seen
  BY <1>b DEF Seen, FreeSet, InHand, InUse
<1>c. ASSUME Removing'  PROVE NoPageLost'
  BY <1>c DEF NoPageLost
<1>d. ASSUME NEW t \in Thread, pc[t] \in AllocPC  PROVE ~Removing
  BY <1>d, Quiet
<1>1. ASSUME NEW t \in Thread, pc[t] \in {"idle"} \cup AllocPC, pc[t] # "push",
             pc' = [pc EXCEPT ![t] = pc'[t]],
             UNCHANGED <<dpage, batch, resident, free_pages, live>>,
             \A s \in Thread : s # t => devmem'[s] = devmem[s]
      PROVE  NoPageLost'
  <2>1. CASE Removing
    <3>1. PICK s \in Thread : pc[s] \in RemoverPC
      BY <2>1 DEF Removing
    <3>2. pc'[s] = pc[s]
      BY <1>1, <3>1, <1>0 DEF TypeOK, AllocPC, RemoverPC
    <3> QED BY <1>c, <3>1, <3>2 DEF Removing
  <2>2. CASE ~Removing
    <3>1. \A s \in Thread : pc[s] = "push" => pc'[s] = "push" /\ devmem'[s] = devmem[s]
      BY <1>1, <1>0 DEF TypeOK
    <3> QED BY <1>1, <1>a, <1>b, <2>2, <3>1
  <2> QED BY <2>1, <2>2
<1>2. ASSUME NEW t \in Thread,
             \/ MigrateStart(t) \/ AllocStart(t) \/ ListEmpty(t) \/ AllocDone(t) \/ FinalizeDone(t)
             \/ ReserveFails(t) \/ Reserve(t) \/ ChunkLock(t) \/ RegisterFails(t)
      PROVE  NoPageLost'
  <2>1. pc[t] \in {"idle"} \cup AllocPC /\ pc[t] # "push"
    BY <1>2 DEF MigrateStart, AllocStart, ListEmpty, AllocDone, FinalizeDone, ReserveFails, Reserve,
                ChunkLock, RegisterFails, AllocPC
  <2>2. pc' = [pc EXCEPT ![t] = pc'[t]]
    BY <1>2, <1>0 DEF MigrateStart, AllocStart, ListEmpty, AllocDone, FinalizeDone, ReserveFails, Reserve,
                      ChunkLock, RegisterFails, TypeOK
  <2>3. UNCHANGED <<dpage, batch, resident, free_pages, live>>
    BY <1>2 DEF MigrateStart, AllocStart, ListEmpty, AllocDone, FinalizeDone, ReserveFails, Reserve,
                ChunkLock, RegisterFails, listVars, regionVars
  <2>4. \A s \in Thread : s # t => devmem'[s] = devmem[s]
    BY <1>2, <1>0 DEF MigrateStart, AllocStart, ListEmpty, AllocDone, FinalizeDone, ReserveFails, Reserve,
                      ChunkLock, RegisterFails, TypeOK
  <2> QED BY <1>1, <2>1, <2>2, <2>3, <2>4
<1>3. ASSUME NEW t \in Thread, PopFree(t) PROVE NoPageLost'
  <2> DEFINE h == Head(free_pages)
  <2>1. h \in Page /\ Elems(free_pages) = {h} \cup Elems(Tail(free_pages))
    BY <1>3, <1>0, PopLemma DEF PopFree, TypeOK
  <2>2. FreeSet = {h} \cup FreeSet'
    BY <1>3, <2>1 DEF PopFree, FreeSet
  <2>3. dpage[t] = NoPage
    BY <1>3 DEF PopFree, PoolInv, PlaceInv, HandPlace
  <2> HIDE DEF h
  <2>4. dpage' = [dpage EXCEPT ![t] = h] /\ UNCHANGED <<batch, resident, live, devmem>>
    BY <1>3 DEF PopFree, h, regionVars
  <2>5. InHand' = InHand \cup {h} /\ InUse' = InUse
    BY <2>1, <2>3, <2>4, <1>0 DEF InHand, InUse, TypeOK
  <2>6. Seen' = Seen
    BY <2>2, <2>5 DEF Seen
  <2>7. \A s \in Thread : pc[s] = "push" => pc'[s] = "push"
    BY <1>3, <1>0 DEF PopFree, TypeOK
  <2> QED BY <1>3, <1>a, <1>d, <2>4, <2>6, <2>7 DEF PopFree, AllocPC
<1>4. ASSUME NEW t \in Thread, PageInit(t) PROVE NoPageLost'
  <2>1. dpage' = [dpage EXCEPT ![t] = NoPage] /\ batch' = [batch EXCEPT ![t] = @ \cup {dpage[t]}]
        /\ UNCHANGED <<resident, free_pages, live, devmem>>
    BY <1>4 DEF PageInit, listVars, regionVars
  <2>2. InUse' = InUse \cup {dpage[t]} /\ InHand \subseteq InHand' \cup {dpage[t]} /\ FreeSet' = FreeSet
    BY <2>1, <1>0 DEF InUse, InHand, FreeSet, TypeOK
  <2>3. \A s \in Thread : pc[s] = "push" => pc'[s] = "push"
    BY <1>4, <1>0 DEF PageInit, TypeOK
  <2> QED BY <1>4, <1>a, <1>d, <2>1, <2>2, <2>3 DEF PageInit, AllocPC, Seen
<1>5. ASSUME NEW t \in Thread, FinalizePage(t) PROVE NoPageLost'
  <2>1. PICK p \in batch[t] :
          /\ batch' = [batch EXCEPT ![t] = @ \ {p}]
          /\ \/ resident' = resident \cup {p} /\ UNCHANGED <<free_pages, cfree>>
             \/ UNCHANGED resident /\ dmirror_devmem_free(p)
    BY <1>5 DEF FinalizePage
  <2>2. UNCHANGED <<dpage, live, pc, devmem>> /\ ~Removing
    BY <1>5, <1>d DEF FinalizePage, regionVars, AllocPC
  <2>3. p \in Page /\ p \in InUse
    BY <1>0 DEF TypeOK, InUse
  <2>4. InHand' = InHand
    BY <2>2 DEF InHand
  <2>5. InUse \subseteq InUse' \cup {p}
    BY <2>1, <1>0 DEF InUse, TypeOK
  <2>6. Seen \subseteq Seen'
    <3>1. CASE resident' = resident \cup {p} /\ UNCHANGED <<free_pages, cfree>>
      BY <2>4, <2>5, <3>1 DEF Seen, FreeSet, InUse
    <3>2. CASE dmirror_devmem_free(p)
      BY <2>2, <2>3, <2>4, <2>5, <3>2, FreeKeeps DEF Seen
    <3> QED BY <2>1, <3>1, <3>2
  <2> QED BY <1>a, <2>2, <2>6
<1>6. ASSUME NEW t \in Thread, Register(t) PROVE NoPageLost'
  <2>1. /\ pc' = [pc EXCEPT ![t] = "push"] /\ live' = live \cup {devmem[t]}
        /\ UNCHANGED <<dpage, batch, resident, free_pages, devmem>> /\ pc[t] = "register"
    BY <1>6 DEF Register, listVars
  <2>2. ~Removing
    BY <1>d, <2>1 DEF AllocPC
  <2>3. Seen' = Seen
    BY <1>b, <2>1
  <2> SUFFICES ASSUME NEW c \in live'
               PROVE  \/ \E s \in Thread : pc'[s] = "push" /\ devmem'[s] = c
                      \/ PagesOf(c) \subseteq Seen'
    BY DEF NoPageLost, Seen
  <2>4. CASE c = devmem[t]
    BY <2>1, <2>4, <1>0 DEF TypeOK
  <2>5. CASE c \in live
    <3>1. \/ \E s \in Thread : pc[s] = "push" /\ devmem[s] = c
          \/ PagesOf(c) \subseteq Seen
      BY <2>2, <2>5 DEF NoPageLost, Seen
    <3> QED BY <2>1, <2>3, <3>1, <1>0 DEF TypeOK
  <2> QED BY <2>1, <2>4, <2>5
<1>7. ASSUME NEW t \in Thread, PushChunk(t) PROVE NoPageLost'
  <2> DEFINE c == devmem[t]
             list == Stacked(c) \o free_pages
  <2>1. c \in Chunk /\ pc[t] = "push" /\ dpage[t] = NoPage
    BY <1>7, <1>0 DEF PushChunk, TypeInv, PlaceOK, PoolInv, PlaceInv, HandPlace
  <2>2. list \in Seq(Page) /\ list # <<>> /\ Head(list) \in Page /\ Elems(list) = PagesOf(c) \cup FreeSet
    BY <2>1, <1>0, StackedListType
  <2>3. /\ \/ dpage' = [dpage EXCEPT ![t] = Head(list)] /\ free_pages' = Tail(list)
           \/ dpage' = dpage /\ free_pages' = list
        /\ devmem' = [devmem EXCEPT ![t] = NoChunk]
        /\ UNCHANGED <<batch, resident, live>>
    BY <1>7 DEF PushChunk, regionVars
  <2>4. pc' = [pc EXCEPT ![t] = pc'[t]] /\ ~Removing
    BY <1>7, <1>d, <1>0 DEF PushChunk, AllocPC, TypeOK
  <2> HIDE DEF list, c
  <2>5. FreeSet' \cup InHand' = FreeSet \cup InHand \cup PagesOf(c) /\ InUse' = InUse
    <3>1. InUse' = InUse
      BY <2>3 DEF InUse
    <3>2. CASE dpage' = [dpage EXCEPT ![t] = Head(list)] /\ free_pages' = Tail(list)
      <4>1. Elems(list) = {Head(list)} \cup Elems(Tail(list))
        BY <2>2, PopLemma
      <4>2. Elems(list) = {Head(list)} \cup FreeSet'
        BY <3>2, <4>1 DEF FreeSet
      <4>3. InHand' = InHand \cup {Head(list)}
        BY <2>1, <2>2, <3>2, <1>0 DEF InHand, TypeOK
      <4> QED BY <2>2, <3>1, <4>2, <4>3
    <3>3. CASE dpage' = dpage /\ free_pages' = list
      <4>1. FreeSet' = PagesOf(c) \cup FreeSet
        BY <2>2, <3>3 DEF FreeSet
      <4>2. InHand' = InHand
        BY <3>3 DEF InHand
      <4> QED BY <3>1, <4>1, <4>2
    <3> QED BY <2>3, <3>2, <3>3
  <2> SUFFICES ASSUME NEW e \in live
               PROVE  \/ \E s \in Thread : pc'[s] = "push" /\ devmem'[s] = e
                      \/ PagesOf(e) \subseteq Seen'
    BY <2>3 DEF NoPageLost, Seen
  <2>6. \/ \E s \in Thread : pc[s] = "push" /\ devmem[s] = e
        \/ PagesOf(e) \subseteq Seen
    BY <2>4 DEF NoPageLost, Seen
  <2>7. CASE PagesOf(e) \subseteq Seen
    BY <2>5, <2>7 DEF Seen
  <2>8. ASSUME NEW s \in Thread, pc[s] = "push", devmem[s] = e
        PROVE  \/ \E u \in Thread : pc'[u] = "push" /\ devmem'[u] = e
               \/ PagesOf(e) \subseteq Seen'
    <3>1. CASE s = t
      BY <2>5, <2>8, <3>1 DEF Seen, c
    <3>2. CASE s # t
      BY <2>3, <2>4, <2>8, <3>2, <1>0 DEF TypeOK
    <3> QED BY <3>1, <3>2
  <2> QED BY <2>6, <2>7, <2>8
<1>8. ASSUME NEW t \in Thread,
             ReleaseStart(t) \/ MarkChunk(t) \/ dmirror_device_evict_chunk(t) \/ UnmapChunk(t)
      PROVE  NoPageLost'
  <2>1. pc'[t] \in RemoverPC
    BY <1>8, <1>0 DEF ReleaseStart, MarkChunk, dmirror_device_evict_chunk, UnmapChunk, TypeOK, RemoverPC
  <2> QED BY <1>c, <2>1 DEF Removing
<1>9. ASSUME NEW t \in Thread, RemoveDone(t) PROVE NoPageLost'
  BY <1>9, NothingLive DEF NoPageLost
<1>10. ASSUME FreeResident PROVE NoPageLost'
  <2>1. PICK p \in resident : resident' = resident \ {p} /\ dmirror_devmem_free(p)
    BY <1>10 DEF FreeResident
  <2>2. UNCHANGED <<dpage, batch, live, pc, devmem>>
    BY <1>10 DEF FreeResident, threadVars, regionVars
  <2>3. p \in Page /\ p \in InUse
    BY <1>0 DEF TypeOK, InUse
  <2>4. InHand' = InHand /\ InUse \subseteq InUse' \cup {p}
    BY <2>1, <2>2 DEF InHand, InUse
  <2>5. CASE Removing
    BY <1>c, <2>2, <2>5 DEF Removing
  <2>6. CASE ~Removing
    <3>1. Seen \subseteq Seen'
      BY <2>1, <2>3, <2>4, <2>6, FreeKeeps DEF Seen
    <3> QED BY <1>a, <2>2, <2>6, <3>1
  <2> QED BY <2>5, <2>6
<1>11. ASSUME UNCHANGED vars PROVE NoPageLost'
  <2>1. CASE Removing
    BY <1>11, <1>c, <2>1 DEF Removing, vars, threadVars
  <2>2. CASE ~Removing
    BY <1>11, <1>a, <1>b, <2>2 DEF vars, listVars, regionVars, threadVars
  <2> QED BY <2>1, <2>2
<1> QED
  BY <1>2, <1>3, <1>4, <1>5, <1>6, <1>7, <1>8, <1>9, <1>10, <1>11
  DEF Next, Migrate, AllocateChunk, RemoveChunks

(***************************************************************************)
(* No device page leaks: outside a removal each page of a mapped chunk is  *)
(* on the list or has an owner, once the chunk's pages are pushed.         *)
(***************************************************************************)
THEOREM NoPageIsLost ==
    ASSUME ~Concurrent
    PROVE  Spec => []NoPageLost
<1>1. Init => NoPageLost
  BY DEF Init, NoPageLost
<1>2. PoolInv /\ NoPageLost /\ [Next]_vars => NoPageLost'
  BY LostStep
<1> QED BY <1>1, <1>2, PoolInvariant, PTL DEF Spec

-----------------------------------------------------------------------------
(***************************************************************************)
(* The counters.  A release that overlaps migrations can put a page on the *)
(* list twice, so pages are not what calloc and cfree count: what they     *)
(* count are the places a page can be in.  Every pop makes one such place  *)
(* and is counted; a push back ends one.  So the counters cover the pages  *)
(* that are out in BOTH regimes, whatever else an overlap breaks.          *)
(***************************************************************************)
PlaceKind == {"hand", "batch", "resident"}

Place ==
    {s \in PlaceKind \X Thread \X Page :
        \/ s[1] = "hand" /\ dpage[s[2]] = s[3]
        \/ s[1] = "batch" /\ s[3] \in batch[s[2]]
        \/ s[1] = "resident" /\ s[2] = Loader /\ s[3] \in resident}

CounterInv == IsFiniteSet(Place) /\ calloc >= cfree + Cardinality(Place)

(***************************************************************************)
(* There are at least as many places as pages that are out.                *)
(***************************************************************************)
LEMMA PlacesCoverPages ==
    ASSUME TypeOK, CounterInv
    PROVE  CountersCoverOutstanding
<1> DEFINE Out == InHand \cup InUse
           f == [s \in Place |-> s[3]]
<1>1. \A s \in Place : s[3] \in Out
  <2> SUFFICES ASSUME NEW s \in Place  PROVE s[3] \in Out
    OBVIOUS
  <2>1. s[2] \in Thread /\ s[3] \in Page
    BY DEF Place
  <2>2. CASE s[1] = "hand" /\ dpage[s[2]] = s[3]
    BY <2>1, <2>2, PoolAssumption DEF InHand, Page
  <2>3. CASE s[1] # "hand"
    BY <2>1, <2>3 DEF InUse, Place
  <2> QED BY <2>2, <2>3 DEF Place
<1>2. \A p \in Out : \E s \in Place : s[3] = p
  <2>1. ASSUME NEW t \in Thread, dpage[t] # NoPage  PROVE \E s \in Place : s[3] = dpage[t]
    <3>1. <<"hand", t, dpage[t]>> \in Place
      BY <2>1 DEF Place, PlaceKind, TypeOK
    <3> QED BY <3>1
  <2>2. ASSUME NEW t \in Thread, NEW p \in batch[t]  PROVE \E s \in Place : s[3] = p
    <3>1. <<"batch", t, p>> \in Place
      BY <2>2 DEF Place, PlaceKind, TypeOK
    <3> QED BY <3>1
  <2>3. ASSUME NEW p \in resident  PROVE \E s \in Place : s[3] = p
    <3>1. <<"resident", Loader, p>> \in Place
      BY <2>3, PoolAssumption DEF Place, PlaceKind, TypeOK
    <3> QED BY <3>1
  <2> QED BY <2>1, <2>2, <2>3 DEF InHand, InUse
<1> HIDE DEF Out
<1>3. f \in Surjection(Place, Out)
  BY <1>1, <1>2 DEF Surjection
<1> HIDE DEF f
<1>4. Cardinality(Out) <= Cardinality(Place) /\ IsFiniteSet(Out)
  BY <1>3, FS_Surjection DEF CounterInv
<1>5. Cardinality(Out) \in Nat /\ Cardinality(Place) \in Nat
  BY <1>4, FS_CardinalityType DEF CounterInv
<1>6. calloc \in Nat /\ cfree \in Nat
  BY DEF TypeOK
<1>7. calloc >= cfree + Cardinality(Out)
  BY <1>4, <1>5, <1>6 DEF CounterInv
<1> QED BY <1>7 DEF CountersCoverOutstanding, Out

(***************************************************************************)
(* The four ways a step may change the places and the counters.            *)
(***************************************************************************)
LEMMA PlaceChange ==
    ASSUME TypeOK, CounterInv
    PROVE  /\ Place' \subseteq Place /\ UNCHANGED <<calloc, cfree>> => CounterInv'
           /\ \A x : Place' \subseteq Place \cup {x} /\ calloc' = calloc + 1 /\ cfree' = cfree => CounterInv'
           /\ \A x : \A y \in Place :
                Place' \subseteq (Place \ {y}) \cup {x} /\ UNCHANGED <<calloc, cfree>> => CounterInv'
           /\ \A y \in Place :
                Place' \subseteq Place \ {y} /\ calloc' = calloc /\ cfree' \in {cfree, cfree + 1} => CounterInv'
<1> DEFINE n == Cardinality(Place)
<1>1. n \in Nat /\ calloc \in Nat /\ cfree \in Nat /\ calloc >= cfree + n /\ IsFiniteSet(Place)
  BY FS_CardinalityType DEF TypeOK, CounterInv
<1>2. ASSUME NEW S, IsFiniteSet(S), Place' \subseteq S
      PROVE  /\ IsFiniteSet(Place') /\ Cardinality(Place') \in Nat
             /\ Cardinality(Place') <= Cardinality(S) /\ Cardinality(S) \in Nat
  BY <1>2, FS_Subset, FS_CardinalityType
<1>3. \A x : IsFiniteSet(Place \cup {x}) /\ Cardinality(Place \cup {x}) <= n + 1
  <2> SUFFICES ASSUME NEW x
               PROVE  IsFiniteSet(Place \cup {x}) /\ Cardinality(Place \cup {x}) <= n + 1
    OBVIOUS
  <2>1. /\ IsFiniteSet(Place \cup {x})
        /\ Cardinality(Place \cup {x}) = IF x \in Place THEN n ELSE n + 1
    BY <1>1, FS_AddElement
  <2> QED BY <1>1, <2>1
<1>4. \A y \in Place : IsFiniteSet(Place \ {y}) /\ Cardinality(Place \ {y}) = n - 1
  BY <1>1, FS_RemoveElement
<1>5. \A x : \A y \in Place : /\ IsFiniteSet((Place \ {y}) \cup {x})
                             /\ Cardinality((Place \ {y}) \cup {x}) <= n
  <2> SUFFICES ASSUME NEW x, NEW y \in Place
               PROVE  IsFiniteSet((Place \ {y}) \cup {x}) /\ Cardinality((Place \ {y}) \cup {x}) <= n
    OBVIOUS
  <2>1. IsFiniteSet(Place \ {y}) /\ Cardinality(Place \ {y}) = n - 1
    BY <1>4
  <2> QED BY <1>1, <2>1, FS_AddElement
<1> HIDE DEF n
<1>6. ASSUME Place' \subseteq Place, UNCHANGED <<calloc, cfree>>  PROVE CounterInv'
  BY <1>1, <1>2, <1>6 DEF CounterInv, n
<1>7. ASSUME NEW x, Place' \subseteq Place \cup {x}, calloc' = calloc + 1, cfree' = cfree  PROVE CounterInv'
  <2>1. Cardinality(Place') \in Nat /\ Cardinality(Place') <= n + 1 /\ IsFiniteSet(Place')
    <3>1. IsFiniteSet(Place \cup {x}) /\ Cardinality(Place \cup {x}) <= n + 1
      BY <1>3
    <3>2. /\ IsFiniteSet(Place') /\ Cardinality(Place') \in Nat
          /\ Cardinality(Place') <= Cardinality(Place \cup {x}) /\ Cardinality(Place \cup {x}) \in Nat
      BY <1>2, <1>7, <3>1
    <3> QED BY <1>1, <3>1, <3>2
  <2> QED BY <1>1, <1>7, <2>1 DEF CounterInv
<1>8. ASSUME NEW x, NEW y \in Place, Place' \subseteq (Place \ {y}) \cup {x}, UNCHANGED <<calloc, cfree>>
      PROVE  CounterInv'
  <2>1. Cardinality(Place') \in Nat /\ Cardinality(Place') <= n /\ IsFiniteSet(Place')
    <3> DEFINE S == (Place \ {y}) \cup {x}
    <3>1. IsFiniteSet(S) /\ Cardinality(S) <= n /\ Place' \subseteq S
      BY <1>5, <1>8
    <3> HIDE DEF S
    <3>2. /\ IsFiniteSet(Place') /\ Cardinality(Place') \in Nat
          /\ Cardinality(Place') <= Cardinality(S) /\ Cardinality(S) \in Nat
      BY <1>2, <3>1
    <3> QED BY <1>1, <3>1, <3>2
  <2> QED BY <1>1, <1>8, <2>1 DEF CounterInv
<1>9. ASSUME NEW y \in Place, Place' \subseteq Place \ {y}, calloc' = calloc, cfree' \in {cfree, cfree + 1}
      PROVE  CounterInv'
  <2>1. Cardinality(Place') \in Nat /\ Cardinality(Place') <= n - 1 /\ IsFiniteSet(Place')
    BY <1>1, <1>2, <1>4, <1>9
  <2> QED BY <1>1, <1>9, <2>1 DEF CounterInv
<1> QED BY <1>6, <1>7, <1>8, <1>9, Zenon

(***************************************************************************)
(* Every step keeps the counters above the number of places.               *)
(***************************************************************************)
LEMMA CounterStep ==
    ASSUME TypeInv, CounterInv, [Next]_vars
    PROVE  CounterInv'
<1>0. TypeOK
  BY DEF TypeInv
<1> NoPage \notin Page
  BY PoolAssumption DEF Page
<1>a. ASSUME UNCHANGED <<dpage, batch, calloc, cfree>>, resident' \subseteq resident  PROVE CounterInv'
  <2>1. Place' \subseteq Place
    BY <1>a DEF Place
  <2> QED BY <1>a, <2>1, <1>0, PlaceChange
<1>b. ASSUME NEW t \in Thread, NEW h \in Page, dpage' = [dpage EXCEPT ![t] = h],
             UNCHANGED <<batch, resident, cfree>>, calloc' = calloc + 1
      PROVE  CounterInv'
  <2>1. Place' \subseteq Place \cup {<<"hand", t, h>>}
    <3> SUFFICES ASSUME NEW s \in Place'  PROVE s \in Place \/ s = <<"hand", t, h>>
      OBVIOUS
    <3>1. s \in PlaceKind \X Thread \X Page
      BY DEF Place
    <3>2. CASE s[1] = "hand" /\ s[2] = t
      <4>1. s[3] = h
        BY <1>b, <3>2, <1>0 DEF Place, TypeOK
      <4> QED BY <3>1, <3>2, <4>1
    <3>3. CASE ~(s[1] = "hand" /\ s[2] = t)
      BY <1>b, <3>1, <3>3, <1>0 DEF Place, TypeOK
    <3> QED BY <3>2, <3>3
  <2> QED BY <1>b, <2>1, <1>0, PlaceChange
<1>1. ASSUME NEW t \in Thread,
             \/ MigrateStart(t) \/ AllocStart(t) \/ ListEmpty(t) \/ AllocDone(t) \/ FinalizeDone(t)
             \/ ReserveFails(t) \/ Reserve(t) \/ ChunkLock(t) \/ RegisterFails(t) \/ Register(t)
             \/ ReleaseStart(t) \/ MarkChunk(t) \/ dmirror_device_evict_chunk(t) \/ UnmapChunk(t)
             \/ RemoveDone(t)
      PROVE  CounterInv'
  <2>1. UNCHANGED <<dpage, batch, calloc, cfree>>
    BY <1>1 DEF MigrateStart, AllocStart, ListEmpty, AllocDone, FinalizeDone, ReserveFails, Reserve,
                ChunkLock, RegisterFails, Register, ReleaseStart, MarkChunk, dmirror_device_evict_chunk,
                UnmapChunk, RemoveDone, listVars
  <2>2. resident' \subseteq resident
    BY <1>1 DEF MigrateStart, AllocStart, ListEmpty, AllocDone, FinalizeDone, ReserveFails, Reserve,
                ChunkLock, RegisterFails, Register, ReleaseStart, MarkChunk, dmirror_device_evict_chunk,
                UnmapChunk, RemoveDone
  <2> QED BY <1>a, <2>1, <2>2
<1>2. ASSUME NEW t \in Thread, PopFree(t) PROVE CounterInv'
  <2>1. Head(free_pages) \in Page
    BY <1>2, <1>0, PopLemma DEF PopFree, TypeOK
  <2> QED BY <1>2, <1>b, <2>1 DEF PopFree
<1>3. ASSUME NEW t \in Thread, PushChunk(t) PROVE CounterInv'
  <2> DEFINE list == Stacked(devmem[t]) \o free_pages
  <2>1. devmem[t] \in Chunk
    BY <1>3 DEF PushChunk, TypeInv, PlaceOK
  <2>2. Head(list) \in Page
    BY <2>1, <1>0, StackedListType
  <2>3. /\ \/ dpage' = [dpage EXCEPT ![t] = Head(list)] /\ calloc' = calloc + 1
           \/ UNCHANGED <<dpage, calloc>>
        /\ UNCHANGED <<batch, resident, cfree>>
    BY <1>3 DEF PushChunk
  <2> HIDE DEF list
  <2> QED BY <1>a, <1>b, <2>2, <2>3
<1>4. ASSUME NEW t \in Thread, PageInit(t) PROVE CounterInv'
  <2> DEFINE p == dpage[t]
             y == <<"hand", t, p>>
             x == <<"batch", t, p>>
  <2>1. p \in Page
    BY <1>4 DEF PageInit, TypeInv, PlaceOK
  <2>2. /\ dpage' = [dpage EXCEPT ![t] = NoPage] /\ batch' = [batch EXCEPT ![t] = @ \cup {p}]
        /\ UNCHANGED <<resident, calloc, cfree>>
    BY <1>4 DEF PageInit, listVars
  <2>3. y \in Place
    BY <2>1 DEF Place, PlaceKind
  <2> HIDE DEF p
  <2>4. Place' \subseteq (Place \ {y}) \cup {x}
    <3> SUFFICES ASSUME NEW s \in Place'  PROVE s \in Place \ {y} \/ s = x
      OBVIOUS
    <3>1. s \in PlaceKind \X Thread \X Page
      BY DEF Place
    <3>2. s # y
      BY <2>1, <2>2, <1>0 DEF Place, TypeOK
    <3>3. CASE s[1] = "batch" /\ s[2] = t /\ s[3] = p
      BY <3>1, <3>3
    <3>4. CASE ~(s[1] = "batch" /\ s[2] = t /\ s[3] = p)
      BY <2>2, <3>1, <3>2, <3>4, <1>0 DEF Place, TypeOK
    <3> QED BY <3>3, <3>4
  <2> HIDE DEF x, y
  <2> QED BY <2>2, <2>3, <2>4, <1>0, PlaceChange
<1>5. ASSUME NEW t \in Thread, FinalizePage(t) PROVE CounterInv'
  <2>1. PICK p \in batch[t] :
          /\ batch' = [batch EXCEPT ![t] = @ \ {p}]
          /\ \/ resident' = resident \cup {p} /\ UNCHANGED <<free_pages, cfree>>
             \/ UNCHANGED resident /\ dmirror_devmem_free(p)
    BY <1>5 DEF FinalizePage
  <2>2. UNCHANGED <<dpage, calloc>> /\ p \in Page
    BY <1>5, <1>0 DEF FinalizePage, TypeOK
  <2> DEFINE y == <<"batch", t, p>>
             x == <<"resident", Loader, p>>
  <2>3. y \in Place
    BY <2>2 DEF Place, PlaceKind
  <2>4. y \notin Place'
    BY <2>1, <2>2, <1>0 DEF Place, TypeOK
  <2>5. CASE resident' = resident \cup {p} /\ UNCHANGED <<free_pages, cfree>>
    <3>1. Place' \subseteq (Place \ {y}) \cup {x}
      <4> SUFFICES ASSUME NEW s \in Place'  PROVE s \in Place \ {y} \/ s = x
        OBVIOUS
      <4>1. s \in PlaceKind \X Thread \X Page /\ s # y
        BY <2>4 DEF Place
      <4>2. CASE s[1] = "resident" /\ s[2] = Loader /\ s[3] = p
        BY <4>1, <4>2
      <4>3. CASE ~(s[1] = "resident" /\ s[2] = Loader /\ s[3] = p)
        BY <2>1, <2>2, <2>5, <4>1, <4>3, <1>0 DEF Place, TypeOK
      <4> QED BY <4>2, <4>3
    <3> HIDE DEF x, y
    <3> QED BY <2>2, <2>3, <2>5, <3>1, <1>0, PlaceChange
  <2>6. CASE UNCHANGED resident /\ dmirror_devmem_free(p)
    <3>1. Place' \subseteq Place \ {y}
      <4>1. Place' \subseteq Place
        BY <2>1, <2>2, <2>6, <1>0 DEF Place, TypeOK
      <4> QED BY <2>4, <4>1
    <3>2. cfree' \in {cfree, cfree + 1}
      BY <2>6, Zenon DEF dmirror_devmem_free
    <3> HIDE DEF y
    <3> QED BY <2>2, <2>3, <3>1, <3>2, <1>0, PlaceChange
  <2> QED BY <2>1, <2>5, <2>6
<1>6. ASSUME FreeResident PROVE CounterInv'
  <2>1. PICK p \in resident : resident' = resident \ {p} /\ dmirror_devmem_free(p)
    BY <1>6 DEF FreeResident
  <2>2. UNCHANGED <<dpage, batch, calloc>> /\ p \in Page
    BY <1>6, <1>0 DEF FreeResident, threadVars, TypeOK
  <2> DEFINE y == <<"resident", Loader, p>>
  <2>3. y \in Place
    BY <2>2, PoolAssumption DEF Place, PlaceKind
  <2>4. Place' \subseteq Place \ {y}
    <3>1. y \notin Place'
      BY <2>1 DEF Place
    <3>2. Place' \subseteq Place
      BY <2>1, <2>2 DEF Place
    <3> QED BY <3>1, <3>2
  <2>5. cfree' \in {cfree, cfree + 1}
    BY <2>1, Zenon DEF dmirror_devmem_free
  <2> HIDE DEF y
  <2> QED BY <2>2, <2>3, <2>4, <2>5, <1>0, PlaceChange
<1>7. ASSUME UNCHANGED vars PROVE CounterInv'
  BY <1>7, <1>a DEF vars, listVars, threadVars
<1> QED
  BY <1>1, <1>2, <1>3, <1>4, <1>5, <1>6, <1>7 DEF Next, Migrate, AllocateChunk, RemoveChunks

(***************************************************************************)
(* calloc - cfree never falls below the number of device pages that are    *)
(* out, with or without releases that overlap migrations.                  *)
(***************************************************************************)
THEOREM CountersCover == Spec => []CountersCoverOutstanding
<1>1. ASSUME Init PROVE TypeInv /\ CounterInv
  <2>1. Place = {}
    BY <1>1, PoolAssumption DEF Init, Place, Page
  <2>2. TypeInv
    BY <1>1, TableInit
  <2> QED BY <1>1, <2>1, <2>2, FS_EmptySet DEF Init, CounterInv
<1>2. TypeInv /\ CounterInv /\ [Next]_vars => TypeInv' /\ CounterInv'
  BY TypeStep, CounterStep
<1>3. TypeInv /\ CounterInv => CountersCoverOutstanding
  BY PlacesCoverPages DEF TypeInv
<1> QED BY <1>1, <1>2, <1>3, PTL DEF Spec
=============================================================================
