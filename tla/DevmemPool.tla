----------------------------- MODULE DevmemPool -----------------------------
(***************************************************************************)
(* The device-memory allocator of one dmirror_device (hmm.c).              *)
(*                                                                         *)
(* Device memory comes in chunks: dmirror_allocate_chunk() reserves a      *)
(* physical region, maps struct pages for it, records the chunk in the     *)
(* table devmem_chunks and pushes its pages on the list free_pages.        *)
(* Migrating threads pop pages from that list, dmirror_devmem_free()       *)
(* pushes a page back when its last reference goes, and                    *)
(* dmirror_device_remove_chunks() takes the whole pool down again.         *)
(*                                                                         *)
(* Two locks are involved: the mutex devmem_lock protects the table, the   *)
(* spinlock `lock' protects free_pages, calloc and cfree.  A section under *)
(* the spinlock is one action here; what happens between two sections is   *)
(* open to every other thread.                                             *)
(***************************************************************************)
EXTENDS Integers, Sequences, FiniteSets

CONSTANTS
    Thread,      \* the threads that run ioctls
    Loader,      \* the thread that runs dmirror_device_init()
    Chunk,       \* the physical regions a chunk can be placed in
    ChunkSize,   \* pages per chunk (DEVMEM_CHUNK_SIZE >> PAGE_SHIFT)
    DEVMEM_CHUNKS_RESERVE,
    MaxBatch,    \* pages one migration asks for (at most 64 in the code)
    MaxCalloc,   \* bound on calloc, so that TLC's state space is finite
    Concurrent,  \* may a release overlap migrations to the device?
    Nobody,      \* no thread: a mutex that is free
    NoChunk,
    NoPage

ASSUME PoolAssumption ==
    /\ Loader \in Thread
    /\ ChunkSize \in Nat \ {0}
    /\ DEVMEM_CHUNKS_RESERVE \in Nat \ {0}
    /\ MaxBatch \in Nat
    /\ MaxCalloc \in Nat
    /\ Concurrent \in BOOLEAN
    /\ Nobody \notin Thread
    /\ NoChunk \notin Chunk
    /\ NoPage \notin Chunk \X (1..ChunkSize)

VARIABLES
    devmem_chunks,    \* the chunk table; its length is devmem_count
    devmem_capacity,  \* allocated slots of the table; 0 iff it is NULL
    devmem_lock,      \* the thread that holds the mutex
    free_pages,       \* the list headed by mdevice->free_pages
    calloc,           \* pages handed out so far
    cfree,            \* pages given back to the list so far
    reserved,         \* regions taken by request_free_mem_region()
    live,             \* chunks between memremap_pages() and memunmap_pages()
    remove,           \* chunk->remove
    resident,         \* device pages that a process has mapped
    pc,               \* where a thread is
    ppage,            \* does its dmirror_allocate_chunk() want a page?
    devmem,           \* the chunk a thread is setting up
    dpage,            \* the page a thread popped and has not initialised
    batch,            \* initialised, locked pages a migration still holds
    next              \* i, the table index dmirror_device_remove_chunks is at

tableVars == <<devmem_chunks, devmem_capacity, devmem_lock>>
listVars == <<free_pages, calloc, cfree>>
regionVars == <<reserved, live, remove>>
threadVars == <<pc, ppage, devmem, dpage, batch>>
vars == <<tableVars, listVars, regionVars, resident, threadVars, next>>

(***************************************************************************)
(* A page is named by its chunk and its offset in it.                      *)
(***************************************************************************)
Page == Chunk \X (1..ChunkSize)

dmirror_page_to_chunk(page) == page[1]

PagesOf(c) == {<<c, i>> : i \in 1..ChunkSize}

Elems(s) == {s[i] : i \in 1..Len(s)}

Distinct(s) == \A i, j \in 1..Len(s) : s[i] = s[j] => i = j

FreeSet == Elems(free_pages)

InHand == {dpage[t] : t \in Thread} \ {NoPage}

(***************************************************************************)
(* Pages with a reference: zone_device_page_init() ran for them and        *)
(* dmirror_devmem_free() has not been called since.                        *)
(***************************************************************************)
InUse == resident \cup UNION {batch[t] : t \in Thread}

RemoverPC == {"mark", "evict", "unmap"}

AllocPC == {"loop", "pop", "reserve", "lock", "register", "push", "init", "finalize"}

Removing == \E t \in Thread : pc[t] \in RemoverPC

Allocating == \E t \in Thread : pc[t] \in AllocPC

Init ==
    /\ devmem_chunks = <<>>
    /\ devmem_capacity = 0
    /\ devmem_lock = Nobody
    /\ free_pages = <<>>
    /\ calloc = 0
    /\ cfree = 0
    /\ reserved = {}
    /\ live = {}
    /\ remove = [c \in Chunk |-> FALSE]
    /\ resident = {}
    \* dmirror_device_init() ends with dmirror_allocate_chunk(mdevice, NULL)
    /\ pc = [t \in Thread |-> IF t = Loader THEN "reserve" ELSE "idle"]
    /\ ppage = [t \in Thread |-> t # Loader]
    /\ devmem = [t \in Thread |-> NoChunk]
    /\ dpage = [t \in Thread |-> NoPage]
    /\ batch = [t \in Thread |-> {}]
    /\ next = 1

-----------------------------------------------------------------------------
(***************************************************************************)
(* A migration to the device, dmirror_migrate_alloc_and_copy(): a loop     *)
(* that allocates one device page per source page.  A page the loop cannot *)
(* get is skipped, so a migration may end up with fewer than it asked for. *)
(***************************************************************************)
MigrateStart(t) ==
    /\ pc[t] = "idle"
    /\ Concurrent \/ ~Removing
    /\ pc' = [pc EXCEPT ![t] = "loop"]
    /\ UNCHANGED <<tableVars, listVars, regionVars, resident, ppage, devmem, dpage, batch, next>>

(***************************************************************************)
(* dmirror_devmem_alloc_page() got its backing page; when alloc_page()     *)
(* fails it returns NULL and nothing changes.                              *)
(***************************************************************************)
AllocStart(t) ==
    /\ pc[t] = "loop"
    /\ Cardinality(batch[t]) < MaxBatch
    /\ calloc < MaxCalloc
    /\ pc' = [pc EXCEPT ![t] = "pop"]
    /\ ppage' = [ppage EXCEPT ![t] = TRUE]
    /\ UNCHANGED <<tableVars, listVars, regionVars, resident, devmem, dpage, batch, next>>

\* Mutant of PopFree: the head of the list is not advanced.
PopFreeKeepsHead(t) ==
    /\ pc[t] = "pop"
    /\ free_pages # <<>>
    /\ dpage' = [dpage EXCEPT ![t] = Head(free_pages)]
    /\ calloc' = calloc + 1
    /\ pc' = [pc EXCEPT ![t] = "init"]
    /\ UNCHANGED <<tableVars, free_pages, cfree, regionVars, resident, ppage, devmem, batch, next>>

\* Mutant of PopFree: the page is not counted.
PopFreeUncounted(t) ==
    /\ pc[t] = "pop"
    /\ free_pages # <<>>
    /\ dpage' = [dpage EXCEPT ![t] = Head(free_pages)]
    /\ free_pages' = Tail(free_pages)
    /\ pc' = [pc EXCEPT ![t] = "init"]
    /\ UNCHANGED <<tableVars, calloc, cfree, regionVars, resident, ppage, devmem, batch, next>>

PopFree(t) ==
    /\ pc[t] = "pop"
    /\ free_pages # <<>>
    /\ dpage' = [dpage EXCEPT ![t] = Head(free_pages)]
    /\ free_pages' = Tail(free_pages)
    /\ calloc' = calloc + 1
    /\ pc' = [pc EXCEPT ![t] = "init"]
    /\ UNCHANGED <<tableVars, cfree, regionVars, resident, ppage, devmem, batch, next>>

ListEmpty(t) ==
    /\ pc[t] = "pop"
    /\ free_pages = <<>>
    /\ pc' = [pc EXCEPT ![t] = "reserve"]
    /\ UNCHANGED <<tableVars, listVars, regionVars, resident, ppage, devmem, dpage, batch, next>>

\* Mutant of PageInit: the page is recorded after the pointer to it is cleared.
PageInitSwapped(t) ==
    /\ pc[t] = "init"
    /\ dpage' = [dpage EXCEPT ![t] = NoPage]
    /\ batch' = [batch EXCEPT ![t] = @ \cup {dpage'[t]}]
    /\ pc' = [pc EXCEPT ![t] = "loop"]
    /\ UNCHANGED <<tableVars, listVars, regionVars, resident, ppage, devmem, next>>

(***************************************************************************)
(* zone_device_page_init() takes the page's reference and its lock; the    *)
(* page then belongs to the migration until migrate_vma_finalize().        *)
(***************************************************************************)
PageInit(t) ==
    /\ pc[t] = "init"
    /\ batch' = [batch EXCEPT ![t] = @ \cup {dpage[t]}]
    /\ dpage' = [dpage EXCEPT ![t] = NoPage]
    /\ pc' = [pc EXCEPT ![t] = "loop"]
    /\ UNCHANGED <<tableVars, listVars, regionVars, resident, ppage, devmem, next>>

AllocDone(t) ==
    /\ pc[t] = "loop"
    /\ pc' = [pc EXCEPT ![t] = "finalize"]
    /\ UNCHANGED <<tableVars, listVars, regionVars, resident, ppage, devmem, dpage, batch, next>>

\* Mutant of dmirror_devmem_free: the page is not linked to the old list.
FreeUnlinked(p) ==
    LET c == dmirror_page_to_chunk(p) IN
    \/ remove[c] /\ UNCHANGED <<free_pages, cfree>>
    \/ ~remove[c] /\ free_pages' = <<p>> /\ cfree' = cfree + 1

(***************************************************************************)
(* dmirror_devmem_free(): the page returns to the list unless its chunk is *)
(* being removed.  If the chunk is already gone, chunk->remove is read     *)
(* from freed memory and either branch may be taken.                       *)
(***************************************************************************)
dmirror_devmem_free(p) ==
    LET c == dmirror_page_to_chunk(p) IN
    \/ /\ remove[c] \/ c \notin live
       /\ UNCHANGED <<free_pages, cfree>>
    \/ /\ ~remove[c]
       /\ free_pages' = <<p>> \o free_pages
       /\ cfree' = cfree + 1

(***************************************************************************)
(* migrate_vma_pages() and migrate_vma_finalize(), page by page: the page  *)
(* is now mapped by the process, or the migration of it failed and its     *)
(* only reference is dropped.                                              *)
(***************************************************************************)
FinalizePage(t) ==
    /\ pc[t] = "finalize"
    /\ \E p \in batch[t] :
         /\ batch' = [batch EXCEPT ![t] = @ \ {p}]
         /\ \/ /\ resident' = resident \cup {p}
               /\ UNCHANGED <<free_pages, cfree>>
            \/ /\ UNCHANGED resident
               /\ dmirror_devmem_free(p)
    /\ UNCHANGED <<tableVars, calloc, regionVars, pc, ppage, devmem, dpage, next>>

FinalizeDone(t) ==
    /\ pc[t] = "finalize"
    /\ batch[t] = {}
    /\ pc' = [pc EXCEPT ![t] = "idle"]
    /\ UNCHANGED <<tableVars, listVars, regionVars, resident, ppage, devmem, dpage, batch, next>>

(***************************************************************************)
(* A process gives a device page up (CPU fault that migrates it back,      *)
(* munmap, exit).                                                          *)
(***************************************************************************)
FreeResident ==
    /\ \E p \in resident : resident' = resident \ {p} /\ dmirror_devmem_free(p)
    /\ UNCHANGED <<tableVars, calloc, regionVars, threadVars, next>>

-----------------------------------------------------------------------------
(***************************************************************************)
(* dmirror_allocate_chunk().                                               *)
(***************************************************************************)
AfterChunk(t, got) ==
    IF ~ppage[t] THEN "idle" ELSE IF got THEN "init" ELSE "loop"

ReserveFails(t) ==
    /\ pc[t] = "reserve"
    /\ pc' = [pc EXCEPT ![t] = AfterChunk(t, FALSE)]
    /\ UNCHANGED <<tableVars, listVars, regionVars, resident, ppage, devmem, dpage, batch, next>>

Reserve(t) ==
    /\ pc[t] = "reserve"
    /\ \E c \in Chunk \ reserved :
         /\ devmem' = [devmem EXCEPT ![t] = c]
         /\ reserved' = reserved \cup {c}
    /\ pc' = [pc EXCEPT ![t] = "lock"]
    /\ UNCHANGED <<tableVars, listVars, live, remove, resident, ppage, dpage, batch, next>>

ChunkLock(t) ==
    /\ pc[t] = "lock"
    /\ devmem_lock = Nobody
    /\ devmem_lock' = t
    /\ pc' = [pc EXCEPT ![t] = "register"]
    /\ UNCHANGED <<devmem_chunks, devmem_capacity, listVars, regionVars, resident,
                   ppage, devmem, dpage, batch, next>>

TableFull == Len(devmem_chunks) = devmem_capacity

\* Mutant of GrownCapacity: the table grows when it is one past full.
GrownCapacityLate ==
    IF Len(devmem_chunks) > devmem_capacity
      THEN devmem_capacity + DEVMEM_CHUNKS_RESERVE ELSE devmem_capacity

GrownCapacity ==
    IF TableFull THEN devmem_capacity + DEVMEM_CHUNKS_RESERVE ELSE devmem_capacity

(***************************************************************************)
(* The err_release path: krealloc() of a full table failed (the capacity   *)
(* is what it was), or memremap_pages() failed (the grown table is kept).  *)
(***************************************************************************)
RegisterFails(t) ==
    /\ pc[t] = "register"
    /\ \/ TableFull /\ UNCHANGED devmem_capacity
       \/ devmem_capacity' = GrownCapacity
    /\ devmem_lock' = Nobody
    /\ reserved' = reserved \ {devmem[t]}
    /\ devmem' = [devmem EXCEPT ![t] = NoChunk]
    /\ pc' = [pc EXCEPT ![t] = AfterChunk(t, FALSE)]
    /\ UNCHANGED <<devmem_chunks, listVars, live, remove, resident, ppage, dpage, batch, next>>

Register(t) ==
    /\ pc[t] = "register"
    /\ devmem_capacity' = GrownCapacity
    /\ live' = live \cup {devmem[t]}
    /\ devmem_chunks' = Append(devmem_chunks, devmem[t])
    /\ devmem_lock' = Nobody
    /\ pc' = [pc EXCEPT ![t] = "push"]
    /\ UNCHANGED <<listVars, reserved, remove, resident, ppage, devmem, dpage, batch, next>>

(***************************************************************************)
(* The section under the spinlock: the pages are pushed in ascending pfn   *)
(* order, so the last one is the head of the list; the caller's page, if   *)
(* it wants one, is that head.                                             *)
(***************************************************************************)
Stacked(c) == [i \in 1..ChunkSize |-> <<c, ChunkSize + 1 - i>>]

PushChunk(t) ==
    /\ pc[t] = "push"
    /\ LET list == Stacked(devmem[t]) \o free_pages IN
         IF ppage[t]
           THEN /\ dpage' = [dpage EXCEPT ![t] = Head(list)]
                /\ free_pages' = Tail(list)
                /\ calloc' = calloc + 1
           ELSE /\ free_pages' = list
                /\ UNCHANGED <<dpage, calloc>>
    /\ devmem' = [devmem EXCEPT ![t] = NoChunk]
    /\ pc' = [pc EXCEPT ![t] = AfterChunk(t, TRUE)]
    /\ UNCHANGED <<tableVars, cfree, regionVars, resident, ppage, batch, next>>

-----------------------------------------------------------------------------
(***************************************************************************)
(* dmirror_device_remove_chunks(): the HMM_DMIRROR_RELEASE ioctl and the   *)
(* module's exit.  Without Concurrent the release starts when no migration *)
(* to the device is under way, which is what module exit guarantees (no    *)
(* file of the device is open then).  The ioctl itself guarantees nothing. *)
(***************************************************************************)
ReleaseStart(t) ==
    /\ pc[t] = "idle"
    /\ Concurrent \/ ~Allocating
    /\ devmem_lock = Nobody
    /\ devmem_capacity # 0      \* else the table is NULL: unlock and return
    /\ devmem_lock' = t
    /\ next' = 1
    /\ pc' = [pc EXCEPT ![t] = "mark"]
    /\ UNCHANGED <<devmem_chunks, devmem_capacity, listVars, regionVars, resident,
                   ppage, devmem, dpage, batch>>

\* Mutant of dmirror_remove_free_pages: the loop stops at the first page it meets.
RemoveFirstFreePage(c) ==
    LET mine == {i \in 1..Len(free_pages) : dmirror_page_to_chunk(free_pages[i]) = c}
        first == CHOOSE i \in mine : \A j \in mine : i <= j
    IN  IF mine = {} THEN free_pages
                     ELSE SubSeq(free_pages, first + 1, Len(free_pages))

(***************************************************************************)
(* dmirror_remove_free_pages() moves the head of the list to the successor *)
(* of every page of the chunk it meets: what remains is what follows the   *)
(* LAST of them.  Pages of other chunks in front of it are dropped too.    *)
(***************************************************************************)
dmirror_remove_free_pages(c) ==
    LET mine == {i \in 1..Len(free_pages) : dmirror_page_to_chunk(free_pages[i]) = c}
        last == CHOOSE i \in mine : \A j \in mine : j <= i
    IN  IF mine = {} THEN free_pages
                     ELSE SubSeq(free_pages, last + 1, Len(free_pages))

MarkChunk(t) ==
    /\ pc[t] = "mark"
    /\ next <= Len(devmem_chunks)
    /\ remove' = [remove EXCEPT ![devmem_chunks[next]] = TRUE]
    /\ free_pages' = dmirror_remove_free_pages(devmem_chunks[next])
    /\ pc' = [pc EXCEPT ![t] = "evict"]
    /\ UNCHANGED <<tableVars, calloc, cfree, reserved, live, resident,
                   ppage, devmem, dpage, batch, next>>

(***************************************************************************)
(* dmirror_device_evict_chunk() migrates the chunk's resident pages back   *)
(* to system memory.  It tries each page once: a page that is locked or    *)
(* has a second reference at that moment stays where it is.                *)
(***************************************************************************)
dmirror_device_evict_chunk(t) ==
    /\ pc[t] = "evict"
    /\ \E S \in SUBSET (resident \cap PagesOf(devmem_chunks[next])) :
         resident' = resident \ S
    /\ pc' = [pc EXCEPT ![t] = "unmap"]
    /\ UNCHANGED <<tableVars, listVars, regionVars, ppage, devmem, dpage, batch, next>>

\* Mutant of UnmapChunk: it does not wait for the pages' references.
UnmapChunkNoWait(t) ==
    LET c == devmem_chunks[next] IN
    /\ pc[t] = "unmap"
    /\ live' = live \ {c}
    /\ reserved' = reserved \ {c}
    /\ remove' = [remove EXCEPT ![c] = FALSE]
    /\ next' = next + 1
    /\ pc' = [pc EXCEPT ![t] = "mark"]
    /\ UNCHANGED <<tableVars, listVars, resident, ppage, devmem, dpage, batch>>

\* Mutant of UnmapChunk: the loop's i++ is missing.
UnmapChunkStuck(t) ==
    LET c == devmem_chunks[next] IN
    /\ pc[t] = "unmap"
    /\ InUse \cap PagesOf(c) = {}
    /\ live' = live \ {c}
    /\ reserved' = reserved \ {c}
    /\ remove' = [remove EXCEPT ![c] = FALSE]
    /\ pc' = [pc EXCEPT ![t] = "mark"]
    /\ UNCHANGED <<tableVars, listVars, resident, ppage, devmem, dpage, batch, next>>

\* Mutant of UnmapChunk: it also waits for the chunk's pages to leave the list.
UnmapChunkWaitsForList(t) ==
    LET c == devmem_chunks[next] IN
    /\ pc[t] = "unmap"
    /\ (InUse \cup FreeSet) \cap PagesOf(c) = {}
    /\ live' = live \ {c}
    /\ reserved' = reserved \ {c}
    /\ remove' = [remove EXCEPT ![c] = FALSE]
    /\ next' = next + 1
    /\ pc' = [pc EXCEPT ![t] = "mark"]
    /\ UNCHANGED <<tableVars, listVars, resident, ppage, devmem, dpage, batch>>

(***************************************************************************)
(* memunmap_pages() waits for the references of the chunk's pages, then    *)
(* the region and the chunk are freed.                                     *)
(***************************************************************************)
UnmapChunk(t) ==
    LET c == devmem_chunks[next] IN
    /\ pc[t] = "unmap"
    /\ InUse \cap PagesOf(c) = {}
    /\ live' = live \ {c}
    /\ reserved' = reserved \ {c}
    /\ remove' = [remove EXCEPT ![c] = FALSE]
    /\ next' = next + 1
    /\ pc' = [pc EXCEPT ![t] = "mark"]
    /\ UNCHANGED <<tableVars, listVars, resident, ppage, devmem, dpage, batch>>

(***************************************************************************)
(* The table is dropped and free_pages cleared.  That store is made under  *)
(* devmem_lock but not under the spinlock, so a section that loaded the    *)
(* list before it and stores it afterwards undoes it.                      *)
(***************************************************************************)
InSection == \E t \in Thread : pc[t] \in {"pop", "push"}

RemoveDone(t) ==
    /\ pc[t] = "mark"
    /\ next > Len(devmem_chunks)
    /\ devmem_chunks' = <<>>
    /\ devmem_capacity' = 0
    /\ \/ free_pages' = <<>>
       \/ InSection /\ UNCHANGED free_pages
    /\ devmem_lock' = Nobody
    /\ pc' = [pc EXCEPT ![t] = "idle"]
    /\ UNCHANGED <<calloc, cfree, regionVars, resident, ppage, devmem, dpage, batch, next>>

-----------------------------------------------------------------------------
Migrate(t) ==
    \/ MigrateStart(t) \/ AllocStart(t) \/ PopFree(t) \/ ListEmpty(t)
    \/ PageInit(t) \/ AllocDone(t) \/ FinalizePage(t) \/ FinalizeDone(t)

AllocateChunk(t) ==
    \/ ReserveFails(t) \/ Reserve(t) \/ ChunkLock(t)
    \/ RegisterFails(t) \/ Register(t) \/ PushChunk(t)

RemoveChunks(t) ==
    \/ MarkChunk(t) \/ dmirror_device_evict_chunk(t)
    \/ UnmapChunk(t) \/ RemoveDone(t)

Next ==
    \/ \E t \in Thread : Migrate(t) \/ AllocateChunk(t) \/ ReleaseStart(t) \/ RemoveChunks(t)
    \/ FreeResident

(***************************************************************************)
(* Fairness: a thread that entered the kernel is scheduled until it        *)
(* leaves, the allocation loop is finite (SF: it is left although each of  *)
(* its rounds leaves and re-enters it), and no process keeps a device page *)
(* for ever (it exits in the end).                                         *)
(***************************************************************************)
Running(t) ==
    \/ PopFree(t) \/ ListEmpty(t) \/ PageInit(t) \/ FinalizePage(t) \/ FinalizeDone(t)
    \/ AllocateChunk(t) \/ RemoveChunks(t)

Fairness ==
    /\ \A t \in Thread : WF_vars(Running(t)) /\ SF_vars(AllocDone(t))
    /\ WF_vars(FreeResident)

Spec == Init /\ [][Next]_vars

FairSpec == Spec /\ Fairness

-----------------------------------------------------------------------------
(***************************************************************************)
(* Properties.                                                             *)
(***************************************************************************)

(***************************************************************************)
(* Every variable has its type.                                            *)
(***************************************************************************)
TypeOK ==
    /\ devmem_chunks \in Seq(Chunk)
    /\ devmem_capacity \in Nat
    /\ devmem_lock \in Thread \cup {Nobody}
    /\ free_pages \in Seq(Page)
    /\ calloc \in Nat
    /\ cfree \in Nat
    /\ reserved \subseteq Chunk
    /\ live \subseteq Chunk
    /\ remove \in [Chunk -> BOOLEAN]
    /\ resident \subseteq Page
    /\ pc \in [Thread -> {"idle"} \cup AllocPC \cup RemoverPC]
    /\ ppage \in [Thread -> BOOLEAN]
    /\ devmem \in [Thread -> Chunk \cup {NoChunk}]
    /\ dpage \in [Thread -> Page \cup {NoPage}]
    /\ batch \in [Thread -> SUBSET Page]
    /\ next \in Nat \ {0}

(***************************************************************************)
(* No device page is handed out twice: a page is at most once on the free  *)
(* list, in one thread's hands, in one migration's batch or in a process,  *)
(* and in no two of these places.                                          *)
(***************************************************************************)
SoleOwner ==
    /\ Distinct(free_pages)
    /\ \A s, t \in Thread :
         /\ s # t /\ dpage[s] # NoPage => dpage[s] # dpage[t]
         /\ s # t => batch[s] \cap batch[t] = {}
         /\ dpage[s] \notin batch[t]
    /\ \A t \in Thread : batch[t] \cap resident = {} /\ dpage[t] \notin resident
    /\ FreeSet \cap (InHand \cup InUse) = {}

(***************************************************************************)
(* A page the allocator can reach, has handed out or has seen mapped lies  *)
(* in a chunk whose struct pages exist: nothing outlives memunmap_pages(). *)
(***************************************************************************)
NoDanglingPage ==
    \A p \in FreeSet \cup InHand \cup InUse : dmirror_page_to_chunk(p) \in live

(***************************************************************************)
(* What the comment above dmirror_remove_free_pages() says: a page of a    *)
(* chunk that is being removed is not on the free list and cannot be       *)
(* obtained from it.                                                       *)
(***************************************************************************)
RemovedNotReallocated ==
    \A c \in Chunk : remove[c] => PagesOf(c) \cap (FreeSet \cup InHand) = {}

(***************************************************************************)
(* No device page leaks: outside a removal each page of a chunk whose      *)
(* pages were pushed is free or has an owner.  (A removal drops pages of   *)
(* other chunks from the list, but only until those are removed too.)      *)
(***************************************************************************)
NoPageLost ==
    ~Removing =>
        \A c \in live :
            \/ \E t \in Thread : pc[t] = "push" /\ devmem[t] = c
            \/ PagesOf(c) \subseteq FreeSet \cup InHand \cup InUse

(***************************************************************************)
(* calloc and cfree account for the pages that are out.  The difference    *)
(* may be larger: a page freed while its chunk is removed is not counted.  *)
(***************************************************************************)
CountersCoverOutstanding ==
    calloc >= cfree + Cardinality(InHand \cup InUse)

(***************************************************************************)
(* The chunk table never overruns its allocation, holds no chunk twice,    *)
(* and outside a removal it lists exactly the chunks that are mapped.      *)
(***************************************************************************)
TableSound ==
    /\ Len(devmem_chunks) <= devmem_capacity
    /\ Distinct(devmem_chunks)
    /\ ~Removing => live = Elems(devmem_chunks)

(***************************************************************************)
(* The wait in memunmap_pages() ends: a release that started returns.      *)
(***************************************************************************)
ReleaseCompletes ==
    \A t \in Thread : pc[t] \in RemoverPC ~> pc[t] = "idle"

(***************************************************************************)
(* When a release overlaps migrations it can hang, in one way only: a      *)
(* migration holds a page of the chunk being unmapped and itself waits for *)
(* devmem_lock, which the release holds across memunmap_pages().           *)
(***************************************************************************)
HoldAndWait ==
    \E r, t \in Thread :
        /\ pc[r] = "unmap" /\ devmem_lock = r
        /\ pc[t] = "lock"
        /\ batch[t] \cap PagesOf(devmem_chunks[next]) # {}

ReleaseHangsOnlyOnHeldPage ==
    \A t \in Thread : pc[t] \in RemoverPC ~> (pc[t] = "idle" \/ HoldAndWait)
=============================================================================
