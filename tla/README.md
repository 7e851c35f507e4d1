# A TLA+ model of RSHM-HMM

The repository is a driver for "device" memory on top of Linux HMM (`hmm.c`, a
descendant of the kernel's `test_hmm`), a patched copy of the kernel's page
migration (`mm/migrate_device.c`) that fetches pages from a remote server, and
two messaging layers for that purpose (`mm/nmsg.c` over UDP,
`mm/nmsg_rdma_*.c` over RDMA). This directory holds TLA+ models of its core,
the TLC runs that check them and TLAPS proofs about them.

Two lines of `hmm.c` do not compile as they stand: `hmm.c:765` lacks the
left-hand side of an assignment (the next line shows that `dpage` is meant) and
`hmm.c:134` the name of the spinlock (`lock` everywhere else). They are read as
intended.

## 1. Inventory

| Part | State | Operations | What is hard about it |
|---|---|---|---|
| Device-memory allocator (`hmm.c` 511-642, 1226-1303, 1384-1402) | chunk table `devmem_chunks`/`count`/`capacity` under the mutex `devmem_lock`; free list, `calloc`, `cfree` under a spinlock; `chunk->remove` | allocate a chunk, allocate a page, free a page, remove all chunks | two locks and gaps between their sections; removal waits for page references under the mutex |
| Mirrored address space (`hmm.c` 172-509, 644-1043, 1305-1441) | xarray `pt` of tagged page pointers under `mutex`; the interval notifier's sequence; per command: cursor, bounce buffer, pfn arrays | READ, WRITE, MIGRATE_TO_DEV, MIGRATE_TO_SYS, EXCLUSIVE, CHECK_EXCLUSIVE, invalidation callback, CPU fault on a device page | page numbers are read under one lock and stored under another; entries hold no page reference; partial transfers, partial migrations, failing stores |
| Range snapshot (`hmm.c` 1045-1224) | a notifier of its own per batch | SNAPSHOT | the same read/retry protocol, but told of the device's own migrations too |
| Module and file life cycle (`hmm.c` 172-206, 1448-1518) | two devices, one `dmirror` per open file | init, exit, open, release | a load that fails half-way while files are already open; device pages that outlive the file that migrated them; two files on one process |
| Page migration (`mm/migrate_device.c`) | migration entries, `src`/`dst` arrays | `migrate_vma_setup`, `_pages`, `_finalize`, `migrate_device_range`, `retrieve_page` | best effort per page; callers race for page locks; the remote fetch in the middle, with the pages locked |
| UDP messaging, page store (`mm/nmsg.c`, `mm/mem.c`) | one global client socket, one server thread, page states | send, retrieve, serve, start, stop | lost datagrams, no answer from the server, callers that overwrite each other's socket, double release at stop |
| RDMA messaging (`mm/nmsg_rdma_*.c`) | connection state, queue pair, buffers | resolve, connect, advertise, read, complete, disconnect, stop | callbacks that overwrite each other's state; set-ups that fail at any step; a second client |
| Benchmarks and sample (`hash.c`, `copy.c`, `user.c`) | none | timing loops, `mmap` and print | nothing to check |

How the parts meet: an ioctl thread works on the mirror; a migration to the
device asks the allocator for pages and the migration core for everything else;
the kernel calls back into the mirror (`dmirror_interval_invalidate`,
`dmirror_devmem_fault`) and into the allocator (`dmirror_devmem_free`), from any
thread and at any time. The Makefile builds only `hmm.o`, against the running
kernel; the patched migration and the messaging layers are meant for the kernel
itself.

What makes each part correct:

* allocator: a page has one owner, lies in memory that exists, is not lost, and
  a removal ends and leaves nothing behind;
* mirror: an entry names the page the process has there, with no more rights
  than the process has, and so the device and the CPU share one memory;
  commands end;
* life cycle: a load that fails and an unload leave nothing behind, a mirror is
  not used after its file is closed;
* migration with a remote source: a page whose content could not be fetched is
  never mapped, and every path gives back the locks and references it took;
* messaging: both ends agree on whether they are connected, an error is not
  overwritten by a later success, each buffer is released once.

`PROJECT.json` lists the hazards at their lines, the findings, and which
definition stands for which lines.

## 2. Modules

| Module | Role |
|---|---|
| `DevmemPool` | the allocator of one device: table, list, chunks, migrations' use of pages, removal |
| `DevmemPoolProofs`, `RemoteProofs`, `FilesProofs`, `MirrorProofs` | the theorems about the module of that name |
| `RdmaLinkInv`, `RdmaLinkProofs` | those about `RdmaLink`: its invariant, and the theorems |
| `MirrorShared` | about `Mirror`: that its entries are current, and that it implements `SharedMemory` |
| `SharedMemory` | abstract: one memory shared by CPU and device commands |
| `Mirror` | the mirrored address space of one open file, with the kernel around it; refines `SharedMemory` |
| `RdmaLink` | one RDMA connection: client, server thread, handlers, adapters |
| `Files` | the module, its two devices, open files and processes, and the CPU faults that outlive files |
| `Remote` | migrations of device pages through the patched loop, with `retrieve_page()`, the UDP client and server and the page store |
| `MCDevmemPool`, `MCMirror` | constants for TLC (the other modules need none) |

`DevmemPool` and `Mirror` meet in `dmirror_devmem_alloc_page()`. Each sees the
other as a choice: in `Mirror` a device page is a fresh frame, or none when the
allocator has none; in `DevmemPool` a page that was handed out becomes resident
or comes back. `Files` puts several mirrors, devices and the release of a device's
memory together, with a command of `Mirror` and a removal of `DevmemPool` as one
step each. `Remote` takes apart the eviction that is one step in `DevmemPool`
and `Files`, and does so for the repository's patched migration; the other modules
use the migration of the running kernel, which `hmm.o` is built against and in which
a page can really move. `DevmemPool` proves what `Mirror` assumes of it, that a page handed
out has no other owner (`SoleOwner`).

An operator marked *Mutant* in a module is a deliberately wrong version of the
definition that follows it. No action uses it. Putting it in that definition's
place must violate the property it is listed with in `PROJECT.json`; this shows that
the property can fail.

### DevmemPool

A page is a pair of chunk and offset. `devmem_chunks` is a sequence (its length
is `devmem_count`), `free_pages` the intrusive list as a sequence, `remove` and
`live` the per-chunk flags, `resident` the pages a process has mapped. Per
thread, `pc` says where it is, `devmem` which chunk it is setting up, `dpage`
which page it has popped, `batch` which initialised pages its migration holds.

A section under the spinlock is one action (`PopFree`, `PushChunk`, `MarkChunk`);
so is the section of `dmirror_allocate_chunk()` under the mutex (`Register`,
`RegisterFails`). The mutex is a variable because the release holds it across
many steps. `RemoveDone` models the unprotected store to `free_pages`: when
another thread is in a section on the list, the store may be lost.

`dmirror_remove_free_pages()` is translated as it is written: it moves the head
behind every page of the chunk that it meets, so what remains is what follows
the last of them, and free pages of other chunks in front are dropped. This is
harmless only because a removal takes all chunks; `NoPageLost` is stated for
states outside a removal.

`Concurrent` chooses the regime. FALSE: a release and a migration to the device
do not overlap, which module exit guarantees because no file is open then.
TRUE: the `HMM_DMIRROR_RELEASE` ioctl, which guarantees nothing.

### Mirror

`cpu` is the process's page table, one record per page: kind (`none`, `sys`,
`dev`, a migration entry of either, `excl`), frame, writable. A frame stands for
the memory that holds the data: for a page in device memory that is the backing
page; a mirror entry with `zone` set names the ZONE_DEVICE page itself, which has
no memory. `busy` and `fresh` are the interval notifier's sequence: busy while a
noticed invalidation is active, fresh while no `mmu_interval_set_seq()` happened
since the thread's `read_begin`.

Every function that drops a lock in the middle is split there: load and copy of
one page are two actions under `mutex`; a fault is `ReadBegin`, `MmapReadLock`,
`Walk` per page, then `Commit` or `Retry`; a migration is `Setup`, `Alloc`,
`CopyPages`, `MigratePages`, `MapPages`, `Finalize` per batch. Early returns and
failing calls are actions or disjuncts of their own (`FaultFails`, `SetupFails`,
`ExclusiveShort`, a `stop` page in `Commit`, `MapPages` and `AtomicMap` where
`xa_store()` fails when `StoreFails` allows it).

The kernel is modelled from how the driver uses it: `Populate`, `CpuStore`, and
invalidations in two steps, the callback and the page-table change. `Eligible`
says what each needs: migration by the kernel the page lock, write protection the
mmap lock for writing, and so on. `migrate_vma_pages()` is the running kernel's,
because `hmm.o` is built against it; `migrate_vma_setup()` and `_finalize()` are
the same in the repository's copy.

A snapshot registers a notifier of its own for each batch (`SnapshotInsert`),
reads the page table without faulting anything in, checks the sequence under the
mutex, converts the entries to permissions (`dmirror_mkentry`; `ErrorPfn` is an entry
that could not be read), and removes the notifier again, also when the walk fails or the
time is up (`SnapshotFails`); the removal waits for invalidations under way. `sbusy` is the notifier's
sequence. Unlike the mirror's, it takes note of the device's own migrations
(`OwnInvalidate`), and `SnapshotSound` needs that: the permissions that
`SnapshotCommit` records are those of the page table at that moment. A thread that copies through a ZONE_DEVICE
page dies with the mutex locked (`CopyOops`).

Not in this module: more than one file or device and the end of the mirrored
process (see `Files`), huge pages, coherent device memory (both devices are of
private type).

### RdmaLink

Variables indexed by `Side` are what both ends have: `state` is `cb->state` (the
numbers of `enum nmsg_state`, because the waits compare with `>=`), `pc` the
position of the thread, `ev` the CM events on their way, `qp`, `sq`, `recv` and
`cq` the queue pair, the posted requests, whether a receive is posted, and the
completions. A message is its number, which is also its key: `nmsg_rdma_rkey()`
takes a new key per message (fewer than the 256 at which `key` wraps).

The CQ handler is a process of its own. `arm` says whether its next completion calls
it (`armed`) or a call is due (`event`), `cqh` where it is: outside, in its loop
(`poll`), between the look at the state in `server_recv()` or `client_recv()` and the
assignment (`recv`, with the new state in `decided`), or before `ib_post_recv()`
(`post`). It looks for ERROR when it is called (`CqEnter`) and nowhere else, as lines
124 of the server and 107 of the client do; in that state it returns before
`ib_req_notify_cq()`, and is never called again. So an ERROR that an event sets
afterwards is overwritten by the next completion: READ_COMPLETE at 155, or
RDMA_WRITE_ADV at 106-109. `lost` records every assignment of the server's end that
overwrites an ERROR (`Overwrites`).

`nmsg_start_client()` is three steps: `SendStart`, `MakeMessage`, `SendMessage`. The
failure of the REG_MR request is told by the state alone (line 249), which an
ESTABLISHED or a go ahead may overwrite before the look at line 453; the SEND then
carries a key that was never registered. `made` says whether the request was posted,
`stray` that such a key has been sent.

The thread, the CM handler and the CQ handler of an end share `state` without a
lock, so each of their steps is an action: a wait and the check after it, the
assignment of CONNECTED, the posting of the go ahead. (A step holds several accesses
only where what could come between them is the same before or after it; the comment
of `ReadCompleted` says so for the waits.) The adapters execute
requests in order (`NicReg`, `NicSend`, `NicRead`); what the code relies on is
that a region still valid cannot be registered again, that SEND_WITH_INV
invalidates it on arrival, and that with `rnr_retry_count` 0 a message needs a
posted receive. Every verb may fail; links break, devices go away, and signals end
the client's waits (`BindInterrupted`, `ConnectInterrupted`: the result of
`wait_event_interruptible()` is ignored, so `nmsg_connect_client()` then returns
0 without a connection). The code has no way to wait for the go ahead: `hasty` says that
some call of `nmsg_send_message()` came before it, and `PatientReads` speaks of the runs
in which none did.

A set-up makes its objects one after the other (`SetupOrder`) and may fail at each;
`Cleanup` is what the labels `bail`, `err1` and `err2` give back, `res` what an end
has, the `cm_id` and `child_cm_id` included. No failure of the client destroys its
`cm_id`, so `ClientCmEvent` goes on after it. Where the code then reads an uninitialised pointer (the second object of
`nmsg_setup_buffers()` after the first one failed), goes on after a failed
connection request, or has called `nmsg_stop_server()`, which frees everything
under the running thread, its behaviour is undefined and the end goes to
`undefined`.

A second client's request (`SecondRequest`) sets the state to CONNECT_REQUEST and
`child_cm_id` to the new connection at any time. If the thread has not accepted yet
it goes on with the second client (`ServeSecond`, pc `other`, not followed
further); later, its tear-down hits the second connection and the first client
hears nothing.

An RDMA READ is one step here; the real one races with `memcpy()` and may also
return a mixture of two messages.

### Files

The module's state goes from `out` over `coming` to `live`, or over `undo` to
`failed`, and from `live` over `going` to `exited`; `id` is the loop variable of
`rshm_init()` and `rshm_exit()`. A device can be opened from `cdev_device_add()`
on, before its first chunk exists and before `rshm_init()` has succeeded, because
`try_module_get()` accepts a module that is still loading. `File` are addresses of
a `struct dmirror`: a freed one is used again by a later open, as by the slab
allocator. Each process has one page; `cpu[m]` is where it is, with the device and
the owning `dmirror` of a device page, and `pt[f]` what the mirror of file `f`
names. A command is one step, except a read, whose loop is the point of `ReadEnds`,
the CPU fault on a device page, which loads the mirror pointer in one step and
uses it in two later ones with no lock in between, and the removal of a device's
chunks: it evicts every page once (`EvictDevice`, and the first half of the RELEASE
ioctl, `ReleaseStart`), where a page that a fault holds stays, and then waits for what
is left (`dmirror_device_remove_chunks`, `ReleaseEnd`). `removing` are the devices
in that wait, `releasing` the files whose ioctl is. A use of a freed `dmirror` may
find the old contents or kill the thread (`oops`).

`MIGRATE_TO_DEV` and `MIGRATE_TO_SYS` erase the entry of the calling file and of
files of other devices (through their notifiers); a second file of the same device
and process keeps its entry. `StaleOnlyBySibling` says that this is the only way an
entry goes stale here.

### Remote

Callers without a VMA run `migrate_device_range()` page by page (or lock the one
page of `migrate_device_coherent_page()`), `migrate_device_unmap()`, the loop of
`__migrate_device_pages()`, and `migrate_device_finalize()`. Each round of the loop
runs `retrieve_page()`: create a socket, send, send again inside
`nmsg_retrieve_pages()`, receive, release. `nmsg_client.sock` is the one variable
`sock`; `open` are the sockets that exist. The number of datagrams waited for is
`src_pfns[i]` cut to an int, so it is 0 for an empty entry, and positive or
negative depending on the page number (`Negative`).

The server receives "retrieve_pages", writes it into page 0 of its store and
answers nothing. So no datagram ever comes back: a caller with a positive count
waits for ever (with its pages locked), and otherwise `retrieve_page()` returns
`(struct page *) -1`, on failure because it says so and on success because 0 is
taken for NULL. With a destination that value is dereferenced and the caller dies with its pages
locked; without one the entry is cleared. So the loop migrates nothing, whatever the
comments at `migrate_device.c:733-738` ("calls the migrate_folio ...") and 849-850
("effectively finishes the migration") say: the test for NULL at the loop's heart does
not see the -1. That follows from lines 702-757 directly, and no run is spent on it.
(`retrieve_page()` has two lines that do not compile as they stand, the declaration at
line 717 and the -1 it returns; they are read as `struct page *page` and a cast. The
branch of `nmsg_retrieve_pages()` behind a received datagram, lines 67-87 of `nmsg.c`, is
not in the model: the repository's server never sends one.)

`send_sig(SIGKILL)` does not reach a kernel thread that has allowed no signal, and
`kthread_stop()` is not called, so the server goes on after `nmsg_stop_server()`
with a freed buffer and socket; the model lets it go on or end at any point.

## 3. Runs

| Run | Checks | Instance |
|---|---|---|
| `pool` | `TypeOK`, `SoleOwner`, `NoDanglingPage`, `RemovedNotReallocated`, `NoPageLost`, `CountersCoverOutstanding`, `TableSound`, `ReleaseCompletes` | 2 threads, 2 chunks of 2 pages, table grown by 1, at most 3 allocations; no overlap |
| `pool_overlap` | `CountersCoverOutstanding`, `ReleaseHangsOnlyOnHeldPage` | the same with overlap, 2 allocations |
| `pool_release_race` | `RemovedNotReallocated` is violated | the same with overlap |
| `mirror` | `TypeOK`, `NoStaleEntry`, `ImplementsSharedMemory`, `SnapshotSound` | 2 threads, 1 page, 3 frames; read, write, exclusive, check, snapshot; 2 commands, 2 invalidations, 1 CPU store |
| `mirror_batches` | `ImplementsSharedMemory`, `CommandCompletes` | 1 thread, 2 pages in batches of 1; read, write, snapshot; pages moved or discarded |
| `mirror_migrate` | `NoStaleEntry`, `ImplementsSharedMemory`, `SnapshotSound` | 2 pages in batches of 1, 3 frames; one thread runs all commands, the other snapshots; 2 commands, 1 invalidation |
| `mirror_migration_race` | `NoStaleEntry` is violated | 2 threads, a read and a migration |
| `mirror_backing` | `MirrorAddressable` is violated | 1 thread, 2 pages |
| `rdma` | `TypeOK`, `NoOverrun`, `ShownInOrder`, `KeyValidWhenUsed`, `ServerReady`, `PatientReads`, `NothingLeft`, `BindIsAnswered`, `DeliveredOrBroken`, `ServerLeaves` | 2 messages, callers that wait and callers that do not; one link loss, device removal or second client; failing verbs and set-ups, signals and disconnects unbounded |
| `files` | `TypeOK`, `UnloadClean`, `StaleOnlyBySibling`, `ReadEnds`, `ExitEnds` | 2 devices, 2 files, 1 process, 2 frames; 3 opens, 2 migrations, 2 faults |
| `files_close` | `FaultUsesLiveMirror` is violated | the same with 1 of each |
| `remote` | `TypeOK`, `PagesBalanced`, `SocketsReleased`, `CallEnds`, `RequestsServed` | 2 callers, 2 pages (one with a negative entry), 3 sockets, 2 calls, 1 datagram waiting at the server |

**Why the bounds are enough to be interesting.** Two chunks are what it takes
for a list with pages of two chunks (the case `dmirror_remove_free_pages()` is
delicate in) and for a table that grows; two pages per chunk for a list that
stays non-empty after a pop. Two threads give one that holds a page and one that
removes. In the mirror, two invalidations allow one to be noticed by the walk and
another by the retry check; batches of one page on two pages are the smallest
case of a command that ends between batches. Deadlock is checked in `pool`. It is
not checked where the bounds on commands and invalidations stop the model, nor in
`pool_overlap`, where the code really can hang.

In `files` two files are what a sibling takes, on one device or on two, and two
devices are what a load needs to fail at the second with the first to undo; a third
open reuses the address of a closed file. One process with one page is enough,
because files of different processes share nothing but the device's memory, which
`DevmemPool` is about. In `remote` two callers overlap in every way, on a page both
want and on the socket; three sockets leave one for a caller whose own was lost.

In `rdma` two messages are the smallest case in which one can run into the
other; all queues then have at most a handful of entries and need no bound. `MaxFaults`
bounds what comes from outside (a lost link, a removed device, a second client) to one per
run; what the code itself can meet at each call, a verb or a set-up step that fails, a
signal, a caller that disconnects, is not bounded. The instance has 672,270 states.

**What the RDMA run says.** The protocol holds together by an argument that is
nowhere in the code. The client never waits, but its second SEND stands in the
queue behind a REG_MR, which fails unless the go ahead has invalidated the first
key; the server posts the go ahead after it has set CONNECTED; so an
advertisement finds the server ready (`NoOverrun`), and finds a
receive posted although `ib_post_recv()` comes after RDMA_READ_ADV is visible
(`ServerReady`: the READ completes through the same handler). Two holes in the argument
are named by the properties. An ERROR of the server can be overwritten (`lost`): at 568 after
the check at 559, by the CQ handler, which looked for it at 124, or by a second client's
request. If `server_recv()` has found it, the state becomes RDMA_WRITE_ADV, which ends the loop; if
it was overwritten otherwise, the thread may wait for ever (`ServerLeaves`). And a client whose
REG_MR was not posted may send its key all the same (`stray`): the READ then fails, or
the next message is taken while the server is busy. What is printed keeps its order
in either case (`ShownInOrder`). The server's
ESTABLISHED branch, which logs CONNECTED and does not set it, is right as it is:
the event may come after the first advertisement, and the mutant that sets the
state loses that message (`DeliveredOrBroken`, which needs `stray` as well: a first message under an
unregistered key is lost while the second is shown on an unbroken connection).
On the client's side, a failing `rdma_resolve_route()` wakes the thread
below the state it waits for (`NoRoute`, `BindIsAnswered`), and a client that fails keeps its
`cm_id` (`NothingLeft`).

**What the life-cycle run says.** `UnloadClean` names what a failed load leaves: the
device whose first chunk failed keeps its character device, since `rshm_init()`
undoes only the devices before it, and a file that is open by then can take new
chunks from a device that was already removed. A read of a process that has gone
never ends (`dmirror_fault()` returns 0 and changes nothing): `ReadEnds` has this
exception. `rshm_exit()`, the undoing of `rshm_init()` and the RELEASE ioctl evict each page
once and then wait. `ExitEnds` names what can hold up the first: a fault that
died through a dangling mirror pointer, and a page that survives (`Survives`), because a
fault held it during the eviction and then found no memory to bring it back; the process
is alive and free to keep it. `UnloadClean` says what is left when they do end.

**What the remote run says.** All locks, references and, without overlap, sockets
are given back on every path that returns (`PagesBalanced`, `SocketsReleased`), but
a call ends only if it never waits for a datagram and never has a destination page
(`CallEnds` names the places where one is stuck or dies).

**What the violations say.** With a release that overlaps a migration, a chunk
can be marked and its list cleaned after it is registered and before its pages
are pushed; the pages of a removed chunk then get on the list. A migration by
the device itself does not advance the notifier's sequence
(`dmirror_interval_invalidate()` returns first), so a fault of another thread
that read the page table before the migration stores the old page after it.
`dmirror_do_fault()` stores a device page as `hmm_range_fault()` reports it, not its
backing page. And a file that is closed while its pages are in device memory leaves
the pointer to its freed `dmirror` in their backing pages, where the next CPU fault
picks it up. The passing runs show that these are the limits: without overlap, for
ranges that do not mix, with one thread that migrates, and as long as files stay
open, the properties hold.

Two more limits are visible in the model without a run of their own: with
`StoreFails` switched on for migrations, `MapPages` stops at the failing page and
leaves stale entries behind it; and a caller of the RDMA client that does not wait
for the go ahead lets the server print the second message under the first key
(`ReadsWhatWasAdvertised`, which `PatientReads` therefore states for patient callers
only).

**Exclusive access and discarding.** `mirror` leaves `discard` (MADV_DONTNEED) out
because `dmirror_atomic_map()` stores its entries without a sequence check;
`mirror_batches` has it for reads and writes.

**Fairness.** Allocator: a thread in the kernel is scheduled (WF on its steps),
the loop that allocates a migration's pages is finite (SF on leaving it), and a
process does not keep a device page for ever (WF on `FreeResident`: it exits in
the end). Mirror: WF on the steps of a thread in a read or write, on the end of
each invalidation (the kernel always calls `invalidate_range_end`), and on
bringing in a missing page (`hmm_range_fault()` with `HMM_PFN_REQ_FAULT` does
that). No fairness is assumed for failures or for the timeout of a fault.
`CommandCompletes` therefore says that the retry loops end by themselves, once
invalidations do (`MaxInval`). RDMA link: WF on both threads, all handlers
and the adapters; none on the caller, on signals and on faults. Files: WF on
`rshm_init()` and `rshm_exit()` once they run, on the loop of a read (with its
timeout, which the code sets), and on the steps of a CPU fault; none on opening,
closing, migrating or the end of a process. That migrations are bounded stands for
migrations that stop. Remote: WF on a caller's steps (not on the error that would
end a wait for a datagram) and on the server thread.

## 4. Proofs

Every theorem holds for all values of the constants that the module's `ASSUME`
allows. These assumptions say what the constants are (a number of pages, a page
size, a null value that is none of the values it stands for, finitely many callers
in `Remote`, because counts of references are cardinalities); none says anything of
the behaviour. Further hypotheses stand in the theorem.

Most of the properties are not inductive. Each module therefore has an invariant
that is (`PoolInv`, `RemoteInv`, `LinkInv`, `FilesInv`, `MirrorInv`, `SharedInv`,
`MemoryInv`), a conjunction of named parts; each part has a lemma that a step preserves it, with one step per action. TLC was
run on each invariant before it was proved.

### The allocator (`DevmemPoolProofs`)

| Theorem | States | Regime |
|---|---|---|
| `TypeCorrect` | `Spec => []TypeOK` | both |
| `TableIsSound` | `Spec => []TableSound` | both |
| `CountersCover` | `Spec => []CountersCoverOutstanding` | both |
| `PagesHaveOneOwner` | `Spec => []SoleOwner` | `~Concurrent` |
| `PagesAreLive` | `Spec => []NoDanglingPage` | `~Concurrent` |
| `RemovedPagesStayRemoved` | `Spec => []RemovedNotReallocated` | `~Concurrent` |
| `NoPageIsLost` | `Spec => []NoPageLost` | `~Concurrent` |

The run `pool_release_race` shows that `RemovedPagesStayRemoved` cannot do without
its hypothesis. `PoolInv` adds to the properties:

* who can be where: the mutex is held exactly by the thread in `register` or in a
  removal, and without overlap no thread is inside a migration during a removal;
* where a chunk is: a chunk being set up is reserved, belongs to one thread, and is
  in no table until it is registered; a registered chunk whose pages are not
  pushed has none of its pages anywhere (this is what makes `PushChunk` preserve
  `SoleOwner`);
* what a removal has done: chunks before `next` are gone, only the one at `next`
  may be marked, and pages in any place lie in chunks the removal has not passed.

The list operations rest on lemmas on `Elems` and `Distinct` of heads, tails,
concatenations and sub-sequences. `NoPageIsLost` needs of a removal only its end:
the pages dropped on the way are those of chunks that go as well.

### Migration with a remote source (`RemoteProofs`)

| Theorem | States |
|---|---|
| `RemoteTypeCorrect` | `Spec => []TypeOK` |
| `PagesStayBalanced` | `Spec => []PagesBalanced` |
| `SocketsAreReleased` | `Spec => []SocketsReleased` |

`LocalOK` says what a caller's arrays hold at each place: its counter stays inside
its range, it holds entries of that range only, and the entries that the loop has
passed have neither a destination nor the mark that they may move. The locks and
references are then those of the entries (`PagesBalanced` is a sum over callers,
hence the lemmas on cardinalities), and at `finalize` nothing is marked.

### The RDMA connection (`RdmaLinkInv`, `RdmaLinkProofs`)

| Theorem | States |
|---|---|
| `LinkTypeCorrect` | `Spec => []TypeOK` |
| `NothingIsLeft` | `Spec => []NothingLeft` |
| `BindsAreAnswered` | `Spec => []BindIsAnswered` |

`LinkBase` says what each place of the two threads goes with: the resources (`ResInv`), the
events on their way (`EventInv`) and the address resolution (`BindInv`).

### The life cycle (`FilesProofs`)

| Theorem | States |
|---|---|
| `FilesTypeCorrect` | `Spec => []TypeOK` |
| `UnloadIsClean` | `Spec => []UnloadClean` |
| `SiblingsOnly` | `Spec => StaleOnlyBySibling` (an action property) |

`Left` is the set of devices that may still be there at each stage of loading and
unloading; `ModInv` and `UnloadInv` say that character devices, chunks, device pages and
open files belong to these, unless a file was opened during a load that then failed. For
the entries, `PageInv` ties a page that is being brought back to the fault that does it
and to its owner, and `ToldInv` says which mirrors of that page can still have an entry: after the first
notification only those of the page's own device, and after the owner's entry was erased
not the owner's.

### The mirror (`MirrorProofs`, `MirrorShared`)

| Theorem | States |
|---|---|
| `MirrorInvariant` | `Spec => []MirrorInv` |
| `MirrorTypeCorrect` | `Spec => []TypeOK` |
| `SnapshotsAreSound` | `Spec => SnapshotSound` (an action property) |
| `EntriesAreCurrent` | `Regime => (Spec => []NoStaleEntry)` |
| `SharesMemory` | `Regime => (Spec => ImplementsSharedMemory)` |

The first three hold for any mix of commands and kernel events, with migrations, exclusive access and
discarded pages. `MirrorInv` says where a thread can be for its command (`PcInv`), that its batch
stays within its range (`BatchInv`), that what it carries from one lock section to the next are frames
(`FramesInv`), and what kind of page each invalidation works on (`KindInv`). The argument for snapshots
is the notifier's: `ActiveInv` names who is between the start and the end of an
invalidation; then a snapshot's notifier is busy (`ToldInv`); so a reading that is still valid began
when nothing in its batch was being invalidated (`ReadInv`); hence what was read is still so (`SnapInv`).
A device page that the kernel reports while a fault fills it in is the exception that `SnapInv` has to make:
an entry read as absent may appear without notice, as it may on the real system, where the kernel tells
notifiers only of what is taken away.

The last two hold for any number of threads, pages, frames and invalidations, in a `Regime` that
leaves out two things the code does not guard against: a thread that migrates has only checks and snapshots
beside it, and stores into the xarray do not fail then (the notifier returns at once for the device's own
migrations, and a failed store is ignored); and no page is discarded while threads migrate or take exclusive
access (`dmirror_atomic_map()` does not check the sequence). The constants of the runs `mirror`,
`mirror_batches` and `mirror_migrate` satisfy it; `mirror_migration_race` shows what happens outside of it.
`SharedInv` adds to `MirrorInv` why an entry that has been stored stays true. `LockInv` and
`MarkInv`: the pages of exclusive access are locked, by one thread, and stay as it marked them until their
entries are stored. `MoveInv`: a migration's sources stay under their migration entries, the
pages it inserted stay, and the entries it stored before the end are those of the new places. `WalkedInv`: a
fault whose reading is still valid has read what the page table says. `PendInv`: between the start and the end of an
invalidation the mirror has no entry for what is about to change, except the one a migration has just stored
for the page's new place, where the invalidation will change nothing. `MmapInv` keeps write protection apart
from all of these. The actions fall into those that leave page table and mirror alone (`Quiet`) and the
eight that do not (`Writes`), so that each part has to look at the latter only.

`SharesMemory` is the refinement. `MemoryInv` adds to `SharedInv` what a step of the abstract memory needs
besides current entries. `MutexInv` and `EntryInv`: a thread holds the mutex from the lookup of an entry to the end of
the copy, and the entry is still in the table when it copies. `SoleInv` and `DestInv`: a frame is in one
place of the page table, or the destination of one page of a migration, so a write through an entry changes one page.
`CopyInv`: from the copying of a page to the end of its migration, source and destination have the same
contents; replacing one by the other is then no change of the memory. `CurInv` says how far a command has come.
Each step is then one of `SharedMemory` or leaves its variables alone: the start of a command is `Submit`, the copy of a page
`ReadPage` or `WritePage`, a snapshot's batch `ReportPages`, the returns are `Succeed` and `Fail`; of the kernel's steps the
CPU's stores and the discarding of a page are `CpuStore`. The steps that move data (a page the kernel moves or copies on
write, the copying and the end of a migration, the insertion of new pages) map to stuttering, which is what the
invariant is for.

### Only model-checked

* All liveness properties: `ReleaseCompletes`, `ReleaseHangsOnlyOnHeldPage`, `CommandCompletes`,
  `DeliveredOrBroken`, `ServerLeaves`, `ReadEnds`, `ExitEnds`, `CallEnds`, `RequestsServed`. Fairness and
  `ENABLED` are beyond the prover.

Outside of `Regime`, where the code does not guard what `EntriesAreCurrent` and `SharesMemory` need, nothing is claimed.
Of `RdmaLink`, `NoOverrun`, `ServerReady`,
`KeyValidWhenUsed`, `ShownInOrder` and `PatientReads` are model-checked only; the other invariants and action
properties named by runs that pass are each stated by a theorem above.

## 5. Plan

Modelling is complete as far as it can be faithful (see below), and most planned proofs are done: the invariants and
safety action properties of the passing runs but for five of `RdmaLink`, and the one refinement. What is left for TLC is
liveness, and the token argument of `RdmaLink`. Changes of the code
are to be followed in the module concerned, then in its runs, then in its proofs, where each invariant has a step per
action.

## 6. Not modelled

* `hash.c` and `copy.c`: timing loops over hash functions, `memcpy()` and DMA. They
  keep no state between calls, and 64-bit hash arithmetic on strings has no
  abstraction that would keep anything worth checking.
* `user.c`: maps a device file and prints what it finds.
* `mm/internal.h`: a header of the kernel, copied for its declarations; nothing of
  it is this repository's logic.
* In `mm/nmsg.c`: what `nmsg_retrieve_pages()` does with an answer (lines 67-87), which never comes.
* In `hmm.c`: huge pages and coherent device memory (`rshm_init()` sets up private
  devices only), formatting of log lines, addresses near the end of the address
  space.
* In `mm/migrate_device.c`: splitting of transparent huge pages in
  `migrate_vma_collect_pmd()`, and the VMA path of the patched
  `__migrate_device_pages()`, which differs from the modelled one only in inserting
  pages, a branch `retrieve_page()` never lets it reach (its result is never NULL).
* In `mm/mem.c`: failing allocations, which `memory_init()` does not check.
* What code does with freed or uninitialised memory. Where the source gets there the
  models stop, or allow the thread to go on or die, and say so.
