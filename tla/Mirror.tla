------------------------------- MODULE Mirror -------------------------------
(***************************************************************************)
(* The mirrored address space of hmm.c: struct dmirror and its ioctls.     *)
(*                                                                         *)
(* The device accesses the memory of a process through its own page table, *)
(* the xarray dmirror->pt.  The table is filled by faults (dmirror_fault), *)
(* by migrations to the device and by exclusive access, and emptied by the *)
(* mmu interval notifier (dmirror_interval_invalidate) before the kernel   *)
(* changes the CPU's page table.  Entries hold no page references, so the  *)
(* whole design rests on the table never naming a page that the CPU's      *)
(* table has stopped naming.                                               *)
(*                                                                         *)
(* The kernel's side (CPU page table, invalidations, page and mmap locks,  *)
(* interval-notifier sequence) is modelled from how hmm.c uses it.         *)
(***************************************************************************)
EXTENDS Integers, FiniteSets

CONSTANTS
    Thread,      \* threads that run ioctls of one open device file
    Invalidator, \* kernel activities that change the CPU page table
    NPages,      \* pages of the mirrored range
    Batch,       \* pages handled at a time: the arrays of 64 in hmm.c
    Frame,       \* physical pages
    Value, Zero, \* page contents; a fresh page is Zero
    OpOf,        \* the ioctls that each thread issues
    Event,       \* what the invalidators do
    StoreFails,  \* may xa_store() fail? (GFP_ATOMIC)
    MaxCmd, MaxInval, MaxStore,   \* bounds on the three counters
    NoCmd, NoEntry, NoFrame, Nobody

Addr == 1..NPages

Op == UNION {OpOf[t] : t \in Thread}

None == [kind |-> "none", frame |-> NoFrame, write |-> FALSE]

Pte == [kind : {"none", "sys", "dev", "migsys", "migdev", "excl"},
        frame : Frame \cup {NoFrame}, write : BOOLEAN]

(***************************************************************************)
(* A mirror entry: the page, whether it is the ZONE_DEVICE page itself     *)
(* (which has no memory) or a page with memory, and its tag.               *)
(***************************************************************************)
Entry == [frame : Frame, zone : BOOLEAN, tag : {"READ", "WRITE", "ATOMIC"}]

Cmd == {c \in [op : Op, lo : Addr, hi : Addr, val : Value] : c.lo <= c.hi}

\* A change of the page table under way: what it is, where, and the entry it started from.
Change == [ev : Event, addr : Addr, pte : Pte]

ASSUME MirrorAssumption ==
    /\ NPages \in Nat \ {0} /\ Batch \in Nat \ {0}
    /\ Zero \in Value
    /\ OpOf \in [Thread -> SUBSET {"read", "write", "todev", "tosys", "fault", "excl", "check", "snapshot"}]
    /\ Event \subseteq {"move", "protect", "cow", "restore", "discard"}
    /\ StoreFails \in BOOLEAN
    /\ MaxCmd \in Nat /\ MaxInval \in Nat /\ MaxStore \in Nat
    /\ NoFrame \notin Frame
    /\ Nobody \notin Thread
    /\ Thread \cap Invalidator = {}
    /\ NoCmd \notin Cmd /\ NoCmd \notin Change /\ NoEntry \notin Entry

VARIABLES
    cpu,      \* the process's page table: [kind, frame, write] per page
    data,     \* contents of the frames
    inval,    \* what each invalidator is doing
    active,   \* actors between invalidate_range_start() and _end()
    busy,     \* notifier->invalidate_seq is the sequence of an active range
    sbusy,    \* the same for the threads' notifiers of their own (snapshots)
    fresh,    \* no mmu_interval_set_seq() since the thread's read_begin()
    pt,       \* dmirror->pt
    mutex,    \* dmirror->mutex
    pc,
    cmd,      \* the ioctl a thread is running
    cur,      \* next page to transfer; cpages is cur - cmd.lo
    bounce,   \* bounce.ptr
    ret,      \* how the last ioctl ended
    entry,    \* xa_load()ed entry of page cur
    addr,     \* first page of the current batch
    walk,     \* next page of hmm_range_fault(), exclusive marking or check
    pfns,     \* range.hmm_pfns
    perm,     \* perm[] of a snapshot
    src,      \* source frames of a migration
    dst,      \* destination frames; pages[] of exclusive access
    sel,      \* pages that still carry MIGRATE_PFN_MIGRATE
    ncmd, ninval, stores

mmVars == <<cpu, data, inval>>
seqVars == <<active, busy, sbusy, fresh>>
accessVars == <<cmd, cur, bounce, ret, entry>>
faultVars == <<addr, walk, pfns, perm>>
migVars == <<src, dst, sel>>
countVars == <<ncmd, ninval, stores>>
vars == <<mmVars, seqVars, pt, mutex, pc, accessVars, faultVars, migVars, countVars>>

Pfn == [frame : Frame \cup {NoFrame}, zone : BOOLEAN, write : BOOLEAN]

NoPfn == [frame |-> NoFrame, zone |-> FALSE, write |-> FALSE]

\* HMM_PFN_ERROR
ErrorPfn == [frame |-> NoFrame, zone |-> TRUE, write |-> FALSE]

(***************************************************************************)
(* HMM_DMIRROR_PROT_*: not there, not accessible, or readable or writable, *)
(* in system memory or in this device's.                                   *)
(***************************************************************************)
Perm == {"NONE", "ERROR", "READ", "WRITE", "LOCAL_READ", "LOCAL_WRITE"}

NoPerms == [a \in Addr |-> "NONE"]

\* Mutant: leaves out the last page.
RangeShort(t) == cmd[t].lo .. (cmd[t].hi - 1)

Range(t) == cmd[t].lo .. cmd[t].hi

BatchEnd(t) ==
    IF addr[t] + Batch - 1 < cmd[t].hi THEN addr[t] + Batch - 1 ELSE cmd[t].hi

BatchRange(t) == addr[t]..BatchEnd(t)

NoFrames == [a \in Addr |-> NoFrame]

(***************************************************************************)
(* What the process sees.                                                  *)
(***************************************************************************)
Memory == [a \in Addr |-> IF cpu[a].frame = NoFrame THEN Zero ELSE data[cpu[a].frame]]

FreeFrames ==
    Frame \ ({cpu[a].frame : a \in Addr}
             \cup UNION {{src[t][a], dst[t][a]} : t \in Thread, a \in Addr})

(***************************************************************************)
(* mmap_lock: readers and the writer.  Page lock: pages that a migration   *)
(* of the kernel, exclusive marking or the end of exclusivity works on.    *)
(***************************************************************************)
MmapReader ==
    \/ \E t \in Thread : pc[t] \in {"walk", "alloc", "copy_to", "pages", "map", "finalize", "more", "xcall", "xset", "swalk"}
    \/ \E i \in Invalidator : inval[i] # NoCmd /\ inval[i].ev \in {"cow", "restore"}

MmapWriter == \E i \in Invalidator : inval[i] # NoCmd /\ inval[i].ev = "protect"

PageLocked(a) ==
    \/ cpu[a].kind \in {"migsys", "migdev"}
    \/ \E i \in Invalidator : inval[i] # NoCmd /\ inval[i].ev \in {"move", "restore"} /\ inval[i].addr = a
    \/ \E t \in Thread : /\ pc[t] \in {"xcall", "xset"}
                         /\ dst[t][a] # NoFrame \/ (pc[t] = "xset" /\ walk[t] = a)

Init ==
    /\ cpu = [a \in Addr |-> None]
    /\ data = [f \in Frame |-> Zero]
    /\ inval = [i \in Invalidator |-> NoCmd]
    /\ active = {}
    /\ busy = FALSE
    /\ sbusy = {}
    /\ fresh = [t \in Thread |-> FALSE]
    /\ pt = [a \in Addr |-> NoEntry]
    /\ mutex = Nobody
    /\ pc = [t \in Thread |-> "idle"]
    /\ cmd = [t \in Thread |-> NoCmd]
    /\ cur = [t \in Thread |-> 1]
    /\ bounce = [t \in Thread |-> [a \in Addr |-> Zero]]
    /\ ret = [t \in Thread |-> "none"]
    /\ entry = [t \in Thread |-> NoEntry]
    /\ addr = [t \in Thread |-> 1]
    /\ walk = [t \in Thread |-> 1]
    /\ pfns = [t \in Thread |-> [a \in Addr |-> NoPfn]]
    /\ perm = [t \in Thread |-> NoPerms]
    /\ src = [t \in Thread |-> NoFrames]
    /\ dst = [t \in Thread |-> NoFrames]
    /\ sel = [t \in Thread |-> {}]
    /\ ncmd = 0 /\ ninval = 0 /\ stores = 0

-----------------------------------------------------------------------------
(***************************************************************************)
(* The kernel.                                                             *)
(***************************************************************************)

(***************************************************************************)
(* A page is faulted in, by the CPU or from hmm_range_fault(): the page    *)
(* table gains an entry, which needs no notification.                      *)
(***************************************************************************)
Populate(a) ==
    /\ cpu[a] = None
    /\ ~MmapWriter
    /\ \E f \in FreeFrames :
         /\ cpu' = [cpu EXCEPT ![a] = [kind |-> "sys", frame |-> f, write |-> TRUE]]
         /\ data' = [data EXCEPT ![f] = Zero]
    /\ UNCHANGED <<inval, seqVars, pt, mutex, pc, accessVars, faultVars, migVars, countVars>>

CpuStore(a, v) ==
    /\ stores < MaxStore
    /\ cpu[a].kind = "sys" /\ cpu[a].write
    /\ data' = [data EXCEPT ![cpu[a].frame] = v]
    /\ stores' = stores + 1
    /\ UNCHANGED <<cpu, inval, seqVars, pt, mutex, pc, accessVars, faultVars, migVars, ncmd, ninval>>

(***************************************************************************)
(* Which page-table changes are possible: migration of a page by the       *)
(* kernel (page lock held), write protection (mmap_lock held for writing), *)
(* copy on write, the end of exclusive access, MADV_DONTNEED.              *)
(***************************************************************************)
Eligible(ev, a) ==
    CASE ev = "move"    -> cpu[a].kind = "sys" /\ ~PageLocked(a)
      [] ev = "protect" -> cpu[a].kind \in {"sys", "dev"} /\ cpu[a].write /\ ~MmapReader /\ ~MmapWriter
      [] ev = "cow"     -> cpu[a].kind = "sys" /\ ~cpu[a].write /\ ~MmapWriter
      [] ev = "restore" -> cpu[a].kind = "excl" /\ ~PageLocked(a) /\ ~MmapWriter
      [] ev = "discard" -> cpu[a] # None /\ stores < MaxStore /\ ~MmapWriter

(***************************************************************************)
(* dmirror_do_update() erases the pages start..end with `end' included,    *)
(* one page more than the range has.                                       *)
(***************************************************************************)
dmirror_do_update(start, end) ==
    [a \in Addr |-> IF start <= a /\ a <= end THEN NoEntry ELSE pt[a]]

\* The thread's own notifier, for the batch it takes a snapshot of, is registered.
Snapping(t) == pc[t] \in {"sbegin", "smmap", "swalk", "scommit", "sfail", "sout"}

\* Mutant: a snapshot too ignores the device's own migrations.
dmirror_snapshot_invalidate_foreign(A, own) ==
    {t \in Thread : ~own /\ Snapping(t) /\ A \cap BatchRange(t) # {}}

(***************************************************************************)
(* dmirror_snapshot_invalidate() sets the sequence for every event in its  *)
(* interval, migrations by this device included: the snapshots that are    *)
(* told of an invalidation of the pages A.                                 *)
(***************************************************************************)
dmirror_snapshot_invalidate(A, own) ==
    {t \in Thread : Snapping(t) /\ A \cap BatchRange(t) # {}}

(***************************************************************************)
(* dmirror_interval_invalidate() for an event that is not a migration by   *)
(* this device: under the mutex it sets the notifier's sequence and erases *)
(* the range.  The snapshots' notifiers are called as well.  (A            *)
(* non-blockable caller that finds the mutex taken gives the invalidation  *)
(* up; nothing changes.)                                                   *)
(***************************************************************************)
dmirror_interval_invalidate(who, a) ==
    LET told == dmirror_snapshot_invalidate({a}, FALSE) IN
    /\ mutex = Nobody
    /\ active' = active \cup {who}
    /\ busy' = TRUE
    /\ sbusy' = sbusy \cup told
    /\ fresh' = [t \in Thread |-> fresh[t] /\ Snapping(t) /\ t \notin told]
    /\ pt' = dmirror_do_update(a, a + 1)

(***************************************************************************)
(* The notifiers for a migration by this device, start and end in one.     *)
(* dmirror_interval_invalidate() returns at once: neither the mirror's     *)
(* sequence nor its table changes.                                         *)
(***************************************************************************)
OwnInvalidate(A) ==
    LET told == dmirror_snapshot_invalidate(A, TRUE) IN
    /\ told # {} => mutex = Nobody
    /\ sbusy' = IF active = {} THEN sbusy ELSE sbusy \cup told
    /\ fresh' = [t \in Thread |-> fresh[t] /\ t \notin told]
    /\ UNCHANGED <<active, busy>>

\* Mutant: the sequence stays odd.
RangeEndStuck(who) ==
    /\ active' = active \ {who}
    /\ UNCHANGED <<busy, sbusy, fresh>>

(***************************************************************************)
(* invalidate_range_end(): the sequence becomes even when the last range   *)
(* ends.                                                                   *)
(***************************************************************************)
RangeEnd(who) ==
    /\ active' = active \ {who}
    /\ busy' = (busy /\ active # {who})
    /\ sbusy' = IF active = {who} THEN {} ELSE sbusy
    /\ UNCHANGED fresh

InvalidateStart(i) ==
    /\ inval[i] = NoCmd
    /\ ninval < MaxInval
    /\ \E ev \in Event, a \in Addr :
         /\ Eligible(ev, a)
         /\ inval' = [inval EXCEPT ![i] = [ev |-> ev, addr |-> a, pte |-> cpu[a]]]
         /\ dmirror_interval_invalidate(i, a)
    /\ ninval' = ninval + 1
    /\ UNCHANGED <<cpu, data, mutex, pc, accessVars, faultVars, migVars, ncmd, stores>>

(***************************************************************************)
(* The page table changes, unless the entry is no longer what it was.      *)
(***************************************************************************)
InvalidateEnd(i) ==
    /\ inval[i] # NoCmd
    /\ LET ev == inval[i].ev
           a  == inval[i].addr
       IN  \/ /\ ev # "discard" /\ cpu[a] # inval[i].pte
              /\ UNCHANGED <<cpu, data, stores>>
           \/ /\ ev \in {"move", "cow"} /\ cpu[a] = inval[i].pte
              /\ \E f \in FreeFrames :
                   /\ data' = [data EXCEPT ![f] = data[cpu[a].frame]]
                   /\ cpu' = [cpu EXCEPT ![a].frame = f, ![a].write = (ev = "cow" \/ @)]
              /\ UNCHANGED stores
           \/ /\ ev = "protect" /\ cpu[a] = inval[i].pte
              /\ cpu' = [cpu EXCEPT ![a].write = FALSE]
              /\ UNCHANGED <<data, stores>>
           \/ /\ ev = "restore" /\ cpu[a] = inval[i].pte
              /\ cpu' = [cpu EXCEPT ![a].kind = "sys"]
              /\ UNCHANGED <<data, stores>>
           \/ /\ ev = "discard"
              /\ cpu' = [cpu EXCEPT ![a] = None]
              /\ stores' = stores + 1
              /\ UNCHANGED data
    /\ inval' = [inval EXCEPT ![i] = NoCmd]
    /\ RangeEnd(i)
    /\ UNCHANGED <<pt, mutex, pc, accessVars, faultVars, migVars, ncmd, ninval>>

-----------------------------------------------------------------------------
(***************************************************************************)
(* dmirror_fops_unlocked_ioctl(): the checks on the range reject commands  *)
(* that would do nothing; the others are dispatched.                       *)
(***************************************************************************)
FirstStep(op) ==
    CASE op \in {"read", "write"} -> "bounce"
      [] op \in {"todev", "tosys", "fault"} -> "setup"
      [] op = "excl" -> "xstart"
      [] op = "check" -> "check"
      [] op = "snapshot" -> "sinsert"

Start(t, c) ==
    /\ pc[t] = "idle"
    /\ ncmd < MaxCmd
    /\ cmd' = [cmd EXCEPT ![t] = c]
    /\ cur' = [cur EXCEPT ![t] = c.lo]
    /\ bounce' = [bounce EXCEPT ![t] = [a \in Addr |-> IF c.op = "write" THEN c.val ELSE Zero]]
    /\ addr' = [addr EXCEPT ![t] = c.lo]
    /\ walk' = [walk EXCEPT ![t] = c.lo]
    /\ pc' = [pc EXCEPT ![t] = FirstStep(c.op)]
    /\ ret' = [ret EXCEPT ![t] = "none"]
    /\ ncmd' = ncmd + 1
    /\ UNCHANGED <<mmVars, seqVars, pt, mutex, entry, pfns, perm, migVars, ninval, stores>>

Submit(t) ==
    \E c \in Cmd : c.op \in OpOf[t] \ {"fault"} /\ (c.op # "write" => c.val = Zero) /\ Start(t, c)

(***************************************************************************)
(* The CPU touches a page that is in device memory: migrate_to_ram().      *)
(***************************************************************************)
dmirror_devmem_fault(t) ==
    /\ "fault" \in OpOf[t]
    /\ \E a \in Addr : /\ cpu[a].kind = "dev"
                       /\ Start(t, [op |-> "fault", lo |-> a, hi |-> a, val |-> Zero])

Return(t, r) ==
    /\ pc' = [pc EXCEPT ![t] = "idle"]
    /\ cmd' = [cmd EXCEPT ![t] = NoCmd]
    /\ ret' = [ret EXCEPT ![t] = r]

(***************************************************************************)
(* dmirror_bounce_init(), with copy_from_user() for a write.               *)
(***************************************************************************)
BounceInit(t) ==
    /\ pc[t] = "bounce"
    /\ \/ pc' = [pc EXCEPT ![t] = "lock"] /\ UNCHANGED <<cmd, ret>>
       \/ Return(t, "error")
    /\ UNCHANGED <<mmVars, seqVars, pt, mutex, cur, bounce, entry, faultVars, migVars, countVars>>

\* Mutant: the table is used without the mutex.
MutexLockSkipped(t) ==
    /\ pc[t] = "lock" /\ mutex = Nobody
    /\ pc' = [pc EXCEPT ![t] = "load"]
    /\ UNCHANGED <<mmVars, seqVars, pt, mutex, accessVars, faultVars, migVars, countVars>>

(***************************************************************************)
(* dmirror_read() and dmirror_write(), and the final read of the migrated  *)
(* data in dmirror_migrate_to_device() and dmirror_exclusive().            *)
(***************************************************************************)
MutexLock(t) ==
    /\ pc[t] = "lock"
    /\ mutex = Nobody
    /\ mutex' = t
    /\ pc' = [pc EXCEPT ![t] = "load"]
    /\ UNCHANGED <<mmVars, seqVars, pt, accessVars, faultVars, migVars, countVars>>

(***************************************************************************)
(* dmirror_do_write() wants an entry with the write tag, dmirror_do_read() *)
(* is content with any.                                                    *)
(***************************************************************************)
Usable(t, e) == e # NoEntry /\ (cmd[t].op = "write" => e.tag = "WRITE")

Load(t) ==
    /\ pc[t] = "load"
    /\ cur[t] \in Range(t)
    /\ Usable(t, pt[cur[t]])
    /\ entry' = [entry EXCEPT ![t] = pt[cur[t]]]
    /\ pc' = [pc EXCEPT ![t] = "copy"]
    /\ UNCHANGED <<mmVars, seqVars, pt, mutex, cmd, cur, bounce, ret, faultVars, migVars, countVars>>

\* Mutant: skips a page.
AdvanceTwo(t) == [cur EXCEPT ![t] = @ + 2]

\* bounce->cpages++
Advance(t) == [cur EXCEPT ![t] = @ + 1]

(***************************************************************************)
(* The memcpy() of one page.                                               *)
(***************************************************************************)
Copy(t) ==
    /\ pc[t] = "copy"
    /\ ~entry[t].zone
    /\ IF cmd[t].op = "write"
         THEN /\ data' = [data EXCEPT ![entry[t].frame] = bounce[t][cur[t]]]
              /\ UNCHANGED bounce
         ELSE /\ bounce' = [bounce EXCEPT ![t][cur[t]] = data[entry[t].frame]]
              /\ UNCHANGED data
    /\ cur' = Advance(t)
    /\ entry' = [entry EXCEPT ![t] = NoEntry]
    /\ pc' = [pc EXCEPT ![t] = "load"]
    /\ UNCHANGED <<cpu, inval, seqVars, pt, mutex, cmd, ret, faultVars, migVars, countVars>>

(***************************************************************************)
(* A ZONE_DEVICE page has no memory behind the address that kmap() makes   *)
(* up: the kernel kills the thread, which leaves the mutex locked.         *)
(***************************************************************************)
CopyOops(t) ==
    /\ pc[t] = "copy"
    /\ entry[t].zone
    /\ pc' = [pc EXCEPT ![t] = "oops"]
    /\ UNCHANGED <<mmVars, seqVars, pt, mutex, accessVars, faultVars, migVars, countVars>>

(***************************************************************************)
(* All pages done.  What was read goes to the user, if copy_to_user() can. *)
(***************************************************************************)
AccessDone(t) ==
    /\ pc[t] = "load"
    /\ cur[t] \notin Range(t)
    /\ mutex' = Nobody
    /\ \/ Return(t, "ok")
       \/ cmd[t].op # "write" /\ Return(t, "error")
    /\ UNCHANGED <<mmVars, seqVars, pt, cur, bounce, entry, faultVars, migVars, countVars>>

(***************************************************************************)
(* -ENOENT: a read or write faults the rest of its range and tries again,  *)
(* the other two give up.                                                  *)
(***************************************************************************)
AccessMiss(t) ==
    /\ pc[t] = "load"
    /\ cur[t] \in Range(t)
    /\ ~Usable(t, pt[cur[t]])
    /\ mutex' = Nobody
    /\ IF cmd[t].op \in {"read", "write"}
         THEN /\ addr' = [addr EXCEPT ![t] = cur[t]]
              /\ pc' = [pc EXCEPT ![t] = "begin"]
              /\ UNCHANGED <<cmd, ret>>
         ELSE /\ Return(t, "error")
              /\ UNCHANGED addr
    /\ UNCHANGED <<mmVars, seqVars, pt, cur, bounce, entry, walk, pfns, perm, migVars, countVars>>

-----------------------------------------------------------------------------
(***************************************************************************)
(* dmirror_fault() and dmirror_range_fault().                              *)
(***************************************************************************)
ReadBegin(t) ==
    /\ pc[t] = "begin"
    /\ ~busy
    /\ fresh' = [fresh EXCEPT ![t] = TRUE]
    /\ walk' = [walk EXCEPT ![t] = addr[t]]
    /\ pfns' = [pfns EXCEPT ![t] = [a \in Addr |-> NoPfn]]
    /\ pc' = [pc EXCEPT ![t] = "mmap"]
    /\ UNCHANGED <<mmVars, active, busy, sbusy, pt, mutex, accessVars, addr, perm, migVars, countVars>>

MmapReadLock(t) ==
    /\ pc[t] = "mmap"
    /\ ~MmapWriter
    /\ pc' = [pc EXCEPT ![t] = "walk"]
    /\ UNCHANGED <<mmVars, seqVars, pt, mutex, accessVars, faultVars, migVars, countVars>>

(***************************************************************************)
(* hmm_range_fault(), page by page.  A page in this device's memory is     *)
(* reported as it is, whatever access was asked for; a system page must    *)
(* allow the access (if it does not, the kernel faults it first: Populate  *)
(* or an invalidator).                                                     *)
(***************************************************************************)
Walk(t) ==
    LET p == cpu[walk[t]] IN
    /\ pc[t] = "walk"
    /\ walk[t] <= BatchEnd(t)
    /\ \/ p.kind = "dev"
       \/ p.kind = "sys" /\ (cmd[t].op = "write" => p.write)
    /\ pfns' = [pfns EXCEPT ![t][walk[t]] =
                  [frame |-> p.frame, zone |-> p.kind = "dev", write |-> p.write]]
    /\ walk' = [walk EXCEPT ![t] = @ + 1]
    /\ pc' = [pc EXCEPT ![t] = IF walk[t] = BatchEnd(t) THEN "commit" ELSE "walk"]
    /\ UNCHANGED <<mmVars, seqVars, pt, mutex, accessVars, addr, perm, migVars, countVars>>

(***************************************************************************)
(* -EBUSY: a migration entry, or the sequence changed during the walk.     *)
(***************************************************************************)
WalkBusy(t) ==
    /\ pc[t] = "walk"
    /\ cpu[walk[t]].kind \in {"migsys", "migdev"} \/ ~fresh[t]
    /\ pc' = [pc EXCEPT ![t] = "begin"]
    /\ UNCHANGED <<mmVars, seqVars, pt, mutex, accessVars, faultVars, migVars, countVars>>

(***************************************************************************)
(* The range cannot be faulted, or the time is up.                         *)
(***************************************************************************)
FaultFails(t) ==
    /\ pc[t] \in {"begin", "walk"}
    /\ Return(t, "error")
    /\ UNCHANGED <<mmVars, seqVars, pt, mutex, cur, bounce, entry, faultVars, migVars, countVars>>

\* Mutant: an invalidation during the walk goes unnoticed.
UpToDateAlways(t) == TRUE

\* !mmu_interval_read_retry()
UpToDate(t) == fresh[t]

Retry(t) ==
    /\ pc[t] = "commit"
    /\ mutex = Nobody
    /\ ~UpToDate(t)
    /\ pc' = [pc EXCEPT ![t] = "begin"]
    /\ UNCHANGED <<mmVars, seqVars, pt, mutex, accessVars, faultVars, migVars, countVars>>

(***************************************************************************)
(* dmirror_do_fault() stores the pages in order and stops at the first it  *)
(* cannot store: a page that is not writable although the fault is for     *)
(* writing, or an empty slot for which xa_store() finds no memory.         *)
(***************************************************************************)
Stored(p) == [frame |-> p.frame, zone |-> p.zone, tag |-> IF p.write THEN "WRITE" ELSE "READ"]

CanFail(a) == StoreFails /\ pt[a] = NoEntry

CanStore(t, a) == cmd[t].op = "write" => pfns[t][a].write

dmirror_do_fault(t, stop) ==
    /\ \A a \in BatchRange(t) : a < stop => CanStore(t, a)
    /\ stop <= BatchEnd(t) => ~CanStore(t, stop) \/ CanFail(stop)
    /\ pt' = [a \in Addr |-> IF a \in BatchRange(t) /\ a < stop
                               THEN Stored(pfns[t][a]) ELSE pt[a]]

Commit(t) ==
    /\ pc[t] = "commit"
    /\ mutex = Nobody
    /\ UpToDate(t)
    /\ \E stop \in addr[t]..(BatchEnd(t) + 1) :
         /\ dmirror_do_fault(t, stop)
         /\ IF stop <= BatchEnd(t)
              THEN Return(t, "error") /\ UNCHANGED addr
              ELSE /\ addr' = [addr EXCEPT ![t] = stop]
                   /\ pc' = [pc EXCEPT ![t] = IF stop > cmd[t].hi THEN "lock" ELSE "begin"]
                   /\ UNCHANGED <<cmd, ret>>
    /\ UNCHANGED <<mmVars, seqVars, mutex, cur, bounce, entry, walk, pfns, perm, migVars, countVars>>

-----------------------------------------------------------------------------
(***************************************************************************)
(* dmirror_migrate_to_device(), dmirror_migrate_to_system() and            *)
(* dmirror_devmem_fault().                                                 *)
(***************************************************************************)
Outbound(t) == cmd[t].op = "todev"

(***************************************************************************)
(* migrate_vma_setup(): the pages that can be isolated get migration       *)
(* entries.                                                                *)
(***************************************************************************)
Isolatable(t, a) ==
    IF Outbound(t) THEN cpu[a] = None \/ (cpu[a].kind = "sys" /\ ~PageLocked(a))
                   ELSE cpu[a].kind = "dev"

Setup(t) ==
    /\ pc[t] \in {"setup", "more"}
    /\ ~MmapWriter
    /\ \E S \in SUBSET {a \in BatchRange(t) : Isolatable(t, a)} :
         /\ sel' = [sel EXCEPT ![t] = S]
         /\ src' = [src EXCEPT ![t] = [a \in Addr |-> IF a \in S THEN cpu[a].frame ELSE NoFrame]]
         /\ cpu' = [a \in Addr |->
                      IF a \in S /\ cpu[a] # None
                        THEN [cpu[a] EXCEPT !.kind = IF Outbound(t) THEN "migsys" ELSE "migdev"]
                        ELSE cpu[a]]
    /\ OwnInvalidate(BatchRange(t))
    /\ pc' = [pc EXCEPT ![t] = "alloc"]
    /\ UNCHANGED <<data, inval, pt, mutex, accessVars, faultVars, dst, countVars>>

SetupFails(t) ==
    /\ pc[t] \in {"setup", "more"}
    /\ Return(t, "error")
    /\ UNCHANGED <<mmVars, seqVars, pt, mutex, cur, bounce, entry, faultVars, migVars, countVars>>

\* Mutant: the entries of pages on their way back stay.
KeptEntries(t, D) == pt

ErasedEntries(t, D) ==
    IF Outbound(t) THEN pt ELSE [a \in Addr |-> IF a \in D THEN NoEntry ELSE pt[a]]

(***************************************************************************)
(* New pages for the selected ones, as far as there is memory.  On the way *)
(* back to the system the mirror's entry of such a page is erased; this    *)
(* xa_erase() is not under the mutex.                                      *)
(***************************************************************************)
Alloc(t) ==
    /\ pc[t] = "alloc"
    /\ \E D \in SUBSET sel[t] :
         /\ \E new \in [D -> FreeFrames] :
              /\ \A a, b \in D : new[a] = new[b] => a = b
              /\ dst' = [dst EXCEPT ![t] = [a \in Addr |-> IF a \in D THEN new[a] ELSE NoFrame]]
         /\ pt' = ErasedEntries(t, D)
    /\ pc' = [pc EXCEPT ![t] = "copy_to"]
    /\ UNCHANGED <<mmVars, seqVars, mutex, accessVars, faultVars, src, sel, countVars>>

\* Mutant: every new page is cleared.
Cleared(t, a) == Zero

(***************************************************************************)
(* copy_highpage(), or clear_highpage() for a page that did not exist.     *)
(***************************************************************************)
Contents(t, a) == IF src[t][a] = NoFrame THEN Zero ELSE data[src[t][a]]

CopyPages(t) ==
    /\ pc[t] = "copy_to"
    /\ data' = [f \in Frame |->
                  IF \E a \in sel[t] : dst[t][a] = f
                    THEN Contents(t, CHOOSE a \in sel[t] : dst[t][a] = f)
                    ELSE data[f]]
    /\ pc' = [pc EXCEPT ![t] = "pages"]
    /\ UNCHANGED <<cpu, inval, seqVars, pt, mutex, accessVars, faultVars, migVars, countVars>>

(***************************************************************************)
(* migrate_vma_pages() of the running kernel, which hmm.o is built         *)
(* against (the copy in mm/ asks a remote server for the page first).  A   *)
(* page without a destination keeps its place, and so may others (an       *)
(* unexpected reference).  A page that did not exist is inserted, if it    *)
(* still does not; the notifiers run once, from the first such page on.    *)
(***************************************************************************)
DevPte(f, w) == [kind |-> "dev", frame |-> f, write |-> w]

Inserted(t) == {a \in sel[t] : dst[t][a] # NoFrame /\ src[t][a] = NoFrame}

MigratePages(t) ==
    /\ pc[t] = "pages"
    /\ OwnInvalidate({b \in BatchRange(t) : \E a \in Inserted(t) : a <= b})
    /\ \E S \in SUBSET {a \in sel[t] : dst[t][a] # NoFrame} :
         /\ \A a \in S : src[t][a] = NoFrame => cpu[a] = None
         /\ sel' = [sel EXCEPT ![t] = S]
         /\ cpu' = [a \in Addr |->
                      IF a \in S /\ src[t][a] = NoFrame THEN DevPte(dst[t][a], TRUE) ELSE cpu[a]]
    /\ pc' = [pc EXCEPT ![t] = IF Outbound(t) THEN "map" ELSE "finalize"]
    /\ UNCHANGED <<data, inval, pt, mutex, accessVars, faultVars, src, dst, countVars>>

\* MIGRATE_PFN_MIGRATE and a destination
Mapped(t) == sel[t]

(***************************************************************************)
(* dmirror_migrate_finalize_and_map(): the mirror gets the backing pages.  *)
(* It stops, unnoticed, at an empty slot that xa_store() cannot fill.      *)
(***************************************************************************)
MapPages(t) ==
    /\ pc[t] = "map"
    /\ mutex = Nobody
    /\ \E stop \in 1..(NPages + 1) :
         /\ stop <= NPages => stop \in Mapped(t) /\ CanFail(stop)
         /\ pt' = [a \in Addr |->
                     IF a \in Mapped(t) /\ a < stop
                       THEN [frame |-> dst[t][a], zone |-> FALSE,
                             tag |-> IF src[t][a] = NoFrame \/ cpu[a].write THEN "WRITE" ELSE "READ"]
                       ELSE pt[a]]
    /\ pc' = [pc EXCEPT ![t] = "finalize"]
    /\ UNCHANGED <<mmVars, seqVars, mutex, accessVars, faultVars, migVars, countVars>>

(***************************************************************************)
(* migrate_vma_finalize(): migration entries become entries for the new    *)
(* page, or for the old one again; the other page is freed.                *)
(***************************************************************************)
Finalized(t, a) ==
    IF a \in sel[t]
      THEN [cpu[a] EXCEPT !.kind = IF Outbound(t) THEN "dev" ELSE "sys", !.frame = dst[t][a]]
      ELSE [cpu[a] EXCEPT !.kind = IF Outbound(t) THEN "sys" ELSE "dev"]

Finalize(t) ==
    /\ pc[t] = "finalize"
    /\ cpu' = [a \in Addr |->
                 IF cpu[a].kind \in {"migsys", "migdev"} /\ src[t][a] = cpu[a].frame
                   THEN Finalized(t, a) ELSE cpu[a]]
    /\ src' = [src EXCEPT ![t] = NoFrames]
    /\ dst' = [dst EXCEPT ![t] = NoFrames]
    /\ sel' = [sel EXCEPT ![t] = {}]
    /\ addr' = [addr EXCEPT ![t] = BatchEnd(t) + 1]
    /\ \/ BatchEnd(t) < cmd[t].hi /\ pc' = [pc EXCEPT ![t] = "more"] /\ UNCHANGED <<cmd, ret>>
       \/ BatchEnd(t) = cmd[t].hi /\ Outbound(t) /\ pc' = [pc EXCEPT ![t] = "bounce"] /\ UNCHANGED <<cmd, ret>>
       \/ BatchEnd(t) = cmd[t].hi /\ ~Outbound(t) /\ Return(t, "ok")
    /\ UNCHANGED <<data, inval, seqVars, pt, mutex, cur, bounce, entry, walk, pfns, perm, countVars>>

-----------------------------------------------------------------------------
(***************************************************************************)
(* dmirror_exclusive(): make_device_exclusive_range() page by page, then   *)
(* dmirror_atomic_map().  mmap_lock is held for reading throughout, and a  *)
(* page stays locked until it is mapped.                                   *)
(***************************************************************************)
ExclusiveStart(t) ==
    /\ pc[t] = "xstart"
    /\ ~MmapWriter
    /\ pc' = [pc EXCEPT ![t] = "xcall"]
    /\ UNCHANGED <<mmVars, seqVars, pt, mutex, accessVars, faultVars, migVars, countVars>>

ExclusiveCall(t) ==
    /\ pc[t] = "xcall"
    /\ walk[t] <= BatchEnd(t)
    /\ cpu[walk[t]].kind = "sys" /\ cpu[walk[t]].write /\ ~PageLocked(walk[t])
    /\ dmirror_interval_invalidate(t, walk[t])
    /\ pc' = [pc EXCEPT ![t] = "xset"]
    /\ UNCHANGED <<mmVars, mutex, accessVars, faultVars, migVars, countVars>>

ExclusiveSet(t) ==
    LET a == walk[t] IN
    /\ pc[t] = "xset"
    /\ IF cpu[a].kind = "sys" /\ cpu[a].write
         THEN /\ cpu' = [cpu EXCEPT ![a].kind = "excl"]
              /\ dst' = [dst EXCEPT ![t][a] = cpu[a].frame]
         ELSE UNCHANGED <<cpu, dst>>
    /\ walk' = [walk EXCEPT ![t] = @ + 1]
    /\ pc' = [pc EXCEPT ![t] = "xcall"]
    /\ RangeEnd(t)
    /\ UNCHANGED <<data, inval, pt, mutex, accessVars, addr, pfns, perm, src, sel, countVars>>

(***************************************************************************)
(* A page that cannot be made exclusive is skipped.                        *)
(***************************************************************************)
ExclusiveSkip(t) ==
    /\ pc[t] = "xcall"
    /\ walk[t] <= BatchEnd(t)
    /\ walk' = [walk EXCEPT ![t] = @ + 1]
    /\ UNCHANGED <<mmVars, seqVars, pt, mutex, pc, accessVars, addr, pfns, perm, migVars, countVars>>

(***************************************************************************)
(* get_user_pages() inside make_device_exclusive_range() ends early: the   *)
(* pages marked so far are unlocked and never mapped.                      *)
(***************************************************************************)
ExclusiveShort(t) ==
    /\ pc[t] = "xcall"
    /\ walk[t] <= BatchEnd(t)
    /\ dst' = [dst EXCEPT ![t] = NoFrames]
    /\ Return(t, "error")
    /\ UNCHANGED <<mmVars, seqVars, pt, mutex, cur, bounce, entry, faultVars, src, sel, countVars>>

AtomicEntry(f) == [frame |-> f, zone |-> FALSE, tag |-> "ATOMIC"]

(***************************************************************************)
(* dmirror_atomic_map() and the unlocking of the pages.  -EBUSY unless all *)
(* pages of the batch were mapped; a failing xa_store() ends the loop.     *)
(***************************************************************************)
AtomicMap(t) ==
    /\ pc[t] = "xcall"
    /\ walk[t] > BatchEnd(t)
    /\ mutex = Nobody
    /\ \E stop \in 1..(NPages + 1) :
         /\ stop <= NPages => dst[t][stop] # NoFrame /\ CanFail(stop)
         /\ pt' = [a \in Addr |->
                     IF dst[t][a] # NoFrame /\ a < stop
                       THEN AtomicEntry(dst[t][a]) ELSE pt[a]]
         /\ IF stop > NPages /\ \A a \in BatchRange(t) : dst[t][a] # NoFrame
              THEN /\ addr' = [addr EXCEPT ![t] = BatchEnd(t) + 1]
                   /\ pc' = [pc EXCEPT ![t] = IF BatchEnd(t) < cmd[t].hi THEN "xcall" ELSE "bounce"]
                   /\ UNCHANGED <<cmd, ret>>
              ELSE Return(t, "error") /\ UNCHANGED addr
    /\ dst' = [dst EXCEPT ![t] = NoFrames]
    /\ UNCHANGED <<mmVars, seqVars, mutex, cur, bounce, entry, walk, pfns, perm, src, sel, countVars>>

(***************************************************************************)
(* dmirror_check_atomic() looks at the entries without the mutex.          *)
(***************************************************************************)
dmirror_check_atomic(t) ==
    LET e == pt[walk[t]] IN
    /\ pc[t] = "check"
    /\ IF e # NoEntry /\ e.tag = "ATOMIC"
         THEN Return(t, "error") /\ UNCHANGED walk
         ELSE /\ walk' = [walk EXCEPT ![t] = @ + 1]
              /\ IF walk[t] < cmd[t].hi THEN UNCHANGED <<pc, cmd, ret>> ELSE Return(t, "ok")
    /\ UNCHANGED <<mmVars, seqVars, pt, mutex, cur, bounce, entry, addr, pfns, perm, migVars, countVars>>

-----------------------------------------------------------------------------
(***************************************************************************)
(* dmirror_snapshot() and dmirror_range_snapshot(): what the page table    *)
(* says of a range, batch by batch.  A batch has its own notifier.  One    *)
(* that is inserted while a range is being invalidated is busy at first.   *)
(***************************************************************************)
SnapshotInsert(t) ==
    /\ pc[t] = "sinsert"
    /\ \/ /\ sbusy' = IF active = {} THEN sbusy \ {t} ELSE sbusy \cup {t}
          /\ pc' = [pc EXCEPT ![t] = "sbegin"]
          /\ UNCHANGED <<cmd, ret>>
       \/ Return(t, "error") /\ UNCHANGED sbusy
    /\ UNCHANGED <<mmVars, active, busy, fresh, pt, mutex, cur, bounce, entry, faultVars, migVars, countVars>>

SnapshotBegin(t) ==
    /\ pc[t] = "sbegin"
    /\ t \notin sbusy
    /\ fresh' = [fresh EXCEPT ![t] = TRUE]
    /\ walk' = [walk EXCEPT ![t] = addr[t]]
    /\ pc' = [pc EXCEPT ![t] = "smmap"]
    /\ UNCHANGED <<mmVars, active, busy, sbusy, pt, mutex, accessVars, addr, pfns, perm, migVars, countVars>>

SnapshotLock(t) ==
    /\ pc[t] = "smmap"
    /\ ~MmapWriter
    /\ pc' = [pc EXCEPT ![t] = "swalk"]
    /\ UNCHANGED <<mmVars, seqVars, pt, mutex, accessVars, faultVars, migVars, countVars>>

(***************************************************************************)
(* hmm_range_fault() that asks for no access: nothing is faulted in.  What *)
(* is neither a page nor in this device's memory is reported as 0, and an  *)
(* address with no page may be one that no device may look at.             *)
(***************************************************************************)
SnapshotWalk(t) ==
    LET p == cpu[walk[t]] IN
    /\ pc[t] = "swalk"
    /\ walk[t] = addr[t] => fresh[t]
    /\ \E pfn \in IF p.kind \in {"sys", "dev"}
                    THEN {[frame |-> p.frame, zone |-> p.kind = "dev", write |-> p.write]}
                    ELSE {NoPfn} \cup IF p.kind = "none" THEN {ErrorPfn} ELSE {} :
         pfns' = [pfns EXCEPT ![t][walk[t]] = pfn]
    /\ walk' = [walk EXCEPT ![t] = @ + 1]
    /\ pc' = [pc EXCEPT ![t] = IF walk[t] = BatchEnd(t) THEN "scommit" ELSE "swalk"]
    /\ UNCHANGED <<mmVars, seqVars, pt, mutex, accessVars, addr, perm, migVars, countVars>>

\* Mutant: an invalidation during the walk goes unnoticed.
SnapshotCurrentAlways(t) == TRUE

\* !mmu_interval_read_retry()
SnapshotCurrent(t) == fresh[t]

(***************************************************************************)
(* -EBUSY from hmm_range_fault(), which looks at the sequence before it    *)
(* starts, or the retry check under the mutex.                             *)
(***************************************************************************)
SnapshotRetry(t) ==
    /\ \/ pc[t] = "swalk" /\ walk[t] = addr[t] /\ ~fresh[t]
       \/ pc[t] = "scommit" /\ mutex = Nobody /\ ~SnapshotCurrent(t)
    /\ pc' = [pc EXCEPT ![t] = "sbegin"]
    /\ UNCHANGED <<mmVars, seqVars, pt, mutex, accessVars, faultVars, migVars, countVars>>

dmirror_mkentry(p) ==
    CASE p = ErrorPfn -> "ERROR"
      [] p # ErrorPfn /\ p.frame = NoFrame -> "NONE"
      [] p # ErrorPfn /\ p.frame # NoFrame /\ p.zone -> IF p.write THEN "LOCAL_WRITE" ELSE "LOCAL_READ"
      [] OTHER -> IF p.write THEN "WRITE" ELSE "READ"

SnapshotCommit(t) ==
    /\ pc[t] = "scommit"
    /\ mutex = Nobody
    /\ SnapshotCurrent(t)
    /\ perm' = [perm EXCEPT ![t] = [a \in Addr |->
                  IF a \in BatchRange(t) THEN dmirror_mkentry(pfns[t][a]) ELSE "NONE"]]
    /\ pfns' = [pfns EXCEPT ![t] = [a \in Addr |-> NoPfn]]
    /\ pc' = [pc EXCEPT ![t] = "sout"]
    /\ UNCHANGED <<mmVars, seqVars, pt, mutex, accessVars, addr, walk, migVars, countVars>>

(***************************************************************************)
(* The notifier is removed, which waits for the invalidations under way;   *)
(* then perm[] goes to the user, if copy_to_user() can, and is counted in  *)
(* cpages.                                                                 *)
(***************************************************************************)
SnapshotOut(t) ==
    /\ pc[t] = "sout"
    /\ active = {}
    /\ perm' = [perm EXCEPT ![t] = NoPerms]
    /\ \/ /\ cur' = [cur EXCEPT ![t] = BatchEnd(t) + 1]
          /\ addr' = [addr EXCEPT ![t] = BatchEnd(t) + 1]
          /\ pc' = [pc EXCEPT ![t] = "snext"]
          /\ UNCHANGED <<cmd, ret>>
       \/ Return(t, "error") /\ UNCHANGED <<cur, addr>>
    /\ UNCHANGED <<mmVars, seqVars, pt, mutex, bounce, entry, walk, pfns, migVars, countVars>>

SnapshotNext(t) ==
    /\ pc[t] = "snext"
    /\ \/ addr[t] <= cmd[t].hi /\ pc' = [pc EXCEPT ![t] = "sinsert"] /\ UNCHANGED <<cmd, ret>>
       \/ addr[t] > cmd[t].hi /\ Return(t, "ok")
    /\ UNCHANGED <<mmVars, seqVars, pt, mutex, cur, bounce, entry, faultVars, migVars, countVars>>

(***************************************************************************)
(* The time is up, or hmm_range_fault() fails (after which mmap_lock is    *)
(* given back): an error, once the notifier is removed.                    *)
(***************************************************************************)
SnapshotFails(t) ==
    /\ \/ pc[t] = "swalk" /\ pc' = [pc EXCEPT ![t] = "sfail"] /\ UNCHANGED <<cmd, ret>>
       \/ pc[t] \in {"sbegin", "sfail"} /\ active = {} /\ Return(t, "error")
    /\ UNCHANGED <<mmVars, seqVars, pt, mutex, cur, bounce, entry, faultVars, migVars, countVars>>

-----------------------------------------------------------------------------
Access(t) == BounceInit(t) \/ MutexLock(t) \/ Load(t) \/ Copy(t) \/ CopyOops(t) \/ AccessDone(t) \/ AccessMiss(t)

Fault(t) ==
    \/ ReadBegin(t) \/ MmapReadLock(t) \/ Walk(t) \/ WalkBusy(t)
    \/ Retry(t) \/ Commit(t)

Migrate(t) ==
    \/ Setup(t) \/ SetupFails(t) \/ Alloc(t) \/ CopyPages(t)
    \/ MigratePages(t) \/ MapPages(t) \/ Finalize(t)

Exclusive(t) ==
    \/ ExclusiveStart(t) \/ ExclusiveCall(t) \/ ExclusiveSet(t)
    \/ ExclusiveSkip(t) \/ ExclusiveShort(t) \/ AtomicMap(t) \/ dmirror_check_atomic(t)

Snapshot(t) ==
    \/ SnapshotInsert(t) \/ SnapshotBegin(t) \/ SnapshotLock(t) \/ SnapshotWalk(t)
    \/ SnapshotRetry(t) \/ SnapshotCommit(t) \/ SnapshotOut(t) \/ SnapshotNext(t)

Kernel ==
    \/ \E a \in Addr : Populate(a) \/ \E v \in Value : CpuStore(a, v)
    \/ \E i \in Invalidator : InvalidateStart(i) \/ InvalidateEnd(i)

Next ==
    \/ \E t \in Thread :
         \/ Submit(t) \/ dmirror_devmem_fault(t) \/ Access(t) \/ Fault(t) \/ FaultFails(t)
         \/ Migrate(t) \/ Exclusive(t) \/ Snapshot(t) \/ SnapshotFails(t)
    \/ Kernel

Spec == Init /\ [][Next]_vars

(***************************************************************************)
(* A thread in an ioctl runs on, the kernel ends each invalidation, and a  *)
(* page that hmm_range_fault() asks for is brought in.  Giving up (the     *)
(* timeout, failing allocations) is never relied upon.                     *)
(***************************************************************************)
FairSpec ==
    /\ Spec
    /\ \A t \in Thread : WF_vars(\/ Access(t) \/ Fault(t) \/ Snapshot(t)
                               \/ (pc[t] = "sfail" /\ SnapshotFails(t)))
    /\ \A i \in Invalidator : WF_vars(InvalidateEnd(i))
    /\ \A a \in Addr : WF_vars(Populate(a))

-----------------------------------------------------------------------------
(***************************************************************************)
(* Properties.                                                             *)
(***************************************************************************)

(***************************************************************************)
(* Every variable has its type.                                            *)
(***************************************************************************)
TypeOK ==
    /\ cpu \in [Addr -> Pte]
    /\ data \in [Frame -> Value]
    /\ inval \in [Invalidator -> Change \cup {NoCmd}]
    /\ active \subseteq Thread \cup Invalidator
    /\ busy \in BOOLEAN
    /\ sbusy \subseteq Thread
    /\ fresh \in [Thread -> BOOLEAN]
    /\ pt \in [Addr -> Entry \cup {NoEntry}]
    /\ mutex \in Thread \cup {Nobody}
    /\ cmd \in [Thread -> Cmd \cup {NoCmd}]
    /\ cur \in [Thread -> 1..(NPages + 1)]
    /\ bounce \in [Thread -> [Addr -> Value]]
    /\ ret \in [Thread -> {"none", "ok", "error"}]
    /\ entry \in [Thread -> Entry \cup {NoEntry}]
    /\ addr \in [Thread -> 1..(NPages + 1)]
    /\ walk \in [Thread -> 1..(NPages + 1)]
    /\ pfns \in [Thread -> [Addr -> Pfn]]
    /\ perm \in [Thread -> [Addr -> Perm]]
    /\ src \in [Thread -> [Addr -> Frame \cup {NoFrame}]]
    /\ dst \in [Thread -> [Addr -> Frame \cup {NoFrame}]]
    /\ sel \in [Thread -> SUBSET Addr]

(***************************************************************************)
(* The promise of dmirror_do_update()'s comment: the mirror holds no page  *)
(* references because the notifier clears pointers before they are stale.  *)
(* So an entry always names the page the process has there (or, in the     *)
(* last step of a migration, is about to have), allows writing only where  *)
(* the process may write, and is atomic exactly while the CPU is shut out. *)
(***************************************************************************)
Current(a, e) ==
    \/ /\ e.frame = cpu[a].frame
       /\ e.tag = "WRITE" => cpu[a].write
       /\ e.tag = "ATOMIC" <=> cpu[a].kind = "excl"
    \/ \E t \in Thread : pc[t] = "finalize" /\ a \in sel[t] /\ e.frame = dst[t][a]

NoStaleEntry == \A a \in Addr : pt[a] # NoEntry => Current(a, pt[a])

(***************************************************************************)
(* The device's data is kept in real system memory (comment in             *)
(* dmirror_devmem_alloc_page()): the mirror names pages with memory, never *)
(* the ZONE_DEVICE page itself.                                            *)
(***************************************************************************)
MirrorAddressable == \A a \in Addr : pt[a] # NoEntry => ~pt[a].zone

(***************************************************************************)
(* The mirror implements one memory shared by CPU and device.              *)
(***************************************************************************)
Shared == INSTANCE SharedMemory WITH mem <- Memory

ImplementsSharedMemory == Shared!Spec

(***************************************************************************)
(* A snapshot is one moment's: whatever it reports of a batch, other than  *)
(* "not there" or "error", the page table says at the time of the check    *)
(* under the mutex, for all pages of the batch together.  (Those two may   *)
(* be out of date: pages come in, and migrations end, without a            *)
(* notification.)                                                          *)
(***************************************************************************)
Permission(p) ==
    CASE p.kind = "sys" -> IF p.write THEN "WRITE" ELSE "READ"
      [] p.kind = "dev" -> IF p.write THEN "LOCAL_WRITE" ELSE "LOCAL_READ"
      [] OTHER -> "NONE"

SnapshotSound ==
    [][\A t \in Thread : pc[t] = "scommit" /\ pc'[t] = "sout" =>
         \A a \in BatchRange(t) : perm'[t][a] \in {"NONE", "ERROR", Permission(cpu[a])}]_vars

(***************************************************************************)
(* dmirror_read()'s loop and dmirror_range_fault()'s retries end: once the *)
(* invalidations stop, every command returns, by success or by an error.   *)
(***************************************************************************)
CommandCompletes == \A t \in Thread : cmd[t] # NoCmd ~> cmd[t] = NoCmd
=============================================================================
