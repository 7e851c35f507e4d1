---------------------------- MODULE MirrorShared ----------------------------
(***************************************************************************)
(* Proofs about the mirrored address space of hmm.c: an entry of the       *)
(* mirror always names the page that the process has there, and so the     *)
(* device and the CPU share one memory.                                    *)
(***************************************************************************)
EXTENDS MirrorProofs

Moves == {"todev", "tosys", "fault"}

(***************************************************************************)
(* When the mirror keeps its promise: a thread that migrates is the only   *)
(* one that accesses pages, and stores into the xarray do not fail then    *)
(* (the mirror is not told of its own migrations, and ignores a failure);  *)
(* and no page is discarded while threads migrate or take exclusive access *)
(* (dmirror_atomic_map() does not check the sequence).                     *)
(***************************************************************************)
Regime ==
    /\ "discard" \in Event =>
         \A t \in Thread : OpOf[t] \subseteq {"read", "write", "check", "snapshot"}
    /\ \A t \in Thread : OpOf[t] \cap Moves # {} =>
         /\ ~StoreFails
         /\ \A u \in Thread \ {t} : OpOf[u] \subseteq {"check", "snapshot"}

\* The destinations of a migration and the pages of exclusive access are there only while
\* the thread works on them.
DstOf(t) ==
    pc[t] \notin {"copy_to", "pages", "map", "finalize", "xcall", "xset"} =>
        \A a \in Addr : dst[t][a] = NoFrame

DstInv == \A t \in Thread : DstOf(t)

\* mmap_lock.
MmapInv == ~(MmapReader /\ MmapWriter)

(***************************************************************************)
(* Page locks: the pages that exclusive access works on, one that is being *)
(* marked and those that were.                                             *)
(***************************************************************************)
Marking(t, a) == pc[t] = "xset" /\ walk[t] = a

Marked(t, a) == pc[t] \in {"xcall", "xset"} /\ dst[t][a] # NoFrame

Locks(t, a) == Marking(t, a) \/ Marked(t, a)

Pending(i) == inval[i] # NoCmd

LockInv ==
    /\ \A i \in Invalidator, t \in Thread :
         Pending(i) /\ inval[i].ev \in {"move", "restore"} => ~Locks(t, Page(i))
    /\ \A t, u \in Thread, a \in Addr : t # u /\ Locks(t, a) => ~Locks(u, a)

MarkOf(t) ==
    \A a \in Addr :
        /\ Marked(t, a) => Is(cpu[a], "excl", dst[t][a], TRUE)
        /\ Marking(t, a) => cpu[a].kind = "sys" /\ cpu[a].write /\ pt[a] = NoEntry

MarkInv == \A t \in Thread : MarkOf(t)

(***************************************************************************)
(* What a migration has in hand: migration entries for its sources; on the *)
(* way out, pages that it has inserted and entries that it has stored; on  *)
(* the way back, no entry of a page that gets a new place.                 *)
(***************************************************************************)
Moving(t) == pc[t] \in {"alloc", "copy_to", "pages", "map", "finalize"}

MoveOf(t) ==
    Moving(t) => \A a \in Addr :
        /\ src[t][a] # NoFrame =>
             /\ cpu[a].kind = (IF Outbound(t) THEN "migsys" ELSE "migdev")
             /\ cpu[a].frame = src[t][a]
        /\ a \in sel[t] /\ src[t][a] = NoFrame => Outbound(t)
        /\ a \in sel[t] /\ src[t][a] = NoFrame /\ pc[t] \in {"map", "finalize"} =>
             Is(cpu[a], "dev", dst[t][a], TRUE)
        /\ a \in sel[t] /\ ~Outbound(t) /\ dst[t][a] # NoFrame => pt[a] = NoEntry
        /\ a \in sel[t] /\ Outbound(t) /\ pc[t] = "finalize" /\ pt[a] # NoEntry =>
             /\ pt[a].frame = dst[t][a] /\ pt[a].tag # "ATOMIC"
             /\ pt[a].tag = "WRITE" => cpu[a].write

MoveInv == \A t \in Thread : MoveOf(t)

\* A fault whose reading is still valid has read what the page table says.
WalkedOf(t) ==
    pc[t] \in {"walk", "commit"} /\ fresh[t] =>
        \A a \in BatchRange(t) : a < walk[t] =>
            /\ cpu[a].kind \in {"sys", "dev"}
            /\ pfns[t][a].frame = cpu[a].frame /\ pfns[t][a].write = cpu[a].write

WalkedInv == \A t \in Thread : WalkedOf(t)

(***************************************************************************)
(* As long as the page table still has what an invalidation is about to    *)
(* change, be it as a migration entry, the mirror has no entry for it, or  *)
(* one that a migration has just stored for the page's new place.          *)
(***************************************************************************)
Alike(p, q) ==
    /\ p.frame = q.frame /\ p.write = q.write
    /\ p.kind \in {"sys", "migsys"} <=> q.kind \in {"sys", "migsys"}
    /\ p.kind \in {"dev", "migdev"} <=> q.kind \in {"dev", "migdev"}

Placed(a) == \E t \in Thread : pc[t] = "finalize" /\ a \in sel[t]

PendInv ==
    \A i \in Invalidator :
        Pending(i) /\ (inval[i].ev = "discard" \/ Alike(cpu[Page(i)], inval[i].pte)) =>
            pt[Page(i)] = NoEntry \/ Placed(Page(i))

SharedInv ==
    /\ MirrorInv
    /\ DstInv /\ MmapInv /\ LockInv /\ MarkInv /\ MoveInv /\ WalkedInv /\ PendInv /\ NoStaleEntry

-----------------------------------------------------------------------------
(***************************************************************************)
(* Who runs beside whom.                                                   *)
(***************************************************************************)
\* A thread that migrates is alone with those that check and take snapshots.
LEMMA Alone ==
    ASSUME Regime, PcInv, NEW t \in Thread, pc[t] \in MigratePc
    PROVE  /\ ~StoreFails /\ "discard" \notin Event
           /\ \A u \in Thread : u # t => pc[u] \in {"idle", "check"} \cup SnapshotPc
  <1>1. cmd[t].op \in OpOf[t] /\ cmd[t].op \in Moves
    BY DEF PcInv, PcOf, Fits, MigratePc, Moves
  <1>2. ~StoreFails /\ \A u \in Thread \ {t} : OpOf[u] \subseteq {"check", "snapshot"}
    BY <1>1 DEF Regime
  <1>3. "discard" \notin Event  BY <1>1 DEF Regime, Moves
  <1>4. ASSUME NEW u \in Thread, u # t PROVE pc[u] \in {"idle", "check"} \cup SnapshotPc
    <2>1. pc[u] # "idle" => cmd[u].op \in {"check", "snapshot"}  BY <1>2, <1>4 DEF PcInv, PcOf
    <2>2. pc[u] \in Pcs /\ (pc[u] # "idle" => Fits(pc[u], cmd[u].op))  BY DEF PcInv, PcOf
    <2> QED  BY <2>1, <2>2 DEF Fits, Pcs
  <1> QED  BY <1>2, <1>3, <1>4

\* No page is discarded, and none is migrated, while a thread takes exclusive access.
LEMMA Undisturbed ==
    ASSUME Regime, PcInv, NEW t \in Thread, pc[t] \in ExclusivePc
    PROVE  /\ "discard" \notin Event
           /\ \A u \in Thread : pc[u] \notin MigratePc
  <1>1. cmd[t].op \in OpOf[t] /\ cmd[t].op = "excl"
    BY DEF PcInv, PcOf, Fits, ExclusivePc
  <1>2. "discard" \notin Event  BY <1>1 DEF Regime
  <1>3. pc[t] \notin {"idle", "check"} \cup SnapshotPc \cup MigratePc
    BY DEF ExclusivePc, SnapshotPc, BatchPc, MigratePc
  <1>4. \A u \in Thread : pc[u] \notin MigratePc  BY <1>3, Alone
  <1> QED  BY <1>2, <1>4

\* An invalidation under way is of a kind that happens.
LEMMA PendingEvent ==
    ASSUME TypeOK, NEW i \in Invalidator, Pending(i)
    PROVE  /\ inval[i] \in Change /\ inval[i].ev \in Event /\ inval[i].pte \in Pte
           /\ Page(i) \in Addr
           /\ inval[i].ev \in {"move", "protect", "cow", "restore", "discard"}
  BY MirrorAssumption DEF TypeOK, Pending, Change, Page

-----------------------------------------------------------------------------
(***************************************************************************)
(* The steps that change the page table or the mirror.                     *)
(***************************************************************************)
Writes(t) ==
    \/ Commit(t) \/ Setup(t) \/ Alloc(t) \/ MigratePages(t) \/ MapPages(t) \/ Finalize(t)
    \/ ExclusiveCall(t) \/ ExclusiveSet(t) \/ AtomicMap(t)

Quiet(t) ==
    /\ UNCHANGED <<cpu, pt, inval>>
    /\ sel'[t] = sel[t] /\ src'[t] = src[t]
    /\ dst'[t] = dst[t] \/ (pc'[t] = "idle" /\ \A a \in Addr : dst'[t][a] = NoFrame)
    /\ pc[t] \notin {"alloc", "pages", "map", "finalize", "xset"}
    /\ pc'[t] \notin {"alloc", "copy_to", "map", "finalize", "xset"}
    /\ pc'[t] = "pages" => pc[t] = "copy_to" /\ cmd'[t] = cmd[t]
    /\ pc'[t] = "xcall" => pc[t] \in {"xstart", "xcall"}
    /\ pc[t] \in {"copy_to", "xcall"} => pc'[t] \in {"pages", "xcall", "idle"}
    /\ pc[t] = "copy_to" => pc'[t] = "pages"
    /\ pc[t] = "xcall" /\ pc'[t] = "idle" => \A a \in Addr : dst'[t][a] = NoFrame

\* All other steps leave both alone, and the thread's part of them.
LEMMA QuietSteps ==
    ASSUME TypeOK, PcInv, NEW t \in Thread, Steps(t), ~Writes(t)
    PROVE  Quiet(t)
  <1> pc \in [Thread -> Pcs]  BY DEF PcInv
  <1> dst \in [Thread -> [Addr -> Frame \cup {NoFrame}]] /\ cmd \in [Thread -> Cmd \cup {NoCmd}]
    BY DEF TypeOK
  <1> USE DEF Quiet
  <1>1. ASSUME NEW c \in Cmd, c.op \in OpOf[t], Start(t, c) PROVE Quiet(t)
    <2>1. pc'[t] = FirstStep(c.op) /\ pc[t] = "idle" /\ UNCHANGED <<cpu, pt, inval, sel, src, dst>>
      BY <1>1 DEF Start, mmVars, migVars
    <2> QED  BY <1>1, <2>1, FirstSteps
  <1>2. CASE BounceInit(t)  BY <1>2 DEF BounceInit, Return, mmVars, migVars
  <1>3. CASE MutexLock(t)  BY <1>3 DEF MutexLock, mmVars, accessVars, migVars
  <1>4. CASE Load(t)  BY <1>4 DEF Load, mmVars, migVars
  <1>5. CASE Copy(t)  BY <1>5 DEF Copy, migVars
  <1>6. CASE CopyOops(t)  BY <1>6 DEF CopyOops, mmVars, accessVars, migVars
  <1>7. CASE AccessDone(t)  BY <1>7 DEF AccessDone, Return, mmVars, migVars
  <1>8. CASE AccessMiss(t)  BY <1>8 DEF AccessMiss, Return, mmVars, migVars
  <1>9. CASE ReadBegin(t)  BY <1>9 DEF ReadBegin, mmVars, accessVars, migVars
  <1>10. CASE MmapReadLock(t)  BY <1>10 DEF MmapReadLock, mmVars, accessVars, migVars
  <1>11. CASE Walk(t)  BY <1>11 DEF Walk, mmVars, accessVars, migVars
  <1>12. CASE WalkBusy(t)  BY <1>12 DEF WalkBusy, mmVars, accessVars, migVars
  <1>13. CASE FaultFails(t)  BY <1>13 DEF FaultFails, Return, mmVars, migVars
  <1>14. CASE Retry(t)  BY <1>14 DEF Retry, mmVars, accessVars, migVars
  <1>15. CASE SetupFails(t)  BY <1>15 DEF SetupFails, Return, mmVars, migVars
  <1>16. CASE CopyPages(t)  BY <1>16 DEF CopyPages, accessVars, migVars
  <1>17. CASE ExclusiveStart(t)  BY <1>17 DEF ExclusiveStart, mmVars, accessVars, migVars
  <1>18. CASE ExclusiveSkip(t)  BY <1>18 DEF ExclusiveSkip, mmVars, accessVars, migVars
  <1>19. CASE ExclusiveShort(t)  BY <1>19 DEF ExclusiveShort, Return, mmVars, NoFrames
  <1>20. CASE dmirror_check_atomic(t)  BY <1>20 DEF dmirror_check_atomic, Return, mmVars, migVars
  <1>21. CASE SnapshotInsert(t)  BY <1>21 DEF SnapshotInsert, Return, mmVars, migVars
  <1>22. CASE SnapshotBegin(t)  BY <1>22 DEF SnapshotBegin, mmVars, accessVars, migVars
  <1>23. CASE SnapshotLock(t)  BY <1>23 DEF SnapshotLock, mmVars, accessVars, migVars
  <1>24. CASE SnapshotWalk(t)  BY <1>24 DEF SnapshotWalk, mmVars, accessVars, migVars
  <1>25. CASE SnapshotRetry(t)  BY <1>25 DEF SnapshotRetry, mmVars, accessVars, migVars
  <1>26. CASE SnapshotCommit(t)  BY <1>26 DEF SnapshotCommit, mmVars, accessVars, migVars
  <1>27. CASE SnapshotOut(t)  BY <1>27 DEF SnapshotOut, Return, mmVars, migVars
  <1>28. CASE SnapshotNext(t)  BY <1>28 DEF SnapshotNext, Return, mmVars, migVars
  <1>29. CASE SnapshotFails(t)  BY <1>29 DEF SnapshotFails, Return, mmVars, migVars
  <1> QED
    BY StartEffect, <1>1, <1>2, <1>3, <1>4, <1>5, <1>6, <1>7, <1>8, <1>9, <1>10, <1>11,
       <1>12, <1>13, <1>14, <1>15, <1>16, <1>17, <1>18, <1>19, <1>20, <1>21, <1>22, <1>23,
       <1>24, <1>25, <1>26, <1>27, <1>28, <1>29
       DEF Writes, Steps, Access, Fault, Migrate, Exclusive, Snapshot

\* dmirror_do_fault() stores what the walk has found.
LEMMA CommitEffect ==
    ASSUME TypeOK, PcInv, BatchInv, NEW t \in Thread, Commit(t)
    PROVE  /\ pc[t] = "commit" /\ fresh[t] /\ pc'[t] \in {"idle", "lock", "begin"}
           /\ UNCHANGED <<cpu, inval, src, dst, sel>>
           /\ \A a \in Addr : \/ pt'[a] = pt[a]
                              \/ /\ a \in BatchRange(t) /\ a < walk[t]
                                 /\ pt'[a] = Stored(pfns[t][a])
  <1>1. pc[t] = "commit" /\ fresh[t] /\ UNCHANGED <<cpu, inval, src, dst, sel>>
    BY DEF Commit, UpToDate, mmVars, migVars
  <1>2. pc'[t] \in {"idle", "lock", "begin"}  BY DEF Commit, Return, PcInv
  <1>3. PICK stop \in addr[t]..(BatchEnd(t) + 1) : dmirror_do_fault(t, stop)  BY DEF Commit
  <1>4. walk[t] = BatchEnd(t) + 1  BY <1>1 DEF BatchInv, BatchOf
  <1>5. addr[t] \in Addr /\ BatchEnd(t) \in Addr  BY <1>1, Batches DEF FaultPc
  <1>6. \A a \in Addr : a < stop => a < walk[t]  BY <1>4, <1>5 DEF Addr
  <1> QED  BY <1>1, <1>2, <1>3, <1>6 DEF dmirror_do_fault

\* migrate_vma_setup() takes pages; on the way out some that are not there.
LEMMA SetupPlace ==
    ASSUME TypeOK, PcInv, NEW t \in Thread, Setup(t)
    PROVE  /\ pc[t] \in {"setup", "more"} /\ pc'[t] = "alloc"
           /\ UNCHANGED <<pt, inval, dst, cmd>>
  BY DEF Setup, PcInv, accessVars

\* On the way back, dmirror_devmem_fault_alloc_and_copy() erases the entry of a page that gets
\* a new place.
LEMMA AllocEffect ==
    ASSUME TypeOK, PcInv, NEW t \in Thread, Alloc(t)
    PROVE  /\ pc[t] = "alloc" /\ pc'[t] = "copy_to"
           /\ UNCHANGED <<cpu, inval, src, sel, cmd>>
           /\ \A a \in Addr : /\ pt'[a] = pt[a] \/ pt'[a] = NoEntry
                              /\ ~Outbound(t) /\ dst'[t][a] # NoFrame => pt'[a] = NoEntry
  <1>1. PICK D \in SUBSET sel[t] :
          /\ \E new \in [D -> FreeFrames] :
               dst' = [dst EXCEPT ![t] = [a \in Addr |-> IF a \in D THEN new[a] ELSE NoFrame]]
          /\ pt' = ErasedEntries(t, D)
    BY DEF Alloc
  <1>2. PICK new \in [D -> FreeFrames] :
          dst' = [dst EXCEPT ![t] = [a \in Addr |-> IF a \in D THEN new[a] ELSE NoFrame]]
    BY <1>1
  <1>3. dst'[t] = [a \in Addr |-> IF a \in D THEN new[a] ELSE NoFrame]  BY <1>2 DEF TypeOK
  <1>4. \A a \in Addr : a \notin D => dst'[t][a] = NoFrame  BY <1>3
  <1>5. \A a \in Addr : pt'[a] = IF ~Outbound(t) /\ a \in D THEN NoEntry ELSE pt[a]
    BY <1>1 DEF ErasedEntries
  <1>6. /\ pc[t] = "alloc" /\ pc'[t] = "copy_to"
        /\ UNCHANGED <<cpu, inval, src, sel, cmd>>
    BY DEF Alloc, PcInv, mmVars, accessVars
  <1> QED  BY <1>4, <1>5, <1>6

LEMMA PagesPlace ==
    ASSUME TypeOK, PcInv, NEW t \in Thread, MigratePages(t)
    PROVE  /\ pc[t] = "pages" /\ pc'[t] = IF Outbound(t) THEN "map" ELSE "finalize"
           /\ UNCHANGED <<pt, inval, cmd>>
  BY DEF MigratePages, PcInv, accessVars

\* dmirror_migrate_finalize_and_map() stores an entry for every page that moves.
LEMMA MapEffect ==
    ASSUME TypeOK, PcInv, NEW t \in Thread, MapPages(t), ~StoreFails
    PROVE  /\ pc[t] = "map" /\ pc'[t] = "finalize"
           /\ UNCHANGED <<cpu, inval, src, dst, sel, cmd>>
           /\ \A a \in Addr :
                /\ a \notin sel[t] => pt'[a] = pt[a]
                /\ a \in sel[t] =>
                     /\ pt'[a].frame = dst[t][a] /\ pt'[a].tag \in {"READ", "WRITE"}
                     /\ pt'[a].tag = "WRITE" => src[t][a] = NoFrame \/ cpu[a].write
  <1>1. /\ pc[t] = "map" /\ pc'[t] = "finalize"
        /\ UNCHANGED <<cpu, inval, src, dst, sel, cmd>>
    BY DEF MapPages, PcInv, mmVars, accessVars, migVars
  <1>2. PICK stop \in 1..(NPages + 1) :
          /\ stop <= NPages => CanFail(stop)
          /\ pt' = [a \in Addr |->
                      IF a \in Mapped(t) /\ a < stop
                        THEN [frame |-> dst[t][a], zone |-> FALSE,
                              tag |-> IF src[t][a] = NoFrame \/ cpu[a].write
                                        THEN "WRITE" ELSE "READ"]
                        ELSE pt[a]]
    BY DEF MapPages
  <1>3. \A a \in Addr : a < stop  BY <1>2, MirrorAssumption DEF CanFail, Addr
  <1>4. ASSUME NEW a \in Addr, a \notin sel[t] PROVE pt'[a] = pt[a]
    BY <1>2, <1>4 DEF Mapped
  <1>5. ASSUME NEW a \in Addr, a \in sel[t]
        PROVE  /\ pt'[a].frame = dst[t][a] /\ pt'[a].tag \in {"READ", "WRITE"}
               /\ pt'[a].tag = "WRITE" => src[t][a] = NoFrame \/ cpu[a].write
    <2>1. a \in Mapped(t) /\ a < stop  BY <1>3, <1>5 DEF Mapped
    <2>2. pt'[a] = [frame |-> dst[t][a], zone |-> FALSE,
                    tag |-> IF src[t][a] = NoFrame \/ cpu[a].write THEN "WRITE" ELSE "READ"]
      BY <1>2, <2>1
    <2>3. pt'[a].frame = dst[t][a]
          /\ pt'[a].tag = IF src[t][a] = NoFrame \/ cpu[a].write THEN "WRITE" ELSE "READ"
      BY <2>2
    <2> QED  BY <2>3
  <1> QED  BY <1>1, <1>4, <1>5

LEMMA FinalizePlace ==
    ASSUME TypeOK, PcInv, NEW t \in Thread, Finalize(t)
    PROVE  /\ pc[t] = "finalize" /\ pc'[t] \in {"more", "bounce", "idle"}
           /\ UNCHANGED <<pt, inval>>
           /\ \A a \in Addr : dst'[t][a] = NoFrame
  BY DEF Finalize, Return, PcInv, TypeOK, NoFrames

\* make_device_exclusive_range() locks a page and notifies the mirror.
LEMMA CallEffect ==
    ASSUME TypeOK, PcInv, BatchInv, NEW t \in Thread, ExclusiveCall(t)
    PROVE  /\ pc[t] = "xcall" /\ pc'[t] = "xset" /\ walk[t] \in Addr /\ walk' = walk
           /\ UNCHANGED <<cpu, inval, src, dst, sel>>
           /\ cpu[walk[t]].kind = "sys" /\ cpu[walk[t]].write /\ ~PageLocked(walk[t])
           /\ pt'[walk[t]] = NoEntry
           /\ \A a \in Addr : pt'[a] = pt[a] \/ pt'[a] = NoEntry
  <1>1. /\ pc[t] = "xcall" /\ pc'[t] = "xset" /\ walk' = walk
        /\ UNCHANGED <<cpu, inval, src, dst, sel>>
        /\ cpu[walk[t]].kind = "sys" /\ cpu[walk[t]].write /\ ~PageLocked(walk[t])
        /\ walk[t] <= BatchEnd(t)
    BY DEF ExclusiveCall, PcInv, mmVars, faultVars, migVars
  <1>2. walk[t] \in Addr
    <2>1. addr[t] \in Addr /\ BatchEnd(t) \in Addr  BY <1>1, Batches DEF ExclusivePc
    <2>2. walk[t] \in 1..(NPages + 1) /\ addr[t] <= walk[t]
      BY <1>1 DEF TypeOK, BatchInv, BatchOf
    <2> QED  BY <1>1, <2>1, <2>2, MirrorAssumption DEF Addr
  <1>3. \A a \in Addr : pt'[a] = IF walk[t] <= a /\ a <= walk[t] + 1 THEN NoEntry ELSE pt[a]
    BY DEF ExclusiveCall, dmirror_interval_invalidate, dmirror_do_update
  <1> QED  BY <1>1, <1>2, <1>3 DEF Addr

LEMMA SetPlace ==
    ASSUME TypeOK, PcInv, BatchInv, NEW t \in Thread, ExclusiveSet(t)
    PROVE  /\ pc[t] = "xset" /\ pc'[t] = "xcall" /\ walk[t] \in Addr
           /\ UNCHANGED <<pt, inval, src, sel>>
  <1>1. /\ pc[t] = "xset" /\ pc'[t] = "xcall" /\ UNCHANGED <<pt, inval, src, sel>>
    BY DEF ExclusiveSet, PcInv
  <1> QED  BY <1>1, Batches DEF BatchInv, BatchOf, ExclusivePc

\* dmirror_atomic_map() stores entries for pages that were marked.
LEMMA AtomicEffect ==
    ASSUME TypeOK, PcInv, NEW t \in Thread, AtomicMap(t)
    PROVE  /\ pc[t] = "xcall" /\ pc'[t] \in {"idle", "xcall", "bounce"}
           /\ UNCHANGED <<cpu, inval, src, sel>>
           /\ \A a \in Addr :
                /\ dst'[t][a] = NoFrame
                /\ pt'[a] = pt[a] \/ (dst[t][a] # NoFrame /\ pt'[a] = AtomicEntry(dst[t][a]))
  <1>1. /\ pc[t] = "xcall" /\ UNCHANGED <<cpu, inval, src, sel>>
        /\ pc'[t] \in {"idle", "xcall", "bounce"}
    BY DEF AtomicMap, PcInv, mmVars, Return
  <1>2. \A a \in Addr : dst'[t][a] = NoFrame  BY DEF AtomicMap, TypeOK, NoFrames
  <1>3. \A a \in Addr :
          pt'[a] = pt[a] \/ (dst[t][a] # NoFrame /\ pt'[a] = AtomicEntry(dst[t][a]))
    BY DEF AtomicMap
  <1> QED  BY <1>1, <1>2, <1>3

-----------------------------------------------------------------------------
(***************************************************************************)
(* The kernel's.                                                           *)
(***************************************************************************)
LEMMA PopulateEffect ==
    ASSUME TypeOK, NEW a \in Addr, Populate(a)
    PROVE  /\ cpu[a] = None /\ UNCHANGED <<pt, inval>>
           /\ \A b \in Addr : b # a => cpu'[b] = cpu[b]
           /\ cpu'[a].kind = "sys" /\ cpu'[a].write
  BY DEF Populate, TypeOK

\* An invalidation takes the entry of its page, and that of the next, from the mirror.
LEMMA StartErases ==
    ASSUME TypeOK, NEW i \in Invalidator, InvalidateStart(i)
    PROVE  /\ inval[i] = NoCmd /\ cpu' = cpu
           /\ \A j \in Invalidator : j # i => inval'[j] = inval[j]
           /\ inval'[i] # NoCmd /\ Page(i)' \in Addr /\ inval'[i].ev \in Event
           /\ Eligible(inval'[i].ev, Page(i)')
           /\ pt'[Page(i)'] = NoEntry
           /\ \A b \in Addr : pt'[b] = pt[b] \/ pt'[b] = NoEntry
  <1>1. PICK ev \in Event, a \in Addr :
             /\ Eligible(ev, a)
             /\ inval[i] = NoCmd /\ UNCHANGED <<cpu, data>>
             /\ inval'[i] = [ev |-> ev, addr |-> a, pte |-> cpu[a]] /\ inval'[i] \in Change
             /\ \A j \in Invalidator \ {i} : inval'[j] = inval[j]
             /\ dmirror_interval_invalidate(i, a)
    BY StartInvalidation
  <1>2. Page(i)' = a /\ inval'[i].ev = ev  BY <1>1 DEF Page
  <1>3. \A b \in Addr : pt'[b] = IF a <= b /\ b <= a + 1 THEN NoEntry ELSE pt[b]
    BY <1>1 DEF dmirror_interval_invalidate, dmirror_do_update
  <1>4. inval'[i] # NoCmd  BY <1>1, MirrorAssumption
  <1> QED  BY <1>1, <1>2, <1>3, <1>4 DEF Addr

\* The mirror is not told of the end.
LEMMA EndKeeps ==
    ASSUME NEW i \in Invalidator, InvalidateEnd(i)
    PROVE  pt' = pt
  BY DEF InvalidateEnd

-----------------------------------------------------------------------------
(***************************************************************************)
(* What the threads work on, and mmap_lock.                                *)
(***************************************************************************)
\* Where a thread's arrays stay when it is not the one that moves.
LEMMA Others ==
    ASSUME TypeOK, PcInv, NEW t \in Thread, NEW u \in Thread, u # t, Steps(t)
    PROVE  /\ pc'[u] = pc[u] /\ cmd'[u] = cmd[u] /\ addr'[u] = addr[u] /\ walk'[u] = walk[u]
           /\ pfns'[u] = pfns[u] /\ src'[u] = src[u] /\ dst'[u] = dst[u] /\ sel'[u] = sel[u]
  BY Elsewhere DEF Same

\* Destinations and marked pages are gone when a thread is done with them.
LEMMA DstStep ==
    TypeOK /\ PcInv /\ BatchInv /\ DstInv /\ [Next]_vars => DstInv'
  <1> SUFFICES ASSUME TypeOK, PcInv, BatchInv, DstInv, [Next]_vars PROVE DstInv'  OBVIOUS
  <1>1. ASSUME NEW t \in Thread, pc'[t] = pc[t], dst'[t] = dst[t] PROVE DstOf(t)'
    BY <1>1 DEF DstInv, DstOf
  <1>2. ASSUME NEW t \in Thread, Steps(t) PROVE DstOf(t)'
    <2> USE DEF DstInv, DstOf
    <2>1. CASE Quiet(t)  BY <2>1 DEF Quiet
    <2>2. CASE Commit(t)  BY <2>2, CommitEffect
    <2>3. CASE Setup(t)  BY <2>3, SetupPlace
    <2>4. CASE Alloc(t)  BY <2>4, AllocEffect
    <2>5. CASE MigratePages(t)  BY <2>5, PagesPlace
    <2>6. CASE MapPages(t)  BY <2>6 DEF MapPages, PcInv
    <2>7. CASE Finalize(t)  BY <2>7, FinalizePlace
    <2>8. CASE ExclusiveCall(t)  BY <2>8, CallEffect
    <2>9. CASE ExclusiveSet(t)  BY <2>9, SetPlace
    <2>10. CASE AtomicMap(t)  BY <2>10, AtomicEffect
    <2> QED  BY <1>2, QuietSteps, <2>1, <2>2, <2>3, <2>4, <2>5, <2>6, <2>7, <2>8, <2>9, <2>10
            DEF Writes
  <1>3. ASSUME NEW t \in Thread, NEW u \in Thread, Steps(t) PROVE DstOf(u)'
    BY <1>1, <1>2, <1>3, Others
  <1>4. CASE Kernel  BY <1>1, <1>4, KernelElsewhere DEF DstInv
  <1>5. CASE UNCHANGED vars  BY <1>1, <1>5 DEF DstInv, vars, migVars
  <1> QED  BY <1>3, <1>4, <1>5 DEF Next, Steps, DstInv

Reading ==
    {"walk", "alloc", "copy_to", "pages", "map", "finalize", "more", "xcall", "xset", "swalk"}

\* A thread that takes mmap_lock for reading finds no writer.
LEMMA TakesRead ==
    ASSUME PcInv, NEW t \in Thread, Steps(t)
    PROVE  pc'[t] \in Reading => pc[t] \in Reading \/ ~MmapWriter
  <1> USE DEF Reading, PcInv
  <1>1. ASSUME NEW c \in Cmd, c.op \in OpOf[t], Start(t, c) PROVE pc'[t] \notin Reading
    <2>1. pc'[t] = FirstStep(c.op)  BY <1>1 DEF Start
    <2> QED  BY <1>1, <2>1, FirstSteps
  <1>2. ASSUME \/ MmapReadLock(t) \/ Setup(t) \/ ExclusiveStart(t) \/ SnapshotLock(t)
        PROVE  ~MmapWriter
    BY <1>2 DEF MmapReadLock, Setup, ExclusiveStart, SnapshotLock
  <1>3. ASSUME \/ Walk(t) \/ Alloc(t) \/ CopyPages(t) \/ MigratePages(t) \/ MapPages(t)
               \/ Finalize(t) \/ ExclusiveCall(t) \/ ExclusiveSet(t) \/ ExclusiveSkip(t)
               \/ ExclusiveShort(t) \/ AtomicMap(t) \/ SnapshotWalk(t)
        PROVE  pc[t] \in Reading
    BY <1>3 DEF Walk, Alloc, CopyPages, MigratePages, MapPages, Finalize, ExclusiveCall,
           ExclusiveSet, ExclusiveSkip, ExclusiveShort, AtomicMap, SnapshotWalk
  <1>4. ASSUME \/ BounceInit(t) \/ MutexLock(t) \/ Load(t) \/ Copy(t) \/ CopyOops(t)
               \/ AccessDone(t) \/ AccessMiss(t) \/ ReadBegin(t) \/ WalkBusy(t)
               \/ FaultFails(t) \/ Retry(t) \/ Commit(t) \/ SetupFails(t)
               \/ dmirror_check_atomic(t) \/ SnapshotInsert(t) \/ SnapshotBegin(t)
               \/ SnapshotRetry(t) \/ SnapshotCommit(t) \/ SnapshotOut(t)
               \/ SnapshotNext(t) \/ SnapshotFails(t)
        PROVE  pc'[t] \notin Reading
    BY <1>4 DEF BounceInit, MutexLock, Load, Copy, CopyOops, AccessDone, AccessMiss, ReadBegin,
           WalkBusy, FaultFails, Retry, Commit, SetupFails, dmirror_check_atomic,
           SnapshotInsert, SnapshotBegin, SnapshotRetry, SnapshotCommit, SnapshotOut,
           SnapshotNext, SnapshotFails, Return
  <1> QED
    BY StartEffect, <1>1, <1>2, <1>3, <1>4
       DEF Steps, Access, Fault, Migrate, Exclusive, Snapshot

\* A step of a thread begins or ends no change of the page table.
LEMMA InvalKept ==
    ASSUME TypeOK, PcInv, BatchInv, NEW t \in Thread, Steps(t)
    PROVE  inval' = inval
  <1>1. CASE ExclusiveCall(t)  BY <1>1, CallEffect
  <1>2. CASE ExclusiveSet(t)  BY <1>2, SetPlace
  <1> QED  BY <1>1, <1>2, Marks

\* mmap_lock has readers or a writer.
LEMMA MmapStep ==
    TypeOK /\ PcInv /\ BatchInv /\ MmapInv /\ [Next]_vars => MmapInv'
  <1> SUFFICES ASSUME TypeOK, PcInv, BatchInv, MmapInv, [Next]_vars PROVE MmapInv'  OBVIOUS
  <1> DEFINE R(i) == inval[i] # NoCmd /\ inval[i].ev \in {"cow", "restore"}
             W(i) == inval[i] # NoCmd /\ inval[i].ev = "protect"
  <1>1. /\ MmapReader <=> (\E t \in Thread : pc[t] \in Reading) \/ \E i \in Invalidator : R(i)
        /\ MmapWriter <=> \E i \in Invalidator : W(i)
    BY DEF MmapReader, MmapWriter, Reading
  <1>2. /\ MmapReader' <=> (\E t \in Thread : pc'[t] \in Reading) \/ \E i \in Invalidator : R(i)'
        /\ MmapWriter' <=> \E i \in Invalidator : W(i)'
    BY DEF MmapReader, MmapWriter, Reading
  <1>3. ASSUME NEW t \in Thread, Steps(t) PROVE MmapInv'
    <2>1. inval' = inval  BY <1>3, InvalKept
    <2>2. \A u \in Thread : u # t => pc'[u] = pc[u]  BY <1>3, Others
    <2>3. pc'[t] \in Reading => pc[t] \in Reading \/ ~MmapWriter  BY <1>3, TakesRead
    <2>4. \A i \in Invalidator : (R(i)' <=> R(i)) /\ (W(i)' <=> W(i))  BY <2>1
    <2> HIDE DEF R, W
    <2> QED  BY <1>1, <1>2, <2>2, <2>3, <2>4 DEF MmapInv
  <1>4. ASSUME NEW i \in Invalidator, InvalidateStart(i), UNCHANGED pc PROVE MmapInv'
    <2>1. /\ \A j \in Invalidator : j # i => inval'[j] = inval[j]
          /\ Eligible(inval'[i].ev, Page(i)') /\ inval[i] = NoCmd /\ inval'[i].ev \in Event
      BY <1>4, StartErases
    <2>2. \A j \in Invalidator : j # i => (R(j)' <=> R(j)) /\ (W(j)' <=> W(j))  BY <2>1
    <2>3. ~R(i) /\ ~W(i)  BY <2>1
    <2>4. CASE inval'[i].ev = "protect"
      <3>1. ~MmapReader /\ ~R(i)'  BY <2>1, <2>4 DEF Eligible
      <3> HIDE DEF R, W
      <3> QED  BY <1>1, <1>2, <1>4, <2>2, <3>1 DEF MmapInv
    <2>5. CASE inval'[i].ev \in {"cow", "restore"}
      <3>1. ~MmapWriter /\ ~W(i)'  BY <2>1, <2>5 DEF Eligible
      <3> HIDE DEF R, W
      <3> QED  BY <1>1, <1>2, <2>2, <3>1 DEF MmapInv
    <2>6. CASE inval'[i].ev \notin {"protect", "cow", "restore"}
      <3>1. ~R(i)' /\ ~W(i)'  BY <2>6
      <3> HIDE DEF R, W
      <3> QED  BY <1>1, <1>2, <1>4, <2>2, <3>1 DEF MmapInv
    <2> QED  BY <2>4, <2>5, <2>6
  <1>5. ASSUME NEW i \in Invalidator, InvalidateEnd(i), UNCHANGED pc PROVE MmapInv'
    <2>1. inval'[i] = NoCmd /\ \A j \in Invalidator : j # i => inval'[j] = inval[j]
      BY <1>5, EndInvalidation
    <2>2. \A j \in Invalidator : (R(j)' => R(j)) /\ (W(j)' => W(j))  BY <2>1
    <2> HIDE DEF R, W
    <2> QED  BY <1>1, <1>2, <1>5, <2>2 DEF MmapInv
  <1>6. ASSUME UNCHANGED <<pc, inval>> PROVE MmapInv'
    BY <1>6 DEF MmapInv, MmapReader, MmapWriter
  <1>7. ASSUME NEW a, NEW v, Populate(a) \/ CpuStore(a, v) PROVE UNCHANGED <<pc, inval>>
    BY <1>7 DEF Populate, CpuStore
  <1>8. CASE Kernel
    BY <1>4, <1>5, <1>6, <1>7, <1>8, KernelElsewhere DEF Kernel
  <1>9. CASE UNCHANGED vars  BY <1>6, <1>9 DEF vars, mmVars
  <1> QED  BY <1>3, <1>8, <1>9 DEF Next, Steps

-----------------------------------------------------------------------------
(***************************************************************************)
(* Page locks.                                                             *)
(***************************************************************************)
\* A thread locks pages one by one, each when nobody has it.
LEMMA LocksEffect ==
    ASSUME TypeOK, PcInv, BatchInv, DstInv, NEW t \in Thread, Steps(t), NEW a \in Addr,
           Locks(t, a)'
    PROVE  Locks(t, a) \/ ~PageLocked(a)
  <1> USE DEF Locks, Marking, Marked
  <1>1. CASE Quiet(t)  BY <1>1 DEF Quiet, DstInv, DstOf
  <1>2. CASE Commit(t)  BY <1>2, CommitEffect
  <1>3. CASE Setup(t)  BY <1>3, SetupPlace
  <1>4. CASE Alloc(t)  BY <1>4, AllocEffect
  <1>5. CASE MigratePages(t)  BY <1>5, PagesPlace
  <1>6. CASE MapPages(t)  BY <1>6 DEF MapPages, PcInv
  <1>7. CASE Finalize(t)  BY <1>7, FinalizePlace
  <1>8. CASE ExclusiveCall(t)  BY <1>8, CallEffect
  <1>9. CASE ExclusiveSet(t)  BY <1>9, SetPlace, ExclusiveEffect
  <1>10. CASE AtomicMap(t)  BY <1>10, AtomicEffect
  <1> QED  BY QuietSteps, <1>1, <1>2, <1>3, <1>4, <1>5, <1>6, <1>7, <1>8, <1>9, <1>10
          DEF Writes

\* A locked page is locked.
LEMMA LockedBy ==
    ASSUME NEW a \in Addr, ~PageLocked(a)
    PROVE  /\ \A t \in Thread : ~Locks(t, a)
           /\ \A i \in Invalidator :
                Pending(i) /\ inval[i].ev \in {"move", "restore"} => Page(i) # a
  BY DEF PageLocked, Locks, Marking, Marked, Pending, Page

\* A page that exclusive access works on is locked by one, and neither moves nor is restored.
LEMMA LockStep ==
    TypeOK /\ PcInv /\ BatchInv /\ DstInv /\ LockInv /\ [Next]_vars => LockInv'
  <1> SUFFICES ASSUME TypeOK, PcInv, BatchInv, DstInv, LockInv, [Next]_vars PROVE LockInv'
    OBVIOUS
  <1>a. ASSUME NEW u \in Thread, pc'[u] = pc[u], walk'[u] = walk[u], dst'[u] = dst[u], NEW a
        PROVE  Locks(u, a)' <=> Locks(u, a)
    BY <1>a DEF Locks, Marking, Marked
  <1>b. ASSUME NEW i \in Invalidator, inval'[i] = inval[i]
        PROVE  (Pending(i)' <=> Pending(i)) /\ Page(i)' = Page(i)
    BY <1>b DEF Pending, Page
  <1>c. \A i \in Invalidator : Pending(i) => Page(i) \in Addr  BY PendingEvent
  <1>1. ASSUME NEW t \in Thread, Steps(t) PROVE LockInv'
    <2>1. inval' = inval  BY <1>1, InvalKept
    <2>2. \A u \in Thread, a \in Addr : u # t => (Locks(u, a)' <=> Locks(u, a))
      BY <1>a, <1>1, Others
    <2>3. \A a \in Addr : Locks(t, a)' => Locks(t, a) \/ ~PageLocked(a)
      BY <1>1, LocksEffect
    <2>4. \A i \in Invalidator : (Pending(i)' <=> Pending(i)) /\ Page(i)' = Page(i)
      BY <1>b, <2>1
    <2>5. ASSUME NEW i \in Invalidator, Pending(i), inval[i].ev \in {"move", "restore"},
                 NEW u \in Thread
          PROVE  ~Locks(u, Page(i))'
      BY <1>c, <2>2, <2>3, <2>4, <2>5, LockedBy DEF LockInv
    <2>6. ASSUME NEW u \in Thread, NEW w \in Thread, NEW a \in Addr, u # w, Locks(u, a)'
          PROVE  ~Locks(w, a)'
      BY <2>2, <2>3, <2>6, LockedBy DEF LockInv
    <2>7. \A i \in Invalidator, u \in Thread :
            Pending(i)' /\ inval'[i].ev \in {"move", "restore"} => ~Locks(u, Page(i))'
      BY <2>1, <2>4, <2>5
    <2> QED  BY <2>6, <2>7 DEF LockInv
  <1>2. ASSUME UNCHANGED <<pc, walk, dst>>,
               \A i \in Invalidator : \/ inval'[i] = inval[i] \/ inval'[i] = NoCmd
                                      \/ /\ Page(i)' \in Addr
                                         /\ inval'[i].ev \in {"move", "restore"} =>
                                              ~PageLocked(Page(i)')
        PROVE  LockInv'
    <2>1. \A u \in Thread, a \in Addr : Locks(u, a)' <=> Locks(u, a)  BY <1>a, <1>2
    <2>2. ASSUME NEW i \in Invalidator, NEW u \in Thread, Pending(i)',
                 inval'[i].ev \in {"move", "restore"}
          PROVE  ~Locks(u, Page(i))'
      <3>1. CASE inval'[i] = inval[i]
        BY <1>b, <1>c, <2>1, <2>2, <3>1 DEF LockInv
      <3>2. CASE inval'[i] = NoCmd  BY <2>2, <3>2 DEF Pending
      <3>3. CASE Page(i)' \in Addr /\ ~PageLocked(Page(i)')
        BY <2>1, <3>3, LockedBy
      <3> QED  BY <1>2, <2>2, <3>1, <3>2, <3>3
    <2> QED  BY <2>1, <2>2 DEF LockInv
  <1>3. ASSUME NEW i \in Invalidator, InvalidateStart(i), UNCHANGED <<pc, walk, dst>>
        PROVE LockInv'
    <2>1. /\ \A j \in Invalidator : j # i => inval'[j] = inval[j]
          /\ Eligible(inval'[i].ev, Page(i)') /\ Page(i)' \in Addr
      BY <1>3, StartErases
    <2>2. inval'[i].ev \in {"move", "restore"} => ~PageLocked(Page(i)')  BY <2>1 DEF Eligible
    <2> QED  BY <1>2, <1>3, <2>1, <2>2
  <1>4. ASSUME NEW i \in Invalidator, InvalidateEnd(i), UNCHANGED <<pc, walk, dst>> PROVE LockInv'
    BY <1>2, <1>4, EndInvalidation
  <1>5. ASSUME NEW a, NEW v, Populate(a) \/ CpuStore(a, v) PROVE UNCHANGED inval
    BY <1>5 DEF Populate, CpuStore
  <1>6. CASE Kernel
    BY <1>2, <1>3, <1>4, <1>5, <1>6, KernelElsewhere DEF Kernel
  <1>7. CASE UNCHANGED vars  BY <1>2, <1>7 DEF vars, mmVars, faultVars, migVars
  <1> QED  BY <1>1, <1>6, <1>7 DEF Next, Steps

-----------------------------------------------------------------------------
(***************************************************************************)
(* Exclusive access.                                                       *)
(***************************************************************************)
\* Only an invalidation that exclusive access has shut out would change a locked page.
LEMMA EndSpares ==
    ASSUME MirrorInv, Regime, MmapInv, LockInv, MarkInv,
           NEW i \in Invalidator, InvalidateEnd(i), NEW t \in Thread, NEW a \in Addr, Locks(t, a)
    PROVE  cpu'[a] = cpu[a]
  <1>0. TypeOK /\ PcInv /\ KindInv  BY DEF MirrorInv
  <1>1. CASE a # Page(i)  BY <1>0, <1>1, EndInvalidation
  <1>2. CASE a = Page(i)
    <2>1. Pending(i)  BY <1>0, EndInvalidation DEF Pending
    <2>2. pc[t] \in ExclusivePc /\ pc[t] \in Reading
      BY DEF Locks, Marking, Marked, ExclusivePc, Reading
    <2>3. inval[i].ev # "discard"
      BY <1>0, <2>1, <2>2, Undisturbed, PendingEvent
    <2>4. inval[i].ev \notin {"move", "restore"}  BY <1>2, <2>1 DEF LockInv
    <2>5. inval[i].ev # "protect"
      BY <2>1, <2>2 DEF MmapInv, MmapReader, MmapWriter, Pending, Reading
    <2>6. inval[i].ev = "cow" => cpu[a] # inval[i].pte
      <3>1. cpu[a].kind = "excl" \/ cpu[a].write  BY DEF MarkInv, MarkOf, Locks, Is
      <3> QED  BY <1>0, <2>1, <3>1 DEF KindInv, Pending
    <2> QED  BY <1>0, <1>2, <2>3, <2>4, <2>5, <2>6, EndInvalidation
  <1> QED  BY <1>1, <1>2

\* A thread that is marked keeps its marks; a page is marked in the step that shuts the CPU out.
LEMMA MarkStep ==
    Regime /\ MirrorInv /\ DstInv /\ MmapInv /\ LockInv /\ MarkInv /\ [Next]_vars => MarkInv'
  <1> SUFFICES ASSUME Regime, MirrorInv, DstInv, MmapInv, LockInv, MarkInv, [Next]_vars
               PROVE  MarkInv'
    OBVIOUS
  <1>0. TypeOK /\ PcInv /\ BatchInv /\ ActiveInv /\ ReadInv  BY DEF MirrorInv
  <1>a. ASSUME NEW u \in Thread, pc'[u] = pc[u], walk'[u] = walk[u], dst'[u] = dst[u],
               \A a \in Addr : Locks(u, a) =>
                   cpu'[a] = cpu[a] /\ (pt'[a] = pt[a] \/ pt'[a] = NoEntry)
        PROVE  MarkOf(u)'
    BY ZenonT(40), <1>a DEF MarkInv, MarkOf, Locks, Marking, Marked
  <1>b. ASSUME NEW u \in Thread, pc'[u] \notin {"xcall", "xset"} PROVE MarkOf(u)'
    BY <1>b DEF MarkOf, Marking, Marked
  <1>1. ASSUME NEW t \in Thread, Quiet(t), NEW u \in Thread, Steps(t) PROVE MarkOf(u)'
    <2>1. CASE u # t  BY <1>0, <1>1, <1>a, <2>1, Others DEF Quiet
    <2>2. CASE u = t
      <3>1. CASE pc'[t] # "xcall"  BY <1>1, <1>b, <2>2, <3>1 DEF Quiet
      <3>2. CASE pc'[t] = "xcall"
        <4>1. dst'[t] = dst[t] /\ pc[t] \in {"xstart", "xcall"} /\ cpu' = cpu
          BY <1>1, <3>2 DEF Quiet
        <4>2. \A a \in Addr : dst[t][a] # NoFrame => pc[t] = "xcall"
          BY <4>1 DEF DstInv, DstOf
        <4> QED  BY <2>2, <3>2, <4>1, <4>2 DEF MarkInv, MarkOf, Marking, Marked
      <3> QED  BY <3>1, <3>2
    <2> QED  BY <2>1, <2>2
  <1>2. ASSUME NEW t \in Thread, Commit(t), NEW u \in Thread, Steps(t) PROVE MarkOf(u)'
    <2>0. /\ pc[t] = "commit" /\ fresh[t] /\ pc'[t] \in {"idle", "lock", "begin"} /\ cpu' = cpu
      BY <1>0, <1>2, CommitEffect
    <2>1. CASE u = t  BY <1>b, <2>0, <2>1
    <2>2. CASE u # t
      <3>1. pc[u] # "xset"  BY <1>0, <2>0 DEF ReadInv, ReadOf, ActiveInv
      <3>2. /\ pc'[u] = pc[u] /\ walk'[u] = walk[u] /\ dst'[u] = dst[u]
        BY <1>0, <1>2, <2>2, Others
      <3> QED  BY <2>0, <3>1, <3>2 DEF MarkInv, MarkOf, Marking, Marked
    <2> QED  BY <2>1, <2>2
  <1>3. ASSUME NEW t \in Thread, NEW u \in Thread, Steps(t),
               pc[t] \in MigratePc, pc'[t] \notin {"xcall", "xset"}
        PROVE  MarkOf(u)'
    <2>1. CASE u = t  BY <1>3, <1>b, <2>1
    <2>2. CASE u # t
      <3>1. pc'[u] = pc[u]  BY <1>0, <1>3, <2>2, Others
      <3>2. pc[u] \notin {"xcall", "xset"}
        BY <1>0, <1>3, <2>2, Alone DEF SnapshotPc, BatchPc
      <3> QED  BY <1>b, <3>1, <3>2
    <2> QED  BY <2>1, <2>2
  <1>4. ASSUME NEW t \in Thread, ExclusiveCall(t), NEW u \in Thread, Steps(t) PROVE MarkOf(u)'
    <2>0. /\ pc[t] = "xcall" /\ pc'[t] = "xset" /\ walk[t] \in Addr /\ walk' = walk
          /\ UNCHANGED <<cpu, dst>>
          /\ cpu[walk[t]].kind = "sys" /\ cpu[walk[t]].write /\ pt'[walk[t]] = NoEntry
          /\ \A a \in Addr : pt'[a] = pt[a] \/ pt'[a] = NoEntry
      BY <1>0, <1>4, CallEffect
    <2>1. CASE u = t  BY <2>0, <2>1 DEF MarkInv, MarkOf, Marking, Marked
    <2>2. CASE u # t  BY <1>0, <1>4, <1>a, <2>0, <2>2, Others
    <2> QED  BY <2>1, <2>2
  <1>5. ASSUME NEW t \in Thread, ExclusiveSet(t), NEW u \in Thread, Steps(t) PROVE MarkOf(u)'
    <2>0. pc[t] = "xset" /\ pc'[t] = "xcall" /\ walk[t] \in Addr /\ pt' = pt
      BY <1>0, <1>5, SetPlace
    <2>1. CASE u = t
      <3>1. ~Marking(t, walk[t])' /\ \A a \in Addr : ~Marking(t, a)'
        BY <2>0 DEF Marking
      <3>2. ASSUME NEW a \in Addr, Marked(t, a)' PROVE Is(cpu[a], "excl", dst[t][a], TRUE)'
        <4>1. CASE a = walk[t] /\ cpu[a].kind = "sys" /\ cpu[a].write
          BY <1>0, <1>5, <2>0, <4>1, ExclusiveEffect DEF Is
        <4>2. CASE ~(a = walk[t] /\ cpu[a].kind = "sys" /\ cpu[a].write)
          <5>1. cpu'[a] = cpu[a] /\ dst'[t][a] = dst[t][a]
            BY <1>0, <1>5, <2>0, <4>2, ExclusiveEffect
          <5> QED  BY <2>0, <3>2, <5>1 DEF MarkInv, MarkOf, Marked, Is
        <4> QED  BY <4>1, <4>2
      <3> QED  BY <2>1, <3>1, <3>2 DEF MarkOf
    <2>2. CASE u # t
      <3>1. ASSUME NEW a \in Addr, Locks(u, a) PROVE cpu'[a] = cpu[a]
        <4>1. ~Locks(t, a)  BY <2>2, <3>1 DEF LockInv
        <4>2. a # walk[t]  BY <2>0, <4>1 DEF Locks, Marking
        <4> QED  BY <1>0, <1>5, <2>0, <4>2, ExclusiveEffect
      <3> QED  BY <1>0, <1>5, <1>a, <2>0, <2>2, <3>1, Others
    <2> QED  BY <2>1, <2>2
  <1>6. ASSUME NEW t \in Thread, AtomicMap(t), NEW u \in Thread, Steps(t) PROVE MarkOf(u)'
    <2>0. /\ pc[t] = "xcall" /\ pc'[t] \in {"idle", "xcall", "bounce"} /\ cpu' = cpu
          /\ \A a \in Addr : dst'[t][a] = NoFrame /\ (pt'[a] = pt[a] \/ dst[t][a] # NoFrame)
      BY <1>0, <1>6, AtomicEffect
    <2>1. CASE u = t  BY <2>0, <2>1 DEF MarkOf, Marking, Marked
    <2>2. CASE u # t
      <3>1. ASSUME NEW a \in Addr, Locks(u, a) PROVE pt'[a] = pt[a]
        <4>1. ~Locks(t, a)  BY <2>2, <3>1 DEF LockInv
        <4> QED  BY <2>0, <4>1 DEF Locks, Marked
      <3> QED  BY <1>0, <1>6, <1>a, <2>0, <2>2, <3>1, Others
    <2> QED  BY <2>1, <2>2
  <1>7. ASSUME NEW t \in Thread, Steps(t), NEW u \in Thread PROVE MarkOf(u)'
    <2>1. ASSUME Setup(t) \/ Alloc(t) \/ MigratePages(t) \/ MapPages(t) \/ Finalize(t)
          PROVE  pc[t] \in MigratePc /\ pc'[t] \notin {"xcall", "xset"}
      <3>1. CASE Setup(t)  BY <1>0, <3>1, SetupPlace DEF MigratePc
      <3>2. CASE Alloc(t)  BY <1>0, <3>2, AllocEffect DEF MigratePc
      <3>3. CASE MigratePages(t)  BY <1>0, <3>3, PagesPlace DEF MigratePc
      <3>4. CASE MapPages(t)  BY <1>0, <3>4 DEF MapPages, PcInv, MigratePc
      <3>5. CASE Finalize(t)  BY <1>0, <3>5, FinalizePlace DEF MigratePc
      <3> QED  BY <2>1, <3>1, <3>2, <3>3, <3>4, <3>5
    <2> QED  BY <1>0, <1>7, <1>1, <1>2, <1>3, <1>4, <1>5, <1>6, <2>1, QuietSteps DEF Writes
  <1> DEFINE Still == UNCHANGED <<pc, walk, dst>>
  <1>8. ASSUME NEW a \in Addr, Populate(a), Still, NEW u \in Thread PROVE MarkOf(u)'
    <2>1. cpu[a] = None /\ pt' = pt /\ \A b \in Addr : b # a => cpu'[b] = cpu[b]
      BY <1>0, <1>8, PopulateEffect
    <2>2. ~Locks(u, a)  BY <2>1 DEF MarkInv, MarkOf, Locks, Is, None
    <2> QED  BY <1>a, <1>8, <2>1, <2>2
  <1>9. ASSUME NEW i \in Invalidator, InvalidateStart(i), Still, NEW u \in Thread PROVE MarkOf(u)'
    BY <1>0, <1>a, <1>9, StartErases
  <1>10. ASSUME NEW i \in Invalidator, InvalidateEnd(i), Still, NEW u \in Thread PROVE MarkOf(u)'
    BY <1>0, <1>a, <1>10, EndSpares, EndKeeps
  <1>11. ASSUME NEW a, NEW v, CpuStore(a, v), Still, NEW u \in Thread PROVE MarkOf(u)'
    BY <1>a, <1>11 DEF CpuStore
  <1>12. ASSUME Kernel, NEW u \in Thread PROVE MarkOf(u)'
    BY <1>8, <1>9, <1>10, <1>11, <1>12, KernelElsewhere DEF Kernel
  <1>13. ASSUME UNCHANGED vars, NEW u \in Thread PROVE MarkOf(u)'
    BY <1>a, <1>13 DEF vars, mmVars, faultVars, migVars
  <1> QED  BY <1>7, <1>12, <1>13 DEF Next, Steps, MarkInv

-----------------------------------------------------------------------------
(***************************************************************************)
(* Migrations.                                                             *)
(***************************************************************************)
\* While a thread migrates, the steps of the others leave the table and the mirror alone.
LEMMA Steady ==
    ASSUME Regime, TypeOK, PcInv, BatchInv, NEW t \in Thread, pc[t] \in MigratePc,
           NEW u \in Thread, u # t, Steps(u)
    PROVE  Quiet(u)
  <1>1. pc[u] \in {"idle", "check"} \cup SnapshotPc  BY Alone
  <1>2. ~Writes(u)
    <2>1. pc[u] \notin {"commit", "setup", "more", "alloc", "pages",
                         "map", "finalize", "xcall", "xset"}
      BY <1>1 DEF SnapshotPc, BatchPc
    <2> QED  BY <2>1 DEF Writes, Commit, Setup, Alloc, MigratePages, MapPages, Finalize,
                ExclusiveCall, ExclusiveSet, AtomicMap
  <1> QED  BY <1>2, QuietSteps

\* What a migration has in hand stays as it is until migrate_vma_finalize().
LEMMA MoveStep ==
    Regime /\ MirrorInv /\ DstInv /\ MmapInv /\ MoveInv /\ [Next]_vars => MoveInv'
  <1> SUFFICES ASSUME Regime, MirrorInv, DstInv, MmapInv, MoveInv, [Next]_vars PROVE MoveInv'
    OBVIOUS
  <1>0. TypeOK /\ PcInv /\ BatchInv /\ CpuInv /\ KindInv /\ FramesInv  BY DEF MirrorInv
  <1>a. ASSUME NEW u \in Thread, ~Moving(u)' PROVE MoveOf(u)'
    BY <1>a DEF MoveOf
  <1>b. ASSUME NEW u \in Thread, pc'[u] = pc[u], cmd'[u] = cmd[u], sel'[u] = sel[u],
               src'[u] = src[u], dst'[u] = dst[u],
               \A a \in Addr : /\ pt'[a] = pt[a] \/ pt'[a] = NoEntry
                               /\ Moving(u) =>
                                    \/ cpu'[a] = cpu[a]
                                    \/ /\ cpu[a].kind \notin {"migsys", "migdev", "dev"}
                                       /\ cpu[a].write => cpu'[a].write
        PROVE  MoveOf(u)'
    <2>1. CASE Moving(u)
      <3>1. MoveOf(u) /\ Outbound(u)' = Outbound(u)  BY <1>b DEF MoveInv, Outbound
      <3>2. ASSUME NEW a \in Addr
            PROVE  /\ pt'[a] = pt[a] \/ pt'[a] = NoEntry
                   /\ \/ cpu'[a] = cpu[a]
                      \/ /\ cpu[a].kind \notin {"migsys", "migdev", "dev"}
                         /\ cpu[a].write => cpu'[a].write
        BY <1>b, <2>1
      <3>3. pc[u] \in {"alloc", "copy_to", "pages", "map", "finalize"}  BY <2>1 DEF Moving
      <3> QED  BY <1>b, <2>1, <3>1, <3>2 DEF MoveOf, Is
    <2>2. CASE ~Moving(u)  BY <1>a, <1>b, <2>2 DEF Moving
    <2> QED  BY <2>1, <2>2
  <1>1. ASSUME NEW t \in Thread, Quiet(t), Steps(t) PROVE MoveOf(t)'
    <2>1. CASE pc'[t] = "pages"
      <3>1. /\ pc[t] = "copy_to" /\ cmd'[t] = cmd[t] /\ sel'[t] = sel[t] /\ src'[t] = src[t]
            /\ dst'[t] = dst[t] /\ UNCHANGED <<cpu, pt>>
        BY <1>1, <2>1 DEF Quiet
      <3>2. MoveOf(t) /\ Moving(t) /\ Outbound(t)' = Outbound(t)
        BY <3>1 DEF MoveInv, Moving, Outbound
      <3> QED  BY <2>1, <3>1, <3>2 DEF MoveOf
    <2>2. CASE pc'[t] # "pages"  BY <1>1, <1>a, <2>2 DEF Quiet, Moving
    <2> QED  BY <2>1, <2>2
  <1>2. ASSUME NEW t \in Thread, Setup(t) PROVE MoveOf(t)'
    <2>0. /\ pc[t] \in {"setup", "more"} /\ pc'[t] = "alloc" /\ UNCHANGED <<pt, inval, dst, cmd>>
      BY <1>0, <1>2, SetupPlace
    <2>1. PICK S \in SUBSET BatchRange(t) :
             /\ \A a \in S : Isolatable(t, a)
             /\ sel'[t] = S
             /\ \A a \in Addr : src'[t][a] = IF a \in S THEN cpu[a].frame ELSE NoFrame
             /\ \A a \in Addr :
                  IF a \in S /\ cpu[a] # None
                    THEN Is(cpu'[a], IF Outbound(t) THEN "migsys" ELSE "migdev",
                            cpu[a].frame, cpu[a].write)
                    ELSE cpu'[a] = cpu[a]
      BY <1>0, <1>2, SetupEffect
    <2>2. Outbound(t)' = Outbound(t) /\ \A a \in Addr : dst'[t][a] = NoFrame
      BY <2>0 DEF Outbound, DstInv, DstOf
    <2>3. ASSUME NEW a \in Addr, src'[t][a] # NoFrame
          PROVE  /\ cpu'[a].kind = (IF Outbound(t) THEN "migsys" ELSE "migdev")
                 /\ cpu'[a].frame = src'[t][a]
      <3>1. a \in S /\ src'[t][a] = cpu[a].frame  BY <2>1, <2>3
      <3>2. cpu[a] # None  BY <2>3, <3>1 DEF None
      <3> QED  BY <2>1, <3>1, <3>2 DEF Is
    <2>4. ASSUME NEW a \in Addr, a \in S, src'[t][a] = NoFrame PROVE Outbound(t)
      <3>1. cpu[a].frame = NoFrame  BY <2>1, <2>4
      <3>2. cpu[a].kind = "none"  BY <1>0, <3>1 DEF CpuInv, Proper
      <3> QED  BY <2>1, <2>4, <3>2 DEF Isolatable
    <2> QED  BY <2>0, <2>1, <2>2, <2>3, <2>4 DEF MoveOf
  <1>3. ASSUME NEW t \in Thread, Alloc(t) PROVE MoveOf(t)'
    <2>1. /\ pc[t] = "alloc" /\ pc'[t] = "copy_to" /\ UNCHANGED <<cpu, src, sel, cmd>>
          /\ \A a \in Addr : ~Outbound(t) /\ dst'[t][a] # NoFrame => pt'[a] = NoEntry
      BY <1>0, <1>3, AllocEffect
    <2>2. MoveOf(t) /\ Moving(t) /\ Outbound(t)' = Outbound(t)
      BY <2>1 DEF MoveInv, Moving, Outbound
    <2> QED  BY <2>1, <2>2 DEF MoveOf
  <1>4. ASSUME NEW t \in Thread, MigratePages(t) PROVE MoveOf(t)'
    <2>1. /\ pc[t] = "pages" /\ pc'[t] = IF Outbound(t) THEN "map" ELSE "finalize"
          /\ UNCHANGED <<pt, inval, cmd>>
      BY <1>0, <1>4, PagesPlace
    <2>2. PICK S \in SUBSET {a \in sel[t] : dst[t][a] # NoFrame} :
             /\ \A a \in S : src[t][a] = NoFrame => cpu[a] = None
             /\ sel'[t] = S /\ UNCHANGED <<src, dst>>
             /\ \A a \in Addr :
                  IF a \in S /\ src[t][a] = NoFrame
                    THEN Is(cpu'[a], "dev", dst[t][a], TRUE) ELSE cpu'[a] = cpu[a]
      BY <1>0, <1>4, PagesEffect
    <2>3. MoveOf(t) /\ Moving(t) /\ Outbound(t)' = Outbound(t)
      BY <2>1 DEF MoveInv, Moving, Outbound
    <2>4. S \subseteq sel[t]  BY <2>2
    <2>5. pc'[t] = "finalize" => ~Outbound(t)  BY <2>1
    <2> QED  BY <2>1, <2>2, <2>3, <2>4, <2>5 DEF MoveOf, Is
  <1>5. ASSUME NEW t \in Thread, MapPages(t) PROVE MoveOf(t)'
    <2>0. pc[t] = "map"  BY <1>5 DEF MapPages
    <2>1. ~StoreFails  BY <1>0, <2>0, Alone DEF MigratePc
    <2>2. /\ pc'[t] = "finalize" /\ UNCHANGED <<cpu, inval, src, dst, sel, cmd>>
          /\ \A a \in Addr :
               /\ a \notin sel[t] => pt'[a] = pt[a]
               /\ a \in sel[t] =>
                    /\ pt'[a].frame = dst[t][a] /\ pt'[a].tag \in {"READ", "WRITE"}
                    /\ pt'[a].tag = "WRITE" => src[t][a] = NoFrame \/ cpu[a].write
      BY <1>0, <1>5, <2>1, MapEffect
    <2>3. MoveOf(t) /\ Moving(t) /\ Outbound(t) /\ Outbound(t)'
      <3>1. cmd[t].op = "todev"  BY <1>0, <2>0 DEF PcInv, PcOf, Fits
      <3> QED  BY <2>0, <2>2, <3>1 DEF MoveInv, Moving, Outbound
    <2>4. ASSUME NEW a \in Addr, a \in sel[t]
          PROVE  /\ pt'[a].frame = dst[t][a] /\ pt'[a].tag # "ATOMIC"
                 /\ pt'[a].tag = "WRITE" => cpu[a].write
      BY <2>0, <2>2, <2>3, <2>4 DEF MoveOf, Is
    <2> QED  BY <2>0, <2>2, <2>3, <2>4 DEF MoveOf
  <1>6. ASSUME NEW t \in Thread, Steps(t) PROVE MoveOf(t)'
    <2>1. ASSUME \/ Commit(t) \/ Finalize(t) \/ ExclusiveCall(t) \/ ExclusiveSet(t) \/ AtomicMap(t)
          PROVE  ~Moving(t)'
      <3>1. CASE Commit(t)  BY <1>0, <3>1, CommitEffect DEF Moving
      <3>2. CASE Finalize(t)  BY <1>0, <3>2, FinalizePlace DEF Moving
      <3>3. CASE ExclusiveCall(t)  BY <1>0, <3>3, CallEffect DEF Moving
      <3>4. CASE ExclusiveSet(t)  BY <1>0, <3>4, SetPlace DEF Moving
      <3>5. CASE AtomicMap(t)  BY <1>0, <3>5, AtomicEffect DEF Moving
      <3> QED  BY <2>1, <3>1, <3>2, <3>3, <3>4, <3>5
    <2> QED  BY <1>0, <1>6, <1>a, <1>1, <1>2, <1>3, <1>4, <1>5, <2>1, QuietSteps DEF Writes
  <1>7. ASSUME NEW t \in Thread, NEW u \in Thread, u # t, Steps(u) PROVE MoveOf(t)'
    <2>1. /\ pc'[t] = pc[t] /\ cmd'[t] = cmd[t]
          /\ src'[t] = src[t] /\ dst'[t] = dst[t] /\ sel'[t] = sel[t]
      BY <1>0, <1>7, Others
    <2>2. CASE Moving(t)
      <3>1. pc[t] \in MigratePc  BY <2>2 DEF Moving, MigratePc
      <3>2. UNCHANGED <<cpu, pt>>  BY <1>0, <1>7, <3>1, Steady DEF Quiet
      <3> QED  BY <1>b, <2>1, <3>2
    <2>3. CASE ~Moving(t)  BY <1>a, <2>1, <2>3 DEF Moving
    <2> QED  BY <2>2, <2>3
  <1> DEFINE Still == UNCHANGED <<pc, cmd, src, dst, sel>>
  <1>8. ASSUME NEW a \in Addr, Populate(a), Still, NEW u \in Thread PROVE MoveOf(u)'
    <2>1. /\ cpu[a] = None /\ pt' = pt /\ \A b \in Addr : b # a => cpu'[b] = cpu[b]
          /\ cpu'[a].write
      BY <1>0, <1>8, PopulateEffect
    <2>2. cpu[a].kind = "none"  BY <2>1 DEF None
    <2> QED  BY <1>b, <1>8, <2>1, <2>2
  <1>9. ASSUME NEW i \in Invalidator, InvalidateStart(i), Still, NEW u \in Thread PROVE MoveOf(u)'
    BY <1>0, <1>b, <1>9, StartErases
  <1>10. ASSUME NEW i \in Invalidator, InvalidateEnd(i), Still, NEW u \in Thread PROVE MoveOf(u)'
    <2>1. Pending(i)  BY <1>0, <1>10, EndInvalidation DEF Pending
    <2>2. ASSUME Moving(u), NEW a \in Addr
          PROVE  \/ cpu'[a] = cpu[a]
                 \/ /\ cpu[a].kind \notin {"migsys", "migdev", "dev"}
                    /\ cpu[a].write => cpu'[a].write
      <3>1. pc[u] \in MigratePc /\ pc[u] \in Reading  BY <2>2 DEF Moving, MigratePc, Reading
      <3>2. inval[i].ev # "discard"  BY <1>0, <2>1, <3>1, Alone, PendingEvent
      <3>3. inval[i].ev # "protect"
        BY <2>1, <3>1 DEF MmapInv, MmapReader, MmapWriter, Pending, Reading
      <3>4. CASE a = Page(i) /\ cpu[a] = inval[i].pte
        <4>1. cpu[a].kind \in {"sys", "excl"}
          BY <1>0, <2>1, <3>2, <3>3, <3>4, PendingEvent DEF KindInv, Pending
        <4>2. cpu[a].write => cpu'[a].write
          BY <1>0, <1>10, <3>2, <3>3, <3>4, EndInvalidation DEF Is
        <4> QED  BY <4>1, <4>2
      <3>5. CASE ~(a = Page(i) /\ cpu[a] = inval[i].pte)
        BY <1>0, <1>10, <3>2, <3>5, EndInvalidation
      <3> QED  BY <3>4, <3>5
    <2>3. pt' = pt  BY <1>10, EndKeeps
    <2> QED  BY <1>b, <1>10, <2>2, <2>3
  <1>11. ASSUME NEW a, NEW v, CpuStore(a, v), Still, NEW u \in Thread PROVE MoveOf(u)'
    BY <1>b, <1>11 DEF CpuStore
  <1>12. ASSUME Kernel, NEW u \in Thread PROVE MoveOf(u)'
    BY <1>8, <1>9, <1>10, <1>11, <1>12, KernelElsewhere DEF Kernel
  <1>13. ASSUME UNCHANGED vars, NEW u \in Thread PROVE MoveOf(u)'
    BY <1>b, <1>13 DEF vars, mmVars, accessVars, migVars
  <1> QED  BY <1>6, <1>7, <1>12, <1>13 DEF Next, Steps, MoveInv

-----------------------------------------------------------------------------
(***************************************************************************)
(* Faults.                                                                 *)
(***************************************************************************)
\* Only the thread itself makes its reading valid.
LEMMA FreshElsewhere ==
    ASSUME TypeOK, NEW s \in Thread, NEW t \in Thread, t # s, Steps(s), fresh'[t]
    PROVE  fresh[t]
  <1>1. CASE Setup(s)  BY <1>1 DEF Setup, OwnInvalidate
  <1>2. CASE MigratePages(s)  BY <1>2 DEF MigratePages, OwnInvalidate
  <1>3. CASE ExclusiveCall(s)  BY <1>3 DEF ExclusiveCall, dmirror_interval_invalidate
  <1>4. CASE ReadBegin(s)  BY <1>4 DEF ReadBegin, TypeOK
  <1>5. CASE SnapshotBegin(s)  BY <1>5 DEF SnapshotBegin, TypeOK
  <1>6. ASSUME NEW c, \/ Start(s, c) \/ BounceInit(s) \/ MutexLock(s) \/ Load(s) \/ Copy(s)
                       \/ CopyOops(s) \/ AccessDone(s) \/ AccessMiss(s)
                       \/ MmapReadLock(s) \/ Walk(s) \/ WalkBusy(s) \/ FaultFails(s) \/ Retry(s)
                       \/ Commit(s) \/ SetupFails(s) \/ Alloc(s) \/ CopyPages(s) \/ MapPages(s)
                       \/ Finalize(s) \/ ExclusiveStart(s) \/ ExclusiveSet(s) \/ ExclusiveSkip(s)
                       \/ ExclusiveShort(s) \/ AtomicMap(s) \/ dmirror_check_atomic(s)
                       \/ SnapshotInsert(s) \/ SnapshotLock(s) \/ SnapshotWalk(s)
                       \/ SnapshotRetry(s) \/ SnapshotCommit(s) \/ SnapshotOut(s)
                       \/ SnapshotNext(s) \/ SnapshotFails(s)
        PROVE  fresh' = fresh
    BY <1>6 DEF Start, BounceInit, MutexLock, Load, Copy, CopyOops, AccessDone, AccessMiss,
           MmapReadLock, Walk, WalkBusy, FaultFails, Retry, Commit, SetupFails,
           Alloc, CopyPages, MapPages, Finalize, ExclusiveStart, ExclusiveSet, RangeEnd,
           ExclusiveSkip, ExclusiveShort, AtomicMap, dmirror_check_atomic, SnapshotInsert,
           SnapshotLock, SnapshotWalk, SnapshotRetry, SnapshotCommit, SnapshotOut,
           SnapshotNext, SnapshotFails, seqVars
  <1> QED
    BY StartEffect, <1>1, <1>2, <1>3, <1>4, <1>5, <1>6
       DEF Steps, Access, Fault, Migrate, Exclusive, Snapshot

\* Where a step leads: a thread walks page by page, and commits when it has them all.
LEMMA Walks ==
    ASSUME TypeOK, PcInv, NEW t \in Thread, Steps(t), pc'[t] \in {"walk", "commit"}
    PROVE  MmapReadLock(t) \/ Walk(t)
  <1> USE DEF PcInv
  <1>1. ASSUME NEW c \in Cmd, c.op \in OpOf[t], Start(t, c) PROVE FALSE
    <2>1. pc'[t] = FirstStep(c.op)  BY <1>1 DEF Start
    <2> QED  BY <1>1, <2>1, FirstSteps
  <1>2. ASSUME \/ BounceInit(t) \/ MutexLock(t) \/ Load(t) \/ Copy(t) \/ CopyOops(t)
               \/ AccessDone(t) \/ AccessMiss(t) \/ ReadBegin(t) \/ WalkBusy(t)
               \/ FaultFails(t) \/ Retry(t) \/ Commit(t) \/ Setup(t) \/ SetupFails(t)
               \/ Alloc(t) \/ CopyPages(t) \/ MigratePages(t) \/ MapPages(t) \/ Finalize(t)
               \/ ExclusiveStart(t) \/ ExclusiveCall(t) \/ ExclusiveSet(t) \/ ExclusiveSkip(t)
               \/ ExclusiveShort(t) \/ AtomicMap(t) \/ dmirror_check_atomic(t)
               \/ SnapshotInsert(t) \/ SnapshotBegin(t) \/ SnapshotLock(t)
               \/ SnapshotWalk(t) \/ SnapshotRetry(t) \/ SnapshotCommit(t)
               \/ SnapshotOut(t) \/ SnapshotNext(t) \/ SnapshotFails(t)
        PROVE  FALSE
    BY <1>2 DEF BounceInit, MutexLock, Load, Copy, CopyOops, AccessDone, AccessMiss, ReadBegin,
           WalkBusy, FaultFails, Retry, Commit, Setup, SetupFails, Alloc, CopyPages,
           MigratePages, MapPages, Finalize, ExclusiveStart, ExclusiveCall, ExclusiveSet,
           ExclusiveSkip, ExclusiveShort, AtomicMap, dmirror_check_atomic, SnapshotInsert,
           SnapshotBegin, SnapshotLock, SnapshotWalk, SnapshotRetry, SnapshotCommit,
           SnapshotOut, SnapshotNext, SnapshotFails, Return
  <1> QED
    BY StartEffect, <1>1, <1>2 DEF Steps, Access, Fault, Migrate, Exclusive, Snapshot

\* What a valid reading has found stays true: nothing is invalidated, and nobody migrates.
LEMMA WalkedStep ==
    Regime /\ MirrorInv /\ WalkedInv /\ [Next]_vars => WalkedInv'
  <1> SUFFICES ASSUME Regime, MirrorInv, WalkedInv, [Next]_vars PROVE WalkedInv'  OBVIOUS
  <1>0. TypeOK /\ PcInv /\ BatchInv /\ ActiveInv /\ ReadInv  BY DEF MirrorInv
  <1> DEFINE Valid(t) == pc[t] \in {"walk", "commit"} /\ fresh[t]
             Read(t, a) == a \in BatchRange(t) /\ a < walk[t]
  <1>a. ASSUME NEW t \in Thread, Valid(t)
        PROVE  /\ \A i \in Invalidator : ~Pending(i)
               /\ \A u \in Thread : pc[u] # "xset" /\ pc[u] \notin MigratePc
    <2>1. ~busy  BY <1>0, <1>a DEF ReadInv, ReadOf
    <2>2. active = {}  BY <1>0, <2>1 DEF ActiveInv
    <2>3. \A i \in Invalidator : ~Pending(i)  BY <1>0, <2>2 DEF ActiveInv, Pending
    <2>4. \A u \in Thread : pc[u] # "xset"  BY <1>0, <2>2 DEF ActiveInv
    <2>5. pc[t] \notin {"idle", "check"} \cup SnapshotPc \cup MigratePc
      BY <1>a DEF SnapshotPc, BatchPc, MigratePc
    <2>6. ASSUME NEW u \in Thread, pc[u] \in MigratePc PROVE FALSE
      BY <1>0, <2>5, <2>6, Alone
    <2> QED  BY <2>3, <2>4, <2>6
  <1>b. ASSUME NEW t \in Thread, Valid(t), NEW a, Read(t, a)
        PROVE  /\ cpu[a].kind \in {"sys", "dev"} /\ a \in Addr
               /\ pfns[t][a].frame = cpu[a].frame /\ pfns[t][a].write = cpu[a].write
    <2>1. pc[t] \in FaultPc  BY <1>b DEF FaultPc
    <2> QED  BY <1>0, <1>b, <2>1, Batches DEF WalkedInv, WalkedOf
  <1>c. ASSUME NEW t \in Thread, pc'[t] = pc[t], walk'[t] = walk[t], pfns'[t] = pfns[t],
               addr'[t] = addr[t], cmd'[t] = cmd[t], fresh'[t] => fresh[t],
               \A a \in Addr : Valid(t) /\ Read(t, a) => cpu'[a] = cpu[a]
        PROVE  WalkedOf(t)'
    <2>1. BatchRange(t)' = BatchRange(t)  BY <1>c DEF BatchRange, BatchEnd
    <2>2. ASSUME (pc[t] \in {"walk", "commit"} /\ fresh[t])', NEW a \in BatchRange(t), a < walk[t]
          PROVE  /\ cpu'[a].kind \in {"sys", "dev"}
                 /\ pfns'[t][a].frame = cpu'[a].frame /\ pfns'[t][a].write = cpu'[a].write
      <3>1. Valid(t) /\ Read(t, a)  BY <1>c, <2>2
      <3> QED  BY <1>b, <1>c, <3>1
    <2> QED  BY <1>c, <2>1, <2>2 DEF WalkedOf
  <1>1. ASSUME NEW t \in Thread, MmapReadLock(t) PROVE WalkedOf(t)'
    <2>1. pc[t] = "mmap" /\ walk'[t] = walk[t] /\ addr' = addr /\ cmd' = cmd
      BY <1>1 DEF MmapReadLock, accessVars, faultVars
    <2>2. walk[t] = addr[t]  BY <1>0, <2>1 DEF BatchInv, BatchOf
    <2>3. addr[t] \in Addr /\ BatchEnd(t) \in Addr  BY <1>0, <2>1, Batches DEF FaultPc
    <2>4. BatchRange(t)' = addr[t]..BatchEnd(t)  BY <2>1 DEF BatchRange, BatchEnd
    <2>5. \A a \in BatchRange(t)' : ~(a < walk'[t])  BY <2>1, <2>2, <2>3, <2>4 DEF Addr
    <2> QED  BY <2>5 DEF WalkedOf
  <1>2. ASSUME NEW t \in Thread, Walk(t) PROVE WalkedOf(t)'
    <2>1. /\ pc[t] = "walk" /\ addr' = addr /\ cmd' = cmd /\ fresh' = fresh /\ cpu' = cpu
          /\ walk' = [walk EXCEPT ![t] = @ + 1] /\ cpu[walk[t]].kind \in {"sys", "dev"}
          /\ pfns' = [pfns EXCEPT ![t][walk[t]] =
                        [frame |-> cpu[walk[t]].frame, zone |-> cpu[walk[t]].kind = "dev",
                         write |-> cpu[walk[t]].write]]
      BY <1>2 DEF Walk, accessVars, seqVars, mmVars
    <2>2. walk[t] \in BatchRange(t) /\ BatchRange(t) \subseteq Addr
          /\ addr[t] \in Addr /\ BatchEnd(t) \in Addr
      BY <1>0, <2>1, Batches DEF BatchInv, BatchOf, FaultPc
    <2>3. BatchRange(t)' = BatchRange(t)  BY <2>1 DEF BatchRange, BatchEnd
    <2>4. walk'[t] = walk[t] + 1  BY <1>0, <2>1 DEF TypeOK
    <2>5. /\ pfns'[t][walk[t]].frame = cpu[walk[t]].frame
          /\ pfns'[t][walk[t]].write = cpu[walk[t]].write
          /\ \A a \in Addr : a # walk[t] => pfns'[t][a] = pfns[t][a]
      BY <1>0, <2>1, <2>2 DEF TypeOK
    <2>6. ASSUME fresh'[t], NEW a \in BatchRange(t), a < walk'[t]
          PROVE  /\ cpu'[a].kind \in {"sys", "dev"}
                 /\ pfns'[t][a].frame = cpu'[a].frame /\ pfns'[t][a].write = cpu'[a].write
      <3>1. CASE a = walk[t]  BY <2>1, <2>5, <3>1
      <3>2. CASE a # walk[t]
        <4>1. a \in Int /\ walk[t] \in Int  BY <2>2, <2>6, MirrorAssumption DEF Addr
        <4>2. a < walk[t]  BY <2>4, <2>6, <3>2, <4>1
        <4>3. Valid(t) /\ Read(t, a)  BY <2>1, <2>6, <4>2
        <4> QED  BY <1>b, <2>1, <2>2, <2>5, <2>6, <3>2, <4>3
      <3> QED  BY <3>1, <3>2
    <2> QED  BY <2>3, <2>6 DEF WalkedOf
  <1>3. ASSUME NEW t \in Thread, Steps(t) PROVE WalkedOf(t)'
    <2>1. CASE pc'[t] \in {"walk", "commit"}  BY <1>0, <1>1, <1>2, <1>3, <2>1, Walks
    <2>2. CASE pc'[t] \notin {"walk", "commit"}  BY <2>2 DEF WalkedOf
    <2> QED  BY <2>1, <2>2
  <1>4. ASSUME NEW t \in Thread, NEW u \in Thread, u # t, Steps(u) PROVE WalkedOf(t)'
    <2>1. /\ pc'[t] = pc[t] /\ walk'[t] = walk[t] /\ pfns'[t] = pfns[t]
          /\ addr'[t] = addr[t] /\ cmd'[t] = cmd[t] /\ (fresh'[t] => fresh[t])
      BY <1>0, <1>4, Others, FreshElsewhere
    <2>2. ASSUME Valid(t) PROVE cpu' = cpu
      <3>1. pc[u] # "xset" /\ pc[u] \notin MigratePc  BY <1>a, <2>2
      <3>2. ~(Setup(u) \/ MigratePages(u) \/ Finalize(u) \/ ExclusiveSet(u)
              \/ Alloc(u) \/ MapPages(u))
        BY <3>1 DEF Setup, MigratePages, Finalize, ExclusiveSet, Alloc, MapPages, MigratePc
      <3>3. CASE Quiet(u)  BY <3>3 DEF Quiet
      <3>4. CASE Commit(u) \/ ExclusiveCall(u) \/ AtomicMap(u)
        BY <1>0, <3>4, CommitEffect, CallEffect, AtomicEffect
      <3> QED  BY <1>0, <1>4, <3>2, <3>3, <3>4, QuietSteps DEF Writes
    <2> QED  BY <1>c, <2>1, <2>2
  <1> DEFINE Still == UNCHANGED <<pc, cmd, addr, walk, pfns>>
  <1>5. ASSUME NEW a \in Addr, Populate(a), Still, NEW t \in Thread PROVE WalkedOf(t)'
    <2>1. cpu[a].kind = "none" /\ \A b \in Addr : b # a => cpu'[b] = cpu[b]
      BY <1>0, <1>5, PopulateEffect DEF None
    <2>2. fresh' = fresh  BY <1>5 DEF Populate, seqVars
    <2> HIDE DEF Valid, Read
    <2>3. \A b \in Addr : Valid(t) /\ Read(t, b) => cpu'[b] = cpu[b]  BY <1>b, <2>1
    <2> QED  BY <1>c, <1>5, <2>2, <2>3
  <1>6. ASSUME NEW i \in Invalidator, InvalidateStart(i), Still, NEW t \in Thread
        PROVE WalkedOf(t)'
    <2>1. cpu' = cpu /\ (fresh'[t] => fresh[t])
      BY <1>6 DEF InvalidateStart, dmirror_interval_invalidate
    <2> QED  BY <1>c, <1>6, <2>1
  <1>7. ASSUME NEW i \in Invalidator, InvalidateEnd(i), Still, NEW t \in Thread PROVE WalkedOf(t)'
    <2>1. Pending(i) /\ fresh' = fresh  BY <1>7 DEF InvalidateEnd, RangeEnd, Pending
    <2>2. ~Valid(t)  BY <1>a, <2>1
    <2> QED  BY <1>c, <1>7, <2>1, <2>2
  <1>8. ASSUME NEW a, NEW v, CpuStore(a, v), Still, NEW t \in Thread PROVE WalkedOf(t)'
    BY <1>c, <1>8 DEF CpuStore, seqVars
  <1>9. ASSUME Kernel, NEW t \in Thread PROVE WalkedOf(t)'
    BY <1>5, <1>6, <1>7, <1>8, <1>9, KernelElsewhere DEF Kernel
  <1>10. ASSUME UNCHANGED vars, NEW t \in Thread PROVE WalkedOf(t)'
    BY <1>c, <1>10 DEF vars, mmVars, seqVars, accessVars, faultVars
  <1> QED  BY <1>3, <1>4, <1>9, <1>10 DEF Next, Steps, WalkedInv

-----------------------------------------------------------------------------
(***************************************************************************)
(* Entries and invalidations.                                              *)
(***************************************************************************)
\* A page that a migration is about to put in place stays so until that migration's last step.
LEMMA PlacedKept ==
    ASSUME TypeOK, PcInv, NEW t \in Thread, Steps(t), pc[t] # "finalize", NEW a
    PROVE  /\ \A u \in Thread : pc[u] = "finalize" =>
                pc'[u] = "finalize" /\ sel'[u] = sel[u] /\ dst'[u] = dst[u]
           /\ Placed(a) => Placed(a)'
  <1>1. \A u \in Thread : pc[u] = "finalize" =>
          pc'[u] = "finalize" /\ sel'[u] = sel[u] /\ dst'[u] = dst[u]
    BY Others
  <1> QED  BY <1>1 DEF Placed

\* The only migration about to end is the one that is alone.
LEMMA PlacedBy ==
    ASSUME Regime, PcInv, NEW t \in Thread, pc[t] \in MigratePc, NEW a, Placed(a)
    PROVE  pc[t] = "finalize" /\ a \in sel[t]
  <1>1. PICK u \in Thread : pc[u] = "finalize" /\ a \in sel[u]  BY DEF Placed
  <1>2. u = t  BY <1>1, Alone DEF SnapshotPc, BatchPc
  <1> QED  BY <1>1, <1>2

\* The mirror has no entry for a page that is not there, unless it is about to be.
LEMMA AbsentPage ==
    ASSUME TypeOK, NoStaleEntry, NEW a \in Addr, cpu[a] = None
    PROVE  pt[a] = NoEntry \/ Placed(a)
  <1>1. pt[a] # NoEntry => pt[a].frame \in Frame  BY DEF TypeOK, Entry
  <1>2. cpu[a].frame \notin Frame  BY MirrorAssumption DEF None
  <1> QED  BY <1>1, <1>2 DEF NoStaleEntry, Current, Placed

\* The kinds of pages whose entries an invalidation changes.
LEMMA PendingKind ==
    ASSUME TypeOK, KindInv, NEW i \in Invalidator, Pending(i), inval[i].ev # "discard", NEW p,
           Alike(p, inval[i].pte)
    PROVE  /\ p.kind \in {"dev", "migdev"} => inval[i].ev = "protect"
           /\ p.kind = "excl" => inval[i].ev = "restore"
  <1>1. inval[i].ev \in {"move", "protect", "cow", "restore"}  BY PendingEvent
  <1> QED  BY <1>1 DEF KindInv, Pending, Alike

\* Until an invalidation has changed the page table, the mirror gets no entry for its page.
LEMMA PendStep ==
    SharedInv /\ Regime /\ [Next]_vars => PendInv'
  <1> SUFFICES ASSUME SharedInv, Regime, [Next]_vars PROVE PendInv'  OBVIOUS
  <1>0. /\ MirrorInv /\ DstInv /\ MmapInv /\ LockInv /\ MarkInv /\ MoveInv /\ WalkedInv
        /\ PendInv /\ NoStaleEntry
        /\ TypeOK /\ PcInv /\ BatchInv /\ KindInv /\ ActiveInv /\ ReadInv /\ FramesInv
    BY DEF SharedInv, MirrorInv
  <1> DEFINE PendOf(i) ==
                 Pending(i) /\ (inval[i].ev = "discard" \/ Alike(cpu[Page(i)], inval[i].pte)) =>
                     pt[Page(i)] = NoEntry \/ Placed(Page(i))
  <1>a. ASSUME NEW i \in Invalidator, inval'[i] = inval[i], NEW a, a = Page(i), Pending(i),
               inval[i].ev = "discard" \/ Alike(cpu'[a], inval[i].pte) =>
                 pt'[a] = NoEntry \/ Placed(a)'
        PROVE  PendOf(i)'
    BY <1>a DEF Pending, Page, Alike
  <1>b. ASSUME NEW i \in Invalidator, inval'[i] = inval[i], Pending(i), NEW a, a = Page(i),
               /\ \/ cpu'[a] = cpu[a]
                  \/ inval[i].ev # "discard" /\ ~Alike(cpu'[a], inval[i].pte)
                  \/ inval[i].ev # "discard" /\ Alike(cpu[a], inval[i].pte),
               pt'[a] = pt[a] \/ pt'[a] = NoEntry,
               Placed(a) => Placed(a)'
        PROVE  PendOf(i)'
    <2>1. inval[i].ev = "discard" \/ Alike(cpu'[a], inval[i].pte) =>
            inval[i].ev = "discard" \/ Alike(cpu[a], inval[i].pte)
      BY <1>b
    <2>2. inval[i].ev = "discard" \/ Alike(cpu[a], inval[i].pte) => pt[a] = NoEntry \/ Placed(a)
      BY <1>0, <1>b DEF PendInv
    <2>3. inval[i].ev = "discard" \/ Alike(cpu'[a], inval[i].pte) =>
                 pt'[a] = NoEntry \/ Placed(a)'
      BY <1>b, <2>1, <2>2
    <2> HIDE DEF PendOf
    <2> QED  BY <1>a, <1>b, <2>3
  <1>c. ASSUME NEW i \in Invalidator, ~Pending(i)' PROVE PendOf(i)'
    BY <1>c
  <1>d. ASSUME NEW i \in Invalidator, inval'[i] = inval[i], ~Pending(i) PROVE PendOf(i)'
    BY <1>d DEF Pending
  <1>e. \A i \in Invalidator : Pending(i) => Page(i) \in Addr /\ inval[i].ev \in Event
    BY <1>0, PendingEvent
  <1> HIDE DEF PendOf
  <1>1. ASSUME NEW t \in Thread, Steps(t), NEW i \in Invalidator, Pending(i),
               NEW a \in Addr, a = Page(i), pc[t] # "finalize", cpu' = cpu,
               pt'[a] = pt[a] \/ pt'[a] = NoEntry
        PROVE  PendOf(i)'
    BY <1>0, <1>1, <1>b, PlacedKept, InvalKept
  <1>2. ASSUME NEW t \in Thread, Steps(t), Commit(t), NEW i \in Invalidator PROVE ~Pending(i)
    <2>1. pc[t] = "commit" /\ fresh[t]  BY <1>2 DEF Commit, UpToDate
    <2> QED  BY <1>0, <2>1 DEF ReadInv, ReadOf, ActiveInv, Pending
  <1>3. ASSUME NEW t \in Thread, Steps(t), Setup(t), NEW i \in Invalidator,
               Pending(i), NEW a \in Addr, a = Page(i)
        PROVE  PendOf(i)'
    <2>0. pc[t] \in {"setup", "more"} /\ pt' = pt /\ inval' = inval  BY <1>0, <1>3, SetupPlace
    <2>1. inval[i].ev # "discard"  BY <1>e, <1>3, <2>0, <1>0, Alone DEF MigratePc
    <2>2. PICK S \in SUBSET BatchRange(t) :
             /\ \A b \in S : Isolatable(t, b)
             /\ \A b \in Addr :
                  IF b \in S /\ cpu[b] # None
                    THEN Is(cpu'[b], IF Outbound(t) THEN "migsys" ELSE "migdev",
                            cpu[b].frame, cpu[b].write)
                    ELSE cpu'[b] = cpu[b]
      BY <1>0, <1>3, SetupEffect
    <2>3. Alike(cpu'[a], inval[i].pte) => Alike(cpu[a], inval[i].pte)
      BY <1>3, <2>2 DEF Isolatable, Alike, Is
    <2> QED  BY <1>0, <1>3, <1>b, <2>0, <2>1, <2>3, PlacedKept
  <1>4. ASSUME NEW t \in Thread, Steps(t), MigratePages(t), NEW i \in Invalidator,
               Pending(i), NEW a \in Addr, a = Page(i)
        PROVE  PendOf(i)'
    <2>0. pc[t] = "pages" /\ pt' = pt /\ inval' = inval  BY <1>0, <1>4, PagesPlace
    <2>1. a \in Addr  BY <1>4
    <2>2. cpu'[a] = cpu[a] \/ cpu[a] = None  BY <1>0, <1>4, <2>1, PagesEffect
    <2>3. CASE cpu'[a] = cpu[a]  BY <1>0, <1>4, <1>b, <2>0, <2>3, PlacedKept
    <2>4. CASE cpu[a] = None
      <3>1. pt[a] = NoEntry \/ Placed(a)  BY <1>0, <2>1, <2>4, AbsentPage
      <3>2. pt'[a] = NoEntry \/ Placed(a)'  BY <1>0, <1>4, <2>0, <3>1, PlacedKept
      <3> QED  BY <1>4, <1>a, <2>0, <3>2
    <2> QED  BY <2>2, <2>3, <2>4
  <1>5. ASSUME NEW t \in Thread, Steps(t), MapPages(t), NEW i \in Invalidator,
               Pending(i), NEW a \in Addr, a = Page(i)
        PROVE  PendOf(i)'
    <2>0. pc[t] = "map" /\ pc[t] \in MigratePc  BY <1>5 DEF MapPages, MigratePc
    <2>1. /\ pc'[t] = "finalize" /\ UNCHANGED <<cpu, inval, sel>>
          /\ \A b \in Addr : b \notin sel[t] => pt'[b] = pt[b]
      BY <1>0, <1>5, <2>0, Alone, MapEffect
    <2>2. CASE a \in sel[t]
      <3>1. Placed(a)'  BY <2>1, <2>2 DEF Placed
      <3> QED  BY <1>5, <1>a, <2>1, <3>1
    <2>3. CASE a \notin sel[t]
      <3>1. pt'[a] = pt[a]  BY <1>5, <2>1, <2>3
      <3> QED  BY <1>0, <1>1, <1>5, <2>0, <2>1, <3>1
    <2> QED  BY <2>2, <2>3
  <1>6. ASSUME NEW t \in Thread, Steps(t), Finalize(t), NEW i \in Invalidator,
               Pending(i), NEW a \in Addr, a = Page(i)
        PROVE  PendOf(i)'
    <2>0. pc[t] = "finalize" /\ pt' = pt /\ inval' = inval  BY <1>0, <1>6, FinalizePlace
    <2>1. pc[t] \in MigratePc /\ pc[t] \in Reading  BY <2>0 DEF MigratePc, Reading
    <2>2. inval[i].ev # "discard"  BY <1>0, <1>e, <1>6, <2>1, Alone
    <2>3. inval[i].ev # "protect"
      BY <1>0, <1>6, <2>1 DEF MmapInv, MmapReader, MmapWriter, Pending, Reading
    <2>4. /\ a \in sel[t] => dst[t][a] # NoFrame
          /\ src[t][a] # NoFrame =>
               /\ cpu[a].kind = (IF Outbound(t) THEN "migsys" ELSE "migdev")
               /\ cpu[a].frame = src[t][a]
          /\ a \in sel[t] /\ src[t][a] = NoFrame => Is(cpu[a], "dev", dst[t][a], TRUE)
          /\ a \in sel[t] /\ ~Outbound(t) /\ dst[t][a] # NoFrame => pt[a] = NoEntry
      BY <1>0, <1>6, <2>0 DEF MoveInv, MoveOf, Moving, FramesInv, FramesOf
    <2>5. IF cpu[a].kind \in {"migsys", "migdev"} /\ src[t][a] = cpu[a].frame
            THEN IF a \in sel[t]
                   THEN Is(cpu'[a], IF Outbound(t) THEN "dev" ELSE "sys", dst[t][a], cpu[a].write)
                   ELSE Is(cpu'[a], IF Outbound(t) THEN "sys" ELSE "dev",
                           cpu[a].frame, cpu[a].write)
            ELSE cpu'[a] = cpu[a]
      BY <1>0, <1>6, FinalizeEffect
    <2>6. ASSUME Alike(cpu'[a], inval[i].pte) PROVE pt[a] = NoEntry
      <3>1. cpu'[a].kind \notin {"dev", "migdev"}  BY <1>0, <1>6, <2>2, <2>3, <2>6, PendingKind
      <3>2. CASE a \in sel[t]
        <4>1. CASE src[t][a] = NoFrame  BY <2>4, <2>5, <3>1, <3>2, <4>1 DEF Is
        <4>2. CASE src[t][a] # NoFrame
          <5>1. ~Outbound(t)  BY <2>4, <2>5, <3>1, <3>2, <4>2 DEF Is
          <5> QED  BY <2>4, <3>2, <5>1
        <4> QED  BY <4>1, <4>2
      <3>3. CASE a \notin sel[t]
        <4>1. \/ cpu'[a] = cpu[a]
              \/ /\ src[t][a] # NoFrame
                 /\ Is(cpu'[a], IF Outbound(t) THEN "sys" ELSE "dev", cpu[a].frame, cpu[a].write)
          <5>1. CASE src[t][a] = NoFrame
            <6>1. cpu[a].kind \in {"migsys", "migdev"} => cpu[a].frame # NoFrame
              BY <1>0, <1>6 DEF MirrorInv, CpuInv, Proper
            <6> QED  BY <2>5, <5>1, <6>1
          <5> QED  BY <2>5, <3>3, <5>1
        <4>2. Alike(cpu[a], inval[i].pte)  BY <2>4, <2>6, <4>1 DEF Alike, Is
        <4>3. pt[a] = NoEntry \/ Placed(a)  BY <1>0, <1>6, <4>2 DEF PendInv
        <4> QED  BY <1>0, <2>1, <3>3, <4>3, PlacedBy
      <3> QED  BY <3>2, <3>3
    <2> QED  BY <1>6, <1>a, <2>0, <2>2, <2>6
  <1>7. ASSUME NEW t \in Thread, Steps(t), ExclusiveSet(t), NEW i \in Invalidator,
               Pending(i), NEW a \in Addr, a = Page(i)
        PROVE  PendOf(i)'
    <2>0. pc[t] = "xset" /\ walk[t] \in Addr /\ pt' = pt /\ inval' = inval  BY <1>0, <1>7, SetPlace
    <2>1. CASE a = walk[t]
      <3>1. pt[a] = NoEntry  BY <1>0, <2>0, <2>1 DEF MarkInv, MarkOf, Marking
      <3> QED  BY <1>7, <1>a, <2>0, <3>1
    <2>2. CASE a # walk[t]
      <3>1. cpu'[a] = cpu[a]  BY <1>0, <1>7, <2>0, <2>2, ExclusiveEffect
      <3> QED  BY <1>0, <1>7, <1>b, <2>0, <3>1, PlacedKept
    <2> QED  BY <2>1, <2>2
  <1>8. ASSUME NEW t \in Thread, Steps(t), AtomicMap(t), NEW i \in Invalidator,
               Pending(i), NEW a \in Addr, a = Page(i)
        PROVE  PendOf(i)'
    <2>0. /\ pc[t] = "xcall" /\ UNCHANGED <<cpu, inval>>
          /\ \A b \in Addr : pt'[b] = pt[b] \/ dst[t][b] # NoFrame
      BY <1>0, <1>8, AtomicEffect
    <2>1. a \in Addr  BY <1>8
    <2>2. CASE dst[t][a] = NoFrame  BY <1>1, <1>8, <2>0, <2>1, <2>2
    <2>3. CASE dst[t][a] # NoFrame
      <3>1. Locks(t, a) /\ cpu[a].kind = "excl"
        BY <1>0, <2>0, <2>1, <2>3 DEF Locks, Marked, MarkInv, MarkOf, Is
      <3>2. inval[i].ev # "discard"  BY <1>0, <1>e, <1>8, <2>0, Undisturbed DEF ExclusivePc
      <3>3. inval[i].ev # "restore"  BY <1>0, <1>8, <3>1 DEF LockInv
      <3>4. ~Alike(cpu[a], inval[i].pte)  BY <1>0, <1>8, <3>1, <3>2, <3>3, PendingKind
      <3> QED  BY <1>8, <1>a, <2>0, <3>2, <3>4
    <2> QED  BY <2>2, <2>3
  <1>9. ASSUME NEW t \in Thread, Steps(t), NEW i \in Invalidator PROVE PendOf(i)'
    <2>1. inval' = inval  BY <1>0, <1>9, InvalKept
    <2>2. CASE ~Pending(i)  BY <1>d, <2>1, <2>2
    <2>3. CASE Pending(i)
      <3> PICK a \in Addr : a = Page(i)  BY <1>e, <2>3
      <3>1. CASE Quiet(t)  BY <1>1, <1>9, <2>3, <3>1 DEF Quiet
      <3>2. CASE Commit(t)  BY <1>2, <1>9, <2>3, <3>2
      <3>3. CASE Alloc(t)
        <4>1. pc[t] = "alloc" /\ cpu' = cpu /\ (pt'[a] = pt[a] \/ pt'[a] = NoEntry)
          BY <1>0, <3>3, AllocEffect
        <4> QED  BY <1>1, <1>9, <2>3, <4>1
      <3>4. CASE ExclusiveCall(t)
        <4>1. pc[t] = "xcall" /\ cpu' = cpu /\ (pt'[a] = pt[a] \/ pt'[a] = NoEntry)
          BY <1>0, <3>4, CallEffect
        <4> QED  BY <1>1, <1>9, <2>3, <4>1
      <3> QED  BY <1>0, <1>9, <2>3, <3>1, <3>2, <3>3, <3>4, <1>3, <1>4, <1>5, <1>6, <1>7, <1>8,
                  QuietSteps
              DEF Writes
    <2> QED  BY <2>2, <2>3
  <1> DEFINE Still == UNCHANGED <<pc, sel>>
  <1>f. ASSUME Still, NEW a PROVE Placed(a)' <=> Placed(a)
    BY <1>f DEF Placed
  <1> HIDE DEF Still
  <1>10. ASSUME NEW a \in Addr, Populate(a), Still, NEW i \in Invalidator PROVE PendOf(i)'
    <2>1. /\ cpu[a] = None /\ pt' = pt /\ inval' = inval
          /\ \A b \in Addr : b # a => cpu'[b] = cpu[b]
      BY <1>0, <1>10, PopulateEffect
    <2>2. CASE ~Pending(i)  BY <1>d, <2>1, <2>2
    <2>3. CASE Pending(i) /\ Page(i) # a
      <3> PICK b \in Addr : b = Page(i)  BY <1>e, <2>3
      <3>1. cpu'[b] = cpu[b] /\ (Placed(b) => Placed(b)')  BY <1>10, <1>f, <2>1, <2>3
      <3> QED  BY <1>b, <2>1, <2>3, <3>1
    <2>4. CASE Pending(i) /\ Page(i) = a
      <3>1. pt'[a] = NoEntry \/ Placed(a)'  BY <1>0, <1>10, <1>f, <2>1, <2>4, AbsentPage
      <3> QED  BY <1>a, <2>1, <2>4, <3>1
    <2> QED  BY <2>2, <2>3, <2>4
  <1>11. ASSUME NEW j \in Invalidator, InvalidateStart(j), Still, NEW i \in Invalidator
        PROVE PendOf(i)'
    <2>1. /\ cpu' = cpu /\ \A k \in Invalidator : k # j => inval'[k] = inval[k]
          /\ pt'[Page(j)'] = NoEntry
          /\ \A b \in Addr : pt'[b] = pt[b] \/ pt'[b] = NoEntry
      BY <1>0, <1>11, StartErases
    <2>2. CASE i = j
      <3>1. pt'[Page(i)'] = NoEntry  BY <2>1, <2>2
      <3> QED  BY <3>1 DEF PendOf
    <2>3. CASE i # j /\ ~Pending(i)  BY <1>d, <2>1, <2>3
    <2>4. CASE i # j /\ Pending(i)
      <3> PICK b \in Addr : b = Page(i)  BY <1>e, <2>4
      <3>1. /\ cpu'[b] = cpu[b] /\ inval'[i] = inval[i] /\ (pt'[b] = pt[b] \/ pt'[b] = NoEntry)
            /\ Placed(b) => Placed(b)'
        BY <1>11, <1>f, <2>1, <2>4
      <3> QED  BY <1>b, <2>4, <3>1
    <2> QED  BY <2>2, <2>3, <2>4
  <1>12. ASSUME NEW j \in Invalidator, InvalidateEnd(j), Still, NEW i \in Invalidator
        PROVE PendOf(i)'
    <2>0. pt' = pt  BY <1>12, EndKeeps
    <2>1. /\ Pending(j) /\ Page(j) \in Addr /\ ~Pending(j)'
          /\ \A k \in Invalidator : k # j => inval'[k] = inval[k]
          /\ \A b \in Addr : b # Page(j) => cpu'[b] = cpu[b]
          /\ cpu' = cpu \/ cpu[Page(j)] = inval[j].pte \/ inval[j].ev = "discard"
      BY <1>0, <1>12, EndInvalidation DEF Pending
    <2>2. CASE i = j  BY <1>c, <2>1, <2>2
    <2>3. CASE i # j /\ ~Pending(i)  BY <1>d, <2>1, <2>3
    <2>4. CASE i # j /\ Pending(i)
      <3> PICK b \in Addr : b = Page(i)  BY <1>e, <2>4
      <3>0. inval'[i] = inval[i] /\ (Placed(b) => Placed(b)')  BY <1>12, <1>f, <2>1, <2>4
      <3>1. CASE cpu'[b] = cpu[b]  BY <1>b, <2>0, <2>4, <3>0, <3>1
      <3>2. CASE cpu'[b] # cpu[b]
        <4>1. b = Page(j)  BY <2>1, <3>2
        <4>2. inval[j].ev = "discard" \/ Alike(cpu[b], inval[j].pte)
          BY <2>1, <3>2, <4>1 DEF Alike
        <4>3. pt[b] = NoEntry \/ Placed(b)  BY <1>0, <2>1, <4>1, <4>2 DEF PendInv
        <4>4. pt'[b] = NoEntry \/ Placed(b)'  BY <2>0, <3>0, <4>3
        <4> QED  BY <1>a, <2>4, <3>0, <4>4
      <3> QED  BY <3>1, <3>2
    <2> QED  BY <2>2, <2>3, <2>4
  <1>13. ASSUME UNCHANGED <<cpu, pt, inval>>, Still, NEW i \in Invalidator PROVE PendOf(i)'
    <2>1. CASE ~Pending(i)  BY <1>13, <1>d, <2>1
    <2>2. CASE Pending(i)
      <3> PICK b \in Addr : b = Page(i)  BY <1>e, <2>2
      <3>1. Placed(b) => Placed(b)'  BY <1>13, <1>f
      <3> QED  BY <1>13, <1>b, <2>2, <3>1
    <2> QED  BY <2>1, <2>2
  <1>14. ASSUME NEW a, NEW v, CpuStore(a, v) PROVE UNCHANGED <<cpu, pt, inval>>
    BY <1>14 DEF CpuStore
  <1>15. ASSUME Kernel, NEW i \in Invalidator PROVE PendOf(i)'
    <2>1. Still  BY <1>15, KernelElsewhere DEF Still
    <2> QED  BY <1>10, <1>11, <1>12, <1>13, <1>14, <1>15, <2>1 DEF Kernel
  <1>16. ASSUME UNCHANGED vars, NEW i \in Invalidator PROVE PendOf(i)'
    <2>1. Still /\ UNCHANGED <<cpu, pt, inval>>  BY <1>16 DEF vars, mmVars, migVars, Still
    <2> QED  BY <1>13, <2>1
  <1> QED  BY <1>9, <1>15, <1>16 DEF Next, Steps, PendInv, PendOf

-----------------------------------------------------------------------------
(***************************************************************************)
(* The mirror's promise.                                                   *)
(***************************************************************************)
\* No step makes an entry stale.
LEMMA NoStaleStep ==
    SharedInv /\ Regime /\ [Next]_vars => NoStaleEntry'
  <1> SUFFICES ASSUME SharedInv, Regime, [Next]_vars PROVE NoStaleEntry'  OBVIOUS
  <1>0. /\ MirrorInv /\ DstInv /\ MmapInv /\ LockInv /\ MarkInv /\ MoveInv /\ WalkedInv
        /\ PendInv /\ NoStaleEntry
        /\ TypeOK /\ PcInv /\ BatchInv /\ CpuInv /\ FramesInv
    BY DEF SharedInv, MirrorInv
  <1> DEFINE Good(a) == pt[a] # NoEntry => Current(a, pt[a])
             Here(a) == /\ pt[a].frame = cpu[a].frame
                        /\ pt[a].tag = "WRITE" => cpu[a].write
                        /\ pt[a].tag = "ATOMIC" <=> cpu[a].kind = "excl"
             Coming(a) ==
                 \E t \in Thread : pc[t] = "finalize" /\ a \in sel[t] /\ pt[a].frame = dst[t][a]
  <1>g. ASSUME NEW a PROVE Good(a) <=> (pt[a] = NoEntry \/ Here(a) \/ Coming(a))
    BY DEF Current
  <1>h. ASSUME NEW a PROVE Good(a)' <=> (pt'[a] = NoEntry \/ Here(a)' \/ Coming(a)')
    BY DEF Current
  <1>i. \A a \in Addr : Good(a)  BY <1>0 DEF NoStaleEntry
  <1>a. ASSUME NEW a \in Addr,
               pt'[a] = pt[a] \/ pt'[a] = NoEntry,
               Here(a) => Here(a)' \/ pt'[a] = NoEntry,
               \A u \in Thread : pc[u] = "finalize" =>
                   pc'[u] = "finalize" /\ sel'[u] = sel[u] /\ dst'[u] = dst[u]
        PROVE  Good(a)'
    <2>1. CASE pt'[a] = NoEntry  BY <2>1, <1>h
    <2>2. CASE pt'[a] = pt[a]
      <3>1. Coming(a) => Coming(a)'  BY <1>a, <2>2
      <3> HIDE DEF Good, Here, Coming
      <3> QED  BY <1>a, <1>g, <1>h, <1>i, <2>2, <3>1
    <2> QED  BY <1>a, <2>1, <2>2
  <1>b. ASSUME NEW a, pt'[a] = pt[a], cpu'[a] = cpu[a], Here(a) PROVE Here(a)'
    BY <1>b
  <1>c. ASSUME NEW a \in Addr, cpu[a] = None, Here(a) PROVE pt[a] = NoEntry
    <2>1. pt[a] # NoEntry => pt[a].frame \in Frame  BY <1>0 DEF TypeOK, Entry
    <2> QED  BY <1>c, <2>1, MirrorAssumption DEF None
  <1>1. ASSUME NEW t \in Thread, Steps(t), pc[t] # "finalize", NEW a \in Addr,
               pt'[a] = pt[a] \/ pt'[a] = NoEntry, cpu'[a] = cpu[a]
        PROVE  Good(a)'
    BY <1>0, <1>1, <1>a, <1>b, PlacedKept
  <1>2. ASSUME NEW t \in Thread, Steps(t), Commit(t), NEW a \in Addr PROVE Good(a)'
    <2>1. /\ pc[t] = "commit" /\ fresh[t] /\ cpu' = cpu
          /\ pt'[a] = pt[a] \/ (a \in BatchRange(t) /\ a < walk[t] /\ pt'[a] = Stored(pfns[t][a]))
      BY <1>0, <1>2, CommitEffect
    <2>2. CASE pt'[a] = pt[a]  BY <1>1, <1>2, <2>1, <2>2
    <2>3. CASE a \in BatchRange(t) /\ a < walk[t] /\ pt'[a] = Stored(pfns[t][a])
      <3>1. /\ cpu[a].kind \in {"sys", "dev"}
            /\ pfns[t][a].frame = cpu[a].frame /\ pfns[t][a].write = cpu[a].write
        BY <1>0, <2>1, <2>3 DEF WalkedInv, WalkedOf
      <3>2. /\ pt'[a].frame = pfns[t][a].frame /\ pt'[a].tag # "ATOMIC"
            /\ pt'[a].tag = "WRITE" => pfns[t][a].write
        BY <2>3 DEF Stored
      <3>3. Here(a)'  BY <2>1, <3>1, <3>2
      <3> QED  BY <1>h, <3>3
    <2> QED  BY <2>1, <2>2, <2>3
  <1>3. ASSUME NEW t \in Thread, Steps(t), Setup(t), NEW a \in Addr PROVE Good(a)'
    <2>1. pc[t] \in {"setup", "more"} /\ pt' = pt  BY <1>0, <1>3, SetupPlace
    <2>2. PICK S \in SUBSET BatchRange(t) :
             /\ \A b \in S : Isolatable(t, b)
             /\ \A b \in Addr :
                  IF b \in S /\ cpu[b] # None
                    THEN Is(cpu'[b], IF Outbound(t) THEN "migsys" ELSE "migdev",
                            cpu[b].frame, cpu[b].write)
                    ELSE cpu'[b] = cpu[b]
      BY <1>0, <1>3, SetupEffect
    <2>3. \/ cpu'[a] = cpu[a]
          \/ /\ cpu[a].kind # "excl" /\ cpu'[a].kind # "excl"
             /\ cpu'[a].frame = cpu[a].frame /\ cpu'[a].write = cpu[a].write
      BY <2>2 DEF Isolatable, Is
    <2>4. Here(a) => Here(a)'  BY <2>1, <2>3
    <2> HIDE DEF Good, Here
    <2> QED  BY <1>0, <1>3, <1>a, <2>1, <2>4, PlacedKept
  <1>4. ASSUME NEW t \in Thread, Steps(t), MigratePages(t), NEW a \in Addr PROVE Good(a)'
    <2>1. pc[t] = "pages" /\ pt' = pt  BY <1>0, <1>4, PagesPlace
    <2>2. cpu'[a] = cpu[a] \/ cpu[a] = None  BY <1>0, <1>4, PagesEffect
    <2>3. Here(a) => Here(a)' \/ pt'[a] = NoEntry  BY <1>b, <1>c, <2>1, <2>2
    <2> HIDE DEF Good, Here
    <2> QED  BY <1>0, <1>4, <1>a, <2>1, <2>3, PlacedKept
  <1>5. ASSUME NEW t \in Thread, Steps(t), MapPages(t), NEW a \in Addr PROVE Good(a)'
    <2>0. pc[t] = "map" /\ pc[t] \in MigratePc  BY <1>5 DEF MapPages, MigratePc
    <2>1. /\ pc'[t] = "finalize" /\ UNCHANGED <<cpu, dst, sel>>
          /\ a \notin sel[t] => pt'[a] = pt[a]
          /\ a \in sel[t] => pt'[a].frame = dst[t][a]
      BY <1>0, <1>5, <2>0, Alone, MapEffect
    <2>2. CASE a \in sel[t]
      <3>1. Coming(a)'  BY <2>1, <2>2
      <3> QED  BY <1>h, <3>1
    <2>3. CASE a \notin sel[t]  BY <1>1, <1>5, <2>0, <2>1, <2>3
    <2> QED  BY <2>2, <2>3
  <1>6. ASSUME NEW t \in Thread, Steps(t), Finalize(t), NEW a \in Addr PROVE Good(a)'
    <2>0. pc[t] = "finalize" /\ pt' = pt  BY <1>0, <1>6, FinalizePlace
    <2>1. pc[t] \in MigratePc  BY <2>0 DEF MigratePc
    <2>2. /\ a \in sel[t] => dst[t][a] # NoFrame
          /\ src[t][a] # NoFrame =>
               /\ cpu[a].kind = (IF Outbound(t) THEN "migsys" ELSE "migdev")
               /\ cpu[a].frame = src[t][a]
          /\ a \in sel[t] /\ src[t][a] = NoFrame => Outbound(t) /\ Is(cpu[a], "dev", dst[t][a], TRUE)
          /\ a \in sel[t] /\ ~Outbound(t) /\ dst[t][a] # NoFrame => pt[a] = NoEntry
          /\ a \in sel[t] /\ Outbound(t) /\ pt[a] # NoEntry =>
               /\ pt[a].frame = dst[t][a] /\ pt[a].tag # "ATOMIC"
               /\ pt[a].tag = "WRITE" => cpu[a].write
      BY <1>0, <1>6, <2>0 DEF MoveInv, MoveOf, Moving, FramesInv, FramesOf
    <2>3. IF cpu[a].kind \in {"migsys", "migdev"} /\ src[t][a] = cpu[a].frame
            THEN IF a \in sel[t]
                   THEN Is(cpu'[a], IF Outbound(t) THEN "dev" ELSE "sys", dst[t][a], cpu[a].write)
                   ELSE Is(cpu'[a], IF Outbound(t) THEN "sys" ELSE "dev",
                           cpu[a].frame, cpu[a].write)
            ELSE cpu'[a] = cpu[a]
      BY <1>0, <1>6, FinalizeEffect
    <2>4. CASE a \in sel[t]
      <3>1. CASE ~Outbound(t)  BY <1>h, <2>0, <2>2, <2>4, <3>1
      <3>2. CASE Outbound(t) /\ pt[a] # NoEntry
        <4>1. cpu'[a].kind = "dev" /\ cpu'[a].frame = dst[t][a] /\ cpu'[a].write = cpu[a].write
          BY <2>2, <2>3, <2>4, <3>2 DEF Is
        <4>2. Here(a)'  BY <2>0, <2>2, <2>4, <3>2, <4>1
        <4> QED  BY <1>h, <4>2
      <3>3. CASE pt[a] = NoEntry  BY <1>h, <2>0, <3>3
      <3> QED  BY <3>1, <3>2, <3>3
    <2>5. CASE a \notin sel[t]
      <3>1. pt[a] = NoEntry \/ Here(a) \/ Coming(a)  BY <1>g, <1>i
      <3>2. ~Coming(a)
        <4>1. ~Placed(a)  BY <1>0, <2>1, <2>5, PlacedBy
        <4> QED  BY <4>1 DEF Placed
      <3>3. \/ cpu'[a] = cpu[a]
            \/ /\ cpu[a].kind # "excl" /\ cpu'[a].kind # "excl"
               /\ cpu'[a].frame = cpu[a].frame /\ cpu'[a].write = cpu[a].write
        BY <2>3, <2>5 DEF Is
      <3>4. Here(a) => Here(a)'  BY <2>0, <3>3
      <3> HIDE DEF Good, Here, Coming
      <3> QED  BY <1>h, <2>0, <3>1, <3>2, <3>4
    <2> QED  BY <2>4, <2>5
  <1>7. ASSUME NEW t \in Thread, Steps(t), ExclusiveSet(t), NEW a \in Addr PROVE Good(a)'
    <2>0. pc[t] = "xset" /\ walk[t] \in Addr /\ pt' = pt  BY <1>0, <1>7, SetPlace
    <2>1. CASE a = walk[t]
      <3>1. pt[a] = NoEntry  BY <1>0, <2>0, <2>1 DEF MarkInv, MarkOf, Marking
      <3> QED  BY <1>h, <2>0, <3>1
    <2>2. CASE a # walk[t]
      <3>1. cpu'[a] = cpu[a]  BY <1>0, <1>7, <2>0, <2>2, ExclusiveEffect
      <3> QED  BY <1>1, <1>7, <2>0, <3>1
    <2> QED  BY <2>1, <2>2
  <1>8. ASSUME NEW t \in Thread, Steps(t), AtomicMap(t), NEW a \in Addr PROVE Good(a)'
    <2>1. /\ pc[t] = "xcall" /\ cpu' = cpu
          /\ pt'[a] = pt[a] \/ (dst[t][a] # NoFrame /\ pt'[a] = AtomicEntry(dst[t][a]))
      BY <1>0, <1>8, AtomicEffect
    <2>2. CASE pt'[a] = pt[a]  BY <1>1, <1>8, <2>1, <2>2
    <2>3. CASE dst[t][a] # NoFrame /\ pt'[a] = AtomicEntry(dst[t][a])
      <3>1. Is(cpu[a], "excl", dst[t][a], TRUE)
        BY <1>0, <2>1, <2>3 DEF MarkInv, MarkOf, Marked
      <3>2. pt'[a].frame = dst[t][a] /\ pt'[a].tag = "ATOMIC"  BY <2>3 DEF AtomicEntry
      <3>3. Here(a)'  BY <2>1, <3>1, <3>2 DEF Is
      <3> QED  BY <1>h, <3>3
    <2> QED  BY <2>1, <2>2, <2>3
  <1> HIDE DEF Good
  <1>9. ASSUME NEW t \in Thread, Steps(t), NEW a \in Addr PROVE Good(a)'
    <2>1. CASE Quiet(t)  BY <1>1, <1>9, <2>1 DEF Quiet
    <2>2. CASE Alloc(t)
      <3>1. pc[t] = "alloc" /\ cpu' = cpu /\ (pt'[a] = pt[a] \/ pt'[a] = NoEntry)
        BY <1>0, <2>2, AllocEffect
      <3> QED  BY <1>1, <1>9, <3>1
    <2>3. CASE ExclusiveCall(t)
      <3>1. pc[t] = "xcall" /\ cpu' = cpu /\ (pt'[a] = pt[a] \/ pt'[a] = NoEntry)
        BY <1>0, <2>3, CallEffect
      <3> QED  BY <1>1, <1>9, <3>1
    <2> QED  BY <1>0, <1>9, <2>1, <2>2, <2>3, <1>2, <1>3, <1>4, <1>5, <1>6, <1>7, <1>8, QuietSteps
            DEF Writes
  <1> DEFINE Still == UNCHANGED <<pc, sel, dst>>
  <1>10. ASSUME Still, NEW a \in Addr, pt'[a] = pt[a] \/ pt'[a] = NoEntry,
                cpu'[a] = cpu[a] \/ cpu[a] = None
         PROVE  Good(a)'
    <2>1. Here(a) => Here(a)' \/ pt'[a] = NoEntry  BY <1>10, <1>b, <1>c
    <2> HIDE DEF Here
    <2> QED  BY <1>10, <1>a, <2>1
  <1>11. ASSUME NEW b \in Addr, Populate(b), Still, NEW a \in Addr PROVE Good(a)'
    BY <1>0, <1>10, <1>11, PopulateEffect
  <1>12. ASSUME NEW i \in Invalidator, InvalidateStart(i), Still, NEW a \in Addr PROVE Good(a)'
    BY <1>0, <1>10, <1>12, StartErases
  <1>13. ASSUME NEW i \in Invalidator, InvalidateEnd(i), Still, NEW a \in Addr PROVE Good(a)'
    <2>0. pt' = pt  BY <1>13, EndKeeps
    <2>1. CASE cpu'[a] = cpu[a]  BY <1>10, <1>13, <2>0, <2>1
    <2>2. CASE cpu'[a] # cpu[a]
      <3>1. /\ Pending(i) /\ Page(i) = a
            /\ cpu[a] = inval[i].pte \/ inval[i].ev = "discard"
        BY <1>0, <1>13, <2>2, EndInvalidation DEF Pending
      <3>2. pt[a] = NoEntry \/ Placed(a)  BY <1>0, <3>1 DEF PendInv, Alike
      <3>3. ASSUME Placed(a), pt[a] # NoEntry PROVE Coming(a)'
        <4>1. PICK u \in Thread : pc[u] = "finalize" /\ a \in sel[u]  BY <3>3 DEF Placed
        <4>2. MoveOf(u) /\ Moving(u) /\ dst[u][a] # NoFrame
          BY <1>0, <4>1 DEF MoveInv, Moving, FramesInv, FramesOf
        <4>3. pt[a].frame = dst[u][a]  BY <3>3, <4>1, <4>2 DEF MoveOf
        <4> QED  BY <1>13, <2>0, <4>1, <4>3
      <3> QED  BY <1>h, <2>0, <3>2, <3>3
    <2> QED  BY <2>1, <2>2
  <1>14. ASSUME UNCHANGED <<cpu, pt>>, Still, NEW a \in Addr PROVE Good(a)'
    BY <1>10, <1>14
  <1>15. ASSUME NEW a, NEW v, CpuStore(a, v) PROVE UNCHANGED <<cpu, pt>>
    BY <1>15 DEF CpuStore
  <1>16. ASSUME Kernel, NEW a \in Addr PROVE Good(a)'
    <2>1. Still  BY <1>16, KernelElsewhere
    <2> QED  BY <1>11, <1>12, <1>13, <1>14, <1>15, <1>16, <2>1 DEF Kernel
  <1>17. ASSUME UNCHANGED vars, NEW a \in Addr PROVE Good(a)'
    <2>1. Still /\ UNCHANGED <<cpu, pt>>  BY <1>17 DEF vars, mmVars, migVars
    <2> QED  BY <1>14, <2>1
  <1>18. ASSUME NEW a \in Addr PROVE Good(a)'
    BY <1>9, <1>16, <1>17 DEF Next, Steps
  <1> QED  BY <1>18 DEF NoStaleEntry, Good

\* The mirror starts empty, with nobody at work.
LEMMA SharedInit == Init => SharedInv
  <1> SUFFICES ASSUME Init PROVE SharedInv  OBVIOUS
  <1>1. MirrorInv  BY MirrorInit
  <1>2. DstInv  BY DEF Init, DstInv, DstOf, NoFrames
  <1>3. MmapInv  BY DEF Init, MmapInv, MmapReader, MmapWriter
  <1>4. LockInv /\ MarkInv
    BY DEF Init, LockInv, Pending, Locks, MarkInv, MarkOf, Marking, Marked
  <1>5. MoveInv /\ WalkedInv  BY DEF Init, MoveInv, MoveOf, Moving, WalkedInv, WalkedOf
  <1>6. PendInv /\ NoStaleEntry  BY DEF Init, PendInv, Pending, NoStaleEntry
  <1> QED  BY <1>1, <1>2, <1>3, <1>4, <1>5, <1>6 DEF SharedInv

\* Every step preserves the invariant.
LEMMA SharedStep == Regime /\ SharedInv /\ [Next]_vars => SharedInv'
  <1> SUFFICES ASSUME Regime, SharedInv, [Next]_vars PROVE SharedInv'  OBVIOUS
  <1>1. /\ MirrorInv /\ DstInv /\ MmapInv /\ LockInv /\ MarkInv /\ MoveInv /\ WalkedInv
        /\ TypeOK /\ PcInv /\ BatchInv
    BY DEF SharedInv, MirrorInv
  <1>2. MirrorInv'  BY <1>1, MirrorStep
  <1>3. DstInv' /\ MmapInv' /\ LockInv'  BY <1>1, DstStep, MmapStep, LockStep
  <1>4. MarkInv' /\ MoveInv' /\ WalkedInv'  BY <1>1, MarkStep, MoveStep, WalkedStep
  <1>5. PendInv' /\ NoStaleEntry'  BY PendStep, NoStaleStep
  <1> QED  BY <1>2, <1>3, <1>4, <1>5 DEF SharedInv

\* The promise of the comment in dmirror_do_update(): the notifier clears pointers before they
\* are stale, so every entry of the mirror names the page that the process has there, or is
\* about to have, with no more access than the process has (NoStaleEntry); for any number of
\* threads, invalidators, pages and frames, as long as the mirror is used as in Regime.
THEOREM EntriesAreCurrent ==
    ASSUME Regime
    PROVE  Spec => []NoStaleEntry
  <1>1. Init => SharedInv  BY SharedInit
  <1>2. SharedInv /\ [Next]_vars => SharedInv'  BY SharedStep
  <1>3. SharedInv => NoStaleEntry  BY DEF SharedInv
  <1> QED  BY <1>1, <1>2, <1>3, PTL DEF Spec
-----------------------------------------------------------------------------
(***************************************************************************)
(* The mirror implements one memory.                                       *)
(***************************************************************************)
\* The mutex, and the entry that a thread uses under it.
Holding == {"load", "copy", "oops"}

MutexInv == \A t \in Thread : pc[t] \in Holding <=> mutex = t

EntryInv == \A t \in Thread : pc[t] = "copy" => pt[cur[t]] = entry[t]

\* A frame is in one place of the page table, or the destination of one page of a migration,
\* which becomes the page's own frame only if the page did not exist.
SoleInv ==
    \A a, b \in Addr : cpu[a].frame = cpu[b].frame /\ cpu[a].frame # NoFrame => a = b

DestOf(t) ==
    Moving(t) => \A a, b \in Addr : dst[t][a] # NoFrame =>
        /\ cpu[b].frame = dst[t][a] =>
             a = b /\ src[t][a] = NoFrame /\ a \in sel[t] /\ pc[t] \in {"map", "finalize"}
        /\ dst[t][b] = dst[t][a] => a = b

DestInv == \A t \in Thread : DestOf(t)

\* From the copying of a page to the end of its migration both frames have the same contents.
CopyOf(t) ==
    pc[t] \in {"pages", "map", "finalize"} =>
        \A a \in sel[t] : dst[t][a] # NoFrame => data[dst[t][a]] = Contents(t, a)

CopyInv == \A t \in Thread : CopyOf(t)

\* How far a command has come.
CurOf(t) ==
    /\ pc[t] # "idle" => cmd[t].lo <= cur[t]
    /\ pc[t] \in SnapshotPc => cur[t] = addr[t]

CurInv == \A t \in Thread : CurOf(t)

MemoryInv == SharedInv /\ MutexInv /\ EntryInv /\ SoleInv /\ DestInv /\ CopyInv /\ CurInv

(***************************************************************************)
(* What a step does for the command of its thread.                         *)
(***************************************************************************)
Silent == UNCHANGED <<cmd, cur, bounce, ret, stores>>

Ends(t, r) == Return(t, r) /\ UNCHANGED <<cur, bounce, stores>>

\* A snapshot's batch is done.
Reported(t) ==
    /\ SnapshotOut(t) /\ pc[t] = "sout" /\ pc'[t] = "snext"
    /\ cur' = [cur EXCEPT ![t] = BatchEnd(t) + 1] /\ addr' = [addr EXCEPT ![t] = BatchEnd(t) + 1]
    /\ UNCHANGED <<cmd, bounce, ret, stores>>

Finished(t) ==
    cmd[t].op \in {"read", "write", "todev", "excl", "snapshot"} => cur[t] > cmd[t].hi

\* A step starts a command, copies a page, reports some, ends the command, or is not seen.
LEMMA Outcome ==
    ASSUME TypeOK, PcInv, CurInv, NEW t \in Thread, Steps(t)
    PROVE  \/ \E c \in Cmd : c.op \in OpOf[t] /\ Start(t, c)
           \/ Copy(t) \/ Reported(t) \/ Silent
           \/ pc[t] # "idle" /\ Ends(t, "error")
           \/ pc[t] # "idle" /\ Ends(t, "ok") /\ Finished(t)
  <1> DEFINE Over(r) == pc[t] # "idle" /\ Ends(t, r)
  <1>1. ASSUME \/ MutexLock(t) \/ Load(t) \/ CopyOops(t) \/ ReadBegin(t) \/ MmapReadLock(t)
               \/ Walk(t) \/ WalkBusy(t) \/ Retry(t) \/ Setup(t) \/ Alloc(t) \/ CopyPages(t)
               \/ MigratePages(t) \/ MapPages(t) \/ ExclusiveStart(t) \/ ExclusiveCall(t)
               \/ ExclusiveSet(t) \/ ExclusiveSkip(t) \/ SnapshotBegin(t) \/ SnapshotLock(t)
               \/ SnapshotWalk(t) \/ SnapshotRetry(t) \/ SnapshotCommit(t)
        PROVE  Silent
    BY <1>1 DEF Silent, MutexLock, Load, CopyOops, ReadBegin, MmapReadLock, Walk, WalkBusy, Retry,
            Setup, Alloc, CopyPages, MigratePages, MapPages, ExclusiveStart, ExclusiveCall,
            ExclusiveSet, ExclusiveSkip, SnapshotBegin, SnapshotLock, SnapshotWalk,
            SnapshotRetry, SnapshotCommit, accessVars, countVars
  <1>2. ASSUME SetupFails(t) \/ FaultFails(t) \/ ExclusiveShort(t) PROVE Over("error")
    BY <1>2 DEF Ends, SetupFails, FaultFails, ExclusiveShort, countVars
  <1>3. ASSUME \/ BounceInit(t) \/ AccessMiss(t) \/ SnapshotInsert(t) \/ SnapshotFails(t)
               \/ AtomicMap(t) \/ Commit(t)
        PROVE  Silent \/ Over("error")
    BY <1>3 DEF Silent, Ends, BounceInit, AccessMiss, SnapshotInsert, SnapshotFails, AtomicMap,
            Commit, accessVars, countVars
  <1>4. ASSUME AccessDone(t) PROVE (Over("ok") /\ Finished(t)) \/ Over("error")
    <2>1. pc[t] = "load" /\ cur[t] \notin Range(t)  BY <1>4 DEF AccessDone
    <2>2. cmd[t].lo <= cur[t] /\ cur[t] \in Int /\ cmd[t].hi \in Int /\ cmd[t].lo \in Int
      BY <2>1, Running, MirrorAssumption DEF CurInv, CurOf, TypeOK, Addr
    <2>3. cur[t] > cmd[t].hi  BY <2>1, <2>2 DEF Range
    <2> QED  BY <1>4, <2>1, <2>3 DEF AccessDone, Finished, Ends, countVars
  <1>5. ASSUME Finalize(t) PROVE Silent \/ (Over("ok") /\ Finished(t))
    <2>1. pc[t] = "finalize" /\ cmd[t].op \in {"todev", "tosys", "fault"}
      BY <1>5 DEF Finalize, PcInv, PcOf, Fits, MigratePc
    <2> QED  BY <1>5, <2>1 DEF Finalize, Silent, Ends, Finished, Outbound, countVars
  <1>6. ASSUME dmirror_check_atomic(t)
        PROVE  Silent \/ Over("error") \/ (Over("ok") /\ Finished(t))
    <2>1. pc[t] = "check" /\ cmd[t].op = "check"
      BY <1>6 DEF dmirror_check_atomic, PcInv, PcOf, Fits
    <2> QED
      BY <1>6, <2>1 DEF dmirror_check_atomic, Silent, Ends, Finished, countVars
  <1>7. ASSUME SnapshotOut(t) PROVE Reported(t) \/ Over("error")
    BY <1>7 DEF SnapshotOut, Reported, Ends, PcInv, countVars
  <1>8. ASSUME SnapshotNext(t) PROVE Silent \/ (Over("ok") /\ Finished(t))
    <2>1. pc[t] = "snext" /\ cur[t] = addr[t]
      BY <1>8 DEF SnapshotNext, CurInv, CurOf, SnapshotPc
    <2> QED  BY <1>8, <2>1 DEF SnapshotNext, Silent, Ends, Finished, countVars
  <1> HIDE DEF Over
  <1> QED
    BY StartEffect, <1>1, <1>2, <1>3, <1>4, <1>5, <1>6, <1>7, <1>8
       DEF Steps, Access, Fault, Migrate, Exclusive, Snapshot, Over

\* The mutex is taken, given back, or left alone.
LEMMA MutexSteps ==
    ASSUME TypeOK, PcInv, NEW t \in Thread, Steps(t)
    PROVE  \/ mutex' = mutex /\ (pc'[t] \in Holding <=> pc[t] \in Holding)
           \/ mutex = Nobody /\ mutex' = t /\ pc'[t] \in Holding
           \/ pc[t] \in Holding /\ mutex' = Nobody /\ pc'[t] \notin Holding
  <1> pc \in [Thread -> Pcs]  BY DEF PcInv
  <1> USE DEF Holding
  <1>1. ASSUME NEW c \in Cmd, c.op \in OpOf[t], Start(t, c)
        PROVE  mutex' = mutex /\ pc[t] \notin Holding /\ pc'[t] \notin Holding
    <2>1. pc'[t] = FirstStep(c.op) /\ pc[t] = "idle" /\ mutex' = mutex  BY <1>1 DEF Start
    <2> QED  BY <1>1, <2>1, FirstSteps
  <1>2. ASSUME \/ BounceInit(t) \/ ReadBegin(t) \/ MmapReadLock(t)
               \/ Walk(t) \/ WalkBusy(t) \/ FaultFails(t) \/ Retry(t) \/ Commit(t) \/ Setup(t)
               \/ SetupFails(t) \/ Alloc(t) \/ CopyPages(t) \/ MigratePages(t) \/ MapPages(t)
               \/ Finalize(t)
        PROVE  mutex' = mutex /\ pc[t] \notin Holding /\ pc'[t] \notin Holding
    BY <1>2 DEF BounceInit, ReadBegin, MmapReadLock, Walk, WalkBusy, FaultFails, Retry, Commit,
            Setup, SetupFails, Alloc, CopyPages, MigratePages, MapPages, Finalize, Return
  <1>3. ASSUME \/ ExclusiveStart(t) \/ ExclusiveCall(t) \/ ExclusiveSet(t) \/ ExclusiveSkip(t)
               \/ ExclusiveShort(t) \/ AtomicMap(t) \/ dmirror_check_atomic(t)
               \/ SnapshotInsert(t) \/ SnapshotBegin(t) \/ SnapshotLock(t) \/ SnapshotWalk(t)
               \/ SnapshotRetry(t) \/ SnapshotCommit(t) \/ SnapshotOut(t) \/ SnapshotNext(t)
               \/ SnapshotFails(t)
        PROVE  mutex' = mutex /\ pc[t] \notin Holding /\ pc'[t] \notin Holding
    BY <1>3 DEF ExclusiveStart, ExclusiveCall, ExclusiveSet, ExclusiveSkip, ExclusiveShort,
            AtomicMap, dmirror_check_atomic, SnapshotInsert, SnapshotBegin, SnapshotLock,
            SnapshotWalk, SnapshotRetry, SnapshotCommit, SnapshotOut, SnapshotNext,
            SnapshotFails, Return
  <1>4. CASE MutexLock(t)  BY <1>4 DEF MutexLock
  <1>5. CASE Load(t) \/ Copy(t) \/ CopyOops(t)  BY <1>5 DEF Load, Copy, CopyOops
  <1>6. CASE AccessDone(t) \/ AccessMiss(t)  BY <1>6 DEF AccessDone, AccessMiss, Return
  <1> QED
    BY StartEffect, <1>1, <1>2, <1>3, <1>4, <1>5, <1>6
       DEF Steps, Access, Fault, Migrate, Exclusive, Snapshot

\* Whoever has the mutex is at work on the table.
LEMMA MutexStep == TypeOK /\ PcInv /\ MutexInv /\ [Next]_vars => MutexInv'
  <1> SUFFICES ASSUME TypeOK, PcInv, MutexInv, [Next]_vars PROVE MutexInv'  OBVIOUS
  <1>1. ASSUME NEW t \in Thread, Steps(t), NEW u \in Thread
        PROVE  pc'[u] \in Holding <=> mutex' = u
    <2>1. CASE u = t  BY <1>1, <2>1, MutexSteps, MirrorAssumption DEF MutexInv
    <2>2. CASE u # t
      <3>1. pc'[u] = pc[u]  BY <1>1, <2>2, Elsewhere DEF Same
      <3> QED  BY <1>1, <2>2, <3>1, MutexSteps, MirrorAssumption DEF MutexInv
    <2> QED  BY <2>1, <2>2
  <1>2. ASSUME Kernel PROVE UNCHANGED <<pc, mutex>>
    BY <1>2 DEF Kernel, Populate, CpuStore, InvalidateStart, InvalidateEnd
  <1>3. CASE Kernel  BY <1>2, <1>3 DEF MutexInv
  <1>4. CASE UNCHANGED vars  BY <1>4 DEF vars, MutexInv
  <1>5. CASE \E t \in Thread : Steps(t)  BY <1>1, <1>5 DEF MutexInv
  <1> QED  BY <1>3, <1>4, <1>5 DEF Next, Steps

\* The table changes under the mutex, except when a page comes back from the device.
LEMMA TableSteps ==
    ASSUME TypeOK, PcInv, NEW t \in Thread, Steps(t)
    PROVE  pt' = pt \/ mutex = Nobody \/ Alloc(t)
  <1>1. CASE Quiet(t)  BY <1>1 DEF Quiet
  <1>2. CASE Setup(t) \/ MigratePages(t) \/ Finalize(t) \/ ExclusiveSet(t)
    BY <1>2 DEF Setup, MigratePages, Finalize, ExclusiveSet
  <1>3. CASE Commit(t) \/ MapPages(t) \/ ExclusiveCall(t) \/ AtomicMap(t)
    BY <1>3 DEF Commit, MapPages, ExclusiveCall, AtomicMap, dmirror_interval_invalidate
  <1> QED  BY <1>1, <1>2, <1>3, QuietSteps DEF Writes

\* Where a thread that copies, or has copied for a migration, comes from.
LEMMA Copies ==
    ASSUME TypeOK, PcInv, NEW t \in Thread, Steps(t), pc'[t] \in {"copy", "pages"}
    PROVE  IF pc'[t] = "copy" THEN Load(t) ELSE CopyPages(t)
  <1> USE DEF PcInv
  <1>1. ASSUME NEW c \in Cmd, c.op \in OpOf[t], Start(t, c) PROVE FALSE
    <2>1. pc'[t] = FirstStep(c.op)  BY <1>1 DEF Start
    <2> QED  BY <1>1, <2>1, FirstSteps
  <1>2. ASSUME \/ BounceInit(t) \/ MutexLock(t) \/ Copy(t) \/ CopyOops(t)
               \/ AccessDone(t) \/ AccessMiss(t) \/ ReadBegin(t) \/ MmapReadLock(t) \/ Walk(t)
               \/ WalkBusy(t) \/ FaultFails(t) \/ Retry(t) \/ Commit(t) \/ Setup(t)
               \/ SetupFails(t) \/ Alloc(t) \/ MigratePages(t) \/ MapPages(t)
               \/ Finalize(t) \/ ExclusiveStart(t) \/ ExclusiveCall(t) \/ ExclusiveSet(t)
               \/ ExclusiveSkip(t) \/ ExclusiveShort(t) \/ AtomicMap(t)
               \/ dmirror_check_atomic(t) \/ SnapshotInsert(t) \/ SnapshotBegin(t)
               \/ SnapshotLock(t) \/ SnapshotWalk(t) \/ SnapshotRetry(t) \/ SnapshotCommit(t)
               \/ SnapshotOut(t) \/ SnapshotNext(t) \/ SnapshotFails(t)
        PROVE  FALSE
    BY <1>2 DEF BounceInit, MutexLock, Copy, CopyOops, AccessDone, AccessMiss, ReadBegin,
           MmapReadLock, Walk, WalkBusy, FaultFails, Retry, Commit, Setup, SetupFails, Alloc,
           MigratePages, MapPages, Finalize, ExclusiveStart, ExclusiveCall,
           ExclusiveSet, ExclusiveSkip, ExclusiveShort, AtomicMap, dmirror_check_atomic,
           SnapshotInsert, SnapshotBegin, SnapshotLock, SnapshotWalk, SnapshotRetry,
           SnapshotCommit, SnapshotOut, SnapshotNext, SnapshotFails, Return
  <1>3. Load(t) => pc'[t] = "copy"  BY DEF Load
  <1>4. CopyPages(t) => pc'[t] = "pages"  BY DEF CopyPages
  <1> QED
    BY StartEffect, <1>1, <1>2, <1>3, <1>4 DEF Steps, Access, Fault, Migrate, Exclusive, Snapshot

\* Between its load and its copy a thread's entry stays in the table.
LEMMA EntryStep ==
    Regime /\ TypeOK /\ PcInv /\ MutexInv /\ EntryInv /\ [Next]_vars => EntryInv'
  <1> SUFFICES ASSUME Regime, TypeOK, PcInv, MutexInv, EntryInv, [Next]_vars PROVE EntryInv'
    OBVIOUS
  <1>a. ASSUME NEW u \in Thread, pc[u] = "copy" PROVE mutex # Nobody
    BY <1>a, MirrorAssumption DEF MutexInv, Holding
  <1>1. ASSUME NEW t \in Thread, Steps(t), NEW u \in Thread, u # t, pc'[u] = "copy"
        PROVE  pt'[cur'[u]] = entry'[u]
    <2>1. pc[u] = "copy" /\ cur'[u] = cur[u] /\ entry'[u] = entry[u]
      BY <1>1, Elsewhere DEF Same
    <2>2. ~Alloc(t)
      <3>1. Alloc(t) => pc[t] \in MigratePc  BY DEF Alloc, MigratePc
      <3> QED  BY <1>1, <2>1, <3>1, Alone DEF SnapshotPc, BatchPc
    <2>3. pt' = pt  BY <1>1, <1>a, <2>1, <2>2, TableSteps
    <2> QED  BY <2>1, <2>3 DEF EntryInv
  <1>2. ASSUME NEW t \in Thread, Steps(t), pc'[t] = "copy"
        PROVE  pt'[cur'[t]] = entry'[t]
    BY <1>2, Copies DEF Load, TypeOK
  <1>3. ASSUME Kernel PROVE UNCHANGED <<pc, cur, entry>> /\ (pt' = pt \/ mutex = Nobody)
    <2>1. pt' = pt \/ mutex = Nobody
      BY <1>3 DEF Kernel, Populate, CpuStore, InvalidateStart, InvalidateEnd,
              dmirror_interval_invalidate
    <2> QED  BY <1>3, <2>1, KernelElsewhere
  <1>4. CASE Kernel  BY <1>3, <1>4, <1>a DEF EntryInv
  <1>5. CASE UNCHANGED vars  BY <1>5 DEF vars, accessVars, EntryInv
  <1>6. CASE \E t \in Thread : Steps(t)  BY <1>1, <1>2, <1>6 DEF EntryInv
  <1> QED  BY <1>4, <1>5, <1>6 DEF Next, Steps

\* Between the batches of a snapshot.
LEMMA SnapshotCur ==
    ASSUME TypeOK, PcInv, NEW t \in Thread, Steps(t), pc'[t] \in SnapshotPc
    PROVE  \/ \E c \in Cmd : Start(t, c)
           \/ Reported(t)
           \/ pc[t] \in SnapshotPc /\ cur' = cur /\ addr' = addr
  <1> USE DEF PcInv, SnapshotPc, BatchPc
  <1>1. ASSUME \/ SnapshotInsert(t) \/ SnapshotBegin(t) \/ SnapshotLock(t) \/ SnapshotWalk(t)
               \/ SnapshotRetry(t) \/ SnapshotCommit(t) \/ SnapshotNext(t)
        PROVE  pc[t] \in SnapshotPc /\ cur' = cur /\ addr' = addr
    BY <1>1 DEF SnapshotInsert, SnapshotBegin, SnapshotLock, SnapshotWalk, SnapshotRetry,
            SnapshotCommit, SnapshotNext, accessVars, faultVars
  <1>2. CASE SnapshotOut(t)  BY <1>2 DEF SnapshotOut, Reported, Return, countVars
  <1>3. ASSUME \/ BounceInit(t) \/ MutexLock(t) \/ Load(t) \/ Copy(t) \/ CopyOops(t)
               \/ AccessDone(t) \/ AccessMiss(t) \/ ReadBegin(t) \/ MmapReadLock(t) \/ Walk(t)
               \/ WalkBusy(t) \/ FaultFails(t) \/ Retry(t) \/ Commit(t) \/ Setup(t)
               \/ SetupFails(t) \/ Alloc(t) \/ CopyPages(t) \/ MigratePages(t) \/ MapPages(t)
               \/ Finalize(t) \/ ExclusiveStart(t) \/ ExclusiveCall(t) \/ ExclusiveSet(t)
               \/ ExclusiveSkip(t) \/ ExclusiveShort(t) \/ AtomicMap(t)
               \/ dmirror_check_atomic(t)
        PROVE  FALSE
    BY <1>3 DEF BounceInit, MutexLock, Load, Copy, CopyOops, AccessDone, AccessMiss, ReadBegin,
           MmapReadLock, Walk, WalkBusy, FaultFails, Retry, Commit, Setup, SetupFails, Alloc,
           CopyPages, MigratePages, MapPages, Finalize, ExclusiveStart, ExclusiveCall,
           ExclusiveSet, ExclusiveSkip, ExclusiveShort, AtomicMap, dmirror_check_atomic,
           Return
  <1>4. CASE SnapshotFails(t)
    <2>1. pc[t] = "swalk"  BY <1>4 DEF SnapshotFails, Return
    <2> QED  BY <1>4, <2>1 DEF SnapshotFails, faultVars
  <1> QED
    BY StartEffect, <1>1, <1>2, <1>3, <1>4 DEF Steps, Access, Fault, Migrate, Exclusive, Snapshot

\* A command never goes back before its first page.
LEMMA CurStep == TypeOK /\ PcInv /\ BatchInv /\ CurInv /\ [Next]_vars => CurInv'
  <1> SUFFICES ASSUME TypeOK, PcInv, BatchInv, CurInv, [Next]_vars PROVE CurInv'  OBVIOUS
  <1>0. PcInv'  BY PcStep
  <1>1. ASSUME NEW t \in Thread, Steps(t), NEW u \in Thread, u # t PROVE CurOf(u)'
    <2>1. /\ pc'[u] = pc[u] /\ cmd'[u] = cmd[u] /\ cur'[u] = cur[u] /\ addr'[u] = addr[u]
      BY <1>1, Elsewhere DEF Same
    <2> QED  BY <2>1 DEF CurInv, CurOf
  <1>2. ASSUME NEW t \in Thread, Steps(t), pc'[t] # "idle" PROVE cmd'[t].lo <= cur'[t]
    <2>1. pc[t] # "idle" => cmd[t].lo \in Int /\ cur[t] \in Int /\ cmd[t].lo <= cur[t]
      BY Running, MirrorAssumption DEF CurInv, CurOf, TypeOK, Addr
    <2>2. CASE \E c \in Cmd : Start(t, c)
      <3>1. PICK c \in Cmd : Start(t, c)  BY <2>2
      <3>2. cmd'[t] = c /\ cur'[t] = c.lo  BY <3>1 DEF Start, TypeOK
      <3> QED  BY <3>2, Commands, MirrorAssumption DEF Addr
    <2>3. CASE Copy(t)  BY <2>1, <2>3 DEF Copy, Advance, TypeOK
    <2>4. CASE Reported(t)
      <3>1. /\ addr[t] <= BatchEnd(t) /\ cur[t] = addr[t] /\ BatchEnd(t) \in Int
            /\ addr[t] \in Int
        BY <2>4, Batches, MirrorAssumption
           DEF Reported, BatchPc, SnapshotPc, CurInv, CurOf, TypeOK, Addr
      <3> QED  BY <2>1, <2>4, <3>1 DEF Reported, TypeOK
    <2>5. CASE Silent
      <3>1. pc[t] # "idle"  BY <1>0, <1>2, <2>5 DEF Silent, PcInv, PcOf
      <3> QED  BY <2>1, <2>5, <3>1 DEF Silent
    <2>6. ASSUME NEW r, Return(t, r) PROVE FALSE  BY <1>2, <2>6 DEF Return, PcInv
    <2> QED  BY <1>2, <2>2, <2>3, <2>4, <2>5, <2>6, Outcome DEF Ends
  <1>3. ASSUME NEW t \in Thread, Steps(t), pc'[t] \in SnapshotPc PROVE cur'[t] = addr'[t]
    <2>1. ASSUME NEW c \in Cmd, Start(t, c) PROVE cur'[t] = addr'[t]  BY <2>1 DEF Start, TypeOK
    <2>2. CASE Reported(t)  BY <2>2 DEF Reported, TypeOK
    <2> QED  BY <1>3, <2>1, <2>2, SnapshotCur DEF CurInv, CurOf
  <1>4. ASSUME Kernel PROVE UNCHANGED <<pc, cmd, cur, addr>>  BY <1>4, KernelElsewhere
  <1>5. CASE Kernel  BY <1>4, <1>5 DEF CurInv, CurOf
  <1>6. CASE UNCHANGED vars  BY <1>6 DEF vars, accessVars, faultVars, CurInv, CurOf
  <1>7. CASE \E t \in Thread : Steps(t)  BY <1>1, <1>2, <1>3, <1>7 DEF CurInv, CurOf
  <1> QED  BY <1>5, <1>6, <1>7 DEF Next, Steps

(***************************************************************************)
(* Frames and their contents.                                              *)
(***************************************************************************)
\* Only a migration gives a page another frame.
LEMMA FramesKept ==
    ASSUME TypeOK, PcInv, BatchInv, NEW t \in Thread, Steps(t),
           ~MigratePages(t), ~Finalize(t), NEW a \in Addr
    PROVE  cpu'[a].frame = cpu[a].frame
  <1>1. CASE Quiet(t)  BY <1>1 DEF Quiet
  <1>2. CASE Commit(t)  BY <1>2, CommitEffect
  <1>3. CASE Setup(t)  BY <1>3, SetupEffect DEF Is
  <1>4. CASE Alloc(t)  BY <1>4, AllocEffect
  <1>5. CASE MapPages(t)  BY <1>5 DEF MapPages, mmVars
  <1>6. CASE ExclusiveCall(t)  BY <1>6, CallEffect
  <1>7. CASE ExclusiveSet(t)  BY <1>7, SetPlace, ExclusiveEffect DEF Is
  <1>8. CASE AtomicMap(t)  BY <1>8, AtomicEffect
  <1> QED  BY <1>1, <1>2, <1>3, <1>4, <1>5, <1>6, <1>7, <1>8, QuietSteps DEF Writes

\* Only copies change the contents of frames.
LEMMA DataKept ==
    ASSUME NEW t \in Thread, Steps(t), ~Copy(t), ~CopyPages(t)
    PROVE  data' = data
  <1>1. ASSUME NEW c \in Cmd, Start(t, c) PROVE data' = data  BY <1>1 DEF Start, mmVars
  <1>2. ASSUME \/ BounceInit(t) \/ MutexLock(t) \/ Load(t) \/ CopyOops(t)
               \/ AccessDone(t) \/ AccessMiss(t) \/ ReadBegin(t) \/ MmapReadLock(t) \/ Walk(t)
               \/ WalkBusy(t) \/ FaultFails(t) \/ Retry(t) \/ Commit(t) \/ Setup(t)
               \/ SetupFails(t) \/ Alloc(t) \/ MigratePages(t) \/ MapPages(t)
               \/ Finalize(t) \/ ExclusiveStart(t) \/ ExclusiveCall(t) \/ ExclusiveSet(t)
               \/ ExclusiveSkip(t) \/ ExclusiveShort(t) \/ AtomicMap(t)
               \/ dmirror_check_atomic(t) \/ SnapshotInsert(t) \/ SnapshotBegin(t)
               \/ SnapshotLock(t) \/ SnapshotWalk(t) \/ SnapshotRetry(t) \/ SnapshotCommit(t)
               \/ SnapshotOut(t) \/ SnapshotNext(t) \/ SnapshotFails(t)
        PROVE  data' = data
    BY <1>2 DEF BounceInit, MutexLock, Load, CopyOops, AccessDone, AccessMiss, ReadBegin,
           MmapReadLock, Walk, WalkBusy, FaultFails, Retry, Commit, Setup, SetupFails, Alloc,
           MigratePages, MapPages, Finalize, ExclusiveStart, ExclusiveCall,
           ExclusiveSet, ExclusiveSkip, ExclusiveShort, AtomicMap, dmirror_check_atomic,
           SnapshotInsert, SnapshotBegin, SnapshotLock, SnapshotWalk, SnapshotRetry,
           SnapshotCommit, SnapshotOut, SnapshotNext, SnapshotFails, mmVars
  <1> QED
    BY StartEffect, <1>1, <1>2 DEF Steps, Access, Fault, Migrate, Exclusive, Snapshot

\* A frame that is free has no place in the page table and in no migration.
LEMMA Unused ==
    ASSUME NEW f \in FreeFrames, NEW a \in Addr
    PROVE  /\ f \in Frame /\ f # NoFrame /\ cpu[a].frame # f
           /\ \A t \in Thread : src[t][a] # f /\ dst[t][a] # f
  <1>1. ASSUME NEW t \in Thread PROVE src[t][a] # f /\ dst[t][a] # f
    <2> DEFINE Pair(u, b) == {src[u][b], dst[u][b]}
               Pairs == {Pair(u, b) : u \in Thread, b \in Addr}
    <2>1. f \notin UNION Pairs  BY DEF FreeFrames
    <2>2. Pair(t, a) \in Pairs
      <3> HIDE DEF Pair
      <3> QED  OBVIOUS
    <2> HIDE DEF Pairs
    <2>3. f \notin Pair(t, a)  BY <2>1, <2>2
    <2> QED  BY <2>3
  <1>2. cpu[a].frame # f  BY DEF FreeFrames
  <1> QED  BY <1>1, <1>2, MirrorAssumption DEF FreeFrames

\* What the kernel does with frames: a page gets one that is free, or loses the one it has.
LEMMA KernelFrames ==
    ASSUME TypeOK, Kernel
    PROVE  \/ \A a \in Addr : cpu'[a].frame = cpu[a].frame
           \/ \E a \in Addr, f \in FreeFrames \cup {NoFrame} :
                cpu'[a].frame = f /\ \A b \in Addr : b # a => cpu'[b] = cpu[b]
  <1>1. ASSUME NEW a \in Addr, Populate(a)
        PROVE  \E f \in FreeFrames :
                 cpu'[a].frame = f /\ \A b \in Addr : b # a => cpu'[b] = cpu[b]
    BY <1>1 DEF Populate, TypeOK
  <1>2. ASSUME NEW i \in Invalidator, InvalidateEnd(i)
        PROVE  LET a == Page(i) IN
               \/ \A b \in Addr : cpu'[b].frame = cpu[b].frame
               \/ \E f \in FreeFrames \cup {NoFrame} :
                    cpu'[a].frame = f /\ \A b \in Addr : b # a => cpu'[b] = cpu[b]
    <2>1. /\ \A b \in Addr : b # Page(i) => cpu'[b] = cpu[b]
          /\ \/ cpu' = cpu
             \/ \E f \in FreeFrames : cpu'[Page(i)].frame = f
             \/ cpu'[Page(i)].frame = cpu[Page(i)].frame
             \/ cpu'[Page(i)] = None
      BY <1>2, EndInvalidation DEF Is
    <2> QED  BY <2>1 DEF None
  <1>3. ASSUME NEW a, NEW v, NEW i, CpuStore(a, v) \/ InvalidateStart(i)
        PROVE  cpu' = cpu
    BY <1>3 DEF CpuStore, InvalidateStart
  <1>4. ASSUME NEW i \in Invalidator, InvalidateEnd(i) PROVE Page(i) \in Addr
    BY <1>4, EndInvalidation
  <1> QED  BY <1>1, <1>2, <1>3, <1>4 DEF Kernel

\* Who works on which migration.
LEMMA MovesBy ==
    ASSUME TypeOK, PcInv, BatchInv, NEW t \in Thread, Steps(t), Moving(t)'
    PROVE  \/ Setup(t) \/ Alloc(t) \/ MigratePages(t) \/ MapPages(t)
           \/ pc[t] = "copy_to" /\ pc'[t] = "pages" /\ Quiet(t)
  <1>1. CASE Quiet(t)  BY <1>1 DEF Quiet, Moving
  <1>2. CASE Commit(t)  BY <1>2, CommitEffect DEF Moving
  <1>3. CASE Finalize(t)  BY <1>3, FinalizePlace DEF Moving
  <1>4. CASE ExclusiveCall(t) \/ ExclusiveSet(t) \/ AtomicMap(t)
    BY <1>4 DEF ExclusiveCall, ExclusiveSet, AtomicMap, Return, Moving, PcInv
  <1> QED  BY <1>1, <1>2, <1>3, <1>4, QuietSteps DEF Writes

\* A frame is in one place of the page table.
LEMMA SoleStep ==
    SharedInv /\ SoleInv /\ DestInv /\ [Next]_vars => SoleInv'
  <1> SUFFICES ASSUME SharedInv, SoleInv, DestInv, [Next]_vars PROVE SoleInv'  OBVIOUS
  <1>0. TypeOK /\ PcInv /\ BatchInv /\ CpuInv /\ FramesInv  BY DEF SharedInv, MirrorInv
  <1>1. ASSUME \A a \in Addr : cpu'[a].frame = cpu[a].frame PROVE SoleInv'
    BY <1>1 DEF SoleInv
  <1>2. ASSUME NEW t \in Thread, MigratePages(t) PROVE SoleInv'
    <2>1. \A a \in Addr : \/ cpu'[a].frame = cpu[a].frame
                          \/ dst[t][a] # NoFrame /\ cpu'[a].frame = dst[t][a]
      BY <1>0, <1>2, PagesEffect DEF Is
    <2>2. pc[t] = "pages" /\ DestOf(t)  BY <1>2 DEF MigratePages, DestInv
    <2>3. \A a, b \in Addr : dst[t][a] # NoFrame =>
             cpu[b].frame # dst[t][a] /\ (dst[t][b] = dst[t][a] => a = b)
      BY <2>2 DEF DestOf, Moving
    <2> QED  BY <2>1, <2>3 DEF SoleInv
  <1>3. ASSUME NEW t \in Thread, Finalize(t) PROVE SoleInv'
    <2>1. pc[t] = "finalize" /\ DestOf(t)  BY <1>3 DEF Finalize, DestInv
    <2>2. \A a \in Addr :
             \/ cpu'[a].frame = cpu[a].frame
             \/ /\ cpu[a].kind \in {"migsys", "migdev"} /\ src[t][a] = cpu[a].frame
                /\ a \in sel[t] /\ cpu'[a].frame = dst[t][a]
      BY <1>0, <1>3, FinalizeEffect DEF Is
    <2>3. \A a \in Addr :
             \/ cpu'[a].frame = cpu[a].frame
             \/ src[t][a] # NoFrame /\ dst[t][a] # NoFrame /\ cpu'[a].frame = dst[t][a]
      BY <1>0, <2>1, <2>2 DEF CpuInv, Proper, FramesInv, FramesOf
    <2>4. \A a, b \in Addr : dst[t][a] # NoFrame =>
             /\ src[t][a] # NoFrame => cpu[b].frame # dst[t][a]
             /\ dst[t][b] = dst[t][a] => a = b
      BY <2>1 DEF DestOf, Moving
    <2> QED  BY <2>3, <2>4 DEF SoleInv
  <1>4. ASSUME NEW t \in Thread, Steps(t) PROVE SoleInv'
    BY <1>0, <1>1, <1>2, <1>3, <1>4, FramesKept
  <1>5. CASE Kernel
    <2>1. ASSUME NEW a \in Addr, NEW f \in FreeFrames \cup {NoFrame}, cpu'[a].frame = f,
                 \A b \in Addr : b # a => cpu'[b] = cpu[b]
          PROVE  SoleInv'
      <3>1. f = NoFrame \/ \A b \in Addr : cpu[b].frame # f  BY Unused
      <3> QED  BY <2>1, <3>1 DEF SoleInv
    <2> QED  BY <1>0, <1>1, <1>5, <2>1, KernelFrames
  <1>6. CASE UNCHANGED vars  BY <1>6, <1>1 DEF vars, mmVars
  <1> QED  BY <1>4, <1>5, <1>6 DEF Next, Steps

\* The destinations of a migration are used by nobody else.
LEMMA DestStep ==
    Regime /\ SharedInv /\ DestInv /\ [Next]_vars => DestInv'
  <1> SUFFICES ASSUME Regime, SharedInv, DestInv, [Next]_vars PROVE DestInv'  OBVIOUS
  <1>0. TypeOK /\ PcInv /\ BatchInv /\ DstInv /\ MoveInv  BY DEF SharedInv, MirrorInv
  <1>1. ASSUME NEW u \in Thread, src'[u] = src[u], dst'[u] = dst[u], sel'[u] = sel[u],
               Moving(u)' => Moving(u), pc[u] \in {"map", "finalize"} /\ Moving(u)' =>
                   pc'[u] \in {"map", "finalize"},
               \A b \in Addr : cpu'[b].frame = cpu[b].frame
                               \/ cpu'[b].frame \in FreeFrames \cup {NoFrame}
        PROVE  DestOf(u)'
    <2>1. ASSUME NEW a \in Addr, NEW b \in Addr, dst[u][a] # NoFrame, cpu'[b].frame = dst[u][a]
          PROVE  cpu[b].frame = dst[u][a]
      BY <1>1, <2>1, Unused
    <2> QED  BY <1>1, <2>1 DEF DestInv, DestOf
  <1>2. ASSUME NEW t \in Thread, Steps(t), NEW u \in Thread, u # t PROVE DestOf(u)'
    <2>1. /\ pc'[u] = pc[u] /\ src'[u] = src[u] /\ dst'[u] = dst[u] /\ sel'[u] = sel[u]
      BY <1>0, <1>2, Others
    <2>2. CASE ~Moving(u)  BY <2>1, <2>2 DEF DestOf, Moving
    <2>3. CASE Moving(u)
      <3>1. cpu' = cpu  BY <1>0, <1>2, <2>3, Steady DEF Moving, MigratePc, Quiet
      <3> QED  BY <1>1, <2>1, <3>1 DEF Moving
    <2> QED  BY <2>2, <2>3
  <1>3. ASSUME NEW t \in Thread, Setup(t) PROVE DestOf(t)'
    <2>1. \A a \in Addr : dst'[t][a] = NoFrame
      BY <1>0, <1>3, SetupPlace DEF DstInv, DstOf
    <2> QED  BY <2>1 DEF DestOf
  <1>4. ASSUME NEW t \in Thread, Alloc(t) PROVE DestOf(t)'
    <2>1. cpu' = cpu  BY <1>0, <1>4, AllocEffect
    <2>a. PICK D \in SUBSET sel[t] : \E new \in [D -> FreeFrames] :
             /\ \A a, b \in D : new[a] = new[b] => a = b
             /\ dst' = [dst EXCEPT ![t] = [a \in Addr |-> IF a \in D THEN new[a] ELSE NoFrame]]
      BY <1>4 DEF Alloc
    <2>2. PICK new \in [D -> FreeFrames] :
             /\ \A a, b \in D : new[a] = new[b] => a = b
             /\ dst' = [dst EXCEPT ![t] = [a \in Addr |-> IF a \in D THEN new[a] ELSE NoFrame]]
      BY <2>a
    <2>3. \A a \in Addr : dst'[t][a] = IF a \in D THEN new[a] ELSE NoFrame
      BY <1>0, <2>2 DEF TypeOK
    <2>4. ASSUME NEW a \in Addr, NEW b \in Addr, dst'[t][a] # NoFrame
          PROVE  cpu[b].frame # dst'[t][a] /\ (dst'[t][b] = dst'[t][a] => a = b)
      <3>1. a \in D /\ dst'[t][a] = new[a] /\ new[a] \in FreeFrames  BY <2>2, <2>3, <2>4
      <3>2. cpu[b].frame # dst'[t][a]  BY <3>1, Unused
      <3> QED  BY <2>2, <2>3, <2>4, <3>1, <3>2
    <2> QED  BY <2>1, <2>4 DEF DestOf
  <1>5. ASSUME NEW t \in Thread, Steps(t), MigratePages(t) PROVE DestOf(t)'
    <2>1. PICK S \in SUBSET {a \in sel[t] : dst[t][a] # NoFrame} :
             /\ sel'[t] = S /\ UNCHANGED <<src, dst>>
             /\ \A a \in Addr : IF a \in S /\ src[t][a] = NoFrame
                                  THEN Is(cpu'[a], "dev", dst[t][a], TRUE) ELSE cpu'[a] = cpu[a]
      BY <1>0, <1>5, PagesEffect
    <2>2. pc[t] = "pages" /\ pc'[t] = IF Outbound(t) THEN "map" ELSE "finalize"
      BY <1>0, <1>5, PagesPlace
    <2>3. \A a, b \in Addr : dst[t][a] # NoFrame =>
             cpu[b].frame # dst[t][a] /\ (dst[t][b] = dst[t][a] => a = b)
      BY <2>2 DEF DestInv, DestOf, Moving
    <2>4. ASSUME NEW a \in Addr, NEW b \in Addr, dst[t][a] # NoFrame, cpu'[b].frame = dst[t][a]
          PROVE  a = b /\ src[t][a] = NoFrame /\ a \in S
      <3>1. b \in S /\ src[t][b] = NoFrame /\ cpu'[b].frame = dst[t][b]
        BY <2>1, <2>3, <2>4 DEF Is
      <3> QED  BY <2>3, <2>4, <3>1
    <2>5. pc'[t] \in {"map", "finalize"}  BY <2>2
    <2> QED  BY <2>1, <2>3, <2>4, <2>5 DEF DestOf
  <1>6. ASSUME NEW t \in Thread, MapPages(t) PROVE DestOf(t)'
    <2>1. UNCHANGED <<cpu, src, dst, sel>> /\ pc[t] = "map" /\ pc'[t] = "finalize"
      BY <1>0, <1>6 DEF MapPages, mmVars, migVars, PcInv
    <2> QED  BY <1>1, <2>1 DEF Moving
  <1>7. ASSUME NEW t \in Thread, pc[t] = "copy_to", pc'[t] = "pages", Quiet(t) PROVE DestOf(t)'
    <2>1. cpu' = cpu /\ src'[t] = src[t] /\ dst'[t] = dst[t] /\ sel'[t] = sel[t]
      BY <1>7 DEF Quiet
    <2> QED  BY <1>1, <1>7, <2>1 DEF Moving
  <1>8. ASSUME NEW t \in Thread, Steps(t) PROVE DestOf(t)'
    <2>1. CASE Moving(t)'
      BY <1>0, <1>3, <1>4, <1>5, <1>6, <1>7, <1>8, <2>1, MovesBy
    <2>2. CASE ~Moving(t)'  BY <2>2 DEF DestOf
    <2> QED  BY <2>1, <2>2
  <1>9. ASSUME Kernel, NEW u \in Thread PROVE DestOf(u)'
    <2>1. UNCHANGED <<pc, src, dst, sel>>  BY <1>9, KernelElsewhere
    <2>2. \A b \in Addr : \/ cpu'[b].frame = cpu[b].frame
                          \/ cpu'[b].frame \in FreeFrames \cup {NoFrame}
      BY <1>0, <1>9, KernelFrames
    <2> QED  BY <1>1, <2>1, <2>2 DEF Moving
  <1>10. ASSUME UNCHANGED vars, NEW u \in Thread PROVE DestOf(u)'
    <2>1. UNCHANGED <<cpu, pc, src, dst, sel>>  BY <1>10 DEF vars, mmVars, migVars
    <2> QED  BY <1>1, <2>1 DEF Moving
  <1>11. ASSUME NEW u \in Thread PROVE DestOf(u)'
    BY <1>2, <1>8, <1>9, <1>10 DEF Next, Steps
  <1> QED  BY <1>11 DEF DestInv

\* What the kernel does with contents: it fills frames that are free, and the CPU stores.
LEMMA KernelData ==
    ASSUME TypeOK, Kernel
    PROVE  \/ data' = data
           \/ \E f \in FreeFrames : \E v : data' = [data EXCEPT ![f] = v]
           \/ \E a \in Addr, v \in Value : CpuStore(a, v)
  <1>1. ASSUME NEW a \in Addr, Populate(a)
        PROVE  \E f \in FreeFrames : \E v : data' = [data EXCEPT ![f] = v]
    BY <1>1, MirrorAssumption DEF Populate
  <1>2. ASSUME NEW i \in Invalidator, InvalidateEnd(i), data' # data
        PROVE  \E f \in FreeFrames : data' = [data EXCEPT ![f] = data[cpu[Page(i)].frame]]
    BY <1>2, EndInvalidation
  <1>3. ASSUME NEW i, InvalidateStart(i) PROVE data' = data
    BY <1>3 DEF InvalidateStart
  <1> QED  BY <1>1, <1>2, <1>3 DEF Kernel

\* The CPU stores into no page that is being migrated.
LEMMA StoreSpares ==
    ASSUME SharedInv, SoleInv, DestInv, NEW a \in Addr, NEW v, CpuStore(a, v),
           NEW t \in Thread, pc[t] \in {"pages", "map", "finalize"}, NEW b \in sel[t],
           dst[t][b] # NoFrame
    PROVE  /\ cpu[a].frame # dst[t][b]
           /\ src[t][b] # NoFrame => cpu[a].frame # src[t][b]
  <1>0. TypeOK /\ MoveInv /\ b \in Addr  BY DEF SharedInv, MirrorInv, TypeOK
  <1>1. cpu[a].kind = "sys"  BY DEF CpuStore
  <1>2. MoveOf(t) /\ DestOf(t) /\ Moving(t)  BY <1>0 DEF MoveInv, DestInv, Moving
  <1>3. ASSUME cpu[a].frame = dst[t][b] PROVE FALSE
    <2>1. a = b /\ src[t][b] = NoFrame /\ pc[t] \in {"map", "finalize"}
      BY <1>0, <1>2, <1>3 DEF DestOf
    <2>2. Is(cpu[b], "dev", dst[t][b], TRUE)  BY <1>0, <1>2, <2>1 DEF MoveOf
    <2> QED  BY <1>1, <2>1, <2>2 DEF Is
  <1>4. ASSUME src[t][b] # NoFrame, cpu[a].frame = src[t][b] PROVE FALSE
    <2>1. cpu[b].frame = src[t][b] /\ cpu[b].kind \in {"migsys", "migdev"}
      BY <1>0, <1>2, <1>4 DEF MoveOf
    <2>2. a = b  BY <1>0, <1>4, <2>1 DEF SoleInv
    <2> QED  BY <1>1, <2>1, <2>2
  <1> QED  BY <1>3, <1>4

\* The two frames of a page that is being migrated keep the same contents.
LEMMA CopyStep ==
    Regime /\ SharedInv /\ SoleInv /\ DestInv /\ CopyInv /\ [Next]_vars => CopyInv'
  <1> SUFFICES ASSUME Regime, SharedInv, SoleInv, DestInv, CopyInv, [Next]_vars PROVE CopyInv'
    OBVIOUS
  <1>0. TypeOK /\ PcInv /\ BatchInv /\ MoveInv  BY DEF SharedInv, MirrorInv
  <1> DEFINE Late(x) == x \in {"pages", "map", "finalize"}
  <1>1. ASSUME NEW u \in Thread, src'[u] = src[u], dst'[u] = dst[u], sel'[u] \subseteq sel[u],
               Late(pc'[u]) => Late(pc[u]),
               Late(pc[u]) => \A a \in sel[u] : dst[u][a] # NoFrame =>
                   /\ data'[dst[u][a]] = data[dst[u][a]]
                   /\ src[u][a] # NoFrame => data'[src[u][a]] = data[src[u][a]]
        PROVE  CopyOf(u)'
    <2>1. ASSUME NEW a, src[u][a] # NoFrame => data'[src[u][a]] = data[src[u][a]]
          PROVE  Contents(u, a)' = Contents(u, a)
      BY <1>1, <2>1 DEF Contents
    <2>2. ASSUME Late(pc'[u]), NEW a \in sel'[u], dst'[u][a] # NoFrame
          PROVE  data'[dst'[u][a]] = Contents(u, a)'
      BY <1>1, <2>1, <2>2 DEF CopyInv, CopyOf
    <2> QED  BY <2>2 DEF CopyOf
  <1>2. ASSUME NEW t \in Thread, Steps(t), NEW u \in Thread, u # t PROVE CopyOf(u)'
    <2>1. /\ pc'[u] = pc[u] /\ src'[u] = src[u] /\ dst'[u] = dst[u] /\ sel'[u] = sel[u]
      BY <1>0, <1>2, Others
    <2>2. Late(pc[u]) => data' = data
      <3>1. Late(pc[u]) => pc[t] \in {"idle", "check"} \cup SnapshotPc
        BY <1>0, <1>2, Alone DEF MigratePc
      <3>2. Copy(t) \/ CopyPages(t) => pc[t] \in {"copy", "copy_to"}  BY DEF Copy, CopyPages
      <3> QED  BY <1>2, <3>1, <3>2, DataKept DEF SnapshotPc, BatchPc
    <2> QED  BY <1>1, <2>1, <2>2
  <1>3. ASSUME NEW t \in Thread, CopyPages(t) PROVE CopyOf(t)'
    <2>1. UNCHANGED <<src, dst, sel>> /\ pc[t] = "copy_to"  BY <1>3 DEF CopyPages, migVars
    <2>2. ASSUME NEW a \in sel[t], dst[t][a] # NoFrame
          PROVE  data'[dst[t][a]] = Contents(t, a)
      <3>1. dst[t][a] \in Frame /\ a \in Addr  BY <1>0, <2>2 DEF TypeOK
      <3>2. data'[dst[t][a]] = Contents(t, CHOOSE b \in sel[t] : dst[t][b] = dst[t][a])
        BY <1>3, <2>2, <3>1 DEF CopyPages
      <3>3. \A b \in sel[t] : dst[t][b] = dst[t][a] => b = a
        BY <1>0, <2>1, <2>2, <3>1 DEF DestInv, DestOf, Moving, TypeOK
      <3>4. (CHOOSE b \in sel[t] : dst[t][b] = dst[t][a]) = a  BY <2>2, <3>3
      <3> QED  BY <3>2, <3>4
    <2>3. ASSUME NEW a \in sel[t], src[t][a] # NoFrame PROVE data'[src[t][a]] = data[src[t][a]]
      <3>1. a \in Addr /\ src[t][a] \in Frame  BY <1>0, <2>3 DEF TypeOK
      <3>2. cpu[a].frame = src[t][a]
        BY <1>0, <2>1, <2>3, <3>1 DEF MoveInv, MoveOf, Moving
      <3>3. ASSUME NEW b \in sel[t] PROVE dst[t][b] # src[t][a]
        <4>1. b \in Addr  BY <1>0 DEF TypeOK
        <4> QED  BY <2>1, <2>3, <3>1, <3>2, <4>1 DEF DestInv, DestOf, Moving
      <3> QED  BY <1>3, <3>1, <3>3 DEF CopyPages
    <2>4. ASSUME NEW a \in sel[t] PROVE Contents(t, a)' = Contents(t, a)
      BY <2>1, <2>3 DEF Contents
    <2> QED  BY <2>1, <2>2, <2>4 DEF CopyOf
  <1>4. ASSUME NEW t \in Thread, MigratePages(t) PROVE CopyOf(t)'
    <2>1. PICK S \in SUBSET {a \in sel[t] : dst[t][a] # NoFrame} :
             sel'[t] = S /\ UNCHANGED <<src, dst>>
      BY <1>0, <1>4, PagesEffect
    <2>2. data' = data /\ pc[t] = "pages"  BY <1>4 DEF MigratePages
    <2> QED  BY <1>1, <2>1, <2>2
  <1>5. ASSUME NEW t \in Thread, MapPages(t) PROVE CopyOf(t)'
    <2>1. UNCHANGED <<data, src, dst, sel>> /\ pc[t] = "map"
      BY <1>5 DEF MapPages, mmVars, migVars
    <2> QED  BY <1>1, <2>1
  <1>6. ASSUME NEW t \in Thread, Steps(t) PROVE CopyOf(t)'
    <2>1. CASE ~Late(pc'[t])  BY <2>1 DEF CopyOf
    <2>2. CASE pc'[t] = "pages"  BY <1>0, <1>3, <1>6, <2>2, Copies
    <2>3. CASE pc'[t] \in {"map", "finalize"}
      <3>1. ~Setup(t) /\ ~Alloc(t)
        BY <1>0, <2>3, SetupPlace, AllocEffect
      <3>2. MigratePages(t) \/ MapPages(t)
        BY <1>0, <1>6, <2>3, <3>1, MovesBy DEF Moving
      <3> QED  BY <1>4, <1>5, <3>2
    <2> QED  BY <2>1, <2>2, <2>3
  <1>7. ASSUME Kernel, NEW u \in Thread PROVE CopyOf(u)'
    <2>1. UNCHANGED <<pc, src, dst, sel>>  BY <1>7, KernelElsewhere
    <2>2. ASSUME NEW a \in sel[u] PROVE a \in Addr  BY <1>0 DEF TypeOK
    <2>3. CASE data' = data  BY <1>1, <2>1, <2>3
    <2>4. ASSUME NEW f \in FreeFrames, NEW v, data' = [data EXCEPT ![f] = v] PROVE CopyOf(u)'
      <3>1. \A a \in Addr : src[u][a] # f /\ dst[u][a] # f  BY Unused
      <3>2. data \in [Frame -> Value] /\ src[u] \in [Addr -> Frame \cup {NoFrame}]
            /\ dst[u] \in [Addr -> Frame \cup {NoFrame}]
        BY <1>0 DEF TypeOK
      <3>3. \A g \in Frame : g # f => data'[g] = data[g]  BY <2>4, <3>2
      <3>4. ASSUME NEW a \in sel[u], dst[u][a] # NoFrame
            PROVE  /\ data'[dst[u][a]] = data[dst[u][a]]
                   /\ src[u][a] # NoFrame => data'[src[u][a]] = data[src[u][a]]
        BY <2>2, <3>1, <3>2, <3>3, <3>4
      <3> QED  BY <1>1, <2>1, <3>4
    <2>5. ASSUME NEW b \in Addr, NEW v, CpuStore(b, v) PROVE CopyOf(u)'
      <3>1. data' = [data EXCEPT ![cpu[b].frame] = v]  BY <2>5 DEF CpuStore
      <3>2. data \in [Frame -> Value] /\ src[u] \in [Addr -> Frame \cup {NoFrame}]
            /\ dst[u] \in [Addr -> Frame \cup {NoFrame}]
        BY <1>0 DEF TypeOK
      <3>3. \A g \in Frame : g # cpu[b].frame => data'[g] = data[g]  BY <3>1, <3>2
      <3>4. ASSUME Late(pc[u]), NEW a \in sel[u], dst[u][a] # NoFrame
            PROVE  /\ data'[dst[u][a]] = data[dst[u][a]]
                   /\ src[u][a] # NoFrame => data'[src[u][a]] = data[src[u][a]]
        BY <2>2, <2>5, <3>2, <3>3, <3>4, StoreSpares
      <3> QED  BY <1>1, <2>1, <3>4
    <2> QED  BY <1>0, <1>7, <2>3, <2>4, <2>5, KernelData
  <1>8. ASSUME UNCHANGED vars, NEW u \in Thread PROVE CopyOf(u)'
    <2>1. UNCHANGED <<data, pc, src, dst, sel>>  BY <1>8 DEF vars, mmVars, migVars
    <2> QED  BY <1>1, <2>1
  <1>9. ASSUME NEW u \in Thread PROVE CopyOf(u)'
    BY <1>2, <1>6, <1>7, <1>8 DEF Next, Steps
  <1> QED  BY <1>9 DEF CopyInv

(***************************************************************************)
(* The memory that CPU and device see.                                     *)
(***************************************************************************)
Val(a) == IF cpu[a].frame = NoFrame THEN Zero ELSE data[cpu[a].frame]

\* The memory is kept when every page keeps its value.
LEMMA MemoryKept ==
    ASSUME \A a \in Addr : Val(a)' = Val(a)
    PROVE  Memory' = Memory
  BY DEF Memory, Val

\* No thread changes the memory but by a device write.
LEMMA ThreadMemory ==
    ASSUME Regime, MemoryInv, NEW t \in Thread, Steps(t), ~Copy(t)
    PROVE  Memory' = Memory
  <1>0. /\ TypeOK /\ PcInv /\ BatchInv /\ CpuInv /\ FramesInv /\ MoveInv
        /\ SoleInv /\ DestInv /\ CopyInv
    BY DEF MemoryInv, SharedInv, MirrorInv
  <1>1. ASSUME CopyPages(t), NEW a \in Addr PROVE Val(a)' = Val(a)
    <2>1. cpu' = cpu /\ pc[t] = "copy_to"  BY <1>1 DEF CopyPages
    <2>a. DestOf(t) /\ Moving(t)  BY <1>0, <2>1 DEF DestInv, Moving
    <2>2. ASSUME NEW b \in sel[t], dst[t][b] = cpu[a].frame PROVE cpu[a].frame = NoFrame
      <3>1. b \in Addr  BY <1>0 DEF TypeOK
      <3> QED  BY <2>1, <2>2, <2>a, <3>1 DEF DestOf
    <2>3. cpu[a].frame \in Frame \cup {NoFrame}  BY <1>0 DEF TypeOK, Pte
    <2>4. CASE cpu[a].frame = NoFrame  BY <2>1, <2>4 DEF Val
    <2>5. CASE cpu[a].frame \in Frame
      <3>1. data'[cpu[a].frame] = data[cpu[a].frame]
        BY <1>1, <2>2, <2>5, MirrorAssumption DEF CopyPages
      <3> QED  BY <2>1, <3>1 DEF Val
    <2> QED  BY <2>3, <2>4, <2>5
  <1>2. ASSUME MigratePages(t), NEW a \in Addr PROVE Val(a)' = Val(a)
    <2>1. PICK S \in SUBSET {b \in sel[t] : dst[t][b] # NoFrame} :
             /\ \A b \in S : src[t][b] = NoFrame => cpu[b] = None
             /\ \A b \in Addr : IF b \in S /\ src[t][b] = NoFrame
                                  THEN Is(cpu'[b], "dev", dst[t][b], TRUE) ELSE cpu'[b] = cpu[b]
      BY <1>0, <1>2, PagesEffect
    <2>2. data' = data /\ pc[t] = "pages"  BY <1>2 DEF MigratePages
    <2>3. CASE a \in S /\ src[t][a] = NoFrame
      <3>1. cpu[a].frame = NoFrame  BY <2>1, <2>3 DEF None
      <3>2. cpu'[a].frame = dst[t][a] /\ dst[t][a] # NoFrame  BY <2>1, <2>3 DEF Is
      <3>3. data[dst[t][a]] = Zero
        BY <1>0, <2>1, <2>2, <2>3, <3>2 DEF CopyInv, CopyOf, Contents
      <3> QED  BY <2>2, <3>1, <3>2, <3>3 DEF Val
    <2>4. CASE ~(a \in S /\ src[t][a] = NoFrame)  BY <2>1, <2>2, <2>4 DEF Val
    <2> QED  BY <2>3, <2>4
  <1>3. ASSUME Finalize(t), NEW a \in Addr PROVE Val(a)' = Val(a)
    <2>1. data' = data /\ pc[t] = "finalize"  BY <1>3 DEF Finalize
    <2>2. \/ cpu'[a].frame = cpu[a].frame
          \/ /\ src[t][a] = cpu[a].frame /\ cpu[a].kind \in {"migsys", "migdev"}
             /\ a \in sel[t] /\ cpu'[a].frame = dst[t][a]
      BY <1>0, <1>3, FinalizeEffect DEF Is
    <2>3. CASE cpu'[a].frame = cpu[a].frame  BY <2>1, <2>3 DEF Val
    <2>4. CASE /\ src[t][a] = cpu[a].frame /\ cpu[a].kind \in {"migsys", "migdev"}
               /\ a \in sel[t] /\ cpu'[a].frame = dst[t][a]
      <3>1. src[t][a] # NoFrame /\ dst[t][a] # NoFrame
        BY <1>0, <2>1, <2>4 DEF CpuInv, Proper, FramesInv, FramesOf
      <3>2. data[dst[t][a]] = data[src[t][a]]
        BY <1>0, <2>1, <2>4, <3>1 DEF CopyInv, CopyOf, Contents
      <3> QED  BY <2>1, <2>4, <3>1, <3>2 DEF Val
    <2> QED  BY <2>2, <2>3, <2>4
  <1>4. ASSUME ~CopyPages(t), ~MigratePages(t), ~Finalize(t), NEW a \in Addr
        PROVE  Val(a)' = Val(a)
    <2>1. data' = data  BY <1>4, DataKept
    <2>2. cpu'[a].frame = cpu[a].frame  BY <1>0, <1>4, FramesKept
    <2> QED  BY <2>1, <2>2 DEF Val
  <1> QED  BY <1>1, <1>2, <1>3, <1>4, MemoryKept

\* What a free frame gets is not seen.
LEMMA FreeUnseen ==
    ASSUME TypeOK, NEW f \in FreeFrames, NEW v, data' = [data EXCEPT ![f] = v], NEW a \in Addr
    PROVE  cpu[a].frame # NoFrame => data'[cpu[a].frame] = data[cpu[a].frame]
  <1>1. cpu[a].frame # f  BY Unused
  <1> QED  BY <1>1 DEF TypeOK, Pte

\* Moving pages and changing their protection leaves the memory as it is; the CPU stores and
\* discards.
LEMMA KernelMemory ==
    ASSUME MemoryInv, Kernel
    PROVE  \/ Memory' = Memory /\ stores' = stores
           \/ \E a \in Addr, v \in Value :
                Memory' = [Memory EXCEPT ![a] = v] /\ stores' = stores + 1
  <1>0. TypeOK /\ CpuInv /\ KindInv /\ SoleInv  BY DEF MemoryInv, SharedInv, MirrorInv
  <1>1. ASSUME NEW a \in Addr, Populate(a) PROVE Memory' = Memory /\ stores' = stores
    <2>1. PICK f \in FreeFrames :
             /\ cpu' = [cpu EXCEPT ![a] = [kind |-> "sys", frame |-> f, write |-> TRUE]]
             /\ data' = [data EXCEPT ![f] = Zero]
      BY <1>1 DEF Populate
    <2>2. cpu[a].frame = NoFrame  BY <1>1 DEF Populate, None
    <2>3. cpu'[a].frame = f /\ f # NoFrame /\ data'[f] = Zero
      BY <1>0, <2>1, Unused DEF TypeOK
    <2>4. Val(a)' = Val(a)  BY <2>2, <2>3 DEF Val
    <2>5. ASSUME NEW b \in Addr, b # a PROVE Val(b)' = Val(b)
      <3>1. cpu'[b] = cpu[b]  BY <1>0, <2>1, <2>5 DEF TypeOK
      <3> QED  BY <1>0, <2>1, <3>1, FreeUnseen DEF Val
    <2> QED  BY <1>1, <2>4, <2>5, MemoryKept DEF Populate, countVars
  <1>2. ASSUME NEW a \in Addr, NEW v \in Value, CpuStore(a, v)
        PROVE  Memory' = [Memory EXCEPT ![a] = v] /\ stores' = stores + 1
    <2>1. /\ cpu' = cpu /\ stores' = stores + 1 /\ cpu[a].kind = "sys"
          /\ data' = [data EXCEPT ![cpu[a].frame] = v]
      BY <1>2 DEF CpuStore
    <2>2. cpu[a].frame # NoFrame  BY <1>0, <2>1 DEF CpuInv, Proper
    <2>3. cpu[a].frame \in Frame /\ data'[cpu[a].frame] = v
      BY <1>0, <2>1, <2>2 DEF TypeOK, Pte
    <2>4. Val(a)' = v  BY <2>1, <2>2, <2>3 DEF Val
    <2>5. ASSUME NEW b \in Addr, b # a PROVE Val(b)' = Val(b)
      <3>1. CASE cpu[b].frame = NoFrame  BY <2>1, <3>1 DEF Val
      <3>2. CASE cpu[b].frame # NoFrame
        <4>1. cpu[b].frame # cpu[a].frame /\ cpu[b].frame \in Frame
          BY <1>0, <2>5, <3>2 DEF SoleInv, TypeOK, Pte
        <4>2. data'[cpu[b].frame] = data[cpu[b].frame]  BY <1>0, <2>1, <4>1 DEF TypeOK
        <4> QED  BY <2>1, <4>2 DEF Val
      <3> QED  BY <3>1, <3>2
    <2>6. Memory' = [Memory EXCEPT ![a] = v]
      <3>1. Memory = [b \in Addr |-> Val(b)]  BY DEF Memory, Val
      <3>2. Memory' = [b \in Addr |-> Val(b)']  BY DEF Memory, Val
      <3> HIDE DEF Val
      <3> QED  BY <2>4, <2>5, <3>1, <3>2
    <2> QED  BY <2>1, <2>6
  <1>3. ASSUME NEW i \in Invalidator, InvalidateStart(i)
        PROVE  Memory' = Memory /\ stores' = stores
    BY <1>3 DEF InvalidateStart, Memory
  <1>4. ASSUME NEW i \in Invalidator, InvalidateEnd(i)
        PROVE  \/ Memory' = Memory /\ stores' = stores
               \/ Memory' = [Memory EXCEPT ![Page(i)] = Zero] /\ stores' = stores + 1
    <2>p. PICK p : p = Page(i)  OBVIOUS
    <2>0. p \in Addr /\ cpu[p] \in Pte /\ \A b \in Addr : b # p => cpu'[b] = cpu[b]
      BY <1>0, <1>4, <2>p, EndInvalidation
    <2>1. CASE UNCHANGED <<cpu, data, stores>>  BY <2>1 DEF Memory
    <2>2. CASE /\ UNCHANGED <<data, stores>> /\ cpu'[p].frame = cpu[p].frame
      <3>1. \A b \in Addr : Val(b)' = Val(b)  BY <2>0, <2>2 DEF Val
      <3> QED  BY <2>2, <3>1, MemoryKept
    <2>3. ASSUME UNCHANGED stores, cpu[p].kind = "sys", NEW f \in FreeFrames,
                 data' = [data EXCEPT ![f] = data[cpu[p].frame]], cpu'[p].frame = f
          PROVE  Memory' = Memory /\ stores' = stores
      <3>1. cpu[p].frame # NoFrame  BY <1>0, <2>0, <2>3 DEF CpuInv, Proper
      <3>2. f # NoFrame /\ data'[f] = data[cpu[p].frame]
        BY <1>0, <2>0, <2>3, Unused DEF TypeOK
      <3>3. Val(p)' = Val(p)  BY <2>3, <3>1, <3>2 DEF Val
      <3>4. ASSUME NEW b \in Addr, b # p PROVE Val(b)' = Val(b)
        <4>1. cpu'[b] = cpu[b]  BY <2>0, <3>4
        <4> QED  BY <1>0, <2>3, <3>4, <4>1, FreeUnseen DEF Val
      <3> QED  BY <2>3, <3>3, <3>4, MemoryKept
    <2>4. ASSUME UNCHANGED data, stores' = stores + 1, cpu'[p] = None
          PROVE  Memory' = [Memory EXCEPT ![p] = Zero] /\ stores' = stores + 1
      <3>1. Memory = [b \in Addr |-> Val(b)]  BY DEF Memory, Val
      <3>2. Memory' = [b \in Addr |-> Val(b)']  BY DEF Memory, Val
      <3>3. Val(p)' = Zero  BY <2>4 DEF Val, None
      <3>4. \A b \in Addr : b # p => Val(b)' = Val(b)  BY <2>0, <2>4 DEF Val
      <3> HIDE DEF Val
      <3> QED  BY <2>0, <2>4, <3>1, <3>2, <3>3, <3>4
    <2>5. inval[i].ev \in {"move", "cow"} /\ inval[i] # NoCmd => inval[i].pte.kind = "sys"
      BY <1>0 DEF KindInv
    <2> QED  BY ZenonT(40), <1>0, <1>4, <2>p, <2>1, <2>2, <2>3, <2>4, <2>5, EndInvalidation DEF Is
  <1>5. ASSUME NEW i \in Invalidator, InvalidateEnd(i) PROVE Page(i) \in Addr
    BY <1>0, <1>5, EndInvalidation
  <1> QED  BY <1>1, <1>2, <1>3, <1>4, <1>5, MirrorAssumption DEF Kernel

\* The invariant of the whole.
LEMMA MemoryInit == Init => MemoryInv
  <1> SUFFICES ASSUME Init PROVE MemoryInv  OBVIOUS
  <1>1. SharedInv  BY SharedInit
  <1>2. MutexInv /\ EntryInv  BY MirrorAssumption DEF Init, MutexInv, Holding, EntryInv
  <1>3. SoleInv /\ DestInv  BY DEF Init, SoleInv, None, DestInv, DestOf, Moving
  <1>4. CopyInv /\ CurInv  BY DEF Init, CopyInv, CopyOf, CurInv, CurOf, SnapshotPc, BatchPc
  <1> QED  BY <1>1, <1>2, <1>3, <1>4 DEF MemoryInv

\* Every step preserves it.
LEMMA MemoryStep == Regime /\ MemoryInv /\ [Next]_vars => MemoryInv'
  <1> SUFFICES ASSUME Regime, MemoryInv, [Next]_vars PROVE MemoryInv'  OBVIOUS
  <1>1. /\ SharedInv /\ MutexInv /\ EntryInv /\ SoleInv /\ DestInv /\ CopyInv /\ CurInv
        /\ TypeOK /\ PcInv /\ BatchInv
    BY DEF MemoryInv, SharedInv, MirrorInv
  <1>2. SharedInv'  BY <1>1, SharedStep
  <1>3. MutexInv' /\ EntryInv' /\ CurInv'  BY <1>1, MutexStep, EntryStep, CurStep
  <1>4. SoleInv' /\ DestInv' /\ CopyInv'  BY <1>1, SoleStep, DestStep, CopyStep
  <1> QED  BY <1>2, <1>3, <1>4 DEF MemoryInv

-----------------------------------------------------------------------------
(***************************************************************************)
(* Each step is one of the shared memory, or is not seen there.            *)
(***************************************************************************)

\* The initial states of the mirror are those of the shared memory.
LEMMA SharedInitial == Init => Shared!Init
  BY DEF Init, Shared!Init, Memory, None

\* A copied page is read or written as the process has it at that moment.
LEMMA CopyShared ==
    ASSUME Regime, MemoryInv, NEW t \in Thread, Copy(t)
    PROVE  Shared!ReadPage(t) \/ Shared!WritePage(t)
  <1>0. /\ TypeOK /\ PcInv /\ BatchInv /\ CpuInv /\ NoStaleEntry /\ EntryInv /\ SoleInv
    BY DEF MemoryInv, SharedInv, MirrorInv
  <1>1. pc[t] = "copy" /\ UNCHANGED <<cpu, cmd, ret>> /\ cur' = [cur EXCEPT ![t] = @ + 1]
    BY DEF Copy, Advance
  <1>2. cmd[t] # NoCmd /\ cmd[t].op \in {"read", "write", "todev", "excl"}
    BY <1>0, <1>1 DEF PcInv, PcOf, Fits, AccessPc
  <1> DEFINE a == cur[t]
  <1>3. a \in Addr /\ a <= cmd[t].hi /\ entry[t] # NoEntry
    BY <1>0, <1>1, Running DEF BatchInv, BatchOf, Range
  <1>4. entry[t].frame = cpu[a].frame
    <2>1. pt[a] = entry[t] /\ pt[a] # NoEntry  BY <1>0, <1>1, <1>3 DEF EntryInv
    <2>2. Current(a, pt[a])  BY <1>0, <1>3, <2>1 DEF NoStaleEntry
    <2>3. ASSUME NEW u \in Thread, pc[u] = "finalize" PROVE FALSE
      BY <1>0, <1>1, <2>3, Alone DEF MigratePc, SnapshotPc, BatchPc
    <2> QED  BY <2>1, <2>2, <2>3 DEF Current
  <1>5. entry[t].frame \in Frame /\ entry[t].frame # NoFrame
    BY <1>0, <1>3, MirrorAssumption DEF TypeOK, Entry
  <1>6. Memory[a] = data[entry[t].frame]  BY <1>3, <1>4, <1>5 DEF Memory
  <1>7. stores' = stores  BY DEF Copy, countVars
  <1>8. CASE cmd[t].op # "write"
    <2>1. data' = data /\ bounce' = [bounce EXCEPT ![t][a] = data[entry[t].frame]]
      BY <1>8 DEF Copy
    <2>2. Memory' = Memory  BY <1>1, <2>1 DEF Memory
    <2> QED  BY <1>1, <1>2, <1>3, <1>6, <1>7, <1>8, <2>1, <2>2 DEF Shared!ReadPage
  <1>9. CASE cmd[t].op = "write"
    <2>1. bounce' = bounce /\ data' = [data EXCEPT ![entry[t].frame] = bounce[t][a]]
      BY <1>9 DEF Copy
    <2>2. Memory' = [Memory EXCEPT ![a] = bounce[t][a]]
      <3>1. ASSUME NEW x, x = a PROVE Memory' = [Memory EXCEPT ![x] = bounce[t][x]]
        <4>1. data'[cpu[x].frame] = bounce[t][x] /\ cpu[x].frame # NoFrame /\ x \in Addr
          BY <1>0, <1>3, <1>4, <1>5, <2>1, <3>1 DEF TypeOK
        <4>2. Val(x)' = bounce[t][x]  BY <1>1, <4>1 DEF Val
        <4>3. ASSUME NEW b \in Addr, b # x PROVE Val(b)' = Val(b)
          <5>1. CASE cpu[b].frame = NoFrame  BY <1>1, <5>1 DEF Val
          <5>2. CASE cpu[b].frame # NoFrame
            <6>1. cpu[b].frame # entry[t].frame /\ cpu[b].frame \in Frame
              BY <1>0, <1>4, <3>1, <4>1, <4>3, <5>2 DEF SoleInv, TypeOK, Pte
            <6>2. data'[cpu[b].frame] = data[cpu[b].frame]
              BY <1>0, <1>5, <2>1, <6>1 DEF TypeOK
            <6> QED  BY <1>1, <6>2 DEF Val
          <5> QED  BY <5>1, <5>2
        <4>4. Memory = [b \in Addr |-> Val(b)]  BY DEF Memory, Val
        <4>5. Memory' = [b \in Addr |-> Val(b)']  BY DEF Memory, Val
        <4> HIDE DEF Val
        <4> QED  BY <4>1, <4>2, <4>3, <4>4, <4>5
      <3> QED  BY <3>1
    <2> QED  BY <1>1, <1>2, <1>3, <1>7, <1>9, <2>1, <2>2 DEF Shared!WritePage
  <1> QED  BY <1>8, <1>9

\* A command starts, ends, or reports pages.
LEMMA ThreadShared ==
    ASSUME Regime, MemoryInv, NEW t \in Thread, Steps(t)
    PROVE  Shared!Next \/ UNCHANGED Shared!absVars
  <1>0. TypeOK /\ PcInv /\ BatchInv /\ CurInv  BY DEF MemoryInv, SharedInv, MirrorInv
  <1>1. CASE Copy(t)  BY <1>1, CopyShared DEF Shared!Next
  <1>2. ASSUME NEW c \in Cmd, Start(t, c), Memory' = Memory PROVE Shared!Next
    <2>1. cmd[t] = NoCmd  BY <1>0, <1>2 DEF Start, PcInv, PcOf
    <2>2. Shared!Submit(t, c)  BY <1>2, <2>1 DEF Start, Shared!Submit
    <2>3. c \in Shared!Cmd  BY DEF Cmd, Shared!Cmd
    <2> QED  BY <2>2, <2>3 DEF Shared!Next
  <1>3. ASSUME Reported(t), Memory' = Memory PROVE Shared!Next
    <2>1. pc[t] = "sout"  BY <1>3 DEF Reported
    <2>2. cmd[t] # NoCmd /\ cmd[t].op = "snapshot"
      BY <1>0, <2>1 DEF PcInv, PcOf, Fits, SnapshotPc, BatchPc
    <2>3. cur[t] = addr[t] /\ addr[t] \in Int /\ addr[t] <= BatchEnd(t)
          /\ BatchEnd(t) <= cmd[t].hi /\ BatchEnd(t) \in Int /\ cmd[t].hi \in Int
      BY <1>0, <2>1, Batches, Running, MirrorAssumption
         DEF CurInv, CurOf, SnapshotPc, BatchPc, TypeOK, Addr
    <2>4. BatchEnd(t) + 1 \in (cur[t] + 1)..(cmd[t].hi + 1)  BY <2>3
    <2>5. Shared!ReportPages(t)
      BY <1>3, <2>2, <2>4 DEF Reported, Shared!ReportPages
    <2> QED  BY <2>5 DEF Shared!Next
  <1>4. ASSUME Silent, Memory' = Memory PROVE UNCHANGED Shared!absVars
    BY <1>4 DEF Silent, Shared!absVars
  <1>5. ASSUME pc[t] # "idle", Ends(t, "error"), Memory' = Memory PROVE Shared!Next
    <2>1. cmd[t] # NoCmd  BY <1>0, <1>5 DEF PcInv, PcOf
    <2>2. Shared!Fail(t)  BY <1>5, <2>1 DEF Ends, Return, Shared!Fail
    <2> QED  BY <2>2 DEF Shared!Next
  <1>6. ASSUME pc[t] # "idle", Ends(t, "ok"), Finished(t), Memory' = Memory PROVE Shared!Next
    <2>1. cmd[t] # NoCmd  BY <1>0, <1>6 DEF PcInv, PcOf
    <2>2. Shared!Succeed(t)  BY <1>6, <2>1 DEF Ends, Return, Finished, Shared!Succeed
    <2> QED  BY <2>2 DEF Shared!Next
  <1>7. ~Copy(t) => Memory' = Memory  BY ThreadMemory
  <1> QED  BY <1>0, <1>1, <1>2, <1>3, <1>4, <1>5, <1>6, <1>7, Outcome

\* Of what the kernel does only the CPU's stores, and discarded pages, are seen.
LEMMA KernelShared ==
    ASSUME MemoryInv, Kernel
    PROVE  Shared!Next \/ UNCHANGED Shared!absVars
  <1>1. UNCHANGED <<cmd, cur, bounce, ret>>
    BY DEF Kernel, Populate, CpuStore, InvalidateStart, InvalidateEnd, accessVars
  <1>2. ASSUME NEW a \in Addr, NEW v \in Value, Memory' = [Memory EXCEPT ![a] = v],
               stores' = stores + 1
        PROVE  Shared!Next
    <2>1. Shared!CpuStore(a, v)  BY <1>1, <1>2 DEF Shared!CpuStore
    <2> QED  BY <2>1 DEF Shared!Next
  <1>3. ASSUME Memory' = Memory, stores' = stores PROVE UNCHANGED Shared!absVars
    BY <1>1, <1>3 DEF Shared!absVars
  <1> QED  BY <1>2, <1>3, KernelMemory

\* A stuttering step stays one.
LEMMA Unseen == UNCHANGED vars => UNCHANGED Shared!absVars
  BY DEF vars, mmVars, accessVars, countVars, Shared!absVars, Memory

\* The device and the CPU share one memory: what a device command reads is what the process
\* has on that page at that moment, what it writes is there for the CPU from then on, and no
\* fault, invalidation, migration or exclusive access is seen in between
\* (ImplementsSharedMemory); for any number of threads, pages and frames, in Regime.
THEOREM SharesMemory ==
    ASSUME Regime
    PROVE  Spec => ImplementsSharedMemory
  <1>1. Init => MemoryInv  BY MemoryInit
  <1>2. MemoryInv /\ [Next]_vars => MemoryInv'  BY MemoryStep
  <1>3. Init => Shared!Init  BY SharedInitial
  <1>4. MemoryInv /\ [Next]_vars => [Shared!Next]_(Shared!absVars)
    BY ThreadShared, KernelShared, Unseen DEF Next, Steps
  <1> QED  BY <1>1, <1>2, <1>3, <1>4, PTL DEF Spec, ImplementsSharedMemory, Shared!Spec
=============================================================================
