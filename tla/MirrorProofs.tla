---------------------------- MODULE MirrorProofs ----------------------------
(***************************************************************************)
(* Proofs about the mirrored address space of hmm.c, for any number of     *)
(* threads, invalidators, pages and frames and any mix of commands: types, *)
(* the notifiers' protocol, and what it gives a snapshot.                  *)
(***************************************************************************)
EXTENDS Mirror, TLAPS

(***************************************************************************)
(* Where a thread is: in the final copy, in a fault, in a migration, in    *)
(* exclusive access, in a snapshot.                                        *)
(***************************************************************************)
AccessPc == {"bounce", "lock", "load", "copy", "oops"}

FaultPc == {"begin", "mmap", "walk", "commit"}

MigratePc == {"setup", "alloc", "copy_to", "pages", "map", "finalize", "more"}

ExclusivePc == {"xstart", "xcall", "xset"}

BatchPc == {"sinsert", "sbegin", "smmap", "swalk", "scommit", "sfail", "sout"}

SnapshotPc == BatchPc \cup {"snext"}

Pcs == {"idle", "check"} \cup AccessPc \cup FaultPc \cup MigratePc \cup ExclusivePc \cup SnapshotPc

\* What a thread's place says of its command.
Fits(x, op) ==
    /\ x = "check" => op = "check"
    /\ x \in AccessPc => op \in {"read", "write", "todev", "excl"}
    /\ x \in FaultPc => op \in {"read", "write"}
    /\ x \in MigratePc => op \in {"todev", "tosys", "fault"}
    /\ x = "map" => op = "todev"
    /\ x \in ExclusivePc => op = "excl"
    /\ x \in SnapshotPc => op = "snapshot"

PcOf(t) ==
    /\ pc[t] = "idle" <=> cmd[t] = NoCmd
    /\ pc[t] # "idle" => cmd[t].op \in OpOf[t] /\ Fits(pc[t], cmd[t].op)

\* The batch a thread works on is part of its range, and it stays inside.
BatchOf(t) ==
    /\ pc[t] \in FaultPc \cup MigratePc \cup ExclusivePc \cup BatchPc => addr[t] <= cmd[t].hi
    /\ pc[t] \in {"mmap", "smmap", "xstart"} => walk[t] = addr[t]
    /\ pc[t] \in {"walk", "swalk", "xset"} => walk[t] \in BatchRange(t)
    /\ pc[t] \in {"commit", "scommit"} => walk[t] = BatchEnd(t) + 1
    /\ pc[t] = "xcall" => addr[t] <= walk[t] /\ walk[t] <= BatchEnd(t) + 1
    /\ pc[t] = "check" => walk[t] \in Range(t)
    /\ pc[t] = "copy" => cur[t] \in Range(t) /\ entry[t] # NoEntry

\* What is walked, allocated and stored are frames.
FramesOf(t) ==
    /\ pc[t] \in {"walk", "commit"} =>
         \A a \in BatchRange(t) : a < walk[t] => pfns[t][a].frame # NoFrame
    /\ pc[t] \in {"map", "finalize"} => \A a \in sel[t] : dst[t][a] # NoFrame

PcInv ==
    /\ pc \in [Thread -> Pcs]
    /\ \A t \in Thread : PcOf(t)

BatchInv == \A t \in Thread : BatchOf(t)

\* An entry of the process's page table.
Is(p, k, f, w) == p.kind = k /\ p.frame = f /\ p.write = w

\* A page the process has is in a frame.
Proper(p) ==
    /\ p.kind = "none" => p = None
    /\ p.kind # "none" => p.frame # NoFrame

CpuInv == \A a \in Addr : Proper(cpu[a])

\* The page whose entry an invalidator changes.
Page(i) == inval[i].addr

FramesInv == \A t \in Thread : FramesOf(t)

\* What kind of page a change of the page table works on.
KindInv ==
    \A i \in Invalidator : inval[i] # NoCmd =>
        /\ inval[i].ev \in {"move", "cow"} => inval[i].pte.kind = "sys"
        /\ inval[i].ev = "cow" => ~inval[i].pte.write
        /\ inval[i].ev = "protect" => inval[i].pte.kind \in {"sys", "dev"} /\ inval[i].pte.write
        /\ inval[i].ev = "restore" => inval[i].pte.kind = "excl"

(***************************************************************************)
(* The kernel's side of the notifiers: who is between the start and the    *)
(* end of an invalidation, and what the sequences say of it.               *)
(***************************************************************************)
ActiveInv ==
    /\ \A i \in Invalidator : i \in active <=> inval[i] # NoCmd
    /\ \A t \in Thread : t \in active <=> pc[t] = "xset"
    /\ busy <=> active # {}

\* A snapshot's notifier is busy as long as a page of its batch is being invalidated.
ToldOf(t) ==
    Snapping(t) =>
        /\ \A i \in Invalidator : inval[i] # NoCmd /\ Page(i) \in BatchRange(t) => t \in sbusy
        /\ \A u \in Thread : pc[u] = "xset" /\ walk[u] \in BatchRange(t) => t \in sbusy

\* A reading that is still valid began when nothing was being invalidated.
ReadOf(t) ==
    /\ pc[t] \in {"smmap", "swalk", "scommit"} /\ fresh[t] => t \notin sbusy
    /\ pc[t] \in {"mmap", "walk", "commit"} /\ fresh[t] => ~busy

\* What a valid snapshot has read is still so, or was not there.
SnapOf(t) ==
    pc[t] \in {"swalk", "scommit"} /\ fresh[t] =>
        \A a \in BatchRange(t) :
            a < walk[t] => dmirror_mkentry(pfns[t][a]) \in {"NONE", "ERROR", Permission(cpu[a])}

ToldInv == \A t \in Thread : ToldOf(t)

ReadInv == \A t \in Thread : ReadOf(t)

SnapInv == \A t \in Thread : SnapOf(t)

MirrorInv ==
    /\ TypeOK /\ PcInv /\ BatchInv /\ CpuInv /\ FramesInv /\ KindInv
    /\ ActiveInv /\ ToldInv /\ ReadInv /\ SnapInv

-----------------------------------------------------------------------------
(***************************************************************************)
(* The model's operators.                                                  *)
(***************************************************************************)

\* A command the system takes has a range of pages and is one the thread issues.
LEMMA Commands ==
    ASSUME NEW c \in Cmd
    PROVE  /\ c.op \in Op /\ c.lo \in Addr /\ c.hi \in Addr /\ c.val \in Value /\ c.lo <= c.hi
           /\ c.lo \in 1..(NPages + 1) /\ c # NoCmd
  BY MirrorAssumption DEF Cmd, Addr

\* The two ways to start: the user's commands, and the CPU's fault on a device page.
LEMMA StartEffect ==
    ASSUME NEW t \in Thread, Submit(t) \/ dmirror_devmem_fault(t)
    PROVE  \E c \in Cmd : c.op \in OpOf[t] /\ Start(t, c)
  <1>1. CASE Submit(t)  BY <1>1 DEF Submit
  <1>2. CASE dmirror_devmem_fault(t)
    <2>1. PICK a \in Addr : Start(t, [op |-> "fault", lo |-> a, hi |-> a, val |-> Zero])
      BY <1>2 DEF dmirror_devmem_fault
    <2>2. "fault" \in OpOf[t] /\ "fault" \in Op  BY <1>2 DEF dmirror_devmem_fault, Op
    <2>3. [op |-> "fault", lo |-> a, hi |-> a, val |-> Zero] \in Cmd
      BY <2>2, MirrorAssumption DEF Cmd, Addr
    <2> QED  BY <2>1, <2>2, <2>3
  <1> QED  BY <1>1, <1>2

\* Every command has a first step.
LEMMA FirstSteps ==
    ASSUME NEW t \in Thread, NEW op \in OpOf[t]
    PROVE  /\ op \in {"read", "write", "todev", "tosys", "fault", "excl", "check", "snapshot"}
           /\ op \in {"read", "write"} => FirstStep(op) = "bounce"
           /\ op \in {"todev", "tosys", "fault"} => FirstStep(op) = "setup"
           /\ op = "excl" => FirstStep(op) = "xstart"
           /\ op = "check" => FirstStep(op) = "check"
           /\ op = "snapshot" => FirstStep(op) = "sinsert"
  <1>1. op \in {"read", "write", "todev", "tosys", "fault", "excl", "check", "snapshot"}
    BY MirrorAssumption
  <1> QED  BY <1>1 DEF FirstStep

\* The command a thread runs.
LEMMA Running ==
    ASSUME TypeOK, PcInv, NEW t \in Thread, pc[t] # "idle"
    PROVE  /\ cmd[t] \in Cmd /\ cmd[t] # NoCmd
           /\ cmd[t].lo \in Addr /\ cmd[t].hi \in Addr /\ cmd[t].lo <= cmd[t].hi
           /\ cmd[t].op \in OpOf[t] /\ Range(t) \subseteq Addr
  <1>1. cmd[t] \in Cmd  BY DEF TypeOK, PcInv, PcOf
  <1>2. cmd[t].op \in OpOf[t]  BY DEF PcInv, PcOf
  <1>3. Range(t) \subseteq Addr  BY <1>1, Commands, MirrorAssumption DEF Range, Addr
  <1> QED  BY <1>1, <1>2, <1>3, Commands

\* Its current batch.
LEMMA Batches ==
    ASSUME TypeOK, PcInv, BatchInv, NEW t \in Thread,
           pc[t] \in FaultPc \cup MigratePc \cup ExclusivePc \cup BatchPc
    PROVE  /\ addr[t] \in Addr /\ BatchEnd(t) \in Addr
           /\ addr[t] <= BatchEnd(t) /\ BatchEnd(t) <= cmd[t].hi
           /\ BatchRange(t) \subseteq Addr
           /\ BatchEnd(t) + 1 \in 1..(NPages + 1)
           /\ BatchEnd(t) # cmd[t].hi => BatchEnd(t) + 1 <= cmd[t].hi
  <1>1. pc[t] # "idle"  BY DEF FaultPc, MigratePc, ExclusivePc, BatchPc
  <1>2. addr[t] \in 1..(NPages + 1) /\ addr[t] <= cmd[t].hi  BY DEF TypeOK, BatchInv, BatchOf
  <1> QED  BY <1>1, <1>2, Running, MirrorAssumption DEF BatchEnd, BatchRange, Addr

\* Frames not in use are frames.
LEMMA FreeAreFrames == FreeFrames \subseteq Frame /\ NoFrame \notin FreeFrames
  BY MirrorAssumption DEF FreeFrames

-----------------------------------------------------------------------------
(***************************************************************************)
(* Where each thread is.                                                   *)
(***************************************************************************)
\* A thread that returns, and one that goes on with its command.
LEMMA PcReturn ==
    ASSUME TypeOK, PcInv, NEW t \in Thread, NEW r, Return(t, r)
    PROVE  PcInv'
  <1>1. pc' = [pc EXCEPT ![t] = "idle"] /\ cmd' = [cmd EXCEPT ![t] = NoCmd]  BY DEF Return
  <1>2. pc' \in [Thread -> Pcs]  BY <1>1 DEF PcInv, Pcs
  <1>3. PcOf(t)'  BY <1>1 DEF PcInv, PcOf, TypeOK
  <1>4. ASSUME NEW u \in Thread, u # t PROVE PcOf(u)'
    <2>1. pc'[u] = pc[u] /\ cmd'[u] = cmd[u]  BY <1>1, <1>4 DEF PcInv, TypeOK
    <2> QED  BY <2>1 DEF PcInv, PcOf
  <1> QED  BY <1>2, <1>3, <1>4 DEF PcInv

\* A thread that goes on with its command.
LEMMA PcGoto ==
    ASSUME PcInv, NEW t \in Thread, pc[t] # "idle", NEW x \in Pcs, x # "idle",
           pc' = [pc EXCEPT ![t] = x], UNCHANGED cmd, Fits(x, cmd[t].op)
    PROVE  PcInv'
  <1>2. pc' \in [Thread -> Pcs]  BY DEF PcInv
  <1>3. PcOf(t)'  BY DEF PcInv, PcOf
  <1>4. ASSUME NEW u \in Thread, u # t PROVE PcOf(u)'
    <2>1. pc'[u] = pc[u] /\ cmd'[u] = cmd[u]  BY <1>4 DEF PcInv
    <2> QED  BY <2>1 DEF PcInv, PcOf
  <1> QED  BY <1>2, <1>3, <1>4 DEF PcInv

\* Every step keeps a thread in a place that fits its command.
LEMMA PcStep == TypeOK /\ PcInv /\ [Next]_vars => PcInv'
  <1> SUFFICES ASSUME TypeOK, PcInv, [Next]_vars PROVE PcInv'  OBVIOUS
  <1>0. ASSUME UNCHANGED <<pc, cmd>> PROVE PcInv'
    BY <1>0 DEF PcInv, PcOf
  <1>1. ASSUME NEW t \in Thread, NEW c \in Cmd, c.op \in OpOf[t], Start(t, c) PROVE PcInv'
    <2>1. cmd' = [cmd EXCEPT ![t] = c] /\ pc' = [pc EXCEPT ![t] = FirstStep(c.op)]
      BY <1>1 DEF Start
    <2>2. c # NoCmd  BY Commands
    <2>3. FirstStep(c.op) \in Pcs /\ FirstStep(c.op) # "idle" /\ Fits(FirstStep(c.op), c.op)
      BY <1>1, FirstSteps DEF Fits, Pcs, AccessPc, FaultPc, MigratePc, ExclusivePc, SnapshotPc,
          BatchPc
    <2>4. pc' \in [Thread -> Pcs]  BY <2>1, <2>3 DEF PcInv
    <2>5. PcOf(t)'  BY <1>1, <2>1, <2>2, <2>3 DEF PcInv, PcOf, TypeOK
    <2>6. ASSUME NEW u \in Thread, u # t PROVE PcOf(u)'
      <3>1. pc'[u] = pc[u] /\ cmd'[u] = cmd[u]  BY <2>1, <2>6 DEF PcInv, TypeOK
      <3> QED  BY <3>1 DEF PcInv, PcOf
    <2> QED  BY <2>4, <2>5, <2>6 DEF PcInv
  <1>2. ASSUME NEW t \in Thread, BounceInit(t) PROVE PcInv'
    <2>1. pc[t] \in {"bounce"}  BY <1>2 DEF BounceInit
    <2>2. ASSUME NEW x \in {"lock"}, pc' = [pc EXCEPT ![t] = x], UNCHANGED cmd,
               x = "map" => cmd[t].op = "todev", x = "bounce" => cmd[t].op \in {"todev", "excl"},
               x = "begin" => cmd[t].op \in {"read", "write"}
          PROVE  PcInv'
      BY <2>1, <2>2, PcGoto DEF PcInv, PcOf, Fits, Pcs, AccessPc, FaultPc, MigratePc,
          ExclusivePc, SnapshotPc, BatchPc
    <2>3. ASSUME NEW r, Return(t, r) PROVE PcInv'  BY <2>3, PcReturn
    <2> QED  BY <1>2, <2>1, <2>2, <2>3 DEF BounceInit, Outbound
  <1>3. ASSUME NEW t \in Thread, MutexLock(t) PROVE PcInv'
    <2>1. pc[t] = "lock" /\ pc' = [pc EXCEPT ![t] = "load"] /\ UNCHANGED cmd
      BY <1>3 DEF MutexLock, accessVars
    <2> QED
      BY <2>1, PcGoto DEF PcInv, PcOf, Fits, Pcs, AccessPc, FaultPc, MigratePc, ExclusivePc,
          SnapshotPc, BatchPc
  <1>4. ASSUME NEW t \in Thread, Load(t) PROVE PcInv'
    <2>1. pc[t] = "load" /\ pc' = [pc EXCEPT ![t] = "copy"] /\ UNCHANGED cmd
      BY <1>4 DEF Load
    <2> QED
      BY <2>1, PcGoto DEF PcInv, PcOf, Fits, Pcs, AccessPc, FaultPc, MigratePc, ExclusivePc,
          SnapshotPc, BatchPc
  <1>5. ASSUME NEW t \in Thread, Copy(t) PROVE PcInv'
    <2>1. pc[t] = "copy" /\ pc' = [pc EXCEPT ![t] = "load"] /\ UNCHANGED cmd
      BY <1>5 DEF Copy
    <2> QED
      BY <2>1, PcGoto DEF PcInv, PcOf, Fits, Pcs, AccessPc, FaultPc, MigratePc, ExclusivePc,
          SnapshotPc, BatchPc
  <1>6. ASSUME NEW t \in Thread, CopyOops(t) PROVE PcInv'
    <2>1. pc[t] = "copy" /\ pc' = [pc EXCEPT ![t] = "oops"] /\ UNCHANGED cmd
      BY <1>6 DEF CopyOops, accessVars
    <2> QED
      BY <2>1, PcGoto DEF PcInv, PcOf, Fits, Pcs, AccessPc, FaultPc, MigratePc, ExclusivePc,
          SnapshotPc, BatchPc
  <1>7. ASSUME NEW t \in Thread, AccessDone(t) PROVE PcInv'
    <2>1. pc[t] \in {"load"}  BY <1>7 DEF AccessDone
    <2>2. ASSUME NEW r, Return(t, r) PROVE PcInv'  BY <2>2, PcReturn
    <2> QED  BY <1>7, <2>1, <2>2 DEF AccessDone, Outbound
  <1>8. ASSUME NEW t \in Thread, AccessMiss(t) PROVE PcInv'
    <2>1. pc[t] \in {"load"}  BY <1>8 DEF AccessMiss
    <2>2. ASSUME NEW x \in {"begin"}, pc' = [pc EXCEPT ![t] = x], UNCHANGED cmd,
               x = "map" => cmd[t].op = "todev", x = "bounce" => cmd[t].op \in {"todev", "excl"},
               x = "begin" => cmd[t].op \in {"read", "write"}
          PROVE  PcInv'
      BY <2>1, <2>2, PcGoto DEF PcInv, PcOf, Fits, Pcs, AccessPc, FaultPc, MigratePc,
          ExclusivePc, SnapshotPc, BatchPc
    <2>3. ASSUME NEW r, Return(t, r) PROVE PcInv'  BY <2>3, PcReturn
    <2> QED  BY <1>8, <2>1, <2>2, <2>3 DEF AccessMiss, Outbound
  <1>9. ASSUME NEW t \in Thread, ReadBegin(t) PROVE PcInv'
    <2>1. pc[t] = "begin" /\ pc' = [pc EXCEPT ![t] = "mmap"] /\ UNCHANGED cmd
      BY <1>9 DEF ReadBegin, accessVars
    <2> QED
      BY <2>1, PcGoto DEF PcInv, PcOf, Fits, Pcs, AccessPc, FaultPc, MigratePc, ExclusivePc,
          SnapshotPc, BatchPc
  <1>10. ASSUME NEW t \in Thread, MmapReadLock(t) PROVE PcInv'
    <2>1. pc[t] = "mmap" /\ pc' = [pc EXCEPT ![t] = "walk"] /\ UNCHANGED cmd
      BY <1>10 DEF MmapReadLock, accessVars
    <2> QED
      BY <2>1, PcGoto DEF PcInv, PcOf, Fits, Pcs, AccessPc, FaultPc, MigratePc, ExclusivePc,
          SnapshotPc, BatchPc
  <1>11. ASSUME NEW t \in Thread, Walk(t) PROVE PcInv'
    <2>1. pc[t] \in {"walk"}  BY <1>11 DEF Walk
    <2>2. ASSUME NEW x \in {"walk", "commit"}, pc' = [pc EXCEPT ![t] = x], UNCHANGED cmd,
               x = "map" => cmd[t].op = "todev", x = "bounce" => cmd[t].op \in {"todev", "excl"},
               x = "begin" => cmd[t].op \in {"read", "write"}
          PROVE  PcInv'
      BY <2>1, <2>2, PcGoto DEF PcInv, PcOf, Fits, Pcs, AccessPc, FaultPc, MigratePc,
          ExclusivePc, SnapshotPc, BatchPc
    <2> QED  BY <1>11, <2>1, <2>2 DEF Walk, Outbound, accessVars
  <1>12. ASSUME NEW t \in Thread, WalkBusy(t) PROVE PcInv'
    <2>1. pc[t] = "walk" /\ pc' = [pc EXCEPT ![t] = "begin"] /\ UNCHANGED cmd
      BY <1>12 DEF WalkBusy, accessVars
    <2> QED
      BY <2>1, PcGoto DEF PcInv, PcOf, Fits, Pcs, AccessPc, FaultPc, MigratePc, ExclusivePc,
          SnapshotPc, BatchPc
  <1>13. ASSUME NEW t \in Thread, FaultFails(t) PROVE PcInv'
    <2>1. pc[t] \in {"begin", "walk"}  BY <1>13 DEF FaultFails
    <2>2. ASSUME NEW r, Return(t, r) PROVE PcInv'  BY <2>2, PcReturn
    <2> QED  BY <1>13, <2>1, <2>2 DEF FaultFails, Outbound
  <1>14. ASSUME NEW t \in Thread, Retry(t) PROVE PcInv'
    <2>1. pc[t] = "commit" /\ pc' = [pc EXCEPT ![t] = "begin"] /\ UNCHANGED cmd
      BY <1>14 DEF Retry, accessVars
    <2> QED
      BY <2>1, PcGoto DEF PcInv, PcOf, Fits, Pcs, AccessPc, FaultPc, MigratePc, ExclusivePc,
          SnapshotPc, BatchPc
  <1>15. ASSUME NEW t \in Thread, Commit(t) PROVE PcInv'
    <2>1. pc[t] \in {"commit"}  BY <1>15 DEF Commit
    <2>2. ASSUME NEW x \in {"lock", "begin"}, pc' = [pc EXCEPT ![t] = x], UNCHANGED cmd,
               x = "map" => cmd[t].op = "todev", x = "bounce" => cmd[t].op \in {"todev", "excl"},
               x = "begin" => cmd[t].op \in {"read", "write"}
          PROVE  PcInv'
      BY <2>1, <2>2, PcGoto DEF PcInv, PcOf, Fits, Pcs, AccessPc, FaultPc, MigratePc,
          ExclusivePc, SnapshotPc, BatchPc
    <2>3. ASSUME NEW r, Return(t, r) PROVE PcInv'  BY <2>3, PcReturn
    <2>4. cmd[t].op \in {"read", "write"}
      BY <2>1 DEF PcInv, PcOf, Fits, AccessPc, FaultPc, MigratePc, ExclusivePc, SnapshotPc,
          BatchPc
    <2> QED  BY <1>15, <2>1, <2>2, <2>3, <2>4 DEF Commit, Outbound
  <1>16. ASSUME NEW t \in Thread, Setup(t) PROVE PcInv'
    <2>1. pc[t] \in {"setup", "more"} /\ pc' = [pc EXCEPT ![t] = "alloc"] /\ UNCHANGED cmd
      BY <1>16 DEF Setup, accessVars
    <2> QED
      BY <2>1, PcGoto DEF PcInv, PcOf, Fits, Pcs, AccessPc, FaultPc, MigratePc, ExclusivePc,
          SnapshotPc, BatchPc
  <1>17. ASSUME NEW t \in Thread, SetupFails(t) PROVE PcInv'
    <2>1. pc[t] \in {"setup", "more"}  BY <1>17 DEF SetupFails
    <2>2. ASSUME NEW r, Return(t, r) PROVE PcInv'  BY <2>2, PcReturn
    <2> QED  BY <1>17, <2>1, <2>2 DEF SetupFails, Outbound
  <1>18. ASSUME NEW t \in Thread, Alloc(t) PROVE PcInv'
    <2>1. pc[t] = "alloc" /\ pc' = [pc EXCEPT ![t] = "copy_to"] /\ UNCHANGED cmd
      BY <1>18 DEF Alloc, accessVars
    <2> QED
      BY <2>1, PcGoto DEF PcInv, PcOf, Fits, Pcs, AccessPc, FaultPc, MigratePc, ExclusivePc,
          SnapshotPc, BatchPc
  <1>19. ASSUME NEW t \in Thread, CopyPages(t) PROVE PcInv'
    <2>1. pc[t] = "copy_to" /\ pc' = [pc EXCEPT ![t] = "pages"] /\ UNCHANGED cmd
      BY <1>19 DEF CopyPages, accessVars
    <2> QED
      BY <2>1, PcGoto DEF PcInv, PcOf, Fits, Pcs, AccessPc, FaultPc, MigratePc, ExclusivePc,
          SnapshotPc, BatchPc
  <1>20. ASSUME NEW t \in Thread, MigratePages(t) PROVE PcInv'
    <2>1. pc[t] \in {"pages"}  BY <1>20 DEF MigratePages
    <2>2. ASSUME NEW x \in {"map", "finalize"}, pc' = [pc EXCEPT ![t] = x], UNCHANGED cmd,
               x = "map" => cmd[t].op = "todev", x = "bounce" => cmd[t].op \in {"todev", "excl"},
               x = "begin" => cmd[t].op \in {"read", "write"}
          PROVE  PcInv'
      BY <2>1, <2>2, PcGoto DEF PcInv, PcOf, Fits, Pcs, AccessPc, FaultPc, MigratePc,
          ExclusivePc, SnapshotPc, BatchPc
    <2> QED  BY <1>20, <2>1, <2>2 DEF MigratePages, Outbound, accessVars
  <1>21. ASSUME NEW t \in Thread, MapPages(t) PROVE PcInv'
    <2>1. pc[t] = "map" /\ pc' = [pc EXCEPT ![t] = "finalize"] /\ UNCHANGED cmd
      BY <1>21 DEF MapPages, accessVars
    <2> QED
      BY <2>1, PcGoto DEF PcInv, PcOf, Fits, Pcs, AccessPc, FaultPc, MigratePc, ExclusivePc,
          SnapshotPc, BatchPc
  <1>22. ASSUME NEW t \in Thread, Finalize(t) PROVE PcInv'
    <2>1. pc[t] \in {"finalize"}  BY <1>22 DEF Finalize
    <2>2. ASSUME NEW x \in {"more", "bounce"}, pc' = [pc EXCEPT ![t] = x], UNCHANGED cmd,
               x = "map" => cmd[t].op = "todev", x = "bounce" => cmd[t].op \in {"todev", "excl"},
               x = "begin" => cmd[t].op \in {"read", "write"}
          PROVE  PcInv'
      BY <2>1, <2>2, PcGoto DEF PcInv, PcOf, Fits, Pcs, AccessPc, FaultPc, MigratePc,
          ExclusivePc, SnapshotPc, BatchPc
    <2>3. ASSUME NEW r, Return(t, r) PROVE PcInv'  BY <2>3, PcReturn
    <2> QED  BY <1>22, <2>1, <2>2, <2>3 DEF Finalize, Outbound
  <1>23. ASSUME NEW t \in Thread, ExclusiveStart(t) PROVE PcInv'
    <2>1. pc[t] = "xstart" /\ pc' = [pc EXCEPT ![t] = "xcall"] /\ UNCHANGED cmd
      BY <1>23 DEF ExclusiveStart, accessVars
    <2> QED
      BY <2>1, PcGoto DEF PcInv, PcOf, Fits, Pcs, AccessPc, FaultPc, MigratePc, ExclusivePc,
          SnapshotPc, BatchPc
  <1>24. ASSUME NEW t \in Thread, ExclusiveCall(t) PROVE PcInv'
    <2>1. pc[t] = "xcall" /\ pc' = [pc EXCEPT ![t] = "xset"] /\ UNCHANGED cmd
      BY <1>24 DEF ExclusiveCall, accessVars
    <2> QED
      BY <2>1, PcGoto DEF PcInv, PcOf, Fits, Pcs, AccessPc, FaultPc, MigratePc, ExclusivePc,
          SnapshotPc, BatchPc
  <1>25. ASSUME NEW t \in Thread, ExclusiveSet(t) PROVE PcInv'
    <2>1. pc[t] = "xset" /\ pc' = [pc EXCEPT ![t] = "xcall"] /\ UNCHANGED cmd
      BY <1>25 DEF ExclusiveSet, accessVars
    <2> QED
      BY <2>1, PcGoto DEF PcInv, PcOf, Fits, Pcs, AccessPc, FaultPc, MigratePc, ExclusivePc,
          SnapshotPc, BatchPc
  <1>26. ASSUME NEW t \in Thread, ExclusiveShort(t) PROVE PcInv'
    <2>1. pc[t] \in {"xcall"}  BY <1>26 DEF ExclusiveShort
    <2>2. ASSUME NEW r, Return(t, r) PROVE PcInv'  BY <2>2, PcReturn
    <2> QED  BY <1>26, <2>1, <2>2 DEF ExclusiveShort, Outbound
  <1>27. ASSUME NEW t \in Thread, AtomicMap(t) PROVE PcInv'
    <2>1. pc[t] \in {"xcall"}  BY <1>27 DEF AtomicMap
    <2>2. ASSUME NEW x \in {"xcall", "bounce"}, pc' = [pc EXCEPT ![t] = x], UNCHANGED cmd,
               x = "map" => cmd[t].op = "todev", x = "bounce" => cmd[t].op \in {"todev", "excl"},
               x = "begin" => cmd[t].op \in {"read", "write"}
          PROVE  PcInv'
      BY <2>1, <2>2, PcGoto DEF PcInv, PcOf, Fits, Pcs, AccessPc, FaultPc, MigratePc,
          ExclusivePc, SnapshotPc, BatchPc
    <2>3. ASSUME NEW r, Return(t, r) PROVE PcInv'  BY <2>3, PcReturn
    <2>4. cmd[t].op \in {"excl"}
      BY <2>1 DEF PcInv, PcOf, Fits, AccessPc, FaultPc, MigratePc, ExclusivePc, SnapshotPc,
          BatchPc
    <2> QED  BY <1>27, <2>1, <2>2, <2>3, <2>4 DEF AtomicMap, Outbound
  <1>28. ASSUME NEW t \in Thread, dmirror_check_atomic(t) PROVE PcInv'
    <2>1. CASE UNCHANGED <<pc, cmd>>  BY <1>0, <2>1
    <2>2. ASSUME NEW r, Return(t, r) PROVE PcInv'  BY <2>2, PcReturn
    <2> QED  BY <1>28, <2>1, <2>2 DEF dmirror_check_atomic
  <1>29. ASSUME NEW t \in Thread, SnapshotInsert(t) PROVE PcInv'
    <2>1. pc[t] \in {"sinsert"}  BY <1>29 DEF SnapshotInsert
    <2>2. ASSUME NEW x \in {"sbegin"}, pc' = [pc EXCEPT ![t] = x], UNCHANGED cmd,
               x = "map" => cmd[t].op = "todev", x = "bounce" => cmd[t].op \in {"todev", "excl"},
               x = "begin" => cmd[t].op \in {"read", "write"}
          PROVE  PcInv'
      BY <2>1, <2>2, PcGoto DEF PcInv, PcOf, Fits, Pcs, AccessPc, FaultPc, MigratePc,
          ExclusivePc, SnapshotPc, BatchPc
    <2>3. ASSUME NEW r, Return(t, r) PROVE PcInv'  BY <2>3, PcReturn
    <2> QED  BY <1>29, <2>1, <2>2, <2>3 DEF SnapshotInsert, Outbound
  <1>30. ASSUME NEW t \in Thread, SnapshotBegin(t) PROVE PcInv'
    <2>1. pc[t] = "sbegin" /\ pc' = [pc EXCEPT ![t] = "smmap"] /\ UNCHANGED cmd
      BY <1>30 DEF SnapshotBegin, accessVars
    <2> QED
      BY <2>1, PcGoto DEF PcInv, PcOf, Fits, Pcs, AccessPc, FaultPc, MigratePc, ExclusivePc,
          SnapshotPc, BatchPc
  <1>31. ASSUME NEW t \in Thread, SnapshotLock(t) PROVE PcInv'
    <2>1. pc[t] = "smmap" /\ pc' = [pc EXCEPT ![t] = "swalk"] /\ UNCHANGED cmd
      BY <1>31 DEF SnapshotLock, accessVars
    <2> QED
      BY <2>1, PcGoto DEF PcInv, PcOf, Fits, Pcs, AccessPc, FaultPc, MigratePc, ExclusivePc,
          SnapshotPc, BatchPc
  <1>32. ASSUME NEW t \in Thread, SnapshotWalk(t) PROVE PcInv'
    <2>1. pc[t] \in {"swalk"}  BY <1>32 DEF SnapshotWalk
    <2>2. ASSUME NEW x \in {"scommit", "swalk"}, pc' = [pc EXCEPT ![t] = x], UNCHANGED cmd,
               x = "map" => cmd[t].op = "todev", x = "bounce" => cmd[t].op \in {"todev", "excl"},
               x = "begin" => cmd[t].op \in {"read", "write"}
          PROVE  PcInv'
      BY <2>1, <2>2, PcGoto DEF PcInv, PcOf, Fits, Pcs, AccessPc, FaultPc, MigratePc,
          ExclusivePc, SnapshotPc, BatchPc
    <2> QED  BY <1>32, <2>1, <2>2 DEF SnapshotWalk, Outbound, accessVars
  <1>33. ASSUME NEW t \in Thread, SnapshotRetry(t) PROVE PcInv'
    <2>1. pc[t] \in {"swalk", "scommit"} /\ pc' = [pc EXCEPT ![t] = "sbegin"] /\ UNCHANGED cmd
      BY <1>33 DEF SnapshotRetry, accessVars
    <2> QED
      BY <2>1, PcGoto DEF PcInv, PcOf, Fits, Pcs, AccessPc, FaultPc, MigratePc, ExclusivePc,
          SnapshotPc, BatchPc
  <1>34. ASSUME NEW t \in Thread, SnapshotCommit(t) PROVE PcInv'
    <2>1. pc[t] = "scommit" /\ pc' = [pc EXCEPT ![t] = "sout"] /\ UNCHANGED cmd
      BY <1>34 DEF SnapshotCommit, accessVars
    <2> QED
      BY <2>1, PcGoto DEF PcInv, PcOf, Fits, Pcs, AccessPc, FaultPc, MigratePc, ExclusivePc,
          SnapshotPc, BatchPc
  <1>35. ASSUME NEW t \in Thread, SnapshotOut(t) PROVE PcInv'
    <2>1. pc[t] \in {"sout"}  BY <1>35 DEF SnapshotOut
    <2>2. ASSUME NEW x \in {"snext"}, pc' = [pc EXCEPT ![t] = x], UNCHANGED cmd,
               x = "map" => cmd[t].op = "todev", x = "bounce" => cmd[t].op \in {"todev", "excl"},
               x = "begin" => cmd[t].op \in {"read", "write"}
          PROVE  PcInv'
      BY <2>1, <2>2, PcGoto DEF PcInv, PcOf, Fits, Pcs, AccessPc, FaultPc, MigratePc,
          ExclusivePc, SnapshotPc, BatchPc
    <2>3. ASSUME NEW r, Return(t, r) PROVE PcInv'  BY <2>3, PcReturn
    <2> QED  BY <1>35, <2>1, <2>2, <2>3 DEF SnapshotOut, Outbound
  <1>36. ASSUME NEW t \in Thread, SnapshotNext(t) PROVE PcInv'
    <2>1. pc[t] \in {"snext"}  BY <1>36 DEF SnapshotNext
    <2>2. ASSUME NEW x \in {"sinsert"}, pc' = [pc EXCEPT ![t] = x], UNCHANGED cmd,
               x = "map" => cmd[t].op = "todev", x = "bounce" => cmd[t].op \in {"todev", "excl"},
               x = "begin" => cmd[t].op \in {"read", "write"}
          PROVE  PcInv'
      BY <2>1, <2>2, PcGoto DEF PcInv, PcOf, Fits, Pcs, AccessPc, FaultPc, MigratePc,
          ExclusivePc, SnapshotPc, BatchPc
    <2>3. ASSUME NEW r, Return(t, r) PROVE PcInv'  BY <2>3, PcReturn
    <2> QED  BY <1>36, <2>1, <2>2, <2>3 DEF SnapshotNext, Outbound
  <1>37. ASSUME NEW t \in Thread, SnapshotFails(t) PROVE PcInv'
    <2>1. CASE pc[t] = "swalk" /\ pc' = [pc EXCEPT ![t] = "sfail"] /\ UNCHANGED cmd
      BY <2>1, PcGoto DEF PcInv, PcOf, Fits, Pcs, AccessPc, FaultPc, MigratePc, ExclusivePc,
          SnapshotPc, BatchPc
    <2>2. ASSUME NEW r, Return(t, r) PROVE PcInv'  BY <2>2, PcReturn
    <2> QED  BY <1>37, <2>1, <2>2 DEF SnapshotFails
  <1>38. ASSUME NEW t, NEW c, NEW i, NEW a, NEW v,
                \/ Populate(a) \/ CpuStore(a, v) \/ InvalidateStart(i) \/ InvalidateEnd(i)
                \/ ExclusiveSkip(t)
         PROVE  PcInv'
    <2>1. UNCHANGED <<pc, cmd>>
      BY <1>38 DEF Populate, CpuStore, InvalidateStart, InvalidateEnd, ExclusiveSkip, accessVars
    <2> QED  BY <2>1, <1>0
  <1>39. CASE UNCHANGED vars  BY <1>0, <1>39 DEF vars, accessVars
  <1> QED
    BY StartEffect, <1>1, <1>2, <1>3, <1>4, <1>5, <1>6, <1>7, <1>8, <1>9, <1>10, <1>11, <1>12,
       <1>13, <1>14, <1>15, <1>16, <1>17, <1>18, <1>19, <1>20, <1>21, <1>22, <1>23, <1>24,
       <1>25, <1>26, <1>27, <1>28, <1>29, <1>30, <1>31, <1>32, <1>33, <1>34, <1>35, <1>36,
       <1>37, <1>38, <1>39
       DEF Next, Access, Fault, Migrate, Exclusive, Snapshot, Kernel

-----------------------------------------------------------------------------
(***************************************************************************)
(* What a thread keeps for itself only it changes.                         *)
(***************************************************************************)
Same(u) ==
    /\ pc'[u] = pc[u]
    /\ cmd'[u] = cmd[u]
    /\ cur'[u] = cur[u]
    /\ entry'[u] = entry[u]
    /\ addr'[u] = addr[u]
    /\ walk'[u] = walk[u]
    /\ pfns'[u] = pfns[u]
    /\ perm'[u] = perm[u]
    /\ src'[u] = src[u]
    /\ dst'[u] = dst[u]
    /\ sel'[u] = sel[u]

Steps(t) ==
    \/ Submit(t) \/ dmirror_devmem_fault(t) \/ Access(t) \/ Fault(t) \/ FaultFails(t)
    \/ Migrate(t) \/ Exclusive(t) \/ Snapshot(t) \/ SnapshotFails(t)

\* A step of one thread leaves the others' places, commands and arrays alone.
LEMMA Elsewhere ==
    ASSUME TypeOK, PcInv, NEW t \in Thread, NEW u \in Thread, u # t, Steps(t)
    PROVE  Same(u)
  <1> USE DEF Same, TypeOK, PcInv
  <1>1. ASSUME NEW c \in Cmd, Start(t, c) PROVE Same(u)
    BY <1>1 DEF Start, migVars
  <1>2. CASE BounceInit(t)  BY <1>2 DEF BounceInit, Return, faultVars, migVars
  <1>3. CASE MutexLock(t)  BY <1>3 DEF MutexLock, accessVars, faultVars, migVars
  <1>4. CASE Load(t)  BY <1>4 DEF Load, faultVars, migVars
  <1>5. CASE Copy(t)  BY <1>5 DEF Copy, faultVars, migVars, Advance
  <1>6. CASE CopyOops(t)  BY <1>6 DEF CopyOops, accessVars, faultVars, migVars
  <1>7. CASE AccessDone(t)  BY <1>7 DEF AccessDone, Return, faultVars, migVars
  <1>8. CASE AccessMiss(t)  BY <1>8 DEF AccessMiss, Return, migVars
  <1>9. CASE ReadBegin(t)  BY <1>9 DEF ReadBegin, accessVars, migVars
  <1>10. CASE MmapReadLock(t)  BY <1>10 DEF MmapReadLock, accessVars, faultVars, migVars
  <1>11. CASE Walk(t)  BY <1>11 DEF Walk, accessVars, migVars
  <1>12. CASE WalkBusy(t)  BY <1>12 DEF WalkBusy, accessVars, faultVars, migVars
  <1>13. CASE FaultFails(t)  BY <1>13 DEF FaultFails, Return, faultVars, migVars
  <1>14. CASE Retry(t)  BY <1>14 DEF Retry, accessVars, faultVars, migVars
  <1>15. CASE Commit(t)  BY <1>15 DEF Commit, Return, migVars
  <1>16. CASE Setup(t)  BY <1>16 DEF Setup, accessVars, faultVars
  <1>17. CASE SetupFails(t)  BY <1>17 DEF SetupFails, Return, faultVars, migVars
  <1>18. CASE Alloc(t)  BY <1>18 DEF Alloc, accessVars, faultVars
  <1>19. CASE CopyPages(t)  BY <1>19 DEF CopyPages, accessVars, faultVars, migVars
  <1>20. CASE MigratePages(t)  BY <1>20 DEF MigratePages, accessVars, faultVars
  <1>21. CASE MapPages(t)  BY <1>21 DEF MapPages, accessVars, faultVars, migVars
  <1>22. CASE Finalize(t)  BY <1>22 DEF Finalize, Return
  <1>23. CASE ExclusiveStart(t)  BY <1>23 DEF ExclusiveStart, accessVars, faultVars, migVars
  <1>24. CASE ExclusiveCall(t)  BY <1>24 DEF ExclusiveCall, accessVars, faultVars, migVars
  <1>25. CASE ExclusiveSet(t)  BY <1>25 DEF ExclusiveSet, accessVars
  <1>26. CASE ExclusiveSkip(t)  BY <1>26 DEF ExclusiveSkip, accessVars, migVars
  <1>27. CASE ExclusiveShort(t)  BY <1>27 DEF ExclusiveShort, Return, faultVars
  <1>28. CASE AtomicMap(t)  BY <1>28 DEF AtomicMap, Return
  <1>29. CASE dmirror_check_atomic(t)  BY <1>29 DEF dmirror_check_atomic, Return, migVars
  <1>30. CASE SnapshotInsert(t)  BY <1>30 DEF SnapshotInsert, Return, faultVars, migVars
  <1>31. CASE SnapshotBegin(t)  BY <1>31 DEF SnapshotBegin, accessVars, migVars
  <1>32. CASE SnapshotLock(t)  BY <1>32 DEF SnapshotLock, accessVars, faultVars, migVars
  <1>33. CASE SnapshotWalk(t)  BY <1>33 DEF SnapshotWalk, accessVars, migVars
  <1>34. CASE SnapshotRetry(t)  BY <1>34 DEF SnapshotRetry, accessVars, faultVars, migVars
  <1>35. CASE SnapshotCommit(t)  BY <1>35 DEF SnapshotCommit, accessVars, migVars
  <1>36. CASE SnapshotOut(t)  BY <1>36 DEF SnapshotOut, Return, migVars
  <1>37. CASE SnapshotNext(t)  BY <1>37 DEF SnapshotNext, Return, faultVars, migVars
  <1>38. CASE SnapshotFails(t)  BY <1>38 DEF SnapshotFails, Return, faultVars, migVars
  <1> QED
    BY StartEffect, <1>1, <1>2, <1>3, <1>4, <1>5, <1>6, <1>7, <1>8, <1>9, <1>10, <1>11, <1>12,
        <1>13, <1>14,
       <1>15, <1>16, <1>17, <1>18, <1>19, <1>20, <1>21, <1>22, <1>23, <1>24, <1>25, <1>26,
       <1>27, <1>28, <1>29, <1>30, <1>31, <1>32, <1>33, <1>34, <1>35, <1>36, <1>37, <1>38
       DEF Steps, Access, Fault, Migrate, Exclusive, Snapshot

\* The kernel changes none of them.
LEMMA KernelElsewhere ==
    ASSUME Kernel
    PROVE  UNCHANGED <<pc, cmd, cur, entry, addr, walk, pfns, perm, src, dst, sel>>
  BY DEF Kernel, Populate, CpuStore, InvalidateStart, InvalidateEnd, accessVars, faultVars,
      migVars

-----------------------------------------------------------------------------
(***************************************************************************)
(* Batches.                                                                *)
(***************************************************************************)
\* Every step keeps a thread inside its batch, and the batch inside its range.
LEMMA BatchStep == TypeOK /\ PcInv /\ BatchInv /\ [Next]_vars => BatchInv'
  <1> SUFFICES ASSUME TypeOK, PcInv, BatchInv, [Next]_vars PROVE BatchInv'  OBVIOUS
  <1>0. ASSUME NEW u \in Thread, Same(u) PROVE BatchOf(u)'
    BY <1>0 DEF Same, BatchInv, BatchOf, BatchRange, BatchEnd, Range, FaultPc, MigratePc,
        ExclusivePc, BatchPc
  <1> USE DEF BatchInv, BatchOf, BatchRange, BatchEnd, Range, FaultPc, MigratePc, ExclusivePc,
              BatchPc
  <1>a. ASSUME NEW t \in Thread
        PROVE  /\ addr[t] \in 1..(NPages + 1) /\ walk[t] \in 1..(NPages + 1)
               /\ cur[t] \in 1..(NPages + 1)
    BY DEF TypeOK
  <1>1. ASSUME NEW t \in Thread, NEW c \in Cmd, c.op \in OpOf[t], Start(t, c) PROVE BatchOf(t)'
    <2>1. /\ pc'[t] = FirstStep(c.op)
          /\ cmd'[t] = c
          /\ addr'[t] = c.lo
          /\ walk'[t] = c.lo
      BY <1>1 DEF Start, TypeOK, PcInv
    <2> QED  BY <2>1, <1>a, Running, MirrorAssumption, FirstSteps, Commands, <1>1 DEF Addr
  <1>2. ASSUME NEW t \in Thread, BounceInit(t) PROVE BatchOf(t)'
    <2>1. pc'[t] \in {"lock", "idle"}
      BY <1>2 DEF BounceInit, Return, faultVars, TypeOK, PcInv
    <2> QED  BY <2>1, <1>a, Running, MirrorAssumption DEF Addr
  <1>3. ASSUME NEW t \in Thread, MutexLock(t) PROVE BatchOf(t)'
    <2>1. pc'[t] = "load"
      BY <1>3 DEF MutexLock, accessVars, faultVars, TypeOK, PcInv
    <2> QED  BY <2>1, <1>a, Running, MirrorAssumption DEF Addr
  <1>4. ASSUME NEW t \in Thread, Load(t) PROVE BatchOf(t)'
    <2>1. /\ pc'[t] = "copy"
          /\ cmd'[t] = cmd[t] /\ cur'[t] = cur[t]
          /\ cur[t] \in Range(t)
          /\ entry'[t] = pt[cur[t]]
          /\ pt[cur[t]] # NoEntry
      BY <1>4 DEF Load, faultVars, Usable, TypeOK, PcInv
    <2> QED  BY <2>1, <1>a, Running, MirrorAssumption DEF Addr
  <1>5. ASSUME NEW t \in Thread, Copy(t) PROVE BatchOf(t)'
    <2>1. pc'[t] = "load"
      BY <1>5 DEF Copy, faultVars, Advance, TypeOK, PcInv
    <2> QED  BY <2>1, <1>a, Running, MirrorAssumption DEF Addr
  <1>6. ASSUME NEW t \in Thread, CopyOops(t) PROVE BatchOf(t)'
    <2>1. pc'[t] = "oops"
      BY <1>6 DEF CopyOops, accessVars, faultVars, TypeOK, PcInv
    <2> QED  BY <2>1, <1>a, Running, MirrorAssumption DEF Addr
  <1>7. ASSUME NEW t \in Thread, AccessDone(t) PROVE BatchOf(t)'
    <2>1. pc'[t] = "idle"
      BY <1>7 DEF AccessDone, Return, faultVars, TypeOK, PcInv
    <2> QED  BY <2>1, <1>a, Running, MirrorAssumption DEF Addr
  <1>8. ASSUME NEW t \in Thread, AccessMiss(t) PROVE BatchOf(t)'
    <2>1. /\ cur[t] \in Range(t)
          /\ pc[t] = "load"
          /\ \/ pc'[t] = "begin" /\ addr'[t] = cur[t] /\ cmd'[t] = cmd[t]
             \/ pc'[t] = "idle"
      BY <1>8 DEF AccessMiss, Return, Usable, TypeOK, PcInv
    <2> QED  BY <2>1, <1>a, Running, MirrorAssumption DEF Addr
  <1>9. ASSUME NEW t \in Thread, ReadBegin(t) PROVE BatchOf(t)'
    <2>1. /\ pc[t] = "begin"
          /\ pc'[t] = "mmap"
          /\ addr'[t] = addr[t] /\ cmd'[t] = cmd[t]
          /\ walk'[t] = addr[t]
      BY <1>9 DEF ReadBegin, accessVars, TypeOK, PcInv
    <2> QED  BY <2>1, <1>a, Running, MirrorAssumption DEF Addr
  <1>10. ASSUME NEW t \in Thread, MmapReadLock(t) PROVE BatchOf(t)'
    <2>1. /\ pc[t] = "mmap"
          /\ pc'[t] = "walk"
          /\ addr'[t] = addr[t] /\ walk'[t] = walk[t] /\ cmd'[t] = cmd[t]
      BY <1>10 DEF MmapReadLock, accessVars, faultVars, TypeOK, PcInv
    <2> QED  BY <2>1, <1>a, Running, MirrorAssumption DEF Addr
  <1>11. ASSUME NEW t \in Thread, Walk(t) PROVE BatchOf(t)'
    <2>1. /\ pc[t] = "walk"
          /\ pc'[t] = IF walk[t] = BatchEnd(t) THEN "commit" ELSE "walk"
          /\ addr'[t] = addr[t] /\ cmd'[t] = cmd[t]
          /\ walk'[t] = walk[t] + 1
      BY <1>11 DEF Walk, accessVars, TypeOK, PcInv
    <2> QED  BY <2>1, <1>a, Running, MirrorAssumption DEF Addr
  <1>12. ASSUME NEW t \in Thread, WalkBusy(t) PROVE BatchOf(t)'
    <2>1. /\ pc[t] = "walk"
          /\ pc'[t] = "begin"
          /\ addr'[t] = addr[t] /\ walk'[t] = walk[t] /\ cmd'[t] = cmd[t]
      BY <1>12 DEF WalkBusy, accessVars, faultVars, TypeOK, PcInv
    <2> QED  BY <2>1, <1>a, Running, MirrorAssumption DEF Addr
  <1>13. ASSUME NEW t \in Thread, FaultFails(t) PROVE BatchOf(t)'
    <2>1. pc'[t] = "idle"
      BY <1>13 DEF FaultFails, Return, faultVars, TypeOK, PcInv
    <2> QED  BY <2>1, <1>a, Running, MirrorAssumption DEF Addr
  <1>14. ASSUME NEW t \in Thread, Retry(t) PROVE BatchOf(t)'
    <2>1. /\ pc[t] = "commit"
          /\ pc'[t] = "begin"
          /\ addr'[t] = addr[t] /\ walk'[t] = walk[t] /\ cmd'[t] = cmd[t]
      BY <1>14 DEF Retry, accessVars, faultVars, TypeOK, PcInv
    <2> QED  BY <2>1, <1>a, Running, MirrorAssumption DEF Addr
  <1>15. ASSUME NEW t \in Thread, Commit(t) PROVE BatchOf(t)'
    <2>1. PICK stop \in addr[t]..(BatchEnd(t) + 1) :
            IF stop <= BatchEnd(t)
              THEN Return(t, "error")
              ELSE /\ addr' = [addr EXCEPT ![t] = stop]
                   /\ pc' = [pc EXCEPT ![t] = IF stop > cmd[t].hi THEN "lock" ELSE "begin"]
                   /\ UNCHANGED cmd
      BY <1>15 DEF Commit
    <2>2. pc[t] = "commit" /\ pc \in [Thread -> Pcs] /\ addr \in [Thread -> 1..(NPages + 1)]
      BY <1>15 DEF Commit, PcInv, TypeOK
    <2>3. CASE stop <= BatchEnd(t)  BY <2>1, <2>2, <2>3 DEF Return
    <2>4. CASE ~(stop <= BatchEnd(t))
      <3>1. stop = BatchEnd(t) + 1  BY <2>2, <2>4, <1>a, Running, MirrorAssumption DEF Addr
      <3>2. /\ addr'[t] = stop /\ cmd'[t] = cmd[t]
            /\ pc'[t] = IF stop > cmd[t].hi THEN "lock" ELSE "begin"
        BY <2>1, <2>2, <2>4
      <3> QED  BY <2>2, <3>1, <3>2, <1>a, Running, MirrorAssumption DEF Addr
    <2> QED  BY <2>3, <2>4
  <1>16. ASSUME NEW t \in Thread, Setup(t) PROVE BatchOf(t)'
    <2>1. /\ pc[t] \in {"setup", "more"}
          /\ pc'[t] = "alloc"
          /\ addr'[t] = addr[t] /\ walk'[t] = walk[t] /\ cmd'[t] = cmd[t]
      BY <1>16 DEF Setup, accessVars, faultVars, TypeOK, PcInv
    <2> QED  BY <2>1, <1>a, Running, MirrorAssumption DEF Addr
  <1>17. ASSUME NEW t \in Thread, SetupFails(t) PROVE BatchOf(t)'
    <2>1. pc'[t] = "idle"
      BY <1>17 DEF SetupFails, Return, faultVars, TypeOK, PcInv
    <2> QED  BY <2>1, <1>a, Running, MirrorAssumption DEF Addr
  <1>18. ASSUME NEW t \in Thread, Alloc(t) PROVE BatchOf(t)'
    <2>1. /\ pc[t] = "alloc"
          /\ pc'[t] = "copy_to"
          /\ addr'[t] = addr[t] /\ walk'[t] = walk[t] /\ cmd'[t] = cmd[t]
      BY <1>18 DEF Alloc, accessVars, faultVars, TypeOK, PcInv
    <2> QED  BY <2>1, <1>a, Running, MirrorAssumption DEF Addr
  <1>19. ASSUME NEW t \in Thread, CopyPages(t) PROVE BatchOf(t)'
    <2>1. /\ pc[t] = "copy_to"
          /\ pc'[t] = "pages"
          /\ addr'[t] = addr[t] /\ walk'[t] = walk[t] /\ cmd'[t] = cmd[t]
      BY <1>19 DEF CopyPages, accessVars, faultVars, TypeOK, PcInv
    <2> QED  BY <2>1, <1>a, Running, MirrorAssumption DEF Addr
  <1>20. ASSUME NEW t \in Thread, MigratePages(t) PROVE BatchOf(t)'
    <2>1. /\ pc[t] = "pages"
          /\ pc'[t] \in {"map", "finalize"}
          /\ addr'[t] = addr[t] /\ walk'[t] = walk[t] /\ cmd'[t] = cmd[t]
      BY <1>20 DEF MigratePages, accessVars, faultVars, TypeOK, PcInv
    <2> QED  BY <2>1, <1>a, Running, MirrorAssumption DEF Addr
  <1>21. ASSUME NEW t \in Thread, MapPages(t) PROVE BatchOf(t)'
    <2>1. /\ pc[t] = "map"
          /\ pc'[t] = "finalize"
          /\ addr'[t] = addr[t] /\ walk'[t] = walk[t] /\ cmd'[t] = cmd[t]
      BY <1>21 DEF MapPages, accessVars, faultVars, TypeOK, PcInv
    <2> QED  BY <2>1, <1>a, Running, MirrorAssumption DEF Addr
  <1>22. ASSUME NEW t \in Thread, Finalize(t) PROVE BatchOf(t)'
    <2>1. /\ pc[t] = "finalize"
          /\ addr'[t] = BatchEnd(t) + 1
          /\ \/ pc'[t] \in {"idle", "bounce"}
             \/ BatchEnd(t) < cmd[t].hi /\ pc'[t] = "more" /\ cmd'[t] = cmd[t]
      BY <1>22 DEF Finalize, Return, TypeOK, PcInv
    <2> QED  BY <2>1, <1>a, Running, MirrorAssumption DEF Addr
  <1>23. ASSUME NEW t \in Thread, ExclusiveStart(t) PROVE BatchOf(t)'
    <2>1. /\ pc[t] = "xstart"
          /\ pc'[t] = "xcall"
          /\ addr'[t] = addr[t] /\ walk'[t] = walk[t] /\ cmd'[t] = cmd[t]
      BY <1>23 DEF ExclusiveStart, accessVars, faultVars, TypeOK, PcInv
    <2> QED  BY <2>1, <1>a, Running, MirrorAssumption DEF Addr
  <1>24. ASSUME NEW t \in Thread, ExclusiveCall(t) PROVE BatchOf(t)'
    <2>1. /\ pc[t] = "xcall"
          /\ pc'[t] = "xset"
          /\ walk[t] <= BatchEnd(t)
          /\ addr'[t] = addr[t] /\ walk'[t] = walk[t] /\ cmd'[t] = cmd[t]
      BY <1>24 DEF ExclusiveCall, accessVars, faultVars, TypeOK, PcInv
    <2> QED  BY <2>1, <1>a, Running, MirrorAssumption DEF Addr
  <1>25. ASSUME NEW t \in Thread, ExclusiveSet(t) PROVE BatchOf(t)'
    <2>1. /\ pc[t] = "xset"
          /\ pc'[t] = "xcall"
          /\ walk'[t] = walk[t] + 1
          /\ addr'[t] = addr[t] /\ cmd'[t] = cmd[t]
      BY <1>25 DEF ExclusiveSet, accessVars, TypeOK, PcInv
    <2> QED  BY <2>1, <1>a, Running, MirrorAssumption DEF Addr
  <1>26. ASSUME NEW t \in Thread, ExclusiveSkip(t) PROVE BatchOf(t)'
    <2>1. /\ pc[t] = "xcall"
          /\ pc'[t] = "xcall"
          /\ walk[t] <= BatchEnd(t)
          /\ walk'[t] = walk[t] + 1
          /\ addr'[t] = addr[t] /\ cmd'[t] = cmd[t]
      BY <1>26 DEF ExclusiveSkip, accessVars, TypeOK, PcInv
    <2> QED  BY <2>1, <1>a, Running, MirrorAssumption DEF Addr
  <1>27. ASSUME NEW t \in Thread, ExclusiveShort(t) PROVE BatchOf(t)'
    <2>1. pc'[t] = "idle"
      BY <1>27 DEF ExclusiveShort, Return, faultVars, TypeOK, PcInv
    <2> QED  BY <2>1, <1>a, Running, MirrorAssumption DEF Addr
  <1>28. ASSUME NEW t \in Thread, AtomicMap(t) PROVE BatchOf(t)'
    <2>1. /\ pc[t] = "xcall"
          /\ walk[t] > BatchEnd(t)
          /\ \/ pc'[t] \in {"idle", "bounce"}
             \/ /\ addr'[t] = BatchEnd(t) + 1 /\ BatchEnd(t) < cmd[t].hi
                /\ pc'[t] = "xcall" /\ walk'[t] = walk[t] /\ cmd'[t] = cmd[t]
      BY <1>28 DEF AtomicMap, Return, TypeOK, PcInv
    <2> QED  BY <2>1, <1>a, Running, MirrorAssumption DEF Addr
  <1>29. ASSUME NEW t \in Thread, dmirror_check_atomic(t) PROVE BatchOf(t)'
    <2>1. /\ pc[t] = "check"
          /\ \/ pc'[t] = "idle"
             \/ /\ walk'[t] = walk[t] + 1 /\ walk[t] < cmd[t].hi /\ cmd'[t] = cmd[t]
                /\ pc'[t] = "check"
      BY <1>29 DEF dmirror_check_atomic, Return, TypeOK, PcInv
    <2> QED  BY <2>1, <1>a, Running, MirrorAssumption DEF Addr
  <1>30. ASSUME NEW t \in Thread, SnapshotInsert(t) PROVE BatchOf(t)'
    <2>1. /\ pc[t] = "sinsert"
          /\ \/ pc'[t] = "idle"
             \/ pc'[t] = "sbegin" /\ addr'[t] = addr[t] /\ walk'[t] = walk[t] /\ cmd'[t] = cmd[t]
      BY <1>30 DEF SnapshotInsert, Return, faultVars, TypeOK, PcInv
    <2> QED  BY <2>1, <1>a, Running, MirrorAssumption DEF Addr
  <1>31. ASSUME NEW t \in Thread, SnapshotBegin(t) PROVE BatchOf(t)'
    <2>1. /\ pc[t] = "sbegin"
          /\ pc'[t] = "smmap"
          /\ addr'[t] = addr[t] /\ cmd'[t] = cmd[t]
          /\ walk'[t] = addr[t]
      BY <1>31 DEF SnapshotBegin, accessVars, TypeOK, PcInv
    <2> QED  BY <2>1, <1>a, Running, MirrorAssumption DEF Addr
  <1>32. ASSUME NEW t \in Thread, SnapshotLock(t) PROVE BatchOf(t)'
    <2>1. /\ pc[t] = "smmap"
          /\ pc'[t] = "swalk"
          /\ addr'[t] = addr[t] /\ walk'[t] = walk[t] /\ cmd'[t] = cmd[t]
      BY <1>32 DEF SnapshotLock, accessVars, faultVars, TypeOK, PcInv
    <2> QED  BY <2>1, <1>a, Running, MirrorAssumption DEF Addr
  <1>33. ASSUME NEW t \in Thread, SnapshotWalk(t) PROVE BatchOf(t)'
    <2>1. /\ pc[t] = "swalk"
          /\ pc'[t] = IF walk[t] = BatchEnd(t) THEN "scommit" ELSE "swalk"
          /\ addr'[t] = addr[t] /\ cmd'[t] = cmd[t]
          /\ walk'[t] = walk[t] + 1
      BY <1>33 DEF SnapshotWalk, accessVars, TypeOK, PcInv
    <2> QED  BY <2>1, <1>a, Running, MirrorAssumption DEF Addr
  <1>34. ASSUME NEW t \in Thread, SnapshotRetry(t) PROVE BatchOf(t)'
    <2>1. /\ pc[t] \in {"swalk", "scommit"}
          /\ pc'[t] = "sbegin"
          /\ addr'[t] = addr[t] /\ walk'[t] = walk[t] /\ cmd'[t] = cmd[t]
      BY <1>34 DEF SnapshotRetry, accessVars, faultVars, TypeOK, PcInv
    <2> QED  BY <2>1, <1>a, Running, MirrorAssumption DEF Addr
  <1>35. ASSUME NEW t \in Thread, SnapshotCommit(t) PROVE BatchOf(t)'
    <2>1. /\ pc[t] = "scommit"
          /\ pc'[t] = "sout"
          /\ addr'[t] = addr[t] /\ walk'[t] = walk[t] /\ cmd'[t] = cmd[t]
      BY <1>35 DEF SnapshotCommit, accessVars, TypeOK, PcInv
    <2> QED  BY <2>1, <1>a, Running, MirrorAssumption DEF Addr
  <1>36. ASSUME NEW t \in Thread, SnapshotOut(t) PROVE BatchOf(t)'
    <2>1. /\ pc[t] = "sout"
          /\ pc'[t] \in {"idle", "snext"}
      BY <1>36 DEF SnapshotOut, Return, TypeOK, PcInv
    <2> QED  BY <2>1, <1>a, Running, MirrorAssumption DEF Addr
  <1>37. ASSUME NEW t \in Thread, SnapshotNext(t) PROVE BatchOf(t)'
    <2>1. /\ pc[t] = "snext"
          /\ \/ pc'[t] = "idle"
             \/ /\ pc'[t] = "sinsert" /\ addr[t] <= cmd[t].hi /\ addr'[t] = addr[t]
                /\ cmd'[t] = cmd[t]
      BY <1>37 DEF SnapshotNext, Return, faultVars, TypeOK, PcInv
    <2> QED  BY <2>1, <1>a, Running, MirrorAssumption DEF Addr
  <1>38. ASSUME NEW t \in Thread, SnapshotFails(t) PROVE BatchOf(t)'
    <2>1. CASE pc'[t] = "idle"  BY <2>1, <1>a, Running, MirrorAssumption DEF Addr
    <2>2. CASE pc'[t] # "idle"
      <3>1. /\ pc[t] = "swalk"
            /\ pc'[t] = "sfail"
            /\ addr'[t] = addr[t] /\ walk'[t] = walk[t] /\ cmd'[t] = cmd[t]
        BY <1>38, <2>2 DEF SnapshotFails, Return, faultVars, TypeOK, PcInv
      <3> QED  BY <3>1, <1>a, Running, MirrorAssumption DEF Addr
    <2> QED  BY <2>1, <2>2
  <1>39. ASSUME NEW t \in Thread, Steps(t) PROVE BatchOf(t)'
    BY ZenonT(40), StartEffect, <1>39, <1>1, <1>2, <1>3, <1>4, <1>5, <1>6, <1>7, <1>8, <1>9, <1>10, <1>11,
        <1>12, <1>13,
       <1>14, <1>15, <1>16, <1>17, <1>18, <1>19, <1>20, <1>21, <1>22, <1>23, <1>24, <1>25,
       <1>26, <1>27, <1>28, <1>29, <1>30, <1>31, <1>32, <1>33, <1>34, <1>35, <1>36, <1>37, <1>38
       DEF Steps, Access, Fault, Migrate, Exclusive, Snapshot
  <1>40. ASSUME NEW t \in Thread, Steps(t) PROVE BatchInv'  BY <1>0, <1>39, <1>40, Elsewhere
  <1>41. CASE Kernel
    BY <1>0, <1>41, KernelElsewhere DEF Same
  <1>42. CASE UNCHANGED vars
    BY <1>0, <1>42 DEF Same, vars, accessVars, faultVars, migVars
  <1> QED  BY <1>40, <1>41, <1>42 DEF Next, Steps

-----------------------------------------------------------------------------
(***************************************************************************)
(* Frames.                                                                 *)
(***************************************************************************)
\* Records of the page table.
LEMMA PteRecords ==
    ASSUME NEW p \in Pte, NEW k, NEW f, NEW w
    PROVE  /\ Is([p EXCEPT !.kind = k], k, p.frame, p.write)
           /\ Is([p EXCEPT !.write = w], p.kind, p.frame, w)
           /\ Is([p EXCEPT !.frame = f, !.write = w], p.kind, f, w)
           /\ Is([p EXCEPT !.kind = k, !.frame = f], k, f, p.write)
  BY DEF Pte, Is

\* An invalidation notes the page's entry.
LEMMA StartInvalidation ==
    ASSUME TypeOK, NEW i \in Invalidator, InvalidateStart(i)
    PROVE  \E ev \in Event, a \in Addr :
             /\ Eligible(ev, a) /\ mutex = Nobody
             /\ inval[i] = NoCmd /\ UNCHANGED <<cpu, data>>
             /\ inval'[i] = [ev |-> ev, addr |-> a, pte |-> cpu[a]] /\ inval'[i] \in Change
             /\ \A j \in Invalidator \ {i} : inval'[j] = inval[j]
             /\ dmirror_interval_invalidate(i, a)
  <1>1. PICK ev \in Event, a \in Addr :
             /\ Eligible(ev, a)
             /\ inval' = [inval EXCEPT ![i] = [ev |-> ev, addr |-> a, pte |-> cpu[a]]]
             /\ dmirror_interval_invalidate(i, a)
    BY DEF InvalidateStart
  <1>2. [ev |-> ev, addr |-> a, pte |-> cpu[a]] \in Change  BY DEF Change, TypeOK
  <1>3. /\ inval'[i] = [ev |-> ev, addr |-> a, pte |-> cpu[a]]
        /\ \A j \in Invalidator \ {i} : inval'[j] = inval[j]
    BY <1>1 DEF TypeOK
  <1>4. inval[i] = NoCmd /\ UNCHANGED <<cpu, data>> /\ mutex = Nobody
    BY <1>1 DEF InvalidateStart, dmirror_interval_invalidate
  <1> QED  BY <1>1, <1>2, <1>3, <1>4

\* The end of an invalidation changes the entry of its page, if it is what it was.
LEMMA EndInvalidation ==
    ASSUME TypeOK, NEW i \in Invalidator, InvalidateEnd(i)
    PROVE  /\ inval[i] # NoCmd /\ inval[i] \in Change /\ Page(i) \in Addr /\ cpu[Page(i)] \in Pte
           /\ inval'[i] = NoCmd /\ \A j \in Invalidator \ {i} : inval'[j] = inval[j]
           /\ \A b \in Addr \ {Page(i)} : cpu'[b] = cpu[b]
           /\ \/ /\ inval[i].ev # "discard" /\ cpu[Page(i)] # inval[i].pte
                 /\ UNCHANGED <<cpu, data, stores>>
              \/ /\ inval[i].ev \in {"move", "cow"} /\ cpu[Page(i)] = inval[i].pte
                 /\ UNCHANGED stores
                 /\ \E f \in FreeFrames :
                      /\ data' = [data EXCEPT ![f] = data[cpu[Page(i)].frame]]
                      /\ Is(cpu'[Page(i)], cpu[Page(i)].kind, f,
                            inval[i].ev = "cow" \/ cpu[Page(i)].write)
              \/ /\ inval[i].ev = "protect" /\ cpu[Page(i)] = inval[i].pte
                 /\ UNCHANGED <<data, stores>>
                 /\ Is(cpu'[Page(i)], cpu[Page(i)].kind, cpu[Page(i)].frame, FALSE)
              \/ /\ inval[i].ev = "restore" /\ cpu[Page(i)] = inval[i].pte
                 /\ UNCHANGED <<data, stores>>
                 /\ Is(cpu'[Page(i)], "sys", cpu[Page(i)].frame, cpu[Page(i)].write)
              \/ /\ inval[i].ev = "discard" /\ UNCHANGED data /\ stores' = stores + 1
                 /\ cpu'[Page(i)] = None
  <1> DEFINE a == Page(i)
              ev == inval[i].ev
  <1>1. inval[i] # NoCmd /\ inval[i] \in Change  BY DEF InvalidateEnd, TypeOK
  <1>2. a \in Addr /\ cpu \in [Addr -> Pte] /\ cpu[a] \in Pte  BY <1>1 DEF Change, TypeOK, Page
  <1>3. inval'[i] = NoCmd /\ \A j \in Invalidator \ {i} : inval'[j] = inval[j]
    BY DEF InvalidateEnd, TypeOK
  <1>4. CASE ev # "discard" /\ cpu[a] # inval[i].pte /\ UNCHANGED <<cpu, data, stores>>
    BY <1>1, <1>2, <1>3, <1>4
  <1>5. ASSUME ev \in {"move", "cow"}, cpu[a] = inval[i].pte, UNCHANGED stores,
               NEW f \in FreeFrames, data' = [data EXCEPT ![f] = data[cpu[a].frame]],
               cpu' = [cpu EXCEPT ![a].frame = f, ![a].write = (ev = "cow" \/ @)]
        PROVE  /\ \A b \in Addr \ {a} : cpu'[b] = cpu[b]
               /\ Is(cpu'[a], cpu[a].kind, f, ev = "cow" \/ cpu[a].write)
    <2>1. \A b \in Addr \ {a} : cpu'[b] = cpu[b]  BY <1>2, <1>5
    <2>2. cpu'[a] = [cpu[a] EXCEPT !.frame = f, !.write = (ev = "cow" \/ cpu[a].write)]
      BY <1>2, <1>5 DEF Pte
    <2> QED  BY <1>2, <2>1, <2>2 DEF Pte, Is
  <1>6. ASSUME ev = "protect", cpu' = [cpu EXCEPT ![a].write = FALSE]
        PROVE  /\ \A b \in Addr \ {a} : cpu'[b] = cpu[b]
               /\ Is(cpu'[a], cpu[a].kind, cpu[a].frame, FALSE)
    <2>1. \A b \in Addr \ {a} : cpu'[b] = cpu[b]  BY <1>2, <1>6
    <2>2. cpu'[a] = [cpu[a] EXCEPT !.write = FALSE]  BY <1>2, <1>6
    <2> QED  BY <1>2, <2>1, <2>2 DEF Pte, Is
  <1>7. ASSUME ev = "restore", cpu' = [cpu EXCEPT ![a].kind = "sys"]
        PROVE  /\ \A b \in Addr \ {a} : cpu'[b] = cpu[b]
               /\ Is(cpu'[a], "sys", cpu[a].frame, cpu[a].write)
    <2>1. \A b \in Addr \ {a} : cpu'[b] = cpu[b]  BY <1>2, <1>7
    <2>2. cpu'[a] = [cpu[a] EXCEPT !.kind = "sys"]  BY <1>2, <1>7
    <2> QED  BY <1>2, <2>1, <2>2 DEF Pte, Is
  <1>8. ASSUME ev = "discard", cpu' = [cpu EXCEPT ![a] = None]
        PROVE  (\A b \in Addr \ {a} : cpu'[b] = cpu[b]) /\ cpu'[a] = None
    BY <1>2, <1>8
  <1> QED  BY <1>1, <1>2, <1>3, <1>4, <1>5, <1>6, <1>7, <1>8 DEF InvalidateEnd, Page

\* migrate_vma_setup() turns the entries of the pages it takes into migration entries.
LEMMA SetupEffect ==
    ASSUME TypeOK, NEW t \in Thread, Setup(t)
    PROVE  \E S \in SUBSET BatchRange(t) :
             /\ \A a \in S : Isolatable(t, a)
             /\ sel'[t] = S
             /\ \A a \in Addr : src'[t][a] = IF a \in S THEN cpu[a].frame ELSE NoFrame
             /\ \A a \in Addr :
                  IF a \in S /\ cpu[a] # None
                    THEN Is(cpu'[a], IF Outbound(t) THEN "migsys" ELSE "migdev",
                            cpu[a].frame, cpu[a].write)
                    ELSE cpu'[a] = cpu[a]
  <1>1. PICK S \in SUBSET {a \in BatchRange(t) : Isolatable(t, a)} :
             /\ sel' = [sel EXCEPT ![t] = S]
             /\ src' = [src EXCEPT ![t] = [a \in Addr |-> IF a \in S THEN cpu[a].frame ELSE NoFrame]]
             /\ cpu' = [a \in Addr |->
                          IF a \in S /\ cpu[a] # None
                            THEN [cpu[a] EXCEPT !.kind = IF Outbound(t) THEN "migsys" ELSE "migdev"]
                            ELSE cpu[a]]
    BY DEF Setup
  <1>2. sel'[t] = S /\ src'[t] = [a \in Addr |-> IF a \in S THEN cpu[a].frame ELSE NoFrame]
    BY <1>1 DEF TypeOK
  <1>3. ASSUME NEW a \in Addr
        PROVE  IF a \in S /\ cpu[a] # None
                 THEN Is(cpu'[a], IF Outbound(t) THEN "migsys" ELSE "migdev",
                         cpu[a].frame, cpu[a].write)
                 ELSE cpu'[a] = cpu[a]
    <2>1. cpu[a] \in Pte  BY DEF TypeOK
    <2> QED  BY <1>1, <2>1, PteRecords
  <1> QED  BY <1>1, <1>2, <1>3

\* migrate_vma_pages() inserts the pages that did not exist.
LEMMA PagesEffect ==
    ASSUME TypeOK, NEW t \in Thread, MigratePages(t)
    PROVE  \E S \in SUBSET {a \in sel[t] : dst[t][a] # NoFrame} :
             /\ \A a \in S : src[t][a] = NoFrame => cpu[a] = None
             /\ sel'[t] = S /\ UNCHANGED <<src, dst>>
             /\ \A a \in Addr :
                  IF a \in S /\ src[t][a] = NoFrame
                    THEN Is(cpu'[a], "dev", dst[t][a], TRUE) ELSE cpu'[a] = cpu[a]
  <1>1. PICK S \in SUBSET {a \in sel[t] : dst[t][a] # NoFrame} :
             /\ \A a \in S : src[t][a] = NoFrame => cpu[a] = None
             /\ sel' = [sel EXCEPT ![t] = S]
             /\ cpu' = [a \in Addr |->
                          IF a \in S /\ src[t][a] = NoFrame
                            THEN DevPte(dst[t][a], TRUE) ELSE cpu[a]]
    BY DEF MigratePages
  <1>2. sel'[t] = S /\ UNCHANGED <<src, dst>>  BY <1>1 DEF MigratePages, TypeOK
  <1>3. \A a \in Addr :
          IF a \in S /\ src[t][a] = NoFrame
            THEN Is(cpu'[a], "dev", dst[t][a], TRUE) ELSE cpu'[a] = cpu[a]
    BY <1>1 DEF DevPte, Is
  <1> QED  BY <1>1, <1>2, <1>3

\* migrate_vma_finalize() replaces the thread's migration entries.
LEMMA FinalizeEffect ==
    ASSUME TypeOK, NEW t \in Thread, Finalize(t), NEW a \in Addr
    PROVE  IF cpu[a].kind \in {"migsys", "migdev"} /\ src[t][a] = cpu[a].frame
             THEN IF a \in sel[t]
                    THEN Is(cpu'[a], IF Outbound(t) THEN "dev" ELSE "sys", dst[t][a], cpu[a].write)
                    ELSE Is(cpu'[a], IF Outbound(t) THEN "sys" ELSE "dev",
                            cpu[a].frame, cpu[a].write)
             ELSE cpu'[a] = cpu[a]
  <1>1. cpu[a] \in Pte  BY DEF TypeOK
  <1>2. cpu'[a] = IF cpu[a].kind \in {"migsys", "migdev"} /\ src[t][a] = cpu[a].frame
                    THEN Finalized(t, a) ELSE cpu[a]
    BY DEF Finalize
  <1> QED  BY <1>1, <1>2 DEF Finalized, Pte, Is

\* make_device_exclusive_range() shuts the CPU out of a page, if it still is a writable one.
LEMMA ExclusiveEffect ==
    ASSUME TypeOK, NEW t \in Thread, ExclusiveSet(t), walk[t] \in Addr, NEW a \in Addr
    PROVE  /\ IF a = walk[t] /\ cpu[a].kind = "sys" /\ cpu[a].write
                THEN Is(cpu'[a], "excl", cpu[a].frame, TRUE) ELSE cpu'[a] = cpu[a]
           /\ dst'[t][a] = IF a = walk[t] /\ cpu[a].kind = "sys" /\ cpu[a].write
                             THEN cpu[a].frame ELSE dst[t][a]
  <1> DEFINE w == walk[t]
  <1>1. /\ cpu \in [Addr -> Pte] /\ cpu[a] \in Pte /\ cpu[w] \in Pte
        /\ dst \in [Thread -> [Addr -> Frame \cup {NoFrame}]]
    BY DEF TypeOK
  <1>2. CASE cpu[w].kind = "sys" /\ cpu[w].write
    <2>1. cpu' = [cpu EXCEPT ![w].kind = "excl"] /\ dst' = [dst EXCEPT ![t][w] = cpu[w].frame]
      BY <1>2 DEF ExclusiveSet
    <2>2. cpu'[w] = [cpu[w] EXCEPT !.kind = "excl"] /\ dst'[t][w] = cpu[w].frame  BY <1>1, <2>1
    <2>3. a # w => cpu'[a] = cpu[a] /\ dst'[t][a] = dst[t][a]  BY <1>1, <2>1
    <2>4. cpu[w].write = TRUE  BY <1>1, <1>2 DEF Pte
    <2>5. Is(cpu'[w], "excl", cpu[w].frame, TRUE)
      BY <1>1, <2>2, <2>4 DEF Pte, Is
    <2> QED  BY <1>2, <2>2, <2>3, <2>5
  <1>3. CASE ~(cpu[w].kind = "sys" /\ cpu[w].write)  BY <1>3 DEF ExclusiveSet
  <1> QED  BY <1>2, <1>3

\* What a walk has found, and what a migration will put in place, are frames.
LEMMA FramesStep ==
    TypeOK /\ PcInv /\ BatchInv /\ CpuInv /\ FramesInv /\ [Next]_vars => FramesInv'
  <1> SUFFICES ASSUME TypeOK, PcInv, BatchInv, CpuInv, FramesInv, [Next]_vars
        PROVE  FramesInv'  OBVIOUS
  <1>0. ASSUME NEW u \in Thread, Same(u) PROVE FramesOf(u)'
    BY <1>0 DEF Same, FramesInv, FramesOf, BatchRange, BatchEnd
  <1> USE DEF FramesInv, FramesOf
  <1>1. ASSUME NEW t \in Thread, NEW c \in Cmd, c.op \in OpOf[t], Start(t, c) PROVE FramesOf(t)'
    <2>1. pc'[t] = FirstStep(c.op)  BY <1>1 DEF Start, PcInv
    <2> QED  BY <1>1, <2>1, FirstSteps
  <1>2. ASSUME NEW t \in Thread, BounceInit(t) PROVE FramesOf(t)'
    <2>1. pc'[t] \notin {"walk", "commit", "map", "finalize"}
      BY <1>2 DEF BounceInit, Return, faultVars, TypeOK, PcInv
    <2> QED  BY <2>1
  <1>3. ASSUME NEW t \in Thread, MutexLock(t) PROVE FramesOf(t)'
    <2>1. pc'[t] \notin {"walk", "commit", "map", "finalize"}
      BY <1>3 DEF MutexLock, accessVars, faultVars, TypeOK, PcInv
    <2> QED  BY <2>1
  <1>4. ASSUME NEW t \in Thread, Load(t) PROVE FramesOf(t)'
    <2>1. pc'[t] \notin {"walk", "commit", "map", "finalize"}
      BY <1>4 DEF Load, faultVars, Usable, TypeOK, PcInv
    <2> QED  BY <2>1
  <1>5. ASSUME NEW t \in Thread, Copy(t) PROVE FramesOf(t)'
    <2>1. pc'[t] \notin {"walk", "commit", "map", "finalize"}
      BY <1>5 DEF Copy, faultVars, Advance, TypeOK, PcInv
    <2> QED  BY <2>1
  <1>6. ASSUME NEW t \in Thread, CopyOops(t) PROVE FramesOf(t)'
    <2>1. pc'[t] \notin {"walk", "commit", "map", "finalize"}
      BY <1>6 DEF CopyOops, accessVars, faultVars, TypeOK, PcInv
    <2> QED  BY <2>1
  <1>7. ASSUME NEW t \in Thread, AccessDone(t) PROVE FramesOf(t)'
    <2>1. pc'[t] \notin {"walk", "commit", "map", "finalize"}
      BY <1>7 DEF AccessDone, Return, faultVars, TypeOK, PcInv
    <2> QED  BY <2>1
  <1>8. ASSUME NEW t \in Thread, AccessMiss(t) PROVE FramesOf(t)'
    <2>1. pc'[t] \notin {"walk", "commit", "map", "finalize"}
      BY <1>8 DEF AccessMiss, Return, Usable, TypeOK, PcInv
    <2> QED  BY <2>1
  <1>9. ASSUME NEW t \in Thread, ReadBegin(t) PROVE FramesOf(t)'
    <2>1. pc'[t] \notin {"walk", "commit", "map", "finalize"}
      BY <1>9 DEF ReadBegin, accessVars, TypeOK, PcInv
    <2> QED  BY <2>1
  <1>10. ASSUME NEW t \in Thread, MmapReadLock(t) PROVE FramesOf(t)'
    <2>1. pc[t] = "mmap" /\ pc'[t] = "walk" /\ UNCHANGED <<addr, walk, cmd, pfns>>
      BY <1>10 DEF MmapReadLock, accessVars, faultVars, PcInv
    <2>2. walk[t] = addr[t] /\ addr[t] \in Int  BY <2>1 DEF BatchInv, BatchOf, TypeOK
    <2> QED  BY <2>1, <2>2, Batches DEF Addr, FaultPc, BatchRange
  <1>11. ASSUME NEW t \in Thread, Walk(t) PROVE FramesOf(t)'
    <2>1. /\ pc[t] = "walk" /\ pc'[t] \in {"walk", "commit"} /\ UNCHANGED <<addr, cmd>>
          /\ walk'[t] = walk[t] + 1 /\ walk[t] \in Addr /\ cpu[walk[t]].kind \in {"sys", "dev"}
      BY <1>11, Batches DEF Walk, accessVars, PcInv, TypeOK, BatchInv, BatchOf, FaultPc
    <2>2. pfns'[t][walk[t]].frame # NoFrame  BY <1>11, <2>1 DEF Walk, TypeOK, CpuInv, Proper
    <2>3. ASSUME NEW a \in Addr, a # walk[t] PROVE pfns'[t][a] = pfns[t][a]
      BY <1>11, <2>3 DEF Walk, TypeOK
    <2>4. ASSUME NEW a \in BatchRange(t), a < walk[t] + 1 PROVE pfns'[t][a].frame # NoFrame
      <3>1. a \in Addr /\ (a < walk[t] \/ a = walk[t])  BY <2>1, <2>4, Batches DEF Addr, FaultPc
      <3> QED  BY <2>1, <2>2, <2>3, <2>4, <3>1
    <2>5. BatchRange(t)' = BatchRange(t)  BY <2>1 DEF BatchRange, BatchEnd
    <2> QED  BY <2>1, <2>4, <2>5
  <1>12. ASSUME NEW t \in Thread, WalkBusy(t) PROVE FramesOf(t)'
    <2>1. pc'[t] \notin {"walk", "commit", "map", "finalize"}
      BY <1>12 DEF WalkBusy, accessVars, faultVars, TypeOK, PcInv
    <2> QED  BY <2>1
  <1>13. ASSUME NEW t \in Thread, FaultFails(t) PROVE FramesOf(t)'
    <2>1. pc'[t] \notin {"walk", "commit", "map", "finalize"}
      BY <1>13 DEF FaultFails, Return, faultVars, TypeOK, PcInv
    <2> QED  BY <2>1
  <1>14. ASSUME NEW t \in Thread, Retry(t) PROVE FramesOf(t)'
    <2>1. pc'[t] \notin {"walk", "commit", "map", "finalize"}
      BY <1>14 DEF Retry, accessVars, faultVars, TypeOK, PcInv
    <2> QED  BY <2>1
  <1>15. ASSUME NEW t \in Thread, Commit(t) PROVE FramesOf(t)'
    <2>1. pc'[t] \notin {"walk", "commit", "map", "finalize"}
      BY <1>15 DEF Commit, Return, dmirror_do_fault, TypeOK, PcInv
    <2> QED  BY <2>1
  <1>16. ASSUME NEW t \in Thread, Setup(t) PROVE FramesOf(t)'
    <2>1. pc'[t] \notin {"walk", "commit", "map", "finalize"}
      BY <1>16 DEF Setup, accessVars, faultVars, TypeOK, PcInv
    <2> QED  BY <2>1
  <1>17. ASSUME NEW t \in Thread, SetupFails(t) PROVE FramesOf(t)'
    <2>1. pc'[t] \notin {"walk", "commit", "map", "finalize"}
      BY <1>17 DEF SetupFails, Return, faultVars, TypeOK, PcInv
    <2> QED  BY <2>1
  <1>18. ASSUME NEW t \in Thread, Alloc(t) PROVE FramesOf(t)'
    <2>1. pc'[t] \notin {"walk", "commit", "map", "finalize"}
      BY <1>18 DEF Alloc, accessVars, faultVars, TypeOK, PcInv
    <2> QED  BY <2>1
  <1>19. ASSUME NEW t \in Thread, CopyPages(t) PROVE FramesOf(t)'
    <2>1. pc'[t] \notin {"walk", "commit", "map", "finalize"}
      BY <1>19 DEF CopyPages, accessVars, faultVars, TypeOK, PcInv
    <2> QED  BY <2>1
  <1>20. ASSUME NEW t \in Thread, MigratePages(t) PROVE FramesOf(t)'
    <2>1. PICK S \in SUBSET {a \in sel[t] : dst[t][a] # NoFrame} : sel' = [sel EXCEPT ![t] = S]
      BY <1>20 DEF MigratePages
    <2>2. dst' = dst /\ sel'[t] = S /\ pc'[t] \in {"map", "finalize"}
      BY <1>20, <2>1 DEF MigratePages, TypeOK, PcInv
    <2> QED  BY <2>1, <2>2
  <1>21. ASSUME NEW t \in Thread, MapPages(t) PROVE FramesOf(t)'
    <2>1. pc[t] = "map" /\ pc'[t] = "finalize" /\ UNCHANGED <<dst, sel>>
      BY <1>21 DEF MapPages, migVars, PcInv
    <2> QED  BY <2>1
  <1>22. ASSUME NEW t \in Thread, Finalize(t) PROVE FramesOf(t)'
    <2>1. pc'[t] \notin {"walk", "commit", "map", "finalize"}
      BY <1>22 DEF Finalize, Return, TypeOK, PcInv
    <2> QED  BY <2>1
  <1>23. ASSUME NEW t \in Thread, ExclusiveStart(t) PROVE FramesOf(t)'
    <2>1. pc'[t] \notin {"walk", "commit", "map", "finalize"}
      BY <1>23 DEF ExclusiveStart, accessVars, faultVars, TypeOK, PcInv
    <2> QED  BY <2>1
  <1>24. ASSUME NEW t \in Thread, ExclusiveCall(t) PROVE FramesOf(t)'
    <2>1. pc'[t] \notin {"walk", "commit", "map", "finalize"}
      BY <1>24 DEF ExclusiveCall, accessVars, faultVars, TypeOK, PcInv
    <2> QED  BY <2>1
  <1>25. ASSUME NEW t \in Thread, ExclusiveSet(t) PROVE FramesOf(t)'
    <2>1. pc'[t] \notin {"walk", "commit", "map", "finalize"}
      BY <1>25 DEF ExclusiveSet, accessVars, TypeOK, PcInv
    <2> QED  BY <2>1
  <1>26. ASSUME NEW t \in Thread, ExclusiveSkip(t) PROVE FramesOf(t)'
    <2>1. pc'[t] \notin {"walk", "commit", "map", "finalize"}
      BY <1>26 DEF ExclusiveSkip, accessVars, TypeOK, PcInv
    <2> QED  BY <2>1
  <1>27. ASSUME NEW t \in Thread, ExclusiveShort(t) PROVE FramesOf(t)'
    <2>1. pc'[t] \notin {"walk", "commit", "map", "finalize"}
      BY <1>27 DEF ExclusiveShort, Return, faultVars, TypeOK, PcInv
    <2> QED  BY <2>1
  <1>28. ASSUME NEW t \in Thread, AtomicMap(t) PROVE FramesOf(t)'
    <2>1. pc'[t] \notin {"walk", "commit", "map", "finalize"}
      BY <1>28 DEF AtomicMap, Return, TypeOK, PcInv
    <2> QED  BY <2>1
  <1>29. ASSUME NEW t \in Thread, dmirror_check_atomic(t) PROVE FramesOf(t)'
    <2>1. pc'[t] \notin {"walk", "commit", "map", "finalize"}
      BY <1>29 DEF dmirror_check_atomic, Return, TypeOK, PcInv
    <2> QED  BY <2>1
  <1>30. ASSUME NEW t \in Thread, SnapshotInsert(t) PROVE FramesOf(t)'
    <2>1. pc'[t] \notin {"walk", "commit", "map", "finalize"}
      BY <1>30 DEF SnapshotInsert, Return, faultVars, TypeOK, PcInv
    <2> QED  BY <2>1
  <1>31. ASSUME NEW t \in Thread, SnapshotBegin(t) PROVE FramesOf(t)'
    <2>1. pc'[t] \notin {"walk", "commit", "map", "finalize"}
      BY <1>31 DEF SnapshotBegin, accessVars, TypeOK, PcInv
    <2> QED  BY <2>1
  <1>32. ASSUME NEW t \in Thread, SnapshotLock(t) PROVE FramesOf(t)'
    <2>1. pc'[t] \notin {"walk", "commit", "map", "finalize"}
      BY <1>32 DEF SnapshotLock, accessVars, faultVars, TypeOK, PcInv
    <2> QED  BY <2>1
  <1>33. ASSUME NEW t \in Thread, SnapshotWalk(t) PROVE FramesOf(t)'
    <2>1. pc'[t] \notin {"walk", "commit", "map", "finalize"}
      BY <1>33 DEF SnapshotWalk, accessVars, TypeOK, PcInv
    <2> QED  BY <2>1
  <1>34. ASSUME NEW t \in Thread, SnapshotRetry(t) PROVE FramesOf(t)'
    <2>1. pc'[t] \notin {"walk", "commit", "map", "finalize"}
      BY <1>34 DEF SnapshotRetry, accessVars, faultVars, TypeOK, PcInv
    <2> QED  BY <2>1
  <1>35. ASSUME NEW t \in Thread, SnapshotCommit(t) PROVE FramesOf(t)'
    <2>1. pc'[t] \notin {"walk", "commit", "map", "finalize"}
      BY <1>35 DEF SnapshotCommit, accessVars, TypeOK, PcInv
    <2> QED  BY <2>1
  <1>36. ASSUME NEW t \in Thread, SnapshotOut(t) PROVE FramesOf(t)'
    <2>1. pc'[t] \notin {"walk", "commit", "map", "finalize"}
      BY <1>36 DEF SnapshotOut, Return, TypeOK, PcInv
    <2> QED  BY <2>1
  <1>37. ASSUME NEW t \in Thread, SnapshotNext(t) PROVE FramesOf(t)'
    <2>1. pc'[t] \notin {"walk", "commit", "map", "finalize"}
      BY <1>37 DEF SnapshotNext, Return, faultVars, TypeOK, PcInv
    <2> QED  BY <2>1
  <1>38. ASSUME NEW t \in Thread, SnapshotFails(t) PROVE FramesOf(t)'
    <2>1. pc'[t] \notin {"walk", "commit", "map", "finalize"}
      BY <1>38 DEF SnapshotFails, Return, faultVars, TypeOK, PcInv
    <2> QED  BY <2>1
  <1>39. ASSUME NEW t \in Thread, Steps(t) PROVE FramesOf(t)'
    BY StartEffect, <1>39, <1>1, <1>2, <1>3, <1>4, <1>5, <1>6, <1>7, <1>8, <1>9, <1>10, <1>11,
        <1>12, <1>13,
       <1>14, <1>15, <1>16, <1>17, <1>18, <1>19, <1>20, <1>21, <1>22, <1>23, <1>24, <1>25,
       <1>26, <1>27, <1>28, <1>29, <1>30, <1>31, <1>32, <1>33, <1>34, <1>35, <1>36, <1>37, <1>38
       DEF Steps, Access, Fault, Migrate, Exclusive, Snapshot
  <1>40. ASSUME NEW t \in Thread, Steps(t) PROVE FramesInv'  BY <1>0, <1>39, <1>40, Elsewhere
  <1>41. CASE Kernel
    BY <1>0, <1>41, KernelElsewhere DEF Same
  <1>42. CASE UNCHANGED vars
    BY <1>0, <1>42 DEF Same, vars, accessVars, faultVars, migVars
  <1> QED  BY <1>40, <1>41, <1>42 DEF Next, Steps

\* Every page of the process is in a frame.
LEMMA CpuStep ==
    TypeOK /\ PcInv /\ BatchInv /\ CpuInv /\ FramesInv /\ KindInv /\ [Next]_vars => CpuInv'
  <1> SUFFICES ASSUME TypeOK, PcInv, BatchInv, CpuInv, FramesInv, KindInv, [Next]_vars
        PROVE  CpuInv'  OBVIOUS
  <1>0. ASSUME UNCHANGED <<cpu>> PROVE CpuInv'
    BY <1>0 DEF CpuInv
  <1> USE DEF CpuInv
  <1>1. ASSUME NEW a \in Addr, Populate(a) PROVE CpuInv'
    <2>1. PICK f \in FreeFrames :
             cpu' = [cpu EXCEPT ![a] = [kind |-> "sys", frame |-> f, write |-> TRUE]]
      BY <1>1 DEF Populate
    <2>2. Proper([kind |-> "sys", frame |-> f, write |-> TRUE])  BY FreeAreFrames DEF Proper, Is
    <2> QED  BY <2>1, <2>2 DEF TypeOK
  <1>2. ASSUME NEW i \in Invalidator, InvalidateEnd(i) PROVE CpuInv'
    <2>1. /\ Page(i) \in Addr /\ \A b \in Addr \ {Page(i)} : cpu'[b] = cpu[b]
      BY <1>2, EndInvalidation
    <2>2. /\ inval[i].ev \in {"move", "cow"} => inval[i].pte.kind = "sys"
          /\ inval[i].ev = "protect" => inval[i].pte.kind \in {"sys", "dev"}
          /\ inval[i].ev = "restore" => inval[i].pte.kind = "excl"
      BY <1>2 DEF InvalidateEnd, KindInv
    <2>3. Proper(cpu[Page(i)]) /\ (cpu[Page(i)].kind # "none" => cpu[Page(i)].frame # NoFrame)
      BY <2>1 DEF Proper
    <2>4. \/ cpu' = cpu
          \/ cpu'[Page(i)] = None
          \/ /\ cpu[Page(i)] = inval[i].pte
             /\ inval[i].ev \in {"move", "cow", "protect", "restore"}
             /\ cpu'[Page(i)].kind = cpu[Page(i)].kind \/ cpu'[Page(i)].kind = "sys"
             /\ cpu'[Page(i)].frame \in FreeFrames \/ cpu'[Page(i)].frame = cpu[Page(i)].frame
      BY <1>2, EndInvalidation DEF Is
    <2>5. Proper(cpu'[Page(i)])
      <3>1. CASE cpu' = cpu  BY <2>3, <3>1
      <3>2. CASE cpu'[Page(i)] = None  BY <3>2 DEF Proper, None
      <3>3. CASE cpu'[Page(i)].kind # "none" /\ cpu'[Page(i)].frame # NoFrame  BY <3>3 DEF Proper
      <3> QED  BY <2>2, <2>3, <2>4, <3>1, <3>2, <3>3, FreeAreFrames
    <2> QED  BY <2>1, <2>5
  <1>3. ASSUME NEW t \in Thread, Setup(t) PROVE CpuInv'
    <2>1. ASSUME NEW a \in Addr PROVE Proper(cpu'[a])
      <3>1. Proper(cpu[a])  OBVIOUS
      <3>2. \/ cpu'[a] = cpu[a]
            \/ cpu[a] # None /\ \E k \in {"migsys", "migdev"} :
                 Is(cpu'[a], k, cpu[a].frame, cpu[a].write)
        BY <1>3, SetupEffect
      <3> QED  BY <3>1, <3>2 DEF Proper, Is
    <2> QED  BY <2>1
  <1>4. ASSUME NEW t \in Thread, MigratePages(t) PROVE CpuInv'
    <2>1. ASSUME NEW a \in Addr PROVE Proper(cpu'[a])
      <3>1. Proper(cpu[a])  OBVIOUS
      <3>2. \/ cpu'[a] = cpu[a]
            \/ dst[t][a] # NoFrame /\ Is(cpu'[a], "dev", dst[t][a], TRUE)
        BY <1>4, PagesEffect
      <3> QED  BY <3>1, <3>2 DEF Proper, Is
    <2> QED  BY <2>1
  <1>5. ASSUME NEW t \in Thread, Finalize(t) PROVE CpuInv'
    <2>1. \A a \in sel[t] : dst[t][a] # NoFrame  BY <1>5 DEF Finalize, FramesInv, FramesOf
    <2>2. ASSUME NEW a \in Addr PROVE Proper(cpu'[a])
      <3>1. Proper(cpu[a]) /\ (cpu[a].kind # "none" => cpu[a].frame # NoFrame)  BY DEF Proper
      <3> QED  BY <1>5, <2>1, <3>1, FinalizeEffect DEF Proper, Is
    <2> QED  BY <2>2
  <1>6. ASSUME NEW t \in Thread, ExclusiveSet(t) PROVE CpuInv'
    <2>1. walk[t] \in Addr  BY <1>6, Batches DEF ExclusiveSet, BatchInv, BatchOf, ExclusivePc
    <2>2. ASSUME NEW a \in Addr PROVE Proper(cpu'[a])
      <3>1. Proper(cpu[a]) /\ (cpu[a].kind # "none" => cpu[a].frame # NoFrame)  BY DEF Proper
      <3> QED  BY <1>6, <2>1, <3>1, ExclusiveEffect DEF Proper, Is
    <2> QED  BY <2>2
  <1>7. ASSUME NEW t, NEW c, NEW i, NEW a, NEW v,
                \/ CpuStore(a, v) \/ InvalidateStart(i) \/ Start(t, c) \/ BounceInit(t)
                \/ MutexLock(t) \/ Load(t) \/ Copy(t) \/ CopyOops(t) \/ AccessDone(t)
                \/ AccessMiss(t) \/ ReadBegin(t) \/ MmapReadLock(t) \/ Walk(t) \/ WalkBusy(t)
                \/ FaultFails(t) \/ Retry(t) \/ Commit(t) \/ SetupFails(t) \/ Alloc(t)
                \/ CopyPages(t) \/ MapPages(t) \/ ExclusiveStart(t) \/ ExclusiveCall(t)
                \/ ExclusiveSkip(t) \/ ExclusiveShort(t) \/ AtomicMap(t)
                \/ dmirror_check_atomic(t) \/ SnapshotInsert(t) \/ SnapshotBegin(t)
                \/ SnapshotLock(t) \/ SnapshotWalk(t) \/ SnapshotRetry(t)
                \/ SnapshotCommit(t) \/ SnapshotOut(t) \/ SnapshotNext(t)
                \/ SnapshotFails(t)
         PROVE  CpuInv'
    <2>1. UNCHANGED <<cpu>>
      BY <1>7 DEF CpuStore, InvalidateStart, Start, BounceInit, MutexLock, Load, Copy, CopyOops,
              AccessDone, AccessMiss, ReadBegin, MmapReadLock, Walk, WalkBusy, FaultFails,
              Retry, Commit, SetupFails, Alloc, CopyPages, MapPages, ExclusiveStart,
              ExclusiveCall, ExclusiveSkip, ExclusiveShort, AtomicMap, dmirror_check_atomic,
              SnapshotInsert, SnapshotBegin, SnapshotLock, SnapshotWalk, SnapshotRetry,
              SnapshotCommit, SnapshotOut, SnapshotNext, SnapshotFails, mmVars
    <2> QED  BY <2>1, <1>0
  <1>8. CASE UNCHANGED vars  BY <1>0, <1>8 DEF vars, mmVars
  <1> QED
    BY StartEffect, <1>1, <1>2, <1>3, <1>4, <1>5, <1>6, <1>7, <1>8
       DEF Next, Access, Fault, Migrate, Exclusive, Snapshot, Kernel

\* An invalidation works on the kind of page its event is for.
LEMMA KindStep == TypeOK /\ KindInv /\ [Next]_vars => KindInv'
  <1> SUFFICES ASSUME TypeOK, KindInv, [Next]_vars PROVE KindInv'  OBVIOUS
  <1>0. ASSUME UNCHANGED <<inval>> PROVE KindInv'
    BY <1>0 DEF KindInv
  <1> USE DEF KindInv
  <1>1. ASSUME NEW i \in Invalidator, InvalidateStart(i) PROVE KindInv'
    <2>1. PICK ev \in Event, a \in Addr :
            /\ Eligible(ev, a) /\ inval'[i] = [ev |-> ev, addr |-> a, pte |-> cpu[a]]
            /\ \A j \in Invalidator \ {i} : inval'[j] = inval[j]
      BY <1>1, StartInvalidation
    <2>2. /\ ev \in {"move", "cow"} => cpu[a].kind = "sys"
          /\ ev = "cow" => ~cpu[a].write
          /\ ev = "protect" => cpu[a].kind \in {"sys", "dev"} /\ cpu[a].write
          /\ ev = "restore" => cpu[a].kind = "excl"
      BY <2>1 DEF Eligible
    <2> QED  BY <2>1, <2>2
  <1>2. ASSUME NEW i \in Invalidator, InvalidateEnd(i) PROVE KindInv'
    <2>1. inval'[i] = NoCmd /\ \A j \in Invalidator \ {i} : inval'[j] = inval[j]
      BY <1>2, EndInvalidation
    <2> QED  BY <2>1
  <1>3. ASSUME NEW t, NEW c, NEW i, NEW a, NEW v,
                \/ Populate(a) \/ CpuStore(a, v) \/ Start(t, c) \/ BounceInit(t)
                \/ MutexLock(t) \/ Load(t) \/ Copy(t) \/ CopyOops(t) \/ AccessDone(t)
                \/ AccessMiss(t) \/ ReadBegin(t) \/ MmapReadLock(t) \/ Walk(t) \/ WalkBusy(t)
                \/ FaultFails(t) \/ Retry(t) \/ Commit(t) \/ Setup(t) \/ SetupFails(t)
                \/ Alloc(t) \/ CopyPages(t) \/ MigratePages(t) \/ MapPages(t) \/ Finalize(t)
                \/ ExclusiveStart(t) \/ ExclusiveCall(t) \/ ExclusiveSet(t)
                \/ ExclusiveSkip(t) \/ ExclusiveShort(t) \/ AtomicMap(t)
                \/ dmirror_check_atomic(t) \/ SnapshotInsert(t) \/ SnapshotBegin(t)
                \/ SnapshotLock(t) \/ SnapshotWalk(t) \/ SnapshotRetry(t)
                \/ SnapshotCommit(t) \/ SnapshotOut(t) \/ SnapshotNext(t)
                \/ SnapshotFails(t)
         PROVE  KindInv'
    <2>1. UNCHANGED <<inval>>
      BY <1>3 DEF Populate, CpuStore, Start, BounceInit, MutexLock, Load, Copy, CopyOops,
              AccessDone, AccessMiss, ReadBegin, MmapReadLock, Walk, WalkBusy, FaultFails,
              Retry, Commit, Setup, SetupFails, Alloc, CopyPages, MigratePages, MapPages,
              Finalize, ExclusiveStart, ExclusiveCall, ExclusiveSet, ExclusiveSkip,
              ExclusiveShort, AtomicMap, dmirror_check_atomic, SnapshotInsert, SnapshotBegin,
              SnapshotLock, SnapshotWalk, SnapshotRetry, SnapshotCommit, SnapshotOut,
              SnapshotNext, SnapshotFails, mmVars
    <2> QED  BY <2>1, <1>0
  <1>4. CASE UNCHANGED vars  BY <1>0, <1>4 DEF vars, mmVars
  <1> QED
    BY StartEffect, <1>1, <1>2, <1>3, <1>4
       DEF Next, Access, Fault, Migrate, Exclusive, Snapshot, Kernel

-----------------------------------------------------------------------------
(***************************************************************************)
(* Type correctness, group by group.                                       *)
(***************************************************************************)
CpuType == cpu \in [Addr -> Pte]

DataType == data \in [Frame -> Value]

InvalType == inval \in [Invalidator -> Change \cup {NoCmd}]

SeqTypes ==
    /\ active \subseteq Thread \cup Invalidator
    /\ busy \in BOOLEAN
    /\ sbusy \subseteq Thread
    /\ fresh \in [Thread -> BOOLEAN]

PtType == pt \in [Addr -> Entry \cup {NoEntry}]

CmdTypes ==
    /\ mutex \in Thread \cup {Nobody}
    /\ cmd \in [Thread -> Cmd \cup {NoCmd}]
    /\ ret \in [Thread -> {"none", "ok", "error"}]

CopyTypes ==
    /\ cur \in [Thread -> 1..(NPages + 1)]
    /\ bounce \in [Thread -> [Addr -> Value]]
    /\ entry \in [Thread -> Entry \cup {NoEntry}]

WalkTypes ==
    /\ addr \in [Thread -> 1..(NPages + 1)]
    /\ walk \in [Thread -> 1..(NPages + 1)]

PfnTypes ==
    /\ pfns \in [Thread -> [Addr -> Pfn]]
    /\ perm \in [Thread -> [Addr -> Perm]]

MigTypes ==
    /\ src \in [Thread -> [Addr -> Frame \cup {NoFrame}]]
    /\ dst \in [Thread -> [Addr -> Frame \cup {NoFrame}]]
    /\ sel \in [Thread -> SUBSET Addr]

\* Changes of a record of the page table.
LEMMA PteTypes ==
    /\ None \in Pte
    /\ \A p \in Pte, k \in {"sys", "dev", "migsys", "migdev", "excl"} :
             [p EXCEPT !.kind = k] \in Pte
    /\ \A p \in Pte, w \in BOOLEAN : [p EXCEPT !.write = w] \in Pte
    /\ \A p \in Pte, f \in Frame \cup {NoFrame}, w \in BOOLEAN :
         [p EXCEPT !.frame = f, !.write = w] \in Pte
    /\ \A p \in Pte, k \in {"sys", "dev"}, f \in Frame \cup {NoFrame} :
         [p EXCEPT !.kind = k, !.frame = f] \in Pte
    /\ \A f \in Frame \cup {NoFrame} : DevPte(f, TRUE) \in Pte
    /\ \A p \in Pte : p.frame \in Frame \cup {NoFrame} /\ p.write \in BOOLEAN
  BY DEF Pte, None, DevPte

\* TypeOK is its parts.
LEMMA TypeParts ==
    TypeOK <=> /\ CpuType /\ DataType /\ InvalType /\ SeqTypes /\ PtType
               /\ CmdTypes /\ CopyTypes /\ WalkTypes /\ PfnTypes /\ MigTypes
  BY DEF TypeOK, CpuType, DataType, InvalType, SeqTypes, PtType, CmdTypes, CopyTypes, WalkTypes,
      PfnTypes, MigTypes

\* The page table.
LEMMA CpuTypeStep ==
    TypeOK /\ PcInv /\ BatchInv /\ CpuInv /\ FramesInv /\ [Next]_vars => CpuType'
  <1> SUFFICES ASSUME TypeOK, PcInv, BatchInv, CpuInv, FramesInv, [Next]_vars
        PROVE  CpuType'  OBVIOUS
  <1>0. ASSUME UNCHANGED <<cpu>> PROVE CpuType'
    BY <1>0 DEF CpuType, TypeOK
  <1> CpuType /\ MigTypes  BY TypeParts
  <1> USE DEF CpuType, MigTypes
  <1>1. ASSUME NEW a \in Addr, Populate(a) PROVE CpuType'
    BY <1>1, FreeAreFrames DEF Populate, Pte
  <1>2. ASSUME NEW i \in Invalidator, InvalidateEnd(i) PROVE CpuType'
    <2>1. Page(i) \in Addr  BY <1>2, EndInvalidation
    <2>2. CASE UNCHANGED cpu  BY <2>2
    <2>3. ASSUME NEW f \in FreeFrames, NEW ev,
                 cpu' = [cpu EXCEPT ![Page(i)].frame = f, ![Page(i)].write = (ev = "cow" \/ @)]
          PROVE  CpuType'
      <3> DEFINE w == ev = "cow" \/ cpu[Page(i)].write
      <3>1. cpu' = [cpu EXCEPT ![Page(i)] = [cpu[Page(i)] EXCEPT !.frame = f, !.write = w]]
        BY <2>1, <2>3 DEF Pte
      <3>2. w \in BOOLEAN /\ f \in Frame  BY FreeAreFrames
      <3>3. [cpu[Page(i)] EXCEPT !.frame = f, !.write = w] \in Pte  BY <2>1, <3>2, PteTypes
      <3> QED  BY <3>1, <3>3
    <2>4. CASE cpu' = [cpu EXCEPT ![Page(i)].write = FALSE]
      <3>1. [cpu[Page(i)] EXCEPT !.write = FALSE] \in Pte  BY <2>1, PteTypes
      <3> QED  BY <2>4, <3>1
    <2>5. CASE cpu' = [cpu EXCEPT ![Page(i)].kind = "sys"]
      <3>1. [cpu[Page(i)] EXCEPT !.kind = "sys"] \in Pte  BY <2>1, PteTypes
      <3> QED  BY <2>5, <3>1
    <2>6. CASE cpu' = [cpu EXCEPT ![Page(i)] = None]  BY <2>6, PteTypes
    <2>7. \/ UNCHANGED cpu
          \/ \E f \in FreeFrames :
               cpu' = [cpu EXCEPT ![Page(i)].frame = f, ![Page(i)].write = (inval[i].ev = "cow" \/ @)]
          \/ cpu' = [cpu EXCEPT ![Page(i)].write = FALSE]
          \/ cpu' = [cpu EXCEPT ![Page(i)].kind = "sys"]
          \/ cpu' = [cpu EXCEPT ![Page(i)] = None]
      BY <1>2, Zenon DEF InvalidateEnd, Page
    <2> QED  BY <2>2, <2>3, <2>4, <2>5, <2>6, <2>7
  <1>3. ASSUME NEW t \in Thread, Setup(t) PROVE CpuType'
    <2>1. ASSUME NEW a \in Addr, NEW k \in {"migsys", "migdev"}
          PROVE  [cpu[a] EXCEPT !.kind = k] \in Pte
      BY PteTypes
    <2>2. PICK S :
             cpu' = [a \in Addr |->
                       IF a \in S /\ cpu[a] # None
                         THEN [cpu[a] EXCEPT !.kind = IF Outbound(t) THEN "migsys" ELSE "migdev"]
                         ELSE cpu[a]]
      BY <1>3 DEF Setup
    <2>3. CASE Outbound(t)  BY <2>1, <2>2, <2>3
    <2>4. CASE ~Outbound(t)  BY <2>1, <2>2, <2>4
    <2> QED  BY <2>3, <2>4
  <1>4. ASSUME NEW t \in Thread, MigratePages(t) PROVE CpuType'
    <2>1. \A a \in Addr : DevPte(dst[t][a], TRUE) \in Pte  BY PteTypes
    <2> QED  BY <1>4, <2>1 DEF MigratePages
  <1>5. ASSUME NEW t \in Thread, Finalize(t) PROVE CpuType'
    <2>1. ASSUME NEW a \in Addr PROVE Finalized(t, a) \in Pte
      <3>1. cpu[a] \in Pte /\ dst[t][a] \in Frame \cup {NoFrame}  OBVIOUS
      <3>2. CASE Outbound(t)  BY <3>1, <3>2, PteTypes DEF Finalized
      <3>3. CASE ~Outbound(t)  BY <3>1, <3>3, PteTypes DEF Finalized
      <3> QED  BY <3>2, <3>3
    <2> QED  BY <1>5, <2>1 DEF Finalize
  <1>6. ASSUME NEW t \in Thread, ExclusiveSet(t) PROVE CpuType'
    <2>1. walk[t] \in Addr  BY <1>6, Batches DEF ExclusiveSet, BatchInv, BatchOf, ExclusivePc
    <2>2. [cpu[walk[t]] EXCEPT !.kind = "excl"] \in Pte  BY <2>1, PteTypes
    <2> QED  BY <1>6, <2>1, <2>2 DEF ExclusiveSet
  <1>7. ASSUME NEW t, NEW c, NEW i, NEW a, NEW v,
                \/ CpuStore(a, v) \/ InvalidateStart(i) \/ Start(t, c) \/ BounceInit(t)
                \/ MutexLock(t) \/ Load(t) \/ Copy(t) \/ CopyOops(t) \/ AccessDone(t)
                \/ AccessMiss(t) \/ ReadBegin(t) \/ MmapReadLock(t) \/ Walk(t) \/ WalkBusy(t)
                \/ FaultFails(t) \/ Retry(t) \/ Commit(t) \/ SetupFails(t) \/ Alloc(t)
                \/ CopyPages(t) \/ MapPages(t) \/ ExclusiveStart(t) \/ ExclusiveCall(t)
                \/ ExclusiveSkip(t) \/ ExclusiveShort(t) \/ AtomicMap(t)
                \/ dmirror_check_atomic(t) \/ SnapshotInsert(t) \/ SnapshotBegin(t)
                \/ SnapshotLock(t) \/ SnapshotWalk(t) \/ SnapshotRetry(t)
                \/ SnapshotCommit(t) \/ SnapshotOut(t) \/ SnapshotNext(t)
                \/ SnapshotFails(t)
         PROVE  CpuType'
    <2>1. UNCHANGED <<cpu>>
      BY <1>7 DEF CpuStore, InvalidateStart, Start, BounceInit, MutexLock, Load, Copy, CopyOops,
              AccessDone, AccessMiss, ReadBegin, MmapReadLock, Walk, WalkBusy, FaultFails,
              Retry, Commit, SetupFails, Alloc, CopyPages, MapPages, ExclusiveStart,
              ExclusiveCall, ExclusiveSkip, ExclusiveShort, AtomicMap, dmirror_check_atomic,
              SnapshotInsert, SnapshotBegin, SnapshotLock, SnapshotWalk, SnapshotRetry,
              SnapshotCommit, SnapshotOut, SnapshotNext, SnapshotFails, mmVars
    <2> QED  BY <2>1, <1>0
  <1>8. CASE UNCHANGED vars  BY <1>0, <1>8 DEF vars, mmVars
  <1> QED
    BY StartEffect, <1>1, <1>2, <1>3, <1>4, <1>5, <1>6, <1>7, <1>8
       DEF Next, Access, Fault, Migrate, Exclusive, Snapshot, Kernel

\* The contents of the frames.
LEMMA DataTypeStep ==
    TypeOK /\ PcInv /\ BatchInv /\ CpuInv /\ FramesInv /\ KindInv /\ [Next]_vars => DataType'
  <1> SUFFICES ASSUME TypeOK, PcInv, BatchInv, CpuInv, FramesInv, KindInv, [Next]_vars
        PROVE  DataType'  OBVIOUS
  <1>0. ASSUME UNCHANGED <<data>> PROVE DataType'
    BY <1>0 DEF DataType, TypeOK
  <1> DataType /\ CpuType /\ CopyTypes /\ MigTypes  BY TypeParts
  <1> USE DEF DataType, CpuType, CopyTypes, MigTypes
  <1>1. ASSUME NEW a \in Addr, Populate(a) PROVE DataType'
    BY <1>1, MirrorAssumption DEF Populate
  <1>2. ASSUME NEW a \in Addr, NEW v \in Value, CpuStore(a, v) PROVE DataType'
    BY <1>2 DEF CpuStore
  <1>3. ASSUME NEW i \in Invalidator, InvalidateEnd(i) PROVE DataType'
    <2>1. CASE UNCHANGED data  BY <2>1
    <2>2. ASSUME inval[i].ev \in {"move", "cow"}, cpu[Page(i)] = inval[i].pte, NEW f,
                 data' = [data EXCEPT ![f] = data[cpu[Page(i)].frame]]
          PROVE  DataType'
      <3>1. Page(i) \in Addr /\ inval[i] # NoCmd  BY <1>3, EndInvalidation
      <3>2. cpu[Page(i)].kind = "sys"  BY <2>2, <3>1 DEF KindInv
      <3>3. cpu[Page(i)].frame \in Frame  BY <3>1, <3>2 DEF CpuInv, Proper, Pte
      <3> QED  BY <2>2, <3>3
    <2> QED  BY <1>3, <2>1, <2>2, EndInvalidation
  <1>4. ASSUME NEW t \in Thread, Copy(t) PROVE DataType'
    <2>1. cur[t] \in Addr
      BY <1>4, Running DEF Copy, BatchInv, BatchOf
    <2>2. bounce[t][cur[t]] \in Value  BY <2>1
    <2> QED  BY <1>4, <2>2 DEF Copy
  <1>5. ASSUME NEW t \in Thread, CopyPages(t) PROVE DataType'
    <2>1. ASSUME NEW a \in Addr PROVE Contents(t, a) \in Value  BY MirrorAssumption DEF Contents
    <2>2. ASSUME NEW f \in Frame, \E a \in sel[t] : dst[t][a] = f
          PROVE  (CHOOSE a \in sel[t] : dst[t][a] = f) \in Addr
      BY <2>2
    <2> QED  BY <1>5, <2>1, <2>2 DEF CopyPages
  <1>6. ASSUME NEW t, NEW c, NEW i, NEW a, NEW v,
                \/ InvalidateStart(i) \/ Start(t, c) \/ BounceInit(t) \/ MutexLock(t)
                \/ Load(t) \/ CopyOops(t) \/ AccessDone(t) \/ AccessMiss(t) \/ ReadBegin(t)
                \/ MmapReadLock(t) \/ Walk(t) \/ WalkBusy(t) \/ FaultFails(t) \/ Retry(t)
                \/ Commit(t) \/ Setup(t) \/ SetupFails(t) \/ Alloc(t) \/ MigratePages(t)
                \/ MapPages(t) \/ Finalize(t) \/ ExclusiveStart(t) \/ ExclusiveCall(t)
                \/ ExclusiveSet(t) \/ ExclusiveSkip(t) \/ ExclusiveShort(t) \/ AtomicMap(t)
                \/ dmirror_check_atomic(t) \/ SnapshotInsert(t) \/ SnapshotBegin(t)
                \/ SnapshotLock(t) \/ SnapshotWalk(t) \/ SnapshotRetry(t)
                \/ SnapshotCommit(t) \/ SnapshotOut(t) \/ SnapshotNext(t)
                \/ SnapshotFails(t)
         PROVE  DataType'
    <2>1. UNCHANGED <<data>>
      BY <1>6 DEF InvalidateStart, Start, BounceInit, MutexLock, Load, CopyOops, AccessDone,
              AccessMiss, ReadBegin, MmapReadLock, Walk, WalkBusy, FaultFails, Retry, Commit,
              Setup, SetupFails, Alloc, MigratePages, MapPages, Finalize, ExclusiveStart,
              ExclusiveCall, ExclusiveSet, ExclusiveSkip, ExclusiveShort, AtomicMap,
              dmirror_check_atomic, SnapshotInsert, SnapshotBegin, SnapshotLock, SnapshotWalk,
              SnapshotRetry, SnapshotCommit, SnapshotOut, SnapshotNext, SnapshotFails, mmVars
    <2> QED  BY <2>1, <1>0
  <1>7. CASE UNCHANGED vars  BY <1>0, <1>7 DEF vars, mmVars
  <1> QED
    BY StartEffect, <1>1, <1>2, <1>3, <1>4, <1>5, <1>6, <1>7
       DEF Next, Access, Fault, Migrate, Exclusive, Snapshot, Kernel

\* The changes under way.
LEMMA InvalTypeStep == TypeOK /\ [Next]_vars => InvalType'
  <1> SUFFICES ASSUME TypeOK, [Next]_vars PROVE InvalType'  OBVIOUS
  <1>0. ASSUME UNCHANGED <<inval>> PROVE InvalType'
    BY <1>0 DEF InvalType, TypeOK
  <1> InvalType /\ CpuType  BY TypeParts
  <1> USE DEF InvalType, CpuType
  <1>1. ASSUME NEW i \in Invalidator, InvalidateStart(i) PROVE InvalType'
    <2>1. PICK ev \in Event, a \in Addr :
             inval' = [inval EXCEPT ![i] = [ev |-> ev, addr |-> a, pte |-> cpu[a]]]
      BY <1>1 DEF InvalidateStart
    <2>2. [ev |-> ev, addr |-> a, pte |-> cpu[a]] \in Change  BY DEF Change
    <2> QED  BY <2>1, <2>2
  <1>2. ASSUME NEW i \in Invalidator, InvalidateEnd(i) PROVE InvalType'
    BY <1>2 DEF InvalidateEnd
  <1>3. ASSUME NEW t, NEW c, NEW i, NEW a, NEW v,
                \/ Populate(a) \/ CpuStore(a, v) \/ Start(t, c) \/ BounceInit(t)
                \/ MutexLock(t) \/ Load(t) \/ Copy(t) \/ CopyOops(t) \/ AccessDone(t)
                \/ AccessMiss(t) \/ ReadBegin(t) \/ MmapReadLock(t) \/ Walk(t) \/ WalkBusy(t)
                \/ FaultFails(t) \/ Retry(t) \/ Commit(t) \/ Setup(t) \/ SetupFails(t)
                \/ Alloc(t) \/ CopyPages(t) \/ MigratePages(t) \/ MapPages(t) \/ Finalize(t)
                \/ ExclusiveStart(t) \/ ExclusiveCall(t) \/ ExclusiveSet(t)
                \/ ExclusiveSkip(t) \/ ExclusiveShort(t) \/ AtomicMap(t)
                \/ dmirror_check_atomic(t) \/ SnapshotInsert(t) \/ SnapshotBegin(t)
                \/ SnapshotLock(t) \/ SnapshotWalk(t) \/ SnapshotRetry(t)
                \/ SnapshotCommit(t) \/ SnapshotOut(t) \/ SnapshotNext(t)
                \/ SnapshotFails(t)
         PROVE  InvalType'
    <2>1. UNCHANGED <<inval>>
      BY <1>3 DEF Populate, CpuStore, Start, BounceInit, MutexLock, Load, Copy, CopyOops,
              AccessDone, AccessMiss, ReadBegin, MmapReadLock, Walk, WalkBusy, FaultFails,
              Retry, Commit, Setup, SetupFails, Alloc, CopyPages, MigratePages, MapPages,
              Finalize, ExclusiveStart, ExclusiveCall, ExclusiveSet, ExclusiveSkip,
              ExclusiveShort, AtomicMap, dmirror_check_atomic, SnapshotInsert, SnapshotBegin,
              SnapshotLock, SnapshotWalk, SnapshotRetry, SnapshotCommit, SnapshotOut,
              SnapshotNext, SnapshotFails, mmVars
    <2> QED  BY <2>1, <1>0
  <1>4. CASE UNCHANGED vars  BY <1>0, <1>4 DEF vars, mmVars
  <1> QED
    BY StartEffect, <1>1, <1>2, <1>3, <1>4
       DEF Next, Access, Fault, Migrate, Exclusive, Snapshot, Kernel

\* The sequences.
LEMMA SeqTypesStep == TypeOK /\ PcInv /\ BatchInv /\ [Next]_vars => SeqTypes'
  <1> SUFFICES ASSUME TypeOK, PcInv, BatchInv, [Next]_vars PROVE SeqTypes'  OBVIOUS
  <1>0. ASSUME UNCHANGED <<active, busy, sbusy, fresh>> PROVE SeqTypes'
    BY <1>0 DEF SeqTypes, TypeOK
  <1> SeqTypes  BY TypeParts
  <1> USE DEF SeqTypes
  <1>1. ASSUME NEW i \in Invalidator, InvalidateStart(i) PROVE SeqTypes'
    BY <1>1 DEF InvalidateStart, dmirror_interval_invalidate, dmirror_snapshot_invalidate
  <1>2. ASSUME NEW i \in Invalidator, InvalidateEnd(i) PROVE SeqTypes'
    BY <1>2 DEF InvalidateEnd, RangeEnd, dmirror_snapshot_invalidate
  <1>3. ASSUME NEW t \in Thread, ReadBegin(t) PROVE SeqTypes'
    BY <1>3 DEF ReadBegin, dmirror_snapshot_invalidate
  <1>4. ASSUME NEW t \in Thread, Setup(t) PROVE SeqTypes'
    BY <1>4 DEF Setup, OwnInvalidate, dmirror_snapshot_invalidate
  <1>5. ASSUME NEW t \in Thread, MigratePages(t) PROVE SeqTypes'
    BY <1>5 DEF MigratePages, OwnInvalidate, dmirror_snapshot_invalidate
  <1>6. ASSUME NEW t \in Thread, ExclusiveCall(t) PROVE SeqTypes'
    BY <1>6 DEF ExclusiveCall, dmirror_interval_invalidate, dmirror_snapshot_invalidate
  <1>7. ASSUME NEW t \in Thread, ExclusiveSet(t) PROVE SeqTypes'
    BY <1>7 DEF ExclusiveSet, RangeEnd, dmirror_snapshot_invalidate
  <1>8. ASSUME NEW t \in Thread, SnapshotInsert(t) PROVE SeqTypes'
    BY <1>8 DEF SnapshotInsert, Return, dmirror_snapshot_invalidate
  <1>9. ASSUME NEW t \in Thread, SnapshotBegin(t) PROVE SeqTypes'
    BY <1>9 DEF SnapshotBegin, dmirror_snapshot_invalidate
  <1>10. ASSUME NEW t, NEW c, NEW i, NEW a, NEW v,
                \/ Populate(a) \/ CpuStore(a, v) \/ Start(t, c) \/ BounceInit(t)
                \/ MutexLock(t) \/ Load(t) \/ Copy(t) \/ CopyOops(t) \/ AccessDone(t)
                \/ AccessMiss(t) \/ MmapReadLock(t) \/ Walk(t) \/ WalkBusy(t)
                \/ FaultFails(t) \/ Retry(t) \/ Commit(t) \/ SetupFails(t) \/ Alloc(t)
                \/ CopyPages(t) \/ MapPages(t) \/ Finalize(t) \/ ExclusiveStart(t)
                \/ ExclusiveSkip(t) \/ ExclusiveShort(t) \/ AtomicMap(t)
                \/ dmirror_check_atomic(t) \/ SnapshotLock(t) \/ SnapshotWalk(t)
                \/ SnapshotRetry(t) \/ SnapshotCommit(t) \/ SnapshotOut(t) \/ SnapshotNext(t)
                \/ SnapshotFails(t)
         PROVE  SeqTypes'
    <2>1. UNCHANGED <<active, busy, sbusy, fresh>>
      BY <1>10 DEF Populate, CpuStore, Start, BounceInit, MutexLock, Load, Copy, CopyOops,
              AccessDone, AccessMiss, MmapReadLock, Walk, WalkBusy, FaultFails, Retry, Commit,
              SetupFails, Alloc, CopyPages, MapPages, Finalize, ExclusiveStart, ExclusiveSkip,
              ExclusiveShort, AtomicMap, dmirror_check_atomic, SnapshotLock, SnapshotWalk,
              SnapshotRetry, SnapshotCommit, SnapshotOut, SnapshotNext, SnapshotFails, seqVars
    <2> QED  BY <2>1, <1>0
  <1>11. CASE UNCHANGED vars  BY <1>0, <1>11 DEF vars, seqVars
  <1> QED
    BY StartEffect, <1>1, <1>2, <1>3, <1>4, <1>5, <1>6, <1>7, <1>8, <1>9, <1>10, <1>11
       DEF Next, Access, Fault, Migrate, Exclusive, Snapshot, Kernel

\* The mirror.
LEMMA PtTypeStep ==
    TypeOK /\ PcInv /\ BatchInv /\ CpuInv /\ FramesInv /\ [Next]_vars => PtType'
  <1> SUFFICES ASSUME TypeOK, PcInv, BatchInv, CpuInv, FramesInv, [Next]_vars
        PROVE  PtType'  OBVIOUS
  <1>0. ASSUME UNCHANGED <<pt>> PROVE PtType'
    BY <1>0 DEF PtType, TypeOK
  <1> PtType /\ PfnTypes /\ MigTypes  BY TypeParts
  <1> USE DEF PtType, PfnTypes, MigTypes
  <1>1. ASSUME NEW i \in Invalidator, InvalidateStart(i) PROVE PtType'
    BY <1>1 DEF InvalidateStart, dmirror_interval_invalidate, dmirror_do_update
  <1>2. ASSUME NEW t \in Thread, Commit(t) PROVE PtType'
    <2>1. pc[t] = "commit" /\ BatchRange(t) \subseteq Addr /\ walk[t] = BatchEnd(t) + 1
      BY <1>2, Batches DEF Commit, FaultPc, BatchInv, BatchOf
    <2>2. ASSUME NEW a \in BatchRange(t) PROVE Stored(pfns[t][a]) \in Entry
      <3>1. a < walk[t]  BY <2>1, <2>2, Batches DEF FaultPc, BatchRange, Addr
      <3>2. pfns[t][a] \in Pfn /\ pfns[t][a].frame # NoFrame
        BY <2>1, <2>2, <3>1 DEF FramesInv, FramesOf
      <3> QED  BY <3>2 DEF Stored, Entry, Pfn
    <2>3. PICK stop : dmirror_do_fault(t, stop)  BY <1>2 DEF Commit
    <2> QED  BY <2>2, <2>3 DEF dmirror_do_fault
  <1>3. ASSUME NEW t \in Thread, Alloc(t) PROVE PtType'
    BY <1>3 DEF Alloc, ErasedEntries
  <1>4. ASSUME NEW t \in Thread, MapPages(t) PROVE PtType'
    <2>1. \A a \in sel[t] : dst[t][a] # NoFrame  BY <1>4 DEF MapPages, FramesInv, FramesOf
    <2>2. ASSUME NEW a \in Mapped(t), NEW tag \in {"READ", "WRITE"}
          PROVE  [frame |-> dst[t][a], zone |-> FALSE, tag |-> tag] \in Entry
      BY <2>1, <2>2 DEF Entry, Mapped
    <2>3. PICK stop \in 1..(NPages + 1) :
            pt' = [a \in Addr |->
                     IF a \in Mapped(t) /\ a < stop
                       THEN [frame |-> dst[t][a], zone |-> FALSE,
                             tag |-> IF src[t][a] = NoFrame \/ cpu[a].write THEN "WRITE" ELSE "READ"]
                       ELSE pt[a]]
      BY <1>4 DEF MapPages
    <2>4. ASSUME NEW a \in Addr PROVE pt'[a] \in Entry \cup {NoEntry}
      <3>1. (IF src[t][a] = NoFrame \/ cpu[a].write THEN "WRITE" ELSE "READ") \in {"READ", "WRITE"}
        OBVIOUS
      <3> QED  BY <2>2, <2>3, <3>1
    <2> QED  BY <2>3, <2>4
  <1>5. ASSUME NEW t \in Thread, ExclusiveCall(t) PROVE PtType'
    BY <1>5 DEF ExclusiveCall, dmirror_interval_invalidate, dmirror_do_update
  <1>6. ASSUME NEW t \in Thread, AtomicMap(t) PROVE PtType'
    <2>1. ASSUME NEW a \in Addr, dst[t][a] # NoFrame PROVE AtomicEntry(dst[t][a]) \in Entry
      BY <2>1 DEF AtomicEntry, Entry
    <2> QED  BY <1>6, <2>1 DEF AtomicMap
  <1>7. ASSUME NEW t, NEW c, NEW i, NEW a, NEW v,
                \/ Populate(a) \/ CpuStore(a, v) \/ InvalidateEnd(i) \/ Start(t, c)
                \/ BounceInit(t) \/ MutexLock(t) \/ Load(t) \/ Copy(t) \/ CopyOops(t)
                \/ AccessDone(t) \/ AccessMiss(t) \/ ReadBegin(t) \/ MmapReadLock(t)
                \/ Walk(t) \/ WalkBusy(t) \/ FaultFails(t) \/ Retry(t) \/ Setup(t)
                \/ SetupFails(t) \/ CopyPages(t) \/ MigratePages(t) \/ Finalize(t)
                \/ ExclusiveStart(t) \/ ExclusiveSet(t) \/ ExclusiveSkip(t)
                \/ ExclusiveShort(t) \/ dmirror_check_atomic(t) \/ SnapshotInsert(t)
                \/ SnapshotBegin(t) \/ SnapshotLock(t) \/ SnapshotWalk(t) \/ SnapshotRetry(t)
                \/ SnapshotCommit(t) \/ SnapshotOut(t) \/ SnapshotNext(t)
                \/ SnapshotFails(t)
         PROVE  PtType'
    <2>1. UNCHANGED <<pt>>
      BY <1>7 DEF Populate, CpuStore, InvalidateEnd, Start, BounceInit, MutexLock, Load, Copy,
              CopyOops, AccessDone, AccessMiss, ReadBegin, MmapReadLock, Walk, WalkBusy,
              FaultFails, Retry, Setup, SetupFails, CopyPages, MigratePages, Finalize,
              ExclusiveStart, ExclusiveSet, ExclusiveSkip, ExclusiveShort, dmirror_check_atomic,
              SnapshotInsert, SnapshotBegin, SnapshotLock, SnapshotWalk, SnapshotRetry,
              SnapshotCommit, SnapshotOut, SnapshotNext, SnapshotFails
    <2> QED  BY <2>1, <1>0
  <1>8. CASE UNCHANGED vars  BY <1>0, <1>8 DEF vars
  <1> QED
    BY StartEffect, <1>1, <1>2, <1>3, <1>4, <1>5, <1>6, <1>7, <1>8
       DEF Next, Access, Fault, Migrate, Exclusive, Snapshot, Kernel

\* Commands and results.
LEMMA CmdTypesStep == TypeOK /\ PcInv /\ [Next]_vars => CmdTypes'
  <1> SUFFICES ASSUME TypeOK, PcInv, [Next]_vars PROVE CmdTypes'  OBVIOUS
  <1>0. ASSUME UNCHANGED <<mutex, cmd, ret>> PROVE CmdTypes'
    BY <1>0 DEF CmdTypes, TypeOK
  <1> CmdTypes  BY TypeParts
  <1> USE DEF CmdTypes
  <1>1. ASSUME NEW t \in Thread, NEW c \in Cmd, c.op \in OpOf[t], Start(t, c) PROVE CmdTypes'
    BY <1>1 DEF Start
  <1>2. ASSUME NEW t \in Thread, BounceInit(t) PROVE CmdTypes'
    BY <1>2 DEF BounceInit, Return
  <1>3. ASSUME NEW t \in Thread, MutexLock(t) PROVE CmdTypes'
    BY <1>3 DEF MutexLock, accessVars
  <1>4. ASSUME NEW t \in Thread, AccessDone(t) PROVE CmdTypes'
    BY <1>4 DEF AccessDone, Return
  <1>5. ASSUME NEW t \in Thread, AccessMiss(t) PROVE CmdTypes'
    BY <1>5 DEF AccessMiss, Return
  <1>6. ASSUME NEW t \in Thread, FaultFails(t) PROVE CmdTypes'
    BY <1>6 DEF FaultFails, Return
  <1>7. ASSUME NEW t \in Thread, Commit(t) PROVE CmdTypes'
    BY <1>7 DEF Commit, Return
  <1>8. ASSUME NEW t \in Thread, SetupFails(t) PROVE CmdTypes'
    BY <1>8 DEF SetupFails, Return
  <1>9. ASSUME NEW t \in Thread, Finalize(t) PROVE CmdTypes'
    BY <1>9 DEF Finalize, Return
  <1>10. ASSUME NEW t \in Thread, ExclusiveShort(t) PROVE CmdTypes'
    BY <1>10 DEF ExclusiveShort, Return
  <1>11. ASSUME NEW t \in Thread, AtomicMap(t) PROVE CmdTypes'
    BY <1>11 DEF AtomicMap, Return
  <1>12. ASSUME NEW t \in Thread, dmirror_check_atomic(t) PROVE CmdTypes'
    BY <1>12 DEF dmirror_check_atomic, Return
  <1>13. ASSUME NEW t \in Thread, SnapshotInsert(t) PROVE CmdTypes'
    BY <1>13 DEF SnapshotInsert, Return
  <1>14. ASSUME NEW t \in Thread, SnapshotOut(t) PROVE CmdTypes'
    BY <1>14 DEF SnapshotOut, Return
  <1>15. ASSUME NEW t \in Thread, SnapshotNext(t) PROVE CmdTypes'
    BY <1>15 DEF SnapshotNext, Return
  <1>16. ASSUME NEW t \in Thread, SnapshotFails(t) PROVE CmdTypes'
    BY <1>16 DEF SnapshotFails, Return, faultVars
  <1>17. ASSUME NEW t, NEW c, NEW i, NEW a, NEW v,
                \/ Populate(a) \/ CpuStore(a, v) \/ InvalidateStart(i) \/ InvalidateEnd(i)
                \/ Load(t) \/ Copy(t) \/ CopyOops(t) \/ ReadBegin(t) \/ MmapReadLock(t)
                \/ Walk(t) \/ WalkBusy(t) \/ Retry(t) \/ Setup(t) \/ Alloc(t) \/ CopyPages(t)
                \/ MigratePages(t) \/ MapPages(t) \/ ExclusiveStart(t) \/ ExclusiveCall(t)
                \/ ExclusiveSet(t) \/ ExclusiveSkip(t) \/ SnapshotBegin(t) \/ SnapshotLock(t)
                \/ SnapshotWalk(t) \/ SnapshotRetry(t) \/ SnapshotCommit(t)
         PROVE  CmdTypes'
    <2>1. UNCHANGED <<mutex, cmd, ret>>
      BY <1>17 DEF Populate, CpuStore, InvalidateStart, InvalidateEnd, Load, Copy, CopyOops,
              ReadBegin, MmapReadLock, Walk, WalkBusy, Retry, Setup, Alloc, CopyPages,
              MigratePages, MapPages, ExclusiveStart, ExclusiveCall, ExclusiveSet,
              ExclusiveSkip, SnapshotBegin, SnapshotLock, SnapshotWalk, SnapshotRetry,
              SnapshotCommit, accessVars
    <2> QED  BY <2>1, <1>0
  <1>18. CASE UNCHANGED vars  BY <1>0, <1>18 DEF vars, accessVars
  <1> QED
    BY StartEffect, <1>1, <1>2, <1>3, <1>4, <1>5, <1>6, <1>7, <1>8, <1>9, <1>10, <1>11, <1>12,
       <1>13, <1>14, <1>15, <1>16, <1>17, <1>18
       DEF Next, Access, Fault, Migrate, Exclusive, Snapshot, Kernel

\* The transfer.
LEMMA CopyTypesStep == TypeOK /\ PcInv /\ BatchInv /\ [Next]_vars => CopyTypes'
  <1> SUFFICES ASSUME TypeOK, PcInv, BatchInv, [Next]_vars PROVE CopyTypes'  OBVIOUS
  <1>0. ASSUME UNCHANGED <<cur, bounce, entry>> PROVE CopyTypes'
    BY <1>0 DEF CopyTypes, TypeOK
  <1> CopyTypes /\ DataType /\ PtType  BY TypeParts
  <1> USE DEF CopyTypes, DataType, PtType
  <1>1. ASSUME NEW t \in Thread, NEW c \in Cmd, c.op \in OpOf[t], Start(t, c) PROVE CopyTypes'
    BY <1>1, Commands, MirrorAssumption DEF Start
  <1>2. ASSUME NEW t \in Thread, Load(t) PROVE CopyTypes'
    <2>1. cur[t] \in Addr  BY <1>2, Running DEF Load
    <2> QED  BY <1>2, <2>1 DEF Load
  <1>3. ASSUME NEW t \in Thread, Copy(t) PROVE CopyTypes'
    <2>0. pc[t] = "copy" /\ cur[t] \in Range(t) /\ entry[t] # NoEntry
      BY <1>3 DEF Copy, BatchInv, BatchOf
    <2>1. cur[t] \in Addr /\ cur[t] + 1 \in 1..(NPages + 1) /\ entry[t] \in Entry
      BY <2>0, Running, MirrorAssumption DEF Addr
    <2>2. entry[t].frame \in Frame  BY <2>1 DEF Entry
    <2>3. data[entry[t].frame] \in Value  BY <2>2
    <2>4. cur' \in [Thread -> 1..(NPages + 1)]  BY <1>3, <2>1 DEF Copy, Advance
    <2>5. bounce' \in [Thread -> [Addr -> Value]]  BY <1>3, <2>3 DEF Copy
    <2> QED  BY <1>3, <2>4, <2>5 DEF Copy
  <1>4. ASSUME NEW t \in Thread, SnapshotOut(t) PROVE CopyTypes'
    <2>1. BatchEnd(t) + 1 \in 1..(NPages + 1)  BY <1>4, Batches DEF SnapshotOut, BatchPc
    <2> QED  BY <1>4, <2>1 DEF SnapshotOut
  <1>5. ASSUME NEW t, NEW c, NEW i, NEW a, NEW v,
                \/ Populate(a) \/ CpuStore(a, v) \/ InvalidateStart(i) \/ InvalidateEnd(i)
                \/ BounceInit(t) \/ MutexLock(t) \/ CopyOops(t) \/ AccessDone(t)
                \/ AccessMiss(t) \/ ReadBegin(t) \/ MmapReadLock(t) \/ Walk(t) \/ WalkBusy(t)
                \/ FaultFails(t) \/ Retry(t) \/ Commit(t) \/ Setup(t) \/ SetupFails(t)
                \/ Alloc(t) \/ CopyPages(t) \/ MigratePages(t) \/ MapPages(t) \/ Finalize(t)
                \/ ExclusiveStart(t) \/ ExclusiveCall(t) \/ ExclusiveSet(t)
                \/ ExclusiveSkip(t) \/ ExclusiveShort(t) \/ AtomicMap(t)
                \/ dmirror_check_atomic(t) \/ SnapshotInsert(t) \/ SnapshotBegin(t)
                \/ SnapshotLock(t) \/ SnapshotWalk(t) \/ SnapshotRetry(t)
                \/ SnapshotCommit(t) \/ SnapshotNext(t) \/ SnapshotFails(t)
         PROVE  CopyTypes'
    <2>1. UNCHANGED <<cur, bounce, entry>>
      BY <1>5 DEF Populate, CpuStore, InvalidateStart, InvalidateEnd, BounceInit, MutexLock,
              CopyOops, AccessDone, AccessMiss, ReadBegin, MmapReadLock, Walk, WalkBusy,
              FaultFails, Retry, Commit, Setup, SetupFails, Alloc, CopyPages, MigratePages,
              MapPages, Finalize, ExclusiveStart, ExclusiveCall, ExclusiveSet, ExclusiveSkip,
              ExclusiveShort, AtomicMap, dmirror_check_atomic, SnapshotInsert, SnapshotBegin,
              SnapshotLock, SnapshotWalk, SnapshotRetry, SnapshotCommit, SnapshotNext,
              SnapshotFails, accessVars
    <2> QED  BY <2>1, <1>0
  <1>6. CASE UNCHANGED vars  BY <1>0, <1>6 DEF vars, accessVars
  <1> QED
    BY StartEffect, <1>1, <1>2, <1>3, <1>4, <1>5, <1>6
       DEF Next, Access, Fault, Migrate, Exclusive, Snapshot, Kernel

\* Batches and walks.
LEMMA WalkTypesStep == TypeOK /\ PcInv /\ BatchInv /\ [Next]_vars => WalkTypes'
  <1> SUFFICES ASSUME TypeOK, PcInv, BatchInv, [Next]_vars PROVE WalkTypes'  OBVIOUS
  <1>0. ASSUME UNCHANGED <<addr, walk>> PROVE WalkTypes'
    BY <1>0 DEF WalkTypes, TypeOK
  <1> WalkTypes /\ CopyTypes  BY TypeParts
  <1> USE DEF WalkTypes, CopyTypes
  <1>1. ASSUME NEW t \in Thread, NEW c \in Cmd, c.op \in OpOf[t], Start(t, c) PROVE WalkTypes'
    BY <1>1, Commands, MirrorAssumption DEF Start
  <1>2. ASSUME NEW t \in Thread, AccessMiss(t) PROVE WalkTypes'
    BY <1>2 DEF AccessMiss, Return
  <1>3. ASSUME NEW t \in Thread, ReadBegin(t) PROVE WalkTypes'
    BY <1>3 DEF ReadBegin
  <1>4. ASSUME NEW t \in Thread, Walk(t) PROVE WalkTypes'
    <2>1. walk[t] + 1 \in 1..(NPages + 1)
      BY <1>4, Batches, MirrorAssumption DEF Walk, BatchInv, BatchOf, FaultPc, Addr
    <2> QED  BY <1>4, <2>1 DEF Walk
  <1>5. ASSUME NEW t \in Thread, Commit(t) PROVE WalkTypes'
    <2>1. PICK stop \in addr[t]..(BatchEnd(t) + 1) :
            UNCHANGED addr \/ addr' = [addr EXCEPT ![t] = stop]
      BY <1>5 DEF Commit
    <2>2. stop \in 1..(NPages + 1)
      BY <1>5, Batches, MirrorAssumption DEF Commit, FaultPc, Addr
    <2> QED  BY <1>5, <2>1, <2>2 DEF Commit
  <1>6. ASSUME NEW t \in Thread, Finalize(t) PROVE WalkTypes'
    <2>1. BatchEnd(t) + 1 \in 1..(NPages + 1)  BY <1>6, Batches DEF Finalize, MigratePc
    <2> QED  BY <1>6, <2>1 DEF Finalize, Return
  <1>7. ASSUME NEW t \in Thread, ExclusiveSet(t) PROVE WalkTypes'
    <2>1. walk[t] + 1 \in 1..(NPages + 1)
      BY <1>7, Batches, MirrorAssumption DEF ExclusiveSet, BatchInv, BatchOf, ExclusivePc, Addr
    <2> QED  BY <1>7, <2>1 DEF ExclusiveSet
  <1>8. ASSUME NEW t \in Thread, ExclusiveSkip(t) PROVE WalkTypes'
    <2>1. walk[t] + 1 \in 1..(NPages + 1)
      BY <1>8, Batches, MirrorAssumption DEF ExclusiveSkip, BatchInv, BatchOf, ExclusivePc, Addr
    <2> QED  BY <1>8, <2>1 DEF ExclusiveSkip
  <1>9. ASSUME NEW t \in Thread, AtomicMap(t) PROVE WalkTypes'
    <2>1. BatchEnd(t) + 1 \in 1..(NPages + 1)  BY <1>9, Batches DEF AtomicMap, ExclusivePc
    <2> QED  BY <1>9, <2>1 DEF AtomicMap, Return
  <1>10. ASSUME NEW t \in Thread, dmirror_check_atomic(t) PROVE WalkTypes'
    <2>0. pc[t] = "check" /\ walk[t] \in Range(t)
      BY <1>10 DEF dmirror_check_atomic, BatchInv, BatchOf
    <2>1. walk[t] + 1 \in 1..(NPages + 1)
      <3>1. walk[t] \in Addr  BY <2>0, Running
      <3> QED  BY <3>1, MirrorAssumption DEF Addr
    <2> QED  BY <1>10, <2>1 DEF dmirror_check_atomic
  <1>11. ASSUME NEW t \in Thread, SnapshotBegin(t) PROVE WalkTypes'
    BY <1>11 DEF SnapshotBegin
  <1>12. ASSUME NEW t \in Thread, SnapshotWalk(t) PROVE WalkTypes'
    <2>1. walk[t] + 1 \in 1..(NPages + 1)
      BY <1>12, Batches, MirrorAssumption DEF SnapshotWalk, BatchInv, BatchOf, BatchPc, Addr
    <2> QED  BY <1>12, <2>1 DEF SnapshotWalk
  <1>13. ASSUME NEW t \in Thread, SnapshotOut(t) PROVE WalkTypes'
    <2>1. BatchEnd(t) + 1 \in 1..(NPages + 1)  BY <1>13, Batches DEF SnapshotOut, BatchPc
    <2> QED  BY <1>13, <2>1 DEF SnapshotOut, Return
  <1>14. ASSUME NEW t, NEW c, NEW i, NEW a, NEW v,
                \/ Populate(a) \/ CpuStore(a, v) \/ InvalidateStart(i) \/ InvalidateEnd(i)
                \/ BounceInit(t) \/ MutexLock(t) \/ Load(t) \/ Copy(t) \/ CopyOops(t)
                \/ AccessDone(t) \/ MmapReadLock(t) \/ WalkBusy(t) \/ FaultFails(t)
                \/ Retry(t) \/ Setup(t) \/ SetupFails(t) \/ Alloc(t) \/ CopyPages(t)
                \/ MigratePages(t) \/ MapPages(t) \/ ExclusiveStart(t) \/ ExclusiveCall(t)
                \/ ExclusiveShort(t) \/ SnapshotInsert(t) \/ SnapshotLock(t)
                \/ SnapshotRetry(t) \/ SnapshotCommit(t) \/ SnapshotNext(t)
                \/ SnapshotFails(t)
         PROVE  WalkTypes'
    <2>1. UNCHANGED <<addr, walk>>
      BY <1>14 DEF Populate, CpuStore, InvalidateStart, InvalidateEnd, BounceInit, MutexLock,
          Load,
              Copy, CopyOops, AccessDone, MmapReadLock, WalkBusy, FaultFails, Retry, Setup,
              SetupFails, Alloc, CopyPages, MigratePages, MapPages, ExclusiveStart,
              ExclusiveCall, ExclusiveShort, SnapshotInsert, SnapshotLock, SnapshotRetry,
              SnapshotCommit, SnapshotNext, SnapshotFails, faultVars
    <2> QED  BY <2>1, <1>0
  <1>15. CASE UNCHANGED vars  BY <1>0, <1>15 DEF vars, faultVars
  <1> QED
    BY StartEffect, <1>1, <1>2, <1>3, <1>4, <1>5, <1>6, <1>7, <1>8, <1>9, <1>10, <1>11, <1>12,
       <1>13, <1>14, <1>15
       DEF Next, Access, Fault, Migrate, Exclusive, Snapshot, Kernel

\* The arrays of a fault and of a snapshot.
LEMMA PfnTypesStep == TypeOK /\ PcInv /\ BatchInv /\ [Next]_vars => PfnTypes'
  <1> SUFFICES ASSUME TypeOK, PcInv, BatchInv, [Next]_vars PROVE PfnTypes'  OBVIOUS
  <1>0. ASSUME UNCHANGED <<pfns, perm>> PROVE PfnTypes'
    BY <1>0 DEF PfnTypes, TypeOK
  <1> PfnTypes /\ CpuType  BY TypeParts
  <1> USE DEF PfnTypes, CpuType
  <1>1. ASSUME NEW t \in Thread, ReadBegin(t) PROVE PfnTypes'
    <2>1. NoPfn \in Pfn  BY DEF NoPfn, Pfn
    <2> QED  BY <1>1, <2>1 DEF ReadBegin
  <1>2. ASSUME NEW t \in Thread, Walk(t) PROVE PfnTypes'
    <2>1. walk[t] \in Addr  BY <1>2, Batches DEF Walk, BatchInv, BatchOf, FaultPc
    <2>2. [frame |-> cpu[walk[t]].frame, zone |-> cpu[walk[t]].kind = "dev", write |-> cpu[walk[t]].write] \in Pfn
      BY <2>1 DEF Pte, Pfn
    <2> QED  BY <1>2, <2>2 DEF Walk
  <1>3. ASSUME NEW t \in Thread, SnapshotWalk(t) PROVE PfnTypes'
    <2>1. walk[t] \in Addr  BY <1>3, Batches DEF SnapshotWalk, BatchInv, BatchOf, BatchPc
    <2>2. /\ [frame |-> cpu[walk[t]].frame, zone |-> cpu[walk[t]].kind = "dev", write |-> cpu[walk[t]].write] \in Pfn
          /\ NoPfn \in Pfn /\ ErrorPfn \in Pfn
      BY <2>1 DEF Pte, Pfn, NoPfn, ErrorPfn
    <2>3. /\ \E p \in Pfn : pfns' = [pfns EXCEPT ![t][walk[t]] = p]
          /\ perm' = perm
      BY <1>3, <2>2 DEF SnapshotWalk
    <2> QED  BY <2>1, <2>3
  <1>4. ASSUME NEW t \in Thread, SnapshotCommit(t) PROVE PfnTypes'
    <2>1. NoPfn \in Pfn  BY DEF NoPfn, Pfn
    <2>2. \A a \in Addr : dmirror_mkentry(pfns[t][a]) \in Perm  BY DEF dmirror_mkentry, Perm
    <2>3. "NONE" \in Perm  BY DEF Perm
    <2> QED  BY <1>4, <2>1, <2>2, <2>3 DEF SnapshotCommit
  <1>5. ASSUME NEW t \in Thread, SnapshotOut(t) PROVE PfnTypes'
    <2>1. NoPerms \in [Addr -> Perm]  BY DEF NoPerms, Perm
    <2> QED  BY <1>5, <2>1 DEF SnapshotOut
  <1>6. ASSUME NEW t, NEW c, NEW i, NEW a, NEW v,
                \/ Populate(a) \/ CpuStore(a, v) \/ InvalidateStart(i) \/ InvalidateEnd(i)
                \/ Start(t, c) \/ BounceInit(t) \/ MutexLock(t) \/ Load(t) \/ Copy(t)
                \/ CopyOops(t) \/ AccessDone(t) \/ AccessMiss(t) \/ MmapReadLock(t)
                \/ WalkBusy(t) \/ FaultFails(t) \/ Retry(t) \/ Commit(t) \/ Setup(t)
                \/ SetupFails(t) \/ Alloc(t) \/ CopyPages(t) \/ MigratePages(t)
                \/ MapPages(t) \/ Finalize(t) \/ ExclusiveStart(t) \/ ExclusiveCall(t)
                \/ ExclusiveSet(t) \/ ExclusiveSkip(t) \/ ExclusiveShort(t) \/ AtomicMap(t)
                \/ dmirror_check_atomic(t) \/ SnapshotInsert(t) \/ SnapshotBegin(t)
                \/ SnapshotLock(t) \/ SnapshotRetry(t) \/ SnapshotNext(t)
                \/ SnapshotFails(t)
         PROVE  PfnTypes'
    <2>1. UNCHANGED <<pfns, perm>>
      BY <1>6 DEF Populate, CpuStore, InvalidateStart, InvalidateEnd, Start, BounceInit,
          MutexLock,
              Load, Copy, CopyOops, AccessDone, AccessMiss, MmapReadLock, WalkBusy, FaultFails,
              Retry, Commit, Setup, SetupFails, Alloc, CopyPages, MigratePages, MapPages,
              Finalize, ExclusiveStart, ExclusiveCall, ExclusiveSet, ExclusiveSkip,
              ExclusiveShort, AtomicMap, dmirror_check_atomic, SnapshotInsert, SnapshotBegin,
              SnapshotLock, SnapshotRetry, SnapshotNext, SnapshotFails, faultVars
    <2> QED  BY <2>1, <1>0
  <1>7. CASE UNCHANGED vars  BY <1>0, <1>7 DEF vars, faultVars
  <1> QED
    BY StartEffect, <1>1, <1>2, <1>3, <1>4, <1>5, <1>6, <1>7
       DEF Next, Access, Fault, Migrate, Exclusive, Snapshot, Kernel

\* The arrays of a migration.
LEMMA MigTypesStep == TypeOK /\ PcInv /\ BatchInv /\ [Next]_vars => MigTypes'
  <1> SUFFICES ASSUME TypeOK, PcInv, BatchInv, [Next]_vars PROVE MigTypes'  OBVIOUS
  <1>0. ASSUME UNCHANGED <<src, dst, sel>> PROVE MigTypes'
    BY <1>0 DEF MigTypes, TypeOK
  <1> MigTypes /\ CpuType  BY TypeParts
  <1> USE DEF MigTypes, CpuType
  <1>1. ASSUME NEW t \in Thread, Setup(t) PROVE MigTypes'
    <2>1. BatchRange(t) \subseteq Addr  BY <1>1, Batches DEF Setup, MigratePc
    <2>2. \A a \in Addr : cpu[a].frame \in Frame \cup {NoFrame}  BY DEF Pte
    <2> QED  BY <1>1, <2>1, <2>2 DEF Setup
  <1>2. ASSUME NEW t \in Thread, Alloc(t) PROVE MigTypes'
    <2>1. PICK D \in SUBSET sel[t] : \E new \in [D -> FreeFrames] :
            dst' = [dst EXCEPT ![t] = [a \in Addr |-> IF a \in D THEN new[a] ELSE NoFrame]]
      BY <1>2 DEF Alloc
    <2> QED  BY <1>2, <2>1, FreeAreFrames DEF Alloc
  <1>3. ASSUME NEW t \in Thread, MigratePages(t) PROVE MigTypes'
    BY <1>3 DEF MigratePages
  <1>4. ASSUME NEW t \in Thread, Finalize(t) PROVE MigTypes'
    BY <1>4 DEF Finalize, NoFrames
  <1>5. ASSUME NEW t \in Thread, ExclusiveSet(t) PROVE MigTypes'
    <2>1. walk[t] \in Addr  BY <1>5, Batches DEF ExclusiveSet, BatchInv, BatchOf, ExclusivePc
    <2>2. cpu[walk[t]].frame \in Frame \cup {NoFrame}  BY <2>1 DEF Pte
    <2>3. dst' = dst \/ dst' = [dst EXCEPT ![t][walk[t]] = cpu[walk[t]].frame]
      BY <1>5 DEF ExclusiveSet
    <2>4. dst' \in [Thread -> [Addr -> Frame \cup {NoFrame}]]  BY SMTT(30), <2>2, <2>3
    <2> QED  BY <1>5, <2>4 DEF ExclusiveSet
  <1>6. ASSUME NEW t \in Thread, ExclusiveShort(t) PROVE MigTypes'
    BY <1>6 DEF ExclusiveShort, NoFrames
  <1>7. ASSUME NEW t \in Thread, AtomicMap(t) PROVE MigTypes'
    BY <1>7 DEF AtomicMap, NoFrames
  <1>8. ASSUME NEW t, NEW c, NEW i, NEW a, NEW v,
                \/ Populate(a) \/ CpuStore(a, v) \/ InvalidateStart(i) \/ InvalidateEnd(i)
                \/ Start(t, c) \/ BounceInit(t) \/ MutexLock(t) \/ Load(t) \/ Copy(t)
                \/ CopyOops(t) \/ AccessDone(t) \/ AccessMiss(t) \/ ReadBegin(t)
                \/ MmapReadLock(t) \/ Walk(t) \/ WalkBusy(t) \/ FaultFails(t) \/ Retry(t)
                \/ Commit(t) \/ SetupFails(t) \/ CopyPages(t) \/ MapPages(t)
                \/ ExclusiveStart(t) \/ ExclusiveCall(t) \/ ExclusiveSkip(t)
                \/ dmirror_check_atomic(t) \/ SnapshotInsert(t) \/ SnapshotBegin(t)
                \/ SnapshotLock(t) \/ SnapshotWalk(t) \/ SnapshotRetry(t)
                \/ SnapshotCommit(t) \/ SnapshotOut(t) \/ SnapshotNext(t)
                \/ SnapshotFails(t)
         PROVE  MigTypes'
    <2>1. UNCHANGED <<src, dst, sel>>
      BY <1>8 DEF Populate, CpuStore, InvalidateStart, InvalidateEnd, Start, BounceInit,
          MutexLock,
              Load, Copy, CopyOops, AccessDone, AccessMiss, ReadBegin, MmapReadLock, Walk,
              WalkBusy, FaultFails, Retry, Commit, SetupFails, CopyPages, MapPages,
              ExclusiveStart, ExclusiveCall, ExclusiveSkip, dmirror_check_atomic,
              SnapshotInsert, SnapshotBegin, SnapshotLock, SnapshotWalk, SnapshotRetry,
              SnapshotCommit, SnapshotOut, SnapshotNext, SnapshotFails, migVars
    <2> QED  BY <2>1, <1>0
  <1>9. CASE UNCHANGED vars  BY <1>0, <1>9 DEF vars, migVars
  <1> QED
    BY StartEffect, <1>1, <1>2, <1>3, <1>4, <1>5, <1>6, <1>7, <1>8, <1>9
       DEF Next, Access, Fault, Migrate, Exclusive, Snapshot, Kernel

-----------------------------------------------------------------------------
(***************************************************************************)
(* The notifiers' protocol.                                                *)
(***************************************************************************)
\* Only exclusive access makes a thread an invalidator, from its call to its setting of the entry.
LEMMA Marks ==
    ASSUME TypeOK, PcInv, NEW t \in Thread, Steps(t), ~ExclusiveCall(t), ~ExclusiveSet(t)
    PROVE  /\ UNCHANGED <<active, busy, inval>>
           /\ pc[t] # "xset" /\ pc'[t] # "xset"
  <1>1. ASSUME NEW c \in Cmd, c.op \in OpOf[t], Start(t, c)
        PROVE  UNCHANGED <<active, busy, inval>> /\ pc[t] # "xset" /\ pc'[t] # "xset"
    <2>1. pc'[t] = FirstStep(c.op)  BY <1>1 DEF Start, PcInv
    <2> QED  BY <1>1, <2>1, FirstSteps DEF Start, mmVars, seqVars
  <1>2. CASE BounceInit(t)
    BY <1>2 DEF BounceInit, Return, mmVars, seqVars, PcInv
  <1>3. CASE MutexLock(t)
    BY <1>3 DEF MutexLock, mmVars, seqVars, PcInv
  <1>4. CASE Load(t)
    BY <1>4 DEF Load, mmVars, seqVars, PcInv
  <1>5. CASE Copy(t)
    BY <1>5 DEF Copy, seqVars, PcInv
  <1>6. CASE CopyOops(t)
    BY <1>6 DEF CopyOops, mmVars, seqVars, PcInv
  <1>7. CASE AccessDone(t)
    BY <1>7 DEF AccessDone, Return, mmVars, seqVars, PcInv
  <1>8. CASE AccessMiss(t)
    BY <1>8 DEF AccessMiss, Return, mmVars, seqVars, PcInv
  <1>9. CASE ReadBegin(t)
    BY <1>9 DEF ReadBegin, mmVars, PcInv
  <1>10. CASE MmapReadLock(t)
    BY <1>10 DEF MmapReadLock, mmVars, seqVars, PcInv
  <1>11. CASE Walk(t)
    BY <1>11 DEF Walk, mmVars, seqVars, PcInv
  <1>12. CASE WalkBusy(t)
    BY <1>12 DEF WalkBusy, mmVars, seqVars, PcInv
  <1>13. CASE FaultFails(t)
    BY <1>13 DEF FaultFails, Return, mmVars, seqVars, PcInv
  <1>14. CASE Retry(t)
    BY <1>14 DEF Retry, mmVars, seqVars, PcInv
  <1>15. CASE Commit(t)
    BY <1>15 DEF Commit, Return, mmVars, seqVars, PcInv
  <1>16. CASE Setup(t)
    BY <1>16 DEF Setup, OwnInvalidate, PcInv
  <1>17. CASE SetupFails(t)
    BY <1>17 DEF SetupFails, Return, mmVars, seqVars, PcInv
  <1>18. CASE Alloc(t)
    BY <1>18 DEF Alloc, mmVars, seqVars, PcInv
  <1>19. CASE CopyPages(t)
    BY <1>19 DEF CopyPages, seqVars, PcInv
  <1>20. CASE MigratePages(t)
    BY <1>20 DEF MigratePages, OwnInvalidate, PcInv
  <1>21. CASE MapPages(t)
    BY <1>21 DEF MapPages, mmVars, seqVars, PcInv
  <1>22. CASE Finalize(t)
    BY <1>22 DEF Finalize, Return, seqVars, PcInv
  <1>23. CASE ExclusiveStart(t)
    BY <1>23 DEF ExclusiveStart, mmVars, seqVars, PcInv
  <1>24. CASE ExclusiveSkip(t)
    BY <1>24 DEF ExclusiveSkip, mmVars, seqVars, PcInv
  <1>25. CASE ExclusiveShort(t)
    BY <1>25 DEF ExclusiveShort, Return, mmVars, seqVars, PcInv
  <1>26. CASE AtomicMap(t)
    BY <1>26 DEF AtomicMap, Return, mmVars, seqVars, PcInv
  <1>27. CASE dmirror_check_atomic(t)
    BY <1>27 DEF dmirror_check_atomic, Return, mmVars, seqVars, PcInv
  <1>28. CASE SnapshotInsert(t)
    BY <1>28 DEF SnapshotInsert, Return, mmVars, PcInv
  <1>29. CASE SnapshotBegin(t)
    BY <1>29 DEF SnapshotBegin, mmVars, PcInv
  <1>30. CASE SnapshotLock(t)
    BY <1>30 DEF SnapshotLock, mmVars, seqVars, PcInv
  <1>31. CASE SnapshotWalk(t)
    BY <1>31 DEF SnapshotWalk, mmVars, seqVars, PcInv
  <1>32. CASE SnapshotRetry(t)
    BY <1>32 DEF SnapshotRetry, mmVars, seqVars, PcInv
  <1>33. CASE SnapshotCommit(t)
    BY <1>33 DEF SnapshotCommit, mmVars, seqVars, PcInv
  <1>34. CASE SnapshotOut(t)
    BY <1>34 DEF SnapshotOut, Return, mmVars, seqVars, PcInv
  <1>35. CASE SnapshotNext(t)
    BY <1>35 DEF SnapshotNext, Return, mmVars, seqVars, PcInv
  <1>36. CASE SnapshotFails(t)
    BY <1>36 DEF SnapshotFails, Return, mmVars, seqVars, PcInv
  <1> QED
    BY StartEffect, <1>1, <1>2, <1>3, <1>4, <1>5, <1>6, <1>7, <1>8, <1>9, <1>10, <1>11, <1>12,
        <1>13, <1>14,
       <1>15, <1>16, <1>17, <1>18, <1>19, <1>20, <1>21, <1>22, <1>23, <1>24, <1>25, <1>26,
       <1>27, <1>28, <1>29, <1>30, <1>31, <1>32, <1>33, <1>34, <1>35, <1>36
       DEF Steps, Access, Fault, Migrate, Exclusive, Snapshot

\* The sequence says whether somebody is between the start and the end of an invalidation.
LEMMA ActiveStep == TypeOK /\ PcInv /\ ActiveInv /\ [Next]_vars => ActiveInv'
  <1> SUFFICES ASSUME TypeOK, PcInv, ActiveInv, [Next]_vars PROVE ActiveInv'  OBVIOUS
  <1> USE DEF ActiveInv
  <1>0. active \subseteq Thread \cup Invalidator /\ Thread \cap Invalidator = {}
    BY MirrorAssumption DEF TypeOK
  <1>1. ASSUME NEW t \in Thread, ExclusiveCall(t) PROVE ActiveInv'
    <2>1. /\ active' = active \cup {t} /\ busy' = TRUE /\ inval' = inval
          /\ pc[t] = "xcall" /\ pc'[t] = "xset"
      BY <1>1 DEF ExclusiveCall, dmirror_interval_invalidate, mmVars, PcInv
    <2>2. \A u \in Thread \ {t} : pc'[u] = pc[u]
      BY <1>1, Elsewhere DEF Same, Steps, Exclusive
    <2> QED  BY <1>0, <2>1, <2>2
  <1>2. ASSUME NEW t \in Thread, ExclusiveSet(t) PROVE ActiveInv'
    <2>1. /\ active' = active \ {t} /\ busy' = (busy /\ active # {t}) /\ inval' = inval
          /\ pc[t] = "xset" /\ pc'[t] = "xcall"
      BY <1>2 DEF ExclusiveSet, RangeEnd, PcInv
    <2>2. \A u \in Thread \ {t} : pc'[u] = pc[u]
      BY <1>2, Elsewhere DEF Same, Steps, Exclusive
    <2>3. t \in active /\ (active # {t} <=> active' # {})  BY <2>1
    <2>4. busy' <=> active' # {}  BY <2>1, <2>3
    <2>5. \A i \in Invalidator : i \in active' <=> inval'[i] # NoCmd  BY <1>0, <2>1
    <2>6. \A u \in Thread : u \in active' <=> pc'[u] = "xset"  BY <1>0, <2>1, <2>2
    <2> QED  BY <2>4, <2>5, <2>6
  <1>3. ASSUME NEW t \in Thread, Steps(t), ~ExclusiveCall(t), ~ExclusiveSet(t) PROVE ActiveInv'
    <2>1. UNCHANGED <<active, busy, inval>> /\ pc[t] # "xset" /\ pc'[t] # "xset"
      BY <1>3, Marks
    <2>2. \A u \in Thread \ {t} : pc'[u] = pc[u]  BY <1>3, Elsewhere DEF Same
    <2> QED  BY <2>1, <2>2
  <1>4. ASSUME NEW i \in Invalidator, InvalidateStart(i) PROVE ActiveInv'
    <2>1. /\ active' = active \cup {i} /\ busy' = TRUE /\ inval'[i] \in Change
          /\ \A j \in Invalidator \ {i} : inval'[j] = inval[j]
      BY <1>4, StartInvalidation DEF dmirror_interval_invalidate
    <2>2. pc' = pc /\ inval'[i] # NoCmd  BY <1>4, <2>1, MirrorAssumption DEF InvalidateStart
    <2> QED  BY <1>0, <2>1, <2>2
  <1>5. ASSUME NEW i \in Invalidator, InvalidateEnd(i) PROVE ActiveInv'
    <2>1. /\ active' = active \ {i} /\ busy' = (busy /\ active # {i}) /\ pc' = pc
      BY <1>5 DEF InvalidateEnd, RangeEnd
    <2>2. /\ inval[i] # NoCmd /\ inval'[i] = NoCmd
          /\ \A j \in Invalidator \ {i} : inval'[j] = inval[j]
      BY <1>5, EndInvalidation
    <2>3. i \in active /\ (active # {i} <=> active' # {})  BY <2>1, <2>2
    <2>4. busy' <=> active' # {}  BY <2>1, <2>3
    <2>5. \A j \in Invalidator : j \in active' <=> inval'[j] # NoCmd  BY <1>0, <2>1, <2>2
    <2>6. \A u \in Thread : u \in active' <=> pc'[u] = "xset"  BY <1>0, <2>1
    <2> QED  BY <2>4, <2>5, <2>6
  <1>6. ASSUME NEW a, NEW v, Populate(a) \/ CpuStore(a, v) PROVE ActiveInv'
    BY <1>6 DEF Populate, CpuStore, seqVars
  <1>7. CASE UNCHANGED vars  BY <1>7 DEF vars, mmVars, seqVars
  <1> QED  BY <1>1, <1>2, <1>3, <1>4, <1>5, <1>6, <1>7 DEF Next, Steps, Kernel

\* How a thread gets to, and on in, a batch of a snapshot.
LEMMA SnapshotSteps ==
    ASSUME TypeOK, PcInv, NEW t \in Thread, Steps(t), Snapping(t)'
    PROVE  \/ SnapshotInsert(t) /\ pc[t] = "sinsert" /\ pc'[t] = "sbegin"
           \/ SnapshotBegin(t) /\ pc[t] = "sbegin" /\ pc'[t] = "smmap"
           \/ SnapshotLock(t) /\ pc[t] = "smmap" /\ pc'[t] = "swalk"
           \/ SnapshotWalk(t) /\ pc[t] = "swalk" /\ pc'[t] \in {"swalk", "scommit"}
           \/ SnapshotRetry(t) /\ pc[t] \in {"swalk", "scommit"} /\ pc'[t] = "sbegin"
           \/ SnapshotCommit(t) /\ pc[t] = "scommit" /\ pc'[t] = "sout"
           \/ SnapshotFails(t) /\ pc[t] = "swalk" /\ pc'[t] = "sfail"
  <1>1. ~( \/ BounceInit(t) \/ MutexLock(t) \/ Load(t) \/ Copy(t) \/ CopyOops(t)
           \/ AccessDone(t) \/ AccessMiss(t) \/ ReadBegin(t) \/ MmapReadLock(t)
           \/ Walk(t) \/ WalkBusy(t) \/ FaultFails(t) \/ Retry(t) \/ Commit(t)
           \/ Setup(t) \/ SetupFails(t) \/ Alloc(t) \/ CopyPages(t)
           \/ MigratePages(t) \/ MapPages(t) \/ Finalize(t) \/ ExclusiveStart(t)
           \/ ExclusiveCall(t) \/ ExclusiveSet(t) \/ ExclusiveSkip(t)
           \/ ExclusiveShort(t) \/ AtomicMap(t) \/ dmirror_check_atomic(t)
           \/ SnapshotOut(t) \/ SnapshotNext(t))
    BY DEF Snapping, BounceInit, MutexLock, Load, Copy, CopyOops, AccessDone, AccessMiss,
        ReadBegin,
           MmapReadLock, Walk, WalkBusy, FaultFails, Retry, Commit, Setup, SetupFails, Alloc,
           CopyPages, MigratePages, MapPages, Finalize, ExclusiveStart, ExclusiveCall,
           ExclusiveSet, ExclusiveSkip, ExclusiveShort, AtomicMap, dmirror_check_atomic,
           SnapshotOut, SnapshotNext, Return, PcInv
  <1>2. ASSUME NEW c \in Cmd, c.op \in OpOf[t], Start(t, c) PROVE FALSE
    <2>1. pc'[t] = FirstStep(c.op)  BY <1>2 DEF Start, PcInv
    <2> QED  BY <1>2, <2>1, FirstSteps DEF Snapping
  <1>3. \/ SnapshotInsert(t) \/ SnapshotBegin(t) \/ SnapshotLock(t)
        \/ SnapshotWalk(t) \/ SnapshotRetry(t) \/ SnapshotCommit(t) \/ SnapshotFails(t)
    BY <1>1, <1>2, StartEffect DEF Steps, Access, Fault, Migrate, Exclusive, Snapshot
  <1>4. CASE SnapshotInsert(t)  BY <1>4 DEF SnapshotInsert, Return, Snapping, PcInv
  <1>5. CASE SnapshotBegin(t)  BY <1>5 DEF SnapshotBegin, PcInv
  <1>6. CASE SnapshotLock(t)  BY <1>6 DEF SnapshotLock, PcInv
  <1>7. CASE SnapshotWalk(t)  BY <1>7 DEF SnapshotWalk, PcInv
  <1>8. CASE SnapshotRetry(t)  BY <1>8 DEF SnapshotRetry, PcInv
  <1>9. CASE SnapshotCommit(t)  BY <1>9 DEF SnapshotCommit, PcInv
  <1>10. CASE SnapshotFails(t)  BY <1>10 DEF SnapshotFails, Return, Snapping, PcInv
  <1> QED  BY <1>3, <1>4, <1>5, <1>6, <1>7, <1>8, <1>9, <1>10

\* No thread makes another's notifier even before the invalidations have ended.
LEMMA StayBusy ==
    ASSUME TypeOK, PcInv, NEW s \in Thread, Steps(s), ~ExclusiveSet(s), NEW t \in sbusy, t # s
    PROVE  t \in sbusy'
  <1>1. CASE Setup(s)  BY <1>1 DEF Setup, OwnInvalidate
  <1>2. CASE MigratePages(s)  BY <1>2 DEF MigratePages, OwnInvalidate
  <1>3. CASE ExclusiveCall(s)  BY <1>3 DEF ExclusiveCall, dmirror_interval_invalidate
  <1>4. CASE SnapshotInsert(s)  BY <1>4 DEF SnapshotInsert
  <1>5. ASSUME NEW c, \/ Start(s, c) \/ BounceInit(s) \/ MutexLock(s) \/ Load(s) \/ Copy(s)
                       \/ CopyOops(s) \/ AccessDone(s) \/ AccessMiss(s) \/ ReadBegin(s)
                       \/ MmapReadLock(s) \/ Walk(s) \/ WalkBusy(s) \/ FaultFails(s) \/ Retry(s)
                       \/ Commit(s) \/ SetupFails(s) \/ Alloc(s) \/ CopyPages(s) \/ MapPages(s)
                       \/ Finalize(s) \/ ExclusiveStart(s) \/ ExclusiveSkip(s)
                       \/ ExclusiveShort(s) \/ AtomicMap(s) \/ dmirror_check_atomic(s)
                       \/ SnapshotBegin(s) \/ SnapshotLock(s) \/ SnapshotWalk(s)
                       \/ SnapshotRetry(s) \/ SnapshotCommit(s) \/ SnapshotOut(s)
                       \/ SnapshotNext(s) \/ SnapshotFails(s)
        PROVE  sbusy' = sbusy
    BY <1>5 DEF Start, BounceInit, MutexLock, Load, Copy, CopyOops, AccessDone, AccessMiss,
           ReadBegin, MmapReadLock, Walk, WalkBusy, FaultFails, Retry, Commit, SetupFails,
           Alloc, CopyPages, MapPages, Finalize, ExclusiveStart, ExclusiveSkip, ExclusiveShort,
           AtomicMap, dmirror_check_atomic, SnapshotBegin, SnapshotLock, SnapshotWalk,
           SnapshotRetry, SnapshotCommit, SnapshotOut, SnapshotNext, SnapshotFails, seqVars
  <1> QED
    BY StartEffect, <1>1, <1>2, <1>3, <1>4, <1>5
       DEF Steps, Access, Fault, Migrate, Exclusive, Snapshot

\* While a page of its batch is being invalidated, a snapshot's notifier is busy.
LEMMA ToldStep ==
    TypeOK /\ PcInv /\ ActiveInv /\ ToldInv /\ [Next]_vars => ToldInv'
  <1> SUFFICES ASSUME TypeOK, PcInv, ActiveInv, ToldInv, [Next]_vars PROVE ToldInv'  OBVIOUS
  <1>0. Thread \cap Invalidator = {}  BY MirrorAssumption
  <1> USE DEF ToldInv, ToldOf
  <1>1. ASSUME NEW t \in Thread, Same(t)
        PROVE  Snapping(t)' = Snapping(t) /\ BatchRange(t)' = BatchRange(t)
    BY <1>1 DEF Same, Snapping, BatchRange, BatchEnd
  <1>2. ASSUME NEW w \in Thread, ExclusiveCall(w), NEW t \in Thread PROVE ToldOf(t)'
    <2>1. /\ pc'[w] = "xset" /\ UNCHANGED <<walk, inval>>
          /\ sbusy' = sbusy \cup dmirror_snapshot_invalidate({walk[w]}, FALSE)
      BY <1>2 DEF ExclusiveCall, dmirror_interval_invalidate, mmVars, faultVars, PcInv
    <2>2. CASE t = w  BY <2>1, <2>2 DEF Snapping
    <2>3. CASE t # w
      <3>1. Same(t)  BY <1>2, <2>3, Elsewhere DEF Steps, Exclusive
      <3>2. \A u \in Thread \ {w} : pc'[u] = pc[u]  BY <1>2, Elsewhere DEF Same, Steps, Exclusive
      <3>3. Snapping(t) /\ walk[w] \in BatchRange(t) => t \in sbusy'
        BY <2>1 DEF dmirror_snapshot_invalidate
      <3> QED  BY <1>1, <2>1, <3>1, <3>2, <3>3 DEF Page
    <2> QED  BY <2>2, <2>3
  <1>3. ASSUME NEW w \in Thread, ExclusiveSet(w), NEW t \in Thread PROVE ToldOf(t)'
    <2>1. /\ pc'[w] = "xcall" /\ UNCHANGED inval
          /\ sbusy' = IF active = {w} THEN {} ELSE sbusy
      BY <1>3 DEF ExclusiveSet, RangeEnd, PcInv
    <2>2. CASE t = w  BY <2>1, <2>2 DEF Snapping
    <2>3. CASE t # w
      <3>1. Same(t)  BY <1>3, <2>3, Elsewhere DEF Steps, Exclusive
      <3>2. \A u \in Thread \ {w} : pc'[u] = pc[u] /\ walk'[u] = walk[u]
        BY <1>3, Elsewhere DEF Same, Steps, Exclusive
      <3>3. ASSUME NEW i \in Invalidator, inval[i] # NoCmd PROVE sbusy' = sbusy
        BY <1>0, <2>1, <3>3 DEF ActiveInv
      <3>4. ASSUME NEW u \in Thread, pc'[u] = "xset" PROVE sbusy' = sbusy /\ u # w
        BY <2>1, <3>2, <3>4 DEF ActiveInv
      <3> QED  BY <1>1, <2>1, <3>1, <3>2, <3>3, <3>4 DEF Page
    <2> QED  BY <2>2, <2>3
  <1>4. ASSUME NEW s \in Thread, Steps(s), ~ExclusiveCall(s), ~ExclusiveSet(s), NEW t \in Thread
        PROVE  ToldOf(t)'
    <2>1. UNCHANGED inval /\ pc[s] # "xset" /\ pc'[s] # "xset"  BY <1>4, Marks
    <2>2. \A u \in Thread \ {s} : pc'[u] = pc[u] /\ walk'[u] = walk[u]
      BY <1>4, Elsewhere DEF Same
    <2>3. CASE t # s
      <3>1. Same(t)  BY <1>4, <2>3, Elsewhere
      <3>2. t \in sbusy => t \in sbusy'  BY <1>4, <2>3, StayBusy
      <3> QED  BY <1>1, <2>1, <2>2, <3>1, <3>2 DEF Page
    <2>4. CASE t = s /\ Snapping(t)'
      <3>1. CASE SnapshotInsert(t) /\ pc'[t] = "sbegin"
        <4>1. sbusy' = IF active = {} THEN sbusy \ {t} ELSE sbusy \cup {t}
          BY <3>1 DEF SnapshotInsert, Return, PcInv
        <4>2. ASSUME NEW i \in Invalidator, inval[i] # NoCmd PROVE t \in sbusy'
          BY <4>1, <4>2 DEF ActiveInv
        <4>3. ASSUME NEW u \in Thread, pc'[u] = "xset" PROVE t \in sbusy'
          BY <2>1, <2>2, <4>1, <4>3 DEF ActiveInv
        <4> QED  BY <2>1, <4>2, <4>3
      <3>2. CASE \/ SnapshotBegin(t) \/ SnapshotLock(t) \/ SnapshotWalk(t)
                 \/ SnapshotRetry(t) \/ SnapshotCommit(t)
        <4>1. UNCHANGED <<sbusy, addr, cmd>> /\ Snapping(t)
          BY <3>2 DEF SnapshotBegin, SnapshotLock, SnapshotWalk, SnapshotRetry, SnapshotCommit,
                      seqVars, accessVars, faultVars, Snapping
        <4>2. BatchRange(t)' = BatchRange(t)  BY <4>1 DEF BatchRange, BatchEnd
        <4> QED  BY <2>1, <2>2, <2>4, <4>1, <4>2 DEF Page
      <3>3. CASE SnapshotFails(t) /\ pc[t] = "swalk" /\ pc'[t] = "sfail"
        <4>1. UNCHANGED <<sbusy, addr, cmd>> /\ Snapping(t)
          BY <3>3 DEF SnapshotFails, Return, seqVars, faultVars, Snapping, PcInv
        <4>2. BatchRange(t)' = BatchRange(t)  BY <4>1 DEF BatchRange, BatchEnd
        <4> QED  BY <2>1, <2>2, <2>4, <4>1, <4>2 DEF Page
      <3> QED  BY <1>4, <2>4, <3>1, <3>2, <3>3, SnapshotSteps
    <2> QED  BY <2>3, <2>4
  <1>5. ASSUME NEW i \in Invalidator, InvalidateStart(i), NEW t \in Thread PROVE ToldOf(t)'
    <2>0. PICK ev \in Event, a \in Addr :
            /\ inval'[i] = [ev |-> ev, addr |-> a, pte |-> cpu[a]]
            /\ \A j \in Invalidator \ {i} : inval'[j] = inval[j]
            /\ dmirror_interval_invalidate(i, a)
      BY <1>5, StartInvalidation
    <2>1. /\ inval'[i].addr = a /\ \A j \in Invalidator \ {i} : inval'[j] = inval[j]
          /\ sbusy' = sbusy \cup dmirror_snapshot_invalidate({a}, FALSE)
      BY <2>0 DEF dmirror_interval_invalidate
    <2>2. UNCHANGED <<pc, walk>> /\ Same(t)
      BY <1>5 DEF InvalidateStart, Same, accessVars, faultVars, migVars
    <2>3. Snapping(t) /\ a \in BatchRange(t) => t \in sbusy'
      BY <2>1 DEF dmirror_snapshot_invalidate
    <2>4. ASSUME NEW j \in Invalidator, Snapping(t), inval'[j] # NoCmd, Page(j)' \in BatchRange(t)
          PROVE  t \in sbusy'
      <3>1. CASE j = i  BY <2>1, <2>3, <2>4, <3>1 DEF Page
      <3>2. CASE j # i  BY <2>1, <2>4, <3>2 DEF Page
      <3> QED  BY <3>1, <3>2
    <2> QED  BY <1>1, <2>1, <2>2, <2>4
  <1>6. ASSUME NEW i \in Invalidator, InvalidateEnd(i), NEW t \in Thread PROVE ToldOf(t)'
    <2>1. /\ inval'[i] = NoCmd /\ inval[i] # NoCmd
          /\ \A j \in Invalidator \ {i} : inval'[j] = inval[j]
      BY <1>6, EndInvalidation
    <2>2. UNCHANGED <<pc, walk>> /\ Same(t) /\ sbusy' = IF active = {i} THEN {} ELSE sbusy
      BY <1>6 DEF InvalidateEnd, RangeEnd, Same, accessVars, faultVars, migVars
    <2>3. ASSUME NEW j \in Invalidator, inval'[j] # NoCmd PROVE sbusy' = sbusy /\ j # i
      BY <2>1, <2>2, <2>3 DEF ActiveInv
    <2>4. ASSUME NEW u \in Thread, pc'[u] = "xset" PROVE sbusy' = sbusy
      BY <1>0, <2>2, <2>4 DEF ActiveInv
    <2> QED  BY <1>1, <2>1, <2>2, <2>3, <2>4 DEF Page
  <1>7. ASSUME NEW a, NEW v, Populate(a) \/ CpuStore(a, v), NEW t \in Thread PROVE ToldOf(t)'
    <2>1. UNCHANGED <<pc, walk, inval, sbusy>> /\ Same(t)
      BY <1>7 DEF Populate, CpuStore, Same, seqVars, accessVars, faultVars, migVars
    <2> QED  BY <1>1, <2>1 DEF Page
  <1>8. ASSUME UNCHANGED vars, NEW t \in Thread PROVE ToldOf(t)'
    <2>1. UNCHANGED <<pc, walk, inval, sbusy>> /\ Same(t)
      BY <1>8 DEF vars, Same, mmVars, seqVars, accessVars, faultVars, migVars
    <2> QED  BY <1>1, <2>1 DEF Page
  <1> QED  BY <1>2, <1>3, <1>4, <1>5, <1>6, <1>7, <1>8 DEF Next, Steps, Kernel

\* A reading is valid only as long as no invalidation has begun.
LEMMA ReadStep ==
    TypeOK /\ PcInv /\ ReadInv /\ [Next]_vars => ReadInv'
  <1> SUFFICES ASSUME TypeOK, PcInv, ReadInv, [Next]_vars PROVE ReadInv'  OBVIOUS
  <1>0. ASSUME NEW t \in Thread, Same(t), UNCHANGED <<busy, sbusy, fresh>> PROVE ReadOf(t)'
    BY <1>0 DEF Same, ReadInv, ReadOf
  <1> USE DEF ReadInv, ReadOf
  <1>1. ASSUME NEW t \in Thread, ReadBegin(t) PROVE ReadOf(t)'
    <2>1. ~busy' /\ pc'[t] = "mmap"  BY <1>1 DEF ReadBegin, PcInv
    <2> QED  BY <2>1
  <1>2. ASSUME NEW t \in Thread, MmapReadLock(t) PROVE ReadOf(t)'
    <2>1. pc[t] = "mmap" /\ UNCHANGED <<busy, sbusy, fresh>>
      BY <1>2 DEF MmapReadLock, seqVars
    <2>2. pc'[t] \in {"walk", "commit"}  BY <1>2 DEF MmapReadLock, PcInv
    <2> QED  BY <2>1, <2>2
  <1>3. ASSUME NEW t \in Thread, Walk(t) PROVE ReadOf(t)'
    <2>1. pc[t] = "walk" /\ UNCHANGED <<busy, sbusy, fresh>>
      BY <1>3 DEF Walk, seqVars
    <2>2. pc'[t] \in {"walk", "commit"}  BY <1>3 DEF Walk, PcInv
    <2> QED  BY <2>1, <2>2
  <1>4. ASSUME NEW t \in Thread, SnapshotBegin(t) PROVE ReadOf(t)'
    <2>1. t \notin sbusy' /\ pc'[t] = "smmap"  BY <1>4 DEF SnapshotBegin, PcInv
    <2> QED  BY <2>1
  <1>5. ASSUME NEW t \in Thread, SnapshotLock(t) PROVE ReadOf(t)'
    <2>1. pc[t] = "smmap" /\ UNCHANGED <<busy, sbusy, fresh>>
      BY <1>5 DEF SnapshotLock, seqVars
    <2>2. pc'[t] \in {"swalk", "scommit"}  BY <1>5 DEF SnapshotLock, PcInv
    <2> QED  BY <2>1, <2>2
  <1>6. ASSUME NEW t \in Thread, SnapshotWalk(t) PROVE ReadOf(t)'
    <2>1. pc[t] = "swalk" /\ UNCHANGED <<busy, sbusy, fresh>>
      BY <1>6 DEF SnapshotWalk, seqVars
    <2>2. pc'[t] \in {"swalk", "scommit"}  BY <1>6 DEF SnapshotWalk, PcInv
    <2> QED  BY <2>1, <2>2
  <1>7. ASSUME NEW t \in Thread,
                \/ BounceInit(t) \/ MutexLock(t) \/ Load(t) \/ Copy(t) \/ CopyOops(t)
                \/ AccessDone(t) \/ AccessMiss(t) \/ WalkBusy(t) \/ FaultFails(t)
                \/ Retry(t) \/ Commit(t) \/ Setup(t) \/ SetupFails(t) \/ Alloc(t)
                \/ CopyPages(t) \/ MigratePages(t) \/ MapPages(t) \/ Finalize(t)
                \/ ExclusiveStart(t) \/ ExclusiveCall(t) \/ ExclusiveSet(t)
                \/ ExclusiveSkip(t) \/ ExclusiveShort(t) \/ AtomicMap(t)
                \/ dmirror_check_atomic(t) \/ SnapshotInsert(t) \/ SnapshotRetry(t)
                \/ SnapshotCommit(t) \/ SnapshotOut(t) \/ SnapshotNext(t)
                \/ SnapshotFails(t)
         PROVE  ReadOf(t)'
    <2>1. pc'[t] \notin {"smmap", "swalk", "scommit", "mmap", "walk", "commit"}
      BY <1>7 DEF BounceInit, MutexLock, Load, Copy, CopyOops, AccessDone, AccessMiss, WalkBusy,
              FaultFails, Retry, Commit, Setup, SetupFails, Alloc, CopyPages, MigratePages,
              MapPages, Finalize, ExclusiveStart, ExclusiveCall, ExclusiveSet, ExclusiveSkip,
              ExclusiveShort, AtomicMap, dmirror_check_atomic, SnapshotInsert, SnapshotRetry,
              SnapshotCommit, SnapshotOut, SnapshotNext, SnapshotFails, Return, PcInv
    <2> QED  BY <2>1
  <1>8. ASSUME NEW t \in Thread, NEW c \in Cmd, c.op \in OpOf[t], Start(t, c) PROVE ReadOf(t)'
    <2>1. pc'[t] = FirstStep(c.op)  BY <1>8 DEF Start, PcInv
    <2> QED  BY <1>8, <2>1, FirstSteps
  <1>9. ASSUME NEW u \in Thread, NEW t \in Thread, u # t, Same(t), ReadBegin(u) PROVE ReadOf(t)'
    <2>1. fresh'[t] = fresh[t] /\ UNCHANGED <<busy, sbusy>>  BY <1>9 DEF ReadBegin, TypeOK
    <2> QED  BY <1>9, <2>1 DEF Same
  <1>10. ASSUME NEW u \in Thread, NEW t \in Thread, u # t, Same(t), Setup(u) PROVE ReadOf(t)'
    <2>1. /\ sbusy' \subseteq sbusy \cup dmirror_snapshot_invalidate(BatchRange(u), TRUE)
          /\ fresh'[t] = (fresh[t] /\ t \notin dmirror_snapshot_invalidate(BatchRange(u), TRUE))
          /\ busy' = busy
      BY <1>10 DEF Setup, OwnInvalidate
    <2> QED  BY <1>10, <2>1 DEF Same
  <1>11. ASSUME NEW u \in Thread, NEW t \in Thread, u # t, Same(t), MigratePages(u)
        PROVE  ReadOf(t)'
    <2>1. /\ sbusy' \subseteq sbusy \cup dmirror_snapshot_invalidate(
                                           {b \in BatchRange(u) : \E a \in Inserted(u) : a <= b}, TRUE)
          /\ fresh'[t] = (/\ fresh[t]
                          /\ t \notin dmirror_snapshot_invalidate(
                                     {b \in BatchRange(u) : \E a \in Inserted(u) : a <= b}, TRUE))
          /\ busy' = busy
      BY <1>11 DEF MigratePages, OwnInvalidate
    <2> QED  BY <1>11, <2>1 DEF Same
  <1>12. ASSUME NEW u \in Thread, NEW t \in Thread, u # t, Same(t), ExclusiveCall(u)
        PROVE  ReadOf(t)'
    <2>1. /\ sbusy' = sbusy \cup dmirror_snapshot_invalidate({walk[u]}, FALSE)
          /\ fresh'[t] = (/\ fresh[t] /\ Snapping(t)
                          /\ t \notin dmirror_snapshot_invalidate({walk[u]}, FALSE))
      BY <1>12 DEF ExclusiveCall, dmirror_interval_invalidate
    <2> QED  BY <1>12, <2>1 DEF Same, Snapping
  <1>13. ASSUME NEW u \in Thread, NEW t \in Thread, u # t, Same(t), ExclusiveSet(u)
        PROVE  ReadOf(t)'
    <2>1. fresh' = fresh /\ (t \in sbusy' => t \in sbusy) /\ (busy' => busy)
      BY <1>13 DEF ExclusiveSet, RangeEnd
    <2> QED  BY <1>13, <2>1 DEF Same
  <1>14. ASSUME NEW u \in Thread, NEW t \in Thread, u # t, Same(t), SnapshotInsert(u)
        PROVE  ReadOf(t)'
    <2>1. (t \in sbusy' => t \in sbusy) /\ UNCHANGED <<busy, fresh>>  BY <1>14 DEF SnapshotInsert
    <2> QED  BY <1>14, <2>1 DEF Same
  <1>15. ASSUME NEW u \in Thread, NEW t \in Thread, u # t, Same(t), SnapshotBegin(u)
        PROVE  ReadOf(t)'
    <2>1. fresh'[t] = fresh[t] /\ UNCHANGED <<busy, sbusy>>  BY <1>15 DEF SnapshotBegin, TypeOK
    <2> QED  BY <1>15, <2>1 DEF Same
  <1>16. ASSUME NEW u, NEW c, NEW t \in Thread, Same(t),
                \/ Start(u, c) \/ BounceInit(u) \/ MutexLock(u) \/ Load(u) \/ Copy(u)
                \/ CopyOops(u) \/ AccessDone(u) \/ AccessMiss(u) \/ MmapReadLock(u)
                \/ Walk(u) \/ WalkBusy(u) \/ FaultFails(u) \/ Retry(u) \/ Commit(u)
                \/ SetupFails(u) \/ Alloc(u) \/ CopyPages(u) \/ MapPages(u)
                \/ Finalize(u) \/ ExclusiveStart(u) \/ ExclusiveSkip(u)
                \/ ExclusiveShort(u) \/ AtomicMap(u) \/ dmirror_check_atomic(u)
                \/ SnapshotLock(u) \/ SnapshotWalk(u) \/ SnapshotRetry(u)
                \/ SnapshotCommit(u) \/ SnapshotOut(u) \/ SnapshotNext(u)
                \/ SnapshotFails(u)
         PROVE  ReadOf(t)'
    <2>1. UNCHANGED <<busy, sbusy, fresh>>
      BY <1>16 DEF Start, BounceInit, MutexLock, Load, Copy, CopyOops, AccessDone, AccessMiss,
              MmapReadLock, Walk, WalkBusy, FaultFails, Retry, Commit, SetupFails, Alloc,
              CopyPages, MapPages, Finalize, ExclusiveStart, ExclusiveSkip, ExclusiveShort,
              AtomicMap, dmirror_check_atomic, SnapshotLock, SnapshotWalk, SnapshotRetry,
              SnapshotCommit, SnapshotOut, SnapshotNext, SnapshotFails, seqVars
    <2> QED  BY <1>0, <1>16, <2>1
  <1>17. ASSUME NEW t \in Thread, Steps(t) PROVE ReadOf(t)'
    BY StartEffect, <1>17, <1>1, <1>2, <1>3, <1>4, <1>5, <1>6, <1>7, <1>8
       DEF Steps, Access, Fault, Migrate, Exclusive, Snapshot
  <1>18. ASSUME NEW u \in Thread, NEW t \in Thread, u # t, Steps(u) PROVE ReadOf(t)'
    <2>1. Same(t)  BY <1>18, Elsewhere
    <2> QED  BY StartEffect, <1>18, <2>1, <1>9, <1>10, <1>11, <1>12, <1>13, <1>14, <1>15, <1>16
            DEF Steps, Access, Fault, Migrate, Exclusive, Snapshot
  <1>19. ASSUME NEW t \in Thread, Same(t), NEW i \in Invalidator, InvalidateStart(i)
        PROVE  ReadOf(t)'
    <2>1. PICK a \in Addr :
            /\ sbusy' = sbusy \cup dmirror_snapshot_invalidate({a}, FALSE)
            /\ fresh'[t] = (/\ fresh[t] /\ Snapping(t)
                            /\ t \notin dmirror_snapshot_invalidate({a}, FALSE))
      BY <1>19 DEF InvalidateStart, dmirror_interval_invalidate
    <2> QED  BY <1>19, <2>1 DEF Same, Snapping
  <1>20. ASSUME NEW t \in Thread, Same(t), NEW i \in Invalidator, InvalidateEnd(i)
        PROVE  ReadOf(t)'
    <2>1. fresh' = fresh /\ (t \in sbusy' => t \in sbusy) /\ (busy' => busy)
      BY <1>20 DEF InvalidateEnd, RangeEnd
    <2> QED  BY <1>20, <2>1 DEF Same
  <1>21. ASSUME NEW t \in Thread, Same(t), NEW a, NEW v, NEW i, Populate(a) \/ CpuStore(a, v)
        PROVE  ReadOf(t)'
    <2>1. UNCHANGED <<busy, sbusy, fresh>>  BY <1>21 DEF Populate, CpuStore, seqVars
    <2> QED  BY <1>0, <1>21, <2>1
  <1>22. ASSUME NEW t \in Thread, Kernel PROVE ReadOf(t)'
    <2>1. Same(t)  BY <1>22, KernelElsewhere DEF Same
    <2> QED  BY <1>22, <2>1, <1>19, <1>20, <1>21 DEF Kernel
  <1>23. ASSUME NEW t \in Thread, UNCHANGED vars PROVE ReadOf(t)'
    BY <1>0, <1>23 DEF Same, vars, mmVars, seqVars, accessVars, faultVars, migVars
  <1> QED  BY <1>17, <1>18, <1>22, <1>23 DEF Next, Steps

\* What a snapshot has read stays true while its reading is valid.
LEMMA SnapStep ==
    /\ TypeOK /\ PcInv /\ BatchInv /\ CpuInv /\ ToldInv /\ ReadInv /\ SnapInv
    /\ [Next]_vars
    => SnapInv'
  <1> SUFFICES ASSUME TypeOK, PcInv, BatchInv, CpuInv, ToldInv, ReadInv, SnapInv, [Next]_vars
        PROVE  SnapInv'  OBVIOUS
  <1>z. ASSUME NEW t \in Thread, pc[t] \in {"swalk", "scommit"}, fresh[t]
        PROVE  /\ BatchRange(t) \subseteq Addr
               /\ \A i \in Invalidator : inval[i] # NoCmd => Page(i) \notin BatchRange(t)
               /\ \A u \in Thread : pc[u] = "xset" => walk[u] \notin BatchRange(t)
    <2>1. t \notin sbusy  BY <1>z DEF ReadInv, ReadOf
    <2>2. BatchRange(t) \subseteq Addr  BY <1>z, Batches DEF BatchPc
    <2> QED  BY <1>z, <2>1, <2>2 DEF ToldInv, ToldOf, Snapping
  <1>0. ASSUME NEW t \in Thread, Same(t), UNCHANGED <<cpu, fresh>> PROVE SnapOf(t)'
    BY <1>0 DEF Same, SnapInv, SnapOf, BatchRange, BatchEnd
  <1> USE DEF SnapInv, SnapOf
  <1>1. ASSUME NEW t \in Thread, SnapshotLock(t) PROVE SnapOf(t)'
    <2>1. pc[t] = "smmap" /\ UNCHANGED <<addr, walk, cmd>>
      BY <1>1 DEF SnapshotLock, accessVars, faultVars
    <2>2. /\ walk'[t] = addr'[t] /\ addr'[t] \in Int /\ BatchRange(t)' = BatchRange(t)
          /\ BatchEnd(t) \in Int
      BY <2>1, Batches DEF BatchInv, BatchOf, BatchRange, BatchEnd, BatchPc, Addr
    <2>3. \A a \in BatchRange(t) : ~(a < walk'[t])  BY <2>1, <2>2 DEF BatchRange
    <2> QED  BY <2>2, <2>3
  <1>2. ASSUME NEW t \in Thread, SnapshotWalk(t) PROVE SnapOf(t)'
    <2> DEFINE w == walk[t]
    <2>1. /\ pc[t] = "swalk" /\ UNCHANGED <<addr, cmd, cpu, fresh>> /\ walk'[t] = w + 1
          /\ BatchRange(t) \subseteq Addr /\ w \in Addr
      BY <1>2, Batches DEF SnapshotWalk, mmVars, seqVars, accessVars, BatchInv, BatchOf,
          BatchPc, TypeOK
    <2>2. BatchRange(t)' = BatchRange(t)  BY <2>1 DEF BatchRange, BatchEnd
    <2>3. IF cpu[w].kind \in {"sys", "dev"}
            THEN pfns'[t][w] = [frame |-> cpu[w].frame, zone |-> cpu[w].kind = "dev",
                                write |-> cpu[w].write]
            ELSE pfns'[t][w] \in {NoPfn, ErrorPfn}
      BY <1>2, <2>1 DEF SnapshotWalk, TypeOK
    <2>4. dmirror_mkentry(pfns'[t][w]) \in {"NONE", "ERROR", Permission(cpu[w])}
      <3>1. CASE cpu[w].kind \in {"sys", "dev"}
        <4>1. cpu[w].frame # NoFrame  BY <2>1, <3>1 DEF CpuInv, Proper
        <4>a. CASE cpu[w].kind = "dev"
          <5>1. pfns'[t][w] = [frame |-> cpu[w].frame, zone |-> TRUE, write |-> cpu[w].write]
            BY <2>3, <4>a
          <5> QED  BY <4>1, <4>a, <5>1 DEF dmirror_mkentry, Permission, ErrorPfn
        <4>b. CASE cpu[w].kind = "sys"
          <5>1. pfns'[t][w] = [frame |-> cpu[w].frame, zone |-> FALSE, write |-> cpu[w].write]
            BY <2>3, <4>b
          <5> QED  BY <4>1, <4>b, <5>1 DEF dmirror_mkentry, Permission, ErrorPfn
        <4> QED  BY <3>1, <4>a, <4>b
      <3>2. CASE cpu[w].kind \notin {"sys", "dev"}
        BY <2>3, <3>2 DEF dmirror_mkentry, NoPfn, ErrorPfn
      <3> QED  BY <3>1, <3>2
    <2>5. \A a \in Addr : a # w => pfns'[t][a] = pfns[t][a]  BY <1>2 DEF SnapshotWalk, TypeOK
    <2>6. ASSUME fresh[t], NEW a \in BatchRange(t), a < w + 1
          PROVE  dmirror_mkentry(pfns'[t][a]) \in {"NONE", "ERROR", Permission(cpu[a])}
      <3>1. a = w \/ a < w  BY <2>1, <2>6 DEF Addr
      <3> QED  BY <2>1, <2>4, <2>5, <2>6, <3>1
    <2> QED  BY <2>1, <2>2, <2>6
  <1>3. ASSUME NEW t \in Thread,
                \/ BounceInit(t) \/ MutexLock(t) \/ Load(t) \/ Copy(t) \/ CopyOops(t)
                \/ AccessDone(t) \/ AccessMiss(t) \/ ReadBegin(t) \/ MmapReadLock(t)
                \/ Walk(t) \/ WalkBusy(t) \/ FaultFails(t) \/ Retry(t) \/ Commit(t)
                \/ Setup(t) \/ SetupFails(t) \/ Alloc(t) \/ CopyPages(t)
                \/ MigratePages(t) \/ MapPages(t) \/ Finalize(t) \/ ExclusiveStart(t)
                \/ ExclusiveCall(t) \/ ExclusiveSet(t) \/ ExclusiveSkip(t)
                \/ ExclusiveShort(t) \/ AtomicMap(t) \/ dmirror_check_atomic(t)
                \/ SnapshotInsert(t) \/ SnapshotBegin(t) \/ SnapshotRetry(t)
                \/ SnapshotCommit(t) \/ SnapshotOut(t) \/ SnapshotNext(t)
                \/ SnapshotFails(t)
         PROVE  SnapOf(t)'
    <2>1. pc'[t] \notin {"swalk", "scommit"}
      BY <1>3 DEF BounceInit, MutexLock, Load, Copy, CopyOops, AccessDone, AccessMiss, ReadBegin,
              MmapReadLock, Walk, WalkBusy, FaultFails, Retry, Commit, Setup, SetupFails, Alloc,
              CopyPages, MigratePages, MapPages, Finalize, ExclusiveStart, ExclusiveCall,
              ExclusiveSet, ExclusiveSkip, ExclusiveShort, AtomicMap, dmirror_check_atomic,
              SnapshotInsert, SnapshotBegin, SnapshotRetry, SnapshotCommit, SnapshotOut,
              SnapshotNext, SnapshotFails, Return, PcInv
    <2> QED  BY <2>1
  <1>4. ASSUME NEW t \in Thread, NEW c \in Cmd, c.op \in OpOf[t], Start(t, c) PROVE SnapOf(t)'
    <2>1. pc'[t] = FirstStep(c.op)  BY <1>4 DEF Start, PcInv
    <2> QED  BY <1>4, <2>1, FirstSteps
  <1>5. ASSUME NEW u \in Thread, NEW t \in Thread, u # t, Same(t), ReadBegin(u) PROVE SnapOf(t)'
    <2>1. /\ pc'[t] = pc[t] /\ walk'[t] = walk[t] /\ pfns'[t] = pfns[t]
          /\ BatchRange(t)' = BatchRange(t)
      BY <1>5 DEF Same, BatchRange, BatchEnd
    <2>2. fresh'[t] = fresh[t] /\ cpu' = cpu  BY <1>5 DEF ReadBegin, TypeOK, mmVars
    <2> QED  BY <2>1, <2>2
  <1>6. ASSUME NEW u \in Thread, NEW t \in Thread, u # t, Same(t), Setup(u) PROVE SnapOf(t)'
    <2>1. /\ pc'[t] = pc[t] /\ walk'[t] = walk[t] /\ pfns'[t] = pfns[t]
          /\ BatchRange(t)' = BatchRange(t)
      BY <1>6 DEF Same, BatchRange, BatchEnd
    <2>2. ASSUME fresh'[t], pc[t] \in {"swalk", "scommit"}, NEW a \in BatchRange(t)
          PROVE  fresh[t] /\ (cpu'[a] = cpu[a] \/ Permission(cpu[a]) = "NONE")
      <3>1. fresh[t] /\ t \notin dmirror_snapshot_invalidate(BatchRange(u), TRUE)
        BY <1>6, <2>2 DEF Setup, OwnInvalidate
      <3>2. a \notin BatchRange(u)
        BY <2>2, <3>1 DEF dmirror_snapshot_invalidate, Snapping
      <3> QED  BY <1>z, <1>6, <2>2, <3>1, <3>2, SetupEffect
    <2> QED  BY <2>1, <2>2
  <1>7. ASSUME NEW u \in Thread, NEW t \in Thread, u # t, Same(t), MigratePages(u)
        PROVE  SnapOf(t)'
    <2>1. /\ pc'[t] = pc[t] /\ walk'[t] = walk[t] /\ pfns'[t] = pfns[t]
          /\ BatchRange(t)' = BatchRange(t)
      BY <1>7 DEF Same, BatchRange, BatchEnd
    <2>2. ASSUME fresh'[t], pc[t] \in {"swalk", "scommit"}, NEW a \in BatchRange(t)
          PROVE  fresh[t] /\ (cpu'[a] = cpu[a] \/ Permission(cpu[a]) = "NONE")
      <3>1. fresh[t]  BY <1>7, <2>2 DEF MigratePages, OwnInvalidate
      <3>2. a \in Addr  BY <1>z, <2>2, <3>1
      <3>3. cpu'[a] = cpu[a] \/ cpu[a] = None  BY <1>7, <3>2, PagesEffect
      <3> QED  BY <3>1, <3>3 DEF Permission, None
    <2> QED  BY <2>1, <2>2
  <1>8. ASSUME NEW u \in Thread, NEW t \in Thread, u # t, Same(t), Finalize(u) PROVE SnapOf(t)'
    <2>1. /\ pc'[t] = pc[t] /\ walk'[t] = walk[t] /\ pfns'[t] = pfns[t]
          /\ BatchRange(t)' = BatchRange(t)
      BY <1>8 DEF Same, BatchRange, BatchEnd
    <2>2. ASSUME fresh'[t], pc[t] \in {"swalk", "scommit"}, NEW a \in BatchRange(t)
          PROVE  fresh[t] /\ (cpu'[a] = cpu[a] \/ Permission(cpu[a]) = "NONE")
      <3>1. fresh[t]  BY <1>8, <2>2 DEF Finalize, seqVars
      <3>2. a \in Addr  BY <1>z, <2>2, <3>1
      <3>3. cpu'[a] = cpu[a] \/ cpu[a].kind \in {"migsys", "migdev"}
        BY <1>8, <3>2, FinalizeEffect
      <3> QED  BY <3>1, <3>3 DEF Permission
    <2> QED  BY <2>1, <2>2
  <1>9. ASSUME NEW u \in Thread, NEW t \in Thread, u # t, Same(t), ExclusiveCall(u)
        PROVE  SnapOf(t)'
    <2>1. /\ pc'[t] = pc[t] /\ walk'[t] = walk[t] /\ pfns'[t] = pfns[t]
          /\ BatchRange(t)' = BatchRange(t)
      BY <1>9 DEF Same, BatchRange, BatchEnd
    <2>2. ASSUME fresh'[t], pc[t] \in {"swalk", "scommit"}, NEW a \in BatchRange(t)
          PROVE  fresh[t] /\ (cpu'[a] = cpu[a] \/ Permission(cpu[a]) = "NONE")
      <3>1. fresh[t] /\ cpu' = cpu
        BY <1>9, <2>2 DEF ExclusiveCall, dmirror_interval_invalidate, mmVars
      <3> QED  BY <3>1
    <2> QED  BY <2>1, <2>2
  <1>10. ASSUME NEW u \in Thread, NEW t \in Thread, u # t, Same(t), ExclusiveSet(u)
        PROVE  SnapOf(t)'
    <2>1. /\ pc'[t] = pc[t] /\ walk'[t] = walk[t] /\ pfns'[t] = pfns[t]
          /\ BatchRange(t)' = BatchRange(t)
      BY <1>10 DEF Same, BatchRange, BatchEnd
    <2>2. ASSUME fresh'[t], pc[t] \in {"swalk", "scommit"}, NEW a \in BatchRange(t)
          PROVE  fresh[t] /\ (cpu'[a] = cpu[a] \/ Permission(cpu[a]) = "NONE")
      <3>1. fresh[t] /\ pc[u] = "xset"  BY <1>10, <2>2 DEF ExclusiveSet, RangeEnd
      <3>2. a \in Addr /\ a # walk[u]  BY <1>z, <2>2, <3>1
      <3>3. walk[u] \in Addr  BY <3>1, Batches DEF BatchInv, BatchOf, ExclusivePc
      <3> QED  BY <1>10, <3>1, <3>2, <3>3, ExclusiveEffect
    <2> QED  BY <2>1, <2>2
  <1>11. ASSUME NEW u \in Thread, NEW t \in Thread, u # t, Same(t), SnapshotBegin(u)
        PROVE  SnapOf(t)'
    <2>1. /\ pc'[t] = pc[t] /\ walk'[t] = walk[t] /\ pfns'[t] = pfns[t]
          /\ BatchRange(t)' = BatchRange(t)
      BY <1>11 DEF Same, BatchRange, BatchEnd
    <2>2. fresh'[t] = fresh[t] /\ cpu' = cpu  BY <1>11 DEF SnapshotBegin, TypeOK, mmVars
    <2> QED  BY <2>1, <2>2
  <1>12. ASSUME NEW u, NEW c, NEW t \in Thread, Same(t),
                \/ Start(u, c) \/ BounceInit(u) \/ MutexLock(u) \/ Load(u) \/ Copy(u)
                \/ CopyOops(u) \/ AccessDone(u) \/ AccessMiss(u) \/ MmapReadLock(u)
                \/ Walk(u) \/ WalkBusy(u) \/ FaultFails(u) \/ Retry(u) \/ Commit(u)
                \/ SetupFails(u) \/ Alloc(u) \/ CopyPages(u) \/ MapPages(u)
                \/ ExclusiveStart(u) \/ ExclusiveSkip(u) \/ ExclusiveShort(u)
                \/ AtomicMap(u) \/ dmirror_check_atomic(u) \/ SnapshotInsert(u)
                \/ SnapshotLock(u) \/ SnapshotWalk(u) \/ SnapshotRetry(u)
                \/ SnapshotCommit(u) \/ SnapshotOut(u) \/ SnapshotNext(u)
                \/ SnapshotFails(u)
         PROVE  SnapOf(t)'
    <2>1. UNCHANGED <<cpu, fresh>>
      BY <1>12 DEF Start, BounceInit, MutexLock, Load, Copy, CopyOops, AccessDone, AccessMiss,
              MmapReadLock, Walk, WalkBusy, FaultFails, Retry, Commit, SetupFails, Alloc,
              CopyPages, MapPages, ExclusiveStart, ExclusiveSkip, ExclusiveShort, AtomicMap,
              dmirror_check_atomic, SnapshotInsert, SnapshotLock, SnapshotWalk, SnapshotRetry,
              SnapshotCommit, SnapshotOut, SnapshotNext, SnapshotFails, mmVars, seqVars
    <2> QED  BY <1>0, <1>12, <2>1
  <1>13. ASSUME NEW t \in Thread, Steps(t) PROVE SnapOf(t)'
    BY StartEffect, <1>13, <1>1, <1>2, <1>3, <1>4
       DEF Steps, Access, Fault, Migrate, Exclusive, Snapshot
  <1>14. ASSUME NEW u \in Thread, NEW t \in Thread, u # t, Steps(u) PROVE SnapOf(t)'
    <2>1. Same(t)  BY <1>14, Elsewhere
    <2> QED  BY StartEffect, <1>14, <2>1, <1>5, <1>6, <1>7, <1>8, <1>9, <1>10, <1>11, <1>12
            DEF Steps, Access, Fault, Migrate, Exclusive, Snapshot
  <1>15. ASSUME NEW t \in Thread, Same(t), NEW a \in Addr, Populate(a) PROVE SnapOf(t)'
    <2>1. /\ pc'[t] = pc[t] /\ walk'[t] = walk[t] /\ pfns'[t] = pfns[t]
          /\ BatchRange(t)' = BatchRange(t)
      BY <1>15 DEF Same, BatchRange, BatchEnd
    <2>2. ASSUME fresh'[t], pc[t] \in {"swalk", "scommit"}, NEW b \in BatchRange(t)
          PROVE  fresh[t] /\ (cpu'[b] = cpu[b] \/ Permission(cpu[b]) = "NONE")
      <3>1. fresh[t]  BY <1>15, <2>2 DEF Populate, seqVars
      <3>2. b \in Addr  BY <1>z, <2>2, <3>1
      <3>3. cpu'[b] = cpu[b] \/ cpu[b] = None  BY <1>15, <3>2 DEF Populate, TypeOK
      <3> QED  BY <3>1, <3>3 DEF Permission, None
    <2> QED  BY <2>1, <2>2
  <1>16. ASSUME NEW t \in Thread, Same(t), NEW i \in Invalidator, InvalidateStart(i)
        PROVE  SnapOf(t)'
    <2>1. /\ pc'[t] = pc[t] /\ walk'[t] = walk[t] /\ pfns'[t] = pfns[t]
          /\ BatchRange(t)' = BatchRange(t)
      BY <1>16 DEF Same, BatchRange, BatchEnd
    <2>2. ASSUME fresh'[t], pc[t] \in {"swalk", "scommit"}, NEW a \in BatchRange(t)
          PROVE  fresh[t] /\ (cpu'[a] = cpu[a] \/ Permission(cpu[a]) = "NONE")
      <3>1. fresh[t] /\ cpu' = cpu
        BY <1>16, <2>2 DEF InvalidateStart, dmirror_interval_invalidate
      <3> QED  BY <3>1
    <2> QED  BY <2>1, <2>2
  <1>17. ASSUME NEW t \in Thread, Same(t), NEW i \in Invalidator, InvalidateEnd(i)
        PROVE  SnapOf(t)'
    <2>1. /\ pc'[t] = pc[t] /\ walk'[t] = walk[t] /\ pfns'[t] = pfns[t]
          /\ BatchRange(t)' = BatchRange(t)
      BY <1>17 DEF Same, BatchRange, BatchEnd
    <2>2. ASSUME fresh'[t], pc[t] \in {"swalk", "scommit"}, NEW a \in BatchRange(t)
          PROVE  fresh[t] /\ (cpu'[a] = cpu[a] \/ Permission(cpu[a]) = "NONE")
      <3>1. fresh[t]  BY <1>17, <2>2 DEF InvalidateEnd, RangeEnd
      <3>2. a \in Addr /\ a # Page(i)  BY <1>z, <1>17, <2>2, <3>1 DEF InvalidateEnd
      <3> QED  BY <1>17, <3>1, <3>2, EndInvalidation
    <2> QED  BY <2>1, <2>2
  <1>18. ASSUME NEW t \in Thread, Same(t), NEW a, NEW v, NEW i, CpuStore(a, v) PROVE SnapOf(t)'
    <2>1. UNCHANGED <<cpu, fresh>>  BY <1>18 DEF CpuStore, seqVars
    <2> QED  BY <1>0, <1>18, <2>1
  <1>19. ASSUME NEW t \in Thread, Kernel PROVE SnapOf(t)'
    <2>1. Same(t)  BY <1>19, KernelElsewhere DEF Same
    <2> QED  BY <1>19, <2>1, <1>15, <1>16, <1>17, <1>18 DEF Kernel
  <1>20. ASSUME NEW t \in Thread, UNCHANGED vars PROVE SnapOf(t)'
    BY <1>0, <1>20 DEF Same, vars, mmVars, seqVars, accessVars, faultVars, migVars
  <1> QED  BY <1>13, <1>14, <1>19, <1>20 DEF Next, Steps

-----------------------------------------------------------------------------
(***************************************************************************)
(* The invariant.                                                          *)
(***************************************************************************)
\* The invariant holds initially.
LEMMA MirrorInit == Init => MirrorInv
  <1> SUFFICES ASSUME Init PROVE MirrorInv  OBVIOUS
  <1>1. TypeOK
    <2>1. CpuType /\ DataType /\ InvalType
      BY MirrorAssumption, PteTypes DEF Init, CpuType, DataType, InvalType
    <2>2. SeqTypes /\ PtType /\ MigTypes  BY DEF Init, SeqTypes, PtType, MigTypes, NoFrames
    <2>3. CmdTypes /\ CopyTypes /\ WalkTypes
      BY MirrorAssumption DEF Init, CmdTypes, CopyTypes, WalkTypes
    <2>4. NoPfn \in Pfn /\ NoPerms \in [Addr -> Perm]  BY DEF NoPfn, Pfn, NoPerms, Perm
    <2>5. PfnTypes  BY <2>4 DEF Init, PfnTypes
    <2> QED  BY <2>1, <2>2, <2>3, <2>5, TypeParts
  <1>2. PcInv  BY DEF Init, PcInv, PcOf, Pcs
  <1>3. BatchInv
    BY DEF Init, BatchInv, BatchOf, FaultPc, MigratePc, ExclusivePc, BatchPc
  <1>4. CpuInv  BY DEF Init, CpuInv, Proper, None
  <1>5. FramesInv  BY DEF Init, FramesInv, FramesOf
  <1>6. KindInv /\ ActiveInv  BY DEF Init, KindInv, ActiveInv
  <1>7. ToldInv /\ ReadInv /\ SnapInv
    BY DEF Init, ToldInv, ToldOf, Snapping, ReadInv, ReadOf, SnapInv, SnapOf
  <1> QED  BY <1>1, <1>2, <1>3, <1>4, <1>5, <1>6, <1>7 DEF MirrorInv

\* Every step preserves the invariant.
LEMMA MirrorStep == MirrorInv /\ [Next]_vars => MirrorInv'
  <1> SUFFICES ASSUME MirrorInv, [Next]_vars PROVE MirrorInv'  OBVIOUS
  <1>1. /\ TypeOK /\ PcInv /\ BatchInv /\ CpuInv /\ FramesInv /\ KindInv
        /\ ActiveInv /\ ToldInv /\ ReadInv /\ SnapInv
    BY DEF MirrorInv
  <1>2. TypeOK'
    <2>1. CpuType' /\ DataType' /\ InvalType' /\ SeqTypes' /\ PtType'
      BY <1>1, CpuTypeStep, DataTypeStep, InvalTypeStep, SeqTypesStep, PtTypeStep
    <2>2. CmdTypes' /\ CopyTypes' /\ WalkTypes' /\ PfnTypes' /\ MigTypes'
      BY <1>1, CmdTypesStep, CopyTypesStep, WalkTypesStep, PfnTypesStep, MigTypesStep
    <2> QED
      BY <2>1, <2>2 DEF TypeOK, CpuType, DataType, InvalType, SeqTypes, PtType, CmdTypes,
         CopyTypes, WalkTypes, PfnTypes, MigTypes
  <1>3. PcInv' /\ BatchInv' /\ CpuInv' /\ FramesInv' /\ KindInv'
    BY <1>1, PcStep, BatchStep, CpuStep, FramesStep, KindStep
  <1>4. ActiveInv' /\ ToldInv' /\ ReadInv' /\ SnapInv'
    BY <1>1, ActiveStep, ToldStep, ReadStep, SnapStep
  <1> QED  BY <1>2, <1>3, <1>4 DEF MirrorInv

\* The invariant holds in every state.
THEOREM MirrorInvariant == Spec => []MirrorInv
  BY MirrorInit, MirrorStep, PTL DEF Spec

\* Every variable keeps its type (TypeOK), whatever the threads and the kernel do.
THEOREM MirrorTypeCorrect == Spec => []TypeOK
  <1>1. MirrorInv => TypeOK  BY DEF MirrorInv
  <1> QED  BY <1>1, MirrorInvariant, PTL

\* dmirror_range_snapshot(): whatever a snapshot reports of a page, other than that it is not
\* there or not accessible, is what the page table says at the check under the mutex, for the whole batch
\* (SnapshotSound); for any batch size, and any invalidations, migrations and exclusive access
\* by others meanwhile.
THEOREM SnapshotsAreSound == Spec => SnapshotSound
  <1>1. ASSUME MirrorInv, Next, NEW t \in Thread, pc[t] = "scommit", pc'[t] = "sout",
               NEW a \in BatchRange(t)
        PROVE  perm'[t][a] \in {"NONE", "ERROR", Permission(cpu[a])}
    <2>0. TypeOK /\ PcInv /\ BatchInv /\ SnapInv  BY <1>1 DEF MirrorInv
    <2>1. Steps(t)
      <3>1. ASSUME NEW u \in Thread, u # t, Steps(u) PROVE FALSE
        BY <1>1, <2>0, <3>1, Elsewhere DEF Same
      <3>2. CASE Kernel  BY <1>1, <3>2, KernelElsewhere
      <3> QED  BY <1>1, <3>1, <3>2 DEF Next, Steps
    <2>2. SnapshotCommit(t)
      <3>1. Snapping(t)'  BY <1>1 DEF Snapping
      <3> QED  BY <1>1, <2>0, <2>1, <3>1, SnapshotSteps
    <2>3. BatchRange(t) \subseteq Addr /\ a < walk[t] /\ fresh[t]
      BY <1>1, <2>0, <2>2, Batches
         DEF BatchInv, BatchOf, BatchPc, BatchRange, Addr, SnapshotCommit, SnapshotCurrent
    <2>4. dmirror_mkentry(pfns[t][a]) \in {"NONE", "ERROR", Permission(cpu[a])}
      BY <1>1, <2>0, <2>3 DEF SnapInv, SnapOf
    <2>5. perm'[t][a] = dmirror_mkentry(pfns[t][a])
      BY <1>1, <2>0, <2>2, <2>3 DEF SnapshotCommit, TypeOK
    <2> QED  BY <2>4, <2>5
  <1>2. MirrorInv /\ [Next]_vars =>
          [\A t \in Thread : pc[t] = "scommit" /\ pc'[t] = "sout" =>
             \A a \in BatchRange(t) : perm'[t][a] \in {"NONE", "ERROR", Permission(cpu[a])}]_vars
    BY <1>1
  <1> QED  BY <1>2, MirrorInvariant, PTL DEF Spec, SnapshotSound
=============================================================================
