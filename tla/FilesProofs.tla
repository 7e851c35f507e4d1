---------------------------- MODULE FilesProofs -----------------------------
(***************************************************************************)
(* Proofs about the life cycle of hmm.c, for any number of devices, files, *)
(* processes and pages.                                                    *)
(***************************************************************************)
EXTENDS Files, TLAPS

Faulting(m) == fault[m] # NoFault

(***************************************************************************)
(* A page of a device has a device and an owner, and one that is being     *)
(* migrated back has a fault that does it, with the same owner.            *)
(***************************************************************************)
PageInv ==
    \A m \in Mm :
        /\ cpu[m].kind \in {"dev", "mig"} => cpu[m].dev \in Device /\ cpu[m].owner \in File
        /\ cpu[m].kind \in {"none", "sys"} => cpu[m].dev = -1
        /\ cpu[m].kind = "mig" => Faulting(m)
        /\ Faulting(m) => cpu[m].kind \in {"dev", "mig"} /\ fault[m].owner = cpu[m].owner
        /\ Faulting(m) /\ fault[m].at = "setup" => cpu[m].kind = "dev"
        /\ Faulting(m) /\ fault[m].at \in {"copy", "finish"} => cpu[m].kind = "mig"

\* A closed file mirrors nothing.
ClosedInv == \A f \in File : ~Open(f) => pt[f] = NoFrame

(***************************************************************************)
(* While a page is migrated back: the mirrors of the other devices have    *)
(* been told, and once there is a new page, its owner's entry is erased.   *)
(***************************************************************************)
ToldInv ==
    \A m \in Mm, f \in File :
        Faulting(m) /\ f \in MirrorsOf(m) /\ pt[f] # NoFrame =>
            /\ fault[m].at \in {"copy", "finish"} => file[f].dev = cpu[m].dev
            /\ fault[m].frame # NoFrame => cpu[m].owner # f

FrameInv == \A m \in Mm : Faulting(m) /\ fault[m].frame # NoFrame => fault[m].at = "finish"

(***************************************************************************)
(* The devices that may still be there, when no file gets in the way.      *)
(***************************************************************************)
Left ==
    {x \in Device :
        \/ mod = "coming" /\ x <= id
        \/ mod = "undo" /\ (x < id \/ x = bad)
        \/ mod = "live"
        \/ mod = "going" /\ id <= x
        \/ mod = "failed" /\ x = bad}

ModInv ==
    /\ mod \in {"out", "coming"} => bad = -1
    /\ mod = "out" => id = 0
    /\ mod = "coming" => id < NDevices
    /\ mod = "undo" => id <= bad
    /\ opened => mod \in {"undo", "failed"}
    /\ cdev \subseteq Left

UnloadInv ==
    opened \/ /\ chunks \subseteq Left
              /\ \A m \in Mm : cpu[m].dev \in Left \cup {-1}
              /\ \A f \in File : Open(f) => mod \in {"coming", "live"} /\ file[f].dev \in Left

FilesInv == TypeOK /\ PageInv /\ ClosedInv /\ ToldInv /\ FrameInv /\ ModInv /\ UnloadInv

-----------------------------------------------------------------------------
(***************************************************************************)
(* The model's operators.                                                  *)
(***************************************************************************)
LEMMA PageTypes ==
    ASSUME NEW n \in Frame, NEW d \in Device, NEW f \in File
    PROVE  None \in Page /\ SysPage(n) \in Page /\ DevPage(n, d, f) \in Page
  BY DEF None, SysPage, DevPage, Page

\* A free frame is a frame.
LEMMA FreeAreFrames == FreeFrames \subseteq Frame /\ NoFrame \notin FreeFrames
  BY FilesAssumption DEF FreeFrames

\* An invalidation only erases.
LEMMA ErasedEntries ==
    ASSUME TypeOK, NEW S
    PROVE  /\ Erased(S) \in [File -> Frame \cup {NoFrame}]
           /\ \A f \in File : /\ Erased(S)[f] = pt[f] \/ Erased(S)[f] = NoFrame
                              /\ f \in S => Erased(S)[f] = NoFrame
                              /\ f \notin S => Erased(S)[f] = pt[f]
  BY DEF TypeOK, Erased

\* An open file has a device and a process, and a fault is a record.
LEMMA Fields ==
    ASSUME TypeOK
    PROVE  /\ \A f \in File : Open(f) => file[f].dev \in Device /\ file[f].mm \in Mm
           /\ \A m \in Mm : /\ cpu[m] \in Page
                            /\ Faulting(m) => /\ fault[m] \in Fault
                                              /\ fault[m].frame \in Frame \cup {NoFrame}
  BY DEF TypeOK, Open, Faulting, Fault

(***************************************************************************)
(* Either step of the removal of a device's memory: pages move back, of    *)
(* which every mirror is told, and only pages that no fault holds.         *)
(***************************************************************************)
RemoveStep(d) == dmirror_device_evict_chunk(d) \/ dmirror_device_remove_chunks(d)

LEMMA RemoveEffect ==
    ASSUME TypeOK, PageInv, NEW d \in Device, RemoveStep(d)
    PROVE  /\ chunks' \in {chunks, chunks \ {d}} /\ removing' \subseteq Device
           /\ cpu' \in [Mm -> Page] /\ pt' \in [File -> Frame \cup {NoFrame}]
           /\ \A f \in File : pt'[f] = pt[f] \/ pt'[f] = NoFrame
           /\ \A m \in Mm : \/ cpu'[m] = cpu[m]
                            \/ /\ \E n \in Frame : cpu'[m] = SysPage(n)
                               /\ ~Faulting(m)
                               /\ \A f \in MirrorsOf(m) : pt'[f] = NoFrame
  <1>1. CASE dmirror_device_remove_chunks(d)
    BY <1>1 DEF dmirror_device_remove_chunks, TypeOK
  <1>2. CASE dmirror_device_evict_chunk(d)
    <2>1. PICK new \in [Evicted(d) -> FreeFrames] :
             cpu' = [m \in Mm |-> IF m \in Evicted(d) THEN SysPage(new[m]) ELSE cpu[m]]
      BY <1>2 DEF dmirror_device_evict_chunk
    <2>2. \A m \in Evicted(d) : new[m] \in Frame  BY FreeAreFrames
    <2>3. cpu' \in [Mm -> Page]
      <3>1. \A m \in Evicted(d) : SysPage(new[m]) \in Page  BY <2>2 DEF SysPage, Page
      <3> QED  BY <2>1, <3>1 DEF TypeOK
    <2>4. /\ pt' = Erased(UNION {MirrorsOf(m) : m \in PagesOf(d)})
          /\ UNCHANGED chunks /\ removing' = removing \cup {d}
      BY <1>2 DEF dmirror_device_evict_chunk
    <2>5. \A m \in Evicted(d) : m \in PagesOf(d) /\ ~Faulting(m)  BY DEF Evicted, Faulting
    <2>6. \A m \in PagesOf(d) : \A f \in MirrorsOf(m) : pt'[f] = NoFrame
      BY <2>4 DEF Erased, MirrorsOf
    <2>7. \A m \in Mm : \/ cpu'[m] = cpu[m]
                        \/ /\ \E n \in Frame : cpu'[m] = SysPage(n)
                           /\ ~Faulting(m)
                           /\ \A f \in MirrorsOf(m) : pt'[f] = NoFrame
      BY <2>1, <2>2, <2>5, <2>6
    <2>8. removing' \subseteq Device  BY <2>4 DEF TypeOK
    <2> QED  BY <2>3, <2>4, <2>7, <2>8, ErasedEntries
  <1> QED  BY <1>1, <1>2 DEF RemoveStep

\* The next device that rshm_init(), undoing what it did, or rshm_exit() removes.
RemovesNext(d) ==
    /\ dmirror_device_remove_chunks(d) /\ cdev' = cdev \ {d} /\ UNCHANGED mod
    /\ \/ mod = "undo" /\ d = id - 1 /\ id' = id - 1
       \/ mod = "going" /\ d = id /\ id' = id + 1

EvictsNext(d) == dmirror_device_evict_chunk(d) /\ UNCHANGED <<mod, id, cdev, chunks>>

WorksOn(d) == RemovesNext(d) \/ EvictsNext(d)

\* The two places where whole devices are removed.
LEMMA RemoveInOrder ==
    ASSUME TypeOK, Undo \/ rshm_exit
    PROVE  \/ \E d \in Device : WorksOn(d)
           \/ /\ UNCHANGED <<id, cdev, chunks, removing, pt, cpu>>
              /\ \/ mod = "undo" /\ mod' = "failed" /\ id = 0
                 \/ mod = "going" /\ mod' = "exited" /\ id = NDevices
  <1>1. id \in 0..NDevices /\ NDevices \in Nat  BY FilesAssumption DEF TypeOK
  <1>2. CASE Undo
    <2>1. CASE id > 0
      <3>1. id - 1 \in Device  BY <1>1, <2>1 DEF Device
      <3>2. CASE EvictDevice(id - 1) /\ UNCHANGED id
        BY <1>2, <2>1, <3>1, <3>2
           DEF Undo, EvictDevice, dmirror_device_evict_chunk, WorksOn, EvictsNext, UndoMore
      <3>3. CASE dmirror_device_remove(id - 1) /\ id' = id - 1
        BY <1>2, <2>1, <3>1, <3>3 DEF Undo, UndoMore, dmirror_device_remove, WorksOn, RemovesNext
      <3> QED  BY <1>2, <2>1, <3>2, <3>3 DEF Undo, UndoMore
    <2>2. CASE ~(id > 0)
      <3>1. id = 0  BY <1>1, <2>2
      <3> QED  BY <1>2, <2>2, <3>1 DEF Undo, UndoMore
    <2> QED  BY <2>1, <2>2
  <1>3. CASE rshm_exit
    <2>1. CASE id < NDevices
      <3>1. id \in Device  BY <1>1, <2>1 DEF Device
      <3>2. CASE EvictDevice(id) /\ UNCHANGED id
        BY <1>3, <2>1, <3>1, <3>2
           DEF rshm_exit, EvictDevice, dmirror_device_evict_chunk, WorksOn, EvictsNext
      <3>3. CASE dmirror_device_remove(id) /\ id' = id + 1
        BY <1>3, <2>1, <3>1, <3>3 DEF rshm_exit, dmirror_device_remove, WorksOn, RemovesNext
      <3> QED  BY <1>3, <2>1, <3>2, <3>3 DEF rshm_exit
    <2>2. CASE ~(id < NDevices)
      <3>1. id = NDevices  BY <1>1, <2>2
      <3> QED  BY <1>3, <2>2, <3>1 DEF rshm_exit
    <2> QED  BY <2>1, <2>2
  <1> QED  BY <1>2, <1>3

\* Either of them takes a step of the removal.
LEMMA WorkEffect ==
    ASSUME NEW d, WorksOn(d)
    PROVE  RemoveStep(d) /\ UNCHANGED mod
  BY DEF WorksOn, RemovesNext, EvictsNext, RemoveStep

\* HMM_DMIRROR_RELEASE takes one of the file's device.
ReleaseStep(f) == ReleaseStart(f) \/ ReleaseEnd(f)

LEMMA ReleaseEffect ==
    ASSUME TypeOK, NEW f \in File, ReleaseStep(f)
    PROVE  /\ Open(f) /\ file[f].dev \in Device /\ RemoveStep(file[f].dev)
           /\ UNCHANGED <<mod, id, bad, cdev, opened, file, reading, alive, fault>>
           /\ releasing' \subseteq releasing \cup {f}
  <1>1. Open(f)  BY DEF ReleaseStep, ReleaseStart, ReleaseEnd, Ioctl, TypeOK
  <1>2. file[f].dev \in Device  BY <1>1, Fields
  <1> QED  BY <1>1, <1>2 DEF ReleaseStep, ReleaseStart, ReleaseEnd, RemoveStep

-----------------------------------------------------------------------------
(***************************************************************************)
(* Type correctness, for the module, the files and the pages.              *)
(***************************************************************************)
ModTypes ==
    /\ mod \in {"out", "coming", "undo", "live", "going", "failed", "exited"}
    /\ id \in 0..NDevices /\ bad \in Device \cup {-1}
    /\ cdev \subseteq Device /\ chunks \subseteq Device /\ removing \subseteq Device
    /\ opened \in BOOLEAN

FileTypes ==
    /\ file \in [File -> [dev : Device, mm : Mm] \cup {NoFile}]
    /\ reading \cup releasing \subseteq {f \in File : Open(f)}

PageTypesInv ==
    /\ pt \in [File -> Frame \cup {NoFrame}]
    /\ alive \subseteq Mm
    /\ cpu \in [Mm -> Page]
    /\ fault \in [Mm -> Fault \cup {NoFault}]

(***************************************************************************)
(* The module.                                                             *)
(***************************************************************************)
LEMMA ModTypesStep == TypeOK /\ PageInv /\ ModInv /\ [Next]_vars => ModTypes'
  <1> SUFFICES ASSUME TypeOK, PageInv, ModInv, [Next]_vars PROVE ModTypes'  OBVIOUS
  <1>0. ASSUME UNCHANGED <<mod, id, bad, cdev, chunks, removing, opened>> PROVE ModTypes'
    BY <1>0 DEF TypeOK, ModTypes
  <1> USE DEF ModTypes
  <1>1. ASSUME rshm_init PROVE ModTypes'
    BY <1>1 DEF rshm_init, TypeOK
  <1>2. ASSUME InitCdev PROVE ModTypes'
    <2>1. id \in Device  BY <1>2, FilesAssumption DEF InitCdev, TypeOK, ModInv, Device
    <2> QED  BY <1>2, <2>1 DEF InitCdev, InitFails, TypeOK
  <1>3. ASSUME InitChunk PROVE ModTypes'
    <2>1. id \in Device /\ id + 1 \in 0..NDevices
      BY <1>3, FilesAssumption DEF InitChunk, TypeOK, ModInv, Device
    <2> QED  BY <1>3, <2>1 DEF InitChunk, InitFails, TypeOK
  <1>4. ASSUME Undo PROVE ModTypes'
    <2>1. UNCHANGED <<bad, opened>>  BY <1>4 DEF Undo
    <2>2. /\ id' \in 0..NDevices /\ cdev' \subseteq Device /\ chunks' \subseteq Device
          /\ removing' \subseteq Device
          /\ mod' \in {"undo", "failed", "going", "exited"}
      <3>1. id \in 0..NDevices /\ NDevices \in Nat  BY FilesAssumption DEF TypeOK
      <3>2. CASE \E d \in Device : WorksOn(d)
        <4>1. PICK d \in Device : WorksOn(d)  BY <3>2
        <4>2. chunks' \subseteq Device /\ removing' \subseteq Device
          BY <4>1, WorkEffect, RemoveEffect DEF TypeOK
        <4>3. id' \in 0..NDevices  BY <3>1, <4>1 DEF Device, WorksOn, RemovesNext, EvictsNext
        <4>4. cdev' \subseteq Device
          BY <4>1 DEF WorksOn, RemovesNext, EvictsNext, TypeOK
        <4> QED  BY <1>4, <4>1, <4>2, <4>3, <4>4, WorkEffect DEF TypeOK, Undo, rshm_exit
      <3>3. CASE UNCHANGED <<id, cdev, chunks, removing>> /\ mod' \in {"failed", "exited"}
        BY <3>3 DEF TypeOK
      <3> QED  BY <1>4, <3>2, <3>3, RemoveInOrder
    <2> QED  BY <2>1, <2>2 DEF TypeOK
  <1>5. ASSUME ExitStart PROVE ModTypes'
    <2>1. 0 \in 0..NDevices  BY FilesAssumption
    <2> QED  BY <1>5, <2>1 DEF ExitStart, TypeOK
  <1>6. ASSUME rshm_exit PROVE ModTypes'
    <2>1. UNCHANGED <<bad, opened>>  BY <1>6 DEF rshm_exit
    <2>2. /\ id' \in 0..NDevices /\ cdev' \subseteq Device /\ chunks' \subseteq Device
          /\ removing' \subseteq Device
          /\ mod' \in {"undo", "failed", "going", "exited"}
      <3>1. id \in 0..NDevices /\ NDevices \in Nat  BY FilesAssumption DEF TypeOK
      <3>2. CASE \E d \in Device : WorksOn(d)
        <4>1. PICK d \in Device : WorksOn(d)  BY <3>2
        <4>2. chunks' \subseteq Device /\ removing' \subseteq Device
          BY <4>1, WorkEffect, RemoveEffect DEF TypeOK
        <4>3. id' \in 0..NDevices  BY <3>1, <4>1 DEF Device, WorksOn, RemovesNext, EvictsNext
        <4>4. cdev' \subseteq Device
          BY <4>1 DEF WorksOn, RemovesNext, EvictsNext, TypeOK
        <4> QED  BY <1>6, <4>1, <4>2, <4>3, <4>4, WorkEffect DEF TypeOK, Undo, rshm_exit
      <3>3. CASE UNCHANGED <<id, cdev, chunks, removing>> /\ mod' \in {"failed", "exited"}
        BY <3>3 DEF TypeOK
      <3> QED  BY <1>6, <3>2, <3>3, RemoveInOrder
    <2> QED  BY <2>1, <2>2 DEF TypeOK
  <1>7. ASSUME NEW f \in File, NEW d \in Device, NEW m \in Mm, dmirror_fops_open(f, d, m)
        PROVE  ModTypes'
    BY <1>7 DEF dmirror_fops_open, TypeOK
  <1>8. ASSUME NEW f \in File, dmirror_migrate_to_device(f) PROVE ModTypes'
    <2>1. file[f].dev \in Device  BY <1>8, Fields DEF dmirror_migrate_to_device, Ioctl
    <2> QED  BY <1>8, <2>1 DEF dmirror_migrate_to_device, TypeOK
  <1>9. ASSUME NEW f \in File, ReleaseStep(f) PROVE ModTypes'
    <2>1. chunks' \subseteq Device /\ removing' \subseteq Device
      BY <1>9, ReleaseEffect, RemoveEffect DEF TypeOK
    <2> QED  BY <1>9, <2>1, ReleaseEffect DEF TypeOK
  <1>10. ASSUME NEW f, NEW d, NEW m,
                \/ dmirror_fops_release(f) \/ dmirror_migrate_to_system(f) \/ ReadStart(f)
                \/ dmirror_read(f) \/ dmirror_fault(f) \/ Timeout(f) \/ Touch(m)
                \/ ProcessExit(m) \/ dmirror_devmem_fault(m) \/ FaultSetup(m) \/ FaultCopy(m)
                \/ FaultFinish(m)
         PROVE  ModTypes'
    <2>1. UNCHANGED <<mod, id, bad, cdev, chunks, removing, opened>>
      BY <1>10 DEF dmirror_fops_release, dmirror_migrate_to_system, ReadStart, dmirror_read,
              dmirror_fault, Timeout, Touch, ProcessExit, dmirror_devmem_fault, FaultSetup,
              FaultCopy, FaultFinish, modVars, fileVars, mmVars
    <2> QED  BY <2>1, <1>0
  <1>11. CASE UNCHANGED vars  BY <1>0, <1>11 DEF vars, modVars, fileVars, mmVars
  <1> QED
    BY <1>1, <1>2, <1>3, <1>4, <1>5, <1>6, <1>7, <1>8, <1>9, <1>10, <1>11
       DEF Next, Module, Ioctls, ReadStep, ReleaseStep, Handler

(***************************************************************************)
(* Files.                                                                  *)
(***************************************************************************)
LEMMA FileTypesStep == TypeOK /\ [Next]_vars => FileTypes'
  <1> SUFFICES ASSUME TypeOK, [Next]_vars PROVE FileTypes'  OBVIOUS
  <1>0. ASSUME UNCHANGED <<file, reading, releasing>> PROVE FileTypes'
    BY <1>0 DEF TypeOK, FileTypes, Open
  <1> USE DEF TypeOK, FileTypes, Open
  <1>1. ASSUME NEW f \in File, NEW d \in Device, NEW m \in Mm, dmirror_fops_open(f, d, m)
        PROVE  FileTypes'
    BY <1>1 DEF dmirror_fops_open, Ioctl
  <1>2. ASSUME NEW f \in File, dmirror_fops_release(f) PROVE FileTypes'
    BY <1>2 DEF dmirror_fops_release, Ioctl
  <1>3. ASSUME NEW f \in File, ReadStart(f) PROVE FileTypes'
    BY <1>3 DEF ReadStart, Ioctl
  <1>4. ASSUME NEW f \in File, dmirror_read(f) PROVE FileTypes'
    BY <1>4 DEF dmirror_read, Ioctl
  <1>5. ASSUME NEW f \in File, Timeout(f) PROVE FileTypes'
    BY <1>5 DEF Timeout, Ioctl
  <1>6. ASSUME NEW f, NEW d, NEW m,
                \/ rshm_init \/ InitCdev \/ InitChunk \/ Undo \/ ExitStart \/ rshm_exit
                \/ dmirror_migrate_to_device(f) \/ dmirror_migrate_to_system(f)
                \/ dmirror_fault(f) \/ Touch(m) \/ ProcessExit(m)
                \/ dmirror_devmem_fault(m) \/ FaultSetup(m) \/ FaultCopy(m) \/ FaultFinish(m)
         PROVE  FileTypes'
    <2>1. UNCHANGED <<file, reading, releasing>>
      BY <1>6 DEF rshm_init, InitCdev, InitChunk, Undo, ExitStart, rshm_exit,
              dmirror_migrate_to_device, dmirror_migrate_to_system, dmirror_fault, Touch,
              ProcessExit, dmirror_devmem_fault, FaultSetup, FaultCopy, FaultFinish,
              modVars, fileVars, mmVars
    <2> QED  BY <2>1, <1>0
  <1>7. ASSUME NEW f \in File, ReleaseStep(f) PROVE FileTypes'
    BY <1>7, ReleaseEffect
  <1>8. CASE UNCHANGED vars  BY <1>0, <1>8 DEF vars, modVars, fileVars, mmVars
  <1> QED
    BY <1>1, <1>2, <1>3, <1>4, <1>5, <1>6, <1>7, <1>8
       DEF Next, Module, Ioctls, ReadStep, ReleaseStep, Handler

(***************************************************************************)
(* Pages, mirror entries and faults.                                       *)
(***************************************************************************)
LEMMA PageTypesStep == TypeOK /\ PageInv /\ [Next]_vars => PageTypesInv'
  <1> SUFFICES ASSUME TypeOK, PageInv, [Next]_vars PROVE PageTypesInv'  OBVIOUS
  <1>0. ASSUME UNCHANGED <<pt, alive, cpu, fault>> PROVE PageTypesInv'
    BY <1>0 DEF TypeOK, PageTypesInv
  <1> USE DEF PageTypesInv
  <1>1. ASSUME Undo PROVE PageTypesInv'
    <2>1. UNCHANGED <<alive, fault>>  BY <1>1 DEF Undo
    <2>2. cpu' \in [Mm -> Page] /\ pt' \in [File -> Frame \cup {NoFrame}]
      BY <1>1, RemoveInOrder, WorkEffect, RemoveEffect DEF TypeOK
    <2> QED  BY <2>1, <2>2 DEF TypeOK
  <1>2. ASSUME rshm_exit PROVE PageTypesInv'
    <2>1. UNCHANGED <<alive, fault>>  BY <1>2 DEF rshm_exit
    <2>2. cpu' \in [Mm -> Page] /\ pt' \in [File -> Frame \cup {NoFrame}]
      BY <1>2, RemoveInOrder, WorkEffect, RemoveEffect DEF TypeOK
    <2> QED  BY <2>1, <2>2 DEF TypeOK
  <1>3. ASSUME NEW f \in File, dmirror_fops_release(f) PROVE PageTypesInv'
    BY <1>3 DEF dmirror_fops_release, TypeOK, mmVars
  <1>4. ASSUME NEW f \in File, dmirror_migrate_to_device(f) PROVE PageTypesInv'
    <2>1. file[f].dev \in Device /\ file[f].mm \in Mm
      BY <1>4, Fields DEF dmirror_migrate_to_device, Ioctl
    <2>2. UNCHANGED <<alive, fault>>  BY <1>4 DEF dmirror_migrate_to_device
    <2>3. \A n \in FreeFrames : n \in Frame /\ DevPage(n, file[f].dev, f) \in Page
      BY <2>1, FreeAreFrames, PageTypes
    <2>4. \A S : Erased(S) \in [File -> Frame \cup {NoFrame}]  BY ErasedEntries
    <2> QED  BY <1>4, <2>1, <2>2, <2>3, <2>4 DEF dmirror_migrate_to_device, TypeOK
  <1>5. ASSUME NEW f \in File, dmirror_migrate_to_system(f) PROVE PageTypesInv'
    <2>1. file[f].mm \in Mm  BY <1>5, Fields DEF dmirror_migrate_to_system, Ioctl
    <2>2. UNCHANGED <<alive, fault>>  BY <1>5 DEF dmirror_migrate_to_system
    <2>3. \A n \in FreeFrames : SysPage(n) \in Page  BY FreeAreFrames DEF SysPage, Page
    <2>4. \A S : Erased(S) \in [File -> Frame \cup {NoFrame}]  BY ErasedEntries
    <2> QED  BY <1>5, <2>1, <2>2, <2>3, <2>4 DEF dmirror_migrate_to_system, TypeOK
  <1>6. ASSUME NEW f \in File, ReleaseStep(f) PROVE PageTypesInv'
    <2>1. cpu' \in [Mm -> Page] /\ pt' \in [File -> Frame \cup {NoFrame}]
      BY <1>6, ReleaseEffect, RemoveEffect
    <2> QED  BY <1>6, <2>1, ReleaseEffect DEF TypeOK
  <1>7. ASSUME NEW f \in File, dmirror_fault(f) PROVE PageTypesInv'
    <2>1. f \in reading  BY <1>7 DEF dmirror_fault
    <2>2. file[f].mm \in Mm /\ UNCHANGED <<alive, fault>>
      BY <1>7, <2>1, Fields DEF dmirror_fault, TypeOK
    <2>3. \A n \in FreeFrames : SysPage(n) \in Page  BY FreeAreFrames DEF SysPage, Page
    <2>4. cpu' \in [Mm -> Page]  BY <1>7, <2>2, <2>3 DEF dmirror_fault, TypeOK
    <2>5. cpu'[file[f].mm].frame \in Frame \cup {NoFrame}  BY <2>2, <2>4 DEF Page
    <2>6. pt' = [pt EXCEPT ![f] = cpu'[file[f].mm].frame]  BY <1>7 DEF dmirror_fault
    <2> QED  BY <2>2, <2>4, <2>5, <2>6 DEF TypeOK
  <1>8. ASSUME NEW m \in Mm, Touch(m) PROVE PageTypesInv'
    <2>3. \A n \in FreeFrames : SysPage(n) \in Page  BY FreeAreFrames DEF SysPage, Page
    <2> QED  BY <1>8, <2>3 DEF Touch, TypeOK, fileVars
  <1>9. ASSUME NEW m \in Mm, ProcessExit(m) PROVE PageTypesInv'
    <2>1. None \in Page  BY DEF None, Page
    <2>2. \A S : Erased(S) \in [File -> Frame \cup {NoFrame}]  BY ErasedEntries
    <2> QED  BY <1>9, <2>1, <2>2 DEF ProcessExit, TypeOK
  <1>10. ASSUME NEW m \in Mm, dmirror_devmem_fault(m) PROVE PageTypesInv'
    <2>1. cpu[m].owner \in File  BY <1>10 DEF dmirror_devmem_fault, PageInv
    <2> QED  BY <1>10, <2>1 DEF dmirror_devmem_fault, TypeOK, fileVars, Fault
  <1>11. ASSUME NEW m \in Mm, FaultSetup(m) PROVE PageTypesInv'
    <2>1. Faulting(m)  BY <1>11 DEF FaultSetup, Faulting
    <2>2. fault' \in [Mm -> Fault \cup {NoFault}]
      BY <1>11, <2>1, Fields DEF FaultSetup, Oops, TypeOK, Fault
    <2>3. [cpu EXCEPT ![m].kind = "mig"] \in [Mm -> Page]  BY DEF TypeOK, Page
    <2>4. \A S : Erased(S) \in [File -> Frame \cup {NoFrame}]  BY ErasedEntries
    <2> QED  BY <1>11, <2>2, <2>3, <2>4 DEF FaultSetup, TypeOK
  <1>12. ASSUME NEW m \in Mm, FaultCopy(m) PROVE PageTypesInv'
    <2>1. Faulting(m) /\ FreeFrames \subseteq Frame
      BY <1>12, FreeAreFrames DEF FaultCopy, Faulting
    <2>2. fault' \in [Mm -> Fault \cup {NoFault}]
      BY <1>12, <2>1, Fields DEF FaultCopy, Oops, TypeOK, Fault
    <2>4. \A S : Erased(S) \in [File -> Frame \cup {NoFrame}]  BY ErasedEntries
    <2> QED  BY <1>12, <2>2, <2>4 DEF FaultCopy, TypeOK
  <1>13. ASSUME NEW m \in Mm, FaultFinish(m) PROVE PageTypesInv'
    <2>1. Faulting(m)  BY <1>13 DEF FaultFinish, Faulting
    <2>2. fault[m].frame # NoFrame => SysPage(fault[m].frame) \in Page
      BY <2>1, Fields DEF SysPage, Page
    <2>3. [cpu[m] EXCEPT !.kind = "dev"] \in Page  BY Fields DEF Page
    <2> QED  BY <1>13, <2>2, <2>3 DEF FaultFinish, TypeOK, fileVars
  <1>14. ASSUME NEW f, NEW d, NEW m,
                \/ rshm_init \/ InitCdev \/ InitChunk \/ ExitStart
                \/ dmirror_fops_open(f, d, m) \/ ReadStart(f) \/ dmirror_read(f)
                \/ Timeout(f)
         PROVE  PageTypesInv'
    <2>1. UNCHANGED <<pt, alive, cpu, fault>>
      BY <1>14 DEF rshm_init, InitCdev, InitChunk, ExitStart, dmirror_fops_open, ReadStart,
              dmirror_read, Timeout, modVars, fileVars, mmVars
    <2> QED  BY <2>1, <1>0
  <1>15. CASE UNCHANGED vars  BY <1>0, <1>15 DEF vars, modVars, fileVars, mmVars
  <1> QED
    BY <1>1, <1>2, <1>3, <1>4, <1>5, <1>6, <1>7, <1>8, <1>9, <1>10, <1>11, <1>12, <1>13, <1>14,
       <1>15
       DEF Next, Module, Ioctls, ReadStep, ReleaseStep, Handler

\* All of them together.
LEMMA TypeStep == TypeOK /\ PageInv /\ ModInv /\ [Next]_vars => TypeOK'
  <1> SUFFICES ASSUME TypeOK, PageInv, ModInv, [Next]_vars PROVE TypeOK'  OBVIOUS
  <1>1. ModTypes' /\ FileTypes' /\ PageTypesInv'  BY ModTypesStep, FileTypesStep, PageTypesStep
  <1> QED  BY <1>1 DEF TypeOK, ModTypes, FileTypes, PageTypesInv

-----------------------------------------------------------------------------
\* Removing a device's memory keeps what is known of the pages.
LEMMA RemovePages ==
    ASSUME TypeOK, PageInv, NEW d \in Device, RemoveStep(d), UNCHANGED fault
    PROVE  PageInv'
  <1>1. \A n : SysPage(n).kind = "sys" /\ SysPage(n).dev = -1  BY DEF SysPage
  <1> SUFFICES ASSUME NEW m \in Mm, cpu'[m] # cpu[m]
               PROVE  cpu'[m].kind = "sys" /\ cpu'[m].dev = -1 /\ ~Faulting(m)
    BY DEF PageInv, Faulting
  <1> QED  BY <1>1, RemoveEffect

(***************************************************************************)
(* The three steps of a fault: what each does to the page, to the fault    *)
(* and to the mirrors, and that it leaves other processes alone.           *)
(***************************************************************************)
LEMMA SetupEffect ==
    ASSUME TypeOK, NEW m \in Mm, FaultSetup(m)
    PROVE  /\ Faulting(m) /\ fault[m].at = "setup" /\ UNCHANGED file
           /\ \A n \in Mm : n # m => cpu'[n] = cpu[n] /\ fault'[n] = fault[n]
           /\ cpu'[m].frame = cpu[m].frame /\ cpu'[m].dev = cpu[m].dev /\ cpu'[m].owner = cpu[m].owner
           /\ \A f \in File : pt'[f] = pt[f] \/ pt'[f] = NoFrame
           /\ \/ fault'[m] = NoFault /\ UNCHANGED cpu
              \/ /\ Faulting(m)' /\ fault'[m].at = "copy" /\ cpu'[m].kind = "mig"
                 /\ fault'[m].owner = fault[m].owner /\ fault'[m].frame = fault[m].frame
                 /\ \A f \in MirrorsOf(m) : pt'[f] # NoFrame => file[f].dev = cpu[m].dev
              \/ /\ Faulting(m)' /\ fault'[m].at = "oops" /\ UNCHANGED <<cpu, pt>>
                 /\ fault'[m].owner = fault[m].owner /\ fault'[m].frame = fault[m].frame
  <1>1. Faulting(m) /\ fault[m].at = "setup" /\ UNCHANGED file  BY DEF FaultSetup, Faulting
  <1>2. fault[m] \in Fault /\ cpu[m] \in Page  BY <1>1, Fields
  <1>3. \A x \in {"copy", "oops"} :
          [fault EXCEPT ![m].at = x][m] \in Fault /\ [fault EXCEPT ![m].at = x][m] # NoFault
    BY <1>2, FilesAssumption DEF TypeOK, Fault
  <1>4. CASE UNCHANGED <<cpu, pt>> /\ Oops(m)
    BY <1>1, <1>2, <1>3, <1>4 DEF Oops, TypeOK, Faulting, Fault
  <1>5. CASE /\ pt' = Erased(ToldOfMigration(m, OwnersDevice(m))) /\ cpu[m].dev = OwnersDevice(m)
             /\ cpu' = [cpu EXCEPT ![m].kind = "mig"] /\ fault' = [fault EXCEPT ![m].at = "copy"]
    <2>1. \A f \in File : /\ pt'[f] = pt[f] \/ pt'[f] = NoFrame
                          /\ f \in MirrorsOf(m) /\ pt'[f] # NoFrame => file[f].dev = cpu[m].dev
      BY <1>5, ErasedEntries DEF ToldOfMigration, Ignores
    <2>2. MirrorsOf(m) \subseteq File  BY DEF MirrorsOf
    <2>3. /\ fault'[m] # NoFault /\ fault'[m].at = "copy" /\ fault'[m].owner = fault[m].owner
          /\ fault'[m].frame = fault[m].frame
      BY <1>2, <1>3, <1>5 DEF TypeOK, Fault
    <2>4. /\ cpu'[m].kind = "mig"
          /\ cpu'[m].frame = cpu[m].frame /\ cpu'[m].dev = cpu[m].dev /\ cpu'[m].owner = cpu[m].owner
      BY <1>2, <1>5 DEF TypeOK, Page
    <2> QED  BY <1>1, <1>5, <2>1, <2>2, <2>3, <2>4 DEF TypeOK, Faulting
  <1>6. CASE /\ pt' = Erased(ToldOfMigration(m, OwnersDevice(m)))
             /\ fault' = [fault EXCEPT ![m] = NoFault] /\ UNCHANGED cpu
    BY <1>1, <1>6, ErasedEntries DEF TypeOK
  <1> QED  BY <1>4, <1>5, <1>6 DEF FaultSetup

\* The copy: a new page, if there is one, and the owner's entry erased.
LEMMA CopyEffect ==
    ASSUME TypeOK, NEW m \in Mm, FaultCopy(m)
    PROVE  /\ Faulting(m) /\ fault[m].at = "copy" /\ UNCHANGED <<file, cpu>>
           /\ \A n \in Mm : n # m => fault'[n] = fault[n]
           /\ \A f \in File : pt'[f] = pt[f] \/ pt'[f] = NoFrame
           /\ Faulting(m)' /\ fault'[m].at \in {"finish",
                    "oops"} /\ fault'[m].owner = fault[m].owner
           /\ \/ fault'[m].frame = fault[m].frame
              \/ fault'[m].at = "finish" /\ pt'[fault[m].owner] = NoFrame
  <1>1. Faulting(m) /\ fault[m].at = "copy" /\ UNCHANGED <<file, cpu>>  BY DEF FaultCopy, Faulting
  <1>2. fault[m] \in Fault /\ fault[m].owner \in File  BY <1>1, Fields DEF Fault
  <1>3. CASE fault' = [fault EXCEPT ![m].at = "finish"] /\ UNCHANGED pt
    <2>1. /\ fault'[m] \in Fault /\ fault'[m].at = "finish"
          /\ fault'[m].owner = fault[m].owner /\ fault'[m].frame = fault[m].frame
      BY <1>2, <1>3 DEF TypeOK, Fault
    <2> QED  BY <1>1, <1>3, <2>1, FilesAssumption DEF TypeOK, Faulting
  <1>4. CASE Oops(m) /\ UNCHANGED pt
    <2>1. /\ fault'[m] \in Fault /\ fault'[m].at = "oops" /\ fault'[m].owner = fault[m].owner
          /\ fault'[m].frame = fault[m].frame
      BY <1>2, <1>4 DEF TypeOK, Fault, Oops
    <2> QED  BY <1>1, <1>4, <2>1, FilesAssumption DEF TypeOK, Faulting, Oops
  <1>5. ASSUME NEW new \in FreeFrames, fault' = [fault EXCEPT ![m].at = "finish",
           ![m].frame = new],
               pt' = Erased({fault[m].owner})
        PROVE  /\ fault'[m] \in Fault /\ fault'[m].at = "finish" /\ fault'[m].owner = fault[m].owner
               /\ \A n \in Mm : n # m => fault'[n] = fault[n]
               /\ \A f \in File : pt'[f] = pt[f] \/ pt'[f] = NoFrame
               /\ pt'[fault[m].owner] = NoFrame
    <2>1. new \in Frame  BY FreeAreFrames
    <2>2. fault'[m] \in Fault /\ fault'[m].at = "finish" /\ fault'[m].owner = fault[m].owner
      BY <1>2, <1>5, <2>1 DEF TypeOK, Fault
    <2> QED  BY <1>2, <1>5, <2>2, ErasedEntries DEF TypeOK
  <1> QED  BY <1>1, <1>3, <1>4, <1>5, FilesAssumption DEF FaultCopy, Faulting

\* The end: the page is on the system, or on the device as before.
LEMMA FinishEffect ==
    ASSUME TypeOK, NEW m \in Mm, FaultFinish(m)
    PROVE  /\ Faulting(m) /\ fault[m].at = "finish" /\ UNCHANGED <<file, pt>>
           /\ \A n \in Mm : n # m => cpu'[n] = cpu[n] /\ fault'[n] = fault[n]
           /\ fault'[m] = NoFault
           /\ \/ fault[m].frame # NoFrame /\ cpu'[m] = SysPage(fault[m].frame)
              \/ /\ fault[m].frame = NoFrame /\ cpu'[m].kind = "dev" /\ cpu'[m].frame = cpu[m].frame
                 /\ cpu'[m].dev = cpu[m].dev /\ cpu'[m].owner = cpu[m].owner
  <1>1. Faulting(m) /\ fault[m].at = "finish" /\ UNCHANGED <<file, pt>>
    BY DEF FaultFinish, Faulting, fileVars
  <1>2. /\ fault' = [fault EXCEPT ![m] = NoFault]
        /\ cpu' = [cpu EXCEPT ![m] = IF fault[m].frame = NoFrame
                                       THEN [cpu[m] EXCEPT !.kind = "dev"] ELSE SysPage(fault[m].frame)]
    BY DEF FaultFinish
  <1>3. cpu[m] \in Page  BY Fields
  <1>4. /\ [cpu[m] EXCEPT !.kind = "dev"].kind = "dev"
        /\ [cpu[m] EXCEPT !.kind = "dev"].frame = cpu[m].frame
        /\ [cpu[m] EXCEPT !.kind = "dev"].dev = cpu[m].dev
        /\ [cpu[m] EXCEPT !.kind = "dev"].owner = cpu[m].owner
    BY <1>3 DEF Page
  <1> QED  BY <1>1, <1>2, <1>4 DEF TypeOK

(***************************************************************************)
(* Pages and the faults on them.                                           *)
(***************************************************************************)
LEMMA PageStep == TypeOK /\ PageInv /\ [Next]_vars => PageInv'
  <1> SUFFICES ASSUME TypeOK, PageInv, [Next]_vars PROVE PageInv'  OBVIOUS
  <1>0. ASSUME UNCHANGED <<cpu, fault>> PROVE PageInv'
    BY <1>0 DEF PageInv, Faulting
  <1>1. ASSUME Undo PROVE PageInv'
    <2>1. UNCHANGED <<file, fault>>  BY <1>1 DEF Undo
    <2>2. CASE UNCHANGED <<chunks, pt, cpu>>  BY <2>1, <2>2, <1>0
    <2>3. CASE \E d \in Device : WorksOn(d)
      <3>1. PICK d \in Device : RemoveStep(d)  BY <2>3, WorkEffect
      <3> QED  BY <2>1, <3>1, RemovePages
    <2> QED  BY <1>1, <2>2, <2>3, RemoveInOrder
  <1>2. ASSUME rshm_exit PROVE PageInv'
    <2>1. UNCHANGED <<file, fault>>  BY <1>2 DEF rshm_exit
    <2>2. CASE UNCHANGED <<chunks, pt, cpu>>  BY <2>1, <2>2, <1>0
    <2>3. CASE \E d \in Device : WorksOn(d)
      <3>1. PICK d \in Device : RemoveStep(d)  BY <2>3, WorkEffect
      <3> QED  BY <2>1, <3>1, RemovePages
    <2> QED  BY <1>2, <2>2, <2>3, RemoveInOrder
  <1>3. ASSUME NEW f \in File, dmirror_migrate_to_device(f) PROVE PageInv'
    <2>1. file[f].dev \in Device /\ file[f].mm \in Mm /\ UNCHANGED fault
      BY <1>3, Fields DEF dmirror_migrate_to_device, Ioctl
    <2>2. CASE UNCHANGED cpu  BY <2>1, <2>2, <1>0
    <2>3. CASE /\ cpu[file[f].mm].kind \in {"none", "sys"}
               /\ \E new \in FreeFrames : cpu' = [cpu EXCEPT ![file[f].mm] = DevPage(new,
                        file[f].dev, f)]
      BY <2>1, <2>3 DEF TypeOK, PageInv, Faulting, DevPage
    <2> QED  BY <1>3, <2>2, <2>3 DEF dmirror_migrate_to_device
  <1>4. ASSUME NEW f \in File, dmirror_migrate_to_system(f) PROVE PageInv'
    <2>1. file[f].mm \in Mm /\ UNCHANGED fault
      BY <1>4, Fields DEF dmirror_migrate_to_system, Ioctl
    <2>2. CASE UNCHANGED cpu  BY <2>1, <2>2, <1>0
    <2>3. CASE /\ fault[file[f].mm] = NoFault
               /\ \E new \in FreeFrames : cpu' = [cpu EXCEPT ![file[f].mm] = SysPage(new)]
      BY <2>1, <2>3 DEF TypeOK, PageInv, Faulting, SysPage
    <2> QED  BY <1>4, <2>2, <2>3 DEF dmirror_migrate_to_system
  <1>5. ASSUME NEW f \in File, ReleaseStep(f) PROVE PageInv'
    BY <1>5, ReleaseEffect, RemovePages
  <1>6. ASSUME NEW f \in File, dmirror_fault(f) PROVE PageInv'
    <2>1. f \in reading /\ UNCHANGED fault  BY <1>6 DEF dmirror_fault
    <2>2. file[f].mm \in Mm  BY <2>1, Fields DEF TypeOK
    <2>3. CASE UNCHANGED cpu  BY <2>1, <2>3, <1>0
    <2>4. CASE /\ cpu[file[f].mm] = None
               /\ \E new \in FreeFrames : cpu' = [cpu EXCEPT ![file[f].mm] = SysPage(new)]
      BY <2>1, <2>2, <2>4 DEF TypeOK, PageInv, Faulting, SysPage, None
    <2> QED  BY <1>6, <2>3, <2>4 DEF dmirror_fault
  <1>7. ASSUME NEW m \in Mm, Touch(m) PROVE PageInv'
    BY <1>7 DEF Touch, TypeOK, PageInv, Faulting, SysPage, None
  <1>8. ASSUME NEW m \in Mm, ProcessExit(m) PROVE PageInv'
    BY <1>8 DEF ProcessExit, TypeOK, PageInv, Faulting, None
  <1>9. ASSUME NEW m \in Mm, dmirror_devmem_fault(m) PROVE PageInv'
    <2>1. /\ cpu[m].kind = "dev"
          /\ fault' = [fault EXCEPT ![m] = [at |-> "setup", owner |-> cpu[m].owner,
             frame |-> NoFrame]]
          /\ UNCHANGED cpu
      BY <1>9 DEF dmirror_devmem_fault
    <2> QED  BY <2>1 DEF TypeOK, PageInv, Faulting
  <1>10. ASSUME NEW m \in Mm, FaultSetup(m) PROVE PageInv'
    <2>1. Faulting(m) /\ cpu[m].kind = "dev"  BY <1>10, SetupEffect DEF PageInv
    <2> QED  BY <1>10, <2>1, SetupEffect DEF PageInv, Faulting
  <1>11. ASSUME NEW m \in Mm, FaultCopy(m) PROVE PageInv'
    <2>1. Faulting(m) /\ cpu[m].kind = "mig"  BY <1>11, CopyEffect DEF PageInv
    <2> QED  BY <1>11, <2>1, CopyEffect DEF PageInv, Faulting
  <1>12. ASSUME NEW m \in Mm, FaultFinish(m) PROVE PageInv'
    <2>1. Faulting(m) /\ cpu[m].kind = "mig"  BY <1>12, FinishEffect DEF PageInv
    <2>2. \A n : SysPage(n).kind = "sys" /\ SysPage(n).dev = -1  BY DEF SysPage
    <2> QED  BY <1>12, <2>1, <2>2, FinishEffect DEF PageInv, Faulting
  <1>13. ASSUME NEW f, NEW d, NEW m,
                \/ rshm_init \/ InitCdev \/ InitChunk \/ ExitStart
                \/ dmirror_fops_open(f, d, m) \/ dmirror_fops_release(f) \/ ReadStart(f)
                \/ dmirror_read(f) \/ Timeout(f)
         PROVE  PageInv'
    <2>1. UNCHANGED <<cpu, fault>>
      BY <1>13 DEF rshm_init, InitCdev, InitChunk, ExitStart, dmirror_fops_open,
              dmirror_fops_release, ReadStart, dmirror_read, Timeout, modVars, fileVars, mmVars
    <2> QED  BY <2>1, <1>0
  <1>14. CASE UNCHANGED vars  BY <1>0, <1>14 DEF vars, modVars, fileVars, mmVars
  <1> QED
    BY <1>1, <1>2, <1>3, <1>4, <1>5, <1>6, <1>7, <1>8, <1>9, <1>10, <1>11, <1>12, <1>13, <1>14
       DEF Next, Module, Ioctls, ReadStep, ReleaseStep, Handler

(***************************************************************************)
(* What is closed mirrors nothing.                                         *)
(***************************************************************************)
LEMMA ClosedStep == TypeOK /\ PageInv /\ ClosedInv /\ [Next]_vars => ClosedInv'
  <1> SUFFICES ASSUME TypeOK, PageInv, ClosedInv, [Next]_vars PROVE ClosedInv'  OBVIOUS
  <1>0. ASSUME UNCHANGED <<file, pt>> PROVE ClosedInv'
    BY <1>0 DEF ClosedInv, Open
  <1> USE DEF ClosedInv, Open
  <1>1. ASSUME Undo PROVE ClosedInv'
    <2>1. UNCHANGED file  BY <1>1 DEF Undo
    <2>2. \A f \in File : pt'[f] = pt[f] \/ pt'[f] = NoFrame
      BY <1>1, RemoveInOrder, WorkEffect, RemoveEffect
    <2> QED  BY <2>1, <2>2
  <1>2. ASSUME rshm_exit PROVE ClosedInv'
    <2>1. UNCHANGED file  BY <1>2 DEF rshm_exit
    <2>2. \A f \in File : pt'[f] = pt[f] \/ pt'[f] = NoFrame
      BY <1>2, RemoveInOrder, WorkEffect, RemoveEffect
    <2> QED  BY <2>1, <2>2
  <1>3. ASSUME NEW f \in File, NEW d \in Device, NEW m \in Mm, dmirror_fops_open(f, d, m)
        PROVE  ClosedInv'
    BY <1>3 DEF dmirror_fops_open, TypeOK
  <1>4. ASSUME NEW f \in File, dmirror_fops_release(f) PROVE ClosedInv'
    BY <1>4 DEF dmirror_fops_release, TypeOK
  <1>5. ASSUME NEW f \in File, dmirror_migrate_to_device(f) PROVE ClosedInv'
    <2>1. UNCHANGED file /\ Open(f)  BY <1>5 DEF dmirror_migrate_to_device, Ioctl
    <2>2. \A g \in File : g # f => pt'[g] = pt[g] \/ pt'[g] = NoFrame
      BY <1>5, ErasedEntries DEF dmirror_migrate_to_device
    <2> QED  BY <2>1, <2>2
  <1>6. ASSUME NEW f \in File, dmirror_migrate_to_system(f) PROVE ClosedInv'
    <2>1. UNCHANGED file  BY <1>6 DEF dmirror_migrate_to_system
    <2>2. \A g \in File : pt'[g] = pt[g] \/ pt'[g] = NoFrame
      BY <1>6, ErasedEntries DEF dmirror_migrate_to_system
    <2> QED  BY <2>1, <2>2
  <1>7. ASSUME NEW f \in File, ReleaseStep(f) PROVE ClosedInv'
    <2>1. UNCHANGED file /\ \A g \in File : pt'[g] = pt[g] \/ pt'[g] = NoFrame
      BY <1>7, ReleaseEffect, RemoveEffect
    <2> QED  BY <2>1
  <1>8. ASSUME NEW f \in File, dmirror_fault(f) PROVE ClosedInv'
    <2>1. UNCHANGED file /\ Open(f)  BY <1>8 DEF dmirror_fault, TypeOK
    <2>2. \A g \in File : g # f => pt'[g] = pt[g]  BY <1>8 DEF dmirror_fault, TypeOK
    <2> QED  BY <2>1, <2>2
  <1>9. ASSUME NEW m \in Mm, ProcessExit(m) PROVE ClosedInv'
    <2>1. UNCHANGED file  BY <1>9 DEF ProcessExit
    <2>2. \A g \in File : pt'[g] = pt[g] \/ pt'[g] = NoFrame
      BY <1>9, ErasedEntries DEF ProcessExit
    <2> QED  BY <2>1, <2>2
  <1>10. ASSUME NEW m \in Mm, FaultSetup(m) PROVE ClosedInv'
    BY <1>10, SetupEffect
  <1>11. ASSUME NEW m \in Mm, FaultCopy(m) PROVE ClosedInv'
    BY <1>11, CopyEffect
  <1>12. ASSUME NEW f, NEW d, NEW m,
                \/ rshm_init \/ InitCdev \/ InitChunk \/ ExitStart \/ ReadStart(f)
                \/ dmirror_read(f) \/ Timeout(f) \/ Touch(m) \/ dmirror_devmem_fault(m)
                \/ FaultFinish(m)
         PROVE  ClosedInv'
    <2>1. UNCHANGED <<file, pt>>
      BY <1>12 DEF rshm_init, InitCdev, InitChunk, ExitStart, ReadStart, dmirror_read, Timeout,
              Touch, dmirror_devmem_fault, FaultFinish, modVars, fileVars, mmVars
    <2> QED  BY <2>1, <1>0
  <1>13. CASE UNCHANGED vars  BY <1>0, <1>13 DEF vars, modVars, fileVars, mmVars
  <1> QED
    BY <1>1, <1>2, <1>3, <1>4, <1>5, <1>6, <1>7, <1>8, <1>9, <1>10, <1>11, <1>12, <1>13
       DEF Next, Module, Ioctls, ReadStep, ReleaseStep, Handler

(***************************************************************************)
(* A fault has a new page only at its end.                                 *)
(***************************************************************************)
LEMMA FrameStep == TypeOK /\ FrameInv /\ [Next]_vars => FrameInv'
  <1> SUFFICES ASSUME TypeOK, FrameInv, [Next]_vars PROVE FrameInv'  OBVIOUS
  <1>0. ASSUME UNCHANGED <<fault>> PROVE FrameInv'
    BY <1>0 DEF FrameInv, Faulting
  <1>1. ASSUME NEW m \in Mm, dmirror_devmem_fault(m) PROVE FrameInv'
    BY <1>1 DEF dmirror_devmem_fault, TypeOK, FrameInv, Faulting
  <1>2. ASSUME NEW m \in Mm, FaultSetup(m) PROVE FrameInv'
    <2>1. fault[m].frame = NoFrame  BY <1>2, SetupEffect DEF FrameInv
    <2> QED  BY <1>2, <2>1, SetupEffect DEF FrameInv, Faulting
  <1>3. ASSUME NEW m \in Mm, FaultCopy(m) PROVE FrameInv'
    <2>1. fault[m].frame = NoFrame  BY <1>3, CopyEffect DEF FrameInv
    <2> QED  BY <1>3, <2>1, CopyEffect DEF FrameInv, Faulting
  <1>4. ASSUME NEW m \in Mm, FaultFinish(m) PROVE FrameInv'
    BY <1>4, FinishEffect DEF FrameInv, Faulting
  <1>5. ASSUME NEW f, NEW d, NEW m,
                \/ rshm_init \/ InitCdev \/ InitChunk \/ Undo \/ ExitStart \/ rshm_exit
                \/ dmirror_fops_open(f, d, m) \/ dmirror_fops_release(f)
                \/ dmirror_migrate_to_device(f) \/ dmirror_migrate_to_system(f)
                \/ ReadStart(f) \/ dmirror_read(f) \/ dmirror_fault(f)
                \/ Timeout(f) \/ Touch(m) \/ ProcessExit(m)
         PROVE  FrameInv'
    <2>1. UNCHANGED <<fault>>
      BY <1>5 DEF rshm_init, InitCdev, InitChunk, Undo, ExitStart, rshm_exit, dmirror_fops_open,
              dmirror_fops_release, dmirror_migrate_to_device, dmirror_migrate_to_system,
              ReadStart, dmirror_read, dmirror_fault, Timeout, Touch, ProcessExit, modVars,
              fileVars, mmVars
    <2> QED  BY <2>1, <1>0
  <1>6. ASSUME NEW f \in File, ReleaseStep(f) PROVE FrameInv'
    BY <1>6, <1>0, ReleaseEffect
  <1>7. CASE UNCHANGED vars  BY <1>0, <1>7 DEF vars, modVars, fileVars, mmVars
  <1> QED
    BY <1>1, <1>2, <1>3, <1>4, <1>5, <1>6, <1>7
       DEF Next, Module, Ioctls, ReadStep, ReleaseStep, Handler

\* The mirrors that are told stay told, as long as only entries are erased.
LEMMA ToldKept ==
    ASSUME ToldInv, UNCHANGED <<file, fault>>,
           \A f \in File : pt'[f] = pt[f] \/ pt'[f] = NoFrame,
           \A m \in Mm : Faulting(m) => cpu'[m] = cpu[m]
    PROVE  ToldInv'
  BY DEF ToldInv, Faulting, MirrorsOf, Open

(***************************************************************************)
(* The mirrors told of the migration of a page.                            *)
(***************************************************************************)
LEMMA ToldStep ==
    TypeOK /\ PageInv /\ ClosedInv /\ FrameInv /\ ToldInv /\ [Next]_vars => ToldInv'
  <1> SUFFICES ASSUME TypeOK, PageInv, ClosedInv, FrameInv, ToldInv, [Next]_vars
        PROVE  ToldInv'  OBVIOUS
  <1>0. ASSUME UNCHANGED <<file, pt, cpu, fault>> PROVE ToldInv'
    BY <1>0 DEF ToldInv, Faulting, MirrorsOf, Open
  <1>1. ASSUME Undo PROVE ToldInv'
    <2>1. UNCHANGED <<file, fault>>  BY <1>1 DEF Undo
    <2>2. CASE UNCHANGED <<pt, cpu>>  BY <1>0, <2>1, <2>2
    <2>3. CASE \E d \in Device : WorksOn(d)
      <3>1. PICK d \in Device : RemoveStep(d)  BY <2>3, WorkEffect
      <3> QED  BY <2>1, <3>1, RemoveEffect, ToldKept
    <2> QED  BY <1>1, <2>2, <2>3, RemoveInOrder
  <1>2. ASSUME rshm_exit PROVE ToldInv'
    <2>1. UNCHANGED <<file, fault>>  BY <1>2 DEF rshm_exit
    <2>2. CASE UNCHANGED <<pt, cpu>>  BY <1>0, <2>1, <2>2
    <2>3. CASE \E d \in Device : WorksOn(d)
      <3>1. PICK d \in Device : RemoveStep(d)  BY <2>3, WorkEffect
      <3> QED  BY <2>1, <3>1, RemoveEffect, ToldKept
    <2> QED  BY <1>2, <2>2, <2>3, RemoveInOrder
  <1>3. ASSUME NEW f \in File, NEW d \in Device, NEW m \in Mm, dmirror_fops_open(f, d, m)
        PROVE  ToldInv'
    <2>1. /\ UNCHANGED <<pt, cpu, fault>> /\ pt[f] = NoFrame
          /\ \A g \in File : g # f => file'[g] = file[g]
      BY <1>3 DEF dmirror_fops_open, TypeOK, ClosedInv, mmVars
    <2> QED  BY <2>1 DEF ToldInv, Faulting, MirrorsOf, Open
  <1>4. ASSUME NEW f \in File, dmirror_fops_release(f) PROVE ToldInv'
    <2>1. /\ UNCHANGED <<cpu, fault>> /\ pt'[f] = NoFrame
          /\ \A g \in File : g # f => file'[g] = file[g] /\ pt'[g] = pt[g]
      BY <1>4 DEF dmirror_fops_release, TypeOK, mmVars
    <2> QED  BY <2>1 DEF ToldInv, Faulting, MirrorsOf, Open
  <1>5. ASSUME NEW f \in File, dmirror_migrate_to_device(f) PROVE ToldInv'
    <2>1. /\ UNCHANGED <<file, fault>> /\ file[f].mm \in Mm
          /\ \A g \in File : g # f => pt'[g] = pt[g] \/ pt'[g] = NoFrame
      BY <1>5, Fields, ErasedEntries DEF dmirror_migrate_to_device, Ioctl
    <2>2. CASE UNCHANGED cpu /\ pt' = Erased(ToldOfMigration(file[f].mm, file[f].dev))
      BY <2>1, <2>2, ErasedEntries, ToldKept
    <2>3. CASE cpu[file[f].mm].kind \in {"none", "sys"}
      <3>1. ~Faulting(file[f].mm)  BY <2>1, <2>3 DEF PageInv
      <3>2. \A m \in Mm : m # file[f].mm => cpu'[m] = cpu[m]
        BY <1>5 DEF dmirror_migrate_to_device, TypeOK
      <3> QED  BY <2>1, <3>1, <3>2 DEF ToldInv, Faulting, MirrorsOf, Open
    <2> QED  BY <1>5, <2>2, <2>3 DEF dmirror_migrate_to_device
  <1>6. ASSUME NEW f \in File, dmirror_migrate_to_system(f) PROVE ToldInv'
    <2>1. UNCHANGED <<file, fault>> /\ \A g \in File : pt'[g] = pt[g] \/ pt'[g] = NoFrame
      BY <1>6, ErasedEntries DEF dmirror_migrate_to_system
    <2>2. \A m \in Mm : Faulting(m) => cpu'[m] = cpu[m]
      BY <1>6 DEF dmirror_migrate_to_system, TypeOK, Faulting
    <2> QED  BY <2>1, <2>2, ToldKept
  <1>7. ASSUME NEW f \in File, ReleaseStep(f) PROVE ToldInv'
    BY <1>7, ReleaseEffect, RemoveEffect, ToldKept
  <1>8. ASSUME NEW f \in File, dmirror_fault(f) PROVE ToldInv'
    <2>1. f \in reading /\ UNCHANGED <<file, fault>> /\ \A g \in File : g # f => pt'[g] = pt[g]
      BY <1>8 DEF dmirror_fault, TypeOK
    <2>2. file[f].mm \in Mm  BY <2>1, Fields DEF TypeOK
    <2>3. cpu[file[f].mm].kind \in {"none", "sys", "dev"}  BY <1>8 DEF dmirror_fault, None
    <2>4. \A m \in Mm : cpu'[m] = cpu[m] \/ cpu[m].kind = "none"
      BY <1>8 DEF dmirror_fault, TypeOK, None
    <2>5. \A m \in Mm : Faulting(m) => cpu'[m] = cpu[m]  BY <2>4 DEF PageInv
    <2>6. /\ Faulting(file[f].mm) => fault[file[f].mm].at \notin {"copy", "finish"}
          /\ Faulting(file[f].mm) => fault[file[f].mm].frame = NoFrame
      BY <2>2, <2>3 DEF PageInv, FrameInv
    <2> QED  BY <2>1, <2>5, <2>6 DEF ToldInv, Faulting, MirrorsOf, Open
  <1>9. ASSUME NEW m \in Mm, Touch(m) PROVE ToldInv'
    <2>1. UNCHANGED <<file, fault, pt>> /\ \A n \in Mm : cpu'[n] = cpu[n] \/ cpu[n].kind = "none"
      BY <1>9 DEF Touch, TypeOK, None, fileVars
    <2>2. \A n \in Mm : Faulting(n) => cpu'[n] = cpu[n]  BY <2>1 DEF PageInv
    <2> QED  BY <2>1, <2>2, ToldKept
  <1>10. ASSUME NEW m \in Mm, ProcessExit(m) PROVE ToldInv'
    <2>1. UNCHANGED <<file, fault>> /\ \A g \in File : pt'[g] = pt[g] \/ pt'[g] = NoFrame
      BY <1>10, ErasedEntries DEF ProcessExit
    <2>2. \A n \in Mm : Faulting(n) => cpu'[n] = cpu[n]
      BY <1>10 DEF ProcessExit, TypeOK, Faulting
    <2> QED  BY <2>1, <2>2, ToldKept
  <1>11. ASSUME NEW m \in Mm, dmirror_devmem_fault(m) PROVE ToldInv'
    <2>1. /\ UNCHANGED <<file, pt, cpu>> /\ fault'[m].at = "setup" /\ fault'[m].frame = NoFrame
          /\ \A n \in Mm : n # m => fault'[n] = fault[n]
      BY <1>11 DEF dmirror_devmem_fault, TypeOK, fileVars
    <2> QED  BY <2>1 DEF ToldInv, Faulting, MirrorsOf, Open
  <1>12. ASSUME NEW m \in Mm, FaultSetup(m) PROVE ToldInv'
    <2>1. fault[m].frame = NoFrame  BY <1>12, SetupEffect DEF FrameInv
    <2> QED  BY <1>12, <2>1, SetupEffect DEF ToldInv, Faulting, MirrorsOf, Open
  <1>13. ASSUME NEW m \in Mm, FaultCopy(m) PROVE ToldInv'
    <2>1. fault[m].frame = NoFrame  BY <1>13, CopyEffect DEF FrameInv
    <2>2. fault[m].owner = cpu[m].owner  BY <1>13, CopyEffect DEF PageInv
    <2> QED  BY <1>13, <2>1, <2>2, CopyEffect DEF ToldInv, Faulting, MirrorsOf, Open
  <1>14. ASSUME NEW m \in Mm, FaultFinish(m) PROVE ToldInv'
    BY <1>14, FinishEffect DEF ToldInv, Faulting, MirrorsOf, Open
  <1>15. ASSUME NEW f, NEW d, NEW m,
                \/ rshm_init \/ InitCdev \/ InitChunk \/ ExitStart \/ ReadStart(f)
                \/ dmirror_read(f) \/ Timeout(f)
         PROVE  ToldInv'
    <2>1. UNCHANGED <<file, pt, cpu, fault>>
      BY <1>15 DEF rshm_init, InitCdev, InitChunk, ExitStart, ReadStart, dmirror_read, Timeout,
              modVars, fileVars, mmVars
    <2> QED  BY <2>1, <1>0
  <1>16. CASE UNCHANGED vars  BY <1>0, <1>16 DEF vars, modVars, fileVars, mmVars
  <1> QED
    BY <1>1, <1>2, <1>3, <1>4, <1>5, <1>6, <1>7, <1>8, <1>9, <1>10, <1>11, <1>12, <1>13, <1>14,
       <1>15, <1>16
       DEF Next, Module, Ioctls, ReadStep, ReleaseStep, Handler

-----------------------------------------------------------------------------
\* A system page is on no device, and a device page on its device.
LEMMA PageDevices ==
    /\ None.dev = -1
    /\ \A n : SysPage(n).dev = -1
    /\ \A n, d, f : DevPage(n, d, f).dev = d
  BY DEF None, SysPage, DevPage

(***************************************************************************)
(* The two steps of rshm_init() for a device, which may both fail.         *)
(***************************************************************************)
LEMMA InitEffect ==
    ASSUME TypeOK, ModInv, InitCdev \/ InitChunk
    PROVE  /\ mod = "coming" /\ bad = -1 /\ id \in Device
           /\ ~opened /\ UNCHANGED <<file, cpu>>
           /\ \/ /\ mod' = "coming" /\ id' = id /\ bad' = bad /\ ~opened'
                 /\ chunks' = chunks /\ cdev' = cdev \cup {id}
              \/ /\ mod' = "coming" /\ id' = id + 1 /\ id + 1 < NDevices /\ bad' = bad /\ ~opened'
                 /\ chunks' = chunks \cup {id} /\ cdev' = cdev
              \/ /\ mod' = "live" /\ id' = id + 1 /\ bad' = bad /\ ~opened'
                 /\ chunks' = chunks \cup {id} /\ cdev' = cdev
              \/ /\ mod' = "undo" /\ id' = id /\ bad' = id /\ chunks' = chunks /\ cdev' = cdev
                 /\ opened' \/ \A f \in File : ~Open(f)
  <1>1. mod = "coming" /\ UNCHANGED <<file, cpu>>  BY DEF InitCdev, InitChunk, fileVars, mmVars
  <1>2. bad = -1 /\ ~opened  BY <1>1 DEF ModInv
  <1>3. id \in Device /\ id + 1 \in Int  BY <1>1, FilesAssumption DEF TypeOK, ModInv, Device
  <1>4. CASE InitFails /\ UNCHANGED <<chunks, cdev>>
    <2>1. mod' = "undo" /\ id' = id /\ bad' = id  BY <1>4 DEF InitFails
    <2>2. opened' \/ \A f \in File : ~Open(f)  BY <1>4, Zenon DEF InitFails
    <2> QED  BY <1>1, <1>2, <1>3, <1>4, <2>1, <2>2
  <1>5. CASE cdev' = cdev \cup {id} /\ UNCHANGED <<mod, id, bad, opened, chunks>>
    BY <1>1, <1>2, <1>3, <1>5
  <1>6. CASE /\ chunks' = chunks \cup {id} /\ id' = id + 1
             /\ mod' = (IF InitDone THEN "live" ELSE mod) /\ UNCHANGED <<bad, opened, cdev>>
    <2>1. mod' = "live" \/ (mod' = "coming" /\ id + 1 < NDevices)
      BY <1>1, <1>3, <1>6, FilesAssumption DEF InitDone, Device
    <2> QED  BY <1>1, <1>2, <1>3, <1>6, <2>1
  <1>7. CASE InitCdev  BY <1>4, <1>5, <1>7 DEF InitCdev
  <1>8. CASE InitChunk  BY <1>4, <1>6, <1>8 DEF InitChunk
  <1> QED  BY <1>7, <1>8

(***************************************************************************)
(* Where the module is, and the devices that user space can open.          *)
(***************************************************************************)
LEMMA ModStep == TypeOK /\ ModInv /\ [Next]_vars => ModInv'
  <1> SUFFICES ASSUME TypeOK, ModInv, [Next]_vars PROVE ModInv'  OBVIOUS
  <1>0. ASSUME UNCHANGED <<mod, id, bad, opened, cdev>> PROVE ModInv'
    BY <1>0 DEF ModInv, Left
  <1> USE DEF ModInv
  <1>a. id \in 0..NDevices /\ NDevices \in Nat \ {0} /\ bad \in Device \cup {-1}
        /\ cdev \subseteq Left /\ opened \in BOOLEAN
    BY FilesAssumption DEF TypeOK
  <1>1. ASSUME rshm_init PROVE ModInv'
    <2>1. Left \subseteq Left'  BY <1>1 DEF rshm_init, Left
    <2> QED  BY <1>1, <1>a, <2>1 DEF rshm_init
  <1>2. ASSUME InitCdev PROVE ModInv'
    <2>1. Left \subseteq Left'  BY <1>2, <1>a, InitEffect DEF Left, Device
    <2>2. mod \in {"coming"} /\ id \in Device /\ bad = -1  BY <1>2, InitEffect
    <2>3. id' = id /\ cdev' # cdev => id \in Left'  BY <1>2, <1>a, InitEffect DEF Left, Device
    <2>4. cdev' \subseteq Left'  BY <1>2, <1>a, <2>1, <2>3, InitEffect
    <2> QED  BY <1>2, <1>a, <2>2, <2>4, InitEffect
  <1>3. ASSUME InitChunk PROVE ModInv'
    <2>1. Left \subseteq Left'  BY <1>3, <1>a, InitEffect DEF Left, Device
    <2>2. mod \in {"coming"} /\ id \in Device /\ bad = -1  BY <1>3, InitEffect
    <2>3. id' = id /\ cdev' # cdev => id \in Left'  BY <1>3, <1>a, InitEffect DEF Left, Device
    <2>4. cdev' \subseteq Left'  BY <1>3, <1>a, <2>1, <2>3, InitEffect
    <2> QED  BY <1>3, <1>a, <2>2, <2>4, InitEffect
  <1>4. ASSUME Undo PROVE ModInv'
    <2>1. UNCHANGED <<bad, opened>>  BY <1>4 DEF Undo
    <2>2. CASE \E d \in Device : WorksOn(d)
      <3>1. PICK d \in Device : WorksOn(d)  BY <2>2
      <3>2. CASE EvictsNext(d)  BY <1>0, <2>1, <3>2 DEF EvictsNext
      <3>3. CASE RemovesNext(d)
        <4>1. cdev' = cdev \ {d} /\ UNCHANGED mod  BY <3>3 DEF RemovesNext
        <4>2. \/ mod = "undo" /\ d = id - 1 /\ id' = id - 1
              \/ mod = "going" /\ d = id /\ id' = id + 1
          BY <3>3 DEF RemovesNext
        <4>3. Left \ {d} \subseteq Left'  BY <1>a, <2>1, <4>1, <4>2 DEF Left, Device
        <4>4. cdev' \subseteq Left'  BY <1>a, <4>1, <4>3
        <4> QED  BY <1>a, <2>1, <4>1, <4>2, <4>4 DEF Device
      <3> QED  BY <3>1, <3>2, <3>3 DEF WorksOn
    <2>3. CASE /\ UNCHANGED <<id, cdev>>
               /\ \/ mod = "undo" /\ mod' = "failed" /\ id = 0
                  \/ mod = "going" /\ mod' = "exited" /\ id = NDevices
      <3>1. Left \subseteq Left'  BY <1>a, <2>1, <2>3 DEF Left, Device
      <3> QED  BY <1>a, <2>1, <2>3, <3>1
    <2> QED  BY <1>4, <2>2, <2>3, RemoveInOrder
  <1>5. ASSUME ExitStart PROVE ModInv'
    <2>1. Left \subseteq Left'  BY <1>5, <1>a DEF ExitStart, Left, Device
    <2> QED  BY <1>5, <1>a, <2>1 DEF ExitStart
  <1>6. ASSUME rshm_exit PROVE ModInv'
    <2>1. UNCHANGED <<bad, opened>>  BY <1>6 DEF rshm_exit
    <2>2. CASE \E d \in Device : WorksOn(d)
      <3>1. PICK d \in Device : WorksOn(d)  BY <2>2
      <3>2. CASE EvictsNext(d)  BY <1>0, <2>1, <3>2 DEF EvictsNext
      <3>3. CASE RemovesNext(d)
        <4>1. cdev' = cdev \ {d} /\ UNCHANGED mod  BY <3>3 DEF RemovesNext
        <4>2. \/ mod = "undo" /\ d = id - 1 /\ id' = id - 1
              \/ mod = "going" /\ d = id /\ id' = id + 1
          BY <3>3 DEF RemovesNext
        <4>3. Left \ {d} \subseteq Left'  BY <1>a, <2>1, <4>1, <4>2 DEF Left, Device
        <4>4. cdev' \subseteq Left'  BY <1>a, <4>1, <4>3
        <4> QED  BY <1>a, <2>1, <4>1, <4>2, <4>4 DEF Device
      <3> QED  BY <3>1, <3>2, <3>3 DEF WorksOn
    <2>3. CASE /\ UNCHANGED <<id, cdev>>
               /\ \/ mod = "undo" /\ mod' = "failed" /\ id = 0
                  \/ mod = "going" /\ mod' = "exited" /\ id = NDevices
      <3>1. Left \subseteq Left'  BY <1>a, <2>1, <2>3 DEF Left, Device
      <3> QED  BY <1>a, <2>1, <2>3, <3>1
    <2> QED  BY <1>6, <2>2, <2>3, RemoveInOrder
  <1>7. ASSUME NEW f \in File, NEW d \in Device, NEW m \in Mm, dmirror_fops_open(f, d, m)
        PROVE  ModInv'
    <2>1. UNCHANGED <<mod, id, bad, cdev>> /\ opened' = (opened \/ mod = "undo")
      BY <1>7 DEF dmirror_fops_open
    <2>2. Left' = Left  BY <2>1 DEF Left
    <2> QED  BY <2>1, <2>2
  <1>8. ASSUME NEW f, NEW d, NEW m,
                \/ dmirror_fops_release(f) \/ dmirror_migrate_to_device(f)
                \/ dmirror_migrate_to_system(f) \/ ReadStart(f)
                \/ dmirror_read(f) \/ dmirror_fault(f) \/ Timeout(f) \/ Touch(m)
                \/ ProcessExit(m) \/ dmirror_devmem_fault(m) \/ FaultSetup(m) \/ FaultCopy(m)
                \/ FaultFinish(m)
         PROVE  ModInv'
    <2>1. UNCHANGED <<mod, id, bad, opened, cdev>>
      BY <1>8 DEF dmirror_fops_release, dmirror_migrate_to_device, dmirror_migrate_to_system,
              ReadStart, dmirror_read, dmirror_fault, Timeout, Touch, ProcessExit,
              dmirror_devmem_fault, FaultSetup, FaultCopy, FaultFinish, modVars, fileVars,
              mmVars
    <2> QED  BY <2>1, <1>0
  <1>9. ASSUME NEW f \in File, ReleaseStep(f) PROVE ModInv'
    BY <1>9, <1>0, ReleaseEffect
  <1>10. CASE UNCHANGED vars  BY <1>0, <1>10 DEF vars, modVars, fileVars, mmVars
  <1> QED
    BY <1>1, <1>2, <1>3, <1>4, <1>5, <1>6, <1>7, <1>8, <1>9, <1>10
       DEF Next, Module, Ioctls, ReadStep, ReleaseStep, Handler

(***************************************************************************)
(* What may still be on a device, and which.                               *)
(***************************************************************************)
LEMMA UnloadStep == TypeOK /\ PageInv /\ ModInv /\ UnloadInv /\ [Next]_vars => UnloadInv'
  <1> SUFFICES ASSUME TypeOK, PageInv, ModInv, UnloadInv, [Next]_vars PROVE UnloadInv'  OBVIOUS
  <1>0. ASSUME UNCHANGED <<mod, id, bad, opened, chunks, cpu, file>> PROVE UnloadInv'
    BY <1>0 DEF UnloadInv, Left, Open
  <1> USE DEF UnloadInv, Open
  <1>a. id \in 0..NDevices /\ NDevices \in Nat \ {0} /\ bad \in Device \cup {-1}
        /\ opened \in BOOLEAN
    BY FilesAssumption DEF TypeOK
  <1>1. ASSUME rshm_init PROVE UnloadInv'
    <2>1. Left \subseteq Left'  BY <1>1 DEF rshm_init, Left
    <2> QED  BY <1>1, <2>1 DEF rshm_init, fileVars, mmVars
  <1>2. ASSUME InitCdev PROVE UnloadInv'
    <2>1. Left \subseteq Left' /\ mod = "coming" /\ UNCHANGED <<file, cpu>> /\ ~opened
      BY <1>2, <1>a, InitEffect DEF Left, Device
    <2>2. id \in Left'  BY <1>2, <1>a, InitEffect DEF Left, Device
    <2>3. chunks' = chunks \/ chunks' = chunks \cup {id}  BY <1>2, InitEffect
    <2>4. opened' \/ mod' \in {"coming", "live"} \/ \A f \in File : ~Open(f)  BY <1>2, InitEffect
    <2> QED  BY <2>1, <2>2, <2>3, <2>4
  <1>3. ASSUME InitChunk PROVE UnloadInv'
    <2>1. Left \subseteq Left' /\ mod = "coming" /\ UNCHANGED <<file, cpu>> /\ ~opened
      BY <1>3, <1>a, InitEffect DEF Left, Device
    <2>2. id \in Left'  BY <1>3, <1>a, InitEffect DEF Left, Device
    <2>3. chunks' = chunks \/ chunks' = chunks \cup {id}  BY <1>3, InitEffect
    <2>4. opened' \/ mod' \in {"coming", "live"} \/ \A f \in File : ~Open(f)  BY <1>3, InitEffect
    <2> QED  BY <2>1, <2>2, <2>3, <2>4
  <1>4. ASSUME Undo PROVE UnloadInv'
    <2>1. UNCHANGED <<bad, opened, file>>  BY <1>4 DEF Undo
    <2>2. CASE \E d \in Device : WorksOn(d)
      <3>1. PICK d \in Device : WorksOn(d)  BY <2>2
      <3>2. CASE EvictsNext(d)
        <4>1. Left' = Left /\ UNCHANGED <<mod, chunks>>  BY <2>1, <3>2 DEF EvictsNext, Left
        <4>2. \A m \in Mm : cpu'[m].dev \in {cpu[m].dev, -1}
          BY <3>1, WorkEffect, RemoveEffect, PageDevices
        <4> QED  BY <2>1, <4>1, <4>2
      <3>3. CASE RemovesNext(d)
        <4>1. UNCHANGED mod  BY <3>3 DEF RemovesNext
        <4>2. \/ mod = "undo" /\ d = id - 1 /\ id' = id - 1
              \/ mod = "going" /\ d = id /\ id' = id + 1
          BY <3>3 DEF RemovesNext
        <4>3. Left \ {d} \subseteq Left'  BY <1>a, <2>1, <4>1, <4>2 DEF Left, Device
        <4>4. chunks' = chunks \ {d} /\ UNCHANGED cpu /\ \A m \in Mm : cpu[m].dev # d
          BY <3>3 DEF RemovesNext, dmirror_device_remove_chunks
        <4> QED  BY <2>1, <4>1, <4>2, <4>3, <4>4
      <3> QED  BY <3>1, <3>2, <3>3 DEF WorksOn
    <2>3. CASE /\ UNCHANGED <<id, chunks, cpu>>
               /\ \/ mod = "undo" /\ mod' = "failed" /\ id = 0
                  \/ mod = "going" /\ mod' = "exited" /\ id = NDevices
      <3>1. Left \subseteq Left'  BY <1>a, <2>1, <2>3 DEF Left, Device
      <3> QED  BY <2>1, <2>3, <3>1
    <2> QED  BY <1>4, <2>2, <2>3, RemoveInOrder
  <1>5. ASSUME ExitStart PROVE UnloadInv'
    <2>1. Left \subseteq Left'  BY <1>5, <1>a DEF ExitStart, Left, Device
    <2> QED  BY <1>5, <2>1 DEF ExitStart, fileVars, mmVars
  <1>6. ASSUME rshm_exit PROVE UnloadInv'
    <2>1. UNCHANGED <<bad, opened, file>>  BY <1>6 DEF rshm_exit
    <2>2. CASE \E d \in Device : WorksOn(d)
      <3>1. PICK d \in Device : WorksOn(d)  BY <2>2
      <3>2. CASE EvictsNext(d)
        <4>1. Left' = Left /\ UNCHANGED <<mod, chunks>>  BY <2>1, <3>2 DEF EvictsNext, Left
        <4>2. \A m \in Mm : cpu'[m].dev \in {cpu[m].dev, -1}
          BY <3>1, WorkEffect, RemoveEffect, PageDevices
        <4> QED  BY <2>1, <4>1, <4>2
      <3>3. CASE RemovesNext(d)
        <4>1. UNCHANGED mod  BY <3>3 DEF RemovesNext
        <4>2. \/ mod = "undo" /\ d = id - 1 /\ id' = id - 1
              \/ mod = "going" /\ d = id /\ id' = id + 1
          BY <3>3 DEF RemovesNext
        <4>3. Left \ {d} \subseteq Left'  BY <1>a, <2>1, <4>1, <4>2 DEF Left, Device
        <4>4. chunks' = chunks \ {d} /\ UNCHANGED cpu /\ \A m \in Mm : cpu[m].dev # d
          BY <3>3 DEF RemovesNext, dmirror_device_remove_chunks
        <4> QED  BY <2>1, <4>1, <4>2, <4>3, <4>4
      <3> QED  BY <3>1, <3>2, <3>3 DEF WorksOn
    <2>3. CASE /\ UNCHANGED <<id, chunks, cpu>>
               /\ \/ mod = "undo" /\ mod' = "failed" /\ id = 0
                  \/ mod = "going" /\ mod' = "exited" /\ id = NDevices
      <3>1. Left \subseteq Left'  BY <1>a, <2>1, <2>3 DEF Left, Device
      <3> QED  BY <2>1, <2>3, <3>1
    <2> QED  BY <1>6, <2>2, <2>3, RemoveInOrder
  <1>7. ASSUME NEW f \in File, NEW d \in Device, NEW m \in Mm, dmirror_fops_open(f, d, m)
        PROVE  UnloadInv'
    <2>1. UNCHANGED <<mod, id, bad, cdev, chunks, cpu>> /\ opened' = (opened \/ mod = "undo")
      BY <1>7 DEF dmirror_fops_open, mmVars
    <2>2. Left' = Left  BY <2>1 DEF Left
    <2>3. d \in Left /\ mod \in {"coming", "undo", "live"}
      BY <1>7 DEF dmirror_fops_open, CodeLoaded, ModInv
    <2>4. \A g \in File : file'[g] = file[g] \/ file'[g].dev = d
      BY <1>7 DEF dmirror_fops_open, TypeOK
    <2>5. CASE opened' = TRUE  BY <2>5
    <2>6. CASE ~opened /\ mod # "undo"
      BY <2>1, <2>2, <2>3, <2>4, <2>6
    <2> QED  BY <1>a, <2>1, <2>5, <2>6
  <1>8. ASSUME NEW f \in File, dmirror_fops_release(f) PROVE UnloadInv'
    <2>1. UNCHANGED <<mod, id, bad, opened>>  BY <1>8 DEF dmirror_fops_release, modVars
    <2>2. Left' = Left  BY <2>1 DEF Left
    <2>3. UNCHANGED <<chunks, cpu>> /\ \A g \in File : file'[g] = file[g] \/ file'[g] = NoFile
      BY <1>8 DEF dmirror_fops_release, TypeOK, modVars, mmVars
    <2> QED  BY <2>1, <2>2, <2>3
  <1>9. ASSUME NEW f \in File, dmirror_migrate_to_device(f) PROVE UnloadInv'
    <2>1. UNCHANGED <<mod, id, bad, opened>>  BY <1>9 DEF dmirror_migrate_to_device, modVars
    <2>2. Left' = Left  BY <2>1 DEF Left
    <2>3. UNCHANGED file /\ Open(f) /\ file[f].mm \in Mm
      BY <1>9, Fields DEF dmirror_migrate_to_device, Ioctl
    <2>4. chunks' = chunks \/ chunks' = chunks \cup {file[f].dev}
      BY <1>9 DEF dmirror_migrate_to_device
    <2>5. \A m \in Mm : cpu'[m] = cpu[m] \/ cpu'[m].dev = file[f].dev
      BY <1>9, PageDevices DEF dmirror_migrate_to_device, TypeOK
    <2> QED  BY <2>1, <2>2, <2>3, <2>4, <2>5
  <1>10. ASSUME NEW f \in File, dmirror_migrate_to_system(f) PROVE UnloadInv'
    <2>1. UNCHANGED <<mod, id, bad, opened>>  BY <1>10 DEF dmirror_migrate_to_system, modVars
    <2>2. Left' = Left  BY <2>1 DEF Left
    <2>3. UNCHANGED <<file, chunks>>  BY <1>10 DEF dmirror_migrate_to_system, modVars
    <2>4. \A m \in Mm : cpu'[m] = cpu[m] \/ cpu'[m].dev = -1
      BY <1>10, PageDevices DEF dmirror_migrate_to_system, TypeOK
    <2> QED  BY <2>1, <2>2, <2>3, <2>4
  <1>11. ASSUME NEW f \in File, ReleaseStep(f) PROVE UnloadInv'
    <2>1. UNCHANGED <<mod, id, bad, opened>>  BY <1>11, ReleaseEffect
    <2>2. Left' = Left  BY <2>1 DEF Left
    <2>3. UNCHANGED file /\ file[f].dev \in Device /\ RemoveStep(file[f].dev)
      BY <1>11, ReleaseEffect
    <2>4. chunks' \subseteq chunks  BY <2>3, RemoveEffect
    <2>5. \A m \in Mm : cpu'[m] = cpu[m] \/ cpu'[m].dev = -1  BY <2>3, RemoveEffect, PageDevices
    <2> QED  BY <2>1, <2>2, <2>3, <2>4, <2>5
  <1>12. ASSUME NEW f \in File, dmirror_fault(f) PROVE UnloadInv'
    <2>1. UNCHANGED <<mod, id, bad, opened>>  BY <1>12 DEF dmirror_fault, modVars
    <2>2. Left' = Left  BY <2>1 DEF Left
    <2>3. UNCHANGED <<file, chunks>>  BY <1>12 DEF dmirror_fault, modVars, fileVars
    <2>4. \A n \in Mm : cpu'[n].dev \in {cpu[n].dev, -1}
      BY <1>12, PageDevices DEF dmirror_fault, TypeOK
    <2> QED  BY <2>1, <2>2, <2>3, <2>4
  <1>13. ASSUME NEW m \in Mm, Touch(m) PROVE UnloadInv'
    <2>1. UNCHANGED <<mod, id, bad, opened>>  BY <1>13 DEF Touch, modVars
    <2>2. Left' = Left  BY <2>1 DEF Left
    <2>3. UNCHANGED <<file, chunks>>  BY <1>13 DEF Touch, modVars, fileVars
    <2>4. \A n \in Mm : cpu'[n].dev \in {cpu[n].dev, -1}
      BY <1>13, PageDevices DEF Touch, TypeOK
    <2> QED  BY <2>1, <2>2, <2>3, <2>4
  <1>14. ASSUME NEW m \in Mm, ProcessExit(m) PROVE UnloadInv'
    <2>1. UNCHANGED <<mod, id, bad, opened>>  BY <1>14 DEF ProcessExit, modVars
    <2>2. Left' = Left  BY <2>1 DEF Left
    <2>3. UNCHANGED <<file, chunks>>  BY <1>14 DEF ProcessExit, modVars, fileVars
    <2>4. \A n \in Mm : cpu'[n].dev \in {cpu[n].dev, -1}
      BY <1>14, PageDevices DEF ProcessExit, TypeOK
    <2> QED  BY <2>1, <2>2, <2>3, <2>4
  <1>15. ASSUME NEW m \in Mm, FaultSetup(m) PROVE UnloadInv'
    <2>1. UNCHANGED <<mod, id, bad, opened>>  BY <1>15 DEF FaultSetup, modVars
    <2>2. Left' = Left  BY <2>1 DEF Left
    <2>3. UNCHANGED <<file, chunks>>  BY <1>15 DEF FaultSetup, modVars
    <2>4. \A n \in Mm : cpu'[n].dev \in {cpu[n].dev, -1}  BY <1>15, SetupEffect
    <2> QED  BY <2>1, <2>2, <2>3, <2>4
  <1>16. ASSUME NEW m \in Mm, FaultFinish(m) PROVE UnloadInv'
    <2>1. UNCHANGED <<mod, id, bad, opened>>  BY <1>16 DEF FaultFinish, modVars
    <2>2. Left' = Left  BY <2>1 DEF Left
    <2>3. UNCHANGED <<file, chunks>>  BY <1>16 DEF FaultFinish, modVars, fileVars
    <2>4. \A n \in Mm : cpu'[n].dev \in {cpu[n].dev, -1}  BY <1>16, FinishEffect, PageDevices
    <2> QED  BY <2>1, <2>2, <2>3, <2>4
  <1>17. ASSUME NEW f, NEW d, NEW m,
                \/ ReadStart(f) \/ dmirror_read(f) \/ Timeout(f) \/ dmirror_devmem_fault(m)
                \/ FaultCopy(m)
         PROVE  UnloadInv'
    <2>1. UNCHANGED <<mod, id, bad, opened, chunks, cpu, file>>
      BY <1>17 DEF ReadStart, dmirror_read, Timeout, dmirror_devmem_fault, FaultCopy, modVars,
              fileVars, mmVars
    <2> QED  BY <2>1, <1>0
  <1>18. CASE UNCHANGED vars  BY <1>0, <1>18 DEF vars, modVars, fileVars, mmVars
  <1> QED
    BY <1>1, <1>2, <1>3, <1>4, <1>5, <1>6, <1>7, <1>8, <1>9, <1>10, <1>11, <1>12, <1>13, <1>14,
       <1>15, <1>16, <1>17, <1>18
       DEF Next, Module, Ioctls, ReadStep, ReleaseStep, Handler

-----------------------------------------------------------------------------
\* The invariant holds at the start.
LEMMA FilesInit == Init => FilesInv
  <1> SUFFICES ASSUME Init PROVE FilesInv  OBVIOUS
  <1>1. 0 \in 0..NDevices  BY FilesAssumption
  <1>2. None \in Page  BY DEF None, Page
  <1>3. TypeOK  BY <1>1, <1>2 DEF Init, TypeOK
  <1>4. PageInv /\ ClosedInv /\ ToldInv /\ FrameInv
    BY DEF Init, PageInv, ClosedInv, ToldInv, FrameInv, Faulting, None, Open, MirrorsOf
  <1>5. ModInv  BY DEF Init, ModInv
  <1>6. UnloadInv  BY DEF Init, UnloadInv, None, Open
  <1> QED  BY <1>3, <1>4, <1>5, <1>6 DEF FilesInv

\* Every step keeps it.
LEMMA FilesStep == FilesInv /\ [Next]_vars => FilesInv'
  BY TypeStep, PageStep, ClosedStep, ToldStep, FrameStep, ModStep, UnloadStep DEF FilesInv

(***************************************************************************)
(* The inductive invariant.                                                *)
(***************************************************************************)
THEOREM FilesInvariant == Spec => []FilesInv
  BY FilesInit, FilesStep, PTL DEF Spec

(***************************************************************************)
(* Every variable of the life cycle of hmm.c has its type: no index of     *)
(* rshm_init() or rshm_exit() leaves the devices, and only open files are  *)
(* read.                                                                   *)
(***************************************************************************)
THEOREM FilesTypeCorrect == Spec => []TypeOK
  <1>1. FilesInv => TypeOK  BY DEF FilesInv
  <1> QED  BY <1>1, FilesInvariant, PTL

(***************************************************************************)
(* rshm_exit(), and rshm_init() when it fails, leave nothing behind, with  *)
(* the two exceptions that UnloadClean names.                              *)
(***************************************************************************)
THEOREM UnloadIsClean == Spec => []UnloadClean
  <1>1. FilesInv => UnloadClean
    <2> SUFFICES ASSUME FilesInv, mod \in {"exited", "failed"} PROVE UnloadClean
      BY DEF UnloadClean
    <2>1. Left \subseteq {bad}  BY DEF Left
    <2> QED  BY <2>1 DEF FilesInv, ModInv, UnloadInv, UnloadClean
  <1> QED  BY <1>1, FilesInvariant, PTL

-----------------------------------------------------------------------------
\* An entry stays right when it stays, and the page does too.
LEMMA NamesKept ==
    ASSUME NEW e \in File, Names(e), pt'[e] \in {pt[e], NoFrame}, pt'[e] # NoFrame,
           file'[e] = file[e], cpu'[file[e].mm].frame = cpu[file[e].mm].frame
    PROVE  Names(e)'
  BY DEF Names

\* Two files of one device and one process mirror the same.
LEMMA SameMirror ==
    ASSUME TypeOK, NEW e \in File, NEW f \in File, f # e, Open(e), Open(f),
           file[f].mm = file[e].mm, file[f].dev = file[e].dev
    PROVE  Sibling(e)
  <1>1. file[e] \in [dev : Device, mm : Mm] /\ file[f] \in [dev : Device, mm : Mm]
    BY DEF TypeOK, Open
  <1>2. file[e] = file[f]  BY <1>1
  <1> QED  BY <1>2 DEF Sibling

(***************************************************************************)
(* A step of the system makes an entry wrong only where there is another   *)
(* mirror of the same device and process, or the page's owner is another.  *)
(***************************************************************************)
LEMMA StaleStep ==
    ASSUME FilesInv, [Next]_vars, NEW e \in File, Names(e), pt'[e] # NoFrame
    PROVE  Names(e)' \/ Sibling(e)
  <1>b. TypeOK /\ PageInv /\ ClosedInv /\ ToldInv  BY DEF FilesInv
  <1> USE <1>b
  <1>0. ASSUME UNCHANGED <<file, pt, cpu>> PROVE Names(e)' \/ Sibling(e)
    BY <1>0 DEF Names
  <1>a. Open(e) /\ file[e].mm \in Mm /\ pt[e] # NoFrame /\ cpu[file[e].mm].frame # NoFrame
    <2>1. Open(e) /\ pt[e] # NoFrame /\ cpu[file[e].mm].frame # NoFrame  BY DEF Names, ClosedInv
    <2> QED  BY <2>1, Fields
  <1>m. e \in MirrorsOf(file[e].mm)  BY <1>a DEF MirrorsOf
  <1>1. ASSUME Undo PROVE Names(e)' \/ Sibling(e)
    <2>1. UNCHANGED file  BY <1>1 DEF Undo
    <2>2. CASE UNCHANGED <<pt, cpu>>  BY <1>0, <2>1, <2>2
    <2>3. CASE \E d \in Device : WorksOn(d)
      <3>1. PICK d \in Device : RemoveStep(d)  BY <2>3, WorkEffect
      <3>2. cpu'[file[e].mm] = cpu[file[e].mm] /\ pt'[e] \in {pt[e], NoFrame}
        BY <1>a, <1>m, <3>1, RemoveEffect
      <3> QED  BY <2>1, <3>2, NamesKept
    <2> QED  BY <1>1, <2>2, <2>3, RemoveInOrder
  <1>2. ASSUME rshm_exit PROVE Names(e)' \/ Sibling(e)
    <2>1. UNCHANGED file  BY <1>2 DEF rshm_exit
    <2>2. CASE UNCHANGED <<pt, cpu>>  BY <1>0, <2>1, <2>2
    <2>3. CASE \E d \in Device : WorksOn(d)
      <3>1. PICK d \in Device : RemoveStep(d)  BY <2>3, WorkEffect
      <3>2. cpu'[file[e].mm] = cpu[file[e].mm] /\ pt'[e] \in {pt[e], NoFrame}
        BY <1>a, <1>m, <3>1, RemoveEffect
      <3> QED  BY <2>1, <3>2, NamesKept
    <2> QED  BY <1>2, <2>2, <2>3, RemoveInOrder
  <1>3. ASSUME NEW f \in File, NEW d \in Device, NEW m \in Mm, dmirror_fops_open(f, d, m)
        PROVE  Names(e)' \/ Sibling(e)
    <2>1. UNCHANGED <<pt, cpu>> /\ file'[e] = file[e]
      BY <1>3, <1>a DEF dmirror_fops_open, TypeOK, mmVars
    <2> QED  BY <2>1, NamesKept
  <1>4. ASSUME NEW f \in File, dmirror_fops_release(f) PROVE Names(e)' \/ Sibling(e)
    <2>1. f # e /\ UNCHANGED cpu /\ pt'[e] = pt[e] /\ file'[e] = file[e]
      BY <1>4 DEF dmirror_fops_release, TypeOK, mmVars
    <2> QED  BY <2>1, NamesKept
  <1>5. ASSUME NEW f \in File, dmirror_migrate_to_device(f) PROVE Names(e)' \/ Sibling(e)
    <2>1. UNCHANGED file /\ Open(f) /\ file[f].mm \in Mm
      BY <1>5, Fields DEF dmirror_migrate_to_device, Ioctl
    <2>2. CASE f = e
      <3>1. CASE UNCHANGED cpu /\ pt' = Erased(ToldOfMigration(file[f].mm, file[f].dev))
        BY <2>1, <3>1, ErasedEntries, NamesKept
      <3>2. ASSUME NEW new \in FreeFrames,
                   cpu' = [cpu EXCEPT ![file[f].mm] = DevPage(new, file[f].dev, f)],
                   pt' = [Erased(ToldOfMigration(file[f].mm, file[f].dev)) EXCEPT ![f] = new]
            PROVE  Names(e)'
        <4>1. pt'[e] = new  BY <2>2, <3>2, ErasedEntries
        <4>2. cpu'[file[e].mm].frame = new  BY <2>1, <2>2, <3>2 DEF TypeOK, DevPage
        <4> QED  BY <2>1, <4>1, <4>2 DEF Names
      <3> QED  BY <1>5, <3>1, <3>2 DEF dmirror_migrate_to_device
    <2>3. CASE f # e /\ e \in ToldOfMigration(file[f].mm, file[f].dev)
      <3>1. pt'[e] = NoFrame  BY <1>5, <2>3, ErasedEntries DEF dmirror_migrate_to_device
      <3> QED  BY <3>1
    <2>4. CASE f # e /\ file[f].mm # file[e].mm
      <3>1. pt'[e] \in {pt[e], NoFrame}
        BY <1>5, <2>4, ErasedEntries DEF dmirror_migrate_to_device
      <3>2. cpu'[file[e].mm] = cpu[file[e].mm]
        BY <1>5, <1>a, <2>4 DEF dmirror_migrate_to_device, TypeOK
      <3> QED  BY <2>1, <3>1, <3>2, NamesKept
    <2>5. CASE /\ f # e /\ file[f].mm = file[e].mm
               /\ e \notin ToldOfMigration(file[f].mm, file[f].dev)
      <3>1. file[f].dev = file[e].dev  BY <1>a, <2>5 DEF ToldOfMigration, Ignores, MirrorsOf
      <3> QED  BY <1>a, <2>1, <2>5, <3>1, SameMirror
    <2> QED  BY <2>2, <2>3, <2>4, <2>5
  <1>6. ASSUME NEW f \in File, dmirror_migrate_to_system(f) PROVE Names(e)' \/ Sibling(e)
    <2>1. UNCHANGED file /\ Open(f) /\ file[f].mm \in Mm
      BY <1>6, Fields DEF dmirror_migrate_to_system, Ioctl
    <2>2. CASE f = e
      <3>1. CASE UNCHANGED cpu /\ pt' = Erased(ToldOfMigration(file[f].mm, file[f].dev))
        BY <2>1, <3>1, ErasedEntries, NamesKept
      <3>2. CASE pt' = Erased({f} \cup ToldOfMigration(file[f].mm, file[f].dev))
        BY <2>2, <3>2, ErasedEntries
      <3> QED  BY <1>6, <3>1, <3>2 DEF dmirror_migrate_to_system
    <2>3. CASE f # e /\ e \in ToldOfMigration(file[f].mm, file[f].dev)
      <3>1. pt'[e] = NoFrame  BY <1>6, <2>3, ErasedEntries DEF dmirror_migrate_to_system
      <3> QED  BY <3>1
    <2>4. CASE f # e /\ file[f].mm # file[e].mm
      <3>1. pt'[e] \in {pt[e], NoFrame}
        BY <1>6, <2>4, ErasedEntries DEF dmirror_migrate_to_system
      <3>2. cpu'[file[e].mm] = cpu[file[e].mm]
        BY <1>6, <1>a, <2>4 DEF dmirror_migrate_to_system, TypeOK
      <3> QED  BY <2>1, <3>1, <3>2, NamesKept
    <2>5. CASE /\ f # e /\ file[f].mm = file[e].mm
               /\ e \notin ToldOfMigration(file[f].mm, file[f].dev)
      <3>1. file[f].dev = file[e].dev  BY <1>a, <2>5 DEF ToldOfMigration, Ignores, MirrorsOf
      <3> QED  BY <1>a, <2>1, <2>5, <3>1, SameMirror
    <2> QED  BY <2>2, <2>3, <2>4, <2>5
  <1>7. ASSUME NEW f \in File, ReleaseStep(f) PROVE Names(e)' \/ Sibling(e)
    <2>1. UNCHANGED file /\ file[f].dev \in Device /\ RemoveStep(file[f].dev)
      BY <1>7, ReleaseEffect
    <2>2. cpu'[file[e].mm] = cpu[file[e].mm] /\ pt'[e] \in {pt[e], NoFrame}
      BY <1>a, <1>m, <2>1, RemoveEffect
    <2> QED  BY <2>1, <2>2, NamesKept
  <1>8. ASSUME NEW f \in File, dmirror_fault(f) PROVE Names(e)' \/ Sibling(e)
    <2>1. f # e /\ UNCHANGED file /\ pt'[e] = pt[e]  BY <1>8, <1>a DEF dmirror_fault, TypeOK
    <2>2. \A n \in Mm : cpu'[n] = cpu[n] \/ cpu[n].frame = NoFrame
      BY <1>8 DEF dmirror_fault, TypeOK, None
    <2> QED  BY <1>a, <2>1, <2>2, NamesKept
  <1>9. ASSUME NEW m \in Mm, Touch(m) PROVE Names(e)' \/ Sibling(e)
    <2>1. UNCHANGED <<file, pt>>  BY <1>9 DEF Touch, fileVars
    <2>2. \A n \in Mm : cpu'[n] = cpu[n] \/ cpu[n].frame = NoFrame
      BY <1>9 DEF Touch, TypeOK, None
    <2> QED  BY <1>a, <2>1, <2>2, NamesKept
  <1>10. ASSUME NEW m \in Mm, ProcessExit(m) PROVE Names(e)' \/ Sibling(e)
    <2>1. UNCHANGED file /\ pt'[e] \in {pt[e], NoFrame} /\ e \notin MirrorsOf(m)
      BY <1>10, ErasedEntries DEF ProcessExit
    <2>2. cpu'[file[e].mm] = cpu[file[e].mm]
      BY <1>10, <1>a, <2>1 DEF ProcessExit, MirrorsOf, TypeOK
    <2> QED  BY <2>1, <2>2, NamesKept
  <1>11. ASSUME NEW m \in Mm, FaultSetup(m) PROVE Names(e)' \/ Sibling(e)
    <2>1. /\ UNCHANGED file /\ pt'[e] \in {pt[e], NoFrame}
          /\ cpu'[file[e].mm].frame = cpu[file[e].mm].frame
      BY <1>11, <1>a, SetupEffect
    <2> QED  BY <2>1, NamesKept
  <1>12. ASSUME NEW m \in Mm, FaultCopy(m) PROVE Names(e)' \/ Sibling(e)
    <2>1. UNCHANGED <<file, cpu>> /\ pt'[e] \in {pt[e], NoFrame}  BY <1>12, CopyEffect
    <2> QED  BY <2>1, NamesKept
  <1>13. ASSUME NEW m \in Mm, FaultFinish(m) PROVE Names(e)' \/ Sibling(e)
    <2>1. UNCHANGED <<file, pt>> /\ Faulting(m) /\ fault[m].at = "finish"  BY <1>13, FinishEffect
    <2>2. CASE cpu'[file[e].mm].frame = cpu[file[e].mm].frame  BY <2>1, <2>2, NamesKept
    <2>3. CASE m = file[e].mm /\ fault[m].frame # NoFrame
      <3>1. e \in MirrorsOf(m)  BY <1>a, <2>3 DEF MirrorsOf
      <3>2. file[e].dev = cpu[m].dev /\ cpu[m].owner # e  BY <1>a, <2>1, <2>3, <3>1 DEF ToldInv
      <3> QED  BY <2>3, <3>2 DEF Sibling
    <2> QED  BY <1>13, <1>a, <2>2, <2>3, FinishEffect
  <1>14. ASSUME NEW f, NEW d, NEW m,
                \/ rshm_init \/ InitCdev \/ InitChunk \/ ExitStart \/ ReadStart(f)
                \/ dmirror_read(f) \/ Timeout(f) \/ dmirror_devmem_fault(m)
         PROVE  Names(e)' \/ Sibling(e)
    <2>1. UNCHANGED <<file, pt, cpu>>
      BY <1>14 DEF rshm_init, InitCdev, InitChunk, ExitStart, ReadStart, dmirror_read, Timeout,
              dmirror_devmem_fault, modVars, fileVars, mmVars
    <2> QED  BY <2>1, <1>0
  <1>15. CASE UNCHANGED vars  BY <1>0, <1>15 DEF vars, modVars, fileVars, mmVars
  <1> QED
    BY <1>1, <1>2, <1>3, <1>4, <1>5, <1>6, <1>7, <1>8, <1>9, <1>10, <1>11, <1>12, <1>13, <1>14,
       <1>15
       DEF Next, Module, Ioctls, ReadStep, ReleaseStep, Handler

(***************************************************************************)
(* Mirrors of different devices, and of different processes, do not make   *)
(* each other's entries stale; the notifier that ignores its own device's  *)
(* migrations (dmirror_interval_invalidate()) is why siblings do.          *)
(***************************************************************************)
THEOREM SiblingsOnly == Spec => StaleOnlyBySibling
  <1>1. FilesInv /\ [Next]_vars =>
          [\A f \in File : Names(f) /\ pt'[f] # NoFrame /\ ~Names(f)' => Sibling(f)]_vars
    BY StaleStep
  <1> QED  BY <1>1, FilesInvariant, PTL DEF Spec, StaleOnlyBySibling
=============================================================================
