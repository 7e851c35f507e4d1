------------------------------- MODULE Files --------------------------------
(***************************************************************************)
(* The life cycle of hmm.c: the module and its devices come and go, files  *)
(* are opened and closed, processes end.                                   *)
(*                                                                         *)
(* A struct dmirror lives as long as its file.  The page behind a device   *)
(* page points to the dmirror that migrated it, and the page stays with    *)
(* the process, whatever becomes of the file.  Two files may mirror the    *)
(* same process, through one device or through two.                        *)
(*                                                                         *)
(* Each process has one page here, and the steps inside a command, which   *)
(* module Mirror takes apart, are one action; the fault of the CPU on a    *)
(* device page, which no lock of the driver protects, is several.          *)
(***************************************************************************)
EXTENDS Integers, FiniteSets

CONSTANTS
    NDevices,   \* devices that rshm_init() sets up
    File,       \* places for a struct dmirror: an address that kfree() frees is used again
    Mm,         \* processes
    Frame,      \* physical pages with memory
    MaxOpen, MaxMigrate, MaxFault,   \* bounds on the three counters
    NoFrame, NoFile, NoFault

Device == 0..(NDevices - 1)

\* A fault under way: the step it is at, the mirror it found, its new page.
Fault == [at : {"setup", "copy", "finish", "oops"}, owner : File, frame : Frame \cup {NoFrame}]

ASSUME FilesAssumption ==
    /\ NDevices \in Nat \ {0}
    /\ MaxOpen \in Nat /\ MaxMigrate \in Nat /\ MaxFault \in Nat
    /\ NoFrame \notin Frame
    /\ NoFile \notin [dev : Device, mm : Mm]
    /\ NoFault \notin Fault

VARIABLES
    mod,      \* where the module is between loading and unloading
    id,       \* `id' of rshm_init() and rshm_exit()
    bad,      \* the device whose initialisation failed, or -1
    cdev,     \* devices that user space can open
    chunks,   \* devices that have memory
    removing, \* devices whose pages are evicted and whose chunks are still awaited
    file,     \* open files: device and mirrored process
    pt,       \* the page each dmirror->pt names
    reading,  \* files on which dmirror_read() is running
    releasing,  \* files on which HMM_DMIRROR_RELEASE is running
    alive,    \* processes whose mm_users is not 0
    cpu,      \* the page of each process
    fault,    \* migrate_to_ram() of each process's page
    opened,   \* history: a file was open after the initialisation had failed
    nopen, nmig, nfault

modVars == <<mod, id, bad, cdev, chunks, removing, opened>>
fileVars == <<file, pt, reading, releasing>>
mmVars == <<alive, cpu, fault>>
countVars == <<nopen, nmig, nfault>>
vars == <<modVars, fileVars, mmVars, countVars>>

None == [kind |-> "none", frame |-> NoFrame, dev |-> -1, owner |-> NoFile]

SysPage(f) == [kind |-> "sys", frame |-> f, dev |-> -1, owner |-> NoFile]

(***************************************************************************)
(* A device page: its backing page (the frame), whose zone_device_data is  *)
(* the dmirror that migrated it.                                           *)
(***************************************************************************)
DevPage(f, d, o) == [kind |-> "dev", frame |-> f, dev |-> d, owner |-> o]

Page == [kind : {"none", "sys", "dev", "mig"}, frame : Frame \cup {NoFrame},
         dev : Device \cup {-1}, owner : File \cup {NoFile}]

FreeFrames == Frame \ ({cpu[m].frame : m \in Mm}
                       \cup {fault[m].frame : m \in {n \in Mm : fault[n] # NoFault}})

Open(f) == file[f] # NoFile

MirrorsOf(m) == {f \in File : Open(f) /\ file[f].mm = m}

Init ==
    /\ mod = "out" /\ id = 0 /\ bad = -1
    /\ cdev = {} /\ chunks = {} /\ removing = {}
    /\ opened = FALSE
    /\ file = [f \in File |-> NoFile]
    /\ pt = [f \in File |-> NoFrame]
    /\ reading = {} /\ releasing = {}
    /\ alive = Mm
    /\ cpu = [m \in Mm |-> None]
    /\ fault = [m \in Mm |-> NoFault]
    /\ nopen = 0 /\ nmig = 0 /\ nfault = 0

-----------------------------------------------------------------------------
(***************************************************************************)
(* The invalidation callback of the files in S.                            *)
(***************************************************************************)
Erased(S) == [f \in File |-> IF f \in S THEN NoFrame ELSE pt[f]]

\* Mutant: migrations of every device are ignored.
IgnoresAll(f, owner) == TRUE

(***************************************************************************)
(* dmirror_interval_invalidate() ignores the migrations of its own device. *)
(***************************************************************************)
Ignores(f, owner) == file[f].dev = owner

(***************************************************************************)
(* migrate_vma_setup() of process m's page for device d: who is told.      *)
(***************************************************************************)
ToldOfMigration(m, d) == {f \in MirrorsOf(m) : ~Ignores(f, d)}

(***************************************************************************)
(* dmirror_device_remove_chunks() holds devmem_lock throughout.  First it  *)
(* evicts the device's pages, once.  The pages go back to the system, of   *)
(* which every mirror is told, since it is no MMU_NOTIFY_MIGRATE; but a    *)
(* page that a fault holds (a reference from the start, the page lock      *)
(* later) stays where it is.                                               *)
(***************************************************************************)
PagesOf(d) == {m \in Mm : cpu[m].kind = "dev" /\ cpu[m].dev = d}

Evicted(d) == {m \in PagesOf(d) : fault[m] = NoFault}

dmirror_device_evict_chunk(d) ==
    /\ d \notin removing
    /\ removing' = removing \cup {d}
    /\ \E new \in [Evicted(d) -> FreeFrames] :
         /\ \A m, n \in Evicted(d) : new[m] = new[n] => m = n
         /\ cpu' = [m \in Mm |-> IF m \in Evicted(d) THEN SysPage(new[m]) ELSE cpu[m]]
    /\ pt' = Erased(UNION {MirrorsOf(m) : m \in PagesOf(d)})
    /\ UNCHANGED chunks

\* Mutant: the chunks are freed while pages of them are still in use.
RemoveNoWait(d) ==
    /\ d \in removing
    /\ removing' = removing \ {d}
    /\ chunks' = chunks \ {d}
    /\ UNCHANGED <<cpu, pt>>

(***************************************************************************)
(* Then memunmap_pages() waits until no page of the device is in use, held *)
(* by a fault or resident in a process: nothing evicts a second time.      *)
(***************************************************************************)
dmirror_device_remove_chunks(d) ==
    /\ d \in removing
    /\ \A m \in Mm : cpu[m].dev # d
    /\ removing' = removing \ {d}
    /\ chunks' = chunks \ {d}
    /\ UNCHANGED <<cpu, pt>>

-----------------------------------------------------------------------------
(***************************************************************************)
(* rshm_init(): the devices in order, each with its character device, open *)
(* to everybody from then on, and a first chunk.                           *)
(***************************************************************************)
rshm_init ==
    /\ mod = "out"
    /\ mod' \in {"coming", "failed"}      \* alloc_chrdev_region() may fail
    /\ UNCHANGED <<id, bad, cdev, chunks, removing, opened, fileVars, mmVars, countVars>>

InitFails ==
    /\ mod' = "undo"
    /\ bad' = id
    /\ opened' = \E f \in File : Open(f)
    /\ UNCHANGED id

InitCdev ==
    /\ mod = "coming" /\ id \notin cdev
    /\ \/ cdev' = cdev \cup {id} /\ UNCHANGED <<mod, id, bad, opened>>
       \/ InitFails /\ UNCHANGED cdev
    /\ UNCHANGED <<chunks, removing, fileVars, mmVars, countVars>>

\* Mutant: one device too many.
InitDoneLate == id = NDevices

InitDone == id + 1 = NDevices

(***************************************************************************)
(* dmirror_allocate_chunk() fails, or the next device follows.             *)
(***************************************************************************)
InitChunk ==
    /\ mod = "coming" /\ id \in cdev
    /\ \/ /\ chunks' = chunks \cup {id}
          /\ id' = id + 1
          /\ mod' = IF InitDone THEN "live" ELSE mod
          /\ UNCHANGED <<bad, opened>>
       \/ InitFails /\ UNCHANGED chunks
    /\ UNCHANGED <<cdev, removing, fileVars, mmVars, countVars>>

(***************************************************************************)
(* The module's own removal of a device; a file may have devmem_lock.      *)
(***************************************************************************)
ReleasedBy(d) == {f \in releasing : file[f].dev = d}

EvictDevice(d) == dmirror_device_evict_chunk(d) /\ UNCHANGED cdev

dmirror_device_remove(d) ==
    /\ ReleasedBy(d) = {}
    /\ dmirror_device_remove_chunks(d)
    /\ cdev' = cdev \ {d}

\* Mutant: the first device is left alone.
UndoMoreShort == id > 1

\* while (--id >= 0)
UndoMore == id > 0

Undo ==
    /\ mod = "undo"
    /\ IF UndoMore
         THEN /\ \/ EvictDevice(id - 1) /\ UNCHANGED id
                 \/ dmirror_device_remove(id - 1) /\ id' = id - 1
              /\ UNCHANGED mod
         ELSE /\ mod' = "failed"
              /\ UNCHANGED <<id, cdev, chunks, removing, pt, cpu>>
    /\ UNCHANGED <<bad, opened, file, reading, releasing, alive, fault, countVars>>

(***************************************************************************)
(* rshm_exit() runs when no file holds the module.                         *)
(***************************************************************************)
ExitStart ==
    /\ mod = "live"
    /\ \A f \in File : ~Open(f)
    /\ mod' = "going"
    /\ id' = 0
    /\ UNCHANGED <<bad, cdev, chunks, removing, opened, fileVars, mmVars, countVars>>

rshm_exit ==
    /\ mod = "going"
    /\ IF id < NDevices
         THEN /\ \/ EvictDevice(id) /\ UNCHANGED id
                 \/ dmirror_device_remove(id) /\ id' = id + 1
              /\ UNCHANGED mod
         ELSE mod' = "exited" /\ UNCHANGED <<id, cdev, chunks, removing, pt, cpu>>
    /\ UNCHANGED <<bad, opened, file, reading, releasing, alive, fault, countVars>>

-----------------------------------------------------------------------------
(***************************************************************************)
(* The module's code is there, and try_module_get() says so from the first *)
(* character device on.  (What a file does whose module is gone has no     *)
(* model.)                                                                 *)
(***************************************************************************)
CodeLoaded == mod \in {"coming", "undo", "live"}

dmirror_fops_open(f, d, m) ==
    /\ nopen < MaxOpen
    /\ CodeLoaded /\ d \in cdev
    /\ m \in alive
    /\ ~Open(f)
    /\ file' = [file EXCEPT ![f] = [dev |-> d, mm |-> m]]
    /\ opened' = (opened \/ mod = "undo")
    /\ nopen' = nopen + 1
    /\ UNCHANGED <<mod, id, bad, cdev, chunks, removing, pt, reading, releasing, mmVars, nmig, nfault>>

dmirror_fops_release(f) ==
    /\ CodeLoaded
    /\ Open(f) /\ f \notin reading \cup releasing
    /\ file' = [file EXCEPT ![f] = NoFile]
    /\ pt' = [pt EXCEPT ![f] = NoFrame]
    /\ UNCHANGED <<modVars, reading, releasing, mmVars, countVars>>

Ioctl(f) == CodeLoaded /\ Open(f) /\ f \notin reading \cup releasing

(***************************************************************************)
(* MIGRATE_TO_DEV of the page, if it is no device's.  A device without     *)
(* memory gets a new chunk, for which it needs devmem_lock; while the      *)
(* chunks are being removed, their pages are not on the free list, and the *)
(* command waits.  The other devices' mirrors are told first, whether the  *)
(* page is migrated or not.                                                *)
(***************************************************************************)
dmirror_migrate_to_device(f) ==
    LET m == file[f].mm
        d == file[f].dev IN
    /\ Ioctl(f) /\ nmig < MaxMigrate
    /\ m \in alive
    /\ \/ /\ cpu[m].kind \in {"none", "sys"} /\ d \notin removing
          /\ chunks' = chunks \cup {d}
          /\ \E new \in FreeFrames :
               /\ cpu' = [cpu EXCEPT ![m] = DevPage(new, d, f)]
               /\ pt' = [Erased(ToldOfMigration(m, d)) EXCEPT ![f] = new]
       \/ /\ \/ UNCHANGED chunks
             \/ cpu[m].kind \in {"none", "sys"} /\ d \notin removing /\ chunks' = chunks \cup {d}
          /\ pt' = Erased(ToldOfMigration(m, d))
          /\ UNCHANGED cpu
    /\ nmig' = nmig + 1
    /\ UNCHANGED <<mod, id, bad, cdev, removing, opened, file, reading, releasing, alive, fault,
                   nopen, nfault>>

(***************************************************************************)
(* MIGRATE_TO_SYS erases the entry of the file it is called on.  A page    *)
(* that a fault holds stays where it is, as one does for which there is no *)
(* memory.                                                                 *)
(***************************************************************************)
dmirror_migrate_to_system(f) ==
    LET m == file[f].mm
        d == file[f].dev IN
    /\ Ioctl(f) /\ nmig < MaxMigrate
    /\ m \in alive
    /\ \/ /\ cpu[m].kind = "dev" /\ cpu[m].dev = d /\ fault[m] = NoFault
          /\ \E new \in FreeFrames : cpu' = [cpu EXCEPT ![m] = SysPage(new)]
          /\ pt' = Erased({f} \cup ToldOfMigration(m, d))
       \/ pt' = Erased(ToldOfMigration(m, d)) /\ UNCHANGED cpu
    /\ nmig' = nmig + 1
    /\ UNCHANGED <<modVars, file, reading, releasing, alive, fault, nopen, nfault>>

(***************************************************************************)
(* HMM_DMIRROR_RELEASE: dmirror_device_remove_chunks() of the device.      *)
(***************************************************************************)
ReleaseStart(f) ==
    /\ Ioctl(f)
    /\ dmirror_device_evict_chunk(file[f].dev)
    /\ releasing' = releasing \cup {f}
    /\ UNCHANGED <<mod, id, bad, cdev, opened, file, reading, alive, fault, countVars>>

ReleaseEnd(f) ==
    /\ CodeLoaded
    /\ f \in releasing
    /\ dmirror_device_remove_chunks(file[f].dev)
    /\ releasing' = releasing \ {f}
    /\ UNCHANGED <<mod, id, bad, cdev, opened, file, reading, alive, fault, countVars>>

ReadStart(f) ==
    /\ Ioctl(f)
    /\ reading' = reading \cup {f}
    /\ UNCHANGED <<modVars, file, pt, releasing, mmVars, countVars>>

(***************************************************************************)
(* dmirror_read() ends when the mirror has the page.                       *)
(***************************************************************************)
dmirror_read(f) ==
    /\ CodeLoaded
    /\ f \in reading /\ pt[f] # NoFrame
    /\ reading' = reading \ {f}
    /\ UNCHANGED <<modVars, file, pt, releasing, mmVars, countVars>>

(***************************************************************************)
(* dmirror_fault(): a page of the system, or of this device, is stored; a  *)
(* missing one is brought in first.  When the process is gone,             *)
(* mmget_not_zero() fails, dmirror_fault() returns 0 and dmirror_read()    *)
(* tries again: nothing changes.                                           *)
(***************************************************************************)
dmirror_fault(f) ==
    LET m == file[f].mm IN
    /\ CodeLoaded
    /\ f \in reading /\ pt[f] = NoFrame
    /\ m \in alive
    /\ \/ /\ cpu[m] = None
          /\ \E new \in FreeFrames : cpu' = [cpu EXCEPT ![m] = SysPage(new)]
       \/ /\ cpu[m].kind = "sys" \/ (cpu[m].kind = "dev" /\ cpu[m].dev = file[f].dev)
          /\ UNCHANGED cpu
    /\ pt' = [pt EXCEPT ![f] = cpu'[m].frame]
    /\ UNCHANGED <<modVars, file, reading, releasing, alive, fault, countVars>>

\* Mutant: a page that cannot be had is asked for again and again.
NoTimeout(f) == FALSE

(***************************************************************************)
(* The range could not be faulted in time: -EBUSY.                         *)
(***************************************************************************)
Timeout(f) ==
    /\ CodeLoaded
    /\ f \in reading /\ pt[f] = NoFrame
    /\ file[f].mm \in alive
    /\ reading' = reading \ {f}
    /\ UNCHANGED <<modVars, file, pt, releasing, mmVars, countVars>>

-----------------------------------------------------------------------------
(***************************************************************************)
(* A process touches its page; or it ends, and its mirrors are told.       *)
(***************************************************************************)
Touch(m) ==
    /\ m \in alive /\ cpu[m] = None
    /\ \E new \in FreeFrames : cpu' = [cpu EXCEPT ![m] = SysPage(new)]
    /\ UNCHANGED <<modVars, fileVars, alive, fault, countVars>>

ProcessExit(m) ==
    /\ m \in alive /\ fault[m] = NoFault
    /\ alive' = alive \ {m}
    /\ cpu' = [cpu EXCEPT ![m] = None]
    /\ pt' = Erased(MirrorsOf(m))
    /\ UNCHANGED <<modVars, file, reading, releasing, fault, countVars>>

(***************************************************************************)
(* dmirror_devmem_fault(), because the process touches the page or because *)
(* another device's mirror wants it: first `dmirror' is loaded from the    *)
(* backing page.                                                           *)
(***************************************************************************)
dmirror_devmem_fault(m) ==
    /\ nfault < MaxFault
    /\ m \in alive /\ cpu[m].kind = "dev" /\ fault[m] = NoFault
    /\ fault' = [fault EXCEPT ![m] = [at |-> "setup", owner |-> cpu[m].owner, frame |-> NoFrame]]
    /\ nfault' = nfault + 1
    /\ UNCHANGED <<modVars, fileVars, alive, cpu, nopen, nmig>>

Oops(m) == fault' = [fault EXCEPT ![m].at = "oops"]

(***************************************************************************)
(* dmirror->mdevice, read through that pointer.  If the memory was freed   *)
(* it may still hold the old value, or the access kills the thread.        *)
(***************************************************************************)
OwnersDevice(m) ==
    LET o == fault[m].owner IN IF Open(o) THEN file[o].dev ELSE cpu[m].dev

(***************************************************************************)
(* migrate_vma_setup() selects the page if it belongs to that device.  If  *)
(* it does not, the fault does nothing and the process faults again.       *)
(***************************************************************************)
FaultSetup(m) ==
    /\ fault[m] # NoFault /\ fault[m].at = "setup"
    /\ \/ /\ pt' = Erased(ToldOfMigration(m, OwnersDevice(m)))
          /\ IF cpu[m].dev = OwnersDevice(m)
               THEN /\ cpu' = [cpu EXCEPT ![m].kind = "mig"]
                    /\ fault' = [fault EXCEPT ![m].at = "copy"]
               ELSE fault' = [fault EXCEPT ![m] = NoFault] /\ UNCHANGED cpu
       \/ ~Open(fault[m].owner) /\ Oops(m) /\ UNCHANGED <<cpu, pt>>
    /\ UNCHANGED <<modVars, file, reading, releasing, alive, countVars>>

(***************************************************************************)
(* dmirror_devmem_fault_alloc_and_copy(): a page, if there is one, and     *)
(* xa_erase() in the mirror the pointer leads to.                          *)
(***************************************************************************)
FaultCopy(m) ==
    /\ fault[m] # NoFault /\ fault[m].at = "copy"
    /\ \/ \E new \in FreeFrames :
            /\ fault' = [fault EXCEPT ![m].at = "finish", ![m].frame = new]
            /\ pt' = Erased({fault[m].owner})
       \/ fault' = [fault EXCEPT ![m].at = "finish"] /\ UNCHANGED pt
       \/ ~Open(fault[m].owner) /\ Oops(m) /\ UNCHANGED pt
    /\ UNCHANGED <<modVars, file, reading, releasing, alive, cpu, countVars>>

\* Mutant: a fault that found no memory returns without migrate_vma_finalize().
FaultFinishUnfinished(m) ==
    /\ fault[m] # NoFault /\ fault[m].at = "finish"
    /\ fault[m].frame # NoFrame
    /\ cpu' = [cpu EXCEPT ![m] = SysPage(fault[m].frame)]
    /\ fault' = [fault EXCEPT ![m] = NoFault]
    /\ UNCHANGED <<modVars, fileVars, alive, countVars>>

(***************************************************************************)
(* migrate_vma_pages() and migrate_vma_finalize().                         *)
(***************************************************************************)
FaultFinish(m) ==
    /\ fault[m] # NoFault /\ fault[m].at = "finish"
    /\ cpu' = [cpu EXCEPT ![m] = IF fault[m].frame = NoFrame
                                   THEN [@ EXCEPT !.kind = "dev"] ELSE SysPage(fault[m].frame)]
    /\ fault' = [fault EXCEPT ![m] = NoFault]
    /\ UNCHANGED <<modVars, fileVars, alive, countVars>>

-----------------------------------------------------------------------------
Module == rshm_init \/ InitCdev \/ InitChunk \/ Undo \/ ExitStart \/ rshm_exit

ReadStep(f) == dmirror_read(f) \/ dmirror_fault(f) \/ Timeout(f)

Ioctls(f) ==
    \/ dmirror_migrate_to_device(f) \/ dmirror_migrate_to_system(f) \/ ReleaseStart(f) \/ ReleaseEnd(f)
    \/ ReadStart(f) \/ ReadStep(f)

Handler(m) == FaultSetup(m) \/ FaultCopy(m) \/ FaultFinish(m)

Next ==
    \/ Module
    \/ \E f \in File : \/ \E d \in Device, m \in Mm : dmirror_fops_open(f, d, m)
                       \/ dmirror_fops_release(f) \/ Ioctls(f)
    \/ \E m \in Mm : Touch(m) \/ ProcessExit(m) \/ dmirror_devmem_fault(m) \/ Handler(m)

(***************************************************************************)
(* A call into the module goes on: rshm_init(), rshm_exit(), a read (whose *)
(* time is up at some point), a release, a fault.                          *)
(***************************************************************************)
Spec ==
    /\ Init /\ [][Next]_vars
    /\ WF_vars(InitCdev \/ InitChunk \/ Undo) /\ WF_vars(rshm_exit)
    /\ \A f \in File : WF_vars(ReadStep(f)) /\ WF_vars(ReleaseEnd(f))
    /\ \A m \in Mm : WF_vars(Handler(m))

-----------------------------------------------------------------------------
(***************************************************************************)
(* Every variable has its type.                                            *)
(***************************************************************************)
TypeOK ==
    /\ mod \in {"out", "coming", "undo", "live", "going", "failed", "exited"}
    /\ id \in 0..NDevices /\ bad \in Device \cup {-1}
    /\ cdev \subseteq Device /\ chunks \subseteq Device /\ removing \subseteq Device
    /\ opened \in BOOLEAN
    /\ file \in [File -> [dev : Device, mm : Mm] \cup {NoFile}]
    /\ pt \in [File -> Frame \cup {NoFrame}]
    /\ reading \cup releasing \subseteq {f \in File : Open(f)}
    /\ alive \subseteq Mm
    /\ cpu \in [Mm -> Page]
    /\ fault \in [Mm -> Fault \cup {NoFault}]

(***************************************************************************)
(* The mirrors of different devices do not disturb each other, and neither *)
(* do a release of device memory, the end of a process or the end of the   *)
(* module: an entry goes stale only when a file of the same device and     *)
(* process is there too, or was (its mirror is skipped by                  *)
(* dmirror_interval_invalidate() and is not the one whose entry the        *)
(* migration erases).                                                      *)
(***************************************************************************)
Names(f) == pt[f] # NoFrame /\ pt[f] = cpu[file[f].mm].frame

Sibling(f) ==
    \/ \E g \in File \ {f} : file[g] = file[f]
    \/ cpu[file[f].mm].dev = file[f].dev /\ cpu[file[f].mm].owner # f

StaleOnlyBySibling ==
    [][\A f \in File : Names(f) /\ pt'[f] # NoFrame /\ ~Names(f)' => Sibling(f)]_vars

(***************************************************************************)
(* Unloading leaves nothing behind: no device page whose handler is gone,  *)
(* no chunk, no character device.  After a failed rshm_init() there are    *)
(* two exceptions: the device whose first chunk failed stays, with the     *)
(* memory a file may have taken from it meanwhile, and a file that was     *)
(* open after the failure may have taken new memory from a device that was *)
(* already removed.                                                        *)
(***************************************************************************)
UnloadClean ==
    mod \in {"exited", "failed"} =>
        /\ cdev \subseteq {bad}
        /\ \/ opened
           \/ chunks \subseteq {bad} /\ \A m \in Mm : cpu[m].dev \in {bad, -1}

(***************************************************************************)
(* A read ends, by success or by its timeout, unless the mirrored process  *)
(* has gone (then dmirror_read() never leaves its loop) or the module has  *)
(* been taken away from under it.  The loop has no limit of its own: that  *)
(* migrations are bounded here stands for migrations that stop, since each *)
(* one may take the entry away again before dmirror_do_read() looks.       *)
(***************************************************************************)
ReadEnds ==
    \A f \in File : f \in reading ~> \/ f \notin reading
                                     \/ file[f].mm \notin alive
                                     \/ mod = "failed"

(***************************************************************************)
(* rshm_exit() ends, with two exceptions.  A fault that died through a     *)
(* dangling mirror pointer keeps its page.  And a page may survive: a      *)
(* fault held it when it was to be evicted, and then found no memory; it   *)
(* is still the process's, and nothing in rshm_exit() evicts it again.     *)
(***************************************************************************)
Survives(m) == cpu[m].dev \in removing /\ fault[m] = NoFault

ExitEnds ==
    mod = "going" ~> \/ mod = "exited"
                     \/ \E m \in Mm : Survives(m) \/ (fault[m] # NoFault /\ fault[m].at = "oops")

(***************************************************************************)
(* The comment in dmirror_devmem_fault(): the backing page "holds the      *)
(* pointer to the mirror".  So there is a mirror when it is used.          *)
(***************************************************************************)
FaultUsesLiveMirror ==
    \A m \in Mm : fault[m] # NoFault /\ fault[m].at \in {"setup", "copy"} => Open(fault[m].owner)
=============================================================================
