SPECIFICATION Spec
CONSTANTS
    t1 = t1
    t2 = t2
    k1 = k1
    f1 = f1
    f2 = f2
    f3 = f3
    f4 = f4
    Thread <- TwoThreads
    Invalidator <- OneInvalidator
    NPages = 1
    Batch = 1
    Frame <- ThreeFrames
    Value = {0, 1}
    Zero = 0
    OpOf <- Accesses
    Event = {"move", "protect", "cow", "restore"}
    StoreFails = TRUE
    MaxCmd = 2
    MaxInval = 2
    MaxStore = 1
    NoCmd = NoCmd
    NoEntry = NoEntry
    NoFrame = NoFrame
    Nobody = Nobody
SYMMETRY FrameSymmetry
CHECK_DEADLOCK FALSE
INVARIANTS
    TypeOK
    NoStaleEntry
PROPERTIES
    ImplementsSharedMemory
    SnapshotSound
