SPECIFICATION FairSpec
CONSTANTS
    t1 = t1
    t2 = t2
    k1 = k1
    f1 = f1
    f2 = f2
    f3 = f3
    f4 = f4
    Thread <- OneThread
    Invalidator <- OneInvalidator
    NPages = 2
    Batch = 1
    Frame <- ThreeFrames
    Value = {0, 1}
    Zero = 0
    OpOf <- Loops
    Event = {"move", "discard"}
    StoreFails = TRUE
    MaxCmd = 2
    MaxInval = 1
    MaxStore = 1
    NoCmd = NoCmd
    NoEntry = NoEntry
    NoFrame = NoFrame
    Nobody = Nobody
CHECK_DEADLOCK FALSE
PROPERTIES
    ImplementsSharedMemory
    CommandCompletes
