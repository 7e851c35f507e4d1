SPECIFICATION Spec
CONSTANTS
    t1 = t1
    t2 = t2
    k1 = k1
    f1 = f1
    f2 = f2
    f3 = f3
    f4 = f4
    Thread <- OneThread
    Invalidator <- OneInvalidator
    NPages = 2
    Batch = 2
    Frame <- FourFrames
    Value = {0, 1}
    Zero = 0
    OpOf <- ReadsAndMigrations
    Event = {"move"}
    StoreFails = FALSE
    MaxCmd = 2
    MaxInval = 0
    MaxStore = 0
    NoCmd = NoCmd
    NoEntry = NoEntry
    NoFrame = NoFrame
    Nobody = Nobody
CHECK_DEADLOCK FALSE
INVARIANT MirrorAddressable
