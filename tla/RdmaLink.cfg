SPECIFICATION FairSpec
CONSTANTS
    MaxMsgs = 2
    MaxFaults = 1
CHECK_DEADLOCK FALSE
INVARIANTS
    TypeOK
    NoOverrun
    ShownInOrder
    KeyValidWhenUsed
    ServerReady
    PatientReads
    NothingLeft
    BindIsAnswered
PROPERTIES
    DeliveredOrBroken
    ServerLeaves
