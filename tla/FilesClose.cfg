SPECIFICATION Spec
CONSTANTS
    NDevices = 2
    File = {1, 2}
    Mm = {1}
    Frame = {1, 2, 3}
    MaxOpen = 1
    MaxMigrate = 1
    MaxFault = 1
    NoFrame = NoFrame
    NoFile = NoFile
    NoFault = NoFault
CHECK_DEADLOCK FALSE
INVARIANT
    FaultUsesLiveMirror
