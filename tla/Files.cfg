SPECIFICATION Spec
CONSTANTS
    NDevices = 2
    File = {1, 2}
    Mm = {1}
    Frame = {1, 2}
    MaxOpen = 3
    MaxMigrate = 2
    MaxFault = 2
    NoFrame = NoFrame
    NoFile = NoFile
    NoFault = NoFault
CHECK_DEADLOCK FALSE
INVARIANTS
    TypeOK
    UnloadClean
PROPERTIES
    StaleOnlyBySibling
    ReadEnds
    ExitEnds
