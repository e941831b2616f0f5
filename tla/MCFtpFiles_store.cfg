SPECIFICATION Spec
CONSTANTS
    a = a
    b = b
    Sessions = {s1}
    Params <- PlainParams
    Offsets <- Restarts
    MaxSectors = 2
    MaxUploads = 2
    Capacity = 2
    MaxDepth = 2
    MaxDir = 3
CHECK_DEADLOCK FALSE
INVARIANTS
    TypeOK
    VolumeIsTree
PROPERTIES
    ImplementsStore
