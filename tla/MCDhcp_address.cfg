SPECIFICATION FairSpec
CONSTANTS
    a1 = a1
    a2 = a2
    Leases = {a1, a2}
    Static = Static
    Any = Any
    MaxDhcpTries = 5
    MaxRefusals = 3
INVARIANTS
    TypeOK
    OneConfiguration
    LeaseIsOurs
    OneMessageLost
PROPERTIES
    QuietWhenDone
    AddressAtLast
CHECK_DEADLOCK FALSE
