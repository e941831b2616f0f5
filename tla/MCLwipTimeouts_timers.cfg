SPECIFICATION FairSpec
CONSTANTS
    NumTimeouts = 6
    Interval <- ShortIntervals
INVARIANTS
    TypeOK
    DeltasAddUp
    NoTimerLost
PROPERTIES
    ImplementsTimerSet
    TimersGoOn
