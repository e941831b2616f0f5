SPECIFICATION Spec
CONSTANTS
    NumTimeouts = 6
    Interval <- ShortIntervals
INVARIANTS
    ActiveMeansScheduled
