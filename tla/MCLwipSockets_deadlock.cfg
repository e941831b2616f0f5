SPECIFICATION Spec
CONSTANTS
    c1 = c1
    c2 = c2
    Most = 2
    Conns = {c1, c2}
    Listener = Listener
    None = None
    MboxSize = 1
    MaxSegments <- Segments
INVARIANT ApplicationDecides
CHECK_DEADLOCK FALSE
