SPECIFICATION Spec
CONSTANTS
    s1 = s1
    s2 = s2
    s3 = s3
    s4 = s4
    s5 = s5
    w1 = w1
    w2 = w2
    w3 = w3
    Stops = {s1, s2, s3, s4, s5}
    NoStop = NoStop
    Published <- ThreeStops
    Workers = {w1}
    Offers <- Driver
    Overlap <- Alone
    MaxOrden = 5
    MaxFaults = 0
INVARIANT StopsFitAnywhere
CHECK_DEADLOCK FALSE
