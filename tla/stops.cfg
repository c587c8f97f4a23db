SPECIFICATION Spec
CONSTANTS
    s1 = s1
    s2 = s2
    s3 = s3
    s4 = s4
    s5 = s5
    w1 = w1
    w2 = w2
    w3 = w3
    Stops = {s1, s2, s3, s4, s5}
    NoStop = NoStop
    Published <- TwoStops
    Workers = {w1, w2, w3}
    Offers <- Slots
    Overlap <- AddAndBook
    MaxOrden = 5
    MaxFaults = 1
INVARIANT TypeOK
INVARIANT PolylineFollowsStops
PROPERTY StopsKeepTheirPlaces
CHECK_DEADLOCK FALSE
