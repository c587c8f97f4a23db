SPECIFICATION FairSpec
CONSTANTS
    b1 = b1
    w1 = w1
    w2 = w2
    Bookings = {b1}
    Metodo <- ByPaypal1
    Orders = {o1, o2}
    NoOrder = NoOrder
    Keys = {k1}
    NoKey = NoKey
    Workers = {w1, w2}
    Offers <- Slots
    Overlap <- PayOrReverse
    MaxFaults = 1
INVARIANT TypeOK
INVARIANT CapturesRecorded
INVARIANT RefundsRecorded
 
 
PROPERTY ReversedIsFinal
PROPERTY RefundIsDecided
CHECK_DEADLOCK FALSE
