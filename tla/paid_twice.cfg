SPECIFICATION Spec
CONSTANTS
    d1 = d1
    d2 = d2
    jan = jan
    feb = feb
    w1 = w1
    w2 = w2
    Drivers = {d1}
    Periods = {jan}
    Fares <- OneFare
    Requested = {3, 5, 8}
    Minimum = 5
    Payouts = {y1}
    NoPayout = NoPayout
    Batches = {t1, t2}
    NoBatch = NoBatch
    Answers = {"PENDING", "SUCCESS", "FAILED"}
    Workers = {w1}
    Offers <- OneByOne
    MaxFaults = 0
INVARIANT PaidOutAtMostEarned
CHECK_DEADLOCK FALSE
