SPECIFICATION FairSpec
CONSTANTS
    d1 = d1
    d2 = d2
    jan = jan
    feb = feb
    w1 = w1
    w2 = w2
    Drivers = {d1}
    Periods = {jan, feb}
    Fares <- TwoMonths
    Requested = {3, 8}
    Minimum = 5
    Payouts = {y1, y2}
    NoPayout = NoPayout
    Batches = {t1, t2}
    NoBatch = NoBatch
    Answers = {"PENDING", "SUCCESS"}
    Workers = {w1, w2}
    Offers <- RequestsAndJob
    MaxFaults = 1
INVARIANT TypeOK
INVARIANT PayoutsAreBacked
INVARIANT PaidWasSent
PROPERTY ClaimedForGood
PROPERTY BatchesAreNoticed
CHECK_DEADLOCK FALSE
