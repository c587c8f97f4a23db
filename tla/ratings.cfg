SPECIFICATION Spec
CONSTANTS
    w1 = w1
    w2 = w2
    d1 = d1
    p1 = p1
    r1 = r1
    r2 = r2
    Driver = d1
    Passengers = {p1}
    Routes = {r1, r2}
    Scores = {1, 4}
    RatingWindow = 0
    Workers = {w1, w2}
    Offers <- Slots
    Overlap <- Beside
    MaxTime = 1
    MaxDisturbed = 1
SYMMETRY AlikeRoutes
INVARIANT TypeOK
INVARIANT ProfileFollowsRatings
INVARIANT OfferedRatingsAreAccepted
 
CHECK_DEADLOCK FALSE
