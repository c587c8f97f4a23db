SPECIFICATION Spec
CONSTANTS
    p1 = p1
    p2 = p2
    p3 = p3
    c1 = c1
    c2 = c2
    c3 = c3
    c4 = c4
    d1 = d1
    d2 = d2
    k1 = k1
    Routes = {r1}
    Passengers = {p1, p2, p3}
    Clients = {c1, c2, c3}
    Owner <- OneEach3
    Drivers = {d1}
    Crons = {k1}
    Handlers <- AllHandlers
    Overlap <- PassengersOverlap
    MetodoPago = {"PAYPAL"}
    MaxInFlight = 3
    MaxSeats = 2
    MaxTime = 2
    Lead = 1
    NoShowWindow = 1
    MaxFaults = 1
INVARIANT TypeOK
INVARIANT SeatAccounting
INVARIANT SettledRoutes
PROPERTY StartsWithEverybodyVerified
PROPERTY ImplementsContract
CHECK_DEADLOCK FALSE
