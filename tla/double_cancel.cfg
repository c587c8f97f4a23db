SPECIFICATION Spec
CONSTANTS
    p1 = p1
    p2 = p2
    p3 = p3
    c1 = c1
    c2 = c2
    c3 = c3
    c4 = c4
    d1 = d1
    d2 = d2
    k1 = k1
    Routes = {r1}
    Passengers = {p1, p2, p3}
    Clients = {c1, c2, c3, c4}
    Owner <- TwoDevices
    Drivers = {d1}
    Crons = {}
    Handlers <- PassengerHandlers
    Overlap <- EverybodyOverlaps
    MetodoPago = {"PAYPAL"}
    MaxInFlight = 2
    MaxSeats = 1
    MaxTime = 1
    Lead = 1
    NoShowWindow = 1
    MaxFaults = 0
INVARIANT NoOverbooking
CHECK_DEADLOCK FALSE
