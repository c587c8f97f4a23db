SPECIFICATION Spec
CONSTANTS
    w1 = w1
    w2 = w2
    Pairs = {s1, s2}
    AccessTtl = 2
    RefreshTtl = 3
    MaxFailed = 1
    BlockTime = 1
    Workers = {w1, w2}
    Offers <- Slots
    Overlap <- Beside
    MaxTime = 2
    MaxClave = 1
    MaxDisturbed = 1
INVARIANT TypeOK
INVARIANT PermissionsAreCurrent
INVARIANT SessionsEndWithPassword
PROPERTY RefusedStaysRefused
CHECK_DEADLOCK FALSE
