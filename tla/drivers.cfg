SPECIFICATION Spec
CONSTANTS
    w1 = w1
    w2 = w2
    Tipos = {"LICENCIA"}
    Vehicles = {"V1"}
    Cooldown = 1
    Window = 0
    Workers = {w1, w2}
    Offers <- Slots
    Overlap <- Beside
    MaxTime = 1
    MaxFiles = 2
    MaxFaults = 1
INVARIANT TypeOK
INVARIANT ApprovalFollowsReview
INVARIANT AliasFollowsState
PROPERTY ReviewLifecycle
CHECK_DEADLOCK FALSE
