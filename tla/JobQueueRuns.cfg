SPECIFICATION DeploySpec
CONSTANTS
    j1 = j1
    j2 = j2
    j3 = j3
    Jobs <- ThreeRows
    Key <- SameKey
    NoKey = NoKey
    MaxAttempts <- Uneven
    Handled = {j1, j2}
    Solo = w1
    Workers = {w1, w2}
    None = None
    MayCrash = TRUE
    MayOverrun = TRUE
CHECK_DEADLOCK FALSE
INVARIANTS
    TypeOK
    KeyUnique
    DoneMeansApplied
    Owned
    Exclusive
    Accepted
    WithinBudget
    FleetAppliesOnce
PROPERTIES
    KeptPromise
    RoughlySettles
