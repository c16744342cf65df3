SPECIFICATION Records
CONSTANTS
    w1 = w1
    w2 = w2
    w3 = w3
    Writers = {w1, w2, w3}
    Facts <- Odometer
    Slack = 1
    MaxRows = 4
    MaxBegins = 4
    Listings <- Deliveries
    Forms <- TypedIn
    Canonical <- Golf
    ThisYear = 2026
    Window = 1
    MaxTime = 2
    MaxRequests = 3
SYMMETRY Alike
INVARIANTS TypeOK StandsStrongest DuplicateOnlyByOverlap
PROPERTY ContradictionPreserved
CHECK_DEADLOCK FALSE
