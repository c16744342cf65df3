SPECIFICATION Spec
CONSTANTS
    AutoPresent = FALSE
    Manual = FALSE
    Replies = {"stop", "talk"}
    Staff = {"resolve"}
    MaxOffers = 2
    MaxTries = 3
INVARIANTS
    StopHonoured
