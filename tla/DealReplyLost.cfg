SPECIFICATION Spec
CONSTANTS
    AutoPresent = TRUE
    Manual = FALSE
    Replies = {"accept", "talk"}
    Staff = {}
    MaxOffers = 2
    MaxTries = 3
INVARIANTS
    RepliesRecorded
