SPECIFICATION FairSpec
CONSTANTS
    Messages = {m1}
    Staff = {"link", "checks", "resolve"}
    Listed = FALSE
    MaxFaults = 1
INVARIANT OpenedOnce
PROPERTIES
    BadCarNotOpened
    OpeningFollows
