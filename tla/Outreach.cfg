SPECIFICATION FairSpec
CONSTANTS
    Minute = 2
    Schedule <- Cadence
    Window = 2
    Expiry = 1
    SmsWorks = TRUE
    Late = 0
    Longest = 3
INVARIANT SilenceIsHeld
PROPERTY StalledIsQuiet SilenceEnds
