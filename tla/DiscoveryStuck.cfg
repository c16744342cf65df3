SPECIFICATION FairSpec
CONSTANTS
    Thousand = 1
    Required <- TwoFields
    MinPhotos = 1
    NoProgressTurns = 2
    Says <- Messages
    Outputs <- Answers
    Values <- Known
    Listings <- OneListing
    Records <- ClearRecord
    Added <- Reviewed
    Deployments <- OneSearched
PROPERTIES VerificationIsOurs
CHECK_DEADLOCK FALSE
