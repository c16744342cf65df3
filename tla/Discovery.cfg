SPECIFICATION SideBySideSpec
CONSTANTS
    Thousand = 1
    Required <- TwoFields
    MinPhotos = 1
    NoProgressTurns = 2
    Says <- Messages
    Outputs <- Answers
    Values <- Known
    Listings <- OneListing
    Records <- OneRecord
    Added <- ByHandToo
    Deployments <- SideBySide
INVARIANTS DiscoveryTypeOK PricedOnVerifiedFacts
PROPERTIES NoPriceOverDispute VerificationMoves DiscoveryEnds
CHECK_DEADLOCK FALSE
