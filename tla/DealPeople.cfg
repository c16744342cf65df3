SPECIFICATION FairSpec
CONSTANTS
    AutoPresent = FALSE
    Manual = FALSE
    Replies = {"accept", "reject", "counter", "price", "talk", "stop", "person"}
    Staff = {"price", "checks", "claim", "fact"}
    MaxOffers = 2
    MaxTries = 1
INVARIANTS
    TypeOK
PROPERTIES
    OfferSettles
