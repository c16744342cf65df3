SPECIFICATION Spec
CONSTANTS
    AutoPresent = TRUE
    Manual = FALSE
    Replies = {"accept", "counter"}
    Staff = {"present", "price", "outcome", "resolve", "revalue"}
    MaxOffers = 2
    MaxTries = 1
INVARIANTS
    OneOpenOffer
    LadderClimbs
    DealMatchesOffer
PROPERTIES
    OutcomeWriteOnce
    NoOfferBehindAPerson
    EscalationIsOpen
