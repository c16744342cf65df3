SPECIFICATION Spec
CONSTANTS
    Directives <- Messages
    Texts <- Rewrites
    Modelled = TRUE
    Retries = 1
    Verbatim = 1
    Batch = 1
    MaxLength <- Lengths
    IntroLength = 1
    Numbers = {"none", "free"}
    Attempts = 2
    MaxMessages = 5
INVARIANT WholeConversation
PROPERTY SaidAsDecided MessagesSettle
CHECK_DEADLOCK FALSE
