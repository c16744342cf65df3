SPECIFICATION Spec
CONSTANTS
    Margin = 100
    Transport = 25000
    Opening = 880
    Step1 = 930
    Step2 = 970
    MinOffer = 100000
    Kinds = {"ute"}
    Fields = {"service", "faults"}
    Listed <- SomeFaults
    Bases = {410000, 1800000}
    Debts = {500000}
    MaxRows = 2
CHECK_DEADLOCK FALSE
INVARIANTS
    TypeOK
    LadderOrdered
    ConcessionsMove
    BetterNewsPaysNoLess
