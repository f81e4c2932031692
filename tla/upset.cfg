\* Every upset at once: what must survive a hostile day.
SPECIFICATION Spec
CONSTANTS
    MaxSales = 2
    c1 = c1
    c2 = c2
    Cards <- OneCard
    QueueLen = 2
    PollRounds = 1
    MaxResets = 1
    Families <- BothFamilies
    Upsets <- EveryUpset
CHECK_DEADLOCK FALSE
INVARIANTS
    ApprovedIsMined
    SignedOnce
PROPERTIES
    ChargeIsAnswered
    ResumedSaleIsAnswered
