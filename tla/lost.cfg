\* One sale and one reset: is the verdict of a mined sale ever lost?
SPECIFICATION Spec
CONSTANTS
    MaxSales = 1
    c1 = c1
    c2 = c2
    Cards <- OneCard
    QueueLen = 2
    PollRounds = 1
    MaxResets = 1
    Families <- BothFamilies
    Upsets <- NoUpsets
CHECK_DEADLOCK FALSE
INVARIANTS
    VerdictNotLost
