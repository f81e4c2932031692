\* Three sales on either family, one reset anywhere, no upset.
SPECIFICATION Spec
CONSTANTS
    MaxSales = 3
    c1 = c1
    c2 = c2
    Cards <- OneCard
    QueueLen = 2
    PollRounds = 1
    MaxResets = 1
    Families <- BothFamilies
    Upsets <- NoUpsets
CHECK_DEADLOCK FALSE
INVARIANTS
    TypeOK
    DeclinedNeverLands
    OutIsRecorded
    OpenSaleIsOnPanel
    CancelStopsSale
    EvmReplacedNotBeside
PROPERTIES
    KeepsPromise
