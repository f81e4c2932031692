\* An accepted address, a card read, and the page closed in between.
SPECIFICATION Spec
CONSTANTS
    Browsers = {b1}
    NoBrowser = NoBrowser
    EthAddrs = {e1}
    TronAddrs = {t1}
    NoAddr = NoAddr
    QueueLen = 8
    MaxStops = 1
    MaxSessions = 2
    MaxAsks = 1
    MaxProposals = 1
    MaxReads = 1
    MaxTries = 1
    Upsets = {}
CHECK_DEADLOCK FALSE
INVARIANT
    AcceptedIsInForce
