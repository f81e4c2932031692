\* Two pages, two browsers, two proposals, a card read and a Wi-Fi trial.
SPECIFICATION Spec
CONSTANTS
    Browsers = {b1, b2}
    NoBrowser = NoBrowser
    EthAddrs = {e1}
    TronAddrs = {t1}
    NoAddr = NoAddr
    QueueLen = 2
    MaxStops = 1
    MaxSessions = 2
    MaxAsks = 2
    MaxProposals = 2
    MaxReads = 1
    MaxTries = 1
    Upsets = {"late"}
CHECK_DEADLOCK FALSE
INVARIANTS
    TypeOK
    ServedOnApOnly
    OffIsDown
PROPERTIES
    StoredWasShown
    GrantedWasNamed
    WindowCloses
