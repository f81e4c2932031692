\* One trial of any of five networks, two openings of the page, a drop and a reset.
SPECIFICATION Spec
CONSTANTS
    home = home
    other = other
    cafe = cafe
    wrong = wrong
    hung = hung
    Nets <- MCNets
    Joins <- MCJoins
    Leases <- MCLeases
    Timed <- MCTimed
    Home = home
    MaxRetry = 2
    Attempts = 2
    MaxTrials = 1
    MaxPages = 2
    MaxDrops = 1
    MaxResets = 1
INVARIANTS TypeOK SavedIsProven PageOffTheLan KeepsProven
PROPERTIES RejoinsByItself
CHECK_DEADLOCK FALSE
