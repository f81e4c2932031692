\* The code's own numbers, in units of ten seconds.
SPECIFICATION Spec
CONSTANTS
    MaxSkew = 30
    MaxAnswer = 1
    NodeLag = 0
    Margin = 1
    MinLead = 6
    MaxLead = 90
    PollGap = 1
    Deadline = 12
    MaxTime = 20
CHECK_DEADLOCK FALSE
INVARIANTS
    NotSentNeverPaid
