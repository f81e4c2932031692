\* The margin covers skew, answer and node lag: the verdict is sound.
SPECIFICATION Spec
CONSTANTS
    MaxSkew = 1
    MaxAnswer = 2
    NodeLag = 1
    Margin = 4
    MinLead = 1
    MaxLead = 6
    PollGap = 1
    Deadline = 12
    MaxTime = 16
\* The sale ends, and the clock with it.
CHECK_DEADLOCK FALSE
INVARIANTS
    NotSentNeverPaid
    SettledInOnePoll
