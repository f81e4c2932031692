\* Two updates, one of them broken; resets between any two steps and writes refused.
SPECIFICATION Spec
CONSTANTS
    made = made
    good = good
    broken = broken
    forged = forged
    Images = {made, good, broken, forged}
    Factory = made
    Signed = {made, good, broken}
    Healthy = {made, good}
    Build <- MCBuild
    FreeTries = 1
    ShiftMax = 1
    WaitMax = 2
    FailsMax = 2
    MaxSets = 2
    MaxResets = 1
    MaxRefusals = 1
    Upsets = {}
CHECK_DEADLOCK FALSE
INVARIANTS
    TypeOK
    AlwaysBoots
    SettingsAreOurs
    CodeOpens
PROPERTIES
    KeepsUpdate
    KeepsLock
    WaitIsServed
    BrokenRollsBack
