SPECIFICATION Spec
CONSTANTS
    MaxAttempts = 2
    Flaws <- MCFlaws
    MaxRuns = 2
    MaxDisturbances = 3
INVARIANT PassedIsEarned
INVARIANT NoFalseAlarm
INVARIANT FaultUndone
CHECK_DEADLOCK FALSE
