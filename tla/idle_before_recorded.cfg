SPECIFICATION FairSpec
CONSTANTS
    Missions <- MCMissions
    Faults <- MCFaults
    NoRun = NoRun
    Callers <- MCCallers
    MaxFrames = 2
    MaxRevision = 2
    MaxSteps = 1
    MaxEvidence = 2
INVARIANT IdleIsRecorded
CHECK_DEADLOCK FALSE
