SPECIFICATION FairSpec
CONSTANTS
    Missions <- MCMissions
    Faults <- MCFaults
    NoRun = NoRun
    Callers <- MCCallers
    MaxFrames = 2
    MaxRevision = 2
    MaxSteps = 1
    MaxEvidence = 2
INVARIANT TypeOK
INVARIANT OneRunInProgress
INVARIANT CaptureOwned
INVARIANT CancelHonoured
INVARIANT OneFinalEvent
INVARIANT CancelRelayedOnce
INVARIANT FinalEvidenceKept
INVARIANT BundleOfLastRun
PROPERTY RecordingKept
PROPERTY ImplementsSingleRun
PROPERTY RecordingEnds
CHECK_DEADLOCK FALSE
