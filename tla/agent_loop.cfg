SPECIFICATION FairSpec
CONSTANTS
    MaxSteps = 2
    MaxAttempts = 2
    Claims <- MCClaims
INVARIANT TypeOK
INVARIANT AnswersBelong
INVARIANT NothingBehindUnanswered
INVARIANT OneAfterCancel
INVARIANT VerdictExplained
INVARIANT EventsInOrder
INVARIANT EvidenceAgrees
PROPERTY KeepsRunnerContract
