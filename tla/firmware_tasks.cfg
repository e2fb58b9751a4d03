SPECIFICATION Spec
CONSTANTS
    RingCapacity = 4
    FrameCapacity = 2
    Seqs <- MCSeqs
    Tools <- MCTools
    Amounts <- MCAmounts
    CacheSize = 2
    MayExpire <- MCMayExpire
    QueueLength = 2
    Budgets <- MCBudgets
INVARIANT PatientHostServed
PROPERTY Settles
PROPERTY QueuesNewLines
CHECK_DEADLOCK FALSE
