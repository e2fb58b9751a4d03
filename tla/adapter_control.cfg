SPECIFICATION Spec
CONSTANTS
    Commands <- ControlCommands
    NoCommand = NoCommand
    NoKey = NoKey
    Task <- MCTask
    Tool <- MCTool
    MaxTicks = 2
    QueueSize = 1
    CacheSize = 4
    MaxDeliveries <- ControlDeliveries
    Aging <- OnlyMoveA
    Cancellable = {"a"}
    Controls = {"pause", "reset"}
INVARIANT TypeOK
INVARIANT Ownership
INVARIANT EngineAgreement
INVARIANT EmergencyHolds
INVARIANT CallbacksConserved
INVARIANT AtMostOnce
INVARIANT VerdictsAgree
PROPERTY CancelledStaysDown
PROPERTY ImplementsDevice
