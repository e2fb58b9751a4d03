SPECIFICATION Spec
CONSTANTS
    Commands <- ConflictCommands
    NoCommand = NoCommand
    NoKey = NoKey
    Task <- MCTask
    Tool <- MCTool
    MaxTicks = 2
    QueueSize = 1
    CacheSize = 1
    MaxDeliveries <- MoveATwice
    Aging <- OnlyMoveA
    Cancellable = {}
    Controls = {}
PROPERTY TaskOrder
