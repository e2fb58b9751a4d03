SPECIFICATION FairSpec
CONSTANTS
    Commands <- LiveCommands
    NoCommand = NoCommand
    NoKey = NoKey
    Task <- MCTask
    Tool <- MCTool
    MaxTicks = 2
    QueueSize = 1
    CacheSize = 4
    MaxDeliveries <- MoveATwice
    Aging <- LiveCommands
    Cancellable = {"a"}
    Controls = {"reset", "pause"}
PROPERTY EveryCommandAnswered
PROPERTY EmergencyTakesEffect
