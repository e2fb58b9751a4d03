SPECIFICATION Spec
CONSTANTS
    m = m
    op = op
    q = q
    none = none
    Tasks <- MCTasks
    NoState = none
    NoObject = none
    CacheSize = 12
    Grid = 5
    SensorRange = 250
    Missions <- MCMissions
    Objects <- MCObjects
    Mission = m
    Foreign <- MCForeign
    Obstacles <- MCObstacles
    MaxDisturbances = 2
INVARIANT SuccessEarned
INVARIANT DetourFits
INVARIANT PoseExplained
CHECK_DEADLOCK FALSE
