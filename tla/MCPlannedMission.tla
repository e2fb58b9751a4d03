-------------------------- MODULE MCPlannedMission --------------------------
(***************************************************************************)
(* Scenes of both kinds.  The worlds are obstacle_world_config's three,    *)
(* without the objects that no mission of these goals gets near to, one    *)
(* where both sides are too narrow for a detour and one where the detour   *)
(* meets an obstacle again.  The cache holds every command of a run.       *)
(***************************************************************************)
EXTENDS PlannedMission

CONSTANTS m, op, q, none

MCTasks == {m, op, q}

Goal(kind, amount) == [kind |-> kind, amount |-> amount]

At(yaw, front, left, right) ==
    [x |-> 0, y |-> 0, yaw |-> yaw, front |-> front, left |-> left,
     right |-> right, stopped |-> FALSE, level |-> TRUE]

Simulator(robotState, first) ==
    [kind |-> "simulator", robot |-> robotState, firstMove |-> first,
     world |-> none]

World(solids) == [bounds |-> Box(-600, 600, -400, 400), solids |-> solids]

InWorld(solids) ==
    [kind |-> "bridge", robot |-> At(0, 0, 0, 0), firstMove |-> FALSE,
     world |-> World(solids)]

MCFront == Box(95, 145, -40, 40)
MCRightCrate == Box(-5, 75, -125, -75)
MCLeftCrate == Box(-5, 75, 75, 125)
MCBehind == Box(200, 260, 80, 200)

Simulators ==
    {Simulator(At(0, 100, 200, 100), FALSE),
     Simulator(At(90, 18, 40, 200), FALSE),
     Simulator(At(0, 18, 90, 20), FALSE),
     Simulator(At(0, 100, 100, 100), TRUE)}

Worlds ==
    {InWorld({MCFront, MCRightCrate}),
     InWorld({MCFront, MCLeftCrate}),
     InWorld({MCFront, MCRightCrate, MCLeftCrate}),
     InWorld({MCFront, MCBehind})}

Planned(goals, limits, scenes) ==
    [goal : goals, limit : limits, scene : scenes]

\* Moves are tried in every scene, with a budget that is just enough for a
\* detour and one that is just too small; the others do not depend on it.
MCMissions ==
    Planned({Goal("move", 250)}, {6, 7}, Simulators \cup Worlds)
        \cup Planned({Goal("move", 100)}, {7}, Worlds)
        \cup Planned({Goal(k, 0) : k \in {"emergency", "state", "scan", "fast",
                                          "unsupported"}},
                     {1, 2}, {Simulator(At(0, 100, 200, 100), FALSE)})
        \cup Planned({Goal("semantic", 0)}, {6}, {InWorld({MCFront})})
        \cup Planned({Goal("semantic", 0)}, {2},
                     {Simulator(At(0, 100, 100, 100), TRUE)})

Seen(distance, bearing) ==
    [distance |-> distance, bearing |-> bearing, radius |-> 60,
     within |-> distance <= 60]

MCObjects == {none, Seen(160, 90), Seen(240, 0), Seen(50, 0)}

\* An operator's stop, and a client that queries out of order and reuses a
\* number.
MCForeign ==
    {[task |-> op, seq |-> 1, tool |-> "emergency_stop", amount |-> 0],
     [task |-> q, seq |-> 2, tool |-> "get_robot_state", amount |-> 0],
     [task |-> q, seq |-> 1, tool |-> "get_robot_state", amount |-> 0],
     [task |-> q, seq |-> 1, tool |-> "scan_obstacles", amount |-> 0]}

MCObstacles == {<<18, 200, 40>>}
=============================================================================
