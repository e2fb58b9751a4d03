------------------------ MODULE MCSimulationAdapter ------------------------
(***************************************************************************)
(* Small command sets for SimulationAdapter.  Task "a" is a mission, "b" a *)
(* second one and "op" the operator who presses the emergency stop.        *)
(***************************************************************************)
EXTENDS SimulationAdapter

Command(task, seq, tool, body) ==
    [task |-> task, seq |-> seq, tool |-> tool, body |-> body]

MoveA == Command("a", 1, "move_robot", 1)
ConflictingMoveA == Command("a", 1, "move_robot", 2)
TurnA == Command("a", 2, "turn_robot", 1)
TurnB == Command("b", 1, "turn_robot", 1)
StateB == Command("b", 1, "get_robot_state", 1)
Emergency == Command("op", 1, "emergency_stop", 1)

MCTask == {"a", "b", "op"}
MCTool == {"move_robot", "turn_robot", "get_robot_state", "emergency_stop"}

\* Motions of a mission that is cancelled and of one that is not, and an
\* emergency stop.  Both motions are redelivered.
ControlCommands == {MoveA, TurnB, Emergency}
ControlDeliveries == [c \in Commands |-> IF c = Emergency THEN 1 ELSE 2]

\* A motion delivered twice, a conflicting payload under its key, and other
\* keys that push its result out of a small cache.
ConflictCommands == {MoveA, ConflictingMoveA, TurnA, StateB}
MoveATwice == [c \in Commands |-> IF c = MoveA THEN 2 ELSE 1]
OnlyMoveA == {MoveA}

\* The least that can starve: one motion and one emergency stop.
LiveCommands == {MoveA, Emergency}
=============================================================================
