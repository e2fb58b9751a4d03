---------------------------- MODULE SafetyGuard ----------------------------
(***************************************************************************)
(* The safety checks that the tool registry makes before it publishes a    *)
(* command and that the device makes again before it executes one.  A      *)
(* command's params are one amount: centimetres of a move, degrees of a    *)
(* turn.  Its speed is left out: the planner's is constant and allowed.    *)
(***************************************************************************)
EXTENDS Integers

Abs(n) == IF n < 0 THEN -n ELSE n

\* SafetyLimits, in centimetres and degrees.
MaxDistance == 200
MaxAngle == 180
MinFrontDistance == 25

MotionTools == {"move_robot", "turn_robot"}

\* A decision: the status it leads to and its code.
Decision(status, code) == [status |-> status, code |-> code]

\* A stopped robot takes no motion, neither does one that leans.
MayNotMove(c, state) ==
    c.tool \in MotionTools /\ (state.stopped \/ ~state.level)

OutOfRange(c) ==
    \/ c.tool = "move_robot" /\ Abs(c.amount) > MaxDistance
    \/ c.tool = "turn_robot" /\ Abs(c.amount) > MaxAngle

FacesObstacle(c, state) ==
    /\ c.tool = "move_robot"
    /\ c.amount > 0
    /\ state.front < MinFrontDistance

\* check(command, state, now_ms), the earlier reason first.  An emergency stop
\* is refused for nothing but its deadline.
SafetyCheck(c, state, expired) ==
    IF expired THEN Decision("timeout", "deadline_expired")
    ELSE IF MayNotMove(c, state)
         THEN Decision("rejected", IF state.stopped THEN "emergency_stopped"
                                                  ELSE "unsafe_pose")
    ELSE IF OutOfRange(c) THEN Decision("rejected", "dangerous_parameter")
    ELSE IF FacesObstacle(c, state) THEN Decision("blocked", "front_obstacle")
    ELSE Decision("allow", "allowed")
=============================================================================
