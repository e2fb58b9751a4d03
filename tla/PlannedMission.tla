--------------------------- MODULE PlannedMission ---------------------------
(***************************************************************************)
(* A mission from its goal to its verdict: the deterministic planner, the  *)
(* registry's check, the graph's decisions, and one of two devices: the    *)
(* simulator of the command line or the bridge with its world.  A motion   *)
(* of the bridge runs to its end in one step; how it is queued and ticked  *)
(* is the matter of SimulationAdapter.  A command that was sent may be     *)
(* delivered again and an answer may be lost; both, a missed deadline, a   *)
(* foreign command and a change by the test harness are disturbances, of   *)
(* which a run has at most MaxDisturbances.                                *)
(***************************************************************************)
EXTENDS FakePlanner, DeviceSimulator, WorldGeometry

CONSTANTS
    Missions,         \* goal, max_steps and scene of the runs considered
    Objects,          \* what a semantic query may find
    Mission,          \* task_id of the mission
    Foreign,          \* commands of others that may reach the device
    Obstacles,        \* front, left and right distances the harness sets
    MaxDisturbances   \* bound on the disturbances of a run

\* Headings along the axes, and a robot that has one.
Quarters == {n \in Int : n % 90 = 0}

RobotStates == [x : Int, y : Int, yaw : Quarters, front : Int, left : Int,
                right : Int, stopped : BOOLEAN, level : BOOLEAN]

GoalKinds == {"emergency", "state", "scan", "fast", "move", "semantic",
              "unsupported"}

\* What is assumed of an object is what makes an approach to it a straight
\* move or a turn by quarters.
ASSUME MissionAssumption ==
    /\ Mission \in Tasks
    /\ \A c \in Foreign : c.task \in Tasks \ {Mission}
    /\ \A mission \in Missions :
          /\ mission.limit \in Nat
          /\ mission.goal.kind \in GoalKinds
          /\ mission.goal.amount \in Int
          /\ mission.scene.robot \in RobotStates
    /\ \A object \in Objects \ {NoObject} :
          object.bearing \in Quarters /\ object.distance \in Int /\ object.radius \in Int
    /\ \A o \in Obstacles : \A i \in 1 .. 3 : o[i] \in Int

VARIABLES
    goal,          \* goal
    limit,         \* max_steps
    scene,         \* the device and where it started
    node,          \* the graph's node, "wait" within execute
    call,          \* decision: the call to execute
    steps,         \* steps
    known,         \* known_state
    verdict,       \* final_status
    sent,          \* commands that were published
    expired,       \* commands whose deadline has passed
    disturbances   \* disturbances so far

setting == <<goal, limit, scene>>

graphVars == <<node, call, steps, known, verdict>>

vars == <<setting, graphVars, sent, expired, disturbances, deviceVars>>

Bridge == scene.kind = "bridge"

\* The state of the bridge's robot with what its sensors see of the world.
Sense(state) ==
    IF Bridge
    THEN LET Ray(yaw) == RayDistance(scene.world, state, Heading(state.yaw + yaw))
         IN  [state EXCEPT !.front = Ray(0), !.left = Ray(90), !.right = Ray(-90)]
    ELSE state

Init ==
    /\ \E mission \in Missions :
          goal = mission.goal /\ limit = mission.limit /\ scene = mission.scene
    /\ node = "planner"
    /\ call = Finish("none")
    /\ steps = <<>>
    /\ known = NoState
    /\ verdict = "none"
    /\ sent = {}
    /\ expired = {}
    /\ disturbances = 0
    /\ DeviceInit(Sense(scene.robot), scene.firstMove)

-----------------------------------------------------------------------------
(* The graph with the planner and the tool registry.                       *)

EndWith(status) ==
    /\ verdict' = status
    /\ node' = "end"

\* _planner_node: the limit is checked before the planner is asked.
Plans ==
    LET next == IF Len(steps) >= limit THEN Finish("step_limit")
                ELSE Plan(goal, steps, limit)
    IN  /\ node = "planner"
        /\ IF next.kind = "final"
           THEN EndWith(next.verdict) /\ UNCHANGED call
           ELSE call' = next /\ node' = "execute" /\ UNCHANGED verdict
        /\ UNCHANGED <<setting, steps, known, sent, expired, disturbances,
                       deviceVars>>

Command == [task |-> Mission, seq |-> Len(steps) + 1, tool |-> call.tool,
            amount |-> call.amount]

\* build_command judges by the state that was told last; nothing is near a
\* robot that told nothing yet.
Believed ==
    IF known = NoState
    THEN [x |-> 0, y |-> 0, yaw |-> 0, front |-> 1000, left |-> 1000,
          right |-> 1000, stopped |-> FALSE, level |-> TRUE]
    ELSE known

LocalDecision == SafetyCheck(Command, Believed, FALSE)

\* What an answered, refused or timed-out call leaves behind.  The state that
\* the graph makes up when nothing was told is never read: the run ends.
FinishStep(obs) ==
    /\ steps' = Append(steps, [call |-> [tool |-> call.tool, amount |-> call.amount],
                               obs |-> obs])
    /\ known' = IF obs.state = NoState THEN known ELSE obs.state
    /\ node' = "decide"
    /\ UNCHANGED <<call, verdict>>

\* ToolCallRejected: any reason of the safety check is a rejection.
RefusesLocally ==
    /\ node = "execute"
    /\ LocalDecision.status # "allow"
    /\ FinishStep(Feedback("rejected", LocalDecision.code, known))
    /\ UNCHANGED <<setting, sent, expired, disturbances, deviceVars>>

Publishes ==
    /\ node = "execute"
    /\ LocalDecision.status = "allow"
    /\ sent' = sent \cup {Command}
    /\ node' = "wait"
    /\ UNCHANGED <<setting, call, steps, known, verdict, expired,
                   disturbances, deviceVars>>

\* MqttResponseTimeout.
TimesOut ==
    /\ node = "wait"
    /\ FinishStep(Feedback("timeout", "mqtt_response_timeout", known))
    /\ UNCHANGED <<setting, sent, expired, disturbances, deviceVars>>

\* _decide_node, without an operator's cancel.
Outcome(obs) ==
    IF obs.status = "emergency_stop" \/ obs.code = "emergency_stopped"
    THEN "emergency_stop"
    ELSE IF obs.status = "timeout" THEN "timeout"
    ELSE "none"

Decides ==
    /\ node = "decide"
    /\ IF Outcome(LastStep(steps).obs) = "none"
       THEN node' = "planner" /\ UNCHANGED verdict
       ELSE EndWith(Outcome(LastStep(steps).obs))
    /\ UNCHANGED <<setting, call, steps, known, sent, expired, disturbances,
                   deviceVars>>

-----------------------------------------------------------------------------
(* The bridge, where it answers otherwise than the simulator.              *)

\* submit: the safety layer's refusal of a blocked way does not say what is
\* left of it.
BridgeRefuses(c, late) ==
    LET decision == SafetyCheck(c, robot, late)
        obs      == Feedback(decision.status, decision.code, robot)
    IN  /\ IsNew(c)
        /\ decision.status # "allow"
        /\ Remember(c, obs, TRUE)
        /\ UNCHANGED <<robot, obstacleAhead>>

\* A forward motion goes as far as the world allows.
BridgeMoves(c, late) ==
    LET allowed == AllowedMove(scene.world, robot, Heading(robot.yaw), c.amount)
        state   == Sense(MoveBy(robot, allowed))
        obs     == IF allowed = c.amount
                   THEN Feedback("success", "none", state)
                   ELSE Observation("blocked", "front_obstacle",
                                    c.amount - allowed, state, NoObject)
    IN  /\ c.tool = "move_robot"
        /\ MayExecute(c, late)
        /\ Concludes(c, state, obs)
        /\ UNCHANGED obstacleAhead

BridgeTurns(c, late) ==
    LET state == Sense([robot EXCEPT !.yaw = @ + c.amount])
    IN  /\ c.tool = "turn_robot"
        /\ MayExecute(c, late)
        /\ Concludes(c, state, Feedback("success", "none", state))
        /\ UNCHANGED obstacleAhead

\* _query_observation of a semantic query: where the objects are is left open.
BridgeInspects(c, late) ==
    /\ c.tool = "inspect_semantic_world"
    /\ MayExecute(c, late)
    /\ \E object \in Objects :
           Concludes(c, robot, Observation("success", "none", 0, robot, object))
    /\ UNCHANGED obstacleAhead

BridgeProcess(c, late) ==
    \/ ReplaysResult(c)
    \/ BridgeRefuses(c, late)
    \/ BridgeMoves(c, late)
    \/ BridgeTurns(c, late)
    \/ Looks(c, late)
    \/ BridgeInspects(c, late)
    \/ Stops(c, late)

-----------------------------------------------------------------------------
(* The network, the operator and the test harness.                         *)

\* The other nodes read nothing of the device: what happens while they work
\* might as well happen before or behind them.
Disturbs ==
    /\ node = "wait"
    /\ disturbances < MaxDisturbances
    /\ disturbances' = disturbances + 1

Process(c) ==
    IF Bridge THEN BridgeProcess(c, c \in expired)
              ELSE ProcessCommand(c, c \in expired)

\* The command that is waited for is delivered and answered.
Delivers ==
    /\ node = "wait"
    /\ Process(Command)
    /\ FinishStep(Reply(Command))
    /\ UNCHANGED <<setting, sent, expired, disturbances>>

\* A command is delivered, maybe again or after its answer was given up, and
\* the answer is of use to nobody.
DeliversInVain ==
    /\ node \in {"wait", "end"}
    /\ \E c \in sent : Process(c)
    /\ disturbances < MaxDisturbances
    /\ disturbances' = disturbances + 1
    /\ UNCHANGED <<setting, graphVars, sent, expired>>

\* Another client's command, an operator's emergency stop among them.
ForeignCommand ==
    /\ \E c \in Foreign : Process(c)
    /\ Disturbs
    /\ UNCHANGED <<setting, graphVars, sent, expired>>

DeadlinePasses ==
    /\ \E c \in sent \ expired : expired' = expired \cup {c}
    /\ Disturbs
    /\ UNCHANGED <<setting, graphVars, sent, deviceVars>>

\* What a test does to the simulator between two commands.
Harness ==
    /\ ~Bridge
    /\ \/ \E o \in Obstacles : SetObstacles(o[1], o[2], o[3])
       \/ \E level \in BOOLEAN : SetPose(level)
       \/ ClearEmergencyStop
    /\ Disturbs
    /\ UNCHANGED <<setting, graphVars, sent, expired>>

Next ==
    \/ Plans
    \/ RefusesLocally
    \/ Publishes
    \/ TimesOut
    \/ Decides
    \/ Delivers
    \/ DeliversInVain
    \/ ForeignCommand
    \/ DeadlinePasses
    \/ Harness

Spec == Init /\ [][Next]_vars

-----------------------------------------------------------------------------
(* Properties.                                                             *)

\* How far b is from a in the direction a faces.
Progressed(a, b) ==
    (b.x - a.x) * Heading(a.yaw).x + (b.y - a.y) * Heading(a.yaw).y

\* A mission to move that ends with success has moved the robot forward by
\* what its goal asked, detour included, and left it facing the same way,
\* whatever was delivered twice, refused or set by others.
SuccessEarned ==
    goal.kind = "move" /\ verdict = "success" =>
        /\ Progressed(scene.robot, robot) = AtMost(goal.amount, 200)
        /\ robot.yaw % 360 = scene.robot.yaw % 360

\* The step limit never ends a run in the middle of a detour, with the robot
\* aside of its way: a detour that might not be finished is not begun.
DetourFits ==
    verdict = "step_limit" =>
        \A i \in BlockedSteps(steps) : i = Len(steps)

\* Where a step of this call and answer leads from a place.
Traverse(place, step) ==
    LET moved == IF step.obs.status = "success" THEN step.call.amount
                 ELSE IF step.obs.status = "blocked" /\ step.obs.remaining > 0
                      THEN step.call.amount - step.obs.remaining
                 ELSE 0
    IN  IF step.call.tool = "move_robot" THEN MoveBy(place, moved)
        ELSE IF step.call.tool = "turn_robot" THEN [place EXCEPT !.yaw = @ + moved]
        ELSE place

Place(state) == [x |-> state.x, y |-> state.y, yaw |-> state.yaw]

SamePlace(a, b) == a.x = b.x /\ a.y = b.y /\ a.yaw % 360 = b.yaw % 360

\* Where the steps taken lead, one after the other.
LedTo(start, taken) ==
    LET place[i \in 0 .. Len(taken)] ==
            IF i = 0 THEN start ELSE Traverse(place[i - 1], taken[i])
    IN  place[Len(taken)]

\* The step whose answer did not come: its command and the device's answer.
Unanswered ==
    {[call |-> [tool |-> c.tool, amount |-> c.amount], obs |-> results[KeyOf(c)].obs] :
        c \in {d \in sent :
                  /\ KeyOf(d) \in DOMAIN results
                  /\ \/ d.seq > Len(steps)
                     \/ steps[d.seq].obs.code = "mqtt_response_timeout"}}

\* The robot is where the answers of the run's steps say that they led it,
\* except that a command without an answer may have been executed, once: the
\* journal of a run is the whole truth about its motions.
PoseExplained ==
    LET told == LedTo(Place(scene.robot), steps)
    IN  \/ SamePlace(Place(robot), told)
        \/ \E step \in Unanswered : SamePlace(Place(robot), Traverse(told, step))
=============================================================================
