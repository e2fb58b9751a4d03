-------------------------- MODULE DeviceSimulator --------------------------
(***************************************************************************)
(* The in-process device that the command line starts: each command is     *)
(* processed in one go on the network thread of its MQTT service.  An      *)
(* action is one way through process_command; what it returns is Reply.    *)
(* Lengths are centimetres, headings multiples of ninety degrees; a        *)
(* telling of the state is the robot record itself.                        *)
(***************************************************************************)
EXTENDS SafetyGuard, Lineup, DeviceFeedback

CONSTANTS
    Tasks,      \* task ids
    CacheSize   \* cache_size

ASSUME CacheAssumption == CacheSize \in Nat \ {0}

VARIABLES
    robot,            \* _state
    results,          \* _cache: command and observation by key
    recency,          \* the order of _cache, the most recently used last
    latestSeq,        \* _latest_seq, 0 for none
    obstacleAhead     \* _obstacle_on_first_move and not _first_move_blocked

deviceVars == <<robot, results, recency, latestSeq, obstacleAhead>>

KeyOf(c) == <<c.task, c.seq>>

\* A blocked move tells that all of it remains.
BlockedFeedback(c, state) ==
    Observation("blocked", "front_obstacle", c.amount, state, NoObject)

DeviceInit(state, firstMove) ==
    /\ robot = state
    /\ results = [k \in {} |-> NoState]
    /\ recency = EmptyLine
    /\ latestSeq = [t \in Tasks |-> 0]
    /\ obstacleAhead = firstMove

\* _remember, with the least recently used entry dropped when there are too
\* many.  Stale commands are remembered without becoming the latest.
Remember(c, obs, updateLatest) ==
    LET line == Trim(Rejoin(recency, KeyOf(c)), CacheSize)
    IN  /\ recency' = line
        /\ results' = [k \in DOMAIN line |->
                         IF k = KeyOf(c) THEN [command |-> c, obs |-> obs]
                                         ELSE results[k]]
        /\ latestSeq' = IF updateLatest /\ c.seq > latestSeq[c.task]
                        THEN [latestSeq EXCEPT ![c.task] = c.seq]
                        ELSE latestSeq

-----------------------------------------------------------------------------
(* process_command.                                                        *)

\* Mutant: nothing is ever found in the cache.
NeverCached(c) == FALSE

Cached(c) == KeyOf(c) \in DOMAIN results

Conflicts(c) == Cached(c) /\ results[KeyOf(c)].command # c

ReplaysResult(c) ==
    /\ Cached(c)
    /\ ~Conflicts(c)
    /\ recency' = Rejoin(recency, KeyOf(c))
    /\ UNCHANGED <<robot, results, latestSeq, obstacleAhead>>

FindsConflict(c) ==
    /\ Conflicts(c)
    /\ recency' = Rejoin(recency, KeyOf(c))
    /\ UNCHANGED <<robot, results, latestSeq, obstacleAhead>>

FindsStale(c) ==
    LET obs == Feedback("rejected", "stale_sequence", robot)
    IN  /\ ~Cached(c)
        /\ c.seq < latestSeq[c.task]
        /\ Remember(c, obs, FALSE)
        /\ UNCHANGED <<robot, obstacleAhead>>

IsNew(c) == ~Cached(c) /\ c.seq >= latestSeq[c.task]

\* The safety layer refuses it; a blocked move uses up the obstacle of the
\* first move.
Refuses(c, expired) ==
    LET decision == SafetyCheck(c, robot, expired)
        blocked  == decision.status = "blocked"
        obs      == IF blocked THEN BlockedFeedback(c, robot)
                    ELSE Feedback(decision.status, decision.code, robot)
    IN  /\ IsNew(c)
        /\ decision.status # "allow"
        /\ obstacleAhead' = (obstacleAhead /\ ~blocked)
        /\ Remember(c, obs, TRUE)
        /\ UNCHANGED robot

MayExecute(c, expired) ==
    IsNew(c) /\ SafetyCheck(c, robot, expired).status = "allow"

\* The allowed command leaves the robot in state and is answered with obs.
Concludes(c, state, obs) ==
    /\ robot' = state
    /\ Remember(c, obs, TRUE)

\* The unit step in a direction of motion.
Heading(yaw) ==
    CASE yaw % 360 = 0   -> [x |-> 1, y |-> 0]
      [] yaw % 360 = 90  -> [x |-> 0, y |-> 1]
      [] yaw % 360 = 180 -> [x |-> -1, y |-> 0]
      [] yaw % 360 = 270 -> [x |-> 0, y |-> -1]

MoveBy(state, distance) ==
    [state EXCEPT !.x = @ + distance * Heading(state.yaw).x,
                  !.y = @ + distance * Heading(state.yaw).y]

\* Degrees in -180 .. 179.
Normal(yaw) == ((yaw + 180) % 360) - 180

\* _move: the first forward move meets an obstacle the sensors do not show.
Moves(c, expired) ==
    LET blocked == c.amount > 0 /\ obstacleAhead
        state   == IF blocked THEN robot ELSE MoveBy(robot, c.amount)
        obs     == IF blocked THEN BlockedFeedback(c, robot)
                   ELSE Feedback("success", "none", state)
    IN  /\ c.tool = "move_robot"
        /\ MayExecute(c, expired)
        /\ obstacleAhead' = (obstacleAhead /\ ~blocked)
        /\ Concludes(c, state, obs)

\* _turn: what was at the side is now in front; the sides are left as they are.
Turns(c, expired) ==
    LET state == [robot EXCEPT !.yaw = Normal(@ + c.amount),
                               !.front = IF c.amount > 0 THEN robot.left
                                         ELSE IF c.amount < 0 THEN robot.right
                                         ELSE @]
    IN  /\ c.tool = "turn_robot"
        /\ MayExecute(c, expired)
        /\ Concludes(c, state, Feedback("success", "none", state))
        /\ UNCHANGED obstacleAhead

Looks(c, expired) ==
    /\ c.tool \in {"get_robot_state", "scan_obstacles"}
    /\ MayExecute(c, expired)
    /\ Concludes(c, robot, Feedback("success", "none", robot))
    /\ UNCHANGED obstacleAhead

KnowsNoObjects(c, expired) ==
    /\ c.tool = "inspect_semantic_world"
    /\ MayExecute(c, expired)
    /\ Concludes(c, robot, Feedback("rejected", "semantic_unavailable", robot))
    /\ UNCHANGED obstacleAhead

Stops(c, expired) ==
    LET state == [robot EXCEPT !.stopped = TRUE]
    IN  /\ c.tool = "emergency_stop"
        /\ MayExecute(c, expired)
        /\ Concludes(c, state, Feedback("emergency_stop", "none", state))
        /\ UNCHANGED obstacleAhead

ProcessCommand(c, expired) ==
    \/ ReplaysResult(c)
    \/ FindsConflict(c)
    \/ FindsStale(c)
    \/ Refuses(c, expired)
    \/ Moves(c, expired)
    \/ Turns(c, expired)
    \/ Looks(c, expired)
    \/ KnowsNoObjects(c, expired)
    \/ Stops(c, expired)

\* What is returned: the result is remembered now, but for a conflict's.
Reply(c) ==
    IF Conflicts(c) THEN Feedback("rejected", "duplicate_conflict", robot)
    ELSE results'[KeyOf(c)].obs

-----------------------------------------------------------------------------
(* The operator helpers.                                                   *)

SetObstacles(front, left, right) ==
    /\ robot' = [robot EXCEPT !.front = front, !.left = left, !.right = right]
    /\ UNCHANGED <<results, recency, latestSeq, obstacleAhead>>

\* Beyond twenty degrees of roll or pitch the robot is not level.
SetPose(level) ==
    /\ robot' = [robot EXCEPT !.level = level]
    /\ UNCHANGED <<results, recency, latestSeq, obstacleAhead>>

ClearEmergencyStop ==
    /\ robot' = [robot EXCEPT !.stopped = FALSE]
    /\ UNCHANGED <<results, recency, latestSeq, obstacleAhead>>
=============================================================================
