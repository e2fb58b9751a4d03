---------------------------- MODULE FakePlanner ----------------------------
(***************************************************************************)
(* The deterministic planner.  It has no state: each decision is computed  *)
(* from the goal, the step limit and the steps taken so far, a step being  *)
(* the call that was made and the observation that answered it.  A goal is *)
(* what its text is recognised as.                                         *)
(***************************************************************************)
EXTENDS DeviceFeedback, Sequences, FiniteSets

StopClearance == 25
MinDetourClearance == 85
MaxLateralDistance == 120
DetourCallsAfterBlocked == 5

AtMost(n, bound) == IF n > bound THEN bound ELSE n

\* PlannerDecision: a tool call, or the verdict that ends the run.
Call(tool, amount) ==
    [kind |-> "call", tool |-> tool, amount |-> amount, verdict |-> "none"]

Finish(verdict) ==
    [kind |-> "final", tool |-> "none", amount |-> 0, verdict |-> verdict]

\* An inspect_semantic_world call names its target: 1 is the red bottle, 2 the
\* blue goal zone.
Targets == 1 .. 2

LastStep(steps) == steps[Len(steps)]

BlockedSteps(steps) == {i \in DOMAIN steps : steps[i].obs.status = "blocked"}

FirstOf(S) == CHOOSE i \in S : \A j \in S : i <= j

\* The first call, by what the goal asks for.
Opening(goal) ==
    [emergency |-> Call("emergency_stop", 0),
     state     |-> Call("get_robot_state", 0),
     scan      |-> Call("scan_obstacles", 0),
     fast      |-> Call("move_robot", 1000),
     move      |-> Call("move_robot", AtMost(goal.amount, 200))][goal.kind]

\* Mutant: the budget forgets the decision after the last call.
NoBudgetBarely(steps, limit) == Len(steps) + DetourCallsAfterBlocked > limit

\* A detour needs five more calls and, after them, one more decision.
NoBudget(steps, limit) == Len(steps) + DetourCallsAfterBlocked >= limit

\* Mutant: the whole distance is moved again behind the obstacle.
WholeDistance(step) == step.call.amount

Remaining(step) == step.obs.remaining

\* The calls behind the scan: turn to the wider side, move aside, turn back,
\* move what was left.
WiderSide(scan) == IF scan.left >= scan.right THEN 90 ELSE -90

Clearance(scan) == IF WiderSide(scan) > 0 THEN scan.left ELSE scan.right

Legs(scan, left) ==
    <<Call("turn_robot", WiderSide(scan)),
      Call("move_robot", AtMost(MaxLateralDistance, Clearance(scan) - StopClearance)),
      Call("turn_robot", -WiderSide(scan)),
      Call("move_robot", left)>>

\* There is nothing to go around for, no scan or no room.
NoWay(steps, b) ==
    \/ Remaining(steps[b]) <= 0
    \/ Len(steps) = b
    \/ steps[b + 1].call.tool # "scan_obstacles"
    \/ steps[b + 1].obs.state = NoState
    \/ Clearance(steps[b + 1].obs.state) < MinDetourClearance

\* _plan_detour behind step b, which was blocked.  resume is the target to look
\* for afterwards, 0 if none.
PlanDetour(steps, b, resume) ==
    LET taken == Len(steps) - b
    IN  IF NoWay(steps, b) THEN Finish("rejected")
        ELSE IF taken <= 4
             THEN Legs(steps[b + 1].obs.state, Remaining(steps[b]))[taken]
        ELSE IF taken = 5 /\ LastStep(steps).obs.status = "success"
             THEN IF resume = 0 THEN Finish("success")
                                ELSE Call("inspect_semantic_world", resume)
        ELSE Finish("rejected")

\* _semantic_progress: how many targets were seen within reach, in their order.
Confirms(step, target) ==
    /\ step.call.tool = "inspect_semantic_world"
    /\ step.call.amount = target
    /\ step.obs.object # NoObject
    /\ step.obs.object.within

Progress(steps) ==
    LET bottle == {i \in DOMAIN steps : Confirms(steps[i], 1)}
        zone   == {j \in DOMAIN steps : /\ Confirms(steps[j], 2)
                                        /\ \E i \in bottle : i < j}
    IN  Cardinality({t \in Targets : <<bottle, zone>>[t] # {}})

\* What to do about the object the last query found.
Approach(object, target) ==
    IF object = NoObject THEN Finish("rejected")
    ELSE IF object.within THEN Call("inspect_semantic_world", target)
    ELSE IF object.bearing # 0 THEN Call("turn_robot", object.bearing)
    ELSE IF object.distance <= object.radius THEN Finish("rejected")
    ELSE Call("move_robot", AtMost(object.distance - object.radius, 200))

Resumed(steps, b) ==
    \E i \in b + 1 .. Len(steps) : steps[i].call.tool = "inspect_semantic_world"

\* _plan_semantic.  The verdicts of observations come first; a blocked move is
\* given to _plan_detour at once, without the scan that a plain goal asks for.
PlanSemantic(steps, limit) ==
    LET blocked == BlockedSteps(steps)
        target  == Progress(steps) + 1
    IN  IF target > 2 THEN Finish("success")
        ELSE IF /\ steps # <<>>
                /\ LastStep(steps).obs.status
                      \in {"emergency_stop", "timeout", "rejected"}
             THEN Finish(LastStep(steps).obs.status)
        ELSE IF Cardinality(blocked) > 1 THEN Finish("rejected")
        ELSE IF blocked # {} /\ ~Resumed(steps, FirstOf(blocked))
             THEN IF NoBudget(steps, limit) THEN Finish("step_limit")
                  ELSE PlanDetour(steps, FirstOf(blocked), target)
        ELSE IF Len(steps) >= limit - 1 THEN Finish("step_limit")
        ELSE IF steps = <<>> \/ LastStep(steps).call.tool # "inspect_semantic_world"
             THEN Call("inspect_semantic_world", target)
        ELSE Approach(LastStep(steps).obs.object, target)

\* The rest of plan: every other goal is one call and, if it is blocked, one
\* detour.
PlanGoal(goal, steps, limit) ==
    LET blocked == BlockedSteps(steps)
        status  == LastStep(steps).obs.status
    IN  IF steps = <<>> THEN Opening(goal)
        ELSE IF status \in {"rejected", "timeout", "emergency_stop"}
             THEN Finish(status)
        ELSE IF status = "blocked"
             THEN IF Cardinality(blocked) > 1 THEN Finish("rejected")
                  ELSE IF NoBudget(steps, limit) THEN Finish("step_limit")
                  ELSE Call("scan_obstacles", 0)
        ELSE IF blocked # {} THEN PlanDetour(steps, FirstOf(blocked), 0)
        ELSE Finish("success")

Plan(goal, steps, limit) ==
    IF goal.kind = "unsupported" THEN Finish("rejected")
    ELSE IF goal.kind = "semantic" THEN PlanSemantic(steps, limit)
    ELSE PlanGoal(goal, steps, limit)
=============================================================================
