------------------------ MODULE PlannedMissionProofs ------------------------
(***************************************************************************)
(* What holds of every goal, limit, scene and disturbance.                 *)
(* DetourFits: the step limit ends no run in the middle of a detour.  What *)
(* the device answers is left open, the argument rests on the planner's    *)
(* budget alone.                                                           *)
(* PoseExplained: the robot is where the run's answers led it.  A command  *)
(* is executed once, because the device remembers what it answered, and at *)
(* most one is ever without an answer.                                     *)
(* SuccessEarned: a mission to move that ends with success has moved that  *)
(* far.  Its calls are those of a script, of which the answers tell where  *)
(* it led.                                                                 *)
(***************************************************************************)
EXTENDS PlannedMission, FiniteSetTheorems, WellFoundedInduction, TLAPS

\* What is said of the steps s of a run, its limit l and its goal g.

\* Behind a blocked step there is room for the detour and the decision after
\* it, and no more steps were taken than a detour has.
Roomy(s, l) ==
    \A i \in BlockedSteps(s) :
        i < Len(s) => i + 5 < l /\ Len(s) <= i + 5

\* There is room for one more step of the detour.
RoomForMore(s, l) ==
    \A i \in BlockedSteps(s) : i + 5 < l /\ Len(s) < i + 5

\* A semantic mission never goes on behind a blocked step: when it acts, it
\* has none.
StopsWhereBlocked(g, s) ==
    g.kind = "semantic" => \A i \in BlockedSteps(s) : i = Len(s)

Unblocked(g, s) == g.kind = "semantic" => BlockedSteps(s) = {}

\* Only the last step, if any, was blocked.
LastOnly(s) == \A i \in BlockedSteps(s) : i = Len(s)

\* The inductive invariant.
Budgeted ==
    /\ limit \in Nat
    /\ \E X : steps \in Seq(X)
    /\ node \in {"planner", "decide"} => Roomy(steps, limit) /\ StopsWhereBlocked(goal, steps)
    /\ node \in {"execute", "wait"} => RoomForMore(steps, limit) /\ Unblocked(goal, steps)
    /\ node # "end" => verdict # "step_limit"
    /\ DetourFits

-----------------------------------------------------------------------------
(* The planner.                                                            *)

\* Indices of steps, the first of some and one that is alone.
LEMMA FirstIsFirst ==
    ASSUME NEW S, S \subseteq Nat, S # {}
    PROVE  FirstOf(S) \in S /\ \A j \in S : FirstOf(S) <= j
  <1> DEFINE less == {pair \in Nat \X Nat : pair[1] < pair[2]}
  <1>1. IsWellFoundedOn(less, Nat)
    BY NatLessThanWellFounded DEF OpToRel
  <1>2. ASSUME NEW m \in Nat, NEW n \in Nat, <<m, n>> \notin less
        PROVE  ~(m < n)
    <2>1. <<m, n>> \in Nat \X Nat /\ <<m, n>>[1] = m /\ <<m, n>>[2] = n
      OBVIOUS
    <2> QED BY <2>1, <1>2
  <1> HIDE DEF less
  <1>3. PICK i \in S : \A j \in S : <<j, i>> \notin less
    BY <1>1, WFMin
  <1>4. ASSUME NEW j \in S
        PROVE  i <= j
    <2>1. i \in Nat /\ j \in Nat
      OBVIOUS
    <2>2. ~(j < i)
      BY <1>2, <1>3, <2>1
    <2> QED BY <2>1, <2>2
  <1> QED BY <1>4 DEF FirstOf

LEMMA AtMostOne ==
    ASSUME NEW S, IsFiniteSet(S), ~(Cardinality(S) > 1), NEW a \in S, NEW b \in S
    PROVE  a = b
  <1> SUFFICES ASSUME a # b PROVE FALSE
    OBVIOUS
  <1>1. IsFiniteSet(S \ {a}) /\ Cardinality(S \ {a}) = Cardinality(S) - 1
    BY FS_RemoveElement
  <1>2. Cardinality(S) \in Nat /\ Cardinality(S \ {a}) \in Nat
    BY <1>1, FS_CardinalityType
  <1>3. Cardinality(S \ {a}) = 0
    BY <1>1, <1>2
  <1>4. S \ {a} = {}
    BY <1>1, <1>3, FS_EmptySet
  <1> QED BY <1>4

LEMMA BlockedIndices ==
    ASSUME NEW X, NEW s \in Seq(X)
    PROVE  /\ BlockedSteps(s) \subseteq 1 .. Len(s)
           /\ IsFiniteSet(BlockedSteps(s))
           /\ Len(s) \in Nat
  <1>1. BlockedSteps(s) \subseteq 1 .. Len(s) /\ Len(s) \in Nat
    BY DEF BlockedSteps
  <1>2. IsFiniteSet(1 .. Len(s))
    BY <1>1, FS_Interval
  <1> QED BY <1>1, <1>2, FS_Subset

\* A detour ends the run with another verdict, or takes one of its four steps;
\* at the blocked step itself there is no scan, so it ends the run.
LEMMA DetourSteps ==
    ASSUME NEW X, NEW s \in Seq(X), NEW b \in 1 .. Len(s), NEW resume
    PROVE  LET next == PlanDetour(s, b, resume)
           IN  \/ next.kind = "final" /\ next.verdict # "step_limit"
               \/ /\ next.kind = "call"
                  /\ b < Len(s)
                  /\ resume = 0 => Len(s) < b + 5
  <1> DEFINE taken == Len(s) - b
  <1>1. taken \in Nat
    OBVIOUS
  <1>2. \A v \in {"rejected", "success"} :
            Finish(v).kind = "final" /\ Finish(v).verdict # "step_limit"
    BY DEF Finish
  <1>3. \A t, a : Call(t, a).kind = "call"
    BY DEF Call
  <1>4. CASE NoWay(s, b)
    BY <1>2, <1>4 DEF PlanDetour
  <1>5. CASE ~NoWay(s, b) /\ taken <= 4
    <2>1. b < Len(s) /\ Len(s) < b + 5 /\ taken \in 1 .. 4
      BY <1>1, <1>5 DEF NoWay
    <2>2. \A scan, left : \A n \in 1 .. 4 : Legs(scan, left)[n].kind = "call"
      BY <1>3 DEF Legs
    <2>3. PlanDetour(s, b, resume).kind = "call"
      BY <1>5, <2>1, <2>2 DEF PlanDetour
    <2> QED BY <2>1, <2>3
  <1>6. CASE ~NoWay(s, b) /\ ~(taken <= 4)
    <2>1. b < Len(s)
      BY <1>1, <1>6
    <2>2. \/ PlanDetour(s, b, resume) \in {Finish("rejected"), Finish("success")}
          \/ resume # 0 /\ PlanDetour(s, b, resume) = Call("inspect_semantic_world", resume)
      BY <1>6 DEF PlanDetour
    <2> QED BY <1>2, <1>3, <2>1, <2>2
  <1> QED BY <1>4, <1>5, <1>6

\* What the planner decides for a run with this much room.
Fits(g, s, l, next) ==
    /\ next.kind = "final" /\ next.verdict = "step_limit" => LastOnly(s)
    /\ next.kind # "final" => RoomForMore(s, l) /\ Unblocked(g, s)

\* A decision that ends the run otherwise fits in any case.
LEMMA OtherEnds ==
    ASSUME NEW g, NEW s, NEW l, NEW v, v # "step_limit"
    PROVE  Fits(g, s, l, Finish(v))
  BY DEF Fits, Finish

\* Nothing is blocked: every decision fits.
LEMMA NoneBlocked ==
    ASSUME NEW g, NEW s, NEW l, NEW next, BlockedSteps(s) = {}
    PROVE  Fits(g, s, l, next)
  BY DEF Fits, LastOnly, RoomForMore, Unblocked

LEMMA GoalFits ==
    ASSUME NEW X, NEW s \in Seq(X), NEW l \in Nat, NEW g,
           Roomy(s, l), g.kind # "semantic"
    PROVE  Fits(g, s, l, PlanGoal(g, s, l))
  <1> DEFINE blocked == BlockedSteps(s)
             status  == LastStep(s).obs.status
             next    == PlanGoal(g, s, l)
  <1>1. blocked \subseteq 1 .. Len(s) /\ IsFiniteSet(blocked) /\ Len(s) \in Nat
    BY BlockedIndices
  <1>2. CASE blocked = {}
    BY <1>2, NoneBlocked
  <1>3. CASE blocked # {} /\ status \in {"rejected", "timeout", "emergency_stop"}
    <2>1. s # <<>>
      BY <1>1, <1>3
    <2>2. next = Finish(status)
      BY <1>3, <2>1 DEF PlanGoal
    <2> QED BY <1>3, <2>2, OtherEnds
  <1>4. CASE blocked # {} /\ status = "blocked"
    <2>1. s # <<>> /\ Len(s) \in blocked
      BY <1>1, <1>4 DEF BlockedSteps, LastStep
    <2>2. CASE Cardinality(blocked) > 1
      <3>1. next = Finish("rejected")
        BY <1>4, <2>1, <2>2 DEF PlanGoal
      <3> QED BY <3>1, OtherEnds
    <2>3. CASE ~(Cardinality(blocked) > 1)
      <3>1. LastOnly(s)
        BY <1>1, <2>1, <2>3, AtMostOne DEF LastOnly
      <3>2. CASE NoBudget(s, l)
        <4>1. next = Finish("step_limit")
          BY <1>4, <2>1, <2>3, <3>2 DEF PlanGoal
        <4> QED BY <3>1, <4>1 DEF Fits, Finish
      <3>3. CASE ~NoBudget(s, l)
        <4>1. Len(s) + 5 < l
          BY <1>1, <3>3 DEF NoBudget, DetourCallsAfterBlocked
        <4>2. RoomForMore(s, l)
          BY <1>1, <3>1, <4>1 DEF RoomForMore, LastOnly
        <4>3. next = Call("scan_obstacles", 0)
          BY <1>4, <2>1, <2>3, <3>3 DEF PlanGoal
        <4> QED BY <4>2, <4>3 DEF Fits, Call, Unblocked
      <3> QED BY <3>2, <3>3
    <2> QED BY <2>2, <2>3
  <1>5. CASE /\ blocked # {}
             /\ status \notin {"rejected", "timeout", "emergency_stop", "blocked"}
    <2> DEFINE b == FirstOf(blocked)
    <2>1. s # <<>> /\ Len(s) \notin blocked
      BY <1>1, <1>5 DEF BlockedSteps, LastStep
    <2>2. b \in blocked /\ \A j \in blocked : b <= j
      BY <1>1, <1>5, FirstIsFirst
    <2>3. next = PlanDetour(s, b, 0)
      BY <1>5, <2>1 DEF PlanGoal
    <2> HIDE DEF b, next, blocked
    <2>4. b \in 1 .. Len(s)
      BY <1>1, <2>2
    <2>5. \/ next.kind = "final" /\ next.verdict # "step_limit"
          \/ next.kind = "call" /\ Len(s) < b + 5
      BY <2>3, <2>4, DetourSteps
    <2>6. ASSUME Len(s) < b + 5
          PROVE  RoomForMore(s, l)
      <3>1. \A i \in blocked : i < Len(s) /\ i + 5 < l
        BY <1>1, <2>1 DEF Roomy, blocked
      <3>2. \A i \in blocked : Len(s) < i + 5
        BY <1>1, <2>2, <2>4, <2>6
      <3> QED BY <3>1, <3>2 DEF RoomForMore, blocked
    <2>7. Fits(g, s, l, next)
      BY <2>5, <2>6 DEF Fits, Unblocked
    <2> QED BY <2>7 DEF next
  <1> QED BY <1>2, <1>3, <1>4, <1>5

LEMMA SemanticFits ==
    ASSUME NEW X, NEW s \in Seq(X), NEW l \in Nat, NEW g,
           StopsWhereBlocked(g, s), g.kind = "semantic"
    PROVE  Fits(g, s, l, PlanSemantic(s, l))
  <1> DEFINE blocked == BlockedSteps(s)
             target  == Progress(s) + 1
             status  == LastStep(s).obs.status
             next    == PlanSemantic(s, l)
  <1>1. blocked \subseteq 1 .. Len(s) /\ IsFiniteSet(blocked) /\ Len(s) \in Nat
    BY BlockedIndices
  <1>2. LastOnly(s)
    BY DEF StopsWhereBlocked, LastOnly
  <1>3. CASE blocked = {}
    BY <1>3, NoneBlocked
  <1>4. CASE blocked # {}
    <2>1. s # <<>> /\ FirstOf(blocked) = Len(s)
      BY <1>1, <1>2, <1>4, FirstIsFirst DEF LastOnly
    <2>2. ~Resumed(s, Len(s))
      BY <1>1 DEF Resumed
    <2>3. PlanDetour(s, Len(s), target) = Finish("rejected")
      BY DEF PlanDetour, NoWay
    <2>4. \/ next = Finish("success")
          \/ status \in {"emergency_stop", "timeout", "rejected"} /\ next = Finish(status)
          \/ next = Finish("rejected")
          \/ next = Finish("step_limit")
      BY <1>4, <2>1, <2>2, <2>3 DEF PlanSemantic
    <2>5. Fits(g, s, l, Finish("step_limit"))
      BY <1>2 DEF Fits, Finish
    <2> HIDE DEF status, next
    <2> QED BY <2>4, <2>5, OtherEnds DEF next
  <1> QED BY <1>3, <1>4

LEMMA PlanFits ==
    ASSUME NEW X, NEW s \in Seq(X), NEW l \in Nat, NEW g,
           Roomy(s, l), StopsWhereBlocked(g, s)
    PROVE  Fits(g, s, l, Plan(g, s, l))
  BY GoalFits, SemanticFits, OtherEnds DEF Plan

-----------------------------------------------------------------------------
(* The run.                                                                *)

\* A step that is taken with room for it leaves what the next decision needs.
LEMMA StepsFit ==
    ASSUME Budgeted, node \in {"execute", "wait"}, NEW obs, FinishStep(obs),
           UNCHANGED setting
    PROVE  Budgeted'
  <1> DEFINE step == [call |-> [tool |-> call.tool, amount |-> call.amount],
                      obs |-> obs]
  <1>1. PICK X : steps \in Seq(X)
    BY DEF Budgeted
  <1>2. steps' = Append(steps, step) /\ node' = "decide" /\ verdict' = verdict
        /\ goal' = goal /\ limit' = limit
    BY DEF FinishStep, setting
  <1> HIDE DEF step
  <1>3. steps' \in Seq(X \cup {step})
    <2>1. steps \in Seq(X \cup {step})
      BY <1>1
    <2> QED BY <1>2, <2>1
  <1>4. /\ Len(steps) \in Nat /\ Len(steps') = Len(steps) + 1
        /\ \A i \in 1 .. Len(steps) : steps'[i] = steps[i]
    BY <1>1, <1>2
  <1>5. \A i \in BlockedSteps(steps') : i < Len(steps') => i \in BlockedSteps(steps)
    BY <1>1, <1>3, <1>4 DEF BlockedSteps
  <1>6. BlockedSteps(steps') \subseteq 1 .. Len(steps')
    BY <1>3, BlockedIndices
  <1>7. RoomForMore(steps, limit) /\ Unblocked(goal, steps) /\ verdict # "step_limit"
    BY DEF Budgeted
  <1>8. Roomy(steps', limit')
    BY <1>2, <1>4, <1>5, <1>6, <1>7 DEF Roomy, RoomForMore
  <1>9. StopsWhereBlocked(goal', steps')
    BY <1>2, <1>4, <1>5, <1>6, <1>7 DEF StopsWhereBlocked, Unblocked
  <1> QED BY <1>2, <1>3, <1>7, <1>8, <1>9 DEF Budgeted, DetourFits

LEMMA PlansFit ==
    ASSUME Budgeted, Plans
    PROVE  Budgeted'
  <1> DEFINE next == IF Len(steps) >= limit THEN Finish("step_limit")
                     ELSE Plan(goal, steps, limit)
  <1>1. PICK X : steps \in Seq(X)
    BY DEF Budgeted
  <1>2. node = "planner" /\ limit \in Nat /\ Roomy(steps, limit)
        /\ StopsWhereBlocked(goal, steps) /\ verdict # "step_limit"
    BY DEF Budgeted, Plans
  <1>3. Fits(goal, steps, limit, next)
    <2>1. CASE Len(steps) >= limit
      <3>1. Len(steps) \in Nat /\ BlockedSteps(steps) \subseteq 1 .. Len(steps)
        BY <1>1, BlockedIndices
      <3>2. LastOnly(steps)
        BY <1>2, <2>1, <3>1 DEF Roomy, LastOnly
      <3> QED BY <2>1, <3>2 DEF Fits, Finish
    <2>2. CASE ~(Len(steps) >= limit)
      BY <1>1, <1>2, <2>2, PlanFits
    <2> QED BY <2>1, <2>2
  <1>4. /\ IF next.kind = "final"
           THEN node' = "end" /\ verdict' = next.verdict
           ELSE node' = "execute" /\ verdict' = verdict
        /\ goal' = goal /\ limit' = limit /\ steps' = steps
    BY DEF Plans, EndWith, setting
  <1> HIDE DEF next
  <1>5. CASE next.kind = "final"
    BY <1>1, <1>2, <1>3, <1>4, <1>5 DEF Budgeted, DetourFits, Fits, LastOnly
  <1>6. CASE next.kind # "final"
    BY <1>1, <1>2, <1>3, <1>4, <1>6 DEF Budgeted, DetourFits, Fits
  <1> QED BY <1>5, <1>6

LEMMA DecisionFits ==
    ASSUME Budgeted, Decides
    PROVE  Budgeted'
  <1>1. goal' = goal /\ limit' = limit /\ steps' = steps /\ node = "decide"
    BY DEF Decides, setting
  <1>2. \/ node' = "planner" /\ verdict' = verdict
        \/ node' = "end" /\ verdict' # "step_limit"
    BY DEF Decides, EndWith, Outcome
  <1> QED BY <1>1, <1>2 DEF Budgeted, DetourFits

LEMMA InitBudgeted == Init => Budgeted
  <1> SUFFICES ASSUME Init PROVE Budgeted
    OBVIOUS
  <1>1. steps = <<>> /\ node = "planner" /\ verdict = "none" /\ limit \in Nat
    BY MissionAssumption DEF Init
  <1>2. steps \in Seq({})
    BY <1>1
  <1>3. BlockedSteps(steps) = {}
    BY <1>1 DEF BlockedSteps
  <1> QED BY <1>1, <1>2, <1>3 DEF Budgeted, DetourFits, Roomy, StopsWhereBlocked

LEMMA NextBudgeted == Budgeted /\ [Next]_vars => Budgeted'
  <1> SUFFICES ASSUME Budgeted, [Next]_vars PROVE Budgeted'
    OBVIOUS
  <1>1. CASE Plans
    BY <1>1, PlansFit
  <1>2. CASE RefusesLocally
    BY <1>2, StepsFit DEF RefusesLocally
  <1>3. CASE Publishes
    BY <1>3 DEF Publishes, setting, Budgeted, DetourFits
  <1>4. CASE TimesOut
    BY <1>4, StepsFit DEF TimesOut
  <1>5. CASE Decides
    BY <1>5, DecisionFits
  <1>6. CASE Delivers
    <2>1. node \in {"execute", "wait"} /\ UNCHANGED setting
      BY <1>6 DEF Delivers
    <2>2. FinishStep(Reply(Command))
      BY <1>6 DEF Delivers
    <2> QED BY <1>6, <2>1, <2>2, StepsFit
  <1>7. CASE \/ DeliversInVain \/ ForeignCommand \/ DeadlinePasses \/ Harness
             \/ UNCHANGED vars
    <2>1. UNCHANGED graphVars
      BY <1>7 DEF DeliversInVain, ForeignCommand, DeadlinePasses, Harness, vars
    <2>2. UNCHANGED setting
      BY <1>7 DEF DeliversInVain, ForeignCommand, DeadlinePasses, Harness, vars
    <2> QED BY <2>1, <2>2 DEF graphVars, setting, Budgeted, DetourFits
  <1> QED BY <1>1, <1>2, <1>3, <1>4, <1>5, <1>6, <1>7 DEF Next

\* A run always has the room its detour needs, for every goal, limit and
\* device, and whatever the device answers or fails to answer.
THEOREM BudgetInductive == Spec => []Budgeted
  BY InitBudgeted, NextBudgeted, PTL DEF Spec

\* The step limit never ends a run in the middle of a detour.
THEOREM DetourFitsHolds == Spec => []DetourFits
  <1>1. Budgeted => DetourFits
    BY DEF Budgeted
  <1> QED BY <1>1, BudgetInductive, PTL

-----------------------------------------------------------------------------
(* Where the robot is: the invariant.                                      *)

\* What is called, told and taken.
Tools == {"move_robot", "turn_robot", "scan_obstacles", "get_robot_state",
          "inspect_semantic_world", "emergency_stop"}

Calls == {c \in [tool : Tools, amount : Int] :
             c.tool = "turn_robot" => c.amount \in Quarters}

Statuses == {"success", "blocked", "rejected", "timeout", "emergency_stop"}

StatesTold == RobotStates \cup {NoState}

ObjectsTold == Objects \cup {NoObject}

DeviceCodes == {"none", "deadline_expired", "emergency_stopped", "unsafe_pose",
                "dangerous_parameter", "front_obstacle", "stale_sequence",
                "semantic_unavailable"}

Codes == DeviceCodes \cup {"mqtt_response_timeout"}

Observations == [status : Statuses, code : Codes, remaining : Int,
                 state : StatesTold, object : ObjectsTold]

\* Only a move is ever blocked.
StepsTaken ==
    {step \in [call : Calls, obs : Observations] :
        step.obs.status = "blocked" => step.call.tool = "move_robot"}

Places == [x : Int, y : Int, yaw : Quarters]

CallOf(c) == [tool |-> c.tool, amount |-> c.amount]

Step(c, obs) == [call |-> CallOf(c), obs |-> obs]

\* The keys of the commands that a run of l steps and the others may send.
RunKeys(l) ==
    {KeyOf(c) : c \in Foreign} \cup {<<Mission, i>> : i \in 1 .. l}

CacheHolds(l) ==
    IsFiniteSet(RunKeys(l)) /\ Cardinality(RunKeys(l)) <= CacheSize

Types ==
    /\ robot \in RobotStates /\ scene.robot \in RobotStates
    /\ known \in StatesTold
    /\ goal.kind \in GoalKinds /\ goal.amount \in Int
    /\ node \in {"planner", "execute", "wait", "decide", "end"}
    /\ steps \in Seq(StepsTaken)
    /\ limit \in Nat /\ Len(steps) <= limit
    /\ node \in {"execute", "wait"} => CallOf(call) \in Calls /\ Len(steps) < limit

\* The cache: its keys have a place each, and there is room for all.
Cache ==
    /\ CacheHolds(limit)
    /\ DOMAIN results = DOMAIN recency
    /\ DOMAIN recency \subseteq RunKeys(limit)
    /\ \A k \in DOMAIN recency : recency[k] \in Nat \ {0}

\* The command of step i, and whether its answer was given up.
CommandOf(i) == [task |-> Mission, seq |-> i, tool |-> steps[i].call.tool,
                 amount |-> steps[i].call.amount]

GaveUp(i) == steps[i].obs.code = "mqtt_response_timeout"

\* A command that was sent is that of a step or the one that is waited for.
Sending ==
    /\ node = "wait" => Command \in sent
    /\ \A c \in sent :
          \/ c.seq \in 1 .. Len(steps) /\ c = CommandOf(c.seq)
          \/ node = "wait" /\ c = Command

\* Only the last step may lack its answer, and the run ends with it.
Answers ==
    /\ node # "end" => verdict # "success"
    /\ \A i \in 1 .. Len(steps) :
          GaveUp(i) => /\ i = Len(steps)
                       /\ steps[i].obs.status = "timeout"
                       /\ node \in {"decide", "end"}
                       /\ verdict # "success"

\* A command without an answer, and one that was executed all the same.
Open(c) == c.seq > Len(steps) \/ GaveUp(c.seq)

Executed(c) == Cached(c) /\ Open(c)

\* What was answered is remembered, and only what was sent is.
Remembering ==
    /\ \A c \in sent : ~Open(c) => Cached(c)
    /\ \A c \in sent : Cached(c) =>
          /\ results[KeyOf(c)].command = c
          /\ results[KeyOf(c)].obs.code \in DeviceCodes
          /\ Step(c, results[KeyOf(c)].obs) \in StepsTaken
    /\ \A i \in Nat : <<Mission, i>> \in DOMAIN results => \E c \in sent : c.seq = i

\* f gives the place behind each of the steps s.
IsWay(f, start, s) ==
    f = [i \in 0 .. Len(s) |-> IF i = 0 THEN start ELSE Traverse(f[i - 1], s[i])]

HasWay(start, s) == \E f : IsWay(f, start, s)

\* The robot is where its answered steps led, and one step further if the
\* command without an answer was executed.
Located ==
    LET told == LedTo(Place(scene.robot), steps)
    IN  /\ HasWay(Place(scene.robot), steps)
        /\ told \in Places
        /\ (\A c \in sent : ~Executed(c)) => SamePlace(Place(robot), told)
        /\ \A c \in sent :
              Executed(c) => SamePlace(Place(robot),
                                       Traverse(told, Step(c, results[KeyOf(c)].obs)))

Explained ==
    Types /\ Cache /\ Sending /\ Answers /\ Remembering /\ Located

-----------------------------------------------------------------------------
(* The cache as long as there is room for every key.                       *)

Placed(line) == \A x \in DOMAIN line : line[x] \in Nat \ {0}

LEMMA LeavePlaced ==
    ASSUME NEW line, Placed(line), NEW x
    PROVE  DOMAIN Leave(line, {x}) = DOMAIN line \ {x} /\ Placed(Leave(line, {x}))
  <1> DEFINE lower(y) == {z \in {x} \cap DOMAIN line : line[z] < line[y]}
  <1>1. DOMAIN Leave(line, {x}) = DOMAIN line \ {x}
    BY DEF Leave
  <1>2. ASSUME NEW y \in DOMAIN line \ {x}
        PROVE  line[y] - Cardinality(lower(y)) \in Nat \ {0}
    <2>1. line[y] \in Nat \ {0}
      BY DEF Placed
    <2>2. CASE x \in DOMAIN line /\ line[x] < line[y]
      <3>1. lower(y) = {x} /\ line[x] \in Nat \ {0}
        BY <2>2 DEF Placed
      <3>2. Cardinality({x}) = 1
        BY FS_Singleton
      <3>3. Cardinality(lower(y)) = 1
        BY <3>1, <3>2
      <3> HIDE DEF lower
      <3> QED BY <2>1, <2>2, <3>1, <3>3
    <2>3. CASE ~(x \in DOMAIN line /\ line[x] < line[y])
      <3>1. lower(y) = {}
        BY <2>3
      <3>2. Cardinality({}) = 0
        BY FS_EmptySet
      <3>3. Cardinality(lower(y)) = 0
        BY <3>1, <3>2
      <3> HIDE DEF lower
      <3> QED BY <2>1, <3>3
    <2> QED BY <2>2, <2>3
  <1>3. \A y \in DOMAIN line \ {x} : Leave(line, {x})[y] = line[y] - Cardinality(lower(y))
    BY DEF Leave
  <1> HIDE DEF lower
  <1> QED BY <1>1, <1>2, <1>3 DEF Placed

LEMMA RejoinPlaced ==
    ASSUME NEW line, Placed(line), IsFiniteSet(DOMAIN line), NEW x
    PROVE  DOMAIN Rejoin(line, x) = DOMAIN line \cup {x} /\ Placed(Rejoin(line, x))
  <1> DEFINE rest == Leave(line, {x})
  <1>1. DOMAIN rest = DOMAIN line \ {x} /\ Placed(rest)
    BY LeavePlaced
  <1>2. IsFiniteSet(DOMAIN line \ {x})
    BY FS_Difference
  <1>3. Cardinality(DOMAIN rest) \in Nat
    BY <1>1, <1>2, FS_CardinalityType
  <1> HIDE DEF rest
  <1>4. DOMAIN Join(rest, x) = DOMAIN line \cup {x} /\ Placed(Join(rest, x))
    BY <1>1, <1>3 DEF Join, Placed
  <1> QED BY <1>4 DEF Rejoin, rest

\* Nothing is evicted.
LEMMA TrimPlaced ==
    ASSUME NEW line, Placed(line), NEW size \in Nat, IsFiniteSet(DOMAIN line),
           Cardinality(DOMAIN line) <= size
    PROVE  DOMAIN Trim(line, size) = DOMAIN line /\ Placed(Trim(line, size))
  <1> DEFINE gone == {x \in DOMAIN line : line[x] <= Cardinality(DOMAIN line) - size}
  <1>1. Cardinality(DOMAIN line) \in Nat
    BY FS_CardinalityType
  <1>2. gone = {}
    BY <1>1 DEF Placed
  <1>3. \A y \in DOMAIN line : {z \in gone \cap DOMAIN line : line[z] < line[y]} = {}
    BY <1>2
  <1>4. Cardinality({}) = 0
    BY FS_EmptySet
  <1>5. Trim(line, size) = Leave(line, gone)
    BY DEF Trim
  <1> HIDE DEF gone
  <1>6. DOMAIN Leave(line, gone) = DOMAIN line
    BY <1>2 DEF Leave
  <1>7. \A y \in DOMAIN line :
            Leave(line, gone)[y]
              = line[y] - Cardinality({z \in gone \cap DOMAIN line : line[z] < line[y]})
    BY <1>2 DEF Leave
  <1>8. \A y \in DOMAIN line : Leave(line, gone)[y] = line[y] - 0
    BY <1>3, <1>4, <1>7
  <1>9. \A y \in DOMAIN line : Leave(line, gone)[y] \in Nat \ {0}
    BY <1>8 DEF Placed
  <1> QED BY <1>5, <1>6, <1>9 DEF Placed

\* A key of the run is looked up or entered, and the others stay.
LEMMA RejoinKeeps ==
    ASSUME Cache, NEW k \in RunKeys(limit)
    PROVE  LET line == Rejoin(recency, k)
           IN  /\ DOMAIN line = DOMAIN recency \cup {k}
               /\ Placed(line)
               /\ IsFiniteSet(DOMAIN line)
               /\ Cardinality(DOMAIN line) <= CacheSize
  <1> DEFINE line == Rejoin(recency, k)
  <1>1. DOMAIN recency \subseteq RunKeys(limit) /\ IsFiniteSet(RunKeys(limit))
        /\ Placed(recency) /\ Cardinality(RunKeys(limit)) <= CacheSize
    BY DEF Cache, CacheHolds, Placed
  <1>2. IsFiniteSet(DOMAIN recency)
    BY <1>1, FS_Subset
  <1>3. DOMAIN line = DOMAIN recency \cup {k} /\ Placed(line)
    BY <1>1, <1>2, RejoinPlaced
  <1>4. DOMAIN line \subseteq RunKeys(limit)
    BY <1>1, <1>3
  <1>5. IsFiniteSet(DOMAIN line) /\ Cardinality(DOMAIN line) <= Cardinality(RunKeys(limit))
    BY <1>1, <1>4, FS_Subset
  <1>6. Cardinality(DOMAIN line) \in Nat /\ Cardinality(RunKeys(limit)) \in Nat
    BY <1>1, <1>5, FS_CardinalityType
  <1>7. Cardinality(DOMAIN line) <= CacheSize
    BY <1>1, <1>5, <1>6, CacheAssumption
  <1> QED BY <1>3, <1>5, <1>7

LEMMA RememberKeeps ==
    ASSUME Cache, NEW c, KeyOf(c) \in RunKeys(limit), NEW obs, NEW newest,
           Remember(c, obs, newest)
    PROVE  /\ DOMAIN recency' = DOMAIN recency \cup {KeyOf(c)}
           /\ Placed(recency')
           /\ results' = [k \in DOMAIN results \cup {KeyOf(c)} |->
                            IF k = KeyOf(c) THEN [command |-> c, obs |-> obs]
                                            ELSE results[k]]
  <1> DEFINE line == Rejoin(recency, KeyOf(c))
  <1>1. /\ DOMAIN line = DOMAIN recency \cup {KeyOf(c)}
        /\ Placed(line) /\ IsFiniteSet(DOMAIN line)
        /\ Cardinality(DOMAIN line) <= CacheSize
    BY RejoinKeeps
  <1>2. recency' = Trim(line, CacheSize)
        /\ results' = [k \in DOMAIN recency' |->
                         IF k = KeyOf(c) THEN [command |-> c, obs |-> obs]
                                         ELSE results[k]]
    BY DEF Remember
  <1> HIDE DEF line
  <1>3. DOMAIN recency' = DOMAIN line /\ Placed(recency')
    BY <1>1, <1>2, TrimPlaced, CacheAssumption
  <1>4. DOMAIN results = DOMAIN recency
    BY DEF Cache
  <1> QED BY <1>1, <1>2, <1>3, <1>4

-----------------------------------------------------------------------------
(* Places and the way from one to the next.                                *)

LEMMA HeadingUnit ==
    ASSUME NEW yaw \in Quarters
    PROVE  Heading(yaw).x \in {-1, 0, 1} /\ Heading(yaw).y \in {-1, 0, 1}
  <1>1. yaw % 360 \in {0, 90, 180, 270}
    BY DEF Quarters
  <1> QED BY <1>1 DEF Heading

LEMMA MovePlaces ==
    ASSUME NEW p \in Places, NEW d \in Int
    PROVE  /\ MoveBy(p, d) = [x |-> p.x + d * Heading(p.yaw).x,
                              y |-> p.y + d * Heading(p.yaw).y, yaw |-> p.yaw]
           /\ MoveBy(p, d) \in Places
  <1> DEFINE a == p.x + d * Heading(p.yaw).x
             b == p.y + d * Heading(p.yaw).y
  <1>1. Heading(p.yaw).x \in {-1, 0, 1} /\ Heading(p.yaw).y \in {-1, 0, 1}
    BY HeadingUnit DEF Places
  <1>2. a \in Int /\ b \in Int
    BY <1>1 DEF Places
  <1>3. MoveBy(p, d) = [p EXCEPT !.x = a, !.y = b]
    BY DEF MoveBy
  <1> HIDE DEF a, b
  <1>4. MoveBy(p, d) = [x |-> a, y |-> b, yaw |-> p.yaw]
    BY <1>2, <1>3 DEF Places
  <1>5. MoveBy(p, d) \in Places
    BY <1>2, <1>4 DEF Places
  <1> QED BY <1>4, <1>5 DEF a, b

LEMMA MoveStates ==
    ASSUME NEW r \in RobotStates, NEW d \in Int
    PROVE  /\ MoveBy(r, d) \in RobotStates
           /\ Place(MoveBy(r, d)) = MoveBy(Place(r), d)
  <1> DEFINE a == r.x + d * Heading(r.yaw).x
             b == r.y + d * Heading(r.yaw).y
  <1>1. Heading(r.yaw).x \in {-1, 0, 1} /\ Heading(r.yaw).y \in {-1, 0, 1}
    BY HeadingUnit DEF RobotStates
  <1>2. a \in Int /\ b \in Int
    BY <1>1 DEF RobotStates
  <1>3. MoveBy(r, d) = [r EXCEPT !.x = a, !.y = b]
    BY DEF MoveBy
  <1>4. Place(r) \in Places
    BY DEF RobotStates, Places, Place
  <1>5. MoveBy(Place(r), d) = [x |-> a, y |-> b, yaw |-> r.yaw]
    BY <1>4, MovePlaces DEF Place
  <1> HIDE DEF a, b
  <1>6. [r EXCEPT !.x = a, !.y = b] \in RobotStates
    BY <1>2 DEF RobotStates
  <1>7. Place([r EXCEPT !.x = a, !.y = b]) = [x |-> a, y |-> b, yaw |-> r.yaw]
    BY <1>2 DEF RobotStates, Place
  <1> QED BY <1>3, <1>5, <1>6, <1>7

LEMMA PlaceOf ==
    ASSUME NEW r \in RobotStates
    PROVE  Place(r) \in Places
  BY DEF RobotStates, Places, Place

\* Turning keeps to the axes, on the circle or not.
LEMMA TurnQuarters ==
    ASSUME NEW a \in Quarters, NEW b \in Quarters
    PROVE  /\ a + b \in Quarters
           /\ Normal(a) \in Quarters
           /\ Normal(a) % 360 = a % 360
  BY DEF Quarters, Normal

\* How far a step of this call and answer moves or turns.
Moved(step) ==
    IF step.obs.status = "success" THEN step.call.amount
    ELSE IF step.obs.status = "blocked" /\ step.obs.remaining > 0
         THEN step.call.amount - step.obs.remaining
    ELSE 0

LEMMA MovedType ==
    ASSUME NEW step \in StepsTaken
    PROVE  /\ Moved(step) \in Int
           /\ step.call.tool = "turn_robot" => Moved(step) \in Quarters
  <1>1. step.call.amount \in Int /\ step.obs.remaining \in Int
    BY DEF StepsTaken, Calls, Observations
  <1>2. step.call.tool = "turn_robot" => step.call.amount \in Quarters
    BY DEF StepsTaken, Calls
  <1>3. 0 \in Quarters
    BY DEF Quarters
  <1> QED BY <1>1, <1>2, <1>3 DEF Moved, StepsTaken

LEMMA TraverseType ==
    ASSUME NEW p \in Places, NEW step \in StepsTaken
    PROVE  Traverse(p, step) \in Places
  <1>1. Moved(step) \in Int /\ (step.call.tool = "turn_robot" => Moved(step) \in Quarters)
    BY MovedType
  <1>2. MoveBy(p, Moved(step)) \in Places
    BY <1>1, MovePlaces
  <1>3. step.call.tool = "turn_robot" => p.yaw + Moved(step) \in Quarters
    BY <1>1, TurnQuarters DEF Places
  <1>4. step.call.tool = "turn_robot" => [p EXCEPT !.yaw = @ + Moved(step)] \in Places
    BY <1>3 DEF Places
  <1> QED BY <1>2, <1>4 DEF Traverse, Moved

\* Robots of the same place stay together.
LEMMA TraverseSame ==
    ASSUME NEW p \in Places, NEW q \in Places, SamePlace(p, q), NEW step \in StepsTaken
    PROVE  SamePlace(Traverse(p, step), Traverse(q, step))
  <1>1. Moved(step) \in Int
    BY MovedType
  <1>2. Heading(p.yaw) = Heading(q.yaw)
    BY DEF SamePlace, Heading
  <1>3. SamePlace(MoveBy(p, Moved(step)), MoveBy(q, Moved(step)))
    <2> DEFINE m == Moved(step)
    <2>1. m \in Int
      BY <1>1
    <2> HIDE DEF m
    <2>2. MoveBy(p, m) = [x |-> p.x + m * Heading(p.yaw).x,
                          y |-> p.y + m * Heading(p.yaw).y, yaw |-> p.yaw]
      BY <2>1, MovePlaces
    <2>3. MoveBy(q, m) = [x |-> q.x + m * Heading(q.yaw).x,
                          y |-> q.y + m * Heading(q.yaw).y, yaw |-> q.yaw]
      BY <2>1, MovePlaces
    <2>4. p.x = q.x /\ p.y = q.y /\ p.yaw % 360 = q.yaw % 360
      BY DEF SamePlace
    <2>5. MoveBy(q, m) = [x |-> p.x + m * Heading(p.yaw).x,
                          y |-> p.y + m * Heading(p.yaw).y, yaw |-> q.yaw]
      BY <1>2, <2>3, <2>4, Zenon
    <2> DEFINE a == p.x + m * Heading(p.yaw).x
               b == p.y + m * Heading(p.yaw).y
    <2>6. MoveBy(p, m) = [x |-> a, y |-> b, yaw |-> p.yaw]
          /\ MoveBy(q, m) = [x |-> a, y |-> b, yaw |-> q.yaw]
      BY <2>2, <2>5
    <2> HIDE DEF a, b
    <2>7. SamePlace(MoveBy(p, m), MoveBy(q, m))
      BY <2>4, <2>6 DEF SamePlace
    <2> QED BY <2>7 DEF m
  <1>4. SamePlace([p EXCEPT !.yaw = @ + Moved(step)], [q EXCEPT !.yaw = @ + Moved(step)])
    <2>1. p.yaw \in Int /\ q.yaw \in Int /\ p.yaw % 360 = q.yaw % 360
      BY DEF SamePlace, Places, Quarters
    <2>2. (p.yaw + Moved(step)) % 360 = (q.yaw + Moved(step)) % 360
      BY <1>1, <2>1
    <2> QED BY <2>2 DEF SamePlace, Places
  <1> QED BY <1>3, <1>4 DEF Traverse, Moved

\* A step that neither succeeded nor was blocked on its way leads nowhere.
LEMMA TraverseNowhere ==
    ASSUME NEW p \in Places, NEW step, Moved(step) = 0
    PROVE  Traverse(p, step) = p
  <1>1. Heading(p.yaw).x \in {-1, 0, 1} /\ Heading(p.yaw).y \in {-1, 0, 1}
    BY HeadingUnit DEF Places
  <1>2. MoveBy(p, 0) = p
    <2>1. MoveBy(p, 0) = [x |-> p.x + 0 * Heading(p.yaw).x,
                          y |-> p.y + 0 * Heading(p.yaw).y, yaw |-> p.yaw]
      BY MovePlaces
    <2>2. 0 * Heading(p.yaw).x = 0 /\ 0 * Heading(p.yaw).y = 0
      BY <1>1
    <2>3. MoveBy(p, 0) = [x |-> p.x + 0, y |-> p.y + 0, yaw |-> p.yaw]
      BY <2>1, <2>2, Zenon
    <2> QED BY <2>3 DEF Places
  <1>3. [p EXCEPT !.yaw = @ + 0] = p
    BY DEF Places, Quarters
  <1> QED BY <1>2, <1>3 DEF Traverse, Moved

-----------------------------------------------------------------------------
(* The way of a run.                                                       *)

LEMMA WayAt ==
    ASSUME NEW X, NEW s \in Seq(X), NEW start, NEW f, IsWay(f, start, s)
    PROVE  /\ f[0] = start
           /\ \A i \in 1 .. Len(s) : f[i] = Traverse(f[i - 1], s[i])
  <1> DEFINE At(i) == IF i = 0 THEN start ELSE Traverse(f[i - 1], s[i])
  <1>1. f = [i \in 0 .. Len(s) |-> At(i)] /\ Len(s) \in Nat
    BY DEF IsWay
  <1>2. \A i \in 0 .. Len(s) : f[i] = At(i)
    <2> HIDE DEF At
    <2> QED BY <1>1
  <1>3. f[0] = start
    BY <1>1, <1>2
  <1>4. ASSUME NEW i \in 1 .. Len(s)
        PROVE  f[i] = Traverse(f[i - 1], s[i])
    <2>1. i \in 0 .. Len(s) /\ i # 0
      BY <1>1
    <2> QED BY <1>2, <2>1, Zenon
  <1> QED BY <1>3, <1>4

\* There is one way only: two that differ would differ at a first step.
LEMMA OneWay ==
    ASSUME NEW X, NEW s \in Seq(X), NEW start,
           NEW f, IsWay(f, start, s), NEW g, IsWay(g, start, s)
    PROVE  f[Len(s)] = g[Len(s)]
  <1> DEFINE apart == {i \in 0 .. Len(s) : f[i] # g[i]}
  <1> SUFFICES ASSUME apart # {} PROVE FALSE
    <2>1. Len(s) \in 0 .. Len(s)
      OBVIOUS
    <2> QED BY <2>1
  <1>1. apart \subseteq Nat
    OBVIOUS
  <1> DEFINE i == FirstOf(apart)
  <1>2. i \in apart /\ \A j \in apart : i <= j
    BY <1>1, FirstIsFirst
  <1> HIDE DEF i
  <1>3. i \in 0 .. Len(s) /\ f[i] # g[i]
    BY <1>2
  <1>4. i # 0
    BY <1>3, WayAt
  <1>5. i \in 1 .. Len(s) /\ i - 1 \in 0 .. Len(s) /\ ~(i <= i - 1)
    BY <1>3, <1>4
  <1>6. f[i - 1] = g[i - 1]
    BY <1>2, <1>5
  <1>7. f[i] = Traverse(f[i - 1], s[i]) /\ g[i] = Traverse(g[i - 1], s[i])
    BY <1>5, WayAt
  <1> QED BY <1>3, <1>6, <1>7

LEMMA LedThere ==
    ASSUME NEW X, NEW s \in Seq(X), NEW start, NEW f, IsWay(f, start, s)
    PROVE  LedTo(start, s) = f[Len(s)]
  <1> DEFINE place == CHOOSE g : IsWay(g, start, s)
  <1>1. IsWay(place, start, s)
    OBVIOUS
  <1>2. LedTo(start, s) = place[Len(s)]
    BY DEF LedTo, IsWay
  <1> HIDE DEF place
  <1> QED BY <1>1, <1>2, OneWay

LEMMA NoStepsYet ==
    ASSUME NEW start
    PROVE  HasWay(start, <<>>) /\ LedTo(start, <<>>) = start
  <1> DEFINE f == [i \in 0 .. 0 |-> start]
  <1>1. Len(<<>>) = 0 /\ <<>> \in Seq({})
    OBVIOUS
  <1>2. IsWay(f, start, <<>>)
    BY <1>1 DEF IsWay
  <1> HIDE DEF f
  <1>3. LedTo(start, <<>>) = f[0]
    BY <1>1, <1>2, LedThere
  <1>4. f[0] = start
    BY DEF f
  <1> QED BY <1>2, <1>3, <1>4 DEF HasWay

LEMMA OneStepFurther ==
    ASSUME NEW X, NEW s \in Seq(X), NEW start, HasWay(start, s), NEW step
    PROVE  /\ HasWay(start, Append(s, step))
           /\ LedTo(start, Append(s, step)) = Traverse(LedTo(start, s), step)
  <1> DEFINE t == Append(s, step)
             n == Len(s)
  <1>1. PICK f : IsWay(f, start, s)
    BY DEF HasWay
  <1>2. f[0] = start /\ \A i \in 1 .. n : f[i] = Traverse(f[i - 1], s[i])
    BY <1>1, WayAt
  <1>3. LedTo(start, s) = f[n]
    BY <1>1, LedThere
  <1>4. /\ n \in Nat /\ Len(t) = n + 1 /\ t[n + 1] = step
        /\ \A i \in 1 .. n : t[i] = s[i]
    OBVIOUS
  <1>5. t \in Seq(X \cup {step})
    OBVIOUS
  <1> DEFINE g == [i \in 0 .. n + 1 |-> IF i = n + 1 THEN Traverse(f[n], step) ELSE f[i]]
  <1>6. \A i \in 0 .. n + 1 :
            g[i] = IF i = n + 1 THEN Traverse(f[n], step) ELSE f[i]
    OBVIOUS
  <1>7. DOMAIN g = 0 .. n + 1 /\ g = [i \in 0 .. n + 1 |-> g[i]]
    OBVIOUS
  <1> HIDE DEF g, t, n
  <1>8. ASSUME NEW i \in 0 .. n + 1
        PROVE  g[i] = IF i = 0 THEN start ELSE Traverse(g[i - 1], t[i])
    <2>1. CASE i = 0
      BY <1>2, <1>4, <1>6, <2>1
    <2>2. CASE i \in 1 .. n
      <3>1. i - 1 \in 0 .. n + 1 /\ i - 1 # n + 1 /\ i # n + 1 /\ i # 0
        BY <1>4, <2>2
      <3>2. g[i] = f[i] /\ g[i - 1] = f[i - 1]
        BY <1>6, <3>1
      <3> QED BY <1>2, <1>4, <2>2, <3>1, <3>2
    <2>3. CASE i = n + 1
      <3>1. i - 1 = n /\ n \in 0 .. n + 1 /\ n # n + 1 /\ i # 0
        BY <1>4, <2>3
      <3>2. g[i] = Traverse(f[n], step) /\ g[n] = f[n]
        BY <1>6, <2>3, <3>1
      <3> QED BY <1>4, <2>3, <3>1, <3>2
    <2>4. i = 0 \/ i \in 1 .. n \/ i = n + 1
      BY <1>4
    <2> QED BY <2>1, <2>2, <2>3, <2>4
  <1>9. IsWay(g, start, t)
    <2>1. g = [i \in 0 .. n + 1 |-> IF i = 0 THEN start ELSE Traverse(g[i - 1], t[i])]
      BY <1>7, <1>8, Zenon
    <2> QED BY <1>4, <2>1 DEF IsWay
  <1>10. LedTo(start, t) = g[n + 1]
    BY <1>4, <1>5, <1>9, LedThere
  <1>11. g[n + 1] = Traverse(f[n], step)
    BY <1>4, <1>6
  <1> QED BY <1>3, <1>9, <1>10, <1>11 DEF HasWay, t

-----------------------------------------------------------------------------
(* What a device does with a command.                                      *)

LEMMA LeastOf ==
    ASSUME NEW S, S \subseteq Nat, S # {}
    PROVE  Min(S) \in S
  <1>1. FirstOf(S) \in S /\ \A j \in S : FirstOf(S) <= j
    BY FirstIsFirst
  <1>2. \E x \in S : \A y \in S : x =< y
    BY <1>1
  <1> QED BY <1>2 DEF Min

LEMMA Sensed ==
    ASSUME NEW r \in RobotStates
    PROVE  Sense(r) \in RobotStates /\ Place(Sense(r)) = Place(r)
  <1>1. ASSUME NEW p, NEW dir
        PROVE  RayDistance(scene.world, p, dir) \in Int
    <2> DEFINE seen == {SensorRange} \cup
                       {d \in Marks(SensorRange) : RayEnds(scene.world, Ahead(p, dir, d))}
    <2>1. seen \subseteq Nat /\ seen # {}
      BY GridAssumption DEF Marks
    <2>2. Min(seen) \in Nat
      BY <2>1, LeastOf
    <2> QED BY <2>2 DEF RayDistance
  <1>2. \A front, left, right \in Int :
            LET s == [r EXCEPT !.front = front, !.left = left, !.right = right]
            IN  s \in RobotStates /\ Place(s) = Place(r)
    BY DEF RobotStates, Place
  <1> QED BY <1>1, <1>2 DEF Sense

LEMMA Allowed ==
    ASSUME NEW p, NEW dir, NEW distance \in Int
    PROVE  LET allowed == AllowedMove(scene.world, p, dir, distance)
           IN  allowed \in Int /\ allowed <= distance
  <1> DEFINE shut == {d \in Marks(distance) \ {0} :
                         Forbidden(scene.world, Ahead(p, dir, d))}
  <1>1. \A d \in shut : d \in Nat /\ d <= distance
    BY DEF Marks
  <1>2. CASE shut = {}
    BY <1>2 DEF AllowedMove
  <1>3. CASE shut # {}
    <2>1. Min(shut) \in shut
      BY <1>1, <1>3, LeastOf
    <2>2. Min(shut) \in Nat /\ Min(shut) <= distance
      BY <1>1, <2>1
    <2>3. AllowedMove(scene.world, p, dir, distance) = Min(shut) - Grid
      BY <1>3 DEF AllowedMove
    <2> HIDE DEF shut
    <2> QED BY <2>2, <2>3, GridAssumption
  <1> QED BY <1>2, <1>3

\* An executed command leads the robot where its answer says; whatever is not
\* a motion leaves it where it is.
Conforms(c, obs) ==
    /\ robot' \in RobotStates
    /\ obs.code \in DeviceCodes
    /\ CallOf(c) \in Calls =>
          /\ Step(c, obs) \in StepsTaken
          /\ SamePlace(Place(robot'), Traverse(Place(robot), Step(c, obs)))
    /\ c.tool \notin MotionTools => Place(robot') = Place(robot)

\* A command that is found in the cache does nothing; any other is entered.
Handled(c) ==
    /\ robot' \in RobotStates
    /\ DOMAIN results' = DOMAIN recency'
    /\ DOMAIN recency' = DOMAIN recency \cup {KeyOf(c)}
    /\ Placed(recency')
    /\ Cached(c) => robot' = robot /\ results' = results
    /\ ~Cached(c) =>
          \E obs :
             /\ results' = [k \in DOMAIN results \cup {KeyOf(c)} |->
                              IF k = KeyOf(c) THEN [command |-> c, obs |-> obs]
                                              ELSE results[k]]
             /\ Conforms(c, obs)

LEMMA Entered ==
    ASSUME Cache, NEW c, KeyOf(c) \in RunKeys(limit), ~Cached(c),
           NEW obs, NEW newest, Remember(c, obs, newest), Conforms(c, obs)
    PROVE  Handled(c)
  <1>1. /\ DOMAIN recency' = DOMAIN recency \cup {KeyOf(c)}
        /\ Placed(recency')
        /\ results' = [k \in DOMAIN results \cup {KeyOf(c)} |->
                         IF k = KeyOf(c) THEN [command |-> c, obs |-> obs]
                                         ELSE results[k]]
    BY RememberKeeps
  <1>2. DOMAIN results' = DOMAIN recency'
    BY <1>1 DEF Cache
  <1> QED BY <1>1, <1>2 DEF Handled, Conforms

LEMMA FoundAgain ==
    ASSUME Types, Cache, NEW c, KeyOf(c) \in RunKeys(limit), Cached(c),
           recency' = Rejoin(recency, KeyOf(c)), UNCHANGED <<robot, results>>
    PROVE  Handled(c)
  <1>1. DOMAIN recency' = DOMAIN recency \cup {KeyOf(c)} /\ Placed(recency')
    BY RejoinKeeps
  <1>2. DOMAIN results' = DOMAIN recency'
    BY <1>1 DEF Cache, Cached
  <1> QED BY <1>1, <1>2 DEF Handled, Types

\* An answer to a robot that stays where it is.
LEMMA StaysConform ==
    ASSUME Types, NEW c, c.tool \in MotionTools => CallOf(c) \in Calls, NEW obs,
           robot' \in RobotStates, Place(robot') = Place(robot),
           obs.code \in DeviceCodes,
           CallOf(c) \in Calls => obs \in Observations,
           obs.status = "blocked" => c.tool = "move_robot",
           c.tool \in MotionTools => Moved(Step(c, obs)) = 0
    PROVE  Conforms(c, obs)
  <1> SUFFICES ASSUME CallOf(c) \in Calls
               PROVE  /\ Step(c, obs) \in StepsTaken
                      /\ SamePlace(Place(robot'), Traverse(Place(robot), Step(c, obs)))
    BY DEF Conforms
  <1>1. Step(c, obs) \in StepsTaken
    BY DEF Step, StepsTaken, CallOf
  <1>2. Traverse(Place(robot), Step(c, obs)) = Place(robot)
    <2>1. CASE c.tool \in MotionTools
      <3>1. Place(robot) \in Places
        BY PlaceOf DEF Types
      <3> QED BY <2>1, <3>1, TraverseNowhere
    <2>2. CASE c.tool \notin MotionTools
      BY <2>2 DEF Traverse, Step, CallOf, MotionTools
    <2> QED BY <2>1, <2>2
  <1> QED BY <1>1, <1>2 DEF SamePlace

LEMMA ObservationType ==
    ASSUME NEW status \in Statuses, NEW code \in Codes, NEW remaining \in Int,
           NEW state \in StatesTold, NEW object \in ObjectsTold
    PROVE  LET obs == Observation(status, code, remaining, state, object)
           IN  /\ obs \in Observations
               /\ obs.status = status /\ obs.code = code
               /\ obs.remaining = remaining /\ obs.state = state
  BY DEF Observation, Observations

LEMMA StateToldType ==
    ASSUME NEW r \in RobotStates PROVE r \in StatesTold
  BY DEF StatesTold

LEMMA FeedbackType ==
    ASSUME NEW status \in Statuses, NEW code \in Codes, NEW state \in StatesTold
    PROVE  LET obs == Feedback(status, code, state)
           IN  /\ obs \in Observations
               /\ obs.status = status /\ obs.code = code
               /\ obs.remaining = 0 /\ obs.state = state
  <1>1. NoObject \in ObjectsTold
    BY DEF ObjectsTold
  <1> QED BY <1>1, ObservationType DEF Feedback

LEMMA SafetyDecides ==
    ASSUME NEW c, NEW state, NEW late
    PROVE  LET decision == SafetyCheck(c, state, late)
           IN  /\ decision.status \in {"timeout", "rejected", "blocked", "allow"}
               /\ decision.status = "blocked" => c.tool = "move_robot"
               /\ decision.status # "allow" => decision.code \in DeviceCodes
  BY DEF SafetyCheck, Decision, FacesObstacle, DeviceCodes

\* A refusal, whatever it says of the rest of the way.
LEMMA Refused ==
    ASSUME Types, NEW c, c.tool \in MotionTools => CallOf(c) \in Calls,
           NEW status \in Statuses, status # "success",
           status = "blocked" => c.tool = "move_robot",
           NEW code \in DeviceCodes,
           UNCHANGED robot
    PROVE  /\ Conforms(c, Feedback(status, code, robot))
           /\ c.tool = "move_robot" => Conforms(c, BlockedFeedback(c, robot))
  <1>1. robot \in RobotStates
    BY DEF Types
  <1>2. Conforms(c, Feedback(status, code, robot))
    <2> DEFINE obs == Feedback(status, code, robot)
    <2>1. obs \in Observations /\ obs.status = status /\ obs.code = code
          /\ obs.remaining = 0
      BY <1>1, FeedbackType, StateToldType DEF Codes
    <2>2. Moved(Step(c, obs)) = 0
      BY <2>1 DEF Moved, Step
    <2> HIDE DEF obs
    <2>3. Conforms(c, obs)
      BY <1>1, <2>1, <2>2, StaysConform
    <2> QED BY <2>3 DEF obs
  <1>3. ASSUME c.tool = "move_robot"
        PROVE  Conforms(c, BlockedFeedback(c, robot))
    <2> DEFINE obs == BlockedFeedback(c, robot)
    <2>1. CallOf(c) \in Calls
      BY <1>3 DEF MotionTools
    <2>2. c.amount \in Int
      BY <2>1 DEF CallOf, Calls
    <2>3. obs \in Observations /\ obs.status = "blocked" /\ obs.code \in DeviceCodes
          /\ obs.remaining = c.amount
      <3>1. NoObject \in ObjectsTold /\ "blocked" \in Statuses
            /\ "front_obstacle" \in DeviceCodes \cap Codes
        BY DEF ObjectsTold, Statuses, DeviceCodes, Codes
      <3> QED BY <1>1, <2>2, <3>1, ObservationType, StateToldType DEF BlockedFeedback
    <2>4. Moved(Step(c, obs)) = 0
      BY <2>2, <2>3 DEF Moved, Step, CallOf
    <2> HIDE DEF obs
    <2>5. Conforms(c, obs)
      BY <1>1, <1>3, <2>3, <2>4, StaysConform
    <2> QED BY <2>5 DEF obs
  <1> QED BY <1>2, <1>3

\* A forward or backward move of d, all of it or the part that was free.
LEMMA MovesConform ==
    ASSUME Types, NEW c, c.tool = "move_robot", CallOf(c) \in Calls,
           NEW d \in Int, NEW obs \in Observations, Moved(Step(c, obs)) = d,
           obs.code \in DeviceCodes,
           robot' \in RobotStates, Place(robot') = Place(MoveBy(robot, d))
    PROVE  Conforms(c, obs)
  <1>1. robot \in RobotStates
    BY DEF Types
  <1>2. Place(robot') = MoveBy(Place(robot), d)
    BY <1>1, MoveStates
  <1>3. Traverse(Place(robot), Step(c, obs)) = MoveBy(Place(robot), d)
    BY DEF Traverse, Moved, Step, CallOf
  <1>4. Step(c, obs) \in StepsTaken
    BY DEF Step, StepsTaken, CallOf
  <1> QED BY <1>2, <1>3, <1>4 DEF Conforms, SamePlace, MotionTools

LEMMA TurnsConform ==
    ASSUME Types, NEW c, c.tool = "turn_robot", CallOf(c) \in Calls,
           NEW obs \in Observations, obs.status = "success",
           obs.code \in DeviceCodes,
           robot' \in RobotStates, robot'.x = robot.x, robot'.y = robot.y,
           robot'.yaw % 360 = (robot.yaw + c.amount) % 360
    PROVE  Conforms(c, obs)
  <1>1. Step(c, obs) \in StepsTaken
    BY DEF Step, StepsTaken, CallOf
  <1>2. Traverse(Place(robot), Step(c, obs))
          = [x |-> robot.x, y |-> robot.y, yaw |-> robot.yaw + c.amount]
    BY DEF Traverse, Step, CallOf, Place
  <1>3. SamePlace(Place(robot'), Traverse(Place(robot), Step(c, obs)))
    BY <1>2 DEF SamePlace, Place
  <1> QED BY <1>1, <1>3 DEF Conforms, MotionTools

\* A robot's state with a success.
LEMMA Succeeds ==
    ASSUME NEW r \in RobotStates
    PROVE  LET obs == Feedback("success", "none", r)
           IN  /\ obs \in Observations /\ obs.status = "success"
               /\ obs.code \in DeviceCodes /\ obs.remaining = 0
  <1>1. "success" \in Statuses /\ "none" \in DeviceCodes \cap Codes
    BY DEF Statuses, DeviceCodes, Codes
  <1> QED BY <1>1, FeedbackType, StateToldType

LEMMA SimulatorHandles ==
    ASSUME Types, Cache, NEW c, KeyOf(c) \in RunKeys(limit),
           c.tool \in MotionTools => CallOf(c) \in Calls, NEW late,
           ProcessCommand(c, late)
    PROVE  Handled(c)
  <1> DEFINE decision == SafetyCheck(c, robot, late)
  <1>1. robot \in RobotStates
    BY DEF Types
  <1>2. CASE ReplaysResult(c) \/ FindsConflict(c)
    BY <1>2, FoundAgain DEF ReplaysResult, FindsConflict, Conflicts
  <1>3. CASE FindsStale(c)
    <2>1. Conforms(c, Feedback("rejected", "stale_sequence", robot))
      <3>1. "rejected" \in Statuses /\ "stale_sequence" \in DeviceCodes \cap Codes /\ robot' = robot
        BY <1>3 DEF FindsStale, Statuses, DeviceCodes, Codes
      <3> QED BY <3>1, Refused
    <2> QED BY <1>3, <2>1, Entered DEF FindsStale
  <1>4. CASE Refuses(c, late)
    <2>1. /\ decision.status \in {"timeout", "rejected", "blocked"}
          /\ decision.status = "blocked" => c.tool = "move_robot"
          /\ decision.code \in DeviceCodes
      BY <1>4, SafetyDecides DEF Refuses
    <2> DEFINE obs == IF decision.status = "blocked" THEN BlockedFeedback(c, robot)
                      ELSE Feedback(decision.status, decision.code, robot)
    <2>2. Remember(c, obs, TRUE) /\ UNCHANGED robot /\ ~Cached(c)
      BY <1>4 DEF Refuses, IsNew
    <2> HIDE DEF decision
    <2>3. Conforms(c, obs)
      BY <2>1, <2>2, Refused DEF Statuses
    <2> HIDE DEF obs
    <2> QED BY <2>2, <2>3, Entered
  <1>5. CASE Moves(c, late)
    <2> DEFINE blocked == c.amount > 0 /\ obstacleAhead
    <2>1. c.tool = "move_robot" /\ CallOf(c) \in Calls /\ ~Cached(c)
      BY <1>5 DEF Moves, MotionTools, MayExecute, IsNew
    <2>2. c.amount \in Int
      BY <2>1 DEF Calls, CallOf
    <2>3. CASE blocked
      <3>1. robot' = robot /\ Remember(c, BlockedFeedback(c, robot), TRUE)
        BY <1>5, <2>3 DEF Moves, Concludes
      <3>2. "rejected" \in Statuses /\ "unsafe_pose" \in DeviceCodes \cap Codes
        BY DEF Statuses, DeviceCodes, Codes
      <3>3. Conforms(c, BlockedFeedback(c, robot))
        BY <2>1, <3>1, <3>2, Refused
      <3> QED BY <2>1, <3>1, <3>3, Entered
    <2>4. CASE ~blocked
      <3> DEFINE state == MoveBy(robot, c.amount)
                 obs   == Feedback("success", "none", state)
      <3>1. robot' = state /\ Remember(c, obs, TRUE)
        BY <1>5, <2>4 DEF Moves, Concludes
      <3>2. state \in RobotStates
        BY <1>1, <2>2, MoveStates
      <3>3. obs \in Observations /\ obs.status = "success"
            /\ obs.code \in DeviceCodes
        BY <3>2, Succeeds
      <3>4. Moved(Step(c, obs)) = c.amount
        BY <3>3 DEF Moved, Step, CallOf
      <3> HIDE DEF obs
      <3>5. Conforms(c, obs)
        BY <2>1, <2>2, <3>1, <3>2, <3>3, <3>4, MovesConform
      <3> QED BY <2>1, <3>1, <3>5, Entered
    <2> QED BY <2>3, <2>4
  <1>6. CASE Turns(c, late)
    <2>1. c.tool = "turn_robot" /\ CallOf(c) \in Calls /\ ~Cached(c)
      BY <1>6 DEF Turns, MotionTools, MayExecute, IsNew
    <2>2. c.amount \in Quarters
      BY <2>1 DEF Calls, CallOf
    <2> DEFINE yaw == Normal(robot.yaw + c.amount)
               obs == Feedback("success", "none", robot')
    <2>3. yaw \in Quarters /\ yaw % 360 = (robot.yaw + c.amount) % 360
      <3>1. robot.yaw \in Quarters
        BY <1>1 DEF RobotStates
      <3>2. robot.yaw + c.amount \in Quarters
        BY <2>2, <3>1, TurnQuarters
      <3> QED BY <3>2, TurnQuarters
    <2> DEFINE front == IF c.amount > 0 THEN robot.left
                        ELSE IF c.amount < 0 THEN robot.right ELSE robot.front
    <2>4. front \in Int
      BY <1>1 DEF RobotStates
    <2>5. robot' = [robot EXCEPT !.yaw = yaw, !.front = front] /\ Remember(c, obs, TRUE)
      BY <1>6 DEF Turns, Concludes
    <2> HIDE DEF yaw, front
    <2>6. robot' \in RobotStates /\ robot'.x = robot.x /\ robot'.y = robot.y
          /\ robot'.yaw = yaw
      BY <1>1, <2>3, <2>4, <2>5 DEF RobotStates
    <2>7. obs \in Observations /\ obs.status = "success"
          /\ obs.code \in DeviceCodes
      BY <2>6, Succeeds
    <2> HIDE DEF obs
    <2>8. Conforms(c, obs)
      BY <2>1, <2>3, <2>6, <2>7, TurnsConform
    <2> QED BY <2>1, <2>5, <2>8, Entered
  <1>7. CASE Looks(c, late)
    <2> DEFINE obs == Feedback("success", "none", robot)
    <2>1. robot' = robot /\ Remember(c, obs, TRUE) /\ ~Cached(c)
          /\ c.tool \notin MotionTools
      BY <1>7 DEF Looks, Concludes, MayExecute, IsNew, MotionTools
    <2>2. obs \in Observations /\ obs.status = "success"
          /\ obs.code \in DeviceCodes
      BY <1>1, Succeeds
    <2> HIDE DEF obs
    <2>3. Conforms(c, obs)
      BY <1>1, <2>1, <2>2, StaysConform
    <2> QED BY <2>1, <2>3, Entered
  <1>8. CASE KnowsNoObjects(c, late)
    <2> DEFINE obs == Feedback("rejected", "semantic_unavailable", robot)
    <2>1. robot' = robot /\ Remember(c, obs, TRUE) /\ ~Cached(c)
      BY <1>8 DEF KnowsNoObjects, Concludes, MayExecute, IsNew
    <2>2. Conforms(c, obs)
      <3>1. "rejected" \in Statuses /\ "semantic_unavailable" \in DeviceCodes \cap Codes
        BY DEF Statuses, DeviceCodes, Codes
      <3> QED BY <2>1, <3>1, Refused
    <2> QED BY <2>1, <2>2, Entered
  <1>9. CASE Stops(c, late)
    <2> DEFINE obs == Feedback("emergency_stop", "none", robot')
    <2>1. robot' = [robot EXCEPT !.stopped = TRUE] /\ Remember(c, obs, TRUE) /\ ~Cached(c)
          /\ c.tool \notin MotionTools
      BY <1>9 DEF Stops, Concludes, MayExecute, IsNew, MotionTools
    <2>2. robot' \in RobotStates /\ Place(robot') = Place(robot)
      BY <1>1, <2>1 DEF RobotStates, Place
    <2>3. obs \in Observations /\ obs.status = "emergency_stop"
          /\ obs.code \in DeviceCodes
      <3>1. "emergency_stop" \in Statuses /\ "none" \in DeviceCodes \cap Codes
        BY DEF Statuses, DeviceCodes, Codes
      <3> QED BY <2>2, <3>1, FeedbackType, StateToldType
    <2> HIDE DEF obs
    <2>4. Conforms(c, obs)
      BY <2>1, <2>2, <2>3, StaysConform
    <2> QED BY <2>1, <2>4, Entered
  <1> QED BY <1>2, <1>3, <1>4, <1>5, <1>6, <1>7, <1>8, <1>9 DEF ProcessCommand

LEMMA BridgeHandles ==
    ASSUME Types, Cache, NEW c, KeyOf(c) \in RunKeys(limit),
           c.tool \in MotionTools => CallOf(c) \in Calls, NEW late,
           BridgeProcess(c, late)
    PROVE  Handled(c)
  <1> DEFINE decision == SafetyCheck(c, robot, late)
  <1>1. robot \in RobotStates
    BY DEF Types
  <1>2. CASE ReplaysResult(c)
    BY <1>2, FoundAgain DEF ReplaysResult
  <1>3. CASE BridgeRefuses(c, late)
    <2>1. /\ decision.status \in {"timeout", "rejected", "blocked"}
          /\ decision.status = "blocked" => c.tool = "move_robot"
          /\ decision.code \in DeviceCodes
      BY <1>3, SafetyDecides DEF BridgeRefuses
    <2> DEFINE obs == Feedback(decision.status, decision.code, robot)
    <2>2. Remember(c, obs, TRUE) /\ UNCHANGED robot /\ ~Cached(c)
      BY <1>3 DEF BridgeRefuses, IsNew
    <2> HIDE DEF decision
    <2>3. Conforms(c, obs)
      BY <2>1, <2>2, Refused DEF Statuses
    <2> HIDE DEF obs
    <2> QED BY <2>2, <2>3, Entered
  <1>4. CASE BridgeMoves(c, late)
    <2>1. c.tool = "move_robot" /\ CallOf(c) \in Calls /\ ~Cached(c)
      BY <1>4 DEF BridgeMoves, MotionTools, MayExecute, IsNew
    <2>2. c.amount \in Int
      BY <2>1 DEF Calls, CallOf
    <2> DEFINE allowed == AllowedMove(scene.world, robot, Heading(robot.yaw), c.amount)
               state   == Sense(MoveBy(robot, allowed))
               obs     == IF allowed = c.amount
                          THEN Feedback("success", "none", state)
                          ELSE Observation("blocked", "front_obstacle",
                                           c.amount - allowed, state, NoObject)
    <2>3. allowed \in Int /\ allowed <= c.amount
      BY <2>2, Allowed
    <2>4. robot' = state /\ Remember(c, obs, TRUE)
      BY <1>4 DEF BridgeMoves, Concludes
    <2> HIDE DEF allowed
    <2>5. state \in RobotStates /\ Place(state) = Place(MoveBy(robot, allowed))
      BY <1>1, <2>3, MoveStates, Sensed
    <2> HIDE DEF state
    <2>6. /\ obs \in Observations /\ obs.code \in DeviceCodes
          /\ allowed = c.amount => obs.status = "success"
          /\ allowed # c.amount => /\ obs.status = "blocked"
                                   /\ obs.remaining = c.amount - allowed
      <3>1. NoObject \in ObjectsTold /\ "blocked" \in Statuses
            /\ "front_obstacle" \in DeviceCodes \cap Codes /\ c.amount - allowed \in Int
        BY <2>2, <2>3 DEF ObjectsTold, Statuses, DeviceCodes, Codes
      <3>2. CASE allowed = c.amount
        BY <2>5, <3>2, Succeeds
      <3>3. CASE allowed # c.amount
        <4>1. obs = Observation("blocked", "front_obstacle", c.amount - allowed, state,
                                NoObject)
          BY <3>3
        <4> HIDE DEF obs
        <4> QED BY <2>5, <3>1, <3>3, <4>1, ObservationType, StateToldType
      <3> QED BY <3>2, <3>3
    <2> HIDE DEF obs
    <2>7. Moved(Step(c, obs)) = allowed
      BY <2>2, <2>3, <2>6 DEF Moved, Step, CallOf
    <2>8. Conforms(c, obs)
      BY <2>1, <2>3, <2>4, <2>5, <2>6, <2>7, MovesConform
    <2> QED BY <2>1, <2>4, <2>8, Entered
  <1>5. CASE BridgeTurns(c, late)
    <2>1. c.tool = "turn_robot" /\ CallOf(c) \in Calls /\ ~Cached(c)
      BY <1>5 DEF BridgeTurns, MotionTools, MayExecute, IsNew
    <2>2. c.amount \in Quarters
      BY <2>1 DEF Calls, CallOf
    <2> DEFINE turned == [robot EXCEPT !.yaw = @ + c.amount]
               obs    == Feedback("success", "none", robot')
    <2>3. robot.yaw + c.amount \in Quarters
      BY <1>1, <2>2, TurnQuarters DEF RobotStates
    <2>4. turned \in RobotStates
          /\ Place(turned) = [x |-> robot.x, y |-> robot.y, yaw |-> robot.yaw + c.amount]
      BY <1>1, <2>3 DEF RobotStates, Place
    <2>5. robot' = Sense(turned) /\ Remember(c, obs, TRUE)
      BY <1>5 DEF BridgeTurns, Concludes
    <2> HIDE DEF turned
    <2>6. robot' \in RobotStates /\ Place(robot') = Place(turned)
      BY <2>4, <2>5, Sensed
    <2>7. robot'.x = robot.x /\ robot'.y = robot.y /\ robot'.yaw = robot.yaw + c.amount
      BY <2>4, <2>6 DEF Place
    <2>8. obs \in Observations /\ obs.status = "success"
          /\ obs.code \in DeviceCodes
      BY <2>6, Succeeds
    <2> HIDE DEF obs
    <2>9. Conforms(c, obs)
      BY <2>1, <2>6, <2>7, <2>8, TurnsConform
    <2> QED BY <2>1, <2>5, <2>9, Entered
  <1>6. CASE BridgeInspects(c, late)
    <2>1. ~Cached(c) /\ c.tool \notin MotionTools /\ robot' = robot
      BY <1>6 DEF BridgeInspects, Concludes, MayExecute, IsNew, MotionTools
    <2>2. PICK object \in Objects :
              Remember(c, Observation("success", "none", 0, robot, object), TRUE)
      BY <1>6 DEF BridgeInspects, Concludes
    <2> DEFINE obs == Observation("success", "none", 0, robot, object)
    <2>3. obs \in Observations /\ obs.status = "success"
          /\ obs.code \in DeviceCodes
      <3>1. object \in ObjectsTold /\ "success" \in Statuses /\ "none" \in DeviceCodes \cap Codes
        BY DEF ObjectsTold, Statuses, DeviceCodes, Codes
      <3>2. robot \in StatesTold /\ "none" \in Codes /\ 0 \in Int
        BY <1>1, <3>1, StateToldType
      <3>3. obs \in Observations /\ obs.status = "success" /\ obs.code = "none"
        BY <3>1, <3>2, ObservationType
      <3> HIDE DEF obs
      <3> QED BY <3>1, <3>3
    <2>4. Remember(c, obs, TRUE)
      BY <2>2
    <2> HIDE DEF obs
    <2>5. Conforms(c, obs)
      BY <1>1, <2>1, <2>3, StaysConform
    <2> QED BY <2>1, <2>4, <2>5, Entered
  <1>7. CASE Looks(c, late) \/ Stops(c, late)
    BY <1>7, SimulatorHandles DEF ProcessCommand
  <1> QED BY <1>2, <1>3, <1>4, <1>5, <1>6, <1>7 DEF BridgeProcess

LEMMA Processes ==
    ASSUME Types, Cache, NEW c, KeyOf(c) \in RunKeys(limit),
           c.tool \in MotionTools => CallOf(c) \in Calls, Process(c)
    PROVE  Handled(c)
  BY SimulatorHandles, BridgeHandles DEF Process

-----------------------------------------------------------------------------
(* The commands of a run.                                                  *)

LEMMA SentFacts ==
    ASSUME Types, Sending, NEW c \in sent
    PROVE  /\ c.task = Mission /\ c.seq \in 1 .. limit
           /\ KeyOf(c) = <<Mission, c.seq>> /\ KeyOf(c) \in RunKeys(limit)
           /\ CallOf(c) \in Calls
           /\ c.seq \in 1 .. Len(steps) \/ c.seq = Len(steps) + 1
           /\ c.seq > Len(steps) => node = "wait" /\ c = Command
           /\ c.seq \in 1 .. Len(steps) => c = CommandOf(c.seq)
  <1>1. Len(steps) \in Nat /\ limit \in Nat /\ Len(steps) <= limit
    BY DEF Types
  <1>2. CASE c.seq \in 1 .. Len(steps) /\ c = CommandOf(c.seq)
    <2>1. steps[c.seq] \in StepsTaken
      BY <1>1, <1>2 DEF Types
    <2>2. steps[c.seq].call \in Calls
      BY <2>1 DEF StepsTaken
    <2>3. c.task = Mission /\ CallOf(c) = steps[c.seq].call
      BY <1>2, <2>2 DEF CommandOf, CallOf, Calls
    <2>4. c.seq \in 1 .. limit
      BY <1>1, <1>2
    <2> QED BY <1>1, <1>2, <2>2, <2>3, <2>4 DEF KeyOf, RunKeys
  <1>3. CASE node = "wait" /\ c = Command
    <2>1. c.task = Mission /\ c.seq = Len(steps) + 1 /\ CallOf(c) = CallOf(call)
      BY <1>3 DEF Command, CallOf
    <2>2. CallOf(call) \in Calls /\ Len(steps) < limit
      BY <1>3 DEF Types
    <2>3. c.seq \in 1 .. limit /\ c.seq \notin 1 .. Len(steps)
      BY <1>1, <2>1, <2>2
    <2> QED BY <1>1, <1>3, <2>1, <2>2, <2>3 DEF KeyOf, RunKeys
  <1> QED BY <1>2, <1>3 DEF Sending

LEMMA SameKey ==
    ASSUME Types, Sending, NEW c \in sent, NEW d \in sent, c.seq = d.seq
    PROVE  c = d
  <1>1. Len(steps) \in Nat
    BY DEF Types
  <1>2. CASE c.seq \in 1 .. Len(steps)
    BY <1>2, SentFacts
  <1>3. CASE c.seq = Len(steps) + 1
    <2>1. c.seq > Len(steps) /\ d.seq > Len(steps)
      BY <1>1, <1>3
    <2> QED BY <2>1, SentFacts
  <1> QED BY <1>2, <1>3, SentFacts

\* At most one command is without an answer: the one that is waited for, or
\* the one whose answer was given up.
LEMMA OneOpen ==
    ASSUME Types, Sending, Answers, NEW c \in sent, Open(c), NEW d \in sent, Open(d)
    PROVE  c = d
  <1>1. Len(steps) \in Nat
    BY DEF Types
  <1>2. /\ c.seq \in 1 .. Len(steps) \/ c.seq = Len(steps) + 1
        /\ c.seq > Len(steps) => node = "wait" /\ c = Command
        /\ d.seq \in 1 .. Len(steps) \/ d.seq = Len(steps) + 1
        /\ d.seq > Len(steps) => node = "wait" /\ d = Command
    BY SentFacts
  <1>3. \A i \in 1 .. Len(steps) : GaveUp(i) => i = Len(steps) /\ node # "wait"
    BY DEF Answers
  <1>4. c.seq \in 1 .. Len(steps) => c.seq = Len(steps) /\ node # "wait"
    BY <1>1, <1>3 DEF Open
  <1>5. d.seq \in 1 .. Len(steps) => d.seq = Len(steps) /\ node # "wait"
    BY <1>1, <1>3 DEF Open
  <1>6. CASE node = "wait"
    <2>1. c.seq > Len(steps) /\ d.seq > Len(steps)
      BY <1>1, <1>2, <1>4, <1>5, <1>6
    <2> QED BY <1>2, <2>1
  <1>7. CASE node # "wait"
    <2>1. ~(c.seq > Len(steps)) /\ ~(d.seq > Len(steps))
      BY <1>2, <1>7
    <2>2. c.seq = Len(steps) /\ d.seq = Len(steps)
      BY <1>1, <1>2, <1>4, <1>5, <2>1
    <2> QED BY <2>2, SameKey
  <1> QED BY <1>6, <1>7

LEMMA SamePlaceTransitive ==
    ASSUME NEW p, NEW q, NEW r, SamePlace(p, q), SamePlace(q, r)
    PROVE  SamePlace(p, r)
  BY DEF SamePlace

-----------------------------------------------------------------------------
(* Steps that leave the device alone.                                      *)

LEMMA FinishTypes ==
    ASSUME Types, node \in {"execute", "wait"}, NEW obs,
           Step(call, obs) \in StepsTaken, FinishStep(obs), UNCHANGED setting,
           robot' \in RobotStates
    PROVE  Types'
  <1>1. /\ steps' = Append(steps, Step(call, obs)) /\ node' = "decide"
        /\ known' = IF obs.state = NoState THEN known ELSE obs.state
        /\ goal' = goal /\ limit' = limit /\ scene' = scene
    BY DEF FinishStep, setting, Step, CallOf
  <1>2. steps \in Seq(StepsTaken) /\ Len(steps) < limit /\ limit \in Nat
    BY DEF Types
  <1>3. steps' \in Seq(StepsTaken) /\ Len(steps') <= limit
    BY <1>1, <1>2
  <1>4. known' \in StatesTold
    <2>1. obs.state \in StatesTold
      BY DEF Step, StepsTaken, Observations
    <2> QED BY <1>1, <2>1 DEF Types
  <1> QED BY <1>1, <1>3, <1>4 DEF Types

\* The step list with one more step.
LEMMA OneStepMore ==
    ASSUME Types, Sending, Answers, node \in {"execute", "wait"}, NEW obs, FinishStep(obs)
    PROVE  /\ steps' = Append(steps, Step(Command, obs))
           /\ Len(steps') = Len(steps) + 1 /\ Len(steps) \in Nat
           /\ \A i \in 1 .. Len(steps) : CommandOf(i)' = CommandOf(i) /\ ~GaveUp(i) /\ ~GaveUp(i)'
           /\ \A i : i = Len(steps) + 1 =>
                 /\ CommandOf(i)' = Command
                 /\ GaveUp(i)' <=> obs.code = "mqtt_response_timeout"
           /\ Step(call, obs) = Step(Command, obs)
  <1>1. steps' = Append(steps, Step(Command, obs)) /\ Step(call, obs) = Step(Command, obs)
    BY DEF FinishStep, Step, CallOf, Command
  <1>2. steps \in Seq(StepsTaken)
    BY DEF Types
  <1>3. Len(steps') = Len(steps) + 1 /\ Len(steps) \in Nat
    BY <1>1, <1>2
  <1>4. \A i \in 1 .. Len(steps) : steps'[i] = steps[i]
    BY <1>1, <1>2
  <1>5. steps'[Len(steps) + 1] = Step(Command, obs)
    BY <1>1, <1>2
  <1>6. \A i \in 1 .. Len(steps) : ~GaveUp(i)
    BY DEF Answers
  <1>7. \A i \in 1 .. Len(steps) : CommandOf(i)' = CommandOf(i) /\ ~GaveUp(i)'
    BY <1>4, <1>6 DEF CommandOf, GaveUp
  <1>8. \A i : i = Len(steps) + 1 => CommandOf(i)' = Command
    BY <1>5 DEF CommandOf, Step, CallOf, Command
  <1>9. \A i : i = Len(steps) + 1 => (GaveUp(i)' <=> obs.code = "mqtt_response_timeout")
    BY <1>5 DEF GaveUp, Step
  <1> QED BY <1>1, <1>3, <1>6, <1>7, <1>8, <1>9

\* A step that is refused or given up: the device did not hear of it, or what
\* it did with it is not known.
LEMMA UnheardStep ==
    ASSUME Explained, node \in {"execute", "wait"}, NEW status \in Statuses, NEW code \in Codes,
           status # "success", status = "blocked" => call.tool = "move_robot",
           IF node = "wait" THEN code = "mqtt_response_timeout" /\ status = "timeout"
                            ELSE code \in DeviceCodes,
           FinishStep(Feedback(status, code, known)),
           UNCHANGED <<setting, sent, expired, deviceVars>>
    PROVE  Explained'
  <1> DEFINE obs == Feedback(status, code, known)
  <1>1. /\ obs \in Observations /\ obs.status = status /\ obs.code = code
        /\ obs.remaining = 0
    BY FeedbackType DEF Explained, Types
  <1>2. FinishStep(obs)
    OBVIOUS
  <1> HIDE DEF obs
  <1>3. /\ UNCHANGED <<goal, limit, scene, sent, robot, results, recency>>
        /\ UNCHANGED setting
    BY DEF setting, deviceVars
  <1>4. CallOf(call) \in Calls /\ Step(call, obs) \in StepsTaken
    BY <1>1 DEF Explained, Types, Step, StepsTaken, CallOf
  <1>5. Types'
    BY <1>2, <1>3, <1>4, FinishTypes DEF Explained, Types
  <1>6. Cache'
    BY <1>3 DEF Explained, Cache, CacheHolds, RunKeys
  <1>7. /\ steps' = Append(steps, Step(Command, obs))
        /\ Len(steps') = Len(steps) + 1 /\ Len(steps) \in Nat
        /\ \A i \in 1 .. Len(steps) : CommandOf(i)' = CommandOf(i) /\ ~GaveUp(i) /\ ~GaveUp(i)'
        /\ \A i : i = Len(steps) + 1 =>
              /\ CommandOf(i)' = Command
              /\ GaveUp(i)' <=> code = "mqtt_response_timeout"
        /\ Step(call, obs) = Step(Command, obs)
    BY <1>1, <1>2, OneStepMore DEF Explained
  <1>8. node' = "decide" /\ verdict' = verdict
    BY <1>2 DEF FinishStep
  <1>9. \A c \in sent : /\ c.seq \in 1 .. Len(steps) \/ c.seq = Len(steps) + 1
                        /\ c.seq > Len(steps) => node = "wait" /\ c = Command
                        /\ c.seq \in 1 .. Len(steps) => c = CommandOf(c.seq)
    BY SentFacts DEF Explained
  <1>10. Sending'
    <2> SUFFICES ASSUME NEW c \in sent
                 PROVE  c.seq \in 1 .. Len(steps') /\ c = CommandOf(c.seq)'
      BY <1>3, <1>8 DEF Sending
    <2>1. CASE c.seq \in 1 .. Len(steps)
      BY <1>7, <1>9, <2>1
    <2>2. CASE c.seq = Len(steps) + 1
      <3>1. c.seq > Len(steps) /\ c.seq \in 1 .. Len(steps')
        BY <1>7, <2>2
      <3> QED BY <1>7, <1>9, <2>2, <3>1
    <2> QED BY <1>9, <2>1, <2>2
  <1>11. Answers'
    <2>0. verdict # "success"
      BY DEF Explained, Answers
    <2> SUFFICES ASSUME NEW i \in 1 .. Len(steps'), GaveUp(i)'
                 PROVE  i = Len(steps') /\ steps'[i].obs.status = "timeout"
      BY <1>8, <2>0 DEF Answers
    <2>1. i = Len(steps) + 1 /\ i = Len(steps')
      BY <1>7
    <2>2. code = "mqtt_response_timeout"
      BY <1>7, <2>1
    <2>3. status = "timeout"
      BY <2>2 DEF DeviceCodes
    <2>4. steps'[i] = Step(Command, obs)
      BY <1>7, <2>1 DEF Explained, Types
    <2>5. steps'[i].obs.status = "timeout"
      BY <1>1, <2>3, <2>4 DEF Step
    <2> QED BY <2>1, <2>5
  <1>12. \A c \in sent : Open(c)' <=> Open(c)
    <2> TAKE c \in sent
    <2>1. CASE c.seq \in 1 .. Len(steps)
      BY <1>7, <2>1 DEF Open
    <2>2. CASE c.seq = Len(steps) + 1
      <3>1. c.seq > Len(steps) /\ ~(c.seq > Len(steps')) /\ node = "wait"
        BY <1>7, <1>9, <2>2
      <3>2. GaveUp(c.seq)'
        BY <1>7, <2>2, <3>1
      <3> QED BY <3>1, <3>2 DEF Open
    <2> QED BY <1>9, <2>1, <2>2
  <1>13. \A c \in sent : (Cached(c)' <=> Cached(c)) /\ (Executed(c)' <=> Executed(c))
    BY <1>3, <1>12 DEF Cached, Executed
  <1>14. Remembering'
    BY <1>3, <1>12, <1>13 DEF Explained, Remembering
  <1>15. Located'
    <2> DEFINE start == Place(scene.robot)
               told  == LedTo(start, steps)
    <2>1. HasWay(start, steps) /\ told \in Places /\ steps \in Seq(StepsTaken)
      BY DEF Explained, Located, Types
    <2>2. Moved(Step(Command, obs)) = 0
      BY <1>1, <1>7 DEF Moved, Step
    <2>3. HasWay(start, steps') /\ LedTo(start, steps') = told
      <3>1. HasWay(start, steps') /\ LedTo(start, steps') = Traverse(told, Step(Command, obs))
        BY <1>7, <2>1, OneStepFurther
      <3>2. Traverse(told, Step(Command, obs)) = told
        BY <2>1, <2>2, TraverseNowhere
      <3> QED BY <3>1, <3>2
    <2>4. Place(scene.robot)' = start /\ LedTo(Place(scene.robot), steps)' = told
      BY <1>3, <2>3
    <2> QED BY <1>3, <1>13, <2>1, <2>3, <2>4 DEF Explained, Located
  <1> QED BY <1>5, <1>6, <1>10, <1>11, <1>14, <1>15 DEF Explained

\* No other client drives the robot, in whose journal this run's would then
\* be only a part of the truth.
NobodyElseDrives == \A c \in Foreign : c.tool \notin MotionTools

\* Whatever leaves the run's commands, their results and the robot's place.
LEMMA DeviceElsewhere ==
    ASSUME Explained, UNCHANGED <<setting, graphVars, sent>>,
           robot' \in RobotStates, Place(robot') = Place(robot), Cache',
           \A c \in sent : /\ Cached(c)' <=> Cached(c)
                           /\ Cached(c) => results'[KeyOf(c)] = results[KeyOf(c)],
           \A i \in Nat : <<Mission, i>> \in DOMAIN results' => <<Mission, i>> \in DOMAIN results
    PROVE  Explained'
  <1>1. /\ UNCHANGED <<goal, limit, scene, node, call, steps, known, verdict, sent>>
        /\ UNCHANGED <<setting, graphVars>>
    BY DEF setting, graphVars
  <1>2. Types'
    BY <1>1 DEF Explained, Types, CallOf
  <1>3. Command' = Command /\ (\A i : CommandOf(i)' = CommandOf(i) /\ (GaveUp(i)' <=> GaveUp(i)))
    BY <1>1 DEF Command, CommandOf, GaveUp
  <1>4. Sending'
    BY <1>1, <1>3 DEF Explained, Sending
  <1>5. Answers'
    BY <1>1, <1>3 DEF Explained, Answers
  <1>6. \A c \in sent : /\ Open(c)' <=> Open(c)
                        /\ Executed(c)' <=> Executed(c)
    BY <1>1, <1>3 DEF Open, Executed
  <1>7. Remembering'
    BY <1>1, <1>6 DEF Explained, Remembering
  <1>8. Located'
    <2>1. \A c \in sent : Executed(c) => results'[KeyOf(c)] = results[KeyOf(c)]
      BY DEF Executed
    <2>2. LedTo(Place(scene.robot), steps)' = LedTo(Place(scene.robot), steps)
          /\ (HasWay(Place(scene.robot), steps)' <=> HasWay(Place(scene.robot), steps))
      BY <1>1
    <2>3. Place(robot)' = Place(robot)
      OBVIOUS
    <2> QED BY <1>1, <1>6, <2>1, <2>2, <2>3 DEF Explained, Located
  <1> QED BY <1>2, <1>4, <1>5, <1>7, <1>8 DEF Explained

LEMMA CacheKept ==
    ASSUME Cache, NEW c, KeyOf(c) \in RunKeys(limit), Handled(c), limit' = limit
    PROVE  Cache'
  <1>1. RunKeys(limit)' = RunKeys(limit) /\ CacheHolds(limit)' = CacheHolds(limit)
    BY DEF RunKeys, CacheHolds
  <1> QED BY <1>1 DEF Cache, Handled, Placed

\* What another client's command does.
LEMMA ForeignExplained ==
    ASSUME Explained, NobodyElseDrives, ForeignCommand
    PROVE  Explained'
  <1>1. PICK c \in Foreign : Process(c)
    BY DEF ForeignCommand
  <1>2. c.tool \notin MotionTools /\ c.task # Mission
    BY MissionAssumption DEF NobodyElseDrives
  <1>3. KeyOf(c) \in RunKeys(limit)
    BY DEF RunKeys
  <1>4. Handled(c)
    BY <1>1, <1>2, <1>3, Processes DEF Explained
  <1>5. UNCHANGED <<setting, graphVars, sent>> /\ limit' = limit
    BY DEF ForeignCommand, setting
  <1>6. Cache'
    BY <1>3, <1>4, <1>5, CacheKept DEF Explained
  <1>7. robot' \in RobotStates /\ Place(robot') = Place(robot)
    BY <1>2, <1>4 DEF Handled, Conforms
  <1>8. \A i : KeyOf(c) # <<Mission, i>>
    BY <1>2 DEF KeyOf
  <1>9. /\ DOMAIN results' = DOMAIN results \cup {KeyOf(c)}
        /\ \A k \in DOMAIN results : k # KeyOf(c) => results'[k] = results[k]
    BY <1>4 DEF Handled, Explained, Cache, Cached
  <1>10. \A d \in sent : KeyOf(d) # KeyOf(c)
    BY <1>8, SentFacts DEF Explained
  <1>11. \A d \in sent : /\ Cached(d)' <=> Cached(d)
                         /\ Cached(d) => results'[KeyOf(d)] = results[KeyOf(d)]
    BY <1>9, <1>10 DEF Cached
  <1> QED BY <1>5, <1>6, <1>7, <1>8, <1>9, <1>11, DeviceElsewhere

\* What the test harness sets is not the place.
LEMMA HarnessExplained ==
    ASSUME Explained, Harness
    PROVE  Explained'
  <1>1. UNCHANGED <<setting, graphVars, sent, results, recency>> /\ limit' = limit
    BY DEF Harness, SetObstacles, SetPose, ClearEmergencyStop, setting
  <1>2. robot \in RobotStates
    BY DEF Explained, Types
  <1>3. robot' \in RobotStates /\ Place(robot') = Place(robot)
    <2>1. CASE \E o \in Obstacles : SetObstacles(o[1], o[2], o[3])
      <3>1. PICK o \in Obstacles : SetObstacles(o[1], o[2], o[3])
        BY <2>1
      <3>2. o[1] \in Int /\ o[2] \in Int /\ o[3] \in Int
        BY MissionAssumption
      <3> QED BY <1>2, <3>1, <3>2 DEF SetObstacles, RobotStates, Place
    <2>2. CASE \E level \in BOOLEAN : SetPose(level)
      BY <1>2, <2>2 DEF SetPose, RobotStates, Place
    <2>3. CASE ClearEmergencyStop
      BY <1>2, <2>3 DEF ClearEmergencyStop, RobotStates, Place
    <2> QED BY <2>1, <2>2, <2>3 DEF Harness
  <1>4. Cache'
    BY <1>1 DEF Explained, Cache, CacheHolds, RunKeys
  <1>5. \A c \in sent : /\ Cached(c)' <=> Cached(c)
                        /\ Cached(c) => results'[KeyOf(c)] = results[KeyOf(c)]
    BY <1>1 DEF Cached
  <1> QED BY <1>1, <1>3, <1>4, <1>5, DeviceElsewhere

\* A command of the run that is delivered, again or behind its time: it is
\* found in the cache, or it is the one without an answer.
LEMMA VainExplained ==
    ASSUME Explained, DeliversInVain
    PROVE  Explained'
  <1>1. PICK c \in sent : Process(c)
    BY DEF DeliversInVain
  <1>2. KeyOf(c) \in RunKeys(limit) /\ CallOf(c) \in Calls
    BY SentFacts DEF Explained
  <1>3. Handled(c)
    BY <1>1, <1>2, Processes DEF Explained
  <1>4. /\ UNCHANGED <<setting, graphVars, sent>>
        /\ UNCHANGED <<goal, limit, scene, node, call, steps, known, verdict, sent>>
    BY DEF DeliversInVain, setting, graphVars
  <1>5. Cache'
    BY <1>2, <1>3, <1>4, CacheKept DEF Explained
  <1>6. robot \in RobotStates /\ robot' \in RobotStates
    BY <1>3 DEF Handled, Explained, Types
  <1>7. CASE Cached(c)
    <2>1. robot' = robot /\ results' = results
      BY <1>3, <1>7 DEF Handled
    <2>2. \A d \in sent : /\ Cached(d)' <=> Cached(d)
                          /\ Cached(d) => results'[KeyOf(d)] = results[KeyOf(d)]
      BY <2>1 DEF Cached
    <2> QED BY <1>4, <1>5, <1>6, <2>1, <2>2, DeviceElsewhere
  <1>8. CASE ~Cached(c)
    <2>1. PICK obs :
             /\ results' = [k \in DOMAIN results \cup {KeyOf(c)} |->
                              IF k = KeyOf(c) THEN [command |-> c, obs |-> obs]
                                              ELSE results[k]]
             /\ Conforms(c, obs)
      BY <1>3, <1>8 DEF Handled
    <2>2. /\ obs.code \in DeviceCodes /\ Step(c, obs) \in StepsTaken
          /\ SamePlace(Place(robot'), Traverse(Place(robot), Step(c, obs)))
      BY <1>2, <2>1 DEF Conforms
    <2>3. Open(c)
      BY <1>8 DEF Explained, Remembering
    <2>4. \A d \in sent : Open(d) => d = c
      BY <2>3, OneOpen DEF Explained
    <2>5. \A d \in sent : ~Executed(d)
      BY <1>8, <2>4 DEF Executed
    <2>6. \A d \in sent : d # c => KeyOf(d) # KeyOf(c)
      <3> TAKE d \in sent
      <3>1. KeyOf(d) = <<Mission, d.seq>> /\ KeyOf(c) = <<Mission, c.seq>>
        BY SentFacts DEF Explained
      <3>2. d.seq = c.seq => d = c
        BY SameKey DEF Explained
      <3> QED BY <3>1, <3>2
    <2>7. /\ Cached(c)' /\ results'[KeyOf(c)] = [command |-> c, obs |-> obs]
          /\ \A d \in sent : d # c => /\ Cached(d)' <=> Cached(d)
                                      /\ Cached(d) => results'[KeyOf(d)] = results[KeyOf(d)]
      BY <2>1, <2>6 DEF Cached
    <2>8. Command' = Command /\ (\A i : CommandOf(i)' = CommandOf(i) /\ (GaveUp(i)' <=> GaveUp(i)))
      BY <1>4 DEF Command, CommandOf, GaveUp
    <2>9. \A d \in sent : Open(d)' <=> Open(d)
      BY <1>4, <2>8 DEF Open
    <2>10. Types'
      BY <1>4, <1>6 DEF Explained, Types, CallOf
    <2>11. Sending'
      BY <1>4, <2>8 DEF Explained, Sending
    <2>12. Answers'
      BY <1>4, <2>8 DEF Explained, Answers
    <2>13. Remembering'
      <3>1. \A d \in sent : ~Open(d)' => Cached(d)'
        BY <2>7, <2>9 DEF Explained, Remembering
      <3>2. \A d \in sent : Cached(d)' =>
               /\ results'[KeyOf(d)].command = d
               /\ results'[KeyOf(d)].obs.code \in DeviceCodes
               /\ Step(d, results'[KeyOf(d)].obs) \in StepsTaken
        <4> SUFFICES ASSUME NEW d \in sent, Cached(d)'
                     PROVE  /\ results'[KeyOf(d)].command = d
                            /\ results'[KeyOf(d)].obs.code \in DeviceCodes
                            /\ Step(d, results'[KeyOf(d)].obs) \in StepsTaken
          OBVIOUS
        <4>1. CASE d = c
          BY <2>2, <2>7, <4>1
        <4>2. CASE d # c
          BY <2>7, <4>2 DEF Explained, Remembering
        <4> QED BY <4>1, <4>2
      <3>3. \A i \in Nat : <<Mission, i>> \in DOMAIN results' => \E d \in sent : d.seq = i
        <4> SUFFICES ASSUME NEW i \in Nat, <<Mission, i>> \in DOMAIN results'
                     PROVE  \E d \in sent : d.seq = i
          OBVIOUS
        <4>1. CASE <<Mission, i>> \in DOMAIN results
          BY <4>1 DEF Explained, Remembering
        <4>2. CASE <<Mission, i>> = KeyOf(c)
          BY <4>2 DEF KeyOf
        <4> QED BY <2>1, <4>1, <4>2
      <3> QED BY <1>4, <3>1, <3>2, <3>3 DEF Remembering
    <2>14. Located'
      <3> DEFINE told == LedTo(Place(scene.robot), steps)
      <3>1. told \in Places /\ HasWay(Place(scene.robot), steps)
            /\ SamePlace(Place(robot), told)
        BY <2>5 DEF Explained, Located
      <3>2. SamePlace(Place(robot'), Traverse(told, Step(c, obs)))
        <4>1. Place(robot) \in Places
          BY <1>6, PlaceOf
        <4>2. SamePlace(Traverse(Place(robot), Step(c, obs)), Traverse(told, Step(c, obs)))
          BY <2>2, <3>1, <4>1, TraverseSame
        <4> QED BY <2>2, <4>2, SamePlaceTransitive
      <3>3. told' = told /\ HasWay(Place(scene.robot), steps)'
        BY <1>4, <3>1
      <3>4. Executed(c)' /\ \A d \in sent : Executed(d)' => d = c
        BY <2>3, <2>4, <2>7, <2>9 DEF Executed
      <3> HIDE DEF told
      <3>5. \A d \in sent :
               Executed(d)' => SamePlace(Place(robot'),
                                         Traverse(told, Step(d, results'[KeyOf(d)].obs)))
        BY <2>7, <3>2, <3>4
      <3> QED BY <1>4, <3>1, <3>3, <3>4, <3>5 DEF Located, told
    <2> QED BY <1>5, <2>10, <2>11, <2>12, <2>13, <2>14 DEF Explained
  <1> QED BY <1>7, <1>8

\* The answer that is waited for: the device's, of this delivery or of one
\* before it.
LEMMA DeliveryExplained ==
    ASSUME Explained, Delivers
    PROVE  Explained'
  <1> DEFINE c == Command
             k == KeyOf(c)
  <1>1. node = "wait" /\ Process(c) /\ c \in sent
    BY DEF Delivers, Explained, Sending
  <1>2. k \in RunKeys(limit) /\ CallOf(c) \in Calls
    BY <1>1, SentFacts DEF Explained
  <1>3. Handled(c)
    BY <1>1, <1>2, Processes DEF Explained
  <1>4. UNCHANGED <<setting, goal, limit, scene, sent>>
    BY DEF Delivers, setting
  <1>5. Cache'
    BY <1>2, <1>3, <1>4, CacheKept DEF Explained
  <1>6. robot \in RobotStates /\ robot' \in RobotStates
    BY <1>3 DEF Handled, Explained, Types
  <1>7. c.seq = Len(steps) + 1 /\ Len(steps) \in Nat
    BY DEF Command, Explained, Types
  <1>8. Open(c) /\ \A d \in sent : Open(d) => d = c
    <2>1. Open(c)
      BY <1>7 DEF Open
    <2> QED BY <1>1, <2>1, OneOpen DEF Explained
  <1> DEFINE obs == results'[k].obs
  <1>9. /\ k \in DOMAIN results'
        /\ obs.code \in DeviceCodes /\ Step(c, obs) \in StepsTaken
        /\ results'[k].command = c
    <2>1. CASE Cached(c)
      <3>1. results' = results
        BY <1>3, <2>1 DEF Handled
      <3> QED BY <1>1, <2>1, <3>1 DEF Explained, Remembering, Cached
    <2>2. CASE ~Cached(c)
      <3>1. PICK told :
               /\ results' = [x \in DOMAIN results \cup {k} |->
                                IF x = k THEN [command |-> c, obs |-> told]
                                         ELSE results[x]]
               /\ Conforms(c, told)
        BY <1>3, <2>2 DEF Handled
      <3>2. k \in DOMAIN results' /\ results'[k] = [command |-> c, obs |-> told]
        BY <3>1
      <3>3. told.code \in DeviceCodes /\ Step(c, told) \in StepsTaken
        BY <1>2, <3>1 DEF Conforms
      <3> QED BY <3>2, <3>3
    <2> QED BY <2>1, <2>2
  <1>10. /\ \A d \in sent : d # c =>
               /\ Cached(d)' <=> Cached(d)
               /\ Cached(d) => results'[KeyOf(d)] = results[KeyOf(d)]
         /\ \A i \in Nat : <<Mission, i>> \in DOMAIN results' =>
               <<Mission, i>> \in DOMAIN results \/ <<Mission, i>> = k
    <2>1. \A d \in sent : d # c => KeyOf(d) # k
      <3> TAKE d \in sent
      <3>1. KeyOf(d) = <<Mission, d.seq>> /\ k = <<Mission, c.seq>>
        BY <1>1, SentFacts DEF Explained
      <3>2. d.seq = c.seq => d = c
        BY <1>1, SameKey DEF Explained
      <3> QED BY <3>1, <3>2
    <2>2. CASE Cached(c)
      <3>1. results' = results
        BY <1>3, <2>2 DEF Handled
      <3> QED BY <3>1 DEF Cached
    <2>3. CASE ~Cached(c)
      <3>1. PICK told :
               results' = [x \in DOMAIN results \cup {k} |->
                             IF x = k THEN [command |-> c, obs |-> told] ELSE results[x]]
        BY <1>3, <2>3 DEF Handled
      <3> HIDE DEF k
      <3> QED BY <2>1, <3>1 DEF Cached
    <2> QED BY <2>2, <2>3
  <1>11. FinishStep(obs)
    <2>1. ~Conflicts(c)
      BY <1>1 DEF Conflicts, Explained, Remembering
    <2>2. Reply(c) = obs
      BY <2>1 DEF Reply
    <2> QED BY <2>2 DEF Delivers
  <1>12. SamePlace(Place(robot'), Traverse(LedTo(Place(scene.robot), steps), Step(c, obs)))
    <2> DEFINE told == LedTo(Place(scene.robot), steps)
    <2>1. CASE Cached(c)
      <3>1. robot' = robot /\ results' = results
        BY <1>3, <2>1 DEF Handled
      <3>2. Executed(c)
        BY <1>8, <2>1 DEF Executed
      <3> QED BY <1>1, <3>1, <3>2 DEF Explained, Located
    <2>2. CASE ~Cached(c)
      <3>1. PICK got :
               /\ results' = [x \in DOMAIN results \cup {k} |->
                                IF x = k THEN [command |-> c, obs |-> got]
                                         ELSE results[x]]
               /\ Conforms(c, got)
        BY <1>3, <2>2 DEF Handled
      <3>2. obs = got
        BY <3>1
      <3>3. SamePlace(Place(robot'), Traverse(Place(robot), Step(c, obs)))
        BY <1>2, <3>1, <3>2 DEF Conforms
      <3>4. \A d \in sent : ~Executed(d)
        BY <1>8, <2>2 DEF Executed
      <3>5. told \in Places /\ SamePlace(Place(robot), told) /\ Place(robot) \in Places
        BY <1>6, <3>4, PlaceOf DEF Explained, Located
      <3> HIDE DEF obs, told
      <3>6. SamePlace(Traverse(Place(robot), Step(c, obs)), Traverse(told, Step(c, obs)))
        BY <1>9, <3>5, TraverseSame DEF obs
      <3>7. SamePlace(Place(robot'), Traverse(told, Step(c, obs)))
        BY <3>3, <3>6, SamePlaceTransitive
      <3> QED BY <3>7 DEF told
    <2> QED BY <2>1, <2>2
  <1> HIDE DEF obs
  <1>13. /\ steps' = Append(steps, Step(c, obs))
         /\ Len(steps') = Len(steps) + 1
         /\ \A i \in 1 .. Len(steps) : CommandOf(i)' = CommandOf(i) /\ ~GaveUp(i) /\ ~GaveUp(i)'
         /\ \A i : i = Len(steps) + 1 =>
               /\ CommandOf(i)' = c
               /\ GaveUp(i)' <=> obs.code = "mqtt_response_timeout"
         /\ Step(call, obs) = Step(c, obs)
    BY <1>1, <1>11, OneStepMore DEF Explained
  <1>14. \A i \in 1 .. Len(steps') : ~GaveUp(i)'
    <2>1. obs.code # "mqtt_response_timeout"
      BY <1>9 DEF DeviceCodes
    <2>2. \A i \in 1 .. Len(steps') : i \in 1 .. Len(steps) \/ i = Len(steps) + 1
      BY <1>7, <1>13
    <2> QED BY <1>13, <2>1, <2>2
  <1>15. node' = "decide" /\ verdict' = verdict
    BY <1>11 DEF FinishStep
  <1>16. Types'
    <2>1. Step(call, obs) \in StepsTaken
      BY <1>9, <1>13
    <2> QED BY <1>1, <1>4, <1>6, <1>11, <2>1, FinishTypes DEF Explained
  <1>17. \A d \in sent : d.seq \in 1 .. Len(steps') /\ d = CommandOf(d.seq)'
    <2> SUFFICES ASSUME NEW d \in sent
                 PROVE  d.seq \in 1 .. Len(steps') /\ d = CommandOf(d.seq)'
      OBVIOUS
    <2>1. /\ d.seq \in 1 .. Len(steps) \/ d.seq = Len(steps) + 1
          /\ d.seq > Len(steps) => d = c
          /\ d.seq \in 1 .. Len(steps) => d = CommandOf(d.seq)
      BY SentFacts DEF Explained
    <2>2. CASE d.seq \in 1 .. Len(steps)
      BY <1>7, <1>13, <2>1, <2>2
    <2>3. CASE d.seq = Len(steps) + 1
      <3>1. d = c /\ d.seq \in 1 .. Len(steps')
        BY <1>7, <1>13, <2>1, <2>3
      <3> QED BY <1>13, <2>3, <3>1
    <2> QED BY <2>1, <2>2, <2>3
  <1>18. Sending'
    BY <1>4, <1>15, <1>17 DEF Sending
  <1>19. Answers'
    <2>1. verdict # "success"
      BY <1>1 DEF Explained, Answers
    <2> QED BY <1>14, <1>15, <2>1 DEF Answers
  <1>20. \A d \in sent : ~Open(d)'
    <2>1. Len(steps') \in Nat
      BY <1>7, <1>13
    <2> QED BY <1>14, <1>17, <2>1 DEF Open
  <1>21. Remembering'
    <2>1. \A d \in sent : Cached(d)'
      <3> TAKE d \in sent
      <3>1. CASE d = c
        BY <1>9, <3>1 DEF Cached
      <3>2. CASE d # c
        BY <1>8, <1>10, <3>2 DEF Explained, Remembering
      <3> QED BY <3>1, <3>2
    <2>2. \A d \in sent :
             /\ results'[KeyOf(d)].command = d
             /\ results'[KeyOf(d)].obs.code \in DeviceCodes
             /\ Step(d, results'[KeyOf(d)].obs) \in StepsTaken
      <3> TAKE d \in sent
      <3>1. CASE d = c
        BY <1>9, <3>1 DEF obs
      <3>2. CASE d # c
        <4>1. Cached(d) /\ results'[KeyOf(d)] = results[KeyOf(d)]
          BY <1>8, <1>10, <3>2 DEF Explained, Remembering
        <4> QED BY <4>1 DEF Explained, Remembering
      <3> QED BY <3>1, <3>2
    <2>3. \A i \in Nat : <<Mission, i>> \in DOMAIN results' => \E d \in sent : d.seq = i
      <3> SUFFICES ASSUME NEW i \in Nat, <<Mission, i>> \in DOMAIN results'
                   PROVE  \E d \in sent : d.seq = i
        OBVIOUS
      <3>1. CASE <<Mission, i>> \in DOMAIN results
        BY <3>1 DEF Explained, Remembering
      <3>2. CASE <<Mission, i>> = k
        BY <1>1, <3>2 DEF KeyOf
      <3> QED BY <1>10, <3>1, <3>2
    <2> QED BY <1>4, <1>20, <2>1, <2>2, <2>3 DEF Remembering
  <1>22. Located'
    <2> DEFINE start == Place(scene.robot)
               told  == LedTo(start, steps)
    <2>1. HasWay(start, steps) /\ told \in Places /\ steps \in Seq(StepsTaken)
      BY DEF Explained, Located, Types
    <2>2. HasWay(start, steps') /\ LedTo(start, steps') = Traverse(told, Step(c, obs))
      BY <1>13, <2>1, OneStepFurther
    <2>3. LedTo(start, steps') \in Places
      BY <1>9, <2>1, <2>2, TraverseType DEF obs
    <2>4. SamePlace(Place(robot'), LedTo(start, steps'))
      BY <1>12, <2>2
    <2>5. Place(scene.robot)' = start
      BY <1>4
    <2>6. \A d \in sent : ~Executed(d)'
      BY <1>20 DEF Executed
    <2> QED BY <1>4, <2>2, <2>3, <2>4, <2>5, <2>6 DEF Located
  <1> QED BY <1>5, <1>16, <1>18, <1>19, <1>21, <1>22 DEF Explained

-----------------------------------------------------------------------------
(* What the planner calls.                                                 *)

Callable(next) == next.kind # "final" => CallOf(next) \in Calls

LEMMA CallsOnly ==
    ASSUME NEW tool \in Tools, NEW amount \in Int,
           tool = "turn_robot" => amount \in Quarters
    PROVE  CallOf(Call(tool, amount)) \in Calls /\ Callable(Call(tool, amount))
  BY DEF Call, CallOf, Calls, Callable

LEMMA EndsOnly == \A v : Callable(Finish(v))
  BY DEF Finish, Callable

LEMMA DetourCalls ==
    ASSUME NEW s \in Seq(StepsTaken), NEW b \in 1 .. Len(s), NEW resume \in Int
    PROVE  LET next == PlanDetour(s, b, resume)
           IN  Callable(next)
  <1> DEFINE taken == Len(s) - b
             scan  == s[b + 1].obs.state
             left  == Remaining(s[b])
  <1>1. Len(s) \in Nat /\ taken \in Nat /\ s[b] \in StepsTaken
    OBVIOUS
  <1>2. left \in Int
    BY <1>1 DEF StepsTaken, Observations, Remaining
  <1>3. CASE NoWay(s, b) \/ (taken > 4 /\ ~(taken = 5 /\ LastStep(s).obs.status = "success"
                                                       /\ resume # 0))
    <2>1. PlanDetour(s, b, resume) \in {Finish("rejected"), Finish("success")}
      BY <1>1, <1>3 DEF PlanDetour
    <2> QED BY <2>1, EndsOnly
  <1>4. CASE ~NoWay(s, b) /\ taken <= 4
    <2>1. taken \in 1 .. 4 /\ b + 1 \in 1 .. Len(s)
      BY <1>1, <1>4 DEF NoWay
    <2>2. s[b + 1] \in StepsTaken /\ scan # NoState
      BY <1>4, <2>1 DEF NoWay
    <2>3. scan \in RobotStates
      BY <2>2 DEF StepsTaken, Observations, StatesTold
    <2> HIDE DEF scan, left
    <2>4. WiderSide(scan) \in {90, -90} /\ Clearance(scan) \in Int
      BY <2>3 DEF WiderSide, Clearance, RobotStates
    <2>5. /\ WiderSide(scan) \in Quarters /\ -WiderSide(scan) \in Quarters
          /\ WiderSide(scan) \in Int /\ -WiderSide(scan) \in Int
          /\ AtMost(MaxLateralDistance, Clearance(scan) - StopClearance) \in Int
      BY <2>4 DEF Quarters, AtMost, MaxLateralDistance, StopClearance
    <2>6. "turn_robot" \in Tools /\ "move_robot" \in Tools
      BY DEF Tools
    <2>7. \A n \in 1 .. 4 : Callable(Legs(scan, left)[n])
      BY <1>2, <2>5, <2>6, CallsOnly DEF Legs
    <2>8. PlanDetour(s, b, resume) = Legs(scan, left)[taken]
      BY <1>4 DEF PlanDetour, scan, left
    <2> QED BY <2>1, <2>7, <2>8
  <1>5. CASE ~NoWay(s, b) /\ taken = 5 /\ LastStep(s).obs.status = "success" /\ resume # 0
    <2>1. PlanDetour(s, b, resume) = Call("inspect_semantic_world", resume)
      BY <1>5 DEF PlanDetour
    <2>2. "inspect_semantic_world" \in Tools
      BY DEF Tools
    <2> QED BY <2>1, <2>2, CallsOnly
  <1> QED BY <1>1, <1>3, <1>4, <1>5

LEMMA ProgressType ==
    ASSUME NEW s PROVE Progress(s) \in Nat
  <1> DEFINE bottle == {i \in DOMAIN s : Confirms(s[i], 1)}
             zone   == {j \in DOMAIN s : /\ Confirms(s[j], 2)
                                         /\ \E i \in bottle : i < j}
             seen   == {t \in Targets : <<bottle, zone>>[t] # {}}
  <1>1. IsFiniteSet(Targets)
    <2>1. IsFiniteSet({1}) /\ IsFiniteSet({2})
      BY FS_Singleton
    <2>2. IsFiniteSet({1} \cup {2})
      BY <2>1, FS_Union
    <2>3. Targets = {1} \cup {2}
      BY DEF Targets
    <2> QED BY <2>2, <2>3
  <1>2. IsFiniteSet(seen)
    <2>1. seen \subseteq Targets
      OBVIOUS
    <2> HIDE DEF seen
    <2> QED BY <1>1, <2>1, FS_Subset
  <1>3. Cardinality(seen) \in Nat
    BY <1>2, FS_CardinalityType
  <1> QED BY <1>3 DEF Progress

LEMMA ApproachCalls ==
    ASSUME NEW object \in ObjectsTold, NEW target \in Int
    PROVE  LET next == Approach(object, target)
           IN  Callable(next)
  <1>1. {"inspect_semantic_world", "turn_robot", "move_robot"} \subseteq Tools
    BY DEF Tools
  <1>2. Callable(Finish("rejected"))
    BY EndsOnly
  <1>3. CASE object # NoObject
    <2>1. object.bearing \in Quarters /\ object.distance \in Int /\ object.radius \in Int
      BY <1>3, MissionAssumption DEF ObjectsTold
    <2>2. object.bearing \in Int /\ AtMost(object.distance - object.radius, 200) \in Int
      BY <2>1 DEF Quarters, AtMost
    <2>3. /\ Callable(Call("inspect_semantic_world", target))
          /\ Callable(Call("turn_robot", object.bearing))
          /\ Callable(Call("move_robot", AtMost(object.distance - object.radius, 200)))
      BY <1>1, <2>1, <2>2, CallsOnly
    <2> QED BY <1>2, <2>3 DEF Approach
  <1> QED BY <1>2, <1>3 DEF Approach

LEMMA SemanticCalls ==
    ASSUME NEW s \in Seq(StepsTaken), NEW l \in Nat
    PROVE  LET next == PlanSemantic(s, l)
           IN  Callable(next)
  <1> DEFINE blocked == BlockedSteps(s)
             target  == Progress(s) + 1
             next    == PlanSemantic(s, l)
  <1>1. target \in Int /\ "inspect_semantic_world" \in Tools
    BY ProgressType DEF Tools
  <1>2. Callable(Call("inspect_semantic_world", target))
    BY <1>1, CallsOnly
  <1>3. blocked # {} => FirstOf(blocked) \in 1 .. Len(s)
    BY BlockedIndices, FirstIsFirst
  <1>4. LET detour == PlanDetour(s, FirstOf(blocked), target)
        IN  blocked # {} => Callable(detour)
    BY <1>1, <1>3, DetourCalls
  <1>5. LET approach == Approach(LastStep(s).obs.object, target)
        IN  s # <<>> => Callable(approach)
    <2> SUFFICES ASSUME s # <<>> PROVE LastStep(s).obs.object \in ObjectsTold
      BY <1>1, ApproachCalls
    <2>1. Len(s) \in 1 .. Len(s)
      OBVIOUS
    <2> QED BY <2>1 DEF LastStep, StepsTaken, Observations
  <1>6. \A v : Callable(Finish(v))
    BY EndsOnly
  <1> HIDE DEF target
  <1>7. \/ \E v : next = Finish(v)
        \/ blocked # {} /\ next = PlanDetour(s, FirstOf(blocked), target)
        \/ next = Call("inspect_semantic_world", target)
        \/ s # <<>> /\ next = Approach(LastStep(s).obs.object, target)
    BY DEF PlanSemantic, target
  <1> HIDE DEF next, blocked
  <1>8. Callable(next)
    BY <1>2, <1>4, <1>5, <1>6, <1>7
  <1> QED BY <1>8 DEF next

LEMMA PlanCalls ==
    ASSUME NEW s \in Seq(StepsTaken), NEW l \in Nat, NEW g,
           g.kind \in GoalKinds, g.amount \in Int
    PROVE  LET next == Plan(g, s, l)
           IN  Callable(next)
  <1>1. \A v : Callable(Finish(v))
    BY EndsOnly
  <1>2. CASE g.kind = "unsupported"
    BY <1>1, <1>2 DEF Plan
  <1>3. CASE g.kind = "semantic"
    BY <1>3, SemanticCalls DEF Plan
  <1>4. CASE g.kind \notin {"unsupported", "semantic"}
    <2> DEFINE blocked == BlockedSteps(s)
               next    == PlanGoal(g, s, l)
    <2>1. next = Plan(g, s, l)
      BY <1>4 DEF Plan
    <2>2. Callable(Opening(g))
      <3>1. AtMost(g.amount, 200) \in Int
        BY DEF AtMost
      <3>2. {"emergency_stop", "get_robot_state", "scan_obstacles", "move_robot"} \subseteq Tools
            /\ 0 \in Int /\ 1000 \in Int
        BY DEF Tools
      <3>3. /\ Callable(Call("emergency_stop", 0))
            /\ Callable(Call("get_robot_state", 0))
            /\ Callable(Call("scan_obstacles", 0))
            /\ Callable(Call("move_robot", 1000))
            /\ Callable(Call("move_robot", AtMost(g.amount, 200)))
        BY <3>1, <3>2, CallsOnly
      <3>4. g.kind \in {"emergency", "state", "scan", "fast", "move"}
        BY <1>4 DEF GoalKinds
      <3> QED BY <3>3, <3>4 DEF Opening
    <2>3. blocked # {} => FirstOf(blocked) \in 1 .. Len(s)
      BY BlockedIndices, FirstIsFirst
    <2>4. LET detour == PlanDetour(s, FirstOf(blocked), 0)
          IN  blocked # {} => Callable(detour)
      BY <2>3, DetourCalls
    <2>5. Callable(Call("scan_obstacles", 0))
      BY CallsOnly DEF Tools
    <2>6. \/ next = Opening(g)
          \/ \E v : next = Finish(v)
          \/ next = Call("scan_obstacles", 0)
          \/ blocked # {} /\ next = PlanDetour(s, FirstOf(blocked), 0)
      BY DEF PlanGoal
    <2> HIDE DEF next, blocked
    <2>7. Callable(next)
      BY <1>1, <2>2, <2>4, <2>5, <2>6
    <2> QED BY <2>1, <2>7
  <1> QED BY <1>2, <1>3, <1>4

-----------------------------------------------------------------------------
(* The run, step by step.                                                  *)

\* A step of the graph that sends nothing and finishes no step.
LEMMA GraphOnly ==
    ASSUME Explained, UNCHANGED <<setting, steps, known, sent, deviceVars>>,
           node' \in {"planner", "execute", "decide", "end"}, node # "wait",
           node' = "execute" => CallOf(call') \in Calls /\ Len(steps) < limit,
           Answers'
    PROVE  Explained'
  <1>1. UNCHANGED <<goal, limit, scene, steps, known, sent, robot, results, recency>>
    BY DEF setting, deviceVars
  <1>2. Types'
    BY <1>1 DEF Explained, Types, CallOf
  <1>3. Cache'
    BY <1>1 DEF Explained, Cache, CacheHolds, RunKeys
  <1>4. \A i : CommandOf(i)' = CommandOf(i) /\ (GaveUp(i)' <=> GaveUp(i))
    BY <1>1 DEF CommandOf, GaveUp
  <1>5. Sending'
    BY <1>1, <1>4 DEF Explained, Sending
  <1>6. \A c \in sent : /\ Open(c)' <=> Open(c)
                        /\ Cached(c)' <=> Cached(c)
                        /\ Executed(c)' <=> Executed(c)
    BY <1>1, <1>4 DEF Open, Executed, Cached
  <1>7. Remembering'
    BY <1>1, <1>6 DEF Explained, Remembering
  <1>8. Located'
    BY <1>1, <1>6 DEF Explained, Located
  <1> QED BY <1>2, <1>3, <1>5, <1>7, <1>8 DEF Explained

LEMMA PlansExplained ==
    ASSUME Explained, Plans
    PROVE  Explained'
  <1> DEFINE next == IF Len(steps) >= limit THEN Finish("step_limit")
                     ELSE Plan(goal, steps, limit)
  <1>1. /\ node = "planner" /\ UNCHANGED <<setting, steps, known, sent, deviceVars>>
        /\ IF next.kind = "final" THEN node' = "end" /\ call' = call
           ELSE call' = next /\ node' = "execute" /\ verdict' = verdict
    BY DEF Plans, EndWith
  <1>2. Callable(next)
    BY PlanCalls, EndsOnly DEF Explained, Types
  <1>3. next.kind # "final" => Len(steps) < limit
    BY DEF Finish, Explained, Types
  <1> HIDE DEF next
  <1>4. node' = "execute" => CallOf(call') \in Calls /\ Len(steps) < limit
    BY <1>1, <1>2, <1>3 DEF Callable
  <1>5. \A i \in 1 .. Len(steps) : ~GaveUp(i)
    BY <1>1 DEF Explained, Answers
  <1>6. Answers'
    <2>1. \A i \in 1 .. Len(steps') : ~GaveUp(i)'
      BY <1>1, <1>5 DEF GaveUp
    <2>2. node' # "end" => verdict' # "success"
      BY <1>1 DEF Explained, Answers
    <2> QED BY <2>1, <2>2 DEF Answers
  <1> QED BY <1>1, <1>4, <1>6, GraphOnly

LEMMA DecidesExplained ==
    ASSUME Explained, Decides
    PROVE  Explained'
  <1>1. /\ node = "decide" /\ UNCHANGED <<setting, steps, known, sent, deviceVars>>
        /\ \/ /\ Outcome(LastStep(steps).obs) = "none"
              /\ node' = "planner" /\ verdict' = verdict
           \/ /\ node' = "end" /\ verdict' \in {"emergency_stop", "timeout"}
    BY DEF Decides, EndWith, Outcome
  <1>2. verdict # "success"
    BY <1>1 DEF Explained, Answers
  <1>3. \A i \in 1 .. Len(steps) :
            GaveUp(i) => i = Len(steps) /\ steps[i].obs.status = "timeout"
    BY DEF Explained, Answers
  <1>4. \A i \in 1 .. Len(steps) : GaveUp(i) => node' = "end"
    BY <1>1, <1>3 DEF Outcome, LastStep
  <1>5. \A i : GaveUp(i)' <=> GaveUp(i)
    BY <1>1 DEF GaveUp
  <1>6. Answers'
    BY <1>1, <1>2, <1>3, <1>4, <1>5 DEF Answers
  <1> QED BY <1>1, <1>6, GraphOnly

LEMMA PublishesExplained ==
    ASSUME Explained, Publishes
    PROVE  Explained'
  <1>1. /\ UNCHANGED <<goal, limit, scene, call, steps, known, verdict, robot, results, recency>>
        /\ node = "execute" /\ node' = "wait" /\ sent' = sent \cup {Command}
    BY DEF Publishes, setting, deviceVars
  <1>2. Types'
    BY <1>1 DEF Explained, Types, CallOf
  <1>3. Cache'
    BY <1>1 DEF Explained, Cache, CacheHolds, RunKeys
  <1>4. Command' = Command
        /\ \A i : CommandOf(i)' = CommandOf(i) /\ (GaveUp(i)' <=> GaveUp(i))
    BY <1>1 DEF Command, CommandOf, GaveUp
  <1>5. Sending'
    BY <1>1, <1>4 DEF Explained, Sending
  <1>6. Answers'
    BY <1>1, <1>4 DEF Explained, Answers
  <1>7. Command.seq = Len(steps) + 1 /\ KeyOf(Command) = <<Mission, Command.seq>>
        /\ Command.seq \in Nat /\ Len(steps) \in Nat
    BY DEF Command, KeyOf, Explained, Types
  <1>8. \A c \in sent : c.seq \in 1 .. Len(steps)
    BY <1>1 DEF Explained, Sending
  <1>9. ~Cached(Command)
    <2>1. \A c \in sent : c.seq # Command.seq
      BY <1>7, <1>8
    <2> QED BY <1>7, <2>1 DEF Explained, Remembering, Cached
  <1>10. \A c : /\ Open(c)' <=> Open(c)
                /\ Cached(c)' <=> Cached(c)
                /\ Executed(c)' <=> Executed(c)
    BY <1>1, <1>4 DEF Open, Executed, Cached
  <1>11. Open(Command) /\ ~Executed(Command)
    BY <1>7, <1>9 DEF Open, Executed
  <1>12. Remembering'
    BY <1>1, <1>9, <1>10, <1>11 DEF Explained, Remembering
  <1>13. Located'
    BY <1>1, <1>10, <1>11 DEF Explained, Located
  <1> QED BY <1>2, <1>3, <1>5, <1>6, <1>12, <1>13 DEF Explained

\* For each run, the cache has room for its commands and those of the others.
CacheHoldsRuns == \A mission \in Missions : CacheHolds(mission.limit)

LEMMA InitExplained ==
    ASSUME CacheHoldsRuns, Init
    PROVE  Explained
  <1>1. PICK mission \in Missions :
            goal = mission.goal /\ limit = mission.limit /\ scene = mission.scene
    BY DEF Init
  <1>2. /\ goal.kind \in GoalKinds /\ goal.amount \in Int /\ limit \in Nat
        /\ scene.robot \in RobotStates
    BY <1>1, MissionAssumption
  <1>3. /\ node = "planner" /\ steps = <<>> /\ known = NoState /\ verdict = "none"
        /\ sent = {} /\ robot = Sense(scene.robot)
        /\ DOMAIN results = {} /\ DOMAIN recency = {}
    BY DEF Init, DeviceInit, EmptyLine
  <1>4. robot \in RobotStates /\ Place(robot) = Place(scene.robot)
    BY <1>2, <1>3, Sensed
  <1>5. steps \in Seq(StepsTaken) /\ Len(steps) = 0
    BY <1>3
  <1>6. Types
    BY <1>2, <1>3, <1>4, <1>5 DEF Types, StatesTold
  <1>7. Cache
    BY <1>1, <1>3 DEF Cache, CacheHoldsRuns
  <1>8. Sending /\ Answers
    BY <1>3, <1>5 DEF Sending, Answers
  <1>9. Remembering
    BY <1>3 DEF Remembering
  <1>10. Located
    <2>1. HasWay(Place(scene.robot), steps) /\ LedTo(Place(scene.robot), steps) = Place(scene.robot)
      BY <1>3, NoStepsYet
    <2>2. Place(scene.robot) \in Places
      BY <1>2, PlaceOf
    <2> QED BY <1>3, <1>4, <2>1, <2>2 DEF Located, SamePlace
  <1> QED BY <1>6, <1>7, <1>8, <1>9, <1>10 DEF Explained

LEMMA NextExplained ==
    ASSUME NobodyElseDrives
    PROVE  Explained /\ [Next]_vars => Explained'
  <1> SUFFICES ASSUME Explained, [Next]_vars PROVE Explained'
    OBVIOUS
  <1>1. CASE Plans
    BY <1>1, PlansExplained
  <1>2. CASE RefusesLocally
    <2> DEFINE decision == LocalDecision
    <2>1. decision.code \in DeviceCodes
      <3>1. decision = SafetyCheck(Command, Believed, FALSE) /\ decision.status # "allow"
        BY <1>2 DEF RefusesLocally, LocalDecision
      <3> HIDE DEF decision
      <3> QED BY <3>1, SafetyDecides
    <2>2. FinishStep(Feedback("rejected", decision.code, known))
          /\ node = "execute" /\ UNCHANGED <<setting, sent, expired, deviceVars>>
      BY <1>2 DEF RefusesLocally
    <2> HIDE DEF decision
    <2> QED BY <2>1, <2>2, UnheardStep DEF Statuses, Codes
  <1>3. CASE Publishes
    BY <1>3, PublishesExplained
  <1>4. CASE TimesOut
    <2>1. "timeout" \in Statuses /\ "mqtt_response_timeout" \in Codes
      BY DEF Statuses, Codes
    <2>2. FinishStep(Feedback("timeout", "mqtt_response_timeout", known))
          /\ node = "wait" /\ UNCHANGED <<setting, sent, expired, deviceVars>>
      BY <1>4 DEF TimesOut
    <2> QED BY <2>1, <2>2, UnheardStep
  <1>5. CASE Decides
    BY <1>5, DecidesExplained
  <1>6. CASE Delivers
    BY <1>6, DeliveryExplained
  <1>7. CASE DeliversInVain
    BY <1>7, VainExplained
  <1>8. CASE ForeignCommand
    BY <1>8, ForeignExplained
  <1>9. CASE Harness
    BY <1>9, HarnessExplained
  <1>10. CASE DeadlinePasses \/ UNCHANGED vars
    <2>1. UNCHANGED <<setting, graphVars, sent, deviceVars>>
      BY <1>10 DEF DeadlinePasses, vars
    <2>2. UNCHANGED <<robot, results, recency, limit>>
      BY <2>1 DEF deviceVars, setting
    <2>3. Cache'
      BY <2>2 DEF Explained, Cache, CacheHolds, RunKeys
    <2>4. \A c \in sent : /\ Cached(c)' <=> Cached(c)
                          /\ Cached(c) => results'[KeyOf(c)] = results[KeyOf(c)]
      BY <2>2 DEF Cached
    <2> QED BY <2>1, <2>2, <2>3, <2>4, DeviceElsewhere DEF Explained, Types
  <1> QED BY <1>1, <1>2, <1>3, <1>4, <1>5, <1>6, <1>7, <1>8, <1>9, <1>10 DEF Next

\* As long as nobody else drives the robot and the device forgets nothing of
\* a run: at every moment the robot is where the run's answers led it, and one
\* command further if that was executed and its answer is still out or lost.
THEOREM ExplainedInductive ==
    ASSUME NobodyElseDrives, CacheHoldsRuns
    PROVE  Spec => []Explained
  <1>1. Init => Explained
    BY InitExplained
  <1>2. Explained /\ [Next]_vars => Explained'
    BY NextExplained
  <1> QED BY <1>1, <1>2, PTL DEF Spec

\* The journal of a run is the whole truth about its motions.
THEOREM PoseExplainedHolds ==
    ASSUME NobodyElseDrives, CacheHoldsRuns
    PROVE  Spec => []PoseExplained
  <1>1. ASSUME Explained
        PROVE  PoseExplained
    <2> DEFINE told == LedTo(Place(scene.robot), steps)
    <2>1. CASE \A c \in sent : ~Executed(c)
      BY <1>1, <2>1 DEF Explained, Located, PoseExplained
    <2>2. CASE \E c \in sent : Executed(c)
      <3>1. PICK c \in sent : Executed(c)
        BY <2>2
      <3>2. SamePlace(Place(robot), Traverse(told, Step(c, results[KeyOf(c)].obs)))
        BY <1>1, <3>1 DEF Explained, Located
      <3>3. Step(c, results[KeyOf(c)].obs) \in Unanswered
        BY <3>1 DEF Unanswered, Executed, Cached, Open, GaveUp, Step, CallOf
      <3> QED BY <3>2, <3>3 DEF PoseExplained
    <2> QED BY <2>1, <2>2
  <1> QED BY <1>1, ExplainedInductive, PTL

-----------------------------------------------------------------------------
(* A mission to move.                                                      *)

\* Its calls: move, and if that is blocked scan, turn aside, move aside, turn
\* back and move what was left.
ScriptCall(g, s, i) ==
    IF i = 1 THEN Call("move_robot", AtMost(g.amount, 200))
    ELSE IF i = 2 THEN Call("scan_obstacles", 0)
    ELSE Legs(s[2].obs.state, Remaining(s[1]))[i - 2]

OnScript(g, s) ==
    /\ Len(s) <= 6
    /\ \A i \in 1 .. Len(s) : s[i].call = CallOf(ScriptCall(g, s, i))

\* The answers of the first n steps that let it go on: the move was blocked
\* on its way, the others succeeded.
LedOn(s, n) ==
    /\ n >= 1 => s[1].obs.status = "blocked"
    /\ n >= 2 => Remaining(s[1]) > 0
    /\ \A i \in 2 .. n : s[i].obs.status = "success"

Finished(s) ==
    \/ Len(s) = 1 /\ s[1].obs.status = "success"
    \/ Len(s) = 6 /\ LedOn(s, 6)

Scripted ==
    goal.kind = "move" =>
        /\ OnScript(goal, steps)
        /\ LedOn(steps, Len(steps) - 1)
        /\ node \in {"execute", "wait"} =>
              /\ Len(steps) < 6
              /\ CallOf(call) = CallOf(ScriptCall(goal, steps, Len(steps) + 1))
              /\ LedOn(steps, Len(steps))
        /\ verdict = "success" => Finished(steps)

LEMMA ScriptKept ==
    ASSUME NEW g, NEW s \in Seq(StepsTaken), NEW step
    PROVE  LET t == Append(s, step)
           IN  /\ Len(t) = Len(s) + 1 /\ t[Len(s) + 1] = step
               /\ \A i \in 1 .. Len(s) : t[i] = s[i]
               /\ \A i \in 1 .. Len(s) + 1 : ScriptCall(g, t, i) = ScriptCall(g, s, i)
               /\ \A n \in 0 .. Len(s) : LedOn(t, n) <=> LedOn(s, n)
  <1> DEFINE t == Append(s, step)
  <1>1. /\ Len(t) = Len(s) + 1 /\ Len(s) \in Nat /\ t[Len(s) + 1] = step
        /\ \A i \in 1 .. Len(s) : t[i] = s[i]
    OBVIOUS
  <1> HIDE DEF t
  <1>2. ASSUME NEW i \in 1 .. Len(s) + 1
        PROVE  ScriptCall(g, t, i) = ScriptCall(g, s, i)
    <2>1. CASE i \in {1, 2}
      BY <2>1 DEF ScriptCall
    <2>2. CASE i \notin {1, 2}
      <3>1. 1 \in 1 .. Len(s) /\ 2 \in 1 .. Len(s)
        BY <1>1, <2>2
      <3>2. t[1] = s[1] /\ t[2] = s[2]
        BY <1>1, <3>1
      <3> QED BY <3>2 DEF ScriptCall
    <2> QED BY <2>1, <2>2
  <1>3. ASSUME NEW n \in 0 .. Len(s)
        PROVE  LedOn(t, n) <=> LedOn(s, n)
    <2>1. n >= 1 => t[1] = s[1]
      BY <1>1
    <2>2. \A i \in 2 .. n : t[i] = s[i]
      BY <1>1
    <2> QED BY <2>1, <2>2 DEF LedOn
  <1> QED BY <1>1, <1>2, <1>3 DEF t

\* The planner keeps to the script, and ends it with success at its end only.
LEMMA PlanScripted ==
    ASSUME NEW g, g.kind = "move", NEW s \in Seq(StepsTaken), NEW l \in Nat,
           OnScript(g, s), LedOn(s, Len(s) - 1)
    PROVE  LET next == Plan(g, s, l)
           IN  /\ next.kind # "final" =>
                     /\ Len(s) < 6
                     /\ CallOf(next) = CallOf(ScriptCall(g, s, Len(s) + 1))
                     /\ LedOn(s, Len(s))
               /\ next.kind = "final" /\ next.verdict = "success" => Finished(s)
  <1> DEFINE status  == LastStep(s).obs.status
             next    == PlanGoal(g, s, l)
             good(d) == /\ d.kind # "final" =>
                              /\ Len(s) < 6
                              /\ CallOf(d) = CallOf(ScriptCall(g, s, Len(s) + 1))
                              /\ LedOn(s, Len(s))
                        /\ d.kind = "final" /\ d.verdict = "success" => Finished(s)
  <1>1. next = Plan(g, s, l)
    BY DEF Plan
  <1>2. /\ BlockedSteps(s) \subseteq 1 .. Len(s) /\ IsFiniteSet(BlockedSteps(s)) /\ Len(s) \in 0 .. 6
        /\ \A i \in 1 .. Len(s) : i \in BlockedSteps(s) <=> s[i].obs.status = "blocked"
    <2>1. /\ BlockedSteps(s) \subseteq 1 .. Len(s) /\ IsFiniteSet(BlockedSteps(s)) /\ Len(s) \in Nat
      BY BlockedIndices
    <2>2. Len(s) \in 0 .. 6
      <3>1. Len(s) \in Nat /\ Len(s) <= 6
        BY DEF OnScript
      <3>2. \A n \in Nat : n <= 6 => n \in 0 .. 6
        OBVIOUS
      <3> QED BY <3>1, <3>2
    <2>3. \A i \in 1 .. Len(s) : i \in BlockedSteps(s) <=> s[i].obs.status = "blocked"
      BY DEF BlockedSteps
    <2> QED BY <2>1, <2>2, <2>3
  <1>3. \A v : v # "success" => good(Finish(v))
    BY DEF Finish
  <1>4. CASE s = <<>>
    <2>1. next = Call("move_robot", AtMost(g.amount, 200)) /\ Len(s) = 0
      BY <1>4 DEF PlanGoal, Opening
    <2>2. LedOn(s, 0) /\ ScriptCall(g, s, 1) = next
      BY <2>1 DEF LedOn, ScriptCall
    <2>3. next.kind = "call"
      BY <2>1 DEF Call
    <2> HIDE DEF next
    <2> QED BY <1>1, <2>1, <2>2, <2>3
  <1>5. CASE s # <<>> /\ status \in {"rejected", "timeout", "emergency_stop"}
    <2>1. next = Finish(status) /\ status # "success"
      BY <1>5 DEF PlanGoal
    <2> HIDE DEF next, good, status
    <2>2. good(next)
      BY <1>3, <2>1
    <2> QED BY <1>1, <2>2 DEF good
  <1>6. CASE s # <<>> /\ status = "blocked"
    <2>1. Len(s) \in BlockedSteps(s) /\ Len(s) >= 1
      BY <1>2, <1>6 DEF LastStep
    <2>2. CASE Cardinality(BlockedSteps(s)) > 1 \/ NoBudget(s, l)
      <3>1. next = Finish("rejected") \/ next = Finish("step_limit")
        BY <1>6, <2>2 DEF PlanGoal
      <3> HIDE DEF next, good
      <3>2. good(next)
        BY <1>3, <3>1
      <3> QED BY <1>1, <3>2 DEF good
    <2>3. CASE ~(Cardinality(BlockedSteps(s)) > 1) /\ ~NoBudget(s, l)
      <3>1. next = Call("scan_obstacles", 0)
        BY <1>6, <2>3 DEF PlanGoal
      <3>2. Len(s) = 1
        <4>1. Len(s) > 1 => 1 \in BlockedSteps(s)
          BY <1>2 DEF LedOn
        <4>2. Len(s) > 1 => Len(s) = 1
          BY <1>2, <2>1, <2>3, <4>1, AtMostOne
        <4> QED BY <1>2, <2>1, <4>2
      <3>3. LedOn(s, 1)
        BY <1>2, <2>1, <3>2 DEF LedOn
      <3>4. ScriptCall(g, s, 2) = next /\ next.kind = "call"
        BY <3>1 DEF ScriptCall, Call
      <3> HIDE DEF next
      <3> QED BY <1>1, <3>2, <3>3, <3>4
    <2> QED BY <2>2, <2>3
  <1>7. CASE s # <<>> /\ status = "success"
    <2>1. Len(s) \in 1 .. 6 /\ Len(s) \notin BlockedSteps(s) /\ s[Len(s)].obs.status = "success"
      BY <1>2, <1>7 DEF LastStep
    <2>2. CASE BlockedSteps(s) = {}
      <3>1. Len(s) = 1
        <4>1. Len(s) > 1 => 1 \in BlockedSteps(s)
          BY <1>2 DEF LedOn
        <4>2. ~(Len(s) > 1)
          BY <2>2, <4>1
        <4>3. \A n \in 1 .. 6 : ~(n > 1) => n = 1
          OBVIOUS
        <4> QED BY <2>1, <4>2, <4>3
      <3>2. next = Finish("success")
        BY <1>7, <2>2 DEF PlanGoal
      <3>3. Finished(s)
        BY <2>1, <3>1 DEF Finished
      <3>4. next.kind = "final"
        BY <3>2 DEF Finish
      <3> HIDE DEF next
      <3> QED BY <1>1, <3>3, <3>4
    <2>3. CASE BlockedSteps(s) # {}
      <3>1. Len(s) \in 2 .. 6
        BY <1>2, <2>1, <2>3
      <3>2. 1 \in BlockedSteps(s) /\ s[1].obs.status = "blocked"
        BY <1>2, <3>1 DEF LedOn
      <3>3. FirstOf(BlockedSteps(s)) = 1
        BY <1>2, <3>2, FirstIsFirst
      <3>4. next = PlanDetour(s, 1, 0)
        BY <1>7, <2>3, <3>3 DEF PlanGoal
      <3>5. CASE NoWay(s, 1)
        <4>1. next = Finish("rejected")
          BY <3>4, <3>5 DEF PlanDetour
        <4> HIDE DEF next, good
        <4>2. good(next)
          BY <1>3, <4>1
        <4> QED BY <1>1, <4>2 DEF good
      <3>6. CASE ~NoWay(s, 1)
        <4>1. Remaining(s[1]) > 0
          <5>1. s[1] \in StepsTaken
            BY <3>1
          <5>2. Remaining(s[1]) \in Int
            BY <5>1 DEF StepsTaken, Observations, Remaining
          <5> QED BY <3>6, <5>2 DEF NoWay
        <4>2. LedOn(s, Len(s))
          <5>1. \A i \in 2 .. Len(s) : s[i].obs.status = "success"
            <6>1. \A i \in 2 .. Len(s) - 1 : s[i].obs.status = "success"
              BY DEF LedOn
            <6>2. \A i \in 2 .. Len(s) : i \in 2 .. Len(s) - 1 \/ i = Len(s)
              BY <3>1
            <6> QED BY <2>1, <6>1, <6>2
          <5> QED BY <3>2, <4>1, <5>1 DEF LedOn
        <4>3. CASE Len(s) \in 2 .. 5
          <5> DEFINE legs == Legs(s[2].obs.state, Remaining(s[1]))
          <5>0. Len(s) - 1 \in 1 .. 4 /\ Len(s) - 1 <= 4 /\ (Len(s) + 1) - 2 = Len(s) - 1
                /\ Len(s) + 1 # 1 /\ Len(s) + 1 # 2 /\ Len(s) < 6
            <6>1. \A n \in 2 .. 5 : n - 1 \in 1 .. 4 /\ n - 1 <= 4 /\ (n + 1) - 2 = n - 1
                                     /\ n + 1 # 1 /\ n + 1 # 2 /\ n < 6
              OBVIOUS
            <6> HIDE DEF legs
            <6> QED BY <4>3, <6>1
          <5>1. next = legs[Len(s) - 1]
            <6>1. 1 + 1 = 2
              OBVIOUS
            <6> HIDE DEF next
            <6> QED BY <3>4, <3>6, <5>0, <6>1 DEF PlanDetour
          <5>2. ScriptCall(g, s, Len(s) + 1) = legs[Len(s) - 1]
            BY <5>0 DEF ScriptCall
          <5>3. next.kind = "call"
            <6>1. \A n \in 1 .. 4 : legs[n].kind = "call"
              BY DEF Legs, Call
            <6> HIDE DEF legs, next
            <6> QED BY <5>0, <5>1, <6>1
          <5> HIDE DEF next, legs
          <5> QED BY <1>1, <4>2, <5>0, <5>1, <5>2, <5>3
        <4>4. CASE Len(s) = 6
          <5>1. next = Finish("success")
            BY <1>7, <3>4, <3>6, <4>4 DEF PlanDetour
          <5>2. Finished(s) /\ next.kind = "final"
            BY <4>2, <4>4, <5>1 DEF Finished, Finish
          <5> HIDE DEF next
          <5> QED BY <1>1, <5>2
        <4> QED BY <3>1, <4>3, <4>4
      <3> QED BY <3>5, <3>6
    <2> QED BY <2>2, <2>3
  <1>8. s # <<>> => status \in Statuses
    <2> SUFFICES ASSUME s # <<>> PROVE status \in Statuses
      OBVIOUS
    <2>1. Len(s) \in 1 .. Len(s)
      OBVIOUS
    <2> QED BY <2>1 DEF LastStep, StepsTaken, Observations
  <1> QED BY <1>4, <1>5, <1>6, <1>7, <1>8 DEF Statuses

\* A finished step is that of the script, and what came before it led on.
LEMMA StepScripted ==
    ASSUME Explained, Scripted, node \in {"execute", "wait"}, goal' = goal,
           NEW obs, FinishStep(obs)
    PROVE  Scripted'
  <1> SUFFICES ASSUME goal.kind = "move" PROVE Scripted'
    BY DEF Scripted
  <1> DEFINE step == Step(call, obs)
  <1>1. /\ steps' = Append(steps, step) /\ node' = "decide" /\ verdict' = verdict
        /\ step.call = CallOf(call)
    BY DEF FinishStep, Step, CallOf
  <1>2. steps \in Seq(StepsTaken) /\ verdict # "success" /\ Len(steps) \in Nat
    BY DEF Explained, Types, Answers
  <1>3. /\ OnScript(goal, steps) /\ LedOn(steps, Len(steps)) /\ Len(steps) < 6
        /\ CallOf(call) = CallOf(ScriptCall(goal, steps, Len(steps) + 1))
    BY DEF Scripted
  <1> HIDE DEF step
  <1>4. /\ Len(steps') = Len(steps) + 1 /\ steps'[Len(steps) + 1] = step
        /\ \A i \in 1 .. Len(steps) : steps'[i] = steps[i]
        /\ \A i \in 1 .. Len(steps) + 1 :
              ScriptCall(goal, steps', i) = ScriptCall(goal, steps, i)
        /\ \A n \in 0 .. Len(steps) : LedOn(steps', n) <=> LedOn(steps, n)
    <2> DEFINE t == Append(steps, step)
    <2>1. /\ Len(t) = Len(steps) + 1 /\ t[Len(steps) + 1] = step
          /\ \A i \in 1 .. Len(steps) : t[i] = steps[i]
          /\ \A i \in 1 .. Len(steps) + 1 :
                ScriptCall(goal, t, i) = ScriptCall(goal, steps, i)
          /\ \A n \in 0 .. Len(steps) : LedOn(t, n) <=> LedOn(steps, n)
      BY <1>2, ScriptKept
    <2>2. steps' = t
      BY <1>1
    <2> HIDE DEF t
    <2> QED BY <2>1, <2>2
  <1>5. OnScript(goal, steps')
    <2>1. ASSUME NEW i \in 1 .. Len(steps')
          PROVE  steps'[i].call = CallOf(ScriptCall(goal, steps', i))
      <3>1. CASE i \in 1 .. Len(steps)
        BY <1>3, <1>4, <3>1 DEF OnScript
      <3>2. CASE i = Len(steps) + 1
        BY <1>1, <1>3, <1>4, <3>2
      <3> QED BY <1>2, <1>4, <2>1, <3>1, <3>2
    <2>2. Len(steps') <= 6
      BY <1>2, <1>3, <1>4
    <2> QED BY <2>1, <2>2 DEF OnScript
  <1>6. LedOn(steps', Len(steps') - 1)
    <2>1. Len(steps') - 1 = Len(steps) /\ Len(steps) \in 0 .. Len(steps)
      BY <1>2, <1>4
    <2> QED BY <1>3, <1>4, <2>1
  <1> QED BY <1>1, <1>2, <1>5, <1>6 DEF Scripted

LEMMA PlansScripted ==
    ASSUME Explained, Scripted, Plans
    PROVE  Scripted'
  <1> SUFFICES ASSUME goal.kind = "move" PROVE Scripted'
    BY DEF Scripted, Plans, setting
  <1> DEFINE next == IF Len(steps) >= limit THEN Finish("step_limit")
                     ELSE Plan(goal, steps, limit)
  <1>1. /\ node = "planner" /\ steps' = steps /\ goal' = goal
        /\ IF next.kind = "final" THEN node' = "end" /\ verdict' = next.verdict
           ELSE call' = next /\ node' = "execute" /\ verdict' = verdict
    BY DEF Plans, EndWith, setting
  <1>2. /\ steps \in Seq(StepsTaken) /\ limit \in Nat /\ verdict # "success"
        /\ OnScript(goal, steps) /\ LedOn(steps, Len(steps) - 1)
    BY <1>1 DEF Explained, Types, Answers, Scripted
  <1>3. /\ next.kind # "final" =>
              /\ Len(steps) < 6
              /\ CallOf(next) = CallOf(ScriptCall(goal, steps, Len(steps) + 1))
              /\ LedOn(steps, Len(steps))
        /\ next.kind = "final" /\ next.verdict = "success" => Finished(steps)
    <2>1. CASE Len(steps) >= limit
      BY <2>1 DEF Finish
    <2>2. CASE ~(Len(steps) >= limit)
      <3>1. next = Plan(goal, steps, limit)
        BY <2>2
      <3> HIDE DEF next
      <3> QED BY <1>2, <3>1, PlanScripted
    <2> QED BY <2>1, <2>2
  <1> HIDE DEF next
  <1>4. OnScript(goal, steps)' /\ LedOn(steps, Len(steps) - 1)'
    BY <1>1, <1>2
  <1>5. CASE next.kind = "final"
    <2>1. node' = "end" /\ (verdict' = "success" => Finished(steps'))
      BY <1>1, <1>3, <1>5
    <2> QED BY <1>4, <2>1 DEF Scripted
  <1>6. CASE next.kind # "final"
    <2>1. /\ Len(steps') < 6
          /\ CallOf(call') = CallOf(ScriptCall(goal', steps', Len(steps') + 1))
          /\ LedOn(steps', Len(steps')) /\ verdict' # "success"
      BY <1>1, <1>2, <1>3, <1>6
    <2> QED BY <1>4, <2>1 DEF Scripted
  <1> QED BY <1>5, <1>6

LEMMA NextScripted ==
    Explained /\ Scripted /\ [Next]_vars => Scripted'
  <1> SUFFICES ASSUME Explained, Scripted, [Next]_vars PROVE Scripted'
    OBVIOUS
  <1>1. CASE Plans
    BY <1>1, PlansScripted
  <1>2. CASE RefusesLocally
    <2>1. node = "execute" /\ goal' = goal
          /\ FinishStep(Feedback("rejected", LocalDecision.code, known))
      BY <1>2 DEF RefusesLocally, setting
    <2> QED BY <2>1, StepScripted
  <1>3. CASE TimesOut
    <2>1. node = "wait" /\ goal' = goal
          /\ FinishStep(Feedback("timeout", "mqtt_response_timeout", known))
      BY <1>3 DEF TimesOut, setting
    <2> QED BY <2>1, StepScripted
  <1>4. CASE Delivers
    <2>1. node = "wait" /\ goal' = goal /\ FinishStep(Reply(Command))
      BY <1>4 DEF Delivers, setting
    <2> QED BY <2>1, StepScripted
  <1>5. CASE Publishes
    <2>1. UNCHANGED <<goal, call, steps, verdict>> /\ node = "execute" /\ node' = "wait"
      BY <1>5 DEF Publishes, setting
    <2> QED BY <2>1 DEF Scripted
  <1>6. CASE Decides
    <2>1. UNCHANGED <<goal, steps>> /\ node = "decide" /\ node' \in {"planner", "end"}
          /\ (verdict' = verdict \/ verdict' \in {"emergency_stop", "timeout"})
      BY <1>6 DEF Decides, EndWith, Outcome, setting
    <2>2. verdict # "success"
      BY <2>1 DEF Explained, Answers
    <2> QED BY <2>1, <2>2 DEF Scripted
  <1>7. CASE DeliversInVain \/ ForeignCommand \/ DeadlinePasses \/ Harness \/ UNCHANGED vars
    <2>1. UNCHANGED <<goal, node, call, steps, verdict>>
      BY <1>7 DEF DeliversInVain, ForeignCommand, DeadlinePasses, Harness, vars,
                  setting, graphVars
    <2> QED BY <2>1 DEF Scripted
  <1> QED BY <1>1, <1>2, <1>3, <1>4, <1>5, <1>6, <1>7 DEF Next

LEMMA InitScripted ==
    ASSUME Init PROVE Scripted
  <1>1. steps = <<>> /\ node = "planner" /\ verdict = "none" /\ Len(<<>>) = 0
    BY DEF Init
  <1> QED BY <1>1 DEF Scripted, OnScript, LedOn

-----------------------------------------------------------------------------
(* Where the script leads.                                                 *)

\* A quarter to the side of a heading is across it.
LEMMA Across ==
    ASSUME NEW yaw \in Quarters, NEW turn \in {90, -90}
    PROVE  LET ahead == Heading(yaw)
               aside == Heading(yaw + turn)
           IN  \/ ahead.x \in {1, -1} /\ ahead.y = 0 /\ aside.x = 0
               \/ ahead.x = 0 /\ ahead.y \in {1, -1} /\ aside.y = 0
  <1>1. yaw \in Int /\ yaw % 360 \in {0, 90, 180, 270}
    BY DEF Quarters
  <1>2. /\ yaw % 360 \in {0, 180} => (yaw + turn) % 360 \in {90, 270}
        /\ yaw % 360 \in {90, 270} => (yaw + turn) % 360 \in {0, 180}
    <2>1. CASE turn = 90
      BY <1>1, <2>1
    <2>2. CASE turn = -90
      BY <1>1, <2>2
    <2> QED BY <2>1, <2>2
  <1> QED BY <1>1, <1>2 DEF Heading

LEMMA LedByMove ==
    ASSUME NEW p \in Places, NEW step \in StepsTaken, step.call.tool = "move_robot"
    PROVE  /\ Traverse(p, step) = [x |-> p.x + Moved(step) * Heading(p.yaw).x,
                                   y |-> p.y + Moved(step) * Heading(p.yaw).y,
                                   yaw |-> p.yaw]
           /\ Traverse(p, step) \in Places
  <1>1. Moved(step) \in Int
    BY MovedType
  <1>2. Traverse(p, step) = MoveBy(p, Moved(step))
    BY DEF Traverse, Moved
  <1> QED BY <1>1, <1>2, MovePlaces

LEMMA LedByTurn ==
    ASSUME NEW p \in Places, NEW step \in StepsTaken, step.call.tool = "turn_robot"
    PROVE  /\ Traverse(p, step) = [x |-> p.x, y |-> p.y, yaw |-> p.yaw + Moved(step)]
           /\ Traverse(p, step) \in Places
  <1>1. Traverse(p, step) = [p EXCEPT !.yaw = @ + Moved(step)]
    BY DEF Traverse, Moved
  <1>2. Traverse(p, step) \in Places
    BY TraverseType
  <1> QED BY <1>1, <1>2 DEF Places

\* From a to b the robot got distance ahead and faces the same way.
Earned(a, b, distance) == Progressed(a, b) = distance /\ b.yaw % 360 = a.yaw % 360

\* The move alone.
LEMMA StraightOn ==
    ASSUME NEW p \in Places, NEW step \in StepsTaken,
           step.call.tool = "move_robot", step.obs.status = "success"
    PROVE  Earned(p, Traverse(p, step), step.call.amount)
  <1> DEFINE n == step.call.amount
             h == Heading(p.yaw)
  <1>1. n \in Int /\ Moved(step) = n
    BY DEF StepsTaken, Calls, Moved
  <1>2. Traverse(p, step) = [x |-> p.x + n * h.x, y |-> p.y + n * h.y, yaw |-> p.yaw]
    BY <1>1, LedByMove
  <1>3. p.x \in Int /\ p.y \in Int /\ p.yaw \in Quarters
    BY DEF Places
  <1>4. \/ h.x = 1 /\ h.y = 0
        \/ h.x = -1 /\ h.y = 0
        \/ h.x = 0 /\ h.y = 1
        \/ h.x = 0 /\ h.y = -1
    BY <1>3, Across
  <1> HIDE DEF n, h
  <1>5. ((p.x + n * h.x) - p.x) * h.x + ((p.y + n * h.y) - p.y) * h.y = n
    BY <1>1, <1>3, <1>4
  <1> QED BY <1>2, <1>5 DEF Earned, Progressed, n, h

\* b lies n from a in the direction of yaw.
Along(a, b, yaw, n) ==
    b.x = a.x + n * Heading(yaw).x /\ b.y = a.y + n * Heading(yaw).y

\* Six steps: the way moved in two parts, with a way aside in between.
LEMMA Around ==
    ASSUME NEW p \in Places, NEW n \in Int, NEW left \in Int, NEW wide \in Int,
           NEW turn \in {90, -90},
           NEW q \in Places, Along(p, q, p.yaw, n - left),
           NEW r \in Places, Along(q, r, p.yaw + turn, wide),
           NEW e, Along(r, e, p.yaw, left), e.yaw = p.yaw
    PROVE  Earned(p, e, n)
  <1> DEFINE h == Heading(p.yaw)
             a == Heading(p.yaw + turn)
  <1>1. p.x \in Int /\ p.y \in Int /\ p.yaw \in Quarters
    BY DEF Places
  <1>2. /\ a.x \in {-1, 0, 1} /\ a.y \in {-1, 0, 1}
        /\ \/ h.x \in {1, -1} /\ h.y = 0 /\ a.x = 0
           \/ h.x = 0 /\ h.y \in {1, -1} /\ a.y = 0
    <2>1. p.yaw + turn \in Quarters
      BY <1>1 DEF Quarters
    <2> QED BY <1>1, <2>1, HeadingUnit, Across
  <1>3. /\ q.x = p.x + (n - left) * h.x /\ q.y = p.y + (n - left) * h.y
        /\ r.x = q.x + wide * a.x /\ r.y = q.y + wide * a.y
        /\ e.x = r.x + left * h.x /\ e.y = r.y + left * h.y
    BY DEF Along
  <1> HIDE DEF h, a
  <1>4. ((r.x + left * h.x) - p.x) * h.x + ((r.y + left * h.y) - p.y) * h.y = n
    <2>1. q.x \in Int /\ q.y \in Int /\ r.x \in Int /\ r.y \in Int
      BY DEF Places
    <2>2. CASE h.x = 1 /\ h.y = 0 /\ a.x = 0
      BY <1>1, <1>2, <1>3, <2>1, <2>2
    <2>3. CASE h.x = -1 /\ h.y = 0 /\ a.x = 0
      BY <1>1, <1>2, <1>3, <2>1, <2>3
    <2>4. CASE h.x = 0 /\ h.y = 1 /\ a.y = 0
      BY <1>1, <1>2, <1>3, <2>1, <2>4
    <2>5. CASE h.x = 0 /\ h.y = -1 /\ a.y = 0
      BY <1>1, <1>2, <1>3, <2>1, <2>5
    <2> QED BY <1>2, <2>2, <2>3, <2>4, <2>5
  <1> QED BY <1>3, <1>4 DEF Earned, Progressed, h

LEMMA ScriptEarns ==
    ASSUME NEW g, g.amount \in Int, NEW s \in Seq(StepsTaken), OnScript(g, s), Finished(s),
           NEW start \in Places, NEW f, IsWay(f, start, s)
    PROVE  Earned(start, f[Len(s)], AtMost(g.amount, 200))
  <1> DEFINE n    == AtMost(g.amount, 200)
             left == Remaining(s[1])
             turn == WiderSide(s[2].obs.state)
             wide == s[4].call.amount
  <1>1. n \in Int
    BY DEF AtMost
  <1>2. /\ f[0] = start
        /\ \A i \in 1 .. Len(s) : f[i] = Traverse(f[i - 1], s[i])
        /\ \A i \in 1 .. Len(s) : s[i] \in StepsTaken
        /\ \A i \in 1 .. Len(s) : s[i].call = CallOf(ScriptCall(g, s, i))
    BY WayAt DEF OnScript
  <1>3. ASSUME 1 \in 1 .. Len(s)
        PROVE  /\ s[1].call.tool = "move_robot" /\ s[1].call.amount = n
               /\ s[1] \in StepsTaken /\ f[1] = Traverse(start, s[1])
    <2>1. s[1].call = CallOf(Call("move_robot", n))
      BY <1>2, <1>3 DEF ScriptCall
    <2>2. s[1].call.tool = "move_robot" /\ s[1].call.amount = n
      <3> HIDE DEF n
      <3> QED BY <2>1 DEF CallOf, Call
    <2>3. f[1] = Traverse(f[1 - 1], s[1]) /\ 1 - 1 = 0
      BY <1>2, <1>3
    <2> QED BY <1>2, <1>3, <2>2, <2>3
  <1>4. CASE Len(s) = 1 /\ s[1].obs.status = "success"
    <2>1. 1 \in 1 .. Len(s)
      BY <1>4
    <2> QED BY <1>3, <1>4, <2>1, StraightOn
  <1>5. CASE Len(s) = 6 /\ LedOn(s, 6)
    <2>1. /\ {1, 2, 3, 4, 5, 6} \subseteq 1 .. Len(s)
          /\ s[1].obs.status = "blocked" /\ left > 0
          /\ \A i \in 2 .. 6 : s[i].obs.status = "success"
      BY <1>5 DEF LedOn
    <2>2. /\ f[1] = Traverse(start, s[1]) /\ f[2] = Traverse(f[1], s[2])
          /\ f[3] = Traverse(f[2], s[3]) /\ f[4] = Traverse(f[3], s[4])
          /\ f[5] = Traverse(f[4], s[5]) /\ f[6] = Traverse(f[5], s[6])
      <3>1. 1 - 1 = 0 /\ 2 - 1 = 1 /\ 3 - 1 = 2 /\ 4 - 1 = 3 /\ 5 - 1 = 4 /\ 6 - 1 = 5
        OBVIOUS
      <3>2. /\ f[1] = Traverse(f[1 - 1], s[1]) /\ f[2] = Traverse(f[2 - 1], s[2])
            /\ f[3] = Traverse(f[3 - 1], s[3]) /\ f[4] = Traverse(f[4 - 1], s[4])
            /\ f[5] = Traverse(f[5 - 1], s[5]) /\ f[6] = Traverse(f[6 - 1], s[6])
        BY <1>2, <2>1
      <3> QED BY <1>2, <3>1, <3>2
    <2>3. /\ s[2].call.tool = "scan_obstacles"
          /\ s[3].call.tool = "turn_robot" /\ s[3].call.amount = turn
          /\ s[4].call.tool = "move_robot"
          /\ s[5].call.tool = "turn_robot" /\ s[5].call.amount = -turn
          /\ s[6].call.tool = "move_robot" /\ s[6].call.amount = left
      <3>1. \A i \in 3 .. 6 :
                s[i].call = CallOf(Legs(s[2].obs.state, left)[i - 2])
        <4>1. \A i \in 3 .. 6 : i \in 1 .. 6 /\ i # 1 /\ i # 2
          OBVIOUS
        <4>2. \A i \in 3 .. 6 : s[i].call = CallOf(ScriptCall(g, s, i))
          BY <1>2, <1>5, <4>1
        <4>3. \A i \in 3 .. 6 :
                  ScriptCall(g, s, i) = Legs(s[2].obs.state, left)[i - 2]
          BY <4>1 DEF ScriptCall
        <4> QED BY <4>2, <4>3
      <3>2. s[2].call = CallOf(Call("scan_obstacles", 0))
        BY <1>2, <2>1 DEF ScriptCall
      <3>3. /\ s[3].call = CallOf(Call("turn_robot", turn))
            /\ s[4].call.tool = "move_robot"
            /\ s[5].call = CallOf(Call("turn_robot", -turn))
            /\ s[6].call = CallOf(Call("move_robot", left))
        BY <3>1 DEF Legs, CallOf, Call
      <3> HIDE DEF turn, left
      <3> QED BY <3>2, <3>3 DEF CallOf, Call
    <2>4. /\ s[1] \in StepsTaken /\ s[2] \in StepsTaken /\ s[3] \in StepsTaken
          /\ s[4] \in StepsTaken /\ s[5] \in StepsTaken /\ s[6] \in StepsTaken
      BY <1>2, <2>1
    <2>5. left \in Int /\ wide \in Int
      BY <2>4 DEF StepsTaken, Calls, Observations, Remaining
    <2>6. turn \in {90, -90}
      BY DEF WiderSide
    <2>7. /\ Moved(s[1]) = n - left
          /\ Moved(s[3]) = turn /\ Moved(s[4]) = wide
          /\ Moved(s[5]) = -turn /\ Moved(s[6]) = left
      <3>1. s[1].call.amount = n /\ left = s[1].obs.remaining
        BY <1>3, <2>1 DEF Remaining
      <3> HIDE DEF left, turn, wide, n
      <3>2. Moved(s[1]) = n - left
        BY <2>1, <3>1 DEF Moved
      <3>3. \A i \in 2 .. 6 : Moved(s[i]) = s[i].call.amount
        BY <2>1 DEF Moved
      <3> QED BY <2>3, <3>2, <3>3 DEF wide
    <2>8. s[1].call.tool = "move_robot"
      BY <1>3, <2>1
    <2> HIDE DEF n, left, turn, wide
    <2> DEFINE h == Heading(start.yaw)
               a == Heading(start.yaw + turn)
    <2>9. /\ f[1] = [x |-> start.x + (n - left) * h.x,
                     y |-> start.y + (n - left) * h.y, yaw |-> start.yaw]
          /\ f[1] \in Places
      BY <2>2, <2>4, <2>7, <2>8, LedByMove
    <2>10. f[2] = f[1]
      BY <2>2, <2>3 DEF Traverse
    <2>11. f[3] = [x |-> f[1].x, y |-> f[1].y, yaw |-> start.yaw + turn] /\ f[3] \in Places
      BY <2>2, <2>3, <2>4, <2>7, <2>9, <2>10, LedByTurn
    <2>12. /\ f[4] = [x |-> f[1].x + wide * a.x, y |-> f[1].y + wide * a.y,
                      yaw |-> start.yaw + turn]
           /\ f[4] \in Places
      BY <2>2, <2>3, <2>4, <2>7, <2>11, LedByMove
    <2>13. /\ f[5] = [x |-> f[1].x + wide * a.x, y |-> f[1].y + wide * a.y,
                      yaw |-> start.yaw]
           /\ f[5] \in Places
      <3>1. f[5] = [x |-> f[4].x, y |-> f[4].y, yaw |-> f[4].yaw + (-turn)] /\ f[5] \in Places
        BY <2>2, <2>3, <2>4, <2>7, <2>12, LedByTurn
      <3>2. (start.yaw + turn) + (-turn) = start.yaw
        BY <2>6 DEF Places, Quarters
      <3> HIDE DEF a
      <3> QED BY <2>12, <3>1, <3>2
    <2>14. f[6] = [x |-> f[5].x + left * h.x, y |-> f[5].y + left * h.y, yaw |-> start.yaw]
      <3>1. f[5].yaw = start.yaw
        BY <2>13
      <3> QED BY <2>2, <2>3, <2>4, <2>7, <2>13, <3>1, LedByMove
    <2>15. Earned(start, f[6], n)
      <3>1. /\ Along(start, f[1], start.yaw, n - left)
            /\ Along(f[1], f[5], start.yaw + turn, wide)
            /\ Along(f[5], f[6], start.yaw, left) /\ f[6].yaw = start.yaw
        BY <2>9, <2>13, <2>14 DEF Along
      <3> QED BY <1>1, <2>5, <2>6, <2>9, <2>13, <3>1, Around
    <2> QED BY <1>5, <2>15 DEF n
  <1> QED BY <1>4, <1>5 DEF Finished

\* Before the end nothing succeeded; at its end no command is without answer.
LEMMA SuccessSettles ==
    ASSUME Explained, verdict = "success"
    PROVE  SamePlace(Place(robot), LedTo(Place(scene.robot), steps))
  <1>1. node = "end" /\ \A i \in 1 .. Len(steps) : ~GaveUp(i)
    BY DEF Explained, Answers
  <1>2. \A c \in sent : c.seq \in 1 .. Len(steps)
    BY <1>1 DEF Explained, Sending
  <1>3. Len(steps) \in Nat
    BY DEF Explained, Types
  <1>4. \A c \in sent : ~Executed(c)
    BY <1>1, <1>2, <1>3 DEF Executed, Open
  <1> QED BY <1>4 DEF Explained, Located

\* As long as nobody else drives the robot and the device forgets nothing of a
\* run: a mission to move that ends with success has moved the robot forward
\* by what its goal asked and left it facing the same way, through a detour
\* or not, however often its commands were delivered.
THEOREM SuccessEarnedHolds ==
    ASSUME NobodyElseDrives, CacheHoldsRuns
    PROVE  Spec => []SuccessEarned
  <1>1. Init => Scripted
    BY InitScripted
  <1>2. Explained /\ Scripted /\ [Next]_vars => Scripted'
    BY NextScripted
  <1>3. ASSUME Explained, Scripted, goal.kind = "move", verdict = "success"
        PROVE  Earned(scene.robot, robot, AtMost(goal.amount, 200))
    <2> DEFINE start == Place(scene.robot)
    <2>1. SamePlace(Place(robot), LedTo(start, steps))
      BY <1>3, SuccessSettles
    <2>2. /\ steps \in Seq(StepsTaken) /\ goal.amount \in Int
          /\ scene.robot \in RobotStates /\ robot \in RobotStates
      BY <1>3 DEF Explained, Types
    <2>3. start \in Places
      BY <2>2, PlaceOf
    <2>4. PICK f : IsWay(f, start, steps)
      BY <1>3 DEF Explained, Located, HasWay
    <2>5. OnScript(goal, steps) /\ Finished(steps)
      BY <1>3 DEF Scripted
    <2> HIDE DEF start
    <2>6. Earned(start, f[Len(steps)], AtMost(goal.amount, 200))
      BY <2>2, <2>3, <2>4, <2>5, ScriptEarns
    <2>7. LedTo(start, steps) = f[Len(steps)]
      BY <2>2, <2>4, LedThere
    <2>8. Earned(start, Place(robot), AtMost(goal.amount, 200))
      <3>1. Place(robot).x = f[Len(steps)].x /\ Place(robot).y = f[Len(steps)].y
            /\ Place(robot).yaw % 360 = f[Len(steps)].yaw % 360
        BY <2>1, <2>7 DEF SamePlace
      <3> QED BY <2>6, <3>1 DEF Earned, Progressed
    <2>9. /\ start.x = scene.robot.x /\ start.y = scene.robot.y
          /\ start.yaw = scene.robot.yaw
          /\ Place(robot).x = robot.x /\ Place(robot).y = robot.y
          /\ Place(robot).yaw = robot.yaw
      BY DEF start, Place
    <2> QED BY <2>8, <2>9 DEF Earned, Progressed
  <1>4. Explained /\ Scripted => SuccessEarned
    BY <1>3 DEF SuccessEarned, Earned
  <1> QED BY <1>1, <1>2, <1>4, ExplainedInductive, PTL DEF Spec
=============================================================================
