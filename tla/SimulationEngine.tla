-------------------------- MODULE SimulationEngine --------------------------
(***************************************************************************)
(* The fixed-step motion engine in bridge mode: one external action, the   *)
(* completion waiting to be collected, the pause flag and the emergency    *)
(* flag of the robot.  Each operator is one method, called only by the     *)
(* tick owner.  Geometry is abstracted to how many more ticks the action   *)
(* needs, and to whether an obstacle or the world boundary stops a move.   *)
(***************************************************************************)
EXTENDS Integers

CONSTANTS
    Commands,   \* validated command payloads that may reach the device
    NoCommand,  \* the absence of one
    MaxTicks    \* bound: ticks one motion may last

ASSUME EngineAssumption ==
    /\ NoCommand \notin Commands
    /\ MaxTicks \in Nat \ {0}

VARIABLES
    action,      \* _external_action
    remaining,   \* ticks of motion left in it
    completion,  \* _action_completion: <<>> or one command key with its status
    paused,      \* _paused
    stopped      \* robot.emergency_stopped

engineVars == <<action, remaining, completion, paused, stopped>>

\* (task_id, seq): the business key of a command.
KeyOf(c) == <<c.task, c.seq>>

NoCompletion == [k \in {} |-> "success"]

Completed(c, status) == [k \in {KeyOf(c)} |-> status]

EngineInit ==
    /\ action = NoCommand
    /\ remaining = 0
    /\ completion = NoCompletion
    /\ paused = FALSE
    /\ stopped = FALSE

\* submit_action raises when an action is active.  A zero amount is complete
\* at once and never becomes the external action.
SubmitAction(c) ==
    /\ action = NoCommand
    /\ \/ /\ completion' = Completed(c, "success")
          /\ UNCHANGED <<action, remaining>>
       \/ /\ action' = c
          /\ remaining' \in 1 .. MaxTicks
          /\ UNCHANGED completion
    /\ UNCHANGED <<paused, stopped>>

\* Mutants: an idle engine is not marked stopped; the action is left running.
CancelOnlyActive(emergency) ==
    /\ action' = NoCommand
    /\ remaining' = 0
    /\ stopped' = IF action # NoCommand THEN emergency ELSE stopped
    /\ UNCHANGED <<completion, paused>>

MarkStopped(emergency) ==
    /\ stopped' = (stopped \/ emergency)
    /\ UNCHANGED <<action, remaining, completion, paused>>

\* cancel_action(emergency_stopped): an active action overwrites the robot's
\* flag with the argument, an idle engine only ever sets it.
CancelAction(emergency) ==
    /\ action' = NoCommand
    /\ remaining' = 0
    /\ stopped' = IF action # NoCommand THEN emergency ELSE stopped \/ emergency
    /\ UNCHANGED <<completion, paused>>

\* advance(dt_ms): nothing moves while paused; otherwise one tick of motion,
\* which may use up the amount or, for a move, run into something.
AdvanceIdle ==
    /\ paused \/ action = NoCommand
    /\ UNCHANGED engineVars

AdvanceMoving ==
    /\ ~paused
    /\ action # NoCommand
    /\ remaining > 1
    /\ remaining' = remaining - 1
    /\ UNCHANGED <<action, completion, paused, stopped>>

FinishAction(status) ==
    /\ completion' = Completed(action, status)
    /\ action' = NoCommand
    /\ remaining' = 0
    /\ UNCHANGED <<paused, stopped>>

AdvanceEnding ==
    /\ ~paused
    /\ action # NoCommand
    /\ \/ remaining = 1 /\ FinishAction("success")
       \/ action.tool = "move_robot" /\ FinishAction("blocked")

EngineAdvance == AdvanceIdle \/ AdvanceMoving \/ AdvanceEnding

SetPaused(flag) ==
    /\ paused # flag
    /\ paused' = flag
    /\ UNCHANGED <<action, remaining, completion, stopped>>

EngineReset ==
    /\ action' = NoCommand
    /\ remaining' = 0
    /\ completion' = NoCompletion
    /\ paused' = FALSE
    /\ stopped' = FALSE
=============================================================================
