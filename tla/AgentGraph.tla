----------------------------- MODULE AgentGraph -----------------------------
(***************************************************************************)
(* One run of SimulationMissionRunner: AgentGraph's planner, execute and   *)
(* decide nodes with the ToolExecutor, on a request client of its own, and *)
(* the events its observer emits.  All of it runs on the mission's worker  *)
(* thread; node says where that is.  The planner is a choice: it fails,    *)
(* calls a tool or ends the run with any verdict.  An observation is its   *)
(* code: "rejected" and "success" lead the same way and are one.           *)
(***************************************************************************)
EXTENDS RequestClient, Sequences, SequencesExt

CONSTANTS
    MaxSteps,  \* max_steps of the run
    Claims     \* the verdicts a planner may end the run with

ASSUME StepsAssumption == MaxSteps \in Nat \ {0}

\* The verdicts a PlannerDecision can carry.
FinalStatus == {"success", "rejected", "timeout", "emergency_stop",
                "cancelled", "step_limit", "planner_error", "transport_error"}

ASSUME ClaimsAssumption == Claims \subseteq FinalStatus

VARIABLES
    node,             \* the thread's place in the graph
    stepCount,        \* step_count
    nextSeq,          \* next_seq
    decision,         \* decision: "tool_call", a verdict or "none"
    lastObservation,  \* last_observation
    steps,            \* steps
    finalStatus,      \* final_status
    events,           \* what the observer emitted: phase and sequence number
    cancelRequested   \* cancellation_event

graphVars == <<node, stepCount, nextSeq, decision, lastObservation, steps,
               finalStatus, events>>

DeviceCodes ==
    {"success", "blocked", "timeout", "emergency_stop", "operator_cancelled"}

\* The codes the executor and the graph make up themselves.
LocalCodes == {"not_allowed", "mqtt_transport_error", "mqtt_response_timeout"}

Event(phase, n) == [phase |-> phase, seq |-> n]

FinalEvent == Event("final", 0)

GraphInit ==
    /\ node = "start"
    /\ stepCount = 0
    /\ nextSeq = 1
    /\ decision = "none"
    /\ lastObservation = "none"
    /\ steps = <<>>
    /\ finalStatus = "none"
    /\ events = <<>>
    /\ cancelRequested = FALSE

Emit(phase, n) == events' = Append(events, Event(phase, n))

\* Mutant: the event is never handed to the graph.
NoSignal == FALSE

IsCancelled == cancelRequested

\* Mutant: one step more than allowed.
BeyondLimit == stepCount > MaxSteps

AtLimit == stepCount >= MaxSteps

EndWith(status) ==
    /\ finalStatus' = status
    /\ node' = "end"

\* What a node that only ends the run leaves alone.
OnlyEnds == UNCHANGED <<stepCount, nextSeq, lastObservation, steps>>

-----------------------------------------------------------------------------
(* Entering the client.                                                    *)

StartClient ==
    /\ node = "start"
    /\ Start
    /\ node' = "connecting"
    /\ UNCHANGED <<stepCount, nextSeq, decision, lastObservation, steps,
                   finalStatus, events, cancelRequested>>

ClientConnected ==
    /\ node = "connecting"
    /\ connected
    /\ node' = "planner"
    /\ UNCHANGED <<stepCount, nextSeq, decision, lastObservation, steps,
                   finalStatus, events, cancelRequested, clientVars>>

\* Mutant: the failed connection ends the run without a word.
ConnectTimesOutSilently ==
    /\ node = "connecting"
    /\ ~connected
    /\ Stop
    /\ finalStatus' = "transport_error"
    /\ node' = "close"
    /\ OnlyEnds
    /\ UNCHANGED <<decision, events, cancelRequested>>

\* start raises MqttConnectionError: the runner ends the run.
ConnectTimesOut ==
    /\ node = "connecting"
    /\ ~connected
    /\ Stop
    /\ EndWith("transport_error")
    /\ OnlyEnds
    /\ UNCHANGED <<decision, events, cancelRequested>>

-----------------------------------------------------------------------------
(* _planner_node.                                                          *)

PlannerStops ==
    /\ node = "planner"
    /\ IsCancelled \/ AtLimit
    /\ EndWith(IF IsCancelled THEN "cancelled" ELSE "step_limit")
    /\ decision' = "none"
    /\ OnlyEnds
    /\ UNCHANGED <<events, cancelRequested, clientVars>>

\* on_planning, then the call of plan.
PlannerAsks ==
    /\ node = "planner"
    /\ ~IsCancelled
    /\ ~AtLimit
    /\ Emit("planning", nextSeq)
    /\ node' = "planning"
    /\ UNCHANGED <<stepCount, nextSeq, decision, lastObservation, steps,
                   finalStatus, cancelRequested, clientVars>>

\* plan fails, or returns something that is no decision.
PlannerFails ==
    /\ node = "planning"
    /\ EndWith("planner_error")
    /\ decision' = "none"
    /\ OnlyEnds
    /\ UNCHANGED <<events, cancelRequested, clientVars>>

\* A final decision; of a cancelled mission it counts if it is an emergency.
PlannerEnds(claim) ==
    /\ node = "planning"
    /\ IF IsCancelled /\ claim # "emergency_stop"
       THEN EndWith("cancelled") /\ decision' = "none"
       ELSE EndWith(claim) /\ decision' = claim
    /\ OnlyEnds
    /\ UNCHANGED <<events, cancelRequested, clientVars>>

PlannerCalls ==
    /\ node = "planning"
    /\ IF IsCancelled
       THEN /\ EndWith("cancelled")
            /\ decision' = "none"
            /\ UNCHANGED events
       ELSE /\ decision' = "tool_call"
            /\ Emit("tool_call", nextSeq)
            /\ node' = "execute"
            /\ UNCHANGED finalStatus
    /\ OnlyEnds
    /\ UNCHANGED <<cancelRequested, clientVars>>

\* The tool has no name the event schema knows, so on_tool_call raises: the
\* call never gets to the registry that would refuse it.
UnknownToolCalled ==
    /\ node = "planning"
    /\ ~IsCancelled
    /\ node' = "raise"
    /\ OnlyEnds
    /\ UNCHANGED <<decision, finalStatus, events, cancelRequested, clientVars>>

-----------------------------------------------------------------------------
(* _execute_node, with the executor and the client's execute.              *)

ExecuteCancelled ==
    /\ node = "execute"
    /\ IsCancelled
    /\ EndWith("cancelled")
    /\ OnlyEnds
    /\ UNCHANGED <<decision, events, cancelRequested, clientVars>>

\* Mutant of on_observation: it is told of every step.
ObservedAlways(code) == TRUE

\* on_observation leaves out a step the executor did not allow.
Observed(code) == code # "not_allowed"

\* The step is over, its observation code and published known; early is what
\* was emitted before on_observation.
FinishStep(code, published, early) ==
    /\ steps' = Append(steps, [seq |-> nextSeq, code |-> code,
                               published |-> published])
    /\ events' = events \o early \o (IF Observed(code)
                                     THEN <<Event("observation", nextSeq)>>
                                     ELSE <<>>)
    /\ lastObservation' = code
    /\ stepCount' = stepCount + 1
    /\ nextSeq' = nextSeq + 1
    /\ node' = "decide"
    /\ UNCHANGED <<decision, finalStatus, cancelRequested>>

\* build_command raises ToolCallRejected.
ToolRejected ==
    /\ node = "execute"
    /\ ~IsCancelled
    /\ FinishStep("not_allowed", FALSE, <<Event("safety_rejected", nextSeq)>>)
    /\ UNCHANGED clientVars

\* execute of the client raises MqttConnectionError at once.
RequestRefused ==
    /\ node = "execute"
    /\ ~IsCancelled
    /\ ~(started /\ connected)
    /\ FinishStep("mqtt_transport_error", FALSE, <<>>)
    /\ UNCHANGED clientVars

OnlyMoves(to) ==
    /\ node' = to
    /\ UNCHANGED <<stepCount, nextSeq, decision, lastObservation, steps,
                   finalStatus, cancelRequested>>

Request ==
    /\ node = "execute"
    /\ ~IsCancelled
    /\ Register(nextSeq)
    /\ OnlyMoves("publish")
    /\ UNCHANGED events

Publish ==
    /\ node = "publish"
    /\ link \in {"open", "refused"}
    /\ PutInFlight(nextSeq)
    /\ OnlyMoves("announce")
    /\ UNCHANGED <<events, linkVars, requestVars>>

\* The connection broke since: the library reports so, yet keeps what it
\* could not send and may send it after a reconnect.
PublishFails ==
    /\ node = "publish"
    /\ link \notin {"open", "refused"}
    /\ PutInFlight(nextSeq) \/ UNCHANGED networkVars
    /\ Withdraw
    /\ FinishStep("mqtt_transport_error", FALSE, <<>>)
    /\ UNCHANGED linkVars

\* on_published.
Announce ==
    /\ node = "announce"
    /\ Emit("published", nextSeq)
    /\ OnlyMoves("wait")
    /\ UNCHANGED clientVars

Answered ==
    /\ node = "wait"
    /\ held # "none"
    /\ Withdraw
    /\ FinishStep(held, TRUE, <<>>)
    /\ UNCHANGED <<linkVars, networkVars>>

\* Mutant: a command without an answer counts as one never published.
TimesOutUnpublished ==
    /\ node = "wait"
    /\ held = "none"
    /\ Withdraw
    /\ FinishStep("mqtt_response_timeout", FALSE, <<>>)
    /\ UNCHANGED <<linkVars, networkVars>>

\* MqttResponseTimeout.
TimesOut ==
    /\ node = "wait"
    /\ held = "none"
    /\ Withdraw
    /\ FinishStep("mqtt_response_timeout", TRUE, <<>>)
    /\ UNCHANGED <<linkVars, networkVars>>

-----------------------------------------------------------------------------
(* _decide_node.                                                           *)

\* Mutants: the cancel request before the emergency; a run that goes on
\* without the answer.
CancelFirst(code) ==
    CASE IsCancelled \/ code = "operator_cancelled" -> "cancelled"
      [] ~IsCancelled /\ code = "emergency_stop" -> "emergency_stop"
      [] ~IsCancelled /\ code = "mqtt_transport_error" -> "transport_error"
      [] ~IsCancelled /\ code \in {"timeout", "mqtt_response_timeout"} ->
             "timeout"
      [] OTHER -> "none"

OutcomeTimeoutContinues(code) ==
    CASE code = "emergency_stop" -> "emergency_stop"
      [] code # "emergency_stop" /\ (IsCancelled \/ code = "operator_cancelled")
             -> "cancelled"
      [] ~IsCancelled /\ code = "mqtt_transport_error" -> "transport_error"
      [] OTHER -> "none"

\* The verdict on the last observation, "none" to go on.
Outcome(code) ==
    CASE code = "emergency_stop" -> "emergency_stop"
      [] code # "emergency_stop" /\ (IsCancelled \/ code = "operator_cancelled")
             -> "cancelled"
      [] ~IsCancelled /\ code = "mqtt_transport_error" -> "transport_error"
      [] ~IsCancelled /\ code \in {"timeout", "mqtt_response_timeout"} ->
             "timeout"
      [] OTHER -> "none"

DecideEnds ==
    /\ node = "decide"
    /\ Outcome(lastObservation) # "none"
    /\ EndWith(Outcome(lastObservation))
    /\ OnlyEnds
    /\ UNCHANGED <<decision, events, cancelRequested, clientVars>>

\* Back to the planner, with on_replanning if the way was blocked.
DecideContinues ==
    /\ node = "decide"
    /\ Outcome(lastObservation) = "none"
    /\ IF lastObservation = "blocked"
       THEN Emit("replanning", nextSeq)
       ELSE UNCHANGED events
    /\ OnlyMoves("planner")
    /\ UNCHANGED clientVars

-----------------------------------------------------------------------------
(* The end of the run.                                                     *)

OnFinal ==
    /\ node = "end"
    /\ events' = Append(events, FinalEvent)
    /\ OnlyMoves("close")
    /\ UNCHANGED clientVars

\* __exit__ of the client, which start may have stopped before.
CloseClient ==
    /\ node \in {"close", "raise"}
    /\ IF started THEN Stop ELSE UNCHANGED clientVars
    /\ OnlyMoves(IF node = "close" THEN "done" ELSE "raised")
    /\ UNCHANGED events

PlannerNode ==
    \/ PlannerStops
    \/ PlannerAsks
    \/ PlannerFails
    \/ \E claim \in Claims : PlannerEnds(claim)
    \/ PlannerCalls
    \/ UnknownToolCalled

ExecuteNode ==
    \/ ExecuteCancelled
    \/ ToolRejected
    \/ RequestRefused
    \/ Request
    \/ Publish
    \/ PublishFails
    \/ Announce
    \/ Answered
    \/ TimesOut

MissionThread ==
    \/ StartClient
    \/ ClientConnected
    \/ ConnectTimesOut
    \/ PlannerNode
    \/ ExecuteNode
    \/ DecideEnds
    \/ DecideContinues
    \/ OnFinal
    \/ CloseClient
=============================================================================
