---------------------------- MODULE MissionLoop ----------------------------
(***************************************************************************)
(* One mission: its agent graph and request client, with a broker that     *)
(* loses, repeats and reorders, a device that answers when it likes, and   *)
(* an operator who may cancel at any moment.                               *)
(***************************************************************************)
EXTENDS AgentGraph, FiniteSets

VARIABLES
    deviceCancelled,  \* the adapter was told of the cancel
    answers,          \* history: the observations the device ever sent
    sentAtCancel      \* history: sent, when the cancel was accepted

deviceVars == <<deviceCancelled, answers>>

vars == <<clientVars, graphVars, cancelRequested, deviceVars, sentAtCancel>>

Init ==
    /\ ClientInit
    /\ GraphInit
    /\ deviceCancelled = FALSE
    /\ answers = {}
    /\ sentAtCancel = {}

-----------------------------------------------------------------------------
(* The other actors.                                                       *)

\* cancel_current: accepted until the journal has its final event.
RequestCancel ==
    /\ ~cancelRequested
    /\ ~Contains(events, FinalEvent)
    /\ cancelRequested' = TRUE
    /\ sentAtCancel' = sent
    /\ UNCHANGED <<clientVars, graphVars, deviceVars>>

\* Its handler, cancel_task of the adapter.
TellDevice ==
    /\ cancelRequested
    /\ ~deviceCancelled
    /\ deviceCancelled' = TRUE
    /\ UNCHANGED <<clientVars, graphVars, cancelRequested, answers,
                   sentAtCancel>>

\* The adapter answers a delivery of a command: the same each time, except
\* that one may find the command's task cancelled and another not.
DeviceAnswers(n, code) ==
    /\ n \in commands
    /\ code = "operator_cancelled" => deviceCancelled
    /\ \A o \in answers :
           o.seq = n /\ o.code # code =>
               "operator_cancelled" \in {o.code, code}
    /\ observations' = observations \cup {Observation(n, code)}
    /\ answers' = answers \cup {Observation(n, code)}
    /\ UNCHANGED <<linkVars, requestVars, commands, sent, graphVars,
                   cancelRequested, deviceCancelled, sentAtCancel>>

Mission ==
    /\ MissionThread
    /\ UNCHANGED <<deviceVars, sentAtCancel>>

Network ==
    /\ NetworkThread \/ Lose
    /\ UNCHANGED <<graphVars, cancelRequested, deviceVars, sentAtCancel>>

Done ==
    /\ node \in {"done", "raised"}
    /\ UNCHANGED vars

Next ==
    \/ Mission
    \/ Network
    \/ RequestCancel
    \/ TellDevice
    \/ \E n \in commands, code \in DeviceCodes : DeviceAnswers(n, code)
    \/ Done

Spec == Init /\ [][Next]_vars

\* The planner, the waits of the client and the graph all end; nothing is
\* asked of the network, the device or the operator.
FairSpec == Spec /\ WF_vars(Mission)

-----------------------------------------------------------------------------
(* Properties.                                                             *)

Seqs == 1 .. MaxSteps

\* The codes that end a run.
EndingCodes == {"emergency_stop", "operator_cancelled", "mqtt_transport_error",
                "timeout", "mqtt_response_timeout"}

Places == {"start", "connecting", "planner", "planning", "execute", "publish",
           "announce", "wait", "decide", "end", "close", "done", "raise",
           "raised"}

Codes == DeviceCodes \cup LocalCodes

Observations == [seq : Seqs, code : DeviceCodes]

StepRecord == [seq : Seqs, code : Codes, published : BOOLEAN]

Phases == {"planning", "tool_call", "published", "safety_rejected",
           "observation", "replanning", "final"}

EventRecord == [phase : Phases, seq : 0 .. MaxSteps + 1]

\* The variables keep their types; no run takes more than max_steps steps.
TypeOK ==
    /\ started \in BOOLEAN /\ connected \in BOOLEAN /\ exhausted \in BOOLEAN
    /\ link \in {"off", "trying", "open", "refused"}
    /\ attempts \in 0 .. MaxAttempts
    /\ waitingFor \in Seqs \cup {0}
    /\ held \in DeviceCodes \cup {"none"}
    /\ commands \subseteq sent /\ sent \subseteq Seqs
    /\ observations \subseteq answers /\ answers \subseteq Observations
    /\ node \in Places
    /\ stepCount \in 0 .. MaxSteps
    /\ nextSeq = stepCount + 1
    /\ decision \in Claims \cup {"tool_call", "none"}
    /\ lastObservation \in Codes \cup {"none"}
    /\ steps \in Seq(StepRecord) /\ Len(steps) = stepCount
    /\ finalStatus \in FinalStatus \cup {"none"}
    /\ events \in Seq(EventRecord)
    /\ cancelRequested \in BOOLEAN /\ deviceCancelled \in BOOLEAN
    /\ sentAtCancel \subseteq sent

\* A step that holds a device's code holds the answer of the device to the
\* command of that very step, however late, repeated or out of order the
\* observations come in.
AnswersBelong ==
    \A i \in DOMAIN steps :
        /\ steps[i].seq = i
        /\ steps[i].code \in DeviceCodes =>
               /\ steps[i].published
               /\ i \in sent
               /\ Observation(i, steps[i].code) \in answers

\* Behind a command whose fate is unknown, or that the device stopped, none
\* is sent.
NothingBehindUnanswered ==
    \A i \in DOMAIN steps :
        steps[i].code \in EndingCodes =>
            /\ i = Len(steps)
            /\ \A n \in sent : n <= i

\* After an accepted cancel at most the one command is sent that was past
\* the last look at the cancellation event.
OneAfterCancel ==
    cancelRequested => Cardinality(sent \ sentAtCancel) <= 1

\* A verdict that the planner did not claim has its cause in the steps, and
\* an emergency stop of the device outranks everything, the cancel included.
VerdictExplained ==
    /\ lastObservation = "emergency_stop" /\ node # "decide" =>
           finalStatus = "emergency_stop"
    /\ finalStatus # decision =>
           /\ finalStatus \notin {"success", "rejected"}
           /\ finalStatus = "emergency_stop" =>
                  lastObservation = "emergency_stop"
           /\ finalStatus = "cancelled" =>
                  cancelRequested \/ lastObservation = "operator_cancelled"
           /\ finalStatus = "timeout" =>
                  lastObservation \in {"timeout", "mqtt_response_timeout"}
           /\ finalStatus = "transport_error" =>
                  steps = <<>> \/ lastObservation = "mqtt_transport_error"
           /\ finalStatus = "step_limit" => stepCount = MaxSteps

\* What may come right behind an event.
Successors(e) ==
    CASE e.phase = "planning" -> {Event("tool_call", e.seq), FinalEvent}
      [] e.phase = "tool_call" ->
             {Event("published", e.seq), Event("safety_rejected", e.seq),
              Event("observation", e.seq), FinalEvent}
      [] e.phase = "published" -> {Event("observation", e.seq)}
      [] e.phase = "safety_rejected" ->
             {Event("planning", e.seq + 1), FinalEvent}
      [] e.phase = "observation" ->
             {Event("replanning", e.seq + 1), Event("planning", e.seq + 1),
              FinalEvent}
      [] e.phase = "replanning" -> {Event("planning", e.seq), FinalEvent}
      [] OTHER -> {}

\* The events are those of one step after the other, each step's in their
\* order and under its number, and end with the final event.
EventsInOrder ==
    \A i \in DOMAIN events :
        IF i = 1 THEN events[i] \in {Event("planning", 1), FinalEvent}
                 ELSE events[i] \in Successors(events[i - 1])

\* The coordinator adds the final event of a run that raised.
FullJournal == IF node = "raised" THEN Append(events, FinalEvent) ELSE events

\* has_verified_native_tool_chain: a tool call, its publication, its
\* observation and the final event, in this order.
Verified ==
    \E n \in Seqs : \E i, j, k, l \in DOMAIN FullJournal :
        /\ i < j /\ j < k /\ k < l
        /\ FullJournal[i] = Event("tool_call", n)
        /\ FullJournal[j] = Event("published", n)
        /\ FullJournal[k] = Event("observation", n)
        /\ FullJournal[l] = FinalEvent

\* What the journal shows is what happened: a step counts as published
\* exactly if the journal has its published event, for which the command was
\* sent; and the journal of a run that is over passes for a tool chain
\* exactly if some step was published.
EvidenceAgrees ==
    /\ \A i \in DOMAIN steps :
           steps[i].published <=> Contains(events, Event("published", i))
    /\ \A n \in Seqs : Contains(events, Event("published", n)) => n \in sent
    /\ node \in {"done", "raised"} =>
           (Verified <=> \E i \in DOMAIN steps : steps[i].published)

StepEvents == Cardinality({i \in DOMAIN events : events[i] # FinalEvent})

Contract == INSTANCE RunnerContract
    WITH MaxEvents <- 5 * MaxSteps,
         emitted <- StepEvents,
         concluded <- Contains(events, FinalEvent),
         ended <- CASE node = "done" -> "returned"
                    [] node = "raised" -> "raised"
                    [] OTHER -> "no"

\* Whatever the network, the device and the operator do, the runner says at
\* most five things a step, and ends with one final event and a return, or
\* with an exception and no final event.
KeepsRunnerContract == Contract!Spec
=============================================================================
