--------------------------- MODULE FaultScenarios ---------------------------
(***************************************************************************)
(* Runs of MqttFaultRunner: each of its four scenarios as the script of    *)
(* its calls, its requests over a network that delivers at least once if   *)
(* it delivers (QoS 1): it loses, delays and repeats.  Then the device     *)
(* service that the faults act on, and the device behind it, which may     *)
(* have a flaw, since the scenarios are there to find out about it.        *)
(* Another client's commands and all that goes wrong by itself are         *)
(* disturbances, of which there are at most MaxDisturbances.               *)
(***************************************************************************)
EXTENDS DeviceService, Sequences

CONSTANTS
    Flaws,            \* what the device may do wrong, "none" included
    MaxRuns,          \* bound on the runs, one after the other
    MaxDisturbances   \* bound on the disturbances

ASSUME ScenariosAssumption ==
    /\ MaxRuns \in Nat \ {0}
    /\ MaxDisturbances \in Nat

VARIABLES
    run,           \* the run, whose commands have a task of their own
    scenario,      \* request.scenario
    place,         \* where the run is
    at,            \* the step of the script
    answers,       \* what the run's requests were answered
    before,        \* what the device had moved when the scenario began
    verdict,       \* result
    commands,      \* commands on their way to the device
    repeated,      \* history: keys of the messages that came once more in the run
    lost,          \* history: keys of the messages lost in the run
    flaw,          \* the device's flaw
    results,       \* the device's answers: code by key
    latest,        \* _latest_seq
    pending,       \* callbacks of each pending motion, by key
    moving,        \* _active_key: the pending motion under way, if any
    motions,       \* executed_motion_count; each motion is the same turn
    executions,    \* history: how often each key's motion was executed
    disturbances   \* disturbances so far

runVars == <<run, scenario, place, at, answers, before, verdict>>

deviceVars == <<flaw, results, latest, pending, moving, motions, executions>>

vars == <<runVars, commands, repeated, lost, deviceVars, disturbances, serviceVars>>

Scenarios == {"device_disconnect", "response_timeout", "duplicate_delivery",
              "out_of_order"}

Ask(seq, tool) == [do |-> "ask", seq |-> seq, tool |-> tool]

Do(call) == [do |-> call]

\* Mutant: the two requests of the last scenario are sent in order.
ScriptInOrder ==
    [device_disconnect  |-> <<Do("disconnect"), Ask(1, "get_robot_state"),
                              Do("restore"), Ask(2, "get_robot_state")>>,
     response_timeout   |-> <<Do("suppress"), Ask(1, "get_robot_state")>>,
     duplicate_delivery |-> <<Ask(1, "turn_robot"), Ask(1, "turn_robot")>>,
     out_of_order       |-> <<Ask(1, "get_robot_state"), Ask(2, "get_robot_state")>>]

\* The calls of each scenario, in their order.
Script ==
    [device_disconnect  |-> <<Do("disconnect"), Ask(1, "get_robot_state"),
                              Do("restore"), Ask(2, "get_robot_state")>>,
     response_timeout   |-> <<Do("suppress"), Ask(1, "get_robot_state")>>,
     duplicate_delivery |-> <<Ask(1, "turn_robot"), Ask(1, "turn_robot")>>,
     out_of_order       |-> <<Ask(2, "get_robot_state"), Ask(1, "get_robot_state")>>]

Calls == Script[scenario]

Call == Calls[at]

Command(task, seq, tool) == [task |-> task, seq |-> seq, tool |-> tool]

Asked == Command(run, Call.seq, Call.tool)

KeyOf(c) == <<c.task, c.seq>>

\* The function f with the value v for k.
With(f, k, v) == [j \in DOMAIN f \cup {k} |-> IF j = k THEN v ELSE f[j]]

\* Another client's query and its motion, task 0.
ForeignCommands ==
    {Command(0, 1, "get_robot_state"), Command(0, 2, "turn_robot")}

Tasks == 0 .. MaxRuns

Keys == Tasks \X (1 .. 2)

Init ==
    /\ run = 1
    /\ scenario \in Scenarios
    /\ flaw \in Flaws
    /\ place = "off"
    /\ at = 1
    /\ answers = <<>>
    /\ before = [motions |-> 0, turns |-> 0]
    /\ verdict = "none"
    /\ commands = {}
    /\ repeated = {}
    /\ lost = {}
    /\ results = [k \in {} |-> "none"]
    /\ latest = [t \in Tasks |-> 0]
    /\ pending = [k \in {} |-> 0]
    /\ moving = {}
    /\ motions = 0
    /\ executions = [k \in Keys |-> 0]
    /\ disturbances = 0
    /\ ServiceInit

\* The count and the pose, which a turn under way has not reached yet.
Moved == [motions |-> motions,
          turns   |-> motions - (IF moving = {} THEN 0 ELSE 1)]

Calm == UNCHANGED disturbances

Disturbs ==
    /\ disturbances < MaxDisturbances
    /\ disturbances' = disturbances + 1

-----------------------------------------------------------------------------
(* The owner of the service and the run.                                   *)

GoTo(next) ==
    /\ place' = next
    /\ UNCHANGED <<run, scenario, at, answers, before, verdict>>

\* The step is done, the next one follows.
StepOn ==
    /\ place' = "running"
    /\ at' = at + 1
    /\ UNCHANGED <<run, scenario, before, verdict>>

\* The scenario returns or raises: the coordinator cleans up.
EndWith(result) ==
    /\ verdict' = result
    /\ place' = "cleanup"
    /\ UNCHANGED <<run, scenario, at, before>>

Starts ==
    /\ place = "off"
    /\ StartService
    /\ GoTo("starting")
    /\ Calm
    /\ UNCHANGED <<commands, repeated, lost, deviceVars>>

\* The service is connected and a run begins.
Begins ==
    /\ place = "starting"
    /\ online
    /\ place' = "running"
    /\ before' = Moved
    /\ Calm
    /\ UNCHANGED <<run, scenario, at, answers, verdict, commands, repeated, lost, deviceVars,
                   serviceVars>>

\* The next run begins, even if the service is not connected.
BeginsAgain ==
    /\ place = "over"
    /\ run < MaxRuns
    /\ run' = run + 1
    /\ scenario' \in Scenarios
    /\ place' = "running"
    /\ at' = 1
    /\ answers' = <<>>
    /\ before' = Moved
    /\ verdict' = "none"
    /\ repeated' = {}
    /\ lost' = {}
    /\ Calm
    /\ UNCHANGED <<commands, deviceVars, serviceVars>>

StartTimesOut ==
    /\ place = "starting"
    /\ ~online
    /\ StopService
    /\ GoTo("stopped")
    /\ Disturbs
    /\ UNCHANGED <<commands, repeated, lost, deviceVars>>

Running(call) ==
    /\ place = "running"
    /\ at <= Len(Calls)
    /\ Call.do = call

\* The check that follows it cannot fail: nothing is left to connect.
Disconnects ==
    /\ Running("disconnect")
    /\ DisconnectForFault
    /\ StepOn
    /\ Calm
    /\ UNCHANGED <<answers, commands, repeated, lost, deviceVars>>

Suppresses ==
    /\ Running("suppress")
    /\ SuppressNextObservation
    /\ StepOn
    /\ Calm
    /\ UNCHANGED <<answers, commands, repeated, lost, deviceVars>>

Restores ==
    /\ Running("restore")
    /\ RestoreAfterFault
    /\ GoTo("restoring")
    /\ Calm
    /\ UNCHANGED <<commands, repeated, lost, deviceVars>>

Restored ==
    /\ place = "restoring"
    /\ online
    /\ GoTo("restored")
    /\ Calm
    /\ UNCHANGED <<commands, repeated, lost, deviceVars, serviceVars>>

\* A wait that ends in vain is a disturbance if somebody was still trying.
GivesUpWaiting ==
    /\ ~online
    /\ IF loop = "off" THEN Calm ELSE Disturbs

RestoreTimesOut ==
    /\ place = "restoring"
    /\ GivesUpWaiting
    /\ EndWith("failed")
    /\ UNCHANGED <<answers, commands, repeated, lost, deviceVars, serviceVars>>

\* The connection may be gone again when the scenario looks.
ChecksRestored ==
    /\ place = "restored"
    /\ IF online THEN StepOn ELSE EndWith("failed")
    /\ Calm
    /\ UNCHANGED <<answers, commands, repeated, lost, deviceVars, serviceVars>>

\* _request_command, up to its wait; step tells its two deliveries apart.
Requests ==
    /\ Running("ask")
    /\ commands' = commands \cup {[command |-> Asked, step |-> at]}
    /\ GoTo("waiting")
    /\ Calm
    /\ UNCHANGED <<repeated, lost, deviceVars, serviceVars>>

\* MqttConnectionError is not caught.
RequestFails ==
    /\ Running("ask")
    /\ EndWith("failed")
    /\ Disturbs
    /\ UNCHANGED <<answers, commands, repeated, lost, deviceVars, serviceVars>>

\* The client takes what has the key it waits for, be it the answer to another
\* request with that key, and the same observation may come once more.
Answered ==
    /\ place = "waiting"
    /\ \E o \in observations :
          /\ o.key = KeyOf(Asked)
          /\ answers' = Append(answers, o.code)
          /\ \/ /\ observations' = observations \ {o}
                /\ UNCHANGED repeated
                /\ Calm
             \/ /\ repeated' = repeated \cup {o.key}
                /\ UNCHANGED observations
                /\ Disturbs
    /\ IF scenario = "device_disconnect" /\ at = 2
       THEN EndWith("failed")
       ELSE StepOn
    /\ UNCHANGED <<commands, lost, deviceVars, linkVars, suppressNext, swallowed>>

\* The wait is meant to end so when the device is cut off or its answer held,
\* and not while an answer is on its way.
TimesOut ==
    /\ place = "waiting"
    /\ IF /\ loopStopped \/ KeyOf(Asked) \in swallowed
          /\ \A o \in observations : o.key # KeyOf(Asked)
       THEN Calm
       ELSE Disturbs
    /\ answers' = Append(answers, "timeout")
    /\ StepOn
    /\ UNCHANGED <<commands, repeated, lost, deviceVars, serviceVars>>

\* Mutant: a duplicate is judged by its answers alone.
JudgeByAnswers ==
    CASE scenario = "device_disconnect" -> answers[2] = "success"
      [] scenario = "response_timeout" -> answers[1] = "timeout"
      [] scenario = "duplicate_delivery" ->
             "timeout" \notin {answers[1], answers[2]} /\ answers[1] = answers[2]
      [] scenario = "out_of_order" -> answers = <<"success", "stale_sequence">>

\* What a scenario that got through its script concludes.
Passes ==
    CASE scenario = "device_disconnect" -> answers[2] = "success"
      [] scenario = "response_timeout" -> answers[1] = "timeout"
      [] scenario = "duplicate_delivery" ->
             /\ "timeout" \notin {answers[1], answers[2]}
             /\ answers[1] = answers[2]
             /\ Moved = [motions |-> before.motions + 1, turns |-> before.turns + 1]
      [] scenario = "out_of_order" ->
             /\ answers = <<"success", "stale_sequence">>
             /\ Moved = before

Judges ==
    /\ place = "running"
    /\ at > Len(Calls)
    /\ EndWith(IF Passes THEN "passed" ELSE "failed")
    /\ Calm
    /\ UNCHANGED <<answers, commands, repeated, lost, deviceVars, serviceVars>>

\* cleanup: both its calls, the second up to its wait.
CleansUp ==
    /\ place = "cleanup"
    /\ ClearFaultInjection
    /\ GoTo("mending")
    /\ Calm
    /\ UNCHANGED <<commands, repeated, lost, deviceVars>>

Mends ==
    /\ place = "mending"
    /\ RestoreAfterFault
    /\ GoTo(IF online THEN "over" ELSE "recovering")
    /\ Calm
    /\ UNCHANGED <<commands, repeated, lost, deviceVars>>

Recovers ==
    /\ place = "recovering"
    /\ online
    /\ GoTo("over")
    /\ Calm
    /\ UNCHANGED <<commands, repeated, lost, deviceVars, serviceVars>>

CleanupFails ==
    /\ place = "recovering"
    /\ GivesUpWaiting
    /\ verdict' = "failed"
    /\ place' = "over"
    /\ UNCHANGED <<run, scenario, at, answers, before, commands, repeated, lost, deviceVars,
                   serviceVars>>

Stops ==
    /\ place = "over"
    /\ StopService
    /\ GoTo("stopped")
    /\ Calm
    /\ UNCHANGED <<commands, repeated, lost, deviceVars>>

-----------------------------------------------------------------------------
(* The device.                                                             *)

IsMotion(c) == c.tool = "turn_robot"

Remembers(c) ==
    /\ KeyOf(c) \in DOMAIN results
    /\ ~(flaw = "repeats" /\ IsMotion(c))

\* The answer is remembered and given at once.
AnswersAtOnce(c, code) ==
    /\ results' = With(results, KeyOf(c), code)
    /\ latest' = [latest EXCEPT ![c.task] = IF c.seq > @ THEN c.seq ELSE @]
    /\ PublishObservation(KeyOf(c), code, 1)
    /\ UNCHANGED <<flaw, pending, moving, motions, executions>>

ReplaysAnswer(c) ==
    /\ Remembers(c)
    /\ PublishObservation(KeyOf(c),
                          IF flaw = "contradicts" THEN "rejected"
                                                  ELSE results[KeyOf(c)], 1)
    /\ UNCHANGED deviceVars

JoinsPending(c) ==
    /\ ~Remembers(c)
    /\ KeyOf(c) \in DOMAIN pending
    /\ pending' = [pending EXCEPT ![KeyOf(c)] = @ + 1]
    /\ UNCHANGED <<flaw, results, latest, moving, motions, executions, serviceVars>>

IsNew(c) == ~Remembers(c) /\ KeyOf(c) \notin DOMAIN pending

IsStale(c) == c.seq < latest[c.task] /\ flaw # "ignores_order"

RejectsStale(c) ==
    /\ IsNew(c)
    /\ IsStale(c)
    /\ AnswersAtOnce(c, "stale_sequence")

AnswersQuery(c) ==
    /\ IsNew(c)
    /\ ~IsStale(c)
    /\ ~IsMotion(c)
    /\ AnswersAtOnce(c, "success")

QueuesMotion(c) ==
    /\ IsNew(c)
    /\ ~IsStale(c)
    /\ IsMotion(c)
    /\ pending' = With(pending, KeyOf(c), 1)
    /\ latest' = [latest EXCEPT ![c.task] = IF c.seq > @ THEN c.seq ELSE @]
    /\ UNCHANGED <<flaw, results, moving, motions, executions, serviceVars>>

Submits(c) ==
    \/ ReplaysAnswer(c)
    \/ JoinsPending(c)
    \/ RejectsStale(c)
    \/ AnswersQuery(c)
    \/ QueuesMotion(c)

\* One motion at a time; it counts from its start.
StartsMotion(k) ==
    /\ moving = {}
    /\ moving' = {k}
    /\ motions' = motions + 1
    /\ executions' = [executions EXCEPT ![k] = @ + 1]
    /\ UNCHANGED <<flaw, results, latest, pending, serviceVars>>

\* The tick that ends a motion answers every callback that waits for it.
CompletesMotion(k) ==
    /\ k \in moving
    /\ moving' = {}
    /\ pending' = [j \in DOMAIN pending \ {k} |-> pending[j]]
    /\ results' = With(results, k, "success")
    /\ PublishObservation(k, "success", pending[k])
    /\ UNCHANGED <<flaw, latest, motions, executions>>

-----------------------------------------------------------------------------
(* The network.                                                            *)

IsAwaited(c) == place = "waiting" /\ c.step = at /\ c.command = Asked

\* A command of a run that is delivered behind its wait is a disturbance, and
\* so is one that will come again.
DeliversCommand ==
    /\ online
    /\ \E c \in commands :
          /\ Submits(c.command)
          /\ \/ /\ commands' = commands \ {c}
                /\ UNCHANGED repeated
                /\ IF IsAwaited(c) \/ c.command \in ForeignCommands THEN Calm
                                                                ELSE Disturbs
             \/ /\ repeated' = repeated \cup {KeyOf(c.command)}
                /\ UNCHANGED commands
                /\ Disturbs
    /\ UNCHANGED <<runVars, lost>>

LosesACommand ==
    /\ \E c \in commands :
          /\ commands' = commands \ {c}
          /\ lost' = lost \cup {KeyOf(c.command)}
    /\ UNCHANGED <<runVars, repeated, deviceVars, serviceVars>>

\* The broker keeps nothing for a device that is not there.
DropsCommand == ~online /\ LosesACommand /\ Calm

LosesCommand == online /\ LosesACommand /\ Disturbs

LosesObservation ==
    /\ \E o \in observations :
          /\ observations' = observations \ {o}
          /\ lost' = lost \cup {o.key}
    /\ Disturbs
    /\ UNCHANGED <<runVars, commands, repeated, deviceVars, linkVars, suppressNext, swallowed>>

OthersSend ==
    /\ serviceUp
    /\ \E c \in ForeignCommands : commands' = commands \cup {[command |-> c, step |-> 0]}
    /\ Disturbs
    /\ UNCHANGED <<runVars, repeated, lost, deviceVars, serviceVars>>

ServiceThread ==
    /\ \/ (ServiceConnects \/ ServiceSubscribes) /\ Calm
       \/ (SubscriptionRefused \/ ServiceDisconnects \/ ServiceConnectFails) /\ Disturbs
    /\ UNCHANGED <<runVars, commands, repeated, lost, deviceVars>>

Run ==
    \/ Disconnects
    \/ Suppresses
    \/ Restores
    \/ Restored
    \/ RestoreTimesOut
    \/ ChecksRestored
    \/ Requests
    \/ RequestFails
    \/ Answered
    \/ TimesOut
    \/ Judges
    \/ CleansUp
    \/ Mends
    \/ Recovers
    \/ CleanupFails

Tick ==
    /\ \E k \in DOMAIN pending : StartsMotion(k) \/ CompletesMotion(k)
    /\ Calm
    /\ UNCHANGED <<runVars, commands, repeated, lost>>

Next ==
    \/ Starts
    \/ Begins
    \/ BeginsAgain
    \/ StartTimesOut
    \/ Run
    \/ Stops
    \/ DeliversCommand
    \/ Tick
    \/ DropsCommand
    \/ LosesCommand
    \/ LosesObservation
    \/ OthersSend
    \/ ServiceThread

Spec == Init /\ [][Next]_vars

-----------------------------------------------------------------------------
(* Properties.                                                             *)

\* A message with the key may still arrive.
OnItsWay(key) ==
    \/ \E c \in commands : KeyOf(c.command) = key
    \/ \E o \in observations : o.key = key

\* What a verdict "passed" proves.  Of a motion sent twice: the device executed
\* it; once only, unless the device repeats itself and the network did as well;
\* and the device does not contradict itself, unless the network repeated a
\* message of the run, whose answer then stood in for another one.  Of an older
\* number: the device minds the order.  Of a device cut off: it worked again.
\* Of an answer that did not come: it was held back, or its command or itself
\* is lost or late, so that another client's answer held back in its place
\* lets nothing pass.
PassedIsEarned ==
    verdict = "passed" =>
        /\ scenario = "duplicate_delivery" =>
               /\ executions[<<run, 1>>] >= 1
               /\ executions[<<run, 1>>] > 1 => flaw = "repeats" /\ <<run, 1>> \in repeated
               /\ flaw = "contradicts" => <<run, 1>> \in repeated
        /\ scenario = "out_of_order" => flaw # "ignores_order"
        /\ scenario = "device_disconnect" => <<run, 2>> \in DOMAIN results
        /\ scenario = "response_timeout" =>
               <<run, 1>> \in swallowed \cup lost \/ OnItsWay(<<run, 1>>)

\* With a device without flaw and nothing disturbing it, no scenario fails.
NoFalseAlarm ==
    verdict = "failed" => flaw # "none" \/ disturbances > 0

\* No fault outlives its run: nothing is held back any more, and the network
\* thread runs unless it had given up by itself.
FaultUndone ==
    place = "over" =>
        /\ ~suppressNext
        /\ ~loopStopped
        /\ loop = "off" => exhausted
=============================================================================
