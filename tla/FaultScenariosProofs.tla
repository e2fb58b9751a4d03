------------------------ MODULE FaultScenariosProofs ------------------------
(***************************************************************************)
(* For every number of runs, disturbances and attempts, a device with any  *)
(* flaw and a network that loses, delays and repeats: no fault outlives    *)
(* its run, a scenario that passed proves what PassedIsEarned says of the  *)
(* device, and none fails unless the device has a flaw or something        *)
(* disturbed it.                                                           *)
(***************************************************************************)
EXTENDS FaultScenarios, SequenceTheorems, TLAPS

(* The control of a run: where it is in its script and what its faults     *)
(* have done to the service.                                               *)

Codes == {"success", "rejected", "stale_sequence"}

\* Where a run is that has no verdict yet.
Undecided == {"off", "starting", "running", "waiting", "restoring", "restored"}

Places == Undecided \cup {"cleanup", "mending", "recovering", "over", "stopped"}

RunTyped ==
    /\ run \in 1 .. MaxRuns
    /\ scenario \in Scenarios
    /\ place \in Places
    /\ at \in Nat
    /\ answers \in Seq(Codes \cup {"timeout"})
    /\ verdict \in {"none", "passed", "failed"}
    /\ disturbances \in Nat
    /\ before \in [motions : Nat, turns : Int]

LinkTyped ==
    /\ serviceUp \in BOOLEAN
    /\ online \in BOOLEAN
    /\ exhausted \in BOOLEAN
    /\ loopStopped \in BOOLEAN
    /\ suppressNext \in BOOLEAN
    /\ loop \in {"off", "trying", "open", "refused"}

Commands == [task : Tasks, seq : 1 .. 2, tool : {"get_robot_state", "turn_robot"}]

Observations == [key : Keys, code : Codes, copy : Nat]

DeviceTyped ==
    /\ results \in [DOMAIN results -> Codes]
    /\ DOMAIN results \subseteq Keys
    /\ latest \in [Tasks -> 0 .. 2]
    /\ pending \in [DOMAIN pending -> Nat \ {0}]
    /\ DOMAIN pending \subseteq Keys
    /\ moving = {} \/ \E k \in DOMAIN pending : moving = {k}
    /\ motions \in Nat
    /\ executions \in [Keys -> Nat]
    /\ observations \subseteq Observations
    /\ swallowed \subseteq Keys

CommandsTyped == commands \subseteq [command : Commands, step : Nat]

\* How many requests there are before each step of the script.
AsksBefore ==
    [device_disconnect  |-> <<0, 0, 1, 1, 2>>,
     response_timeout   |-> <<0, 0, 1>>,
     duplicate_delivery |-> <<0, 1, 2>>,
     out_of_order       |-> <<0, 1, 2>>]

\* A run waits for requests only and has an answer to each one behind it.
Progress ==
    /\ at \in 1 .. Len(Calls) + 1
    /\ place = "waiting" => at <= Len(Calls) /\ Call.do = "ask"
    /\ place \in {"restoring", "restored"} => scenario = "device_disconnect" /\ at = 3
    /\ place \in {"off", "starting"} => at = 1
    /\ place \in Undecided =>
           verdict = "none" /\ Len(answers) = AsksBefore[scenario][at]
    /\ verdict = "passed" =>
           at = Len(Calls) + 1 /\ Len(answers) = AsksBefore[scenario][at]

\* A fault is only ever in force during its own scenario, up to the call of the
\* cleanup that undoes it.
Switches ==
    /\ online => loop = "open"
    /\ loopStopped =>
           /\ loop = "off"
           /\ scenario = "device_disconnect"
           /\ place \in {"running", "waiting", "cleanup", "mending"}
    /\ suppressNext =>
           /\ scenario = "response_timeout"
           /\ place \in {"running", "waiting", "cleanup"}
    /\ serviceUp = (place \notin {"off", "stopped"})
    /\ serviceUp /\ loop = "off" => exhausted \/ loopStopped
    /\ ~serviceUp => loop = "off"

Control ==
    RunTyped /\ LinkTyped /\ DeviceTyped /\ CommandsTyped /\ Progress /\ Switches

-----------------------------------------------------------------------------
(* The scripts and what the steps leave alone.                             *)

LEMMA CallsOfScenario ==
    ASSUME scenario \in Scenarios
    PROVE  /\ scenario = "device_disconnect" =>
                  /\ Len(Calls) = 4
                  /\ Calls[1] = Do("disconnect") /\ Calls[2] = Ask(1, "get_robot_state")
                  /\ Calls[3] = Do("restore") /\ Calls[4] = Ask(2, "get_robot_state")
           /\ scenario = "response_timeout" =>
                  /\ Len(Calls) = 2
                  /\ Calls[1] = Do("suppress") /\ Calls[2] = Ask(1, "get_robot_state")
           /\ scenario = "duplicate_delivery" =>
                  /\ Len(Calls) = 2
                  /\ Calls[1] = Ask(1, "turn_robot") /\ Calls[2] = Ask(1, "turn_robot")
           /\ scenario = "out_of_order" =>
                  /\ Len(Calls) = 2
                  /\ Calls[1] = Ask(2, "get_robot_state")
                  /\ Calls[2] = Ask(1, "get_robot_state")
  BY DEF Calls, Script, Scenarios

LEMMA CallKinds ==
    /\ \A name : Do(name).do = name
    /\ \A seq, tool : /\ Ask(seq, tool).do = "ask"
                      /\ Ask(seq, tool).seq = seq
                      /\ Ask(seq, tool).tool = tool
  BY DEF Do, Ask

LEMMA AsksBeforeStep ==
    /\ AsksBefore["device_disconnect"][1] = 0 /\ AsksBefore["device_disconnect"][2] = 0
    /\ AsksBefore["device_disconnect"][3] = 1 /\ AsksBefore["device_disconnect"][4] = 1
    /\ AsksBefore["device_disconnect"][5] = 2
    /\ AsksBefore["response_timeout"][1] = 0 /\ AsksBefore["response_timeout"][2] = 0
    /\ AsksBefore["response_timeout"][3] = 1
    /\ AsksBefore["duplicate_delivery"][1] = 0 /\ AsksBefore["duplicate_delivery"][2] = 1
    /\ AsksBefore["duplicate_delivery"][3] = 2
    /\ AsksBefore["out_of_order"][1] = 0 /\ AsksBefore["out_of_order"][2] = 1
    /\ AsksBefore["out_of_order"][3] = 2
  BY DEF AsksBefore

\* What the calls of a script are, at each of its steps.
LEMMA CallAt ==
    ASSUME scenario \in Scenarios, at \in 1 .. Len(Calls)
    PROVE  /\ at \in 1 .. 4
           /\ Call.do = "disconnect" => scenario = "device_disconnect" /\ at = 1
           /\ Call.do = "suppress" => scenario = "response_timeout" /\ at = 1
           /\ Call.do = "restore" => scenario = "device_disconnect" /\ at = 3
           /\ Call.do = "ask" =>
                  \/ scenario = "device_disconnect" /\ at = 2 /\ Call = Ask(1, "get_robot_state")
                  \/ scenario = "device_disconnect" /\ at = 4 /\ Call = Ask(2, "get_robot_state")
                  \/ scenario = "response_timeout" /\ at = 2 /\ Call = Ask(1, "get_robot_state")
                  \/ scenario = "duplicate_delivery" /\ at \in {1, 2}
                                                     /\ Call = Ask(1, "turn_robot")
                  \/ scenario = "out_of_order" /\ at = 1 /\ Call = Ask(2, "get_robot_state")
                  \/ scenario = "out_of_order" /\ at = 2 /\ Call = Ask(1, "get_robot_state")
  <1>1. CASE scenario = "device_disconnect"
    <2>0. Len(Calls) = 4
      BY <1>1, CallsOfScenario
    <2>1. at \in 1 .. 4
      BY <2>0
    <2> QED BY <1>1, <2>1, CallsOfScenario, CallKinds DEF Call
  <1>2. CASE scenario # "device_disconnect"
    <2>0. Len(Calls) = 2
      BY <1>2, CallsOfScenario DEF Scenarios
    <2>1. at \in 1 .. 2
      BY <2>0
    <2> QED BY <1>2, <2>1, CallsOfScenario, CallKinds DEF Call, Scenarios
  <1> QED BY <1>1, <1>2

\* One more answer is due behind a request and none behind another call.
LEMMA AsksSoFar ==
    ASSUME scenario \in Scenarios, at \in 1 .. Len(Calls)
    PROVE  AsksBefore[scenario][at + 1] =
               AsksBefore[scenario][at] + (IF Call.do = "ask" THEN 1 ELSE 0)
  <1>1. CASE scenario = "device_disconnect"
    <2>0. Len(Calls) = 4
      BY <1>1, CallsOfScenario
    <2>1. at \in 1 .. 4
      BY <2>0
    <2> QED BY <1>1, <2>1, CallsOfScenario, CallKinds, AsksBeforeStep DEF Call
  <1>2. CASE scenario # "device_disconnect"
    <2>0. Len(Calls) = 2
      BY <1>2, CallsOfScenario DEF Scenarios
    <2>1. at \in 1 .. 2
      BY <2>0
    <2> QED BY <1>2, <2>1, CallsOfScenario, CallKinds, AsksBeforeStep DEF Call, Scenarios
  <1> QED BY <1>1, <1>2

LEMMA CommandFields ==
    ASSUME NEW c \in Commands
    PROVE  /\ c.task \in Tasks /\ c.seq \in 1 .. 2
           /\ c.tool \in {"get_robot_state", "turn_robot"}
           /\ KeyOf(c) = <<c.task, c.seq>> /\ KeyOf(c) \in Keys
  BY DEF Commands, KeyOf, Keys

\* What is published is one key and one code, and the first may be held back.
LEMMA Published ==
    ASSUME NEW key, NEW code, NEW copies \in Nat, suppressNext \in BOOLEAN,
           PublishObservation(key, code, copies)
    PROVE  /\ observations \subseteq observations'
           /\ \A o \in observations' \ observations :
                  /\ o \in [key : {key}, code : {code}, copy : 1 .. copies]
                  /\ o.key = key /\ o.code = code
           /\ swallowed \subseteq swallowed'
           /\ swallowed' \subseteq swallowed \cup {key}
           /\ suppressNext => key \in swallowed'
           /\ ~suppressNext => swallowed' = swallowed
           /\ suppressNext' = FALSE
           /\ UNCHANGED linkVars
  BY DEF PublishObservation

LEMMA PublishedTyped ==
    ASSUME NEW key \in Keys, NEW code \in Codes, NEW copies \in Nat,
           suppressNext \in BOOLEAN, observations \subseteq Observations,
           swallowed \subseteq Keys, PublishObservation(key, code, copies)
    PROVE  observations' \subseteq Observations /\ swallowed' \subseteq Keys
  <1>1. ASSUME NEW n \in 0 .. copies
        PROVE  [key |-> key, code |-> code, copy |-> n] \in Observations
    BY <1>1 DEF Observations
  <1>2. \A o \in observations' \ observations :
            \E n \in 0 .. copies : o = [key |-> key, code |-> code, copy |-> n]
    BY DEF PublishObservation
  <1>3. swallowed' \subseteq Keys
    BY DEF PublishObservation
  <1> QED BY <1>1, <1>2, <1>3

\* The highest number of a task is one that was sent.
LEMMA LatestTyped ==
    ASSUME latest \in [Tasks -> 0 .. 2], NEW c \in Commands
    PROVE  [latest EXCEPT ![c.task] = IF c.seq > @ THEN c.seq ELSE @] \in [Tasks -> 0 .. 2]
  <1>1. c.task \in Tasks /\ c.seq \in 0 .. 2 /\ latest[c.task] \in 0 .. 2
    BY DEF Commands
  <1> QED BY <1>1

-----------------------------------------------------------------------------
(* The device's steps.                                                     *)

\* What the device may do with a command.
LEMMA AnswersAtOnceTyped ==
    ASSUME DeviceTyped, LinkTyped, NEW c \in Commands, NEW code \in Codes,
           AnswersAtOnce(c, code)
    PROVE  DeviceTyped'
  <1>1. /\ results' \in [DOMAIN results' -> Codes]
        /\ DOMAIN results' \subseteq Keys
    <2>1. /\ results \in [DOMAIN results -> Codes] /\ DOMAIN results \subseteq Keys
          /\ KeyOf(c) \in Keys /\ results' = With(results, KeyOf(c), code)
      BY CommandFields DEF DeviceTyped, AnswersAtOnce
    <2> QED BY <2>1 DEF With
  <1>2. latest' \in [Tasks -> 0 .. 2]
    <2>1. latest \in [Tasks -> 0 .. 2]
      BY DEF DeviceTyped
    <2>2. latest' = [latest EXCEPT ![c.task] = IF c.seq > @ THEN c.seq ELSE @]
      BY DEF AnswersAtOnce
    <2> QED BY <2>1, <2>2, LatestTyped
  <1>3. observations' \subseteq Observations /\ swallowed' \subseteq Keys
    BY CommandFields, PublishedTyped DEF DeviceTyped, LinkTyped, AnswersAtOnce
  <1> QED BY <1>1, <1>2, <1>3 DEF DeviceTyped, AnswersAtOnce

LEMMA SubmitsTyped ==
    ASSUME DeviceTyped, LinkTyped, NEW c \in Commands, Submits(c)
    PROVE  DeviceTyped'
  <1>1. CASE ReplaysAnswer(c)
    <2> DEFINE code == IF flaw = "contradicts" THEN "rejected" ELSE results[KeyOf(c)]
    <2>1. code \in Codes
      BY <1>1 DEF DeviceTyped, ReplaysAnswer, Remembers, Codes
    <2>2. PublishObservation(KeyOf(c), code, 1)
      BY <1>1 DEF ReplaysAnswer
    <2> HIDE DEF code
    <2>3. observations' \subseteq Observations /\ swallowed' \subseteq Keys
      BY <2>1, <2>2, CommandFields, PublishedTyped DEF DeviceTyped, LinkTyped
    <2> QED BY <1>1, <2>3 DEF DeviceTyped, ReplaysAnswer, deviceVars
  <1>2. CASE JoinsPending(c)
    BY <1>2 DEF DeviceTyped, JoinsPending, serviceVars, publishVars
  <1>3. CASE RejectsStale(c)
    BY <1>3, AnswersAtOnceTyped DEF RejectsStale, Codes
  <1>4. CASE AnswersQuery(c)
    BY <1>4, AnswersAtOnceTyped DEF AnswersQuery, Codes
  <1>5. CASE QueuesMotion(c)
    <2>1. /\ pending' \in [DOMAIN pending' -> Nat \ {0}]
          /\ DOMAIN pending' \subseteq Keys
      <3>1. /\ pending \in [DOMAIN pending -> Nat \ {0}] /\ DOMAIN pending \subseteq Keys
            /\ KeyOf(c) \in Keys /\ pending' = With(pending, KeyOf(c), 1)
        BY <1>5, CommandFields DEF DeviceTyped, QueuesMotion
      <3> QED BY <3>1 DEF With
    <2>2. latest' \in [Tasks -> 0 .. 2]
      <3>1. latest \in [Tasks -> 0 .. 2]
        BY DEF DeviceTyped
      <3>2. latest' = [latest EXCEPT ![c.task] = IF c.seq > @ THEN c.seq ELSE @]
        BY <1>5 DEF QueuesMotion
      <3> QED BY <3>1, <3>2, LatestTyped
    <2>3. moving' = moving /\ DOMAIN pending \subseteq DOMAIN pending'
      BY <1>5 DEF QueuesMotion, With
    <2> QED BY <1>5, <2>1, <2>2, <2>3 DEF DeviceTyped, QueuesMotion, serviceVars, publishVars
  <1> QED BY <1>1, <1>2, <1>3, <1>4, <1>5 DEF Submits

LEMMA CompletesTyped ==
    ASSUME DeviceTyped, LinkTyped, NEW k \in DOMAIN pending, CompletesMotion(k)
    PROVE  DeviceTyped'
  <1>1. /\ results' \in [DOMAIN results' -> Codes]
        /\ DOMAIN results' \subseteq Keys
    <2>1. /\ results \in [DOMAIN results -> Codes] /\ DOMAIN results \subseteq Keys
          /\ k \in Keys /\ results' = With(results, k, "success") /\ "success" \in Codes
      BY DEF DeviceTyped, CompletesMotion, Codes
    <2> QED BY <2>1 DEF With
  <1>2. k \in Keys /\ pending[k] \in Nat /\ "success" \in Codes
    BY DEF DeviceTyped, Codes
  <1>3. observations' \subseteq Observations /\ swallowed' \subseteq Keys
    BY <1>2, PublishedTyped DEF DeviceTyped, LinkTyped, CompletesMotion
  <1>4. moving' = {} /\ motions' \in Nat /\ executions' \in [Keys -> Nat]
    BY DEF DeviceTyped, CompletesMotion
  <1>5. /\ pending' \in [DOMAIN pending' -> Nat \ {0}]
        /\ DOMAIN pending' \subseteq Keys
    BY DEF DeviceTyped, CompletesMotion
  <1> QED BY <1>1, <1>3, <1>4, <1>5 DEF DeviceTyped, CompletesMotion

LEMMA StartsTyped ==
    ASSUME DeviceTyped, NEW k \in DOMAIN pending, StartsMotion(k)
    PROVE  DeviceTyped'
  <1>1. k \in Keys /\ executions \in [Keys -> Nat] /\ motions \in Nat
    BY DEF DeviceTyped
  <1>2. executions' \in [Keys -> Nat] /\ motions' \in Nat
    BY <1>1 DEF StartsMotion
  <1>3. UNCHANGED <<results, latest, pending, observations, swallowed>> /\ moving' = {k}
    BY DEF StartsMotion, serviceVars, publishVars
  <1> QED BY <1>2, <1>3 DEF DeviceTyped

\* A step of the device changes no switch but the one that was used.
LEMMA DeviceLinks ==
    ASSUME DeviceTyped, LinkTyped,
           \/ \E c \in Commands : Submits(c)
           \/ \E k \in DOMAIN pending : StartsMotion(k) \/ CompletesMotion(k)
    PROVE  UNCHANGED <<linkVars, flaw>> /\ (suppressNext' = suppressNext \/ suppressNext' = FALSE)
  <1>1. ASSUME NEW c \in Commands, Submits(c)
        PROVE  UNCHANGED <<linkVars, flaw>> /\ (suppressNext' = suppressNext \/ suppressNext' = FALSE)
    BY <1>1, Published
    DEF LinkTyped, Submits, ReplaysAnswer, JoinsPending, RejectsStale, AnswersQuery,
        QueuesMotion, AnswersAtOnce, deviceVars, serviceVars, publishVars
  <1>2. ASSUME NEW k \in DOMAIN pending, CompletesMotion(k)
        PROVE  UNCHANGED <<linkVars, flaw>> /\ (suppressNext' = suppressNext \/ suppressNext' = FALSE)
    BY <1>2, Published DEF LinkTyped, DeviceTyped, CompletesMotion
  <1>3. ASSUME NEW k \in DOMAIN pending, StartsMotion(k)
        PROVE  UNCHANGED <<linkVars, flaw>> /\ suppressNext' = suppressNext
    BY <1>3 DEF StartsMotion, serviceVars, publishVars
  <1> QED BY <1>1, <1>2, <1>3

-----------------------------------------------------------------------------
(* What the steps leave alone.                                             *)

\* The device acts when a command reaches it and when a motion starts or ends.
LEMMA DeviceAtRest ==
    ASSUME Next, ~DeliversCommand, ~Tick
    PROVE  UNCHANGED <<deviceVars, swallowed>> /\ observations' \subseteq observations
  <1> USE DEF serviceVars, publishVars
  <1>1. CASE Run
    <2>1. CASE Disconnects \/ Suppresses \/ Restores \/ CleansUp \/ Mends
      BY <2>1 DEF Disconnects, Suppresses, Restores, CleansUp, Mends, DisconnectForFault,
                  SuppressNextObservation, RestoreAfterFault, ClearFaultInjection
    <2>2. CASE Answered
      BY <2>2 DEF Answered
    <2>3. CASE \/ Restored \/ RestoreTimesOut \/ ChecksRestored \/ Requests \/ RequestFails
               \/ TimesOut \/ Judges \/ Recovers \/ CleanupFails
      BY <2>3 DEF Restored, RestoreTimesOut, ChecksRestored, Requests, RequestFails,
                  TimesOut, Judges, Recovers, CleanupFails
    <2> QED BY <1>1, <2>1, <2>2, <2>3 DEF Run
  <1>2. CASE Starts \/ Begins \/ BeginsAgain \/ StartTimesOut \/ Stops
    BY <1>2 DEF Starts, Begins, BeginsAgain, StartTimesOut, Stops, StartService, StopService
  <1>3. CASE DropsCommand \/ LosesCommand \/ LosesObservation \/ OthersSend
    BY <1>3 DEF DropsCommand, LosesCommand, LosesACommand, LosesObservation, OthersSend
  <1>4. CASE ServiceThread
    BY <1>4 DEF ServiceThread, ServiceConnects, ServiceSubscribes, SubscriptionRefused,
                ServiceDisconnects, ServiceConnectFails
  <1> QED BY <1>1, <1>2, <1>3, <1>4 DEF Next

\* The run acts by itself.
LEMMA RunAtRest ==
    ASSUME \/ DeliversCommand \/ Tick \/ DropsCommand \/ LosesCommand
           \/ LosesObservation \/ OthersSend \/ ServiceThread
    PROVE  UNCHANGED runVars
  BY DEF DeliversCommand, Tick, DropsCommand, LosesCommand, LosesACommand, LosesObservation,
         OthersSend, ServiceThread

\* A request and another client add a command, every other step at most takes one.
LEMMA NewCommands ==
    ASSUME Next
    PROVE  \/ commands' \subseteq commands
           \/ Requests \/ OthersSend
  BY DEF Next, Run, Starts, Begins, BeginsAgain, StartTimesOut, Disconnects, Suppresses,
         Restores, Restored, RestoreTimesOut, ChecksRestored, RequestFails, Answered,
         TimesOut, Judges, CleansUp, Mends, Recovers, CleanupFails, Stops, DeliversCommand,
         Tick, DropsCommand, LosesCommand, LosesACommand, LosesObservation, ServiceThread

\* The disturbances are counted.
LEMMA Disturbances ==
    ASSUME Next, disturbances \in Nat
    PROVE  disturbances' \in Nat /\ disturbances' >= disturbances
  <1>1. CASE Calm
    BY <1>1 DEF Calm
  <1>2. CASE Disturbs
    BY <1>2 DEF Disturbs
  <1>3. Calm \/ Disturbs
    BY DEF Next, Run, Starts, Begins, BeginsAgain, StartTimesOut, Disconnects, Suppresses,
           Restores, Restored, RestoreTimesOut, ChecksRestored, Requests, RequestFails,
           Answered, TimesOut, Judges, CleansUp, Mends, Recovers, CleanupFails, Stops,
           GivesUpWaiting, DeliversCommand, Tick, DropsCommand, LosesCommand,
           LosesObservation, OthersSend, ServiceThread
  <1> QED BY <1>1, <1>2, <1>3

-----------------------------------------------------------------------------
(* The control of a run is kept.                                           *)

\* What a scenario takes down of the device when it begins.
LEMMA MovedTyped ==
    ASSUME DeviceTyped
    PROVE  Moved \in [motions : Nat, turns : Int]
  <1>1. motions \in Nat /\ motions - (IF moving = {} THEN 0 ELSE 1) \in Int
    BY DEF DeviceTyped
  <1> QED BY <1>1 DEF Moved

LEMMA ControlInit == Init => Control
  <1> SUFFICES ASSUME Init PROVE Control
    OBVIOUS
  <1>1. RunTyped
    BY ScenariosAssumption DEF Init, RunTyped, Places, Undecided
  <1>2. LinkTyped /\ Switches
    BY DEF Init, ServiceInit, LinkTyped, Switches
  <1>3. DeviceTyped
    BY DEF Init, ServiceInit, DeviceTyped
  <1>4. CommandsTyped
    BY DEF Init, CommandsTyped
  <1>5. Progress
    <2>1. Len(Calls) \in Nat
      BY CallsOfScenario DEF Init, Scenarios
    <2>2. AsksBefore[scenario][1] = 0
      BY AsksBeforeStep DEF Init, Scenarios
    <2> QED BY <2>1, <2>2 DEF Init, Progress, Undecided
  <1> QED BY <1>1, <1>2, <1>3, <1>4, <1>5 DEF Control

\* What is delivered is a command, so that the lemmas about it apply.
LEMMA DeviceActs ==
    ASSUME CommandsTyped, DeliversCommand \/ Tick
    PROVE  \/ \E c \in Commands : Submits(c)
           \/ \E k \in DOMAIN pending : StartsMotion(k) \/ CompletesMotion(k)
  BY DEF CommandsTyped, DeliversCommand, Tick

LEMMA LinkTypedNext ==
    ASSUME Control, Next
    PROVE  LinkTyped'
  <1> USE DEF LinkTyped, linkVars, serviceVars, publishVars
  <1>0. LinkTyped
    BY DEF Control
  <1>1. CASE Run
    BY <1>0, <1>1
    DEF Run, Disconnects, Suppresses, Restores, Restored, RestoreTimesOut, ChecksRestored,
        Requests, RequestFails, Answered, TimesOut, Judges, CleansUp, Mends, Recovers,
        CleanupFails, DisconnectForFault, SuppressNextObservation, RestoreAfterFault,
        ClearFaultInjection
  <1>2. CASE Starts \/ Begins \/ BeginsAgain \/ StartTimesOut \/ Stops
    BY <1>0, <1>2 DEF Starts, Begins, BeginsAgain, StartTimesOut, Stops, StartService, StopService
  <1>3. CASE DropsCommand \/ LosesCommand \/ LosesObservation \/ OthersSend
    BY <1>0, <1>3 DEF DropsCommand, LosesCommand, LosesACommand, LosesObservation, OthersSend
  <1>4. CASE ServiceThread
    BY <1>0, <1>4 DEF ServiceThread, ServiceConnects, ServiceSubscribes, SubscriptionRefused,
                ServiceDisconnects, ServiceConnectFails
  <1>5. CASE DeliversCommand \/ Tick
    BY <1>0, <1>5, DeviceActs, DeviceLinks DEF Control
  <1> QED BY <1>1, <1>2, <1>3, <1>4, <1>5 DEF Next

LEMMA DeviceTypedNext ==
    ASSUME Control, Next
    PROVE  DeviceTyped'
  <1>1. CASE DeliversCommand \/ Tick
    BY <1>1, DeviceActs, SubmitsTyped, StartsTyped, CompletesTyped DEF Control
  <1>2. CASE ~DeliversCommand /\ ~Tick
    <2>1. /\ UNCHANGED <<flaw, results, latest, pending, moving, motions, executions, swallowed>>
          /\ observations' \subseteq observations
      BY <1>2, DeviceAtRest DEF deviceVars
    <2> QED BY <2>1 DEF Control, DeviceTyped
  <1> QED BY <1>1, <1>2

LEMMA CommandsTypedNext ==
    ASSUME Control, Next
    PROVE  CommandsTyped'
  <1>1. CASE commands' \subseteq commands
    BY <1>1 DEF Control, CommandsTyped
  <1>2. CASE Requests
    <2>1. scenario \in Scenarios /\ at \in 1 .. Len(Calls) /\ Call.do = "ask"
      BY <1>2 DEF Control, RunTyped, Progress, Requests, Running
    <2>2. Call.seq \in 1 .. 2 /\ Call.tool \in {"get_robot_state", "turn_robot"} /\ at \in Nat
      BY <2>1, CallAt, CallKinds
    <2>3. run \in Tasks
      BY ScenariosAssumption DEF Control, RunTyped, Tasks
    <2>4. [command |-> Asked, step |-> at] \in [command : Commands, step : Nat]
      BY <2>2, <2>3 DEF Asked, Command, Commands
    <2> QED BY <1>2, <2>4 DEF Requests, Control, CommandsTyped
  <1>3. CASE OthersSend
    <2>1. \A c \in ForeignCommands : [command |-> c, step |-> 0] \in [command : Commands, step : Nat]
      BY ScenariosAssumption DEF ForeignCommands, Command, Commands, Tasks
    <2> QED BY <1>3, <2>1 DEF OthersSend, Control, CommandsTyped
  <1> QED BY <1>1, <1>2, <1>3, NewCommands

\* A step of the script is one of its calls, and a further one may follow it.
LEMMA InScript ==
    ASSUME Control, at <= Len(Calls)
    PROVE  /\ scenario \in Scenarios
           /\ at \in 1 .. Len(Calls)
           /\ at + 1 \in Nat /\ at + 1 \in 1 .. Len(Calls) + 1
           /\ AsksBefore[scenario][at + 1] =
                  AsksBefore[scenario][at] + (IF Call.do = "ask" THEN 1 ELSE 0)
  <1>1. scenario \in Scenarios /\ at \in 1 .. Len(Calls) + 1 /\ at \in Nat
    BY DEF Control, RunTyped, Progress
  <1>2. Len(Calls) \in Nat
    BY <1>1, CallsOfScenario DEF Scenarios
  <1>3. at \in 1 .. Len(Calls)
    BY <1>1, <1>2
  <1> QED BY <1>1, <1>2, <1>3, AsksSoFar

\* The parts of the control that depend on the run alone.
RunControl == RunTyped /\ Progress

LEMMA RunControlKept ==
    ASSUME RunControl, UNCHANGED runVars, disturbances' \in Nat
    PROVE  RunControl'
  <1>1. Calls' = Calls /\ Call' = Call
    BY DEF runVars, Calls, Call
  <1> QED BY <1>1 DEF RunControl, RunTyped, Progress, runVars

\* A step to a place that has nothing to do with the script.
LEMMA RunControlGoes ==
    ASSUME Control, disturbances' \in Nat,
           \/ place \in Undecided /\ GoTo("running") /\ at = 1
           \/ place \in Undecided /\ GoTo("waiting") /\ at <= Len(Calls) /\ Call.do = "ask"
           \/ place \in Undecided /\ GoTo("starting") /\ at = 1
           \/ place \in Undecided /\ GoTo("restoring") /\ scenario = "device_disconnect" /\ at = 3
           \/ place \in Undecided /\ GoTo("restored") /\ scenario = "device_disconnect" /\ at = 3
           \/ \E next \in Places \ Undecided : GoTo(next)
    PROVE  RunControl'
  <1>1. UNCHANGED <<run, scenario, at, answers, before, verdict>>
    BY DEF GoTo
  <1>2. Calls' = Calls /\ Call' = Call
    BY <1>1 DEF Calls, Call
  <1>3. RunTyped'
    BY <1>1 DEF Control, RunTyped, GoTo, Places, Undecided
  <1>4. Progress'
    BY <1>1, <1>2 DEF Control, Progress, GoTo, Places, Undecided
  <1> QED BY <1>3, <1>4 DEF RunControl

\* A step that ends the scenario.
LEMMA RunControlEnds ==
    ASSUME Control, disturbances' \in Nat, answers' \in Seq(Codes \cup {"timeout"}),
           NEW result \in {"passed", "failed"}, EndWith(result),
           result = "passed" => /\ place \in Undecided /\ answers' = answers
                                /\ at = Len(Calls) + 1
    PROVE  RunControl'
  <1>1. Calls' = Calls /\ UNCHANGED <<run, scenario, at, before>>
    BY DEF Calls, EndWith
  <1>2. RunTyped'
    BY <1>1 DEF Control, RunTyped, EndWith, Places
  <1>3. Progress'
    BY <1>1 DEF Control, Progress, EndWith, Undecided
  <1> QED BY <1>2, <1>3 DEF RunControl

\* A step to the next call, with an answer if this one was a request.
LEMMA RunControlSteps ==
    ASSUME Control, disturbances' \in Nat, at <= Len(Calls), place \in Undecided, StepOn,
           NEW code \in Codes \cup {"timeout"},
           answers' = IF Call.do = "ask" THEN Append(answers, code) ELSE answers
    PROVE  RunControl'
  <1>1. Calls' = Calls /\ UNCHANGED <<run, scenario, before, verdict>>
        /\ at' = at + 1 /\ place' = "running"
    BY DEF Calls, StepOn
  <1>2. answers \in Seq(Codes \cup {"timeout"})
    BY DEF Control, RunTyped
  <1>3. /\ answers' \in Seq(Codes \cup {"timeout"})
        /\ Len(answers') = Len(answers) + (IF Call.do = "ask" THEN 1 ELSE 0)
    BY <1>2
  <1>4. RunTyped'
    BY <1>1, <1>3, InScript DEF Control, RunTyped, Places, Undecided
  <1>5. Len(answers') = AsksBefore[scenario][at + 1]
    BY <1>3, InScript DEF Control, Progress
  <1>6. Progress'
    BY <1>1, <1>5, InScript DEF Control, Progress, Undecided
  <1> QED BY <1>4, <1>6 DEF RunControl

LEMMA RunControlNext ==
    ASSUME Control, Next
    PROVE  RunControl'
  <1>0. disturbances' \in Nat /\ answers \in Seq(Codes \cup {"timeout"}) /\ "timeout" \in Codes \cup {"timeout"}
    BY Disturbances DEF Control, RunTyped
  <1>1. CASE Disconnects \/ Suppresses
    BY <1>0, <1>1, RunControlSteps DEF Disconnects, Suppresses, Running, Undecided
  <1>2. CASE Restores
    <2>1. scenario = "device_disconnect" /\ at = 3
      BY <1>2, InScript, CallAt DEF Restores, Running
    <2> QED BY <1>0, <1>2, <2>1, RunControlGoes DEF Restores, Running, Undecided
  <1>3. CASE Restored
    BY <1>0, <1>3, RunControlGoes DEF Restored, Control, Progress, Undecided
  <1>4. CASE RestoreTimesOut \/ RequestFails
    BY <1>0, <1>4, RunControlEnds DEF RestoreTimesOut, RequestFails
  <1>5. CASE ChecksRestored
    <2>1. at <= Len(Calls) /\ Call.do # "ask"
      <3>1. scenario = "device_disconnect" /\ at = 3
        BY <1>5 DEF ChecksRestored, Control, Progress
      <3>2. Len(Calls) = 4 /\ Calls[3] = Do("restore") /\ scenario \in Scenarios
        BY <3>1, CallsOfScenario DEF Scenarios
      <3> QED BY <3>1, <3>2, CallKinds DEF Call
    <2>2. CASE online
      BY <1>0, <1>5, <2>1, <2>2, RunControlSteps DEF ChecksRestored, Undecided
    <2>3. CASE ~online
      BY <1>0, <1>5, <2>3, RunControlEnds DEF ChecksRestored
    <2> QED BY <2>2, <2>3
  <1>6. CASE Requests
    BY <1>0, <1>6, RunControlGoes DEF Requests, Running, Undecided
  <1>7. CASE Answered
    <2>1. PICK o \in observations : answers' = Append(answers, o.code)
      BY <1>7 DEF Answered
    <2>2. o.code \in Codes
      BY DEF Control, DeviceTyped, Observations
    <2>3. at <= Len(Calls) /\ Call.do = "ask" /\ place \in Undecided
      BY <1>7 DEF Answered, Control, Progress, Undecided
    <2>4. CASE scenario = "device_disconnect" /\ at = 2
      <3>1. answers' \in Seq(Codes \cup {"timeout"})
        BY <1>0, <2>1, <2>2
      <3> QED BY <1>0, <1>7, <2>4, <3>1, RunControlEnds DEF Answered
    <2>5. CASE ~(scenario = "device_disconnect" /\ at = 2)
      BY <1>0, <1>7, <2>1, <2>2, <2>3, <2>5, RunControlSteps DEF Answered
    <2> QED BY <2>4, <2>5
  <1>8. CASE TimesOut
    <2>1. at <= Len(Calls) /\ Call.do = "ask" /\ place \in Undecided
      BY <1>8 DEF TimesOut, Control, Progress, Undecided
    <2> QED BY <1>0, <1>8, <2>1, RunControlSteps DEF TimesOut
  <1>9. CASE Judges
    <2>1. at = Len(Calls) + 1
      <3>1. Len(Calls) \in Nat /\ at \in 1 .. Len(Calls) + 1
        BY CallsOfScenario DEF Control, RunTyped, Progress, Scenarios
      <3> QED BY <1>9, <3>1 DEF Judges
    <2>2. \E result \in {"passed", "failed"} : EndWith(result)
      BY <1>9 DEF Judges
    <2> QED BY <1>0, <1>9, <2>1, <2>2, RunControlEnds DEF Judges, Undecided
  <1>10. CASE CleansUp \/ Mends \/ Recovers \/ StartTimesOut \/ Stops
    BY <1>0, <1>10, RunControlGoes
    DEF CleansUp, Mends, Recovers, StartTimesOut, Stops, Places, Undecided
  <1>11. CASE CleanupFails
    <2>1. Calls' = Calls /\ UNCHANGED <<run, scenario, at, answers, before>>
      BY <1>11 DEF CleanupFails, Calls
    <2> QED BY <1>0, <1>11, <2>1
            DEF CleanupFails, Control, RunControl, RunTyped, Progress, Places, Undecided
  <1>12. CASE Starts
    BY <1>0, <1>12, RunControlGoes DEF Starts, Control, Progress, Undecided
  <1>13. CASE Begins
    <2>1. Calls' = Calls /\ UNCHANGED <<run, scenario, at, answers, verdict>>
          /\ before' \in [motions : Nat, turns : Int]
      BY <1>13, MovedTyped DEF Begins, Calls, Control
    <2> QED BY <1>0, <1>13, <2>1
            DEF Begins, Control, RunControl, RunTyped, DeviceTyped, Progress, Places, Undecided
  <1>14. CASE BeginsAgain
    <2>1. RunTyped'
      BY <1>0, <1>14, MovedTyped, ScenariosAssumption
      DEF BeginsAgain, Control, RunTyped, Places, Undecided
    <2>2. Len(Calls)' \in Nat
      BY <1>14 DEF BeginsAgain, Calls, Script, Scenarios
    <2>3. AsksBefore[scenario'][1] = 0
      BY <1>14, AsksBeforeStep DEF BeginsAgain, Scenarios
    <2>4. Progress'
      BY <1>14, <2>2, <2>3 DEF BeginsAgain, Progress, Undecided
    <2> QED BY <2>1, <2>4 DEF RunControl
  <1>15. CASE \/ DeliversCommand \/ Tick \/ DropsCommand \/ LosesCommand
              \/ LosesObservation \/ OthersSend \/ ServiceThread
    BY <1>0, <1>15, RunAtRest, RunControlKept DEF Control, RunControl
  <1> QED BY <1>1, <1>2, <1>3, <1>4, <1>5, <1>6, <1>7, <1>8, <1>9, <1>10, <1>11, <1>12,
             <1>13, <1>14, <1>15 DEF Next, Run

LEMMA SwitchesNext ==
    ASSUME Control, Next
    PROVE  Switches'
  <1>0. /\ Switches /\ place \in Places /\ scenario \in Scenarios
        /\ serviceUp \in BOOLEAN /\ online \in BOOLEAN /\ loopStopped \in BOOLEAN
        /\ suppressNext \in BOOLEAN
    BY DEF Control, RunTyped, LinkTyped
  <1> USE DEF Switches, linkVars, serviceVars, publishVars, Places, Undecided
  <1>1. CASE Disconnects
    <2>1. scenario = "device_disconnect" /\ place = "running"
      BY <1>1, InScript, CallAt DEF Disconnects, Running
    <2> QED BY <1>0, <1>1, <2>1 DEF Disconnects, DisconnectForFault, StepOn
  <1>2. CASE Suppresses
    <2>1. scenario = "response_timeout" /\ place = "running"
      BY <1>2, InScript, CallAt DEF Suppresses, Running
    <2> QED BY <1>0, <1>2, <2>1 DEF Suppresses, SuppressNextObservation, StepOn
  <1>3. CASE Restores
    <2>1. scenario = "device_disconnect" /\ place = "running"
      BY <1>3, InScript, CallAt DEF Restores, Running
    <2> QED BY <1>0, <1>3, <2>1 DEF Restores, RestoreAfterFault, GoTo
  <1>4. CASE Restored \/ RestoreTimesOut \/ ChecksRestored \/ Recovers \/ CleanupFails
    BY <1>0, <1>4
    DEF Restored, RestoreTimesOut, ChecksRestored, Recovers, CleanupFails, GoTo, StepOn, EndWith
  <1>5. CASE Requests \/ RequestFails \/ TimesOut \/ Judges
    BY <1>0, <1>5 DEF Requests, RequestFails, TimesOut, Judges, Running, GoTo, StepOn, EndWith
  <1>6. CASE Answered
    BY <1>0, <1>6 DEF Answered, StepOn, EndWith
  <1>7. CASE CleansUp
    BY <1>0, <1>7 DEF CleansUp, ClearFaultInjection, GoTo
  <1>13. CASE Mends
    BY <1>0, <1>13 DEF Mends, RestoreAfterFault, GoTo
  <1>8. CASE Starts \/ Begins
    <2>1. CASE Starts
      <3>1. /\ serviceUp' = TRUE /\ loop' = "trying" /\ loopStopped' = FALSE
            /\ place' = "starting" /\ place = "off"
            /\ UNCHANGED <<online, suppressNext>>
        BY <2>1 DEF Starts, StartService, GoTo
      <3> QED BY <1>0, <3>1
    <2>2. CASE Begins
      BY <1>0, <2>2 DEF Begins
    <2> QED BY <1>8, <2>1, <2>2
  <1>14. CASE StartTimesOut \/ Stops
    BY <1>0, <1>14 DEF StartTimesOut, Stops, StopService, GoTo
  <1>9. CASE BeginsAgain
    BY <1>0, <1>9 DEF BeginsAgain
  <1>10. CASE DropsCommand \/ LosesCommand \/ LosesObservation \/ OthersSend
    BY <1>0, <1>10, RunAtRest
    DEF DropsCommand, LosesCommand, LosesACommand, LosesObservation, OthersSend, runVars
  <1>11. CASE ServiceThread
    BY <1>0, <1>11, RunAtRest
    DEF ServiceThread, ServiceConnects, ServiceSubscribes, SubscriptionRefused,
        ServiceDisconnects, ServiceConnectFails, runVars
  <1>12. CASE DeliversCommand \/ Tick
    <2>1. UNCHANGED <<linkVars, flaw>> /\ (suppressNext' = suppressNext \/ suppressNext' = FALSE)
      BY <1>12, DeviceActs, DeviceLinks DEF Control
    <2>2. UNCHANGED <<place, scenario>>
      BY <1>12, RunAtRest DEF runVars
    <2>3. /\ UNCHANGED <<serviceUp, online, loop, exhausted, loopStopped>>
          /\ suppressNext' => suppressNext
      BY <1>0, <2>1
    <2> QED BY <1>0, <2>2, <2>3
  <1> QED BY <1>1, <1>2, <1>3, <1>4, <1>5, <1>6, <1>7, <1>8, <1>9, <1>10, <1>11, <1>12,
             <1>13, <1>14 DEF Next, Run

LEMMA ControlNext ==
    ASSUME Control, [Next]_vars
    PROVE  Control'
  <1>1. CASE Next
    BY <1>1, LinkTypedNext, DeviceTypedNext, CommandsTypedNext, RunControlNext, SwitchesNext
    DEF Control, RunControl
  <1>2. CASE UNCHANGED vars
    BY <1>2
    DEF Control, RunTyped, LinkTyped, DeviceTyped, CommandsTyped, Progress, Switches, Calls,
        Call, vars, runVars, deviceVars, serviceVars, linkVars, publishVars
  <1> QED BY <1>1, <1>2

\* In every run the script is followed call by call, and a fault is in force
\* only within its own scenario.
THEOREM ControlInductive == Spec => []Control
  BY ControlInit, ControlNext, PTL DEF Spec

\* Once a run is over, no observation is held back any more and the network
\* thread runs unless it gave up by itself.
THEOREM FaultUndoneHolds == Spec => []FaultUndone
  <1>1. Control => FaultUndone
    BY DEF Control, Switches, FaultUndone
  <1> QED BY <1>1, ControlInductive, PTL

-----------------------------------------------------------------------------
(* What a step of the device does to a key.                                *)

\* Nothing happens to the key but that an observation of it may be taken.
Untouched(k) ==
    /\ k \in DOMAIN results' <=> k \in DOMAIN results
    /\ k \in DOMAIN results => results'[k] = results[k]
    /\ k \in DOMAIN pending' <=> k \in DOMAIN pending
    /\ k \in DOMAIN pending => pending'[k] = pending[k]
    /\ k \in moving' <=> k \in moving
    /\ executions'[k] = executions[k]
    /\ \A o \in observations' : o.key = k => o \in observations
    /\ k \in swallowed' => k \in swallowed

\* A command acts on its own key, and its task has no lower number behind it.
LEMMA Submitted ==
    ASSUME DeviceTyped, LinkTyped, NEW c \in Commands, Submits(c)
    PROVE  /\ UNCHANGED <<motions, executions>>
           /\ \A k \in Keys : k # KeyOf(c) => Untouched(k)
           /\ \A t \in Tasks : t # c.task => latest'[t] = latest[t]
           /\ DOMAIN results \subseteq DOMAIN results'
           /\ swallowed \subseteq swallowed' /\ observations \subseteq observations'
           /\ ~suppressNext => swallowed' = swallowed
           /\ \A o \in observations' \ observations :
                  o.key = KeyOf(c) /\ KeyOf(c) \in DOMAIN results'
  <1>0. latest \in [Tasks -> 0 .. 2] /\ c.task \in Tasks /\ suppressNext \in BOOLEAN
    BY CommandFields DEF DeviceTyped, LinkTyped
  <1>1. CASE ReplaysAnswer(c)
    BY <1>0, <1>1, Published DEF ReplaysAnswer, Remembers, Untouched, deviceVars
  <1>2. CASE JoinsPending(c)
    BY <1>2 DEF JoinsPending, Untouched, serviceVars, publishVars
  <1>3. CASE RejectsStale(c) \/ AnswersQuery(c)
    <2>1. PICK code \in Codes : AnswersAtOnce(c, code)
      BY <1>3 DEF RejectsStale, AnswersQuery, Codes
    <2>2. /\ results' = With(results, KeyOf(c), code)
          /\ PublishObservation(KeyOf(c), code, 1)
          /\ UNCHANGED <<pending, moving, motions, executions>>
      BY <2>1 DEF AnswersAtOnce
    <2>3. \A t \in Tasks : t # c.task => latest'[t] = latest[t]
      BY <1>0, <2>1 DEF AnswersAtOnce
    <2>4. ASSUME NEW k \in Keys, k # KeyOf(c)
          PROVE  Untouched(k)
      <3>1. /\ k \in DOMAIN results' <=> k \in DOMAIN results
            /\ k \in DOMAIN results => results'[k] = results[k]
        BY <2>2, <2>4 DEF With
      <3>2. /\ \A o \in observations' : o.key = k => o \in observations
            /\ k \in swallowed' => k \in swallowed
        BY <1>0, <2>2, <2>4, Published
      <3> QED BY <2>2, <3>1, <3>2 DEF Untouched
    <2>5. DOMAIN results' = DOMAIN results \cup {KeyOf(c)}
      BY <2>2 DEF With
    <2> QED BY <1>0, <2>2, <2>3, <2>4, <2>5, Published
  <1>4. CASE QueuesMotion(c)
    <2>1. /\ pending' = With(pending, KeyOf(c), 1)
          /\ UNCHANGED <<results, moving, motions, executions, observations, swallowed>>
      BY <1>4 DEF QueuesMotion, serviceVars, publishVars
    <2>2. \A t \in Tasks : t # c.task => latest'[t] = latest[t]
      BY <1>0, <1>4 DEF QueuesMotion
    <2>3. ASSUME NEW k \in Keys, k # KeyOf(c)
          PROVE  Untouched(k)
      <3>1. /\ k \in DOMAIN pending' <=> k \in DOMAIN pending
            /\ k \in DOMAIN pending => pending'[k] = pending[k]
        BY <2>1, <2>3 DEF With
      <3> QED BY <2>1, <3>1 DEF Untouched
    <2> QED BY <2>1, <2>2, <2>3
  <1> QED BY <1>1, <1>2, <1>3, <1>4 DEF Submits

\* The start of a motion acts on its key and is counted.
LEMMA Started ==
    ASSUME DeviceTyped, NEW k \in DOMAIN pending, StartsMotion(k)
    PROVE  /\ k \in Keys /\ moving = {} /\ moving' = {k}
           /\ motions' = motions + 1 /\ executions'[k] = executions[k] + 1
           /\ \A j \in Keys : j # k => Untouched(j)
           /\ UNCHANGED <<flaw, results, latest, pending, observations, swallowed, suppressNext>>
  <1>1. /\ k \in Keys /\ executions \in [Keys -> Nat]
        /\ moving = {} /\ moving' = {k} /\ motions' = motions + 1
        /\ executions' = [executions EXCEPT ![k] = @ + 1]
        /\ UNCHANGED <<flaw, results, latest, pending, observations, swallowed, suppressNext>>
    BY DEF DeviceTyped, StartsMotion, serviceVars, publishVars
  <1>2. executions'[k] = executions[k] + 1
    BY <1>1
  <1>3. ASSUME NEW j \in Keys, j # k
        PROVE  Untouched(j)
    BY <1>1, <1>3 DEF Untouched
  <1> QED BY <1>1, <1>2, <1>3

\* The end of a motion acts on its key.
LEMMA Completed ==
    ASSUME DeviceTyped, LinkTyped, NEW k \in DOMAIN pending, CompletesMotion(k)
    PROVE  /\ k \in Keys /\ moving = {k} /\ moving' = {}
           /\ UNCHANGED <<flaw, latest, motions, executions>>
           /\ \A j \in Keys : j # k => Untouched(j)
           /\ DOMAIN results' = DOMAIN results \cup {k} /\ results'[k] = "success"
           /\ k \notin DOMAIN pending'
           /\ swallowed \subseteq swallowed' /\ observations \subseteq observations'
           /\ ~suppressNext => swallowed' = swallowed
           /\ \A o \in observations' \ observations :
                  /\ o \in [key : {k}, code : {"success"}, copy : 1 .. pending[k]]
                  /\ o.key = k /\ o.code = "success"
  <1>1. /\ k \in Keys /\ pending[k] \in Nat /\ suppressNext \in BOOLEAN
        /\ moving = {} \/ \E j \in DOMAIN pending : moving = {j}
    BY DEF DeviceTyped, LinkTyped
  <1>2. /\ pending' = [j \in DOMAIN pending \ {k} |-> pending[j]]
        /\ k \in moving /\ moving' = {}
        /\ results' = With(results, k, "success")
        /\ PublishObservation(k, "success", pending[k])
        /\ UNCHANGED <<flaw, latest, motions, executions>>
    BY DEF CompletesMotion
  <1>3. moving = {k}
    BY <1>1, <1>2
  <1>4. ASSUME NEW j \in Keys, j # k
        PROVE  Untouched(j)
    <2>1. /\ j \in DOMAIN results' <=> j \in DOMAIN results
          /\ j \in DOMAIN results => results'[j] = results[j]
      BY <1>2, <1>4 DEF With
    <2>2. /\ \A o \in observations' : o.key = j => o \in observations
          /\ j \in swallowed' => j \in swallowed
      BY <1>1, <1>2, <1>4, Published
    <2>3. /\ j \in DOMAIN pending' <=> j \in DOMAIN pending
          /\ j \in DOMAIN pending => pending'[j] = pending[j]
          /\ j \in moving' <=> j \in moving
      BY <1>1, <1>2, <1>3, <1>4
    <2> QED BY <1>2, <2>1, <2>2, <2>3 DEF Untouched
  <1>5. DOMAIN results' = DOMAIN results \cup {k} /\ results'[k] = "success"
    BY <1>2 DEF With
  <1>6. k \notin DOMAIN pending'
    BY <1>2
  <1>7. /\ swallowed \subseteq swallowed' /\ observations \subseteq observations'
        /\ ~suppressNext => swallowed' = swallowed
        /\ \A o \in observations' \ observations :
               /\ o \in [key : {k}, code : {"success"}, copy : 1 .. pending[k]]
               /\ o.key = k /\ o.code = "success"
    BY <1>1, <1>2, Published
  <1> QED BY <1>1, <1>2, <1>3, <1>4, <1>5, <1>6, <1>7

-----------------------------------------------------------------------------
(* The device knows nothing of a run before its first request.             *)

\* The device has heard nothing of the task.
Unseen(t) ==
    /\ latest[t] = 0
    /\ \A n \in 1 .. 2 :
          /\ <<t, n>> \notin DOMAIN results \cup DOMAIN pending \cup swallowed
          /\ executions[<<t, n>>] = 0
    /\ \A o \in observations : o.key[1] # t

Unsent(t) == \A c \in commands : c.command.task # t

\* The run has made the first call of its script.
Begun == place \notin {"off", "starting"} /\ ~(place = "running" /\ at = 1)

Fresh ==
    /\ \A t \in Tasks : t > run => Unseen(t) /\ Unsent(t)
    /\ ~Begun => Unseen(run) /\ Unsent(run)

LEMMA UnseenKept ==
    ASSUME Control, Next, NEW t \in Tasks, Unseen(t), Unsent(t)
    PROVE  Unseen(t)'
  <1>0. \A n \in 1 .. 2 : <<t, n>> \in Keys
    BY DEF Keys
  <1>1. CASE DeliversCommand
    <2>1. PICK c \in Commands : Submits(c) /\ c.task # t
      BY <1>1 DEF DeliversCommand, Control, CommandsTyped, Unsent
    <2>2. KeyOf(c)[1] # t /\ \A n \in 1 .. 2 : <<t, n>> # KeyOf(c)
      BY <2>1 DEF KeyOf
    <2>3. \A n \in 1 .. 2 : Untouched(<<t, n>>)
      BY <1>0, <2>1, <2>2, Submitted DEF Control
    <2>4. latest'[t] = latest[t]
      BY <2>1, Submitted DEF Control
    <2>5. \A o \in observations' \ observations : o.key = KeyOf(c)
      BY <2>1, Submitted DEF Control
    <2> QED BY <2>2, <2>3, <2>4, <2>5 DEF Unseen, Untouched
  <1>2. CASE Tick
    <2>1. PICK k \in DOMAIN pending : StartsMotion(k) \/ CompletesMotion(k)
      BY <1>2 DEF Tick
    <2>2. k \in Keys
      BY DEF Control, DeviceTyped
    <2>3. k[1] # t /\ \A n \in 1 .. 2 : <<t, n>> # k
      BY <2>2 DEF Unseen, Keys
    <2>4. \A n \in 1 .. 2 : Untouched(<<t, n>>)
      BY <1>0, <2>1, <2>3, Started, Completed DEF Control
    <2>5. latest' = latest /\ \A o \in observations' \ observations : o.key = k
      BY <2>1, Started, Completed DEF Control
    <2> QED BY <2>3, <2>4, <2>5 DEF Unseen, Untouched
  <1>3. CASE ~DeliversCommand /\ ~Tick
    <2>1. /\ UNCHANGED <<latest, results, pending, executions, swallowed>>
          /\ observations' \subseteq observations
      BY <1>3, DeviceAtRest DEF deviceVars
    <2> QED BY <2>1 DEF Unseen
  <1> QED BY <1>1, <1>2, <1>3

LEMMA UnsentKept ==
    ASSUME Next, NEW t \in Tasks \ {0}, Unsent(t), t # run \/ ~Requests
    PROVE  Unsent(t)'
  <1>1. CASE commands' \subseteq commands
    BY <1>1 DEF Unsent
  <1>2. CASE Requests
    BY <1>2 DEF Requests, Unsent, Asked, Command
  <1>3. CASE OthersSend
    BY <1>3 DEF OthersSend, ForeignCommands, Unsent, Command
  <1> QED BY <1>1, <1>2, <1>3, NewCommands

\* Within a run the script goes forward only.
LEMMA GoesForward ==
    ASSUME Control, Next, ~BeginsAgain
    PROVE  /\ UNCHANGED <<run, scenario>>
           /\ (Begun => Begun') /\ (Requests => Begun')
           /\ at' \in Nat /\ at' >= at
           /\ at' = at /\ place' = "running" => place \in {"running", "starting"}
  <1>0. at \in Nat /\ at >= 1
    BY CallsOfScenario DEF Control, RunTyped, Progress
  <1> USE DEF Begun, GoTo, StepOn, EndWith
  <1>1. CASE Disconnects \/ Suppresses \/ Restores
    BY <1>0, <1>1 DEF Disconnects, Suppresses, Restores
  <1>2. CASE Restored \/ RestoreTimesOut \/ ChecksRestored \/ Recovers \/ CleanupFails
    BY <1>0, <1>2 DEF Restored, RestoreTimesOut, ChecksRestored, Recovers, CleanupFails
  <1>3. CASE Requests \/ RequestFails \/ Judges \/ CleansUp \/ Mends \/ Stops
    BY <1>0, <1>3 DEF Requests, RequestFails, Judges, CleansUp, Mends, Stops
  <1>4. CASE Answered
    BY <1>0, <1>4 DEF Answered, Requests, Running
  <1>7. CASE TimesOut
    BY <1>0, <1>7 DEF TimesOut, Requests, Running
  <1>5. CASE Starts \/ Begins \/ StartTimesOut
    BY <1>0, <1>5 DEF Starts, Begins, StartTimesOut, Requests, Running
  <1>6. CASE /\ ~Run /\ ~Requests
             /\ \/ DeliversCommand \/ Tick \/ DropsCommand \/ LosesCommand
                \/ LosesObservation \/ OthersSend \/ ServiceThread
    BY <1>0, <1>6, RunAtRest DEF runVars
  <1> QED BY <1>1, <1>2, <1>3, <1>4, <1>5, <1>6, <1>7 DEF Next, Run

LEMMA FreshNext ==
    ASSUME Control, Next, Fresh
    PROVE  Fresh'
  <1>0. run \in Tasks \ {0} /\ run \in Nat
    BY ScenariosAssumption DEF Control, RunTyped, Tasks
  <1>1. CASE BeginsAgain
    <2>1. run' = run + 1 /\ run' \in Tasks /\ ~Requests
      BY <1>0, <1>1, ScenariosAssumption DEF BeginsAgain, Requests, Running, Tasks
    <2>2. \A t \in Tasks : t > run => t \in Tasks \ {0} /\ Unseen(t)' /\ Unsent(t)'
      BY <1>0, <2>1, UnseenKept, UnsentKept DEF Fresh, Tasks
    <2>3. Unseen(run)' /\ Unsent(run)'
      BY <1>0, <2>1, <2>2 DEF Unseen, Unsent
    <2> QED BY <1>0, <2>1, <2>2, <2>3 DEF Fresh, Tasks
  <1>2. CASE ~BeginsAgain
    <2>1. run' = run /\ (~Begun' => ~Begun /\ ~Requests)
      BY <1>2, GoesForward
    <2>2. \A t \in Tasks : t > run => t \in Tasks \ {0} /\ Unseen(t)' /\ Unsent(t)'
      BY <1>0, <2>1, UnseenKept, UnsentKept DEF Fresh, Tasks
    <2>3. ASSUME ~Begun'
          PROVE  Unseen(run)' /\ Unsent(run)'
      <3>1. PICK t \in Tasks \ {0} : t = run
        BY <1>0
      <3>2. Unseen(t) /\ Unsent(t) /\ ~Requests
        BY <2>1, <2>3, <3>1 DEF Fresh
      <3>3. Unseen(t)' /\ Unsent(t)'
        BY <3>2, UnseenKept, UnsentKept
      <3> QED BY <2>1, <3>1, <3>3 DEF Unseen, Unsent
    <2> QED BY <2>1, <2>2, <2>3 DEF Fresh
  <1> QED BY <1>1, <1>2

\* A command of the run is one of its script's requests that was made.
OwnCommands ==
    \A c \in commands : c.command.task = run =>
        /\ c.step \in 1 .. Len(Calls)
        /\ Calls[c.step].do = "ask"
        /\ c.command = Command(run, Calls[c.step].seq, Calls[c.step].tool)
        /\ c.step < at \/ (c.step = at /\ place # "running")

LEMMA OwnCommandsNext ==
    ASSUME Control, Fresh, Next, OwnCommands
    PROVE  OwnCommands'
  <1>0. run \in Tasks \ {0} /\ run \in Nat /\ at \in Nat
    BY ScenariosAssumption DEF Control, RunTyped, Tasks
  <1>1. CASE BeginsAgain
    <2>1. run' = run + 1 /\ run + 1 \in Tasks /\ commands' = commands
      BY <1>0, <1>1, ScenariosAssumption DEF BeginsAgain, Control, RunTyped, Tasks
    <2>2. Unsent(run + 1)
      BY <1>0, <2>1 DEF Fresh
    <2> QED BY <2>1, <2>2 DEF OwnCommands, Unsent
  <1>2. CASE ~BeginsAgain
    <2>1. /\ UNCHANGED <<run, scenario>> /\ at' \in Nat /\ at' >= at
          /\ at' = at /\ place' = "running" => place \in {"running", "starting"}
      BY <1>2, GoesForward
    <2>2. Calls' = Calls
      BY <2>1 DEF Calls
    <2>3. ASSUME NEW c \in commands, c.command.task = run
          PROVE  /\ c.step \in 1 .. Len(Calls)
                 /\ Calls[c.step].do = "ask"
                 /\ c.command = Command(run, Calls[c.step].seq, Calls[c.step].tool)
                 /\ c.step < at' \/ (c.step = at' /\ place' # "running")
      <3>1. /\ c.step \in 1 .. Len(Calls)
            /\ Calls[c.step].do = "ask"
            /\ c.command = Command(run, Calls[c.step].seq, Calls[c.step].tool)
            /\ c.step < at \/ (c.step = at /\ place # "running")
        BY <2>3 DEF OwnCommands
      <3>2. c.step \in Nat
        BY DEF Control, CommandsTyped
      <3>3. place # "starting"
        BY <2>3 DEF Fresh, Begun, Unsent
      <3> QED BY <1>0, <2>1, <3>1, <3>2, <3>3
    <2>4. CASE commands' \subseteq commands
      BY <2>1, <2>2, <2>3, <2>4 DEF OwnCommands
    <2>5. CASE Requests
      <3>1. /\ commands' = commands \cup {[command |-> Asked, step |-> at]}
            /\ at' = at /\ place' = "waiting" /\ at <= Len(Calls) /\ Call.do = "ask"
        BY <2>5 DEF Requests, Running, GoTo
      <3>2. at \in 1 .. Len(Calls)
        BY <3>1, InScript
      <3>3. Asked = Command(run, Calls[at].seq, Calls[at].tool) /\ Calls[at].do = "ask"
        BY <3>1 DEF Asked, Call
      <3> QED BY <2>1, <2>2, <2>3, <3>1, <3>2, <3>3 DEF OwnCommands
    <2>6. CASE OthersSend
      <3>1. \A c \in commands' \ commands : c.command.task = 0
        BY <2>6 DEF OthersSend, ForeignCommands, Command
      <3> QED BY <1>0, <2>1, <2>2, <2>3, <3>1 DEF OwnCommands
    <2> QED BY <2>4, <2>5, <2>6, NewCommands
  <1> QED BY <1>1, <1>2

-----------------------------------------------------------------------------
(* What an answer says about the device.                                   *)

\* The keys of the run's two numbers.
First == <<run, 1>>

Second == <<run, 2>>

\* Every observation is of a command the device has done with, and so is the
\* second answer after the device was cut off.
Known ==
    /\ \A o \in observations : o.key \in DOMAIN results
    /\ scenario = "device_disconnect" /\ Len(answers) = 2 /\ answers[2] # "timeout" =>
           Second \in DOMAIN results

\* A device that ignores the order calls no command stale.
NeverStale ==
    flaw = "ignores_order" =>
        /\ \A k \in DOMAIN results : results[k] # "stale_sequence"
        /\ \A o \in observations : o.code # "stale_sequence"
        /\ \A i \in DOMAIN answers : answers[i] # "stale_sequence"

\* What the device has done stays.
LEMMA DeviceRemembers ==
    ASSUME Control, Next
    PROVE  /\ DOMAIN results \subseteq DOMAIN results'
           /\ swallowed \subseteq swallowed'
           /\ UNCHANGED flaw
           /\ \A o \in observations' \ observations : o.key \in DOMAIN results'
  <1>1. CASE DeliversCommand
    <2>1. PICK c \in Commands : Submits(c)
      BY <1>1 DEF DeliversCommand, Control, CommandsTyped
    <2> QED BY <1>1, <2>1, Submitted, DeviceLinks DEF Control
  <1>2. CASE Tick
    <2>1. PICK k \in DOMAIN pending : StartsMotion(k) \/ CompletesMotion(k)
      BY <1>2 DEF Tick
    <2> QED BY <2>1, Started, Completed DEF Control
  <1>3. CASE ~DeliversCommand /\ ~Tick
    BY <1>3, DeviceAtRest DEF deviceVars
  <1> QED BY <1>1, <1>2, <1>3

\* The answers of a run grow by what came or by a timeout.
LEMMA AnswersGrow ==
    ASSUME Control, Next, ~BeginsAgain
    PROVE  /\ UNCHANGED <<run, scenario>>
           /\ \/ answers' = answers
              \/ Answered /\ \E o \in observations : /\ o.key = KeyOf(Asked)
                                                     /\ answers' = Append(answers, o.code)
              \/ TimesOut /\ answers' = Append(answers, "timeout")
  BY GoesForward, RunAtRest
  DEF Next, Run, Starts, Begins, StartTimesOut, Disconnects, Suppresses, Restores, Restored,
      RestoreTimesOut, ChecksRestored, Requests, RequestFails, Answered, TimesOut, Judges,
      CleansUp, Mends, Recovers, CleanupFails, Stops, GoTo, runVars

\* Which request the run waits for.
LEMMA AskedKey ==
    ASSUME Control, place = "waiting"
    PROVE  /\ answers \in Seq(Codes \cup {"timeout"})
           /\ scenario = "device_disconnect" =>
                  \/ at = 2 /\ KeyOf(Asked) = First /\ answers = <<>>
                  \/ at = 4 /\ KeyOf(Asked) = Second /\ Len(answers) = 1
           /\ scenario = "response_timeout" =>
                  at = 2 /\ KeyOf(Asked) = First /\ answers = <<>>
           /\ scenario = "duplicate_delivery" =>
                  at \in {1, 2} /\ KeyOf(Asked) = First /\ Len(answers) = at - 1
           /\ scenario = "out_of_order" =>
                  \/ at = 1 /\ KeyOf(Asked) = Second /\ answers = <<>>
                  \/ at = 2 /\ KeyOf(Asked) = First /\ Len(answers) = 1
  <1>1. at \in 1 .. Len(Calls) /\ Call.do = "ask" /\ scenario \in Scenarios
    BY InScript DEF Control, Progress
  <1>2. KeyOf(Asked) = <<run, Call.seq>>
    BY DEF KeyOf, Asked, Command
  <1>3. answers \in Seq(Codes \cup {"timeout"}) /\ Len(answers) = AsksBefore[scenario][at]
    BY DEF Control, RunTyped, Progress, Undecided
  <1>4. Len(answers) = 0 => answers = <<>>
    BY <1>3
  <1> QED BY <1>1, <1>2, <1>3, <1>4, CallAt, CallKinds, AsksBeforeStep DEF First, Second

LEMMA KnownNext ==
    ASSUME Control, Next, Known
    PROVE  Known'
  <1>1. \A o \in observations' : o.key \in DOMAIN results'
    BY DeviceRemembers DEF Known
  <1>2. CASE BeginsAgain
    BY <1>1, <1>2 DEF BeginsAgain, Known
  <1>3. CASE ~BeginsAgain
    <2>1. CASE answers' = answers
      BY <1>1, <1>3, <2>1, AnswersGrow, DeviceRemembers DEF Known, Second
    <2>2. CASE Answered
      <3>1. PICK o \in observations : o.key = KeyOf(Asked) /\ answers' = Append(answers, o.code)
        BY <2>2 DEF Answered
      <3>2. place = "waiting"
        BY <2>2 DEF Answered
      <3>3. ASSUME scenario = "device_disconnect", Len(answers') = 2
            PROVE  o.key = Second
        BY <3>1, <3>2, <3>3, AskedKey
      <3>4. o.key \in DOMAIN results'
        BY DeviceRemembers DEF Known
      <3> QED BY <1>1, <1>3, <3>3, <3>4, AnswersGrow DEF Known, Second
    <2>3. CASE TimesOut
      <3>1. place = "waiting" /\ answers' = Append(answers, "timeout")
        BY <2>3 DEF TimesOut
      <3>2. ASSUME Len(answers') = 2
            PROVE  answers'[2] = "timeout"
        BY <3>1, <3>2, AskedKey
      <3> QED BY <1>1, <3>2 DEF Known
    <2> QED BY <1>3, <2>1, <2>2, <2>3, AnswersGrow
  <1> QED BY <1>2, <1>3

\* A step of the device tells a command stale only if it minds the order.
LEMMA SubmitsNoStale ==
    ASSUME DeviceTyped, LinkTyped, NeverStale, flaw = "ignores_order",
           NEW c \in Commands, Submits(c)
    PROVE  /\ \A k \in DOMAIN results' : results'[k] # "stale_sequence"
           /\ \A o \in observations' : o.code # "stale_sequence"
  <1>1. CASE ReplaysAnswer(c)
    <2>1. /\ KeyOf(c) \in DOMAIN results /\ results' = results
          /\ PublishObservation(KeyOf(c), results[KeyOf(c)], 1)
      BY <1>1 DEF ReplaysAnswer, Remembers, deviceVars
    <2>2. \A o \in observations' \ observations : o.code = results[KeyOf(c)]
      BY <2>1, Published DEF LinkTyped
    <2> QED BY <2>1, <2>2 DEF NeverStale
  <1>2. CASE JoinsPending(c) \/ QueuesMotion(c)
    BY <1>2 DEF JoinsPending, QueuesMotion, NeverStale, serviceVars, publishVars
  <1>3. CASE AnswersQuery(c)
    <2>1. /\ results' = With(results, KeyOf(c), "success")
          /\ PublishObservation(KeyOf(c), "success", 1)
      BY <1>3 DEF AnswersQuery, AnswersAtOnce
    <2>2. \A o \in observations' \ observations : o.code = "success"
      BY <2>1, Published DEF LinkTyped
    <2>3. \A k \in DOMAIN results' : results'[k] # "stale_sequence"
      BY <2>1 DEF With, NeverStale
    <2> QED BY <2>2, <2>3 DEF NeverStale
  <1>4. CASE RejectsStale(c)
    BY <1>4 DEF RejectsStale, IsStale
  <1> QED BY <1>1, <1>2, <1>3, <1>4 DEF Submits

LEMMA NeverStaleNext ==
    ASSUME Control, Next, NeverStale
    PROVE  NeverStale'
  <1> SUFFICES ASSUME flaw = "ignores_order"
               PROVE  NeverStale'
    BY DeviceRemembers DEF NeverStale
  <1>1. /\ \A k \in DOMAIN results' : results'[k] # "stale_sequence"
        /\ \A o \in observations' : o.code # "stale_sequence"
    <2>1. CASE DeliversCommand
      <3>1. PICK c \in Commands : Submits(c)
        BY <2>1 DEF DeliversCommand, Control, CommandsTyped
      <3> QED BY <3>1, SubmitsNoStale DEF Control
    <2>2. CASE Tick
      <3>1. PICK k \in DOMAIN pending : StartsMotion(k) \/ CompletesMotion(k)
        BY <2>2 DEF Tick
      <3>2. CASE StartsMotion(k)
        BY <3>1, <3>2, Started DEF Control, NeverStale
      <3>3. CASE CompletesMotion(k)
        <4>1. /\ DOMAIN results' = DOMAIN results \cup {k} /\ results'[k] = "success"
              /\ \A j \in Keys : j # k => Untouched(j)
              /\ \A o \in observations' \ observations : o.code = "success"
          BY <3>1, <3>3, Completed DEF Control
        <4>2. DOMAIN results \subseteq Keys
          BY DEF Control, DeviceTyped
        <4> QED BY <4>1, <4>2 DEF NeverStale, Untouched
      <3> QED BY <3>1, <3>2, <3>3
    <2>3. CASE ~DeliversCommand /\ ~Tick
      BY <2>3, DeviceAtRest DEF NeverStale, deviceVars
    <2> QED BY <2>1, <2>2, <2>3
  <1>2. \A i \in DOMAIN answers' : answers'[i] # "stale_sequence"
    <2>1. CASE BeginsAgain
      BY <2>1 DEF BeginsAgain
    <2>2. CASE ~BeginsAgain
      <3>1. answers \in Seq(Codes \cup {"timeout"})
        BY DEF Control, RunTyped
      <3>2. \/ answers' = answers
            \/ \E a \in Codes \cup {"timeout"} :
                  a # "stale_sequence" /\ answers' = Append(answers, a)
        <4>1. \A o \in observations : o.code \in Codes /\ o.code # "stale_sequence"
          BY DEF Control, DeviceTyped, Observations, NeverStale
        <4> QED BY <2>2, <4>1, AnswersGrow
      <3> QED BY <3>1, <3>2 DEF NeverStale
    <2> QED BY <2>1, <2>2
  <1> QED BY <1>1, <1>2, DeviceRemembers DEF NeverStale

-----------------------------------------------------------------------------
(* A motion that is asked for twice.                                       *)

Prompt == \A i \in DOMAIN answers : answers[i] # "timeout"

\* The motions of the run are among those since it began.
Counted == motions >= before.motions + executions[First]

\* The motion was executed before it was answered, and its command is never
\* stale: the run sends no other number.
Turned ==
    scenario = "duplicate_delivery" =>
        /\ latest[run] <= 1
        /\ First \in moving => executions[First] >= 1
        /\ First \in DOMAIN results => executions[First] >= 1 /\ results[First] = "success"
        /\ answers # <<>> /\ Prompt => First \in DOMAIN results

\* A command of the second scenario asks for the same motion as the first.
LEMMA OwnTurn ==
    ASSUME Control, OwnCommands, scenario = "duplicate_delivery",
           NEW c \in commands, c.command.task = run
    PROVE  /\ c.command \in Commands
           /\ c.command.seq = 1 /\ c.command.tool = "turn_robot"
           /\ KeyOf(c.command) = First
           /\ c = [command |-> Command(run, 1, "turn_robot"), step |-> c.step]
  <1>1. /\ c \in [command : Commands, step : Nat]
        /\ c.step \in 1 .. Len(Calls)
        /\ c.command = Command(run, Calls[c.step].seq, Calls[c.step].tool)
    BY DEF OwnCommands, Control, CommandsTyped
  <1>2. /\ Len(Calls) = 2 /\ Calls[1] = Ask(1, "turn_robot")
        /\ Calls[2] = Ask(1, "turn_robot")
    BY CallsOfScenario DEF Scenarios
  <1>3. c.step = 1 \/ c.step = 2
    BY <1>1, <1>2
  <1>4. c.command = Command(run, 1, "turn_robot")
    BY <1>1, <1>2, <1>3, CallKinds
  <1> QED BY <1>1, <1>4 DEF Command, KeyOf, First

\* Such a command is replayed, joined or queued, and never answered as new.
LEMMA OwnTurnSubmitted ==
    ASSUME Control, Turned, scenario = "duplicate_delivery", NEW c \in Commands,
           c.task = run, c.seq = 1, c.tool = "turn_robot", Submits(c)
    PROVE  /\ \/ ReplaysAnswer(c)
              \/ JoinsPending(c)
              \/ QueuesMotion(c)
           /\ UNCHANGED <<results, executions, motions, moving>>
           /\ latest'[run] <= 1
  <1>1. latest \in [Tasks -> 0 .. 2] /\ run \in Tasks /\ latest[run] <= 1
    BY ScenariosAssumption DEF Control, RunTyped, DeviceTyped, Turned, Tasks
  <1>2. ~IsStale(c) /\ IsMotion(c)
    BY <1>1 DEF IsStale, IsMotion
  <1>3. ReplaysAnswer(c) \/ JoinsPending(c) \/ QueuesMotion(c)
    BY <1>2 DEF Submits, RejectsStale, AnswersQuery
  <1>4. CASE ReplaysAnswer(c) \/ JoinsPending(c)
    BY <1>1, <1>3, <1>4 DEF ReplaysAnswer, JoinsPending, deviceVars
  <1>5. CASE QueuesMotion(c)
    <2>1. latest' = [latest EXCEPT ![run] = IF 1 > @ THEN 1 ELSE @]
      BY <1>5 DEF QueuesMotion
    <2> QED BY <1>1, <1>3, <1>5, <2>1 DEF QueuesMotion
  <1> QED BY <1>3, <1>4, <1>5

LEMMA FirstIsKey ==
    ASSUME Control
    PROVE  First \in Keys /\ First[1] = run /\ run \in Tasks /\ run \in Nat
  BY ScenariosAssumption DEF Control, RunTyped, First, Keys, Tasks

LEMMA CountedNext ==
    ASSUME Control, Fresh, Next, Counted
    PROVE  Counted'
  <1>0. /\ executions \in [Keys -> Nat] /\ motions \in Nat /\ before.motions \in Nat
        /\ First \in Keys
    BY FirstIsKey DEF Control, RunTyped, DeviceTyped
  <1>1. CASE DeliversCommand
    <2>1. PICK c \in Commands : Submits(c)
      BY <1>1 DEF DeliversCommand, Control, CommandsTyped
    <2>2. UNCHANGED <<motions, executions, run, before>>
      BY <1>1, <2>1, Submitted, RunAtRest DEF Control, runVars
    <2> QED BY <2>2 DEF Counted, First
  <1>2. CASE Tick
    <2>1. PICK k \in DOMAIN pending : StartsMotion(k) \/ CompletesMotion(k)
      BY <1>2 DEF Tick
    <2>2. UNCHANGED <<run, before>>
      BY <1>2, RunAtRest DEF runVars
    <2>3. CASE StartsMotion(k)
      <3>1. /\ k \in Keys /\ motions' = motions + 1 /\ executions'[k] = executions[k] + 1
            /\ \A j \in Keys : j # k => Untouched(j)
        BY <2>3, Started DEF Control
      <3>2. executions'[First] <= executions[First] + 1 /\ executions'[First] \in Nat
        BY <1>0, <3>1 DEF Untouched
      <3> QED BY <1>0, <2>2, <3>1, <3>2 DEF Counted, First
    <2>4. CASE CompletesMotion(k)
      BY <2>2, <2>4, Completed DEF Control, Counted, First
    <2> QED BY <2>1, <2>3, <2>4
  <1>3. CASE ~DeliversCommand /\ ~Tick
    <2>1. UNCHANGED <<motions, executions>>
      BY <1>3, DeviceAtRest DEF deviceVars
    <2>2. CASE BeginsAgain
      <3>1. run' = run + 1 /\ run + 1 \in Tasks /\ before'.motions = motions /\ run + 1 > run
        BY <2>2, FirstIsKey, ScenariosAssumption DEF BeginsAgain, Control, RunTyped, Tasks, Moved
      <3>2. Unseen(run + 1) /\ 1 \in 1 .. 2
        BY <3>1 DEF Fresh
      <3>3. executions[<<run + 1, 1>>] = 0
        BY <3>2 DEF Unseen
      <3> QED BY <1>0, <2>1, <3>1, <3>3 DEF Counted, First
    <2>3. CASE Begins
      <3>1. run' = run /\ before'.motions = motions
        BY <2>3 DEF Begins, Moved
      <3>2. executions[<<run, 1>>] = 0
        BY <2>3 DEF Begins, Fresh, Begun, Unseen
      <3> QED BY <1>0, <2>1, <3>1, <3>2 DEF Counted, First
    <2>4. CASE ~BeginsAgain /\ ~Begins
      <3>1. CASE Run
        <4>1. before' = before
          BY <3>1 DEF Run, Disconnects, Suppresses, Restores, Restored, RestoreTimesOut,
                      ChecksRestored, Requests, RequestFails, Answered, TimesOut, Judges,
                      CleansUp, Mends, Recovers, CleanupFails, GoTo, StepOn, EndWith
        <4> QED BY <2>1, <2>4, <4>1, GoesForward DEF Counted, First
      <3>2. CASE Starts \/ StartTimesOut \/ Stops
        BY <2>1, <3>2 DEF Starts, StartTimesOut, Stops, GoTo, Counted, First
      <3>3. CASE DropsCommand \/ LosesCommand \/ LosesObservation \/ OthersSend \/ ServiceThread
        BY <2>1, <3>3, RunAtRest DEF runVars, Counted, First
      <3> QED BY <1>3, <2>4, <3>1, <3>2, <3>3 DEF Next
    <2> QED BY <2>2, <2>3, <2>4
  <1> QED BY <1>1, <1>2, <1>3

LEMMA TurnedNext ==
    ASSUME Control, Fresh, OwnCommands, Known, Next, Turned
    PROVE  Turned'
  <1>0. /\ executions \in [Keys -> Nat] /\ answers \in Seq(Codes \cup {"timeout"})
        /\ First \in Keys /\ run \in Tasks /\ run \in Nat
    BY FirstIsKey DEF Control, RunTyped, DeviceTyped
  <1>1. CASE BeginsAgain
    <2>1. /\ run' = run + 1 /\ run + 1 \in Tasks /\ run + 1 > run /\ answers' = <<>>
          /\ UNCHANGED <<latest, results>>
      BY <1>0, <1>1, ScenariosAssumption
      DEF BeginsAgain, Control, RunTyped, Tasks, deviceVars
    <2>2. Unseen(run + 1) /\ 1 \in 1 .. 2
      BY <2>1 DEF Fresh
    <2>3. /\ latest[run + 1] = 0
          /\ <<run + 1, 1>> \notin DOMAIN results /\ <<run + 1, 1>> \notin DOMAIN pending
      BY <2>2 DEF Unseen
    <2>4. <<run + 1, 1>> \notin moving'
      BY <1>1, <2>3 DEF BeginsAgain, deviceVars, Control, DeviceTyped
    <2> QED BY <2>1, <2>3, <2>4 DEF Turned, First
  <1>2. CASE ~BeginsAgain
    <2> SUFFICES ASSUME scenario = "duplicate_delivery"
                 PROVE  Turned'
      BY <1>2, GoesForward DEF Turned
    <2>0. UNCHANGED <<run, scenario>> /\ First' = First
      BY <1>2, GoesForward DEF First
    <2>1. /\ latest'[run] <= 1
          /\ First \in moving' => executions'[First] >= 1
          /\ First \in DOMAIN results' => executions'[First] >= 1 /\ results'[First] = "success"
      <3>1. CASE DeliversCommand
        <4>1. PICK d \in commands : Submits(d.command)
          BY <3>1 DEF DeliversCommand
        <4>2. d.command \in Commands
          BY DEF Control, CommandsTyped
        <4>3. CASE d.command.task = run
          BY <4>1, <4>2, <4>3, OwnTurn, OwnTurnSubmitted DEF Turned
        <4>4. CASE d.command.task # run
          <5>1. KeyOf(d.command) # First
            BY <4>4 DEF KeyOf, First
          <5>2. Untouched(First) /\ latest'[run] = latest[run]
            BY <1>0, <4>1, <4>2, <4>4, <5>1, Submitted DEF Control
          <5> QED BY <5>2 DEF Turned, Untouched
        <4> QED BY <4>3, <4>4
      <3>2. CASE Tick
        <4>1. PICK k \in DOMAIN pending : StartsMotion(k) \/ CompletesMotion(k)
          BY <3>2 DEF Tick
        <4>2. \A j \in Keys : j # k => Untouched(j)
          BY <4>1, Started, Completed DEF Control
        <4>3. UNCHANGED latest
          BY <4>1, Started, Completed DEF Control
        <4>4. CASE k # First
          BY <1>0, <4>2, <4>3, <4>4 DEF Turned, Untouched
        <4>5. CASE k = First /\ StartsMotion(k)
          <5>1. /\ executions'[First] = executions[First] + 1 /\ executions[First] \in Nat
                /\ UNCHANGED results
            BY <1>0, <4>5, Started DEF Control
          <5> QED BY <4>3, <5>1 DEF Turned
        <4>6. CASE k = First /\ CompletesMotion(k)
          <5>1. /\ moving = {First} /\ UNCHANGED executions /\ results'[First] = "success"
                /\ moving' = {}
            BY <4>6, Completed DEF Control
          <5> QED BY <4>3, <5>1 DEF Turned
        <4> QED BY <4>1, <4>4, <4>5, <4>6
      <3>3. CASE ~DeliversCommand /\ ~Tick
        BY <3>3, DeviceAtRest DEF Turned, deviceVars
      <3> QED BY <3>1, <3>2, <3>3
    <2>2. ASSUME answers' # <<>>, Prompt'
          PROVE  First \in DOMAIN results'
      <3>1. CASE answers' = answers
        BY <2>2, <3>1, DeviceRemembers DEF Turned, Prompt
      <3>2. CASE Answered
        <4>1. PICK o \in observations : o.key = KeyOf(Asked)
          BY <3>2 DEF Answered
        <4>2. KeyOf(Asked) = First
          BY <3>2, AskedKey DEF Answered
        <4> QED BY <4>1, <4>2, DeviceRemembers DEF Known
      <3>3. CASE TimesOut
        <4>1. answers' = Append(answers, "timeout")
          BY <3>3 DEF TimesOut
        <4>2. Len(answers) + 1 \in DOMAIN answers' /\ answers'[Len(answers) + 1] = "timeout"
          BY <1>0, <4>1
        <4> QED BY <2>2, <4>2 DEF Prompt
      <3> QED BY <1>2, <3>1, <3>2, <3>3, AnswersGrow
    <2> QED BY <2>0, <2>1, <2>2 DEF Turned
  <1> QED BY <1>1, <1>2

\* The run's commands and the observations of its motion on their way.
Own == {c \in commands : c.command.task = run}

Heard == {o \in observations : o.key = First}

\* Every request was answered in time, and none of its messages repeated.
Plain == Prompt /\ First \notin repeated

\* As long as that is so, the motion is in one place only: in a command, at
\* work, or in an observation.
OneAtATime ==
    scenario = "duplicate_delivery" /\ Plain =>
        /\ place # "waiting" => Own = {} /\ First \notin DOMAIN pending /\ Heard = {}
        /\ \A c \in Own : c.step = at /\ First \notin DOMAIN pending /\ Heard = {}
        /\ First \in DOMAIN pending => pending[First] = 1 /\ Heard = {}
        /\ \A o, p \in Heard : o = p

\* Nothing of the run is on its way.
Idle == Own = {} /\ First \notin DOMAIN pending /\ Heard = {}

LEMMA IdleOne == Idle' => OneAtATime'
  BY DEF Idle, OneAtATime

\* What the run is told takes the observation with it and leaves nothing.
LEMMA AnsweredIdle ==
    ASSUME Control, scenario = "duplicate_delivery", Plain, First \notin repeated', OneAtATime,
           Answered
    PROVE  /\ Idle'
           /\ \E o \in Heard : answers' = Append(answers, o.code)
  <1>0. KeyOf(Asked) = First
    BY AskedKey DEF Answered
  <1>1. PICK o \in observations : /\ o.key = KeyOf(Asked)
                                  /\ observations' = observations \ {o}
                                  /\ answers' = Append(answers, o.code)
    BY <1>0 DEF Answered
  <1>2. o \in Heard
    BY <1>0, <1>1 DEF Heard
  <1>3. Own = {} /\ First \notin DOMAIN pending /\ Heard = {o}
    BY <1>2 DEF OneAtATime
  <1>4. UNCHANGED <<run, commands, pending>>
    BY DEF Answered, StepOn, EndWith, deviceVars
  <1>5. Own' = {} /\ (First \notin DOMAIN pending)' /\ Heard' = {}
    BY <1>1, <1>3, <1>4 DEF Own, Heard, First
  <1>6. Idle'
    BY <1>5 DEF Idle
  <1> QED BY <1>1, <1>2, <1>6

\* A delivery to the device of the run's command leaves no other one, and the
\* device is at work on it or has answered it.
LEMMA OwnDelivered ==
    ASSUME Control, OwnCommands, Turned, scenario = "duplicate_delivery", Plain, OneAtATime,
           NEW d \in Own, commands' = commands \ {d}, Submits(d.command), UNCHANGED runVars
    PROVE  /\ place = "waiting" /\ Own' = {}
           /\ \/ /\ ReplaysAnswer(d.command)
                 /\ First \notin DOMAIN pending'
                 /\ \A o \in Heard' : o = [key |-> First, copy |-> 1,
                        code |-> IF flaw = "contradicts" THEN "rejected" ELSE results[First]]
              \/ /\ QueuesMotion(d.command)
                 /\ First \in DOMAIN pending' /\ pending'[First] = 1 /\ Heard' = {}
  <1>1. /\ d \in commands /\ d.command.task = run /\ d.command \in Commands
        /\ KeyOf(d.command) = First
        /\ d.command.seq = 1 /\ d.command.tool = "turn_robot"
    BY OwnTurn DEF Own
  <1>2. d.step = at /\ First \notin DOMAIN pending /\ Heard = {} /\ place = "waiting"
    BY DEF OneAtATime
  <1>3. Own' = {}
    <2>1. ASSUME NEW e \in Own PROVE e = d
      BY <2>1, OwnTurn DEF Own, OneAtATime
    <2> QED BY <2>1 DEF Own, runVars
  <1>4. First' = First
    BY DEF runVars, First
  <1>5. CASE ReplaysAnswer(d.command)
    <2>1. PublishObservation(First, IF flaw = "contradicts" THEN "rejected"
                                                            ELSE results[First], 1)
      BY <1>1, <1>5 DEF ReplaysAnswer
    <2>2. \A o \in observations' \ observations :
              o = [key |-> First, copy |-> 1,
                   code |-> IF flaw = "contradicts" THEN "rejected" ELSE results[First]]
      BY <2>1 DEF PublishObservation, Control, LinkTyped
    <2> QED BY <1>2, <1>3, <1>4, <1>5, <2>2 DEF Heard, ReplaysAnswer, deviceVars
  <1>6. CASE JoinsPending(d.command)
    BY <1>1, <1>2, <1>6 DEF JoinsPending
  <1>7. CASE QueuesMotion(d.command)
    <2>1. pending' = With(pending, First, 1) /\ observations' = observations
      BY <1>1, <1>7 DEF QueuesMotion, serviceVars, publishVars
    <2> QED BY <1>2, <1>3, <1>4, <1>7, <2>1 DEF With, Heard
  <1> QED BY <1>1, <1>5, <1>6, <1>7, OwnTurnSubmitted

\* The end of the motion leaves one observation of it.
LEMMA FirstCompleted ==
    ASSUME Control, scenario = "duplicate_delivery", Plain, OneAtATime,
           First \in DOMAIN pending, CompletesMotion(First), UNCHANGED <<runVars, commands>>
    PROVE  /\ place = "waiting" /\ Own' = {} /\ (First \notin DOMAIN pending)'
           /\ \A o \in Heard' : o = [key |-> First, copy |-> 1, code |-> "success"]
  <1>1. place = "waiting" /\ Own = {} /\ pending[First] = 1 /\ Heard = {}
    BY DEF OneAtATime
  <1>2. /\ First \notin DOMAIN pending'
        /\ \A o \in observations' \ observations :
               o \in [key : {First}, code : {"success"}, copy : 1 .. 1]
    BY <1>1, Completed DEF Control
  <1>3. \A o \in observations' \ observations :
            o = [key |-> First, copy |-> 1, code |-> "success"]
    BY <1>2
  <1>4. First' = First /\ Own' = {}
    BY <1>1 DEF runVars, First, Own
  <1> QED BY <1>1, <1>2, <1>3, <1>4 DEF Heard

\* A step that adds nothing of the run's.
Shrinks ==
    /\ UNCHANGED runVars
    /\ Own' \subseteq Own
    /\ Heard' \subseteq Heard
    /\ First \in DOMAIN pending' <=> First \in DOMAIN pending
    /\ First \in DOMAIN pending => pending'[First] = pending[First]

LEMMA ShrinksOne ==
    ASSUME OneAtATime, Plain, Shrinks
    PROVE  OneAtATime'
  BY DEF Shrinks, OneAtATime, First, runVars

\* What happens to the device or on the network, if not to the run's motion.
LEMMA OthersShrink ==
    ASSUME Control, Next,
           \/ DeliversCommand /\ \E d \in commands : /\ Submits(d.command)
                                                     /\ d.command.task # run
           \/ Tick /\ \E k \in DOMAIN pending : /\ StartsMotion(k) \/ CompletesMotion(k)
                                                /\ k # First
           \/ DropsCommand \/ LosesCommand \/ LosesObservation \/ OthersSend
           \/ ServiceThread
    PROVE  Shrinks /\ Untouched(First) /\ latest'[run] = latest[run]
  <1>0. First \in Keys /\ run \in Tasks \ {0} /\ UNCHANGED runVars /\ UNCHANGED run
    BY FirstIsKey, RunAtRest DEF Control, RunTyped, runVars
  <1>1. CASE DeliversCommand /\ \E d \in commands : /\ Submits(d.command)
                                                    /\ d.command.task # run
    <2>1. PICK d \in commands : /\ Submits(d.command)
                                /\ d.command.task # run
      BY <1>1
    <2>2. d.command \in Commands /\ KeyOf(d.command) # First
      BY <2>1 DEF Control, CommandsTyped, KeyOf, First
    <2>3. Untouched(First) /\ latest'[run] = latest[run]
      BY <1>0, <2>1, <2>2, Submitted DEF Control
    <2>4. commands' \subseteq commands
      BY <1>1 DEF DeliversCommand
    <2> QED BY <1>0, <2>3, <2>4 DEF Shrinks, Own, Heard, Untouched, First
  <1>2. CASE Tick /\ \E k \in DOMAIN pending : /\ StartsMotion(k) \/ CompletesMotion(k)
                                               /\ k # First
    <2>1. PICK k \in DOMAIN pending : (StartsMotion(k) \/ CompletesMotion(k)) /\ k # First
      BY <1>2
    <2>2. Untouched(First) /\ UNCHANGED <<latest, commands>>
      BY <1>0, <1>2, <2>1, Started, Completed DEF Control, Tick
    <2> QED BY <1>0, <2>2 DEF Shrinks, Own, Heard, Untouched, First
  <1>3. CASE DropsCommand \/ LosesCommand \/ LosesObservation \/ OthersSend \/ ServiceThread
    <2>1. /\ UNCHANGED <<results, latest, pending, moving, executions, swallowed>>
          /\ observations' \subseteq observations
      <3>1. CASE DropsCommand \/ LosesCommand \/ LosesObservation \/ OthersSend
        BY <3>1 DEF DropsCommand, LosesCommand, LosesACommand, LosesObservation, OthersSend,
                    deviceVars, serviceVars, publishVars
      <3>2. CASE ServiceThread
        BY <3>2 DEF ServiceThread, ServiceConnects, ServiceSubscribes, SubscriptionRefused,
                    ServiceDisconnects, ServiceConnectFails, deviceVars, publishVars
      <3> QED BY <1>3, <3>1, <3>2
    <2>2. Own' \subseteq Own
      BY <1>0, <1>3
      DEF DropsCommand, LosesCommand, LosesACommand, LosesObservation, OthersSend,
          ServiceThread, Own, ForeignCommands, Command
    <2> QED BY <1>0, <2>1, <2>2 DEF Shrinks, Heard, Untouched, First
  <1> QED BY <1>1, <1>2, <1>3

\* All other steps of the run and of the owner are taken while no answer is
\* waited for.
LEMMA ScriptSteps ==
    ASSUME Run \/ Starts \/ Begins \/ StartTimesOut \/ Stops, ~Answered, ~TimesOut
    PROVE  /\ place # "waiting"
           /\ UNCHANGED <<run, scenario, answers, deviceVars, observations, swallowed>>
           /\ \/ commands' = commands /\ place' # "waiting"
              \/ Requests
  <1> USE DEF Running, GoTo, StepOn, EndWith, serviceVars, publishVars
  <1>1. CASE Disconnects \/ Suppresses \/ Restores
    BY <1>1 DEF Disconnects, Suppresses, Restores, DisconnectForFault,
                SuppressNextObservation, RestoreAfterFault
  <1>2. CASE Restored \/ RestoreTimesOut \/ ChecksRestored \/ Recovers \/ CleanupFails
    BY <1>2 DEF Restored, RestoreTimesOut, ChecksRestored, Recovers, CleanupFails
  <1>3. CASE Requests \/ RequestFails \/ Judges
    BY <1>3 DEF Requests, RequestFails, Judges
  <1>4. CASE CleansUp \/ Mends
    BY <1>4 DEF CleansUp, Mends, ClearFaultInjection, RestoreAfterFault
  <1>5. CASE Starts \/ Begins \/ StartTimesOut \/ Stops
    BY <1>5 DEF Starts, Begins, StartTimesOut, Stops, StartService, StopService
  <1> QED BY <1>1, <1>2, <1>3, <1>4, <1>5 DEF Run

\* Whatever was answered in time is so with the next answer.
LEMMA PromptBefore ==
    ASSUME Control, Next, ~BeginsAgain, Prompt'
    PROVE  Prompt /\ ~TimesOut
  <1>1. answers \in Seq(Codes \cup {"timeout"})
    BY DEF Control, RunTyped
  <1>2. ASSUME NEW a \in Codes \cup {"timeout"}, answers' = Append(answers, a)
        PROVE  Prompt /\ a # "timeout"
    <2>1. a # "timeout"
      <3>1. Len(answers) + 1 \in DOMAIN answers' /\ answers'[Len(answers) + 1] = a
        BY <1>1, <1>2
      <3> QED BY <3>1 DEF Prompt
    <2>2. ASSUME NEW i \in DOMAIN answers
          PROVE  answers[i] # "timeout"
      <3>1. i \in DOMAIN answers' /\ answers'[i] = answers[i]
        BY <1>1, <1>2
      <3> QED BY <3>1 DEF Prompt
    <2> QED BY <2>1, <2>2 DEF Prompt
  <1>3. \A o \in observations : o.code \in Codes
    BY DEF Control, DeviceTyped, Observations
  <1>4. ~TimesOut
    BY <1>2 DEF TimesOut
  <1> QED BY <1>2, <1>3, <1>4, AnswersGrow DEF Prompt

\* What is once repeated or lost in a run stays so.
LEMMA HistoryGrows ==
    ASSUME Next, ~BeginsAgain
    PROVE  repeated \subseteq repeated' /\ lost \subseteq lost'
  <1>1. CASE Run
    BY <1>1 DEF Run, Disconnects, Suppresses, Restores, Restored, RestoreTimesOut,
                ChecksRestored, Requests, RequestFails, Answered, TimesOut, Judges, CleansUp,
                Mends, Recovers, CleanupFails
  <1>2. CASE ~Run
    BY <1>2 DEF Next, Starts, Begins, StartTimesOut, Stops, DeliversCommand, Tick, DropsCommand,
                LosesCommand, LosesACommand, LosesObservation, OthersSend, ServiceThread
  <1> QED BY <1>1, <1>2

LEMMA PlainBefore ==
    ASSUME Control, Next, ~BeginsAgain, Plain'
    PROVE  Plain /\ ~TimesOut /\ First \notin repeated'
  <1>1. First' = First
    BY GoesForward DEF First
  <1> QED BY <1>1, PromptBefore, HistoryGrows DEF Plain

\* The steps by what they do to the motion that is asked for twice.
LEMMA MotionSteps ==
    ASSUME Control, Next
    PROVE  \/ BeginsAgain \/ Answered \/ TimesOut
           \/ /\ Run \/ Starts \/ Begins \/ StartTimesOut \/ Stops
              /\ ~Answered /\ ~TimesOut
           \/ Shrinks /\ Untouched(First) /\ latest'[run] = latest[run]
           \/ Shrinks /\ First \in DOMAIN pending /\ StartsMotion(First)
           \/ /\ UNCHANGED runVars
              /\ \E d \in Own : /\ Submits(d.command)
                                /\ commands' = commands \ {d} \/ KeyOf(d.command) \in repeated'
           \/ /\ UNCHANGED <<runVars, commands>>
              /\ First \in DOMAIN pending /\ CompletesMotion(First)
  <1>1. CASE DeliversCommand
    <2>1. PICK d \in commands : /\ Submits(d.command)
                                /\ commands' = commands \ {d} \/ KeyOf(d.command) \in repeated'
      BY <1>1 DEF DeliversCommand
    <2>2. CASE d.command.task = run
      BY <1>1, <2>1, <2>2, RunAtRest DEF Own
    <2>3. CASE d.command.task # run
      BY <1>1, <2>1, <2>3, OthersShrink
    <2> QED BY <2>2, <2>3
  <1>2. CASE Tick
    <2>1. PICK k \in DOMAIN pending : StartsMotion(k) \/ CompletesMotion(k)
      BY <1>2 DEF Tick
    <2>2. UNCHANGED runVars /\ UNCHANGED commands
      BY <1>2, RunAtRest DEF Tick
    <2>3. CASE k # First
      BY <1>2, <2>1, <2>3, OthersShrink
    <2>4. CASE k = First /\ StartsMotion(k)
      <3>1. UNCHANGED <<pending, observations>>
        BY <2>4, Started DEF Control
      <3>2. Shrinks
        BY <2>2, <3>1 DEF Shrinks, Own, Heard, First, runVars
      <3> QED BY <2>4, <3>2
    <2>5. CASE k = First /\ CompletesMotion(k)
      BY <2>2, <2>5
    <2> QED BY <2>1, <2>3, <2>4, <2>5
  <1>3. CASE DropsCommand \/ LosesCommand \/ LosesObservation \/ OthersSend \/ ServiceThread
    BY <1>3, OthersShrink
  <1> QED BY <1>1, <1>2, <1>3 DEF Next, Run

LEMMA BeginsAgainIdle ==
    ASSUME Control, Fresh, BeginsAgain
    PROVE  /\ Idle' /\ answers' = <<>> /\ run' = run + 1
           /\ (First \notin DOMAIN results /\ First \notin moving /\ executions[First] = 0)'
  <1>1. /\ run' = run + 1 /\ run + 1 \in Tasks /\ run + 1 > run /\ answers' = <<>>
        /\ UNCHANGED <<results, pending, moving, executions, commands, observations>>
    BY FirstIsKey, ScenariosAssumption
    DEF BeginsAgain, Control, RunTyped, Tasks, deviceVars, serviceVars, publishVars
  <1>2. Unseen(run + 1) /\ Unsent(run + 1) /\ 1 \in 1 .. 2
    BY <1>1 DEF Fresh
  <1>3. /\ <<run + 1, 1>> \notin DOMAIN results /\ <<run + 1, 1>> \notin DOMAIN pending
        /\ <<run + 1, 1>> \notin moving /\ executions[<<run + 1, 1>>] = 0
    BY <1>2 DEF Unseen, Control, DeviceTyped
  <1>4. First' = <<run + 1, 1>>
    BY <1>1 DEF First
  <1>5. Own' = {} /\ Heard' = {}
    BY <1>1, <1>2, <1>4 DEF Own, Heard, Unseen, Unsent
  <1> QED BY <1>1, <1>3, <1>4, <1>5 DEF Idle

LEMMA OneAtATimeNext ==
    ASSUME Control, Fresh, OwnCommands, Turned, Next, OneAtATime
    PROVE  OneAtATime'
  <1>1. CASE BeginsAgain
    BY <1>1, BeginsAgainIdle, IdleOne
  <1>2. CASE ~BeginsAgain
    <2> SUFFICES ASSUME scenario = "duplicate_delivery", Plain, First \notin repeated', ~TimesOut
                 PROVE  OneAtATime'
      BY <1>2, GoesForward, PlainBefore DEF OneAtATime
    <2>1. CASE Answered
      BY <2>1, AnsweredIdle, IdleOne
    <2>3. CASE /\ Run \/ Starts \/ Begins \/ StartTimesOut \/ Stops
               /\ ~Answered /\ ~TimesOut
      <3>1. /\ UNCHANGED <<run, pending, observations>>
            /\ (commands' = commands /\ place' # "waiting") \/ Requests
            /\ Idle
        BY <2>3, ScriptSteps DEF deviceVars, OneAtATime, Idle
      <3>2. CASE commands' = commands
        BY <3>1, <3>2, IdleOne DEF Idle, Own, Heard, First
      <3>3. CASE Requests
        <4>1. \A c \in Own' : c.step = at'
          BY <3>1, <3>3 DEF Requests, GoTo, Idle, Own
        <4>2. (First \notin DOMAIN pending)' /\ Heard' = {} /\ place' = "waiting"
          BY <3>1, <3>3 DEF Requests, GoTo, Idle, Heard, First
        <4> QED BY <4>1, <4>2 DEF OneAtATime
      <3> QED BY <3>1, <3>2, <3>3
    <2>4. CASE Shrinks
      BY <2>4, ShrinksOne
    <2>5. CASE /\ UNCHANGED runVars
               /\ \E d \in Own : /\ Submits(d.command)
                                 /\ commands' = commands \ {d} \/ KeyOf(d.command) \in repeated'
      <3>1. PICK d \in Own : /\ Submits(d.command)
                             /\ commands' = commands \ {d} \/ KeyOf(d.command) \in repeated'
        BY <2>5
      <3>2. KeyOf(d.command) = First
        BY OwnTurn DEF Own
      <3>3. commands' = commands \ {d}
        BY <3>1, <3>2
      <3> QED BY <2>5, <3>1, <3>3, OwnDelivered DEF OneAtATime, First, runVars
    <2>6. CASE /\ UNCHANGED <<runVars, commands>>
               /\ First \in DOMAIN pending /\ CompletesMotion(First)
      BY <2>6, FirstCompleted DEF OneAtATime, runVars
    <2> QED BY <1>2, <2>1, <2>3, <2>4, <2>5, <2>6, MotionSteps
  <1> QED BY <1>1, <1>2

\* What the device answers the second time.
Again == IF flaw = "contradicts" THEN "rejected" ELSE "success"

\* A device that remembers its answers executes the motion once, however often
\* its command comes.
ExecutedOnce ==
    scenario = "duplicate_delivery" /\ flaw # "repeats" =>
        /\ First \in DOMAIN pending => First \notin DOMAIN results
        /\ executions[First] = IF First \in DOMAIN results \cup moving THEN 1 ELSE 0

LEMMA ExecutedOnceNext ==
    ASSUME Control, Fresh, OwnCommands, Turned, Next, ExecutedOnce
    PROVE  ExecutedOnce'
  <1>0. executions \in [Keys -> Nat] /\ First \in Keys /\ flaw' = flaw
    BY FirstIsKey, DeviceRemembers DEF Control, DeviceTyped
  <1>1. CASE BeginsAgain
    BY <1>1, BeginsAgainIdle DEF ExecutedOnce, Idle
  <1>2. CASE ~BeginsAgain
    <2> SUFFICES ASSUME scenario = "duplicate_delivery", flaw # "repeats"
                 PROVE  ExecutedOnce'
      BY <1>0, <1>2, GoesForward DEF ExecutedOnce
    <2>0. UNCHANGED <<run, scenario, First>>
      BY <1>2, GoesForward DEF First
    <2>1. CASE ~DeliversCommand /\ ~Tick
      <3>1. UNCHANGED <<results, pending, moving, executions>>
        BY <2>1, DeviceAtRest DEF deviceVars
      <3> QED BY <1>0, <2>0, <3>1 DEF ExecutedOnce
    <2>2. CASE Untouched(First)
      BY <1>0, <2>0, <2>2 DEF ExecutedOnce, Untouched
    <2>3. CASE DeliversCommand
      <3>1. PICK d \in commands : Submits(d.command)
        BY <2>3 DEF DeliversCommand
      <3>2. d.command \in Commands
        BY DEF Control, CommandsTyped
      <3>3. CASE d.command.task # run
        <4>1. KeyOf(d.command) # First
          BY <3>3 DEF KeyOf, First
        <4> QED BY <1>0, <2>2, <3>1, <3>2, <4>1, Submitted DEF Control
      <3>4. CASE d.command.task = run
        <4>1. /\ d.command.seq = 1 /\ d.command.tool = "turn_robot" /\ KeyOf(d.command) = First
          BY <3>4, OwnTurn
        <4>2. /\ ReplaysAnswer(d.command) \/ JoinsPending(d.command) \/ QueuesMotion(d.command)
              /\ UNCHANGED <<results, executions, moving>>
          BY <3>1, <3>2, <3>4, <4>1, OwnTurnSubmitted
        <4>3. First \in DOMAIN pending' => First \notin DOMAIN results
          <5>1. CASE ReplaysAnswer(d.command) \/ JoinsPending(d.command)
            BY <5>1 DEF ReplaysAnswer, JoinsPending, deviceVars, ExecutedOnce
          <5>2. CASE QueuesMotion(d.command)
            BY <4>1, <5>2 DEF QueuesMotion, IsNew, Remembers
          <5> QED BY <4>2, <5>1, <5>2
        <4> QED BY <1>0, <2>0, <4>2, <4>3 DEF ExecutedOnce
      <3> QED BY <3>3, <3>4
    <2>4. CASE Tick
      <3>1. PICK k \in DOMAIN pending : StartsMotion(k) \/ CompletesMotion(k)
        BY <2>4 DEF Tick
      <3>2. CASE k # First
        BY <1>0, <2>2, <3>1, <3>2, Started, Completed DEF Control
      <3>3. CASE k = First /\ StartsMotion(k)
        <4>1. /\ moving = {} /\ moving' = {First} /\ executions'[First] = executions[First] + 1
              /\ UNCHANGED <<results, pending>>
          BY <3>3, Started DEF Control
        <4>2. executions[First] = 0
          BY <3>3, <4>1 DEF ExecutedOnce
        <4> QED BY <1>0, <2>0, <4>1, <4>2 DEF ExecutedOnce
      <3>4. CASE k = First /\ CompletesMotion(k)
        <4>1. /\ moving = {First} /\ UNCHANGED executions
              /\ First \in DOMAIN results' /\ First \notin DOMAIN pending'
          BY <3>4, Completed DEF Control
        <4> QED BY <1>0, <2>0, <4>1 DEF ExecutedOnce
      <3> QED BY <3>1, <3>2, <3>3, <3>4
    <2> QED BY <2>1, <2>3, <2>4
  <1> QED BY <1>1, <1>2

\* It answers the motion and repeats itself, unless it contradicts itself.
AnsweredOnce ==
    scenario = "duplicate_delivery" /\ Plain /\ flaw # "repeats" =>
        /\ answers = <<>> =>
               /\ Own # {} => First \notin DOMAIN results
               /\ \A o \in Heard : o.code = "success"
        /\ answers # <<>> => answers[1] = "success" /\ \A o \in Heard : o.code = Again
        /\ Len(answers) = 2 => answers[2] = Again

LEMMA AnsweredOnceNext ==
    ASSUME Control, Fresh, OwnCommands, Turned, OneAtATime, ExecutedOnce, Next, AnsweredOnce
    PROVE  AnsweredOnce'
  <1>0. /\ answers \in Seq(Codes \cup {"timeout"})
        /\ First \in Keys /\ flaw' = flaw /\ Again' = Again
    BY FirstIsKey, DeviceRemembers DEF Control, RunTyped, DeviceTyped, Again
  <1>1. CASE BeginsAgain
    BY <1>1, BeginsAgainIdle DEF AnsweredOnce, Idle
  <1>2. CASE ~BeginsAgain
    <2> SUFFICES ASSUME scenario = "duplicate_delivery", Plain, flaw # "repeats",
                        First \notin repeated', ~TimesOut
                 PROVE  AnsweredOnce'
      BY <1>0, <1>2, GoesForward, PlainBefore DEF AnsweredOnce
    <2>0. UNCHANGED <<run, scenario, First>>
      BY <1>2, GoesForward DEF First
    <2>1. CASE Answered
      <3>1. PICK o \in Heard : answers' = Append(answers, o.code)
        BY <2>1, AnsweredIdle
      <3>2. Own' = {} /\ Heard' = {} /\ UNCHANGED results
        BY <2>1, AnsweredIdle DEF Idle, Answered, deviceVars
      <3>3. o.code \in Codes
        BY DEF Control, DeviceTyped, Observations, Heard
      <3>4. CASE answers = <<>>
        <4>1. o.code = "success"
          BY <3>4 DEF AnsweredOnce
        <4>2. answers' # <<>> /\ Len(answers') = 1 /\ answers'[1] = "success"
          BY <3>1, <3>4, <4>1
        <4> QED BY <1>0, <2>0, <3>2, <4>2 DEF AnsweredOnce
      <3>5. CASE answers # <<>>
        <4>1. /\ answers' # <<>> /\ answers'[1] = answers[1]
              /\ Len(answers') = 2 => answers'[2] = o.code
          BY <1>0, <3>1, <3>3, <3>5
        <4> QED BY <1>0, <2>0, <3>2, <3>5, <4>1 DEF AnsweredOnce
      <3> QED BY <3>4, <3>5
    <2>3. CASE /\ Run \/ Starts \/ Begins \/ StartTimesOut \/ Stops
               /\ ~Answered /\ ~TimesOut
      <3>1. /\ UNCHANGED <<answers, results, observations>>
            /\ (commands' = commands /\ place' # "waiting") \/ Requests
        BY <2>3, ScriptSteps DEF deviceVars
      <3>2. Heard' = Heard
        BY <2>0, <3>1 DEF Heard
      <3>3. CASE commands' = commands
        BY <1>0, <2>0, <3>1, <3>2, <3>3 DEF AnsweredOnce, Own
      <3>4. CASE Requests
        <4>1. answers = <<>> => First \notin DOMAIN results
          <5>1. Len(answers) = AsksBefore[scenario][at] /\ at \in 1 .. Len(Calls) /\ place = "running"
            BY <3>4, InScript DEF Requests, Running, Control, Progress, Undecided
          <5>2. at = 1 \/ at = 2
            <6>1. Len(Calls) = 2
              BY CallsOfScenario DEF Scenarios
            <6> QED BY <5>1, <6>1
          <5>3. answers = <<>> => at = 1
            BY <1>0, <5>1, <5>2, AsksBeforeStep
          <5>4. at = 1 => Unseen(run) /\ 1 \in 1 .. 2
            BY <5>1 DEF Fresh, Begun
          <5>5. Unseen(run) => First \notin DOMAIN results
            BY <5>4 DEF Unseen, First
          <5> QED BY <5>3, <5>4, <5>5
        <4> QED BY <1>0, <2>0, <3>1, <3>2, <4>1 DEF AnsweredOnce
      <3> QED BY <3>1, <3>3, <3>4
    <2>4. CASE Shrinks /\ Untouched(First) /\ latest'[run] = latest[run]
      BY <1>0, <2>0, <2>4 DEF AnsweredOnce, Shrinks, Untouched, runVars
    <2>5. CASE /\ UNCHANGED runVars
               /\ \E d \in Own : /\ Submits(d.command)
                                 /\ commands' = commands \ {d} \/ KeyOf(d.command) \in repeated'
      <3>1. PICK d \in Own : /\ Submits(d.command)
                             /\ commands' = commands \ {d} \/ KeyOf(d.command) \in repeated'
        BY <2>5
      <3>5. KeyOf(d.command) = First /\ commands' = commands \ {d}
        BY <3>1, OwnTurn DEF Own
      <3>2. /\ Own # {} /\ Own' = {} /\ UNCHANGED <<results, answers>>
        BY <2>5, <3>1, <3>5, OwnTurn, OwnTurnSubmitted, OwnDelivered DEF Own, runVars
      <3>3. CASE ReplaysAnswer(d.command)
        <4>1. First \in DOMAIN results /\ results[First] = "success"
          BY <3>5, <3>3 DEF ReplaysAnswer, Remembers, Turned
        <4>2. \A o \in Heard' : o.code = Again
          <5>1. PublishObservation(First, Again, 1)
            BY <3>5, <3>3, <4>1 DEF ReplaysAnswer, Again
          <5>2. \A o \in observations' \ observations : o.code = Again
            BY <5>1, Published DEF Control, LinkTyped
          <5>3. Heard = {}
            BY <3>1 DEF OneAtATime
          <5> QED BY <2>0, <5>2, <5>3 DEF Heard
        <4> QED BY <1>0, <2>0, <3>2, <4>1, <4>2 DEF AnsweredOnce
      <3>4. CASE QueuesMotion(d.command)
        <4>1. First \notin DOMAIN results
          BY <3>5, <3>4 DEF QueuesMotion, IsNew, Remembers, IsMotion, ExecutedOnce
        <4>2. Heard' = {}
          <5>1. observations' = observations /\ Heard = {}
            BY <3>1, <3>4 DEF QueuesMotion, OneAtATime, serviceVars, publishVars
          <5> QED BY <2>0, <5>1 DEF Heard
        <4> QED BY <1>0, <2>0, <3>2, <4>1, <4>2 DEF AnsweredOnce
      <3> QED BY <2>5, <3>1, <3>3, <3>4, <3>5, OwnDelivered
    <2>6. CASE /\ UNCHANGED <<runVars, commands>>
               /\ First \in DOMAIN pending /\ CompletesMotion(First)
      <3>1. answers = <<>>
        BY <2>6 DEF ExecutedOnce, Turned, Plain
      <3>3. Own' = {} /\ \A o \in Heard' : o.code = "success"
        BY <2>6, FirstCompleted
      <3>4. answers' = <<>>
        BY <2>6, <3>1 DEF runVars
      <3> QED BY <1>0, <2>0, <3>1, <3>3, <3>4 DEF AnsweredOnce
    <2>7. CASE Shrinks /\ First \in DOMAIN pending /\ StartsMotion(First)
      <3>1. UNCHANGED <<answers, results>>
        BY <2>7, Started DEF Control, Shrinks, runVars
      <3> QED BY <1>0, <2>0, <2>7, <3>1 DEF AnsweredOnce, Shrinks
    <2> QED BY <1>2, <2>1, <2>3, <2>4, <2>5, <2>6, <2>7, MotionSteps
  <1> QED BY <1>1, <1>2

-----------------------------------------------------------------------------
(* An answer that does not come.                                           *)

\* A request that waits, or that was given up, has its answer held back or a
\* message lost, or there is one that may still arrive.
Accounted ==
    scenario = "response_timeout" =>
        /\ First \notin DOMAIN pending
        /\ place = "waiting" \/ ~Prompt => First \in swallowed \cup lost \/ OnItsWay(First)

\* A command of that scenario is its query.
LEMMA OwnQuery ==
    ASSUME Control, OwnCommands, scenario = "response_timeout",
           NEW c \in commands, c.command.task = run
    PROVE  KeyOf(c.command) = First /\ ~IsMotion(c.command)
  <1>1. /\ c.step \in 1 .. Len(Calls) /\ Calls[c.step].do = "ask"
        /\ c.command = Command(run, Calls[c.step].seq, Calls[c.step].tool)
    BY DEF OwnCommands
  <1>2. /\ Len(Calls) = 2 /\ Calls[1] = Do("suppress")
        /\ Calls[2] = Ask(1, "get_robot_state")
    BY CallsOfScenario DEF Scenarios
  <1>3. c.step = 2
    BY <1>1, <1>2, CallKinds
  <1>4. c.command = Command(run, 1, "get_robot_state")
    BY <1>1, <1>2, <1>3, CallKinds
  <1> QED BY <1>4 DEF Command, KeyOf, First, IsMotion

\* A query is answered when it comes, or its answer is held back.
LEMMA QueryAnswered ==
    ASSUME Control, NEW c \in Commands, ~IsMotion(c), KeyOf(c) \notin DOMAIN pending, Submits(c)
    PROVE  /\ pending' = pending
           /\ KeyOf(c) \in swallowed' \/ \E o \in observations' : o.key = KeyOf(c)
  <1>1. \E code : PublishObservation(KeyOf(c), code, 1) /\ pending' = pending
    BY DEF Submits, ReplaysAnswer, JoinsPending, RejectsStale, AnswersQuery, QueuesMotion,
           AnswersAtOnce, deviceVars
  <1>2. PICK code : PublishObservation(KeyOf(c), code, 1) /\ pending' = pending
    BY <1>1
  <1>3. suppressNext \in BOOLEAN
    BY DEF Control, LinkTyped
  <1>4. CASE suppressNext
    BY <1>2, <1>4 DEF PublishObservation
  <1>5. CASE ~suppressNext
    <2>1. [key |-> KeyOf(c), code |-> code, copy |-> 1] \in observations'
      BY <1>2, <1>5 DEF PublishObservation
    <2> QED BY <1>2, <2>1
  <1> QED BY <1>3, <1>4, <1>5

\* The device and the network keep the account.
LEMMA AccountKept ==
    ASSUME Control, OwnCommands, scenario = "response_timeout", First \notin DOMAIN pending,
           \/ DeliversCommand \/ Tick \/ DropsCommand \/ LosesCommand
           \/ LosesObservation \/ OthersSend \/ ServiceThread
    PROVE  /\ First \notin DOMAIN pending'
           /\ \/ First \in swallowed \cup lost
              \/ OnItsWay(First)
              => First \in swallowed' \cup lost' \/ OnItsWay(First)'
  <1>0. First \in Keys /\ First' = First
    BY FirstIsKey, RunAtRest DEF First, runVars
  <1>1. CASE DeliversCommand
    <2>1. PICK d \in commands : /\ Submits(d.command)
                                /\ commands \ {d} \subseteq commands'
      BY <1>1 DEF DeliversCommand
    <2>2. d.command \in Commands /\ lost' = lost
      BY <1>1 DEF Control, CommandsTyped, DeliversCommand
    <2>3. swallowed \subseteq swallowed' /\ observations \subseteq observations'
      BY <2>1, <2>2, Submitted DEF Control
    <2>4. CASE d.command.task = run
      <3>1. KeyOf(d.command) = First /\ ~IsMotion(d.command)
        BY <2>4, OwnQuery
      <3>2. /\ pending' = pending
            /\ First \in swallowed' \/ \E o \in observations' : o.key = First
        BY <2>1, <2>2, <3>1, QueryAnswered
      <3> QED BY <1>0, <3>2 DEF OnItsWay
    <2>5. CASE d.command.task # run
      <3>1. KeyOf(d.command) # First
        BY <2>5 DEF KeyOf, First
      <3>2. First \notin DOMAIN pending'
        BY <1>0, <2>1, <2>2, <3>1, Submitted DEF Control, Untouched
      <3>3. OnItsWay(First) => OnItsWay(First)'
        BY <1>0, <2>1, <2>3, <3>1 DEF OnItsWay
      <3> QED BY <2>2, <2>3, <3>2, <3>3
    <2> QED BY <2>4, <2>5
  <1>2. CASE Tick
    <2>1. PICK k \in DOMAIN pending : StartsMotion(k) \/ CompletesMotion(k)
      BY <1>2 DEF Tick
    <2>2. /\ swallowed \subseteq swallowed' /\ observations \subseteq observations'
          /\ Untouched(First)
      BY <1>0, <2>1, Started, Completed DEF Control
    <2>3. UNCHANGED <<commands, lost>>
      BY <1>2 DEF Tick
    <2> QED BY <1>0, <2>2, <2>3 DEF OnItsWay, Untouched
  <1>3. CASE DropsCommand \/ LosesCommand
    <2>1. /\ \E c \in commands :
                /\ commands' = commands \ {c}
                /\ lost' = lost \cup {KeyOf(c.command)}
          /\ UNCHANGED <<pending, swallowed, observations>>
      BY <1>3 DEF DropsCommand, LosesCommand, LosesACommand, deviceVars, serviceVars, publishVars
    <2> QED BY <1>0, <2>1 DEF OnItsWay
  <1>4. CASE LosesObservation
    <2>1. /\ \E o \in observations :
                /\ observations' = observations \ {o}
                /\ lost' = lost \cup {o.key}
          /\ UNCHANGED <<pending, swallowed, commands>>
      BY <1>4 DEF LosesObservation, deviceVars
    <2> QED BY <1>0, <2>1 DEF OnItsWay
  <1>5. CASE OthersSend
    <2>1. /\ commands \subseteq commands'
          /\ UNCHANGED <<pending, swallowed, observations, lost>>
      BY <1>5 DEF OthersSend, deviceVars, serviceVars, publishVars
    <2> QED BY <1>0, <2>1 DEF OnItsWay
  <1>6. CASE ServiceThread
    <2>1. UNCHANGED <<pending, swallowed, observations, lost, commands>>
      BY <1>6 DEF ServiceThread, ServiceConnects, ServiceSubscribes, SubscriptionRefused,
                  ServiceDisconnects, ServiceConnectFails, deviceVars, publishVars
    <2> QED BY <1>0, <2>1 DEF OnItsWay
  <1> QED BY <1>1, <1>2, <1>3, <1>4, <1>5, <1>6

LEMMA AccountedNext ==
    ASSUME Control, Fresh, OwnCommands, Next, Accounted
    PROVE  Accounted'
  <1>1. CASE BeginsAgain
    BY <1>1, BeginsAgainIdle DEF Accounted, Idle, Prompt, BeginsAgain
  <1>2. CASE ~BeginsAgain
    <2> SUFFICES ASSUME scenario = "response_timeout"
                 PROVE  Accounted'
      BY <1>2, GoesForward DEF Accounted
    <2>0. UNCHANGED <<run, scenario, First>> /\ lost \subseteq lost'
      BY <1>2, GoesForward, HistoryGrows DEF First
    <2>1. CASE Answered
      <3>1. answers = <<>> /\ answers \in Seq(Codes \cup {"timeout"}) /\ place' # "waiting"
        BY <2>1, AskedKey DEF Answered, StepOn, EndWith
      <3>2. PICK o \in observations : answers' = Append(answers, o.code)
        BY <2>1 DEF Answered
      <3>3. o.code # "timeout"
        BY DEF Control, DeviceTyped, Observations, Codes
      <3>4. answers' = <<o.code>>
        BY <3>1, <3>2
      <3>5. Prompt'
        BY <3>3, <3>4 DEF Prompt
      <3>6. pending' = pending
        BY <2>1 DEF Answered, deviceVars
      <3> QED BY <2>0, <3>1, <3>5, <3>6 DEF Accounted
    <2>2. CASE TimesOut
      <3>1. /\ place = "waiting"
            /\ UNCHANGED <<commands, lost, pending, observations, swallowed>>
        BY <2>2 DEF TimesOut, deviceVars, serviceVars, publishVars
      <3> QED BY <2>0, <3>1 DEF Accounted, OnItsWay
    <2>3. CASE /\ Run \/ Starts \/ Begins \/ StartTimesOut \/ Stops
               /\ ~Answered /\ ~TimesOut
      <3>1. /\ UNCHANGED <<answers, pending, observations, swallowed>>
            /\ (commands' = commands /\ place' # "waiting") \/ Requests
        BY <2>3, ScriptSteps DEF deviceVars
      <3>2. CASE commands' = commands /\ place' # "waiting"
        BY <2>0, <3>1, <3>2 DEF Accounted, Prompt, OnItsWay
      <3>3. CASE Requests
        <4>1. /\ commands' = commands \cup {[command |-> Asked, step |-> at]}
              /\ UNCHANGED <<run, scenario, at>> /\ place' = "waiting"
          BY <3>3 DEF Requests, GoTo
        <4>2. KeyOf(Asked) = First
          <5>1. Call = Ask(1, "get_robot_state")
            BY <3>3, InScript, CallAt DEF Requests, Running
          <5> QED BY <5>1, CallKinds DEF Asked, Command, KeyOf, First
        <4>3. PICK c \in commands' : c = [command |-> Asked, step |-> at]
          BY <4>1
        <4>4. OnItsWay(First)'
          BY <2>0, <4>2, <4>3 DEF OnItsWay
        <4> QED BY <2>0, <3>1, <4>4 DEF Accounted
      <3> QED BY <3>1, <3>2, <3>3
    <2>4. CASE \/ DeliversCommand \/ Tick \/ DropsCommand \/ LosesCommand
               \/ LosesObservation \/ OthersSend \/ ServiceThread
      <3>1. UNCHANGED <<place, answers>> /\ Prompt' = Prompt
        BY <2>4, RunAtRest DEF runVars, Prompt
      <3> QED BY <2>0, <2>4, <3>1, AccountKept DEF Accounted
    <2> QED BY <1>2, <2>1, <2>2, <2>3, <2>4 DEF Next, Run
  <1> QED BY <1>1, <1>2

-----------------------------------------------------------------------------
(* The verdict.                                                            *)

\* What a scenario that passed had found, which stays true: a second execution
\* can follow only where a message was repeated.
Earned ==
    verdict = "passed" =>
        /\ scenario = "duplicate_delivery" =>
               /\ Prompt /\ First \in DOMAIN results
               /\ flaw # "contradicts" \/ First \in repeated
               /\ executions[First] = 1 \/ flaw # "repeats" \/ First \in repeated
        /\ scenario = "out_of_order" => flaw # "ignores_order"
        /\ scenario = "device_disconnect" => Second \in DOMAIN results
        /\ scenario = "response_timeout" => ~Prompt

\* The inductive invariant.
Findings ==
    /\ Fresh /\ OwnCommands
    /\ Known /\ NeverStale /\ Accounted
    /\ Counted /\ Turned /\ OneAtATime /\ ExecutedOnce /\ AnsweredOnce
    /\ Earned

\* A scenario that passes found what its verdict says.
LEMMA PassesEarns ==
    ASSUME Control, Findings, Judges, verdict' = "passed"
    PROVE  Earned'
  <1>1. Passes /\ place = "running" /\ UNCHANGED <<run, scenario, answers, deviceVars>>
    BY DEF Judges, EndWith
  <1>2. UNCHANGED <<flaw, results, executions, motions, repeated>>
    BY <1>1 DEF Judges, deviceVars
  <1>3. /\ at = Len(Calls) + 1 /\ answers \in Seq(Codes \cup {"timeout"})
        /\ Len(answers) = AsksBefore[scenario][at] /\ scenario \in Scenarios
    <2>1. Len(Calls) \in Nat
      BY CallsOfScenario DEF Control, RunTyped, Scenarios
    <2> QED BY <1>1, <2>1 DEF Judges, Control, RunTyped, Progress, Undecided
  <1>4. CASE scenario = "duplicate_delivery"
    <2>1. Len(answers) = 2
      <3>1. Len(Calls) = 2
        BY <1>3, <1>4, CallsOfScenario
      <3>2. at = 3
        BY <1>3, <3>1
      <3> QED BY <1>3, <1>4, <3>2, AsksBeforeStep
    <2>2. answers[1] # "timeout" /\ answers[2] = answers[1] /\ motions = before.motions + 1
      BY <1>1, <1>4 DEF Passes, Moved
    <2>3. Prompt
      <3>1. DOMAIN answers = 1 .. 2
        BY <1>3, <2>1
      <3> QED BY <2>2, <3>1 DEF Prompt
    <2>4. First \in DOMAIN results /\ executions[First] >= 1
      <3>1. answers # <<>>
        BY <2>1
      <3> QED BY <1>4, <2>3, <3>1 DEF Findings, Turned
    <2>5. executions[First] = 1
      <3>1. executions[First] \in Nat /\ motions \in Nat /\ before.motions \in Nat
        BY FirstIsKey DEF Control, RunTyped, DeviceTyped
      <3> QED BY <2>2, <2>4, <3>1 DEF Findings, Counted
    <2>6. ASSUME flaw = "contradicts", First \notin repeated
          PROVE  FALSE
      <3>1. answers # <<>> /\ flaw # "repeats" /\ Again = "rejected" /\ Plain
        BY <2>1, <2>3, <2>6 DEF Again, Plain
      <3> QED BY <1>4, <2>1, <2>2, <3>1 DEF Findings, AnsweredOnce
    <2> QED BY <1>1, <1>2, <1>4, <2>3, <2>4, <2>5, <2>6 DEF Earned, First, Prompt
  <1>5. CASE scenario = "out_of_order"
    <2>1. answers = <<"success", "stale_sequence">>
      BY <1>1, <1>5 DEF Passes
    <2>2. 2 \in DOMAIN answers /\ answers[2] = "stale_sequence"
      BY <2>1
    <2>3. flaw # "ignores_order"
      BY <2>2 DEF Findings, NeverStale
    <2> QED BY <1>1, <1>2, <1>5, <2>3 DEF Earned
  <1>6. CASE scenario = "device_disconnect"
    <2>1. Len(answers) = 2
      <3>1. Len(Calls) = 4
        BY <1>3, <1>6, CallsOfScenario
      <3>2. at = 5
        BY <1>3, <3>1
      <3> QED BY <1>3, <1>6, <3>2, AsksBeforeStep
    <2>2. answers[2] = "success"
      BY <1>1, <1>6 DEF Passes
    <2>3. Second \in DOMAIN results
      BY <1>6, <2>1, <2>2 DEF Findings, Known
    <2> QED BY <1>1, <1>2, <1>6, <2>3 DEF Earned, Second
  <1>7. CASE scenario = "response_timeout"
    <2>1. Len(answers) = 1
      <3>1. Len(Calls) = 2
        BY <1>3, <1>7, CallsOfScenario
      <3>2. at = 3
        BY <1>3, <3>1
      <3> QED BY <1>3, <1>7, <3>2, AsksBeforeStep
    <2>2. 1 \in DOMAIN answers /\ answers[1] = "timeout"
      BY <1>1, <1>3, <1>7, <2>1 DEF Passes
    <2>3. ~Prompt
      BY <2>2 DEF Prompt
    <2> QED BY <1>1, <1>2, <1>7, <2>3 DEF Earned, Prompt
  <1> QED BY <1>3, <1>4, <1>5, <1>6, <1>7 DEF Scenarios

\* No other step makes a scenario pass.
LEMMA PassedBefore ==
    ASSUME Control, Next, ~Judges, verdict' = "passed"
    PROVE  /\ verdict = "passed" /\ place # "waiting" /\ ~BeginsAgain
           /\ UNCHANGED <<run, scenario, answers>>
  <1>1. ~BeginsAgain
    BY DEF BeginsAgain
  <1>2. verdict = "passed"
    <2>1. CASE Run
      BY <2>1 DEF Run, Disconnects, Suppresses, Restores, Restored, RestoreTimesOut,
                  ChecksRestored, Requests, RequestFails, Answered, TimesOut, CleansUp,
                  Mends, Recovers, CleanupFails, GoTo, StepOn, EndWith
    <2>2. CASE Starts \/ Begins \/ StartTimesOut \/ Stops
      BY <2>2 DEF Starts, Begins, StartTimesOut, Stops, GoTo
    <2>3. CASE \/ DeliversCommand \/ Tick \/ DropsCommand \/ LosesCommand
               \/ LosesObservation \/ OthersSend \/ ServiceThread
      BY <2>3, RunAtRest DEF runVars
    <2> QED BY <1>1, <2>1, <2>2, <2>3 DEF Next
  <1>3. place # "waiting"
    BY <1>2 DEF Control, Progress, Undecided
  <1> QED BY <1>1, <1>2, <1>3, AnswersGrow DEF Answered, TimesOut

LEMMA EarnedNext ==
    ASSUME Control, Findings, Next
    PROVE  Earned'
  <1>1. CASE verdict' # "passed"
    BY <1>1 DEF Earned
  <1>2. CASE verdict' = "passed" /\ Judges
    BY <1>2, PassesEarns
  <1>3. CASE verdict' = "passed" /\ ~Judges
    <2>1. /\ verdict = "passed" /\ place # "waiting" /\ ~BeginsAgain
          /\ UNCHANGED <<run, scenario, answers>>
      BY <1>3, PassedBefore
    <2>2. /\ UNCHANGED flaw /\ DOMAIN results \subseteq DOMAIN results'
          /\ repeated \subseteq repeated' /\ First' = First /\ Second' = Second
          /\ Prompt' = Prompt
      BY <2>1, DeviceRemembers, HistoryGrows DEF First, Second, Prompt
    <2>3. ASSUME scenario = "duplicate_delivery", First \notin repeated'
          PROVE  executions'[First] = executions[First]
      <3>1. Own = {} /\ First \notin DOMAIN pending
        BY <2>1, <2>2, <2>3 DEF Findings, Earned, OneAtATime, Plain
      <3>2. ~Answered /\ ~TimesOut
        BY <2>1 DEF Answered, TimesOut
      <3>3. CASE Run \/ Starts \/ Begins \/ StartTimesOut \/ Stops
        BY <3>2, <3>3, ScriptSteps DEF deviceVars
      <3>4. CASE Untouched(First)
        BY <3>4 DEF Untouched
      <3> QED BY <2>1, <3>1, <3>2, <3>3, <3>4, MotionSteps
    <2> QED BY <2>1, <2>2, <2>3 DEF Findings, Earned
  <1> QED BY <1>1, <1>2, <1>3

LEMMA FindingsInit == Init => Findings
  <1> SUFFICES ASSUME Init PROVE Findings
    OBVIOUS
  <1>1. \A t \in Tasks : Unseen(t) /\ Unsent(t)
    BY DEF Init, ServiceInit, Unseen, Unsent, Keys
  <1>2. run \in Tasks /\ First \in Keys
    BY ControlInit, FirstIsKey
  <1>3. Fresh /\ OwnCommands /\ Known /\ NeverStale /\ Accounted
    BY <1>1, <1>2
    DEF Init, ServiceInit, Fresh, OwnCommands, Known, NeverStale, Accounted, Prompt
  <1>4. Counted /\ Turned
    BY <1>2 DEF Init, Counted, Turned
  <1>5. OneAtATime /\ ExecutedOnce /\ AnsweredOnce
    BY <1>2 DEF Init, ServiceInit, OneAtATime, ExecutedOnce, AnsweredOnce, Own, Heard
  <1>6. Earned
    BY DEF Init, Earned
  <1> QED BY <1>3, <1>4, <1>5, <1>6 DEF Findings

LEMMA FindingsNext ==
    ASSUME Control, Findings, [Next]_vars
    PROVE  Findings'
  <1>1. CASE Next
    BY <1>1, FreshNext, OwnCommandsNext, KnownNext, NeverStaleNext, AccountedNext, CountedNext,
       TurnedNext, OneAtATimeNext, ExecutedOnceNext, AnsweredOnceNext, EarnedNext DEF Findings
  <1>2. CASE UNCHANGED vars
    <2>1. UNCHANGED <<runVars, run, scenario, place, at, answers, before, verdict, commands,
                      repeated, lost, flaw, results, latest, pending, moving, motions,
                      executions, disturbances, swallowed, observations>>
      BY <1>2 DEF vars, runVars, deviceVars, serviceVars, publishVars
    <2>2. /\ UNCHANGED <<First, Second, Calls, Own, Heard, Again>>
          /\ Prompt' = Prompt /\ Plain' = Plain
      BY <2>1 DEF First, Second, Calls, Own, Heard, Again, Prompt, Plain
    <2>3. (Fresh /\ OwnCommands)'
      BY <2>1, <2>2 DEF Findings, Fresh, OwnCommands, Unseen, Unsent, Begun
    <2>4. (Known /\ NeverStale /\ Accounted)'
      BY <2>1, <2>2 DEF Findings, Known, NeverStale, Accounted, OnItsWay
    <2>5. (Counted /\ Turned)'
      BY <2>1, <2>2 DEF Findings, Counted, Turned
    <2>6. (OneAtATime /\ ExecutedOnce /\ AnsweredOnce)'
      BY <2>1, <2>2 DEF Findings, OneAtATime, ExecutedOnce, AnsweredOnce
    <2>7. Earned'
      BY <2>1, <2>2 DEF Findings, Earned
    <2> QED BY <2>3, <2>4, <2>5, <2>6, <2>7 DEF Findings
  <1> QED BY <1>1, <1>2

\* The inductive invariant behind the verdicts: where the run's motion is, what
\* the device has done with it, and what its answers say of that, as long as
\* none of its messages is repeated and when they are.
THEOREM FindingsInductive == Spec => []Findings
  BY ControlInductive, FindingsInit, FindingsNext, PTL DEF Spec

\* What a pass proves, over a network that loses, delays and repeats: of the
\* motion sent twice, that it was executed, and once only, without a
\* contradiction, unless one of its messages was repeated for a device that is
\* flawed in just that; of an older number, that the device minds the order; of
\* a device cut off, that it did the second command; of an answer that did not
\* come, that it was held back or a message of it lost or late.
THEOREM PassedIsEarnedHolds == Spec => []PassedIsEarned
  <1>1. ASSUME Control, Findings
        PROVE  PassedIsEarned
    <2> SUFFICES ASSUME verdict = "passed"
                 PROVE  PassedIsEarned
      BY DEF PassedIsEarned
    <2>1. CASE scenario = "duplicate_delivery"
      <3>1. /\ First \in DOMAIN results /\ executions[First] >= 1
            /\ flaw # "repeats" => executions[First] = 1
        BY <1>1, <2>1 DEF Findings, Earned, Turned, ExecutedOnce
      <3>2. /\ flaw = "contradicts" => First \in repeated
            /\ flaw = "repeats" => executions[First] = 1 \/ First \in repeated
        BY <1>1, <2>1 DEF Findings, Earned
      <3> QED BY <2>1, <3>1, <3>2 DEF PassedIsEarned, First
    <2>2. CASE scenario # "duplicate_delivery"
      BY <1>1, <2>2 DEF Findings, Earned, Accounted, PassedIsEarned, First, Second
    <2> QED BY <2>1, <2>2
  <1> QED BY <1>1, ControlInductive, FindingsInductive, PTL

-----------------------------------------------------------------------------
(* A device without flaw that nothing disturbs.                            *)

Quiet == flaw = "none" /\ disturbances = 0

\* The device has not got what the run asks it.
Underway == place # "waiting" \/ \E c \in commands : IsAwaited(c)

\* Only the scenario that holds an answer back loses one.
Spared == scenario # "response_timeout" => First \notin swallowed /\ Second \notin swallowed

\* The device is connected but where the script cuts it off, and the script is
\* followed to its end.
Linked ==
    /\ ~exhausted /\ loop # "refused"
    /\ place \in {"running", "waiting", "cleanup", "mending"} => online \/ loopStopped
    /\ place \in {"restored", "over"} => online
    /\ loopStopped => \/ place = "running" /\ at \in {2, 3}
                      \/ place = "waiting" /\ at = 2
    /\ scenario = "device_disconnect" /\ place \in {"running", "waiting"} /\ at \in {2, 3} =>
           loopStopped
    /\ place \notin Undecided => at = Len(Calls) + 1
    /\ verdict # "failed"

\* The device executes the motion of the run and no other.
Still ==
    /\ \A c \in commands : c.command.task # 0
    /\ \A k \in DOMAIN pending :
           k = First /\ scenario = "duplicate_delivery" /\ place = "waiting"
    /\ motions = before.motions + executions[First] /\ before.turns = before.motions
    /\ scenario # "duplicate_delivery" => executions[First] = 0
    /\ scenario = "duplicate_delivery" => Prompt
    /\ repeated = {}

CutOff ==
    scenario = "device_disconnect" =>
        /\ at < 4 \/ (at = 4 /\ Underway) => Unseen(run)
        /\ \A o \in observations : o.key = Second => o.code = "success"
        /\ Len(answers) = 2 => answers[2] = "success"

HeldBack ==
    scenario = "response_timeout" =>
        /\ at = 1 \/ (at = 2 /\ Underway) => Unseen(run)
        /\ at = 2 /\ Underway => suppressNext
        /\ \A o \in observations : o.key # First
        /\ answers # <<>> => answers[1] = "timeout"

Swapped ==
    scenario = "out_of_order" =>
        /\ at = 1 => First \notin DOMAIN results
        /\ at = 1 /\ Underway => Unseen(run)
        /\ at = 2 /\ Underway => First \notin DOMAIN results
        /\ at > 1 \/ ~Underway => latest[run] = 2
        /\ \A o \in observations :
               /\ o.key = Second => o.code = "success"
               /\ o.key = First => o.code = "stale_sequence"
        /\ answers # <<>> => answers[1] = "success"
        /\ Len(answers) = 2 => answers[2] = "stale_sequence"

Calmness == Linked /\ Still /\ CutOff /\ HeldBack /\ Swapped

\* A step after which still nothing has disturbed the device.
QuietStep ==
    /\ Control /\ Findings /\ Spared
    /\ Quiet /\ Calmness
    /\ Next
    /\ Quiet'

LEMMA SparedNext ==
    ASSUME Control, Fresh, Next, Spared
    PROVE  Spared'
  <1>1. CASE BeginsAgain
    <2>1. run' = run + 1 /\ run + 1 \in Tasks /\ run + 1 > run /\ swallowed' = swallowed
      BY <1>1, FirstIsKey, ScenariosAssumption
      DEF BeginsAgain, Control, RunTyped, Tasks, serviceVars, publishVars
    <2>2. Unseen(run + 1) /\ 1 \in 1 .. 2 /\ 2 \in 1 .. 2
      BY <2>1 DEF Fresh
    <2>3. <<run + 1, 1>> \notin swallowed /\ <<run + 1, 2>> \notin swallowed
      BY <2>2 DEF Unseen
    <2> QED BY <2>1, <2>3 DEF Spared, First, Second
  <1>2. CASE ~BeginsAgain
    <2>1. UNCHANGED <<run, scenario>>
      BY <1>2, GoesForward
    <2>2. scenario # "response_timeout" => swallowed' = swallowed
      <3>1. scenario # "response_timeout" => ~suppressNext
        BY DEF Control, Switches
      <3>2. CASE DeliversCommand
        <4>1. PICK c \in Commands : Submits(c)
          BY <3>2 DEF DeliversCommand, Control, CommandsTyped
        <4> QED BY <3>1, <4>1, Submitted DEF Control
      <3>3. CASE Tick
        <4>1. PICK k \in DOMAIN pending : StartsMotion(k) \/ CompletesMotion(k)
          BY <3>3 DEF Tick
        <4> QED BY <3>1, <4>1, Started, Completed DEF Control
      <3>4. CASE ~DeliversCommand /\ ~Tick
        BY <3>4, DeviceAtRest
      <3> QED BY <3>2, <3>3, <3>4
    <2> QED BY <2>1, <2>2 DEF Spared, First, Second
  <1> QED BY <1>1, <1>2

\* No step of it is a disturbance.
LEMMA QuietCalm ==
    ASSUME QuietStep
    PROVE  /\ ~Disturbs
           /\ ~StartTimesOut /\ ~RequestFails /\ ~LosesCommand /\ ~LosesObservation
           /\ ~OthersSend
           /\ ServiceThread => ServiceConnects \/ ServiceSubscribes
           /\ ~BeginsAgain => repeated' = repeated
  <1>1. ~Disturbs
    BY DEF QuietStep, Quiet, Disturbs
  <1>2. ASSUME ~BeginsAgain
        PROVE  repeated' = repeated
    <2>1. CASE Run
      BY <1>1, <2>1
      DEF Run, Disconnects, Suppresses, Restores, Restored, RestoreTimesOut, ChecksRestored,
          Requests, RequestFails, Answered, TimesOut, Judges, CleansUp, Mends, Recovers,
          CleanupFails
    <2>2. CASE ~Run
      BY <1>1, <1>2, <2>2
      DEF QuietStep, Next, Starts, Begins, StartTimesOut, Stops, DeliversCommand, Tick,
          DropsCommand, LosesCommand, LosesACommand, LosesObservation, OthersSend, ServiceThread
    <2> QED BY <2>1, <2>2
  <1> QED BY <1>1, <1>2 DEF StartTimesOut, RequestFails, LosesCommand, LosesObservation,
                      OthersSend, ServiceThread

\* While the run waits for its connection, somebody is trying.
LEMMA QuietWaits ==
    ASSUME QuietStep, place \in {"restoring", "recovering"}
    PROVE  ~GivesUpWaiting
  <1>1. serviceUp /\ ~exhausted /\ ~loopStopped
    BY DEF QuietStep, Control, Switches, Calmness, Linked
  <1>2. loop # "off"
    BY <1>1 DEF QuietStep, Control, Switches
  <1> QED BY <1>2, QuietCalm DEF GivesUpWaiting

\* What the device gets is what the run waits for.
LEMMA QuietDelivery ==
    ASSUME QuietStep, DeliversCommand
    PROVE  /\ place = "waiting" /\ online /\ UNCHANGED runVars
           /\ Submits(Asked) /\ Asked \in Commands
           /\ ~Underway' /\ Underway
  <1>1. PICK d \in commands : /\ Submits(d.command) /\ commands' = commands \ {d}
                              /\ IF IsAwaited(d) \/ d.command \in ForeignCommands
                                 THEN Calm ELSE Disturbs
    BY QuietCalm DEF DeliversCommand
  <1>2. d.command \notin ForeignCommands
    BY DEF QuietStep, Calmness, Still, ForeignCommands, Command
  <1>3. IsAwaited(d)
    BY <1>1, <1>2, QuietCalm
  <1>4. place = "waiting" /\ d.step = at /\ d.command = Asked
    BY <1>3 DEF IsAwaited
  <1>5. d \in [command : Commands, step : Nat] /\ Asked \in Commands
    BY <1>4 DEF QuietStep, Control, CommandsTyped
  <1>6. UNCHANGED <<run, scenario, at, place>> /\ Asked' = Asked /\ UNCHANGED runVars
    BY RunAtRest DEF runVars, Asked, Call, Calls
  <1>7. ~Underway'
    <2>1. ASSUME NEW c \in commands', IsAwaited(c)'
          PROVE  FALSE
      <3>1. c.step = at /\ c.command = Asked /\ c \in commands
        BY <1>1, <1>6, <2>1 DEF IsAwaited
      <3>2. c \in [command : Commands, step : Nat]
        BY <3>1 DEF QuietStep, Control, CommandsTyped
      <3>3. c = d
        BY <1>4, <1>5, <3>1, <3>2
      <3> QED BY <1>1, <2>1, <3>3
    <2> QED BY <1>4, <1>6, <2>1 DEF Underway
  <1>8. Underway
    BY <1>3 DEF Underway
  <1> QED BY <1>1, <1>4, <1>5, <1>6, <1>7, <1>8 DEF DeliversCommand

\* A wait ends in vain only where the scenario means it to.
LEMMA QuietTimesOut ==
    ASSUME QuietStep, TimesOut
    PROVE  /\ at = 2 /\ scenario \in {"device_disconnect", "response_timeout"}
           /\ StepOn /\ answers' = <<"timeout">>
  <1>1. place = "waiting" /\ StepOn /\ answers' = Append(answers, "timeout")
    BY DEF TimesOut
  <1>2. loopStopped \/ KeyOf(Asked) \in swallowed
    BY QuietCalm DEF TimesOut
  <1>3. scenario \in Scenarios /\ Control
    BY DEF QuietStep, Control, RunTyped
  <1>4. CASE loopStopped
    <2>1. at = 2 /\ scenario = "device_disconnect"
      BY <1>1, <1>4 DEF QuietStep, Calmness, Linked, Control, Switches
    <2>2. answers = <<>>
      BY <1>1, <1>3, <2>1, AskedKey
    <2> QED BY <1>1, <2>1, <2>2
  <1>5. CASE KeyOf(Asked) \in swallowed
    <2>1. KeyOf(Asked) \in {First, Second}
      BY <1>1, <1>3, AskedKey DEF Scenarios
    <2>2. scenario = "response_timeout"
      BY <1>5, <2>1 DEF QuietStep, Spared
    <2>3. at = 2 /\ answers = <<>>
      BY <1>1, <1>3, <2>2, AskedKey
    <2> QED BY <1>1, <2>2, <2>3
  <1> QED BY <1>2, <1>4, <1>5

\* Every answer is the one the scenario is after.
LEMMA QuietAnswered ==
    ASSUME QuietStep, Answered
    PROVE  /\ StepOn /\ scenario # "response_timeout"
           /\ scenario = "device_disconnect" =>
                  at = 4 /\ Len(answers) = 1 /\ Len(answers') = 2 /\ answers'[2] = "success"
           /\ scenario = "out_of_order" =>
                  \/ at = 1 /\ answers' = <<"success">> /\ latest[run] = 2
                  \/ /\ at = 2 /\ Len(answers) = 1 /\ Len(answers') = 2
                     /\ answers'[1] = answers[1] /\ answers'[2] = "stale_sequence"
  <1>0. place = "waiting" /\ Control /\ scenario \in Scenarios /\ run \in Tasks
    BY FirstIsKey DEF Answered, QuietStep, Control, RunTyped
  <1>1. PICK o \in observations : o.key = KeyOf(Asked) /\ answers' = Append(answers, o.code)
    BY DEF Answered
  <1>2. answers \in Seq(Codes \cup {"timeout"}) /\ o.code \in Codes
    BY DEF QuietStep, Control, RunTyped, DeviceTyped, Observations
  <1>9. /\ Len(answers') = Len(answers) + 1 /\ answers'[Len(answers) + 1] = o.code
        /\ Len(answers) = 1 => answers'[1] = answers[1]
    BY <1>1, <1>2
  <1>3. o.key[1] = run
    BY <1>1 DEF KeyOf, Asked, Command
  <1>4. ~Unseen(run)
    BY <1>3 DEF Unseen
  <1>5. ASSUME scenario = "response_timeout" PROVE FALSE
    BY <1>0, <1>1, <1>5, AskedKey DEF QuietStep, Calmness, HeldBack
  <1>6. ASSUME scenario = "device_disconnect"
        PROVE  /\ at = 4 /\ Len(answers) = 1
               /\ Len(answers') = 2 /\ answers'[2] = "success"
    <2>1. at # 2
      BY <1>4, <1>6 DEF QuietStep, Calmness, CutOff
    <2>2. at = 4 /\ KeyOf(Asked) = Second /\ Len(answers) = 1
      BY <1>0, <1>6, <2>1, AskedKey
    <2>3. o.code = "success"
      BY <1>1, <1>6, <2>2 DEF QuietStep, Calmness, CutOff
    <2> QED BY <1>9, <2>2, <2>3
  <1>7. ASSUME scenario = "out_of_order"
        PROVE  \/ at = 1 /\ answers' = <<"success">> /\ latest[run] = 2
               \/ /\ at = 2 /\ Len(answers) = 1 /\ Len(answers') = 2
                  /\ answers'[1] = answers[1] /\ answers'[2] = "stale_sequence"
    <2>1. CASE at = 1 /\ KeyOf(Asked) = Second /\ answers = <<>>
      <3>1. o.code = "success" /\ latest[run] = 2
        BY <1>1, <1>4, <1>7, <2>1 DEF QuietStep, Calmness, Swapped
      <3> QED BY <1>1, <2>1, <3>1
    <2>2. CASE at = 2 /\ KeyOf(Asked) = First /\ Len(answers) = 1
      <3>1. o.code = "stale_sequence"
        BY <1>1, <1>7, <2>2 DEF QuietStep, Calmness, Swapped
      <3> QED BY <1>9, <2>2, <3>1
    <2> QED BY <1>0, <1>7, <2>1, <2>2, AskedKey
  <1>8. StepOn
    BY <1>6 DEF Answered
  <1> QED BY <1>5, <1>6, <1>7, <1>8

\* A scenario that got to its end passes.
LEMMA QuietJudges ==
    ASSUME QuietStep, Judges
    PROVE  verdict' = "passed" /\ place' = "cleanup" /\ at = Len(Calls) + 1
  <1>1. /\ at = Len(Calls) + 1 /\ answers \in Seq(Codes \cup {"timeout"})
        /\ Len(answers) = AsksBefore[scenario][at] /\ scenario \in Scenarios
        /\ executions[First] \in Nat /\ motions \in Nat
        /\ before \in [motions : Nat, turns : Int]
    <2>1. Len(Calls) \in Nat
      BY CallsOfScenario DEF QuietStep, Control, RunTyped, Scenarios
    <2> QED BY <2>1, FirstIsKey
            DEF Judges, QuietStep, Control, RunTyped, DeviceTyped, Progress, Undecided
  <1>2. /\ scenario # "device_disconnect" => at = 3
        /\ scenario = "device_disconnect" => at = 5
    <2>1. CASE scenario = "device_disconnect"
      <3>1. Len(Calls) = 4
        BY <1>1, <2>1, CallsOfScenario
      <3> QED BY <1>1, <2>1, <3>1
    <2>2. CASE scenario # "device_disconnect"
      <3>1. Len(Calls) = 2
        BY <1>1, <2>2, CallsOfScenario DEF Scenarios
      <3> QED BY <1>1, <2>2, <3>1
    <2> QED BY <2>1, <2>2
  <1>4. Moved = [motions |-> motions, turns |-> motions]
    <2>1. DOMAIN pending = {}
      BY DEF Judges, QuietStep, Calmness, Still
    <2>2. moving = {}
      BY <2>1 DEF QuietStep, Control, DeviceTyped
    <2> QED BY <1>1, <2>2 DEF Moved
  <1>5. before = [motions |-> before.motions, turns |-> before.motions]
    BY <1>1 DEF QuietStep, Calmness, Still
  <1>3. Passes
    <2>1. CASE scenario = "device_disconnect"
      <3>1. Len(answers) = 2
        BY <1>1, <1>2, <2>1, AsksBeforeStep
      <3> QED BY <2>1, <3>1 DEF Passes, QuietStep, Calmness, CutOff
    <2>2. CASE scenario = "response_timeout"
      <3>1. Len(answers) = 1
        BY <1>1, <1>2, <2>2, AsksBeforeStep
      <3>2. answers # <<>>
        BY <3>1
      <3> QED BY <2>2, <3>2 DEF Passes, QuietStep, Calmness, HeldBack
    <2>3. CASE scenario = "duplicate_delivery"
      <3>1. Len(answers) = 2
        BY <1>1, <1>2, <2>3, AsksBeforeStep
      <3>2. /\ answers # <<>> /\ Prompt /\ Plain /\ flaw = "none"
            /\ motions = before.motions + executions[First]
        BY <2>3, <3>1 DEF QuietStep, Quiet, Calmness, Still, Plain
      <3>3. /\ answers[1] = "success" /\ answers[2] = "success"
            /\ First \in DOMAIN results => executions[First] = 1
        BY <2>3, <3>1, <3>2 DEF QuietStep, Findings, AnsweredOnce, ExecutedOnce, Again
      <3>4. First \in DOMAIN results
        BY <2>3, <3>2 DEF QuietStep, Findings, Turned
      <3>5. /\ motions = before.motions + 1 /\ before.turns = before.motions
            /\ "timeout" \notin {answers[1], answers[2]}
        BY <3>2, <3>3, <3>4 DEF QuietStep, Calmness, Still
      <3>6. Moved = [motions |-> before.motions + 1, turns |-> before.turns + 1]
        BY <1>4, <3>5
      <3> QED BY <2>3, <3>3, <3>5, <3>6 DEF Passes
    <2>4. CASE scenario = "out_of_order"
      <3>1. Len(answers) = 2
        BY <1>1, <1>2, <2>4, AsksBeforeStep
      <3>2. answers # <<>>
        BY <3>1
      <3>3. answers[1] = "success" /\ answers[2] = "stale_sequence"
        BY <2>4, <3>1, <3>2 DEF QuietStep, Calmness, Swapped
      <3>4. answers = <<"success", "stale_sequence">>
        BY <1>1, <3>1, <3>3
      <3>5. Moved = before
        <4>1. motions = before.motions
          BY <1>1, <2>4 DEF QuietStep, Calmness, Still
        <4> QED BY <1>4, <1>5, <4>1
      <3> QED BY <2>4, <3>4, <3>5 DEF Passes
    <2> QED BY <1>1, <2>1, <2>2, <2>3, <2>4 DEF Scenarios
  <1> QED BY <1>1, <1>3 DEF Judges, EndWith

LEMMA LinkedNext ==
    ASSUME QuietStep
    PROVE  Linked'
  <1>0. /\ Linked /\ Switches /\ Control /\ place \in Places /\ scenario \in Scenarios
        /\ online \in BOOLEAN /\ loopStopped \in BOOLEAN /\ exhausted \in BOOLEAN
        /\ at \in Nat /\ at >= 1
    BY DEF QuietStep, Calmness, Control, RunTyped, LinkTyped, Progress
  <1> USE DEF Linked, linkVars, serviceVars, Places, Undecided
  <1>1. CASE Disconnects
    <2>1. scenario = "device_disconnect" /\ at = 1 /\ verdict = "none"
      BY <1>0, <1>1, InScript, CallAt DEF Disconnects, Running, Control, Progress
    <2>2. /\ place' = "running" /\ at' = 2 /\ loopStopped' = TRUE /\ loop' = "off"
          /\ UNCHANGED <<run, scenario, verdict, exhausted>>
      BY <1>1, <2>1 DEF Disconnects, DisconnectForFault, StepOn
    <2> QED BY <1>0, <2>1, <2>2
  <1>2. CASE Suppresses
    <2>1. scenario = "response_timeout" /\ ~loopStopped /\ place = "running"
      BY <1>0, <1>2, InScript, CallAt DEF Suppresses, Running, Switches
    <2>2. /\ place' = "running" /\ UNCHANGED <<scenario, verdict, exhausted, loopStopped, loop, online>>
      BY <1>2 DEF Suppresses, SuppressNextObservation, StepOn
    <2> QED BY <1>0, <2>1, <2>2
  <1>3. CASE Restores
    <2>1. scenario = "device_disconnect" /\ at = 3 /\ place = "running"
      BY <1>0, <1>3, InScript, CallAt DEF Restores, Running
    <2>2. loopStopped /\ ~online
      BY <1>0, <2>1 DEF Switches
    <2>3. /\ place' = "restoring" /\ loop' = "trying" /\ loopStopped' = FALSE
          /\ UNCHANGED <<scenario, at, verdict, exhausted, online>>
      BY <1>3, <2>2 DEF Restores, RestoreAfterFault, GoTo
    <2> QED BY <1>0, <2>1, <2>3
  <1>4. CASE Restored
    BY <1>0, <1>4 DEF Restored, GoTo, Switches
  <1>5. CASE RestoreTimesOut \/ CleanupFails
    BY <1>5, QuietWaits DEF RestoreTimesOut, CleanupFails
  <1>6. CASE ChecksRestored
    <2>1. at = 3 /\ online /\ ~loopStopped /\ verdict = "none" /\ scenario = "device_disconnect"
      BY <1>0, <1>6 DEF ChecksRestored, Control, Progress, Switches
    <2>2. /\ place' = "running" /\ at' = 4
          /\ UNCHANGED <<scenario, verdict, exhausted, loopStopped, loop, online>>
      BY <1>6, <2>1 DEF ChecksRestored, StepOn
    <2> QED BY <1>0, <2>1, <2>2
  <1>7. CASE Requests
    <2>1. scenario = "device_disconnect" => at \in {2, 4}
      BY <1>0, <1>7, InScript, CallAt DEF Requests, Running
    <2>2. /\ place = "running" /\ place' = "waiting"
          /\ UNCHANGED <<scenario, at, verdict, exhausted, loopStopped, loop, online>>
      BY <1>7 DEF Requests, Running, GoTo
    <2>3. loopStopped => at = 2
      BY <1>0, <2>1, <2>2 DEF Switches
    <2> QED BY <1>0, <2>2, <2>3
  <1>8. CASE Answered
    <2>1. ~loopStopped
      BY <1>0, <1>8, QuietAnswered DEF Switches, Answered
    <2>2. /\ place = "waiting" /\ place' = "running" /\ at' = at + 1
          /\ UNCHANGED <<scenario, verdict, exhausted, loopStopped, loop, online>>
      BY <1>8, QuietAnswered DEF Answered, StepOn
    <2>3. scenario = "device_disconnect" => at = 4
      BY <1>8, QuietAnswered
    <2> QED BY <1>0, <2>1, <2>2, <2>3
  <1>10. CASE TimesOut
    <2>1. at = 2 /\ place = "waiting" /\ place' = "running" /\ at' = 3
          /\ UNCHANGED <<scenario, verdict, exhausted, loopStopped, loop, online>>
      BY <1>10, QuietTimesOut DEF TimesOut, StepOn
    <2> QED BY <1>0, <2>1
  <1>11. CASE Judges
    <2>1. place = "running" /\ place' = "cleanup" /\ verdict' = "passed" /\ at = Len(Calls) + 1
          /\ UNCHANGED <<scenario, at, exhausted, loopStopped, loop, online, Calls>>
      BY <1>11, QuietJudges DEF Judges, EndWith, Calls
    <2>2. at \notin {2, 3} \/ ~loopStopped
      <3>1. loopStopped => Len(Calls) = 4
        BY <1>0, CallsOfScenario DEF Switches
      <3> QED BY <1>0, <2>1, <3>1
    <2> QED BY <1>0, <2>1, <2>2
  <1>12. CASE CleansUp
    BY <1>0, <1>12 DEF CleansUp, ClearFaultInjection, GoTo, Calls
  <1>13. CASE Mends
    <2>1. online /\ ~loopStopped /\ place = "mending"
      BY <1>0, <1>13 DEF Mends
    <2>2. /\ place' = "over"
          /\ UNCHANGED <<scenario, at, verdict, exhausted, loopStopped, loop, online, Calls>>
      BY <1>13, <2>1 DEF Mends, RestoreAfterFault, GoTo, Calls
    <2> QED BY <1>0, <2>1, <2>2
  <1>14. CASE Recovers
    BY <1>0, <1>14 DEF Recovers, GoTo, Switches, Calls
  <1>15. CASE Starts
    <2>1. /\ place' = "starting" /\ exhausted' = FALSE /\ loop' = "trying" /\ loopStopped' = FALSE
          /\ UNCHANGED <<scenario, at, verdict, online>>
      BY <1>15 DEF Starts, StartService, GoTo
    <2> QED BY <1>0, <2>1
  <1>16. CASE Begins
    <2>1. /\ place' = "running" /\ online /\ at = 1 /\ place = "starting"
          /\ UNCHANGED <<scenario, at, verdict, exhausted, loopStopped, loop, online>>
      BY <1>0, <1>16 DEF Begins, Control, Progress
    <2> QED BY <1>0, <2>1 DEF Switches
  <1>17. CASE BeginsAgain
    <2>1. /\ place' = "running" /\ online /\ at' = 1 /\ place = "over" /\ verdict' = "none"
          /\ UNCHANGED <<exhausted, loopStopped, loop, online>>
      BY <1>0, <1>17 DEF BeginsAgain
    <2> QED BY <1>0, <2>1 DEF Switches
  <1>18. CASE Stops
    <2>1. /\ place' = "stopped" /\ loop' = "off" /\ loopStopped' = FALSE /\ place = "over"
          /\ UNCHANGED <<scenario, at, verdict, exhausted, Calls>>
      BY <1>18 DEF Stops, StopService, GoTo, Calls
    <2> QED BY <1>0, <2>1
  <1>19. CASE DeliversCommand \/ Tick
    <2>1. UNCHANGED <<scenario, at, place, verdict, exhausted, loopStopped, loop, online, Calls>>
      BY <1>0, <1>19, DeviceActs, DeviceLinks, RunAtRest DEF Control, runVars, Calls
    <2> QED BY <1>0, <2>1
  <1>20. CASE DropsCommand
    <2>1. UNCHANGED <<scenario, at, place, verdict, exhausted, loopStopped, loop, online, Calls>>
      BY <1>20 DEF DropsCommand, LosesACommand, runVars, serviceVars, linkVars, Calls
    <2> QED BY <1>0, <2>1
  <1>21. CASE ServiceThread
    <2>1. UNCHANGED <<scenario, at, place, verdict, Calls>>
      BY <1>21 DEF ServiceThread, runVars, Calls
    <2>2. CASE ServiceConnects
      BY <1>0, <2>1, <2>2 DEF ServiceConnects
    <2>3. CASE ServiceSubscribes
      BY <1>0, <2>1, <2>3 DEF ServiceSubscribes
    <2> QED BY <1>21, <2>2, <2>3, QuietCalm
  <1> QED BY <1>1, <1>2, <1>3, <1>4, <1>5, <1>6, <1>7, <1>8, <1>10, <1>11, <1>12, <1>13,
             <1>14, <1>15, <1>16, <1>17, <1>18, <1>19, <1>20, <1>21, QuietCalm
          DEF QuietStep, Next, Run

\* What the device is asked outside the second scenario is no motion.
LEMMA AskedQuery ==
    ASSUME Control, place = "waiting", scenario # "duplicate_delivery"
    PROVE  ~IsMotion(Asked)
  <1>1. scenario \in Scenarios /\ at \in 1 .. Len(Calls) /\ Call.do = "ask"
    BY InScript DEF Control, Progress
  <1>2. Call.tool = "get_robot_state"
    BY <1>1, CallAt, CallKinds
  <1> QED BY <1>2 DEF IsMotion, Asked, Command

\* The steps that a device without disturbance leaves.
LEMMA QuietSteps ==
    ASSUME QuietStep
    PROVE  \/ BeginsAgain
           \/ Answered
           \/ TimesOut
           \/ (Run \/ Starts \/ Begins \/ Stops) /\ ~Answered /\ ~TimesOut
           \/ DeliversCommand
           \/ /\ Tick /\ UNCHANGED runVars
              /\ scenario = "duplicate_delivery" /\ place = "waiting"
              /\ First \in DOMAIN pending /\ (StartsMotion(First) \/ CompletesMotion(First))
           \/ /\ (DropsCommand /\ ~online) \/ ServiceThread
              /\ commands' \subseteq commands
              /\ UNCHANGED <<runVars, deviceVars, observations, swallowed, suppressNext>>
  <1>1. CASE Tick
    <2>1. PICK k \in DOMAIN pending : StartsMotion(k) \/ CompletesMotion(k)
      BY <1>1 DEF Tick
    <2>2. k = First /\ scenario = "duplicate_delivery" /\ place = "waiting"
      BY DEF QuietStep, Calmness, Still
    <2> QED BY <1>1, <2>1, <2>2, RunAtRest
  <1>2. CASE DropsCommand
    BY <1>2 DEF DropsCommand, LosesACommand, serviceVars, publishVars
  <1>3. CASE ServiceThread
    BY <1>3, QuietCalm
    DEF ServiceThread, ServiceConnects, ServiceSubscribes, publishVars
  <1> QED BY <1>1, <1>2, <1>3, QuietCalm DEF QuietStep, Next, Run

LEMMA StillNext ==
    ASSUME QuietStep
    PROVE  Still'
  <1>0. /\ Still /\ Control /\ Next /\ First \in Keys
        /\ executions \in [Keys -> Nat] /\ motions \in Nat
        /\ before.motions \in Nat /\ before.turns \in Int
        /\ moving = {} \/ \E k \in DOMAIN pending : moving = {k}
        /\ answers \in Seq(Codes \cup {"timeout"}) /\ run \in Tasks \ {0}
    BY FirstIsKey DEF QuietStep, Calmness, Control, RunTyped, DeviceTyped
  <1>1. (\A c \in commands : c.command.task # 0)'
    <2>1. CASE commands' \subseteq commands
      BY <1>0, <2>1 DEF Still
    <2>2. CASE Requests
      BY <1>0, <2>2 DEF Still, Requests, Asked, Command
    <2> QED BY <1>0, <2>1, <2>2, NewCommands, QuietCalm
  <1>2. CASE BeginsAgain
    <2>1. /\ place = "over" /\ before' = Moved /\ answers' = <<>> /\ repeated' = {}
          /\ UNCHANGED <<motions, pending, executions>>
      BY <1>2 DEF BeginsAgain, deviceVars
    <2>2. DOMAIN pending = {} /\ DOMAIN pending' = {}
      BY <1>0, <2>1 DEF Still
    <2>3. (executions[First])' = 0
      BY <1>2, BeginsAgainIdle DEF QuietStep, Findings
    <2>4. before'.motions = motions /\ before'.turns = motions
      BY <1>0, <2>1, <2>2 DEF Moved
    <2> QED BY <1>0, <1>1, <2>1, <2>2, <2>3, <2>4 DEF Still, Prompt
  <1>3. CASE ~BeginsAgain
    <2>0. UNCHANGED <<run, scenario, First>> /\ repeated' = {} /\ repeated = {}
      BY <1>0, <1>3, GoesForward, QuietCalm DEF First, Still
    <2>1. CASE Answered
      <3>1. PICK o \in observations : answers' = Append(answers, o.code)
        BY <2>1 DEF Answered
      <3>2. o.code \in Codes /\ o.code # "timeout"
        BY <1>0 DEF Control, DeviceTyped, Observations, Codes
      <3>3. UNCHANGED <<motions, pending, executions, before>>
        BY <2>1 DEF Answered, StepOn, EndWith, deviceVars
      <3>4. scenario = "duplicate_delivery" => First \notin DOMAIN pending
        BY <2>1, <3>3, <2>0, AnsweredIdle DEF QuietStep, Calmness, Still, Findings, Idle, Plain
      <3>5. DOMAIN pending = {}
        BY <1>0, <3>4 DEF Still
      <3>6. Prompt => Prompt'
        BY <1>0, <3>1, <3>2 DEF Prompt
      <3> QED BY <1>0, <1>1, <2>0, <3>3, <3>5, <3>6 DEF Still
    <2>2. CASE TimesOut
      <3>1. scenario # "duplicate_delivery" /\ UNCHANGED <<motions, pending, executions, before>>
        BY <2>2, QuietTimesOut DEF TimesOut, StepOn, deviceVars
      <3> QED BY <1>0, <1>1, <2>0, <3>1 DEF Still
    <2>3. CASE (Run \/ Starts \/ Begins \/ Stops) /\ ~Answered /\ ~TimesOut
      <3>1. place # "waiting" /\ UNCHANGED <<answers, motions, pending, executions>>
        BY <2>3, ScriptSteps DEF deviceVars
      <3>2. DOMAIN pending = {}
        BY <1>0, <3>1 DEF Still
      <3>3. motions' = before'.motions + executions'[First] /\ before'.turns = before'.motions
        <4>1. CASE Begins
          <5>1. executions[First] = 0
            BY <4>1 DEF Begins, QuietStep, Findings, Fresh, Begun, Unseen, First
          <5>2. before'.motions = motions /\ before'.turns = motions
            BY <1>0, <3>2, <4>1 DEF Begins, Moved
          <5> QED BY <1>0, <3>1, <5>1, <5>2
        <4>2. CASE ~Begins
          <5>1. before' = before
            BY <2>3, <4>2
            DEF Run, Disconnects, Suppresses, Restores, Restored, RestoreTimesOut,
                ChecksRestored, Requests, RequestFails, Judges, CleansUp, Mends, Recovers,
                CleanupFails, Starts, Stops, GoTo, StepOn, EndWith
          <5> QED BY <1>0, <3>1, <5>1 DEF Still
        <4> QED BY <4>1, <4>2
      <3> QED BY <1>0, <1>1, <2>0, <3>1, <3>2, <3>3 DEF Still, Prompt
    <2>4. CASE DeliversCommand
      <3>1. /\ place = "waiting" /\ UNCHANGED runVars
            /\ Submits(Asked) /\ Asked \in Commands
        BY <2>4, QuietDelivery
      <3>2. /\ UNCHANGED <<motions, executions>>
            /\ \A k \in Keys : k # KeyOf(Asked) => Untouched(k)
        BY <1>0, <3>1, Submitted DEF Control
      <3>3. ASSUME NEW k \in DOMAIN pending'
            PROVE  k = First /\ scenario = "duplicate_delivery"
        <4>1. CASE scenario = "duplicate_delivery"
          <5>1. k \in Keys
            BY <1>0, <2>4, <3>1, SubmitsTyped DEF Control, DeviceTyped
          <5>2. KeyOf(Asked) = First
            BY <1>0, <3>1, <4>1, AskedKey
          <5> QED BY <1>0, <3>2, <4>1, <5>1, <5>2 DEF Still, Untouched
        <4>2. CASE scenario # "duplicate_delivery"
          <5>1. DOMAIN pending = {} /\ ~IsMotion(Asked)
            BY <1>0, <3>1, <4>2, AskedQuery DEF Still
          <5>2. pending' = pending
            BY <3>1, <5>1 DEF Submits, ReplaysAnswer, JoinsPending, RejectsStale,
                              AnswersQuery, QueuesMotion, AnswersAtOnce, deviceVars
          <5> QED BY <5>1, <5>2
        <4> QED BY <4>1, <4>2
      <3> QED BY <1>0, <1>1, <2>0, <3>1, <3>2, <3>3 DEF Still, Prompt, runVars
    <2>5. CASE /\ Tick /\ UNCHANGED runVars
               /\ scenario = "duplicate_delivery" /\ place = "waiting"
               /\ First \in DOMAIN pending /\ (StartsMotion(First) \/ CompletesMotion(First))
      <3>1. CASE StartsMotion(First)
        <4>1. /\ motions' = motions + 1 /\ executions'[First] = executions[First] + 1
              /\ pending' = pending /\ executions[First] \in Nat
          BY <1>0, <2>5, <3>1, Started DEF Control
        <4> QED BY <1>0, <1>1, <2>0, <2>5, <4>1 DEF Still, Prompt, runVars
      <3>2. CASE CompletesMotion(First)
        <4>1. UNCHANGED <<motions, executions>> /\ DOMAIN pending' \subseteq DOMAIN pending
          BY <1>0, <2>5, <3>2, Completed DEF Control, CompletesMotion
        <4> QED BY <1>0, <1>1, <2>0, <2>5, <4>1 DEF Still, Prompt, runVars
      <3> QED BY <2>5, <3>1, <3>2
    <2>6. CASE /\ (DropsCommand /\ ~online) \/ ServiceThread
               /\ commands' \subseteq commands
               /\ UNCHANGED <<runVars, deviceVars, observations, swallowed, suppressNext>>
      BY <1>0, <1>1, <2>0, <2>6 DEF Still, Prompt, runVars, deviceVars
    <2> QED BY <1>3, <2>1, <2>2, <2>3, <2>4, <2>5, <2>6, QuietSteps
  <1> QED BY <1>2, <1>3

\* The steps of the script between its requests and their answers.
LEMMA QuietScript ==
    ASSUME QuietStep, Run \/ Starts \/ Begins \/ Stops, ~Answered, ~TimesOut
    PROVE  /\ Underway /\ Underway' /\ at' >= at
           /\ UNCHANGED <<run, scenario, answers, deviceVars, observations, swallowed>>
           /\ scenario \in {"duplicate_delivery", "out_of_order"} => at' = at
           /\ scenario = "response_timeout" =>
                  \/ at' = at /\ suppressNext' = suppressNext
                  \/ suppressNext' = TRUE
                  \/ at = 3
  <1>0. Control /\ scenario \in Scenarios
    BY DEF QuietStep, Control, RunTyped
  <1>1. /\ place # "waiting"
        /\ UNCHANGED <<run, scenario, answers, deviceVars, observations, swallowed>>
        /\ (commands' = commands /\ place' # "waiting") \/ Requests
    BY ScriptSteps
  <1>2. ~BeginsAgain
    <2>1. CASE BeginsAgain
      BY <1>1, <2>1, FirstIsKey DEF BeginsAgain, QuietStep
    <2> QED BY <2>1
  <1>3. at' >= at
    BY <1>2, GoesForward DEF QuietStep
  <1>4. Underway'
    <2>1. CASE Requests
      <3>1. /\ commands' = commands \cup {[command |-> Asked, step |-> at]}
            /\ UNCHANGED <<run, scenario, at>> /\ place' = "waiting"
        BY <2>1 DEF Requests, GoTo
      <3>2. Asked' = Asked
        BY <3>1 DEF Asked, Call, Calls
      <3>3. PICK c \in commands' : c = [command |-> Asked, step |-> at]
        BY <3>1
      <3>4. c.command = Asked /\ c.step = at
        BY <3>3
      <3> QED BY <3>1, <3>2, <3>4 DEF Underway, IsAwaited
    <2> QED BY <1>1, <2>1 DEF Underway
  <1>5. Disconnects => scenario = "device_disconnect"
    BY <1>0, InScript, CallAt DEF Disconnects, Running
  <1>6. Suppresses => scenario = "response_timeout" /\ suppressNext' = TRUE
    BY <1>0, InScript, CallAt DEF Suppresses, Running, SuppressNextObservation
  <1>7. ChecksRestored => scenario = "device_disconnect"
    BY <1>0 DEF ChecksRestored, Control, Progress
  <1>8. ~Disconnects /\ ~Suppresses /\ ~ChecksRestored => at' = at
    BY DEF Run, Restores, Restored, RestoreTimesOut, Requests, RequestFails, Judges, CleansUp,
           Mends, Recovers, CleanupFails, Starts, Begins, Stops, GoTo, EndWith
  <1>9. scenario = "response_timeout" /\ place \notin Undecided => at = 3
    <2>1. SUFFICES ASSUME scenario = "response_timeout", place \notin Undecided
                   PROVE  at = 3
      OBVIOUS
    <2>2. Len(Calls) = 2
      BY <1>0, <2>1, CallsOfScenario
    <2> QED BY <2>1, <2>2 DEF QuietStep, Calmness, Linked
  <1>10. CleansUp \/ Stops => place \notin Undecided
    BY DEF CleansUp, Stops, Undecided
  <1>11. ~Suppresses /\ ~CleansUp /\ ~Stops => suppressNext' = suppressNext
    BY DEF Run, Disconnects, Restores, Restored, RestoreTimesOut, ChecksRestored, Requests,
           RequestFails, Judges, Mends, Recovers, CleanupFails, Starts, Begins,
           DisconnectForFault, RestoreAfterFault, StartService, serviceVars, publishVars
  <1> QED BY <1>1, <1>3, <1>4, <1>5, <1>6, <1>7, <1>8, <1>9, <1>10, <1>11 DEF Underway

\* What becomes of a request of which the device has heard nothing.
LEMMA QuietQuery ==
    ASSUME QuietStep, DeliversCommand, scenario # "duplicate_delivery",
           KeyOf(Asked) \notin DOMAIN results
    PROVE  /\ AnswersAtOnce(Asked, IF Asked.seq < latest[run] THEN "stale_sequence"
                                                              ELSE "success")
           /\ DOMAIN results' = DOMAIN results \cup {KeyOf(Asked)}
           /\ KeyOf(Asked) = <<run, Asked.seq>>
           /\ latest'[run] = IF Asked.seq > latest[run] THEN Asked.seq ELSE latest[run]
           /\ \A o \in observations' \ observations :
                  /\ o.key = KeyOf(Asked)
                  /\ o.code = IF Asked.seq < latest[run] THEN "stale_sequence" ELSE "success"
                  /\ ~suppressNext
  <1>1. place = "waiting" /\ Submits(Asked) /\ Asked \in Commands /\ Control
    BY QuietDelivery DEF QuietStep
  <1>2. /\ Asked.task = run /\ run \in Tasks /\ KeyOf(Asked) = <<run, Asked.seq>>
        /\ latest \in [Tasks -> 0 .. 2] /\ suppressNext \in BOOLEAN
    BY <1>1, FirstIsKey DEF Asked, Command, KeyOf, Control, DeviceTyped, LinkTyped
  <1>3. ~IsMotion(Asked) /\ DOMAIN pending = {} /\ flaw = "none"
    BY <1>1, AskedQuery DEF QuietStep, Quiet, Calmness, Still
  <1>4. IsStale(Asked) <=> Asked.seq < latest[run]
    BY <1>2, <1>3 DEF IsStale
  <1>5. AnswersAtOnce(Asked, IF Asked.seq < latest[run] THEN "stale_sequence" ELSE "success")
    BY <1>1, <1>3, <1>4 DEF Submits, ReplaysAnswer, Remembers, JoinsPending, RejectsStale,
                            AnswersQuery, QueuesMotion
  <1>6. DOMAIN results' = DOMAIN results \cup {KeyOf(Asked)}
    BY <1>5 DEF AnswersAtOnce, With
  <1>7. latest'[run] = IF Asked.seq > latest[run] THEN Asked.seq ELSE latest[run]
    BY <1>2, <1>5 DEF AnswersAtOnce
  <1>8. \A o \in observations' \ observations :
            /\ o.key = KeyOf(Asked)
            /\ o.code = IF Asked.seq < latest[run] THEN "stale_sequence" ELSE "success"
            /\ ~suppressNext
    BY <1>2, <1>5 DEF AnswersAtOnce, PublishObservation
  <1> QED BY <1>2, <1>5, <1>6, <1>7, <1>8

\* A new run finds no trace of itself.
LEMMA QuietBegins ==
    ASSUME QuietStep, BeginsAgain
    PROVE  /\ Unseen(run)' /\ Underway' /\ at' = 1 /\ answers' = <<>>
           /\ (First \notin DOMAIN results)'
           /\ (\A o \in observations : o.key # First /\ o.key # Second)'
  <1>1. /\ run' = run + 1 /\ run + 1 \in Tasks /\ run + 1 > run
        /\ at' = 1 /\ answers' = <<>> /\ place' = "running"
    BY FirstIsKey, ScenariosAssumption
    DEF QuietStep, BeginsAgain, Control, RunTyped, Tasks
  <1>2. Unseen(run + 1) /\ Unsent(run + 1)
    BY <1>1 DEF QuietStep, Findings, Fresh
  <1>3. PICK t \in Tasks : t = run + 1
    BY <1>1
  <1>4. Unseen(run)'
    <2>1. Unseen(t)'
      BY <1>2, <1>3, UnseenKept DEF QuietStep
    <2> QED BY <1>1, <1>3, <2>1 DEF Unseen
  <1>5. 1 \in 1 .. 2
    OBVIOUS
  <1>6. (First \notin DOMAIN results)'
    <2>1. <<run', 1>> \notin DOMAIN results'
      BY <1>4, <1>5 DEF Unseen
    <2> QED BY <2>1 DEF First
  <1>7. (\A o \in observations : o.key # First /\ o.key # Second)'
    <2>1. \A o \in observations' : o.key[1] # run'
      BY <1>4 DEF Unseen
    <2> QED BY <2>1 DEF First, Second
  <1> QED BY <1>1, <1>4, <1>6, <1>7 DEF Underway

\* Where nothing reaches the device, it hears nothing.
LEMMA QuietUnseen ==
    ASSUME UNCHANGED <<run, latest, results, pending, executions, swallowed>>,
           observations' \subseteq observations
    PROVE  Unseen(run) => Unseen(run)'
  BY DEF Unseen

\* A command that is not delivered is not awaited any more.
LEMMA UnderwayBefore ==
    ASSUME UNCHANGED runVars, commands' \subseteq commands
    PROVE  Underway' => Underway
  BY DEF Underway, IsAwaited, Asked, Call, Calls, runVars

LEMMA CutOffNext ==
    ASSUME QuietStep
    PROVE  CutOff'
  <1>0. CutOff /\ Linked /\ Switches /\ Control /\ Next /\ run \in Tasks /\ at \in Nat
    BY FirstIsKey DEF QuietStep, Calmness, Control, RunTyped
  <1>1. CASE BeginsAgain
    BY <1>1, QuietBegins DEF CutOff
  <1>2. CASE ~BeginsAgain
    <2> SUFFICES ASSUME scenario = "device_disconnect"
                 PROVE  CutOff'
      BY <1>0, <1>2, GoesForward DEF CutOff
    <2>0. UNCHANGED <<run, scenario>> /\ Second' = Second
      BY <1>0, <1>2, GoesForward DEF Second
    <2>1. CASE Answered
      <3>1. at' = 5 /\ Len(answers') = 2 /\ answers'[2] = "success"
        BY <2>1, QuietAnswered DEF StepOn
      <3>2. observations' \subseteq observations
        BY <2>1 DEF Answered
      <3> QED BY <1>0, <2>0, <3>1, <3>2 DEF CutOff
    <2>2. CASE TimesOut
      <3>1. at = 2 /\ at' = 3 /\ answers' = <<"timeout">>
        BY <2>2, QuietTimesOut DEF StepOn
      <3>2. UNCHANGED <<run, latest, results, pending, executions, swallowed, observations>>
        BY <2>0, <2>2 DEF TimesOut, deviceVars, serviceVars, publishVars
      <3>3. Unseen(run)'
        BY <1>0, <3>1, <3>2, QuietUnseen DEF CutOff
      <3>4. Len(answers') # 2
        BY <3>1
      <3> QED BY <1>0, <2>0, <3>2, <3>3, <3>4 DEF CutOff
    <2>3. CASE (Run \/ Starts \/ Begins \/ Stops) /\ ~Answered /\ ~TimesOut
      <3>1. /\ Underway /\ Underway' /\ at' >= at
            /\ UNCHANGED <<answers, latest, results, pending, executions, swallowed, observations>>
        BY <2>3, QuietScript DEF deviceVars
      <3>2. Unseen(run) => Unseen(run)'
        BY <2>0, <3>1, QuietUnseen
      <3>3. at' \in Nat
        BY <1>0, <1>2, GoesForward
      <3> QED BY <1>0, <2>0, <3>1, <3>2, <3>3 DEF CutOff
    <2>4. CASE DeliversCommand
      <3>1. /\ place = "waiting" /\ online /\ Underway /\ ~Underway' /\ UNCHANGED <<at, answers>>
        BY <2>4, QuietDelivery DEF runVars
      <3>2. at = 4 /\ KeyOf(Asked) = Second
        BY <1>0, <3>1, AskedKey DEF Linked, Switches
      <3>3. Unseen(run) /\ 2 \in 1 .. 2
        BY <1>0, <3>1, <3>2 DEF CutOff
      <3>4. Second \notin DOMAIN results /\ latest[run] = 0
        BY <3>3 DEF Unseen, Second
      <3>5. Asked.seq = 2
        BY <3>2 DEF KeyOf, Asked, Command, Second
      <3>6. \A o \in observations' \ observations : o.code = "success"
        BY <2>4, <3>2, <3>4, <3>5, QuietQuery
      <3> QED BY <1>0, <2>0, <3>1, <3>2, <3>6 DEF CutOff
    <2>5. CASE /\ (DropsCommand /\ ~online) \/ ServiceThread
               /\ commands' \subseteq commands
               /\ UNCHANGED <<runVars, deviceVars, observations, swallowed, suppressNext>>
      <3>1. Underway' => Underway
        BY <2>5, UnderwayBefore
      <3>2. Unseen(run) => Unseen(run)'
        BY <2>0, <2>5, QuietUnseen DEF deviceVars
      <3> QED BY <1>0, <2>0, <2>5, <3>1, <3>2 DEF CutOff, runVars
    <2> QED BY <1>2, <2>1, <2>2, <2>3, <2>4, <2>5, QuietSteps
  <1> QED BY <1>1, <1>2

LEMMA HeldBackNext ==
    ASSUME QuietStep
    PROVE  HeldBack'
  <1>0. HeldBack /\ Linked /\ Switches /\ Control /\ Next /\ run \in Tasks /\ at \in Nat
    BY FirstIsKey DEF QuietStep, Calmness, Control, RunTyped
  <1>1. CASE BeginsAgain
    BY <1>1, QuietBegins DEF HeldBack
  <1>2. CASE ~BeginsAgain
    <2> SUFFICES ASSUME scenario = "response_timeout"
                 PROVE  HeldBack'
      BY <1>0, <1>2, GoesForward DEF HeldBack
    <2>0. UNCHANGED <<run, scenario>> /\ First' = First
      BY <1>0, <1>2, GoesForward DEF First
    <2>1. CASE Answered
      BY <2>1, QuietAnswered
    <2>2. CASE TimesOut
      <3>1. at' = 3 /\ answers' = <<"timeout">> /\ answers'[1] = "timeout"
        BY <2>2, QuietTimesOut DEF StepOn
      <3>2. observations' = observations
        BY <2>2 DEF TimesOut, serviceVars, publishVars
      <3> QED BY <1>0, <2>0, <3>1, <3>2 DEF HeldBack
    <2>3. CASE (Run \/ Starts \/ Begins \/ Stops) /\ ~Answered /\ ~TimesOut
      <3>1. /\ Underway /\ Underway' /\ at' >= at
            /\ UNCHANGED <<answers, latest, results, pending, executions, swallowed, observations>>
            /\ \/ at' = at /\ suppressNext' = suppressNext
               \/ suppressNext' = TRUE
               \/ at = 3
        BY <2>3, QuietScript DEF deviceVars
      <3>2. Unseen(run) => Unseen(run)'
        BY <2>0, <3>1, QuietUnseen
      <3>3. at' \in Nat /\ at >= 1
        BY <1>0, <1>2, GoesForward, CallsOfScenario DEF Control, Progress
      <3>4. at' \in {1, 2} => at \in {1, 2}
        BY <1>0, <3>1, <3>3
      <3>5. at' = 2 => suppressNext'
        BY <1>0, <3>1, <3>3 DEF HeldBack
      <3> QED BY <1>0, <2>0, <3>1, <3>2, <3>4, <3>5 DEF HeldBack
    <2>4. CASE DeliversCommand
      <3>1. /\ place = "waiting" /\ Underway /\ ~Underway' /\ UNCHANGED <<at, answers>>
        BY <2>4, QuietDelivery DEF runVars
      <3>2. at = 2 /\ KeyOf(Asked) = First
        BY <1>0, <3>1, AskedKey
      <3>3. Unseen(run) /\ suppressNext /\ 1 \in 1 .. 2
        BY <1>0, <3>1, <3>2 DEF HeldBack
      <3>4. First \notin DOMAIN results
        BY <3>3 DEF Unseen, First
      <3>5. \A o \in observations' : o \in observations
        BY <2>4, <3>2, <3>3, <3>4, QuietQuery
      <3> QED BY <1>0, <2>0, <3>1, <3>2, <3>5 DEF HeldBack
    <2>5. CASE /\ (DropsCommand /\ ~online) \/ ServiceThread
               /\ commands' \subseteq commands
               /\ UNCHANGED <<runVars, deviceVars, observations, swallowed, suppressNext>>
      <3>1. Underway' => Underway
        BY <2>5, UnderwayBefore
      <3>2. Unseen(run) => Unseen(run)'
        BY <2>0, <2>5, QuietUnseen DEF deviceVars
      <3> QED BY <1>0, <2>0, <2>5, <3>1, <3>2 DEF HeldBack, runVars
    <2> QED BY <1>2, <2>1, <2>2, <2>3, <2>4, <2>5, QuietSteps
  <1> QED BY <1>1, <1>2

LEMMA SwappedNext ==
    ASSUME QuietStep
    PROVE  Swapped'
  <1>0. /\ Swapped /\ Linked /\ Switches /\ Control /\ Next /\ run \in Tasks /\ at \in Nat
        /\ First # Second
    BY FirstIsKey DEF QuietStep, Calmness, Control, RunTyped, First, Second
  <1>1. CASE BeginsAgain
    <2>1. (at = 1 /\ Underway /\ Unseen(run) /\ answers = <<>> /\ First \notin DOMAIN results)'
      BY <1>1, QuietBegins
    <2>2. Len(answers') # 2
      BY <2>1
    <2>3. (\A o \in observations : o.key # First /\ o.key # Second)'
      BY <1>1, QuietBegins
    <2> QED BY <2>1, <2>2, <2>3 DEF Swapped
  <1>2. CASE ~BeginsAgain
    <2> SUFFICES ASSUME scenario = "out_of_order"
                 PROVE  Swapped'
      BY <1>0, <1>2, GoesForward DEF Swapped
    <2>0. UNCHANGED <<run, scenario>> /\ First' = First /\ Second' = Second
      BY <1>0, <1>2, GoesForward DEF First, Second
    <2>1. CASE Answered
      <3>1. /\ at' = at + 1 /\ place' = "running"
            /\ UNCHANGED <<latest, results>> /\ observations' \subseteq observations
        BY <2>1, QuietAnswered DEF Answered, StepOn, deviceVars
      <3>2. Underway'
        BY <3>1 DEF Underway
      <3>3. CASE at = 1 /\ answers' = <<"success">> /\ latest[run] = 2
        <4>1. Len(answers') # 2 /\ answers'[1] = "success"
          BY <3>3
        <4>2. at' = 2 /\ First \notin DOMAIN results'
          BY <1>0, <3>1, <3>3 DEF Swapped
        <4> QED BY <1>0, <2>0, <3>1, <3>3, <4>1, <4>2 DEF Swapped
      <3>4. CASE /\ at = 2 /\ Len(answers) = 1 /\ Len(answers') = 2
                 /\ answers'[1] = answers[1] /\ answers'[2] = "stale_sequence"
        <4>1. answers # <<>> /\ at' = 3
          BY <3>1, <3>4
        <4> QED BY <1>0, <2>0, <3>1, <3>4, <4>1 DEF Swapped
      <3> QED BY <2>1, <3>3, <3>4, QuietAnswered
    <2>2. CASE TimesOut
      BY <2>2, QuietTimesOut
    <2>3. CASE (Run \/ Starts \/ Begins \/ Stops) /\ ~Answered /\ ~TimesOut
      <3>1. /\ Underway /\ Underway' /\ at' = at
            /\ UNCHANGED <<answers, latest, results, pending, executions, swallowed, observations>>
        BY <2>3, QuietScript DEF deviceVars
      <3>2. Unseen(run) => Unseen(run)'
        BY <2>0, <3>1, QuietUnseen
      <3> QED BY <1>0, <2>0, <3>1, <3>2 DEF Swapped
    <2>4. CASE DeliversCommand
      <3>1. /\ place = "waiting" /\ Underway /\ ~Underway' /\ UNCHANGED <<at, answers>>
        BY <2>4, QuietDelivery DEF runVars
      <3>2. CASE at = 1
        <4>1. KeyOf(Asked) = Second /\ Asked.seq = 2
          BY <1>0, <3>1, <3>2, AskedKey DEF KeyOf, Asked, Command, Second
        <4>2. Unseen(run) /\ 2 \in 1 .. 2
          BY <1>0, <3>1, <3>2 DEF Swapped
        <4>3. Second \notin DOMAIN results /\ latest[run] = 0
          BY <4>2 DEF Unseen, Second
        <4>4. /\ DOMAIN results' = DOMAIN results \cup {Second} /\ latest'[run] = 2
              /\ \A o \in observations' \ observations : o.key = Second /\ o.code = "success"
          BY <2>4, <4>1, <4>3, QuietQuery
        <4> QED BY <1>0, <2>0, <3>1, <3>2, <4>4 DEF Swapped
      <3>3. CASE at = 2
        <4>1. KeyOf(Asked) = First /\ Asked.seq = 1
          BY <1>0, <3>1, <3>3, AskedKey DEF KeyOf, Asked, Command, First
        <4>2. First \notin DOMAIN results /\ latest[run] = 2
          BY <1>0, <3>1, <3>3 DEF Swapped
        <4>3. /\ latest'[run] = 2
              /\ \A o \in observations' \ observations :
                     o.key = First /\ o.code = "stale_sequence"
          BY <2>4, <4>1, <4>2, QuietQuery
        <4> QED BY <1>0, <2>0, <3>1, <3>3, <4>3 DEF Swapped
      <3> QED BY <1>0, <3>1, <3>2, <3>3, AskedKey
    <2>5. CASE /\ (DropsCommand /\ ~online) \/ ServiceThread
               /\ commands' \subseteq commands
               /\ UNCHANGED <<runVars, deviceVars, observations, swallowed, suppressNext>>
      <3>1. UNCHANGED <<place, at, answers, latest, results>>
        BY <2>5 DEF runVars, deviceVars
      <3>2. Underway' <=> Underway
        <4>1. CASE DropsCommand /\ ~online
          BY <1>0, <3>1, <4>1 DEF Linked, Switches, Underway
        <4>2. CASE ServiceThread
          BY <2>0, <2>5, <4>2 DEF ServiceThread, Underway, IsAwaited, Asked, Call, Calls, runVars
        <4> QED BY <2>5, <4>1, <4>2
      <3>3. Unseen(run) => Unseen(run)'
        BY <2>0, <2>5, QuietUnseen DEF deviceVars
      <3> QED BY <1>0, <2>0, <2>5, <3>1, <3>2, <3>3 DEF Swapped
    <2> QED BY <1>2, <2>1, <2>2, <2>3, <2>4, <2>5, QuietSteps
  <1> QED BY <1>1, <1>2

LEMMA CalmnessInit == Init => Spared /\ Calmness
  <1> SUFFICES ASSUME Init PROVE Spared /\ Calmness
    OBVIOUS
  <1>1. run \in Tasks /\ First \in Keys /\ Unseen(run)
    BY ControlInit, FirstIsKey DEF Init, ServiceInit, Unseen, Keys
  <1>2. Linked
    BY DEF Init, ServiceInit, Linked, Undecided
  <1>3. Still
    BY <1>1 DEF Init, Still, Prompt
  <1>4. CutOff /\ HeldBack /\ Swapped
    BY <1>1 DEF Init, ServiceInit, CutOff, HeldBack, Swapped, Underway
  <1>5. Spared
    BY DEF Init, ServiceInit, Spared
  <1> QED BY <1>2, <1>3, <1>4, <1>5 DEF Calmness

LEMMA CalmnessNext ==
    ASSUME Control, Findings, Spared, Quiet => Calmness, [Next]_vars
    PROVE  (Spared /\ (Quiet => Calmness))'
  <1>1. CASE Next
    <2>1. Quiet' => Quiet
      <3>1. disturbances \in Nat /\ disturbances' >= disturbances /\ UNCHANGED flaw
        BY <1>1, Disturbances, DeviceRemembers DEF Control, RunTyped
      <3> QED BY <3>1 DEF Quiet
    <2>2. Quiet' => QuietStep
      BY <1>1, <2>1 DEF QuietStep
    <2>3. Quiet' => Calmness'
      BY <2>2, LinkedNext, StillNext, CutOffNext, HeldBackNext, SwappedNext DEF Calmness
    <2> QED BY <1>1, <2>3, SparedNext DEF Findings
  <1>2. CASE UNCHANGED vars
    <2>1. UNCHANGED <<run, scenario, place, at, answers, before, verdict, commands, repeated,
                      flaw, results, latest, pending, motions, executions, disturbances,
                      serviceUp, online, loop, attempts, exhausted, loopStopped, suppressNext,
                      swallowed, observations>>
      BY <1>2 DEF vars, runVars, deviceVars, serviceVars, linkVars, publishVars
    <2>2. UNCHANGED <<First, Second, Calls, Asked>>
      BY <2>1 DEF First, Second, Calls, Asked, Call
    <2>3. (Prompt' <=> Prompt) /\ (Underway' <=> Underway) /\ (Unseen(run)' <=> Unseen(run))
      BY <2>1, <2>2 DEF Prompt, Underway, IsAwaited, Unseen
    <2>4. Linked => Linked'
      BY <2>1, <2>2 DEF Linked
    <2>5. Still => Still'
      BY <2>1, <2>2, <2>3 DEF Still
    <2>6. CutOff /\ HeldBack /\ Swapped => (CutOff /\ HeldBack /\ Swapped)'
      BY <2>1, <2>2, <2>3 DEF CutOff, HeldBack, Swapped
    <2>7. Spared' /\ (Quiet' => Quiet)
      BY <2>1, <2>2 DEF Spared, Quiet
    <2> QED BY <2>4, <2>5, <2>6, <2>7 DEF Calmness
  <1> QED BY <1>1, <1>2

\* A device without flaw that nothing disturbs: what it has heard and answered
\* at each step of each script.
THEOREM CalmInductive == Spec => [](Spared /\ (Quiet => Calmness))
  BY ControlInductive, FindingsInductive, CalmnessInit, CalmnessNext, PTL DEF Spec

\* No scenario fails when the device has no flaw and nothing disturbs it: what
\* the faults do themselves is never taken for the device's failure.
THEOREM NoFalseAlarmHolds == Spec => []NoFalseAlarm
  <1>1. Control /\ Spared /\ (Quiet => Calmness) => NoFalseAlarm
    BY DEF Control, RunTyped, Quiet, Calmness, Linked, NoFalseAlarm
  <1> QED BY <1>1, ControlInductive, CalmInductive, PTL

=============================================================================
