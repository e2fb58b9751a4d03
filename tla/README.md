# A TLA+ model of the quadruped simulation runtime

The repository runs a robot dog in simulation. A planner (a language model or a
deterministic stand-in) proposes tool calls, an agent loop turns them into
commands, MQTT carries the commands to a device and observations back, and a
fixed-tick engine moves the robot. A web console starts missions and faults,
shows frames and replays runs. C firmware holds a second implementation of the
device side. This directory models the parts of that system in which threads,
messages and deadlines meet, and the planner and the world behind them, checks
them with TLC, and proves the invariants of most with TLAPS.

## Inventory

| Component | State it keeps | Operations | What is hard | What makes it correct |
| --- | --- | --- | --- | --- |
| `simulation/adapter.py` SimulationAdapter | pending table, result cache, latest sequence numbers, two queues, cancellation sets, active key, emergency latch | `submit_payload`, `cancel_task`, `before_tick`, `after_tick`, `cancel_all`, `update_frame` | the MQTT thread and the tick thread share it; the tick holds the lock only for short sections | every command is answered once, a key moves the robot at most once, an emergency stop stops it and keeps it stopped |
| `simulation/engine.py` SimulationEngine | action in progress, completion, pause flag, robot flags | `submit_action`, `cancel_action`, `advance`, `pause`, `resume`, `reset` | its caller must keep its own view of the action in step | one action at a time, no motion while stopped |
| `simulation/runtime.py` SimulationRuntime | the tick task, frame and event subscribers | `tick_once`, `pause`, `resume`, `reset`, `publish`, HTTP and websocket handlers | handlers run between ticks, subscribers can be slow | controls never see half a tick; a subscriber sees events without a gap |
| `simulation/run_gate.py` RuntimeRunGate | the active lease | `acquire`, `release` | shared by two coordinators | at most one run |
| `simulation/mission.py` MissionTaskCoordinator | current snapshot and its events, active task, cancellation event, lease | `submit`, `cancel_current`, worker `_run`, `_emit` | the API thread races the worker at the end of a run | one final event, an accepted cancellation shows in it, the gate is given back after completion |
| `simulation/faults.py` FaultCoordinator, MqttFaultRunner | current snapshot and evidence, lease | `submit`, worker `_run`, four scenarios, cleanup | bounded journal, cleanup may fail, one-shot fault switches | a final entry always fits, faults are undone |
| `simulation/replay.py` ReplayRecorder | current capture, last bundle, state | `on_frame`, `on_mission_event`, `on_fault_started`, `complete_*` | called by three threads | a bundle belongs to one run, starts with a start and ends with a terminal frame |
| `simulation/mission_runner.py` | none | runs AgentGraph, turns its callbacks into events | transport failures at any point | exactly one final event |
| `agent_graph.py` AgentGraph | state of one run | planner, execute and decide nodes | cancellation between nodes, emergency precedence | bounded steps, fresh sequence numbers, right final status |
| `tool_registry.py` ToolExecutor, `safety.py` SafetyGuard | none | `execute`, `check` | checks before publishing | nothing unsafe or unknown is published |
| `fake_planner.py` FakePlanner | none (a function of the history) | `plan` | replanning after a block | ends in a final decision |
| `mqtt_transport.py` MqttRequestClient | pending requests, connection flags | `execute`, callbacks of the MQTT thread | timeouts race answers, reconnection | an observation answers the request of its key, or nobody |
| `mqtt_device_service.py` MqttDeviceService | connection, telemetry task, fault switches | message callback, telemetry, last will, disconnect and restore | fault switches race real traffic | one observation per accepted command unless suppressed |
| `device_simulator.py` DeviceSimulator | pose, cache | `process_command` | bounded cache | idempotent by key |
| `firmware_sim/robot_protocol.c` | idempotency cache, queue, ring, robot state | prepare, commit, execute | slots are reused in ring order | a command executes once while it is remembered |
| `firmware_runtime/robot_runtime.c`, FreeRTOS binding | UART ring, frame buffer, counters | interrupt, parser task, control task | interrupt and two tasks of different priority, no locks | bytes in order, frames whole, one answer per frame |
| `schemas.py`, `simulation/models.py`, `world.py`, `semantic.py`, `model_provider.py` | none | validation, geometry, one HTTP call | numeric limits | accept exactly the documented range |
| `acceptance.py`, `cli.py`, `metrics.py`, `web/`, build scripts | | tools over the rest | | |

How they interact: API handlers run on the event loop thread, which also runs
the tick; each coordinator has one worker thread; MQTT callbacks run on the
client's network thread. Mission worker -> AgentGraph -> ToolExecutor ->
MqttRequestClient -> broker -> MqttDeviceService -> `SimulationAdapter.submit_payload`
on the device's MQTT thread -> queue -> tick -> callback -> broker -> the waiting
request. Cancelling a mission calls `SimulationAdapter.cancel_task` from the
API handler. Coordinators notify ReplayRecorder and the event hub by listener
calls.

`PROJECT.json` lists the hazards, each at its line.

## Modules

| Module | Role |
| --- | --- |
| `Lineup` | ordered collections without repetition: the deque and the OrderedDicts |
| `SimulationEngine` | the engine in bridge mode: one operator per method |
| `SimulationAdapter` | adapter, engine and tick loop composed; all properties |
| `MotionDevice` | abstract specification: what the bridge promises a client |
| `MCSimulationAdapter` | command sets for TLC |
| `SimulationAdapterProofs` | the inductive invariant and its proof |
| `SimulationAdapterPromises` | callbacks, the refinement, cancelled tasks, task order and the result cache, proved |
| `RunGate` | the gate that mission and fault runs share |
| `ReplayRecorder` | frames of one run, sealed in a bundle |
| `MissionTaskCoordinator` | submitting, cancelling and running a mission |
| `FaultCoordinator` | submitting and running a fault scenario |
| `RunCoordinators` | the four composed as `create_app` wires them, with the tick loop's frames; all their properties |
| `SingleRun` | abstract specification: what the runtime promises whoever submits a run |
| `MCRunCoordinators` | ids and threads for TLC |
| `RunCoordinatorsProofs` | the inductive invariant of the runs and what follows from it |
| `RunCoordinatorsPromises` | one final event, one relayed cancel, and the refinement of `SingleRun`, proved |
| `RequestClient` | the MQTT client of one mission: connection, the request it waits for, what is in flight |
| `AgentGraph` | the runner: the nodes of the graph, the executor, the observer's events |
| `MissionLoop` | both composed with a faulty network, a device and an operator; all their properties |
| `RunnerContract` | abstract specification: what the coordinator expects of its runner |
| `MCMissionLoop` | the planner's verdicts for TLC |
| `MissionLoopProofs` | the inductive invariant of a mission, the properties that follow from it, and the contract, proved |
| `SafetyGuard` | the safety check, of the registry and of the devices |
| `DeviceFeedback` | what a device answers |
| `FakePlanner` | the deterministic planner: a decision from goal, limit and steps |
| `DeviceSimulator` | the device of the command line: one operator per way through `process_command` |
| `WorldGeometry` | sensor rays and the limit of a forward move |
| `PlannedMission` | planner, graph and a device composed, from the goal to the verdict; their properties |
| `MCPlannedMission` | goals, robots and worlds for TLC |
| `PlannedMissionProofs` | the invariants of the planner's budget, of the robot's place and of a move's script, and the three properties, proved |
| `DeviceService` | the device's side of MQTT: its network thread and the fault hooks |
| `FaultScenarios` | the four scenarios and their cleanup over a service, a broker and a device with a flaw |
| `MCFaultScenarios` | flaws for TLC |
| `FaultScenariosProofs` | the invariants of the scenarios and their three properties, proved |
| `UartIngress` | the firmware's interrupt, ring and framing |
| `FirmwareProtocol` | its cache and the execution of a command |
| `FirmwareRuntime` | host, interrupt, parser task and control task composed; their properties |
| `MCFirmwareRuntime` | lines and chunks for TLC |
| `FirmwareRuntimeProofs` | the invariants of the firmware, `QueuesNewLines` and `PatientHostServed`, proved |

There are six compositions. `SimulationAdapter`, `RunCoordinators` and `MissionLoop` are
the running system; where they meet, each has the other's part as an input (see
the table). `PlannedMission` takes the same mission from the other side: the loop
without its threads, but with the planner's decisions, the poses and the world
that `MissionLoop` and `SimulationAdapter` leave open. `FaultScenarios` is what
`FaultCoordinator` has as the input `FaultRunnerEnds`. `FirmwareRuntime` is the second
device, which shares no code with the rest.


| Meeting point | `SimulationAdapter` | `RunCoordinators` | `MissionLoop` |
| --- | --- | --- | --- |
| a cancel is accepted | | `CancelCurrent` | `RequestCancel` |
| its handler calls `cancel_task` | `CancelTask` | `CallCancelHandler` | `TellDevice` |
| the tick publishes a frame | `AfterTick` | `PublishFrame` | |
| the runner reports | | `RunnerEmitsStep`, `RunnerEmitsFinal`, `RunnerReturns`, `RunnerRaises` | `events`, `node = "done"` or `"raised"` |
| a command is answered | `Submit...`, `Answer` | | `DeviceAnswers` |

What `RunCoordinators` takes for granted of the runner is what `MissionLoop` is
shown to keep: `RunnerContract`. What `DeviceAnswers` takes for granted of the
device (one answer to all deliveries, except for a cancel) is `VerdictsAgree` of
`SimulationAdapter`, with the exception that `duplicate_of_cancelled` shows.

### SimulationAdapter

*Threads and atomicity.* `submit_payload` holds the adapter's lock from its first
lookup to its last assignment, so a delivery is one action (`Submit`, split by
the code's returns into `SubmitCached`, `SubmitCancelled`, `SubmitPending`,
`SubmitStale`, `SubmitImmediate`, `SubmitEmergency`, `SubmitMotion`, in the code's
order). `before_tick`, `advance` and `after_tick` run on the loop thread and take
the lock for short sections only; `pc` names the next section and deliveries
and cancellations may land between any two. A loop that completes several keys
takes the lock anew for each: `work` holds what is left of it and `Answer` is
one turn. Callbacks are called in the section that completes the command.
Pause, resume and reset are handlers on the loop thread, so they run between
ticks; reset answers its keys one section at a time (`Reset`, `Answer`, `Reboot`).

| Code | Model |
| --- | --- |
| `_pending`, `_completed`, `_latest_seq` | `pending`, `results` with `recency`, `latestSeq` |
| `_normal_queue`, `_emergency_queue` | `normalQueue` (a line), `emergencyQueue` (a set: it is only drained whole) |
| `_cancel_task_ids`, `_cancelled_tasks` | `cancelTaskIds`, `cancelledTasks` |
| `_active_key`, `_emergency_latched`, `_latest_state.emergency_stopped` | `activeKey`, `latched`, `latestStopped` |
| `_process_emergency` | `NoEmergency`, `LatchEmergency`, `Halt`, then `Answer` |
| `_expire_queued` | `ExpireQueued`, then `Answer` |
| `_process_operator_cancellation` | `SkipCancellation`, `SelectCancelled`, `Withdraw`, then `Answer` |
| rest of `before_tick` | `KeepActive`, `TimeoutActive`, `NothingToStart`, `PopMotion`, `Start` |
| `engine.advance`, `after_tick` | `Advance`, `AfterTick` |
| `cancel_all`, `engine.reset` | `Reset`, `Reboot` |

*Data.* A command is a record of task, sequence number, tool and a `body` that
stands for its fingerprint. An observation is its code. Geometry is a choice:
a motion takes 1 to `MaxTicks` ticks and a move may be blocked on any of them;
a zero amount completes at once. `slack` says how a command's deadline stands
against the duration of its motion: ample, tight (the motion no longer fits)
or expired. A tick reads the clock once and uses that time in all its sections,
so deadlines come nearer only between ticks (`Age`, `Overrun`). `after_tick`'s own
timeout check uses the same time as `before_tick`'s and can never fire; the
model has none.

*Left out.* Commands that fail their schema (answered without touching the state
modelled), the event log, revision numbers, last task and sequence shown in
observations, telemetry. The order in which a loop answers several keys is left
open. Branches for a missing pending entry are not modelled: `Ownership` says
an entry is there.

### RunCoordinators

*Threads and atomicity.* A thread in `Callers` is inside of at most one call.
`submit` of a mission is two sections with the listeners between them
(`SubmitMission`, `StartMission`), `cancel_current` a section and the handler
outside of it (`CancelCurrent`, `CallCancelHandler`); a refused call changes nothing
and has no action. `submit` of a fault is one section (`SubmitFault`). The two
workers go through `_run` section by section: `missionPc` and `faultPc` name the
next one.

| Code | Model |
| --- | --- |
| `RuntimeRunGate._active`, ids drawn so far | `lease`, `issued` |
| `_current` (mission): id, status, events, final status | `currentMission`, `missionStatus`, `journal`, `missionFinal` |
| `_active_task_id`, `_cancellation_event`, `_run_lease` | `activeMission`: they are set and cleared together |
| the cancellation events that are set | `cancelSet` |
| the executor's queue; `task_id`, place and `result` in `_run` | `missionQueue`; `missionTask`, `missionPc`, `missionResult` |
| `_run` up to the runner | `TakeMission` |
| what the runner does | `RunnerEmitsStep`, `RunnerEmitsFinal`, `RunnerReturns`, `RunnerRaises` |
| the rest of `_run` | `OverrideResult`, `ConcludeJournal`, `FinishMission`, `NotifyMission`, `ReleaseMission` |
| FaultCoordinator: the same fields, evidence | `currentFault` to `faultResult`; the journal is its length and whether it ends with the final entry |
| `_run` of a fault | `TakeFault`, `AnnounceFault`, `RunnerEmitsEvidence`, `FaultRunnerEnds`, `CleanUp`, `FinishFault`, `NotifyFault`, `ReleaseFault` |
| `_state`, `_capture`, `_latest_frame`, `_bundle` | `recorderState`, `capture`, `latestFrame`, `bundle` |
| `on_frame`, `_start_capture`, `_complete`, `_append_frame` | `OnFrame`, `StartCapture`, `Complete`, `AppendFrame` |

*Data.* A run id stands for its lease. An event is its phase, a final one its
status; "success" and "planner_error" stand for all the statuses that
cancelling overrides. A frame is its revision, and whether it has a reason to
be sampled (command change, state change, cadence) is an input. Offsets are
left out: they follow a clock that is taken not to run backwards.

*Left out.* Overflow of a mission's journal: it holds 128 events, and a mission
has at most 82: the accepted goal, five for each of at most 16 steps, and the final
one. That the runner keeps to five a step is `LoopKeepsContract`. An executor
that refuses work: it does so only after shutdown. `handled`, the calls of the
cancel handler, is a history.

### MissionLoop

*Threads and atomicity.* The graph runs on the mission's worker thread; `node`
is its place: a node of the graph, or a wait or a call inside of one. The
callbacks of the client run on its network thread and take the client's
condition lock, so each is one action (`NetworkThread`). The worker takes that
lock to register a request and to withdraw it; publishing and the two waits
are outside of it, so the network, the operator and the device may act between
any two of `Request`, `Publish`, `Announce` and `Answered` or `TimesOut`.
`cancel_current` sets the cancellation event at any moment; the graph looks at it
at the places the code does.

| Code | Model |
| --- | --- |
| `_started`, `_connected`, `_reconnect_attempts`, `_reconnect_exhausted` | `started`, `connected`, `attempts`, `exhausted` |
| the network loop of the library | `link`: off, trying, open, or refused (connected without a subscription) |
| `_pending` | `waitingFor`, its key, and `held`, its observation: one request at a time, since the graph is sequential |
| `_on_connect`, `_on_subscribe`, `_on_disconnect`, `_on_connect_fail`, `_on_message` | `Connects`, `Subscribes`, `Disconnects`, `ConnectFails`, `OnMessage` |
| `start`, `stop`, `execute` of the client | `Start`, `Stop`; `Register`, `PutInFlight`, `Withdraw` |
| the state of the graph | `stepCount`, `nextSeq`, `decision`, `lastObservation`, `steps`, `finalStatus` |
| `_planner_node` | `PlannerStops`, `PlannerAsks`, then `PlannerFails`, `PlannerEnds`, `PlannerCalls` or `UnknownToolCalled` |
| `_execute_node` with `ToolExecutor` | `ExecuteCancelled`, `ToolRejected`, `RequestRefused`, or `Request`, `Publish` (`PublishFails`), `Announce`, `Answered` (`TimesOut`) |
| `_decide_node` | `Outcome`, `DecideEnds`, `DecideContinues` |
| the runner around the graph | `StartClient`, `ClientConnected`, `ConnectTimesOut`, `OnFinal`, `CloseClient` |
| the observer's `_emit` | `events` |

*Data.* A command is its sequence number and an observation its number and
code. "success" and "rejected" lead the graph the same way and are one code. The
planner is a choice: it may fail, call a tool or end the run with any verdict
in `Claims`. A message in flight may be delivered any number of times, in any
order, until it is lost. A publication that the library reports as failed may
be sent by it after a reconnect all the same.

*A call of an unknown tool.* `OpenAICompatiblePlanner` passes on whatever name the
model gives. In a mission such a call never gets to `ToolRegistry`, which would
refuse it and let the run go on: `on_tool_call` builds a `RuntimeEvent`, whose schema
has the six tools only, and its validation error goes through the graph and the
runner to the coordinator (`UnknownToolCalled`, `RunnerRaises`), which ends the run as
`planner_error`. Nothing unknown is published either way.

*Left out.* What the planner is told (`known_state`, the history), texts and
times, the contents of tool calls. Other observer callbacks that raise: the
coordinator catches what its listeners raise, and the texts that planners and
device produce fit the schemas of the events. A `start` of the network loop that fails at once.
A command that runs again after the device forgot its result: that is
`redelivery_after_eviction` of the adapter. A planner that hangs: the HTTP call
of the provider has a timeout.

### PlannedMission

*Atomicity.* The graph's three nodes are actions, with the wait for the answer
between `Publishes` and `Delivers` or `TimesOut`. A delivery is one step: the device
of the command line processes its commands on one thread, and how the bridge queues and ticks it is checked in `SimulationAdapter`. A command may
be delivered again, its answer may be lost, its deadline may pass, another
client or a test may act: each is a disturbance. They happen at `node = "wait"`, late
deliveries also when the run is over; the other nodes neither read nor write
what a disturbance does, so that it might as well happen before or behind them.

| Code | Model |
| --- | --- |
| `FakePlanner.plan`, `_plan_detour`, `_plan_semantic`, `_semantic_progress` | `Plan`, `PlanGoal`, `PlanDetour`, `PlanSemantic`, `Progress`, `Approach` |
| `_planner_node`, `_execute_node`, `_decide_node` | `Plans`; `RefusesLocally`, `Publishes`, `TimesOut`; `Decides` |
| `ToolRegistry.build_command`, `SafetyGuard.check` | `LocalDecision`, `SafetyCheck` |
| `DeviceSimulator.process_command` | `ReplaysResult`, `FindsConflict`, `FindsStale`, `Refuses`, `Moves`, `Turns`, `Looks`, `KnowsNoObjects`, `Stops` |
| `_cache`, `_latest_seq`, `_obstacle_on_first_move` | `results` with `recency`, `latestSeq`, `obstacleAhead` |
| `set_obstacles`, `set_pose`, `clear_emergency_stop` | `Harness` |
| the bridge's answers: `submit_payload`'s refusal, motion with `constrain_move`, `_query_observation` | `BridgeRefuses`, `BridgeMoves`, `BridgeTurns`, `BridgeInspects` |
| the world's sensors and `constrain_move` | `RayDistance`, `AllowedMove` |

*Data.* Lengths are centimetres, headings multiples of ninety degrees, as the
planner's own calls keep them in the scenes considered. What a device answers is
what it remembers, but for a conflict: `Reply`. Rays and paths are
followed on a grid; where a detour's robot meets a flat side, the result is
exact. A goal is what its text is recognised as. What a semantic query finds is
a choice among distances and bearings.

*What the model made plain* (no document says otherwise, or the difference is one
of wording):

- A semantic mission that is blocked goes to `_plan_detour` without a scan, so it
  always ends, as `rejected` or at the step limit; `docs/user/local-simulation.md:64` speaks of
  reading the distances and of one detour for missions in general. `SemanticFits` in
  `PlannedMissionProofs` has it as its case `blocked # {}`.
- A refusal by the bridge's guard does not say how much of the move is left, so
  the planner ends the run instead of going around; a refusal by the registry of
  an obstacle that is already known is `rejected`, not `blocked`, with the same end.
- Sensors see solids widened by the footprint, motion keeps the clearance as
  well, so a move may be blocked where the front distance is not yet short.
- After a turn of `DeviceSimulator` the former side is in front; the sides stay.

*Left out.* Parameters that fail their schema, speeds (constant and allowed),
backward moves of the bridge, oblique headings, the cancel (in `MissionLoop`).

### FaultScenarios

*Threads and atomicity.* A scenario is the list of its calls (`Script`), and `place` and
`at` say where in it the run is; waits of calls are places of their own. The
service's network thread, the network and the device act between any two. The
device is `SimulationAdapter` reduced to what the scenarios ask: it remembers,
refuses what is older, answers queries at once, counts a motion when a tick starts it
(`motions`, the `executed_motion_count` the runner reads) and answers it, to each
callback, at the tick that ends it; between the two the turn does not show in the pose
yet (`moving`). It may have one of four `Flaws`, since finding out about it is what a
scenario is for.

*Network.* QoS 1 is at least once: a command stays and is delivered again
(`DeliversCommand`), an observation stays and answers another request under the same
key (`Answered`), either may be lost or be late. Each of these is a disturbance,
and their number is bounded.

| Code | Model |
| --- | --- |
| `_started`, `_connected`, `_reconnect_attempts`, `_reconnect_exhausted` | `serviceUp`, `online`, `attempts`, `exhausted` |
| `_fault_loop_stopped`, `_suppress_next_observation` | `loopStopped`, `suppressNext` |
| paho's thread and the callbacks | `loop`; `ServiceConnects`, `ServiceSubscribes`, `SubscriptionRefused`, `ServiceDisconnects`, `ServiceConnectFails` |
| `start`, `stop`, the fault hooks | `StartService`, `StopService`, `DisconnectForFault`, `RestoreAfterFault`, `SuppressNextObservation`, `ClearFaultInjection` |
| `_publish_observation`, once for each callback | `PublishObservation` |
| the four scenarios, `_request_command` | `Script`; `Requests`, `Answered`, `TimesOut`, `RequestFails`, `Judges` with `Passes` |
| `cleanup` | `CleansUp`, `Mends`, `Recovers`, `CleanupFails` |

`restore_after_fault` starts the network thread again only if the fault had stopped
it. One that gave up by itself stays ended, and later runs fail until a
`device_disconnect` run stops and restarts it or the service is restarted;
`FaultUndone` has the exception.

*What a pass does not prove.* In `duplicate_delivery` both requests have one key, and the
client takes whatever observation bears it (`mqtt_transport.py:298`). If the network brings
the answer to the first request again, it stands in for the one to the second, and a
device that contradicts itself passes; so does one that executes twice, if its second
command comes behind the verdict. `PassedIsEarned` has these as its only ways
out, and the model reaches each of them.

*Left out.* Heartbeats and the last will (nobody waits for them), a refused CONNACK.

### FirmwareRuntime

*Tasks and atomicity.* The parser task has the higher priority, so the control
task runs only while the parser sleeps without a notification (`ControlRuns`), and
may be preempted between any two of its writes: looking its entry up, clearing,
keying and flagging the slot, copying the observation, formatting it into the
shared buffer, handing that to the sink. The parser's answer to a frame is one step:
nothing of lower priority runs meanwhile, and the interrupt touches the ring
alone. Its check for lost bytes, the flush and each byte it takes are steps of
their own, between which the interrupt may come.

| Code | Model |
| --- | --- |
| ring of `robot_ingress_t`, `dropped_bytes` against `reported_dropped_bytes` | `ring`, `overflowed` |
| the interrupt, the parser's notification | `Interrupt`, `notified` |
| `robot_runtime_parser_step` | `ChecksOverflow`, `Flushes`, `Sleeps`, `Gathers`, `EndsTooLong`, `EndsFrame` |
| `frame.bytes`, `frame.dropping_oversize` | `frame`, `dropping` |
| `robot_protocol_prepare_json`, `_commit_pending`, `queue_send` | `RefusesFrame`, `RefusesConflict`, `Replies`, `IgnoresPending`, `Refuses`, `FindsQueueFull`, `Accepts` |
| `robot_runtime_control_step`, `robot_protocol_execute_command` | `TakesCommand`, `Executes`, `ClearsSlot`, `KeysSlot`, `FlagsSlot`, `CopiesAnswer`, `FormatsAnswer`, `EmitsAnswer` |
| `cache`, `cache_next` | `cache`, `cacheNext` |
| `observation_json`, the sink's last call | `buffer`, `output` |

*Data.* A line is two body bytes and its end; a body byte stands for a stretch
of the line that arrives as a whole or not at all, and the two halves carry enough
to tell whose they are. What cJSON reads is which command the two halves spell. A
fingerprint is the command: collisions are left out. Commands are of one task.

*What a repeated command may meet.* Within the cache a repetition is answered from
memory. A new number takes the next slot whatever that holds, and the refusal of a
late or stale command takes one as well, so that a command may be forgotten
and executed again even if its host waits for each answer: number 3, two older
ones that are refused, and 3 again is enough for two slots (the code has eight).
`robot_protocol.h:8` of the repository promises idempotency and
`docs/dev/contributing.md:72` the first result again; neither says for how long. The properties
have the reuse of the slot as their limit.

*What a host that does not wait may meet.* `PatientHostServed` is about a host that
waits for each answer, and the model reaches states that show why: for others the
answer replayed may be half copied; the text handed over may be the parser's,
which formatted into the same buffer; a slot that is taken over while the
control task holds its number gets another command's answer; a command that is
still queued may lose its slot and be queued again; and two ends of different lines
may be taken for a command when the bytes between them are dropped in the very pass
that reads on. No document says that a host may do so. The host tests, which are all
that the firmware is run against (`README.md:252` of the repository), do send two
commands at once (`test_robot_runtime.c:114`, `147`), but drain the two tasks in turn,
so that neither preempts the other.

*Left out.* Counters, the binding without tasks, `robot_protocol_ingest` with its
dispatch (used by host tests only), a sink that blocks.

### Histories

Of `SimulationAdapter`: `delivered`, `answered`, `verdicts` and `runs` are not in the code. They count
deliveries and callbacks of each payload, collect the codes its callbacks were
given, and count the motions started under each key.

Of `MissionLoop`: `sent` and `answers` collect the commands and the observations that were ever
in flight, `sentAtCancel` is what was sent when the cancel was accepted.

Of `FaultScenarios`: `swallowed`, `repeated` and `lost`, the keys of the observations held
back and of the messages that came again or were lost in this run; `executions` counts
motions by key. Of `FirmwareRuntime`: `accepted` and `forgotten` count how often a number
was queued and how often a slot that held it was reused, `told` is the first answer to a
command since a slot that held it was last reused, `impatient` says that the host began a
line without waiting.

## Properties

- `Ownership`: a pending key is in exactly one place that leads to its completion.
- `EngineAgreement`: engine and adapter agree on the motion under way, so
  `submit_action` never raises in the tick loop (which would end it).
- `EmergencyHolds`: no action while the robot is stopped; latch and robot flag agree
  except between the two sections that set or clear them.
- `CallbacksConserved`: each delivery's callback is called once or still registered.
- `AtMostOnce`: a key starts one motion, as long as its result is remembered.
- `VerdictsAgree`: duplicates get one answer, for tasks nobody cancels.
- `TaskOrder`: motions of one task start in sequence order, also after eviction.
- `CancelledStaysDown`: after a cancellation has been processed no motion of the task
  starts, except behind a queued emergency stop.
- `EveryCommandAnswered`, `EmergencyTakesEffect`: liveness.
- `ImplementsDevice`: the adapter implements `MotionDevice`.

Of `RunCoordinators`:

- `OneRunInProgress`: whatever a caller, an executor or a worker still has to do
  belongs to the run that holds the gate.
- `CaptureOwned`: so does an open capture.
- `CancelHonoured`: an accepted cancel shows in the final event, whatever the runner
  reports and however late the request was, unless an emergency stop came first.
- `OneFinalEvent`: one final event, which the finished snapshot agrees with.
- `CancelRelayedOnce`: the adapter hears once of each cancelled mission.
- `FinalEvidenceKept`: the journal of a fault has room for its final entry.
- `BundleOfLastRun`: the bundle on offer between runs is the last run's.
- `RecordingKept`: a recording fails only when there has been no frame at all.
- `RecordingEnds`: liveness.
- `ImplementsSingleRun`: runs come one at a time, each gets a verdict, then the next
  may begin; an accepted cancel leaves only two verdicts.

Of `MissionLoop`:

- `AnswersBelong`: the observation recorded for a step is the device's answer to
  the command of that very step, however late or repeated answers come in.
- `NothingBehindUnanswered`: behind a command whose fate is unknown, or that an
  emergency stop ended, no other is sent.
- `OneAfterCancel`: after an accepted cancel at most one command goes out, the one
  that was past the last look at the cancellation event.
- `VerdictExplained`: a verdict the planner did not claim has its cause in the
  steps, and the device's emergency stop outranks everything, the cancel included.
- `EventsInOrder`: the events of the steps come one step after the other, in their order.
- `EvidenceAgrees`: a step is recorded as published exactly if the journal says so,
  and the journal passes for a verified tool chain exactly if some step was published.
- `KeepsRunnerContract`: the mission implements `RunnerContract`, and always ends: with a
  final event and a return, or by raising without one.

Of `PlannedMission`:

- `SuccessEarned`: a mission to move that ends with success moved the robot forward by
  what the goal asked, detour included, and left it facing the same way.
- `DetourFits`: the step limit never leaves the robot in the middle of a detour.
- `PoseExplained`: the robot is where the answers in the run's journal say, but for at
  most one command whose answer was lost.

Of `FaultScenarios`:

- `PassedIsEarned`: a scenario passes only if the device did what the scenario is
  about, whatever flaw it has and whatever was lost, late or repeated on the way. A
  duplicate was executed, and more than once only by a device that repeats itself and
  when the network repeated one of the run's messages; a device that contradicts
  itself passes only then, too.
- `NoFalseAlarm`: with a sound device and no disturbance none fails.
- `FaultUndone`: no fault outlives its run.

Of `FirmwareRuntime`:

- `QueuesNewLines`: a command is queued only if its entry was reused since it was
  queued before, and if it is one of the lines, but for a loss of bytes in that pass.
- `PatientHostServed`: a host that waits gets the answer to what it asked, untorn and
  by its own text, and to a repetition the first answer again, unless the command's slot
  was reused since.
- `Settles`: liveness; whenever the line falls silent the tasks get through all that
  arrived and no line is left without an answer after it.

## Runs

| Run | Instance | Shows |
| --- | --- | --- |
| `adapter_control` | motions of two tasks, delivered twice each, one emergency stop; one task can be cancelled; pause, reset, one deadline | all invariants, `CancelledStaysDown` and the refinement in 1.13 million states |
| `adapter_evict` | four commands, two of them conflicting under one key, a cache of one | `TaskOrder` when results are forgotten |
| `adapter_live` | one motion, one emergency stop, every control and deadline | both liveness properties |
| `redelivery_after_eviction` | as `adapter_evict` | expected violation of `AtMostOnce` |
| `duplicate_of_cancelled` | as `adapter_control` without controls | expected violation of `DuplicatesAgree` |
| `late_motion_of_cancelled` | same | expected violation of `LateMotionRejected` |
| `runs_control` | two missions, one fault, two threads, two frames of capture | all properties of the runs in 288 thousand states |
| `idle_before_recorded` | same | expected violation of `IdleIsRecorded` |
| `agent_loop` | a mission of at most two steps, two connection attempts, every loss and repetition of messages, a cancel at any time | all properties of a mission in 427 thousand states |
| `planned_mission` | goals of all kinds, four robots of the simulator and four worlds, limits just enough and just too small for a detour, two disturbances | all properties of `PlannedMission` in 135 thousand states |
| `fault_scenarios` | two runs of any scenarios in a row, four devices, three disturbances | all properties of `FaultScenarios` in 6.6 million states |
| `firmware_tasks` | four lines byte by byte, with junk, blanks and dropped bytes; four commands line by line | all properties of `FirmwareRuntime` in 728 thousand states |

*Bounds.* `MaxDeliveries` limits deliveries per payload: two are enough for a
duplicate in every state of the original. `QueueSize = 1` makes the queue full
with the second motion; with one motion active and one queued all places a key
can be in are occupied. `MaxTicks = 2` distinguishes the last tick from an
earlier one. `CacheSize = 4` never evicts in the runs that use it, 1 evicts at
every completion. `Aging`, `Cancellable` and `Controls` name the commands,
tasks and controls taking part. Tasks, sequence numbers and tools are the
least that make duplicates, conflicts, stale numbers and a second task happen.
The proofs need none of these bounds.

In `runs_control` two missions and a fault make a run follow a run of the same
and of the other kind, and the two threads (the event loop, which serves the
API, and the acceptance runner) cancel at once. `MaxFrames = 2` is the least
the frame contract allows and is full with the terminal sample; `MaxRevision = 2`
gives a recording that begins before any frame, one whose last frame is
terminal already, and a truncated one. `MaxSteps = 1` and `MaxEvidence = 2` give a
journal with and without an entry before its last. The system stops when all
ids are used, so deadlock is not checked there.

In `agent_loop`, `MaxSteps = 2` lets what is left of the first step (a late
observation, a command sent again) meet the second, and makes a third step the
violation of the limit. `MaxAttempts = 2` gives a reconnection that fails once
and one that is given up. `Claims` holds a verdict that a cancel overrides and
the one it does not. A mission that is over stays so (`Done`); deadlock is
checked, so every other wait has a way out.

In `planned_mission`, `Grid` is 5 cm, of which all lengths of the scenes are multiples,
and `SensorRange` the configuration's 2.5 m. The scenes are those of
`obstacle_world_config` as far as a mission gets near them, one too narrow to pass and
one where the detour meets another solid. Limits 6 and 7 are the two sides of the
detour's budget. `MaxDisturbances = 2` lets one undo or repeat what another did;
`CacheSize = 12` forgets nothing (that is `adapter_evict`). A run that ended stays so, so
deadlock is not checked.

In `fault_scenarios`, `MaxAttempts = 2` gives an attempt that fails and one that is the
last, `MaxRuns = 2` lets a run meet what another left, with `MaxDisturbances = 3` that
two things go wrong in it and one in the next. The runs end, so deadlock is not
checked.

In `firmware_tasks`, cache and queue have two slots, so that three commands under way
take over the slot of the one that is executed and fill the queue; the ring holds
three bytes, one line, and a frame two, so that junk is too long by one and lines
overflow the ring. Two budgets keep the interleavings apart: bytes one by one, with
three lines and three dropped bytes, and whole lines, with four commands and none dropped.
The host falls silent, so deadlock is not checked.

*Fairness* (`FairSpec`, in `adapter_live`). Weak fairness of `LoopStep`: the tick
task loops on a timer and does nothing else that blocks. Strong fairness of
`Age`: time passes, and deadlines are fixed points in time; the action is
enabled only between ticks, and the loop visits that place again and again.
Nothing is assumed of deliveries, operators or cancellations. `FairSpec` of
`RunCoordinators` has weak fairness of the workers and of the callers that are
inside of a call: threads between two sections of a lock go on. The runners end
because the agent loop counts its steps and bounds every wait, and a scenario
is a fixed list of requests; that is the fairness of `RunnerEnds` and
`FaultRunEnds`. Nothing is assumed of frames, submissions or cancel requests.
`FairSpec` of `MissionLoop` has weak fairness of the mission's thread alone: the wait
for the connection and the wait for an answer have timeouts, and the planner
returns. The network may stay down, the device silent and the operator absent.
`Spec` of `FirmwareRuntime` has weak fairness of either task: the scheduler runs the ready task of
the highest priority, neither task blocks but on its notification or queue, and the
control task is enabled only while the parser sleeps. Nothing is assumed of the host;
`Settles` holds because it sends finitely many lines.

*Expected violations.* Each is a divergence of the code from what the developer
guide or a test says, and `PROJECT.json` quotes it. A redelivery after the
result was evicted runs the motion again, because a sequence number equal to
the latest is not stale. A duplicate of a pending command of a cancelled task is
told `operator_cancelled` before the command's own outcome is known. A late
motion of a cancelled task is let in while an emergency stop is queued and can
move until the next tick. And a coordinator calls itself idle before the
recording of its run is sealed and the gate is free, although the acceptance
runner and a test read the evidence as soon as it is idle.

## Proofs

`SimulationAdapterProofs` proves, for every set of commands, every queue and cache
size and every bound, from the assumptions `EngineAssumption` and
`AdapterAssumption` (which TLC evaluates in every run):

- `Inductive`: `Spec => []IInv` with `IInv == TypeOK /\ Ownership /\ EngineAgreement /\ EmergencyHolds`;
- `TypeCorrect`, `OwnershipHolds`, `EngineAgreementHolds`, `EmergencyAlwaysHolds`: its parts.

None of the four is inductive alone. A completion looks its key up in `pending`,
so types need `Ownership`; a key leaves `activeKey` only when it is answered,
and that the engine has stopped by then is `EngineAgreement`; that the popped key is
started at all, and not dropped at the latch, is `EmergencyHolds`, whose clause
about `pc = "start"` is there for this. The proof has one lemma per action, or
per group of actions that change the same variables, and the step lemma puts
them together by cases of `Next`.

`SimulationAdapterPromises` builds on that invariant:

- `EveryDeliveryCounted`: `Spec => []CallbacksConserved`, inductive together with `IInv`: an
  answered key gives up its callbacks for as many answers;
- `BridgeImplementsDevice`: `Spec => ImplementsDevice`. Every action maps to an action of
  `MotionDevice` or to a stutter; `Decided` is the common case, a set of keys that
  comes to its outcome. Which keys may do so is where `IInv` is needed;
- `CancelledStaysDownHolds`: `Spec => CancelledStaysDown`. `Downed` says what still stands
  between a waiting motion of a cancelled task and its start: the request itself, a
  queued emergency stop, the latch, or the list that `Withdraw` filters the queue with.
  At the popped motion only the first two are left, because `EmergencyHolds` has no latch
  there and the section is another one;
- `TaskOrderHolds`: `Spec => TaskOrder`, without any assumption on the cache. `InOrder` orders the
  line of waiting motions, the popped motion and all that have run by their numbers, and
  puts `latestSeq` above all of them, which is what `Stale` compares a delivery with. The
  lemmas about `Join`, `Leave` and `Trim` (`Ranked`: the places are a numbering without gaps
  or ties) carry the order through every removal from the middle;
- `AtMostOnceHolds` and `VerdictsAgreeHolds` assume `Roomy`: there is room in the cache for as many
  results as there are keys, as in `adapter_control`; `redelivery_after_eviction` shows that the
  first fails otherwise. `RanIsKnown` says that a key that ran is remembered or pending;
  `Fate` is the answer that is already settled for a command, and `Told` that nothing else has
  been given.

`RunCoordinatorsProofs` proves from `RunAssumption`, `RecorderAssumption`,
`MissionAssumption`, `FaultAssumption` and `CallersAssumption`, for any missions,
faults and threads and any limits:

- `RunsInductive`: `Spec => []IInv`. `IInv` says where in its life the holder of the
  gate is: inside of `submit`, queued, or at which section of its worker
  (`MissionStages`, `FaultStages`); what its journal says by then
  (`MissionRecord`); and what the recorder has of it. Gate exclusion alone is not
  inductive: that a worker releases its own lease needs to know that it is the
  holder, which is a fact about the queue it came from and the call before that.
- from it `RunsTypeCorrect`, `OneRunInProgressHolds`, `CaptureOwnedHolds`,
  `CancelHonouredHolds`, `FinalEvidenceKeptHolds`, `BundleOfLastRunHolds` and
  `RecordingKeptHolds`.

`RunCoordinatorsPromises` adds `OneFinalEventHolds` and `CancelRelayedOnceHolds`, which
count, and `CoordinatorsImplementSingleRun`: every step is a step of `SingleRun` or
changes nothing it sees. Its fairness is left to TLC.

`MissionLoopProofs` proves from `AttemptsAssumption`, `StepsAssumption` and
`ClaimsAssumption`, for any number of steps and attempts:

- `LoopInductive`: `Spec => []IInv`. `IInv` adds to the types what the thread's place
  says of the request (`Stages`: it waits for `nextSeq` or for nothing), that
  commands are sent in order, `nextSeq` only between its publication and its
  answer (`Sending`), what the last step allows to
  follow (`Ending`), what a cancel leaves possible at each place (`Cancelling`), and
  what the last event is at each place (`Journal`). `AnswersBelong` needs the first of
  these: an answer is matched to the pending key, and that this key is the step's is
  a fact about the thread. `OneAfterCancel` counts, and is inductive only when
  `Cancelling` says at which places the one command may still come.

- from it `LoopTypeCorrect`, `AnswersBelongHolds`, `NothingBehindUnansweredHolds`,
  `OneAfterCancelHolds`, `VerdictExplainedHolds` and `EventsInOrderHolds`;
- `EvidenceAgreesHolds`, with `Evidenced` beside `IInv`: the journal has the published event of
  the step that is waited for before `steps` has the step, so the invariant says of
  each published event that its step is over or is the one waited for;
- `LoopKeepsContract`: `Spec => Contract!Safety`, at most five events a step, then one final
  event with nothing behind it and the return, or an exception and no final event.
  That the mission ends is left to TLC.

`FaultScenariosProofs` proves from `AttemptsAssumption` and `ScenariosAssumption`, for any
number of runs, disturbances and connection attempts, and whatever flaws the device may
have:

- `ControlInductive`: `Spec => []Control`. Besides types, `Control` says where in its script a run
  is and how many answers it has (`Progress`), and in which scenarios and at which
  places a fault may be in force (`Switches`). `FaultUndoneHolds` follows: the cleanup is on the
  only way to `over`.
- `FindingsInductive`: `Spec => []Findings`, what a run knows of the device. The device has
  heard nothing of a run before its first request (`Fresh`); a command of the run is a
  request of its script (`OwnCommands`). Of the motion sent twice: it was executed before it
  was answered, and its command is never stale (`Turned`). A device that does not repeat
  itself executes it once, however often it is delivered (`ExecutedOnce`). As long as no
  answer was missed and none of the run's messages was repeated, it is in one place only,
  a command, the device's queue or an observation (`OneAtATime`), and a device that does
  not repeat itself then answers as it must, first and again (`AnsweredOnce`). Of the answer
  held back: a query not answered yet is held back, lost or on its way (`Accounted`).
  Every observation is of a command the device has done with (`Known`), and a device that
  ignores the order calls none stale (`NeverStale`).
  The verdict counts all the motions of the device, another client's too, so
  `motions >= before.motions + executions[First]` (`Counted`) is part of it.
  `PassedIsEarnedHolds` needs all of it: nothing of the run is left behind the verdict that
  could execute the motion once more, and a device that contradicts itself has not
  given the same answer twice.
- `NoFalseAlarmHolds`. `Calmness` is inductive together with both under `Quiet` (no flaw, no
  disturbance): the connection is up but where the script cuts it (`Linked`), the only
  motion is the run's (`Still`), and for each scenario what the device has heard at
  each step (`CutOff`, `HeldBack`, `Swapped`). Each wait is met or is meant to end in vain,
  so every script gets to its end with the answers it is after.

`PlannedMissionProofs` proves from `MissionAssumption`, for any goals, limits, devices,
worlds and disturbances:

- `BudgetInductive`: `Spec => []Budgeted`. Behind a blocked step there is room for five calls
  and a decision, and no more steps were taken than the detour has; a semantic
  mission never acts behind a blocked step. `PlanFits` shows it of every decision of
  the planner, `StepsFit` of every step, whatever the answer: the argument is about the
  budget alone.
- `DetourFitsHolds`: `Spec => []DetourFits`.
- `ExplainedInductive`: `Spec => []Explained`. `PoseExplained` by itself is not inductive: that a
  delivery moves the robot at most once per command needs what is remembered of each
  command sent. `Explained` says that a command sent is that of a step or the one waited
  for (`Sending`), that only the last step may lack its answer, and then the run is
  over (`Answers`), that what was answered is remembered with the same command
  (`Remembering`), and where the answers led (`Located`): there, or one step further if the
  one command without an answer was executed (`OneOpen`). `SimulatorHandles` and
  `BridgeHandles` show it of every way through a device: the answer it remembers says
  how far the robot went (`Conforms`), whatever world, guard and deadline say.
- `PoseExplainedHolds` and `SuccessEarnedHolds`. The second has `Scripted` beside `Explained`: the
  calls of a mission to move are those of a script of one or six, each behind answers
  that let it go on, and only the end of the script is a success (`PlanScripted`).
  `ScriptEarns` adds up where it leads: the way aside is across the way ahead (`Across`),
  and the two moves ahead make up what the goal asked.

  The three assume `NobodyElseDrives` (what others send does not move the robot: their motions
  are not in this run's journal) and `CacheHoldsRuns` (the cache has room for the keys of a
  run and of the others; `redelivery_after_eviction` shows what happens otherwise). Both
  hold in `planned_mission`, where others stop the robot and query it. `MissionAssumption` says
  that headings and bearings are multiples of ninety degrees, as in *Data*.

`FirmwareRuntimeProofs` proves from `IngressAssumption`, `ProtocolAssumption` and
`RuntimeAssumption`, for every capacity of ring, frame, queue and cache, every chunk and
whatever lines the host sends:

- `FirmwareInductive`: `Spec => []IInv`. Besides types, `IInv` has `Counted`: a number was queued at
  most once more than slots holding it were reused, and not even that when no slot
  holds it. The control task may key a slot the parser took meanwhile, so the
  second clause needs that reuse is counted wherever a key is overwritten, by
  either task. And `Streamed`: in frame, ring and what is still to come, read as one,
  each beginning of a line is followed by its own end. A loss of bytes breaks that
  for what was received, until it is flushed; what is still to come stays whole.
- `QueuesNewLinesHolds`: `Spec => QueuesNewLines`.
- `HostInductive`: `Spec => []HostInv`. A host that waits and lost no byte is in one of three
  stages. Its line is on the way (`Waits`): behind nothing but ends of lines, gathered
  in part, or dropped up to its last byte; both tasks are at rest and every cache
  entry has the first answer to its command (`Kept`). Or its command is the only one that is
  queued or executed (`Worked`): its entry is found again, so that the control task
  never takes a slot of its own, and its answer is in `buffer` when it goes out. Or it
  was answered (`Served`). An answer that is still due has its slot (`Remembered`), so that
  a command without one is new or another has its number. That no two slots hold the same number (`NoTwins`) is needed
  where the entry is looked up, and where one slot is reused.
  `RuntimeAssumption` says that the two bytes of a command fit in a frame.
- `PatientHostServedHolds`: `Spec => []PatientHostServed`.

Model-checked only: all liveness. It needs fairness and `ENABLED`, which the prover does not
handle. Every invariant of the passing runs is proved.

## Plan

1. Done: `SimulationAdapter` with engine and tick loop.
2. Done: `RunCoordinators` with gate, recorder and both coordinators.
3. Done: `MissionLoop` with agent graph, executor and request client.
4. Done: `DeviceService` and `FaultScenarios`, the device's side of MQTT and the four
   scenarios with their cleanup.
5. Done: `FirmwareRuntime` with ring, framing, cache and both tasks, and the proof of
   what it queues.
6. Done: `PlannedMission` with `FakePlanner`, `SafetyGuard`, `DeviceSimulator` and the geometry.
7. Done: the proofs about `FaultScenarios` and `EvidenceAgrees`.
8. Done: the proof of `PatientHostServed`.
9. Done: the proofs of `CancelledStaysDown`, `TaskOrder`, `AtMostOnce` and `VerdictsAgree` of the adapter.
10. Done: the proofs of `PoseExplained` and `SuccessEarned`.

## Not modelled

- `schemas.py`, `simulation/models.py`: validation of single values without state; the commands and
  observations of the models are those that pass it.
- `model_provider.py`: one HTTP call with a timeout and the check of its answer. In
  `MissionLoop` its planner is a choice.
- The event and frame hubs of `simulation/runtime.py`: a bounded queue for each websocket
  that nothing else reads; a subscriber that falls behind is removed and gets no more
  events, and no one else notices.
- `acceptance.py`, `cli.py`, `metrics.py`: sequential scripts over the other components. What
  acceptance takes for granted of the coordinators is `idle_before_recorded`.
- `web/`: parsing and rendering.
- Build scripts and project files; cJSON and FreeRTOS, which are fetched.
