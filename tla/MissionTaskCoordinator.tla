----------------------- MODULE MissionTaskCoordinator -----------------------
(***************************************************************************)
(* MissionTaskCoordinator: one mission at a time, run by one worker thread *)
(* and cancelled by any other.  A caller is a thread that submits and      *)
(* cancels; call says which method it is inside of, between two sections   *)
(* of the lock.  The runner is the mission graph seen from outside: it     *)
(* emits events, perhaps the final one, and returns or raises.             *)
(*                                                                         *)
(* _active_task_id, _cancellation_event and _run_lease are set and cleared *)
(* together, so activeMission stands for the three.  The verdicts          *)
(* "success" and "planner_error" stand for all that cancelling overrides.  *)
(* MaxSteps is taken small enough for the journal never to overflow, which *)
(* is what SimulationMissionRunner's 16 steps are to its 128 events.       *)
(***************************************************************************)
EXTENDS ReplayRecorder

CONSTANTS
    Callers,  \* threads that call submit and cancel_current
    MaxSteps  \* bound: events a runner emits before the final one

ASSUME MissionAssumption == MaxSteps \in Nat

VARIABLES
    currentMission,  \* _current.task_id
    missionStatus,   \* _current.status
    journal,         \* _current.events: phases, a final one by its status
    missionFinal,    \* _current.final_status
    activeMission,   \* _active_task_id
    cancelSet,       \* the missions whose cancellation event is set
    missionQueue,    \* tasks handed to the executor
    missionTask,     \* the worker's task_id
    missionPc,       \* the worker's next section
    missionResult,   \* the worker's result, then its completed snapshot's
    call,            \* caller -> the method it is inside of, and the run
    handled          \* history: calls of cancel_handler for each mission

missionVars == <<currentMission, missionStatus, journal, missionFinal,
                 activeMission, cancelSet, missionQueue, missionTask,
                 missionPc, missionResult, call, handled>>

workerVars == <<missionQueue, missionTask, missionPc, missionResult>>

FinalStatus == {"success", "planner_error", "cancelled", "emergency_stop"}

OutsideCall == [op |-> "none", run |-> NoRun]

HasFinal == journal # <<>> /\ Last(journal) \in FinalStatus

MissionInit ==
    /\ currentMission = NoRun
    /\ missionStatus = "none"
    /\ journal = <<>>
    /\ missionFinal = "none"
    /\ activeMission = NoRun
    /\ cancelSet = {}
    /\ missionQueue = <<>>
    /\ missionTask = NoRun
    /\ missionPc = "idle"
    /\ missionResult = "none"
    /\ call = [c \in Callers |-> OutsideCall]
    /\ handled = [m \in Missions |-> 0]

\* submit, first section: the new mission with its user_goal event.  An
\* active mission or a busy gate refuse it, which changes nothing.
SubmitMission(c, m) ==
    /\ call[c] = OutsideCall
    /\ activeMission = NoRun
    /\ Acquire(m)
    /\ currentMission' = m
    /\ missionStatus' = "accepted"
    /\ journal' = <<"user_goal">>
    /\ missionFinal' = "none"
    /\ activeMission' = m
    /\ call' = [call EXCEPT ![c] = [op |-> "submit", run |-> m]]
    /\ UNCHANGED <<cancelSet, handled, workerVars, recorderVars>>

\* submit, the rest: the listeners hear of user_goal, on which the recorder
\* starts its capture, and the executor gets the task.
StartMission(c) ==
    /\ call[c].op = "submit"
    /\ StartCapture(call[c].run)
    /\ missionQueue' = Append(missionQueue, call[c].run)
    /\ call' = [call EXCEPT ![c] = OutsideCall]
    /\ UNCHANGED <<currentMission, missionStatus, journal, missionFinal,
                   activeMission, cancelSet, missionTask, missionPc,
                   missionResult, handled, gateVars>>

\* Mutants of cancel_current: it looks at the active task only; every call
\* runs the handler.
CancelAfterFinal(c) ==
    /\ call[c] = OutsideCall
    /\ activeMission # NoRun
    /\ cancelSet' = cancelSet \cup {activeMission}
    /\ UNCHANGED <<currentMission, missionStatus, journal, missionFinal,
                   activeMission, workerVars, call, handled, gateVars,
                   recorderVars>>

CancelEveryTime(c) ==
    /\ call[c] = OutsideCall
    /\ activeMission # NoRun
    /\ ~HasFinal
    /\ cancelSet' = cancelSet \cup {activeMission}
    /\ call' = [call EXCEPT ![c] = [op |-> "cancel", run |-> activeMission]]
    /\ UNCHANGED <<currentMission, missionStatus, journal, missionFinal,
                   activeMission, workerVars, handled, gateVars, recorderVars>>

\* cancel_current, locked section: refused without an active mission or
\* after its final event.  The first request goes on to the handler.
CancelCurrent(c) ==
    /\ call[c] = OutsideCall
    /\ activeMission # NoRun
    /\ ~HasFinal
    /\ cancelSet' = cancelSet \cup {activeMission}
    /\ call' = IF activeMission \in cancelSet THEN call
               ELSE [call EXCEPT ![c] = [op |-> "cancel", run |-> activeMission]]
    /\ UNCHANGED <<currentMission, missionStatus, journal, missionFinal,
                   activeMission, workerVars, handled, gateVars, recorderVars>>

\* cancel_current, outside the lock: cancel_handler(task_id).
CallCancelHandler(c) ==
    /\ call[c].op = "cancel"
    /\ handled' = [handled EXCEPT ![call[c].run] = @ + 1]
    /\ call' = [call EXCEPT ![c] = OutsideCall]
    /\ UNCHANGED <<currentMission, missionStatus, journal, missionFinal,
                   activeMission, cancelSet, workerVars, gateVars, recorderVars>>

\* _run, up to the runner.
TakeMission ==
    /\ missionPc = "idle"
    /\ missionQueue # <<>>
    /\ currentMission = Head(missionQueue)
    /\ missionTask' = Head(missionQueue)
    /\ missionQueue' = Tail(missionQueue)
    /\ missionStatus' = "running"
    /\ missionPc' = "running"
    /\ missionResult' = "none"
    /\ UNCHANGED <<currentMission, journal, missionFinal, activeMission,
                   cancelSet, call, handled, gateVars, recorderVars>>

\* What every section of the worker after TakeMission leaves alone.
OnlyWorker ==
    /\ UNCHANGED <<currentMission, cancelSet, missionQueue, missionTask,
                   call, handled>>

\* Mutant of _emit: the final event says what the runner said.
AsReported(verdict) == verdict

\* _emit: a final event of a cancelled mission is overridden, except an
\* emergency stop.
Emitted(verdict) ==
    IF activeMission \in cancelSet /\ verdict # "emergency_stop"
    THEN "cancelled"
    ELSE verdict

\* The runner's observer: an event on the way.
RunnerEmitsStep ==
    /\ missionPc = "running"
    /\ ~HasFinal
    /\ Len(journal) <= MaxSteps
    /\ journal' = Append(journal, "step")
    /\ UNCHANGED <<missionStatus, missionFinal, activeMission, missionPc,
                   missionResult, gateVars, recorderVars>>
    /\ OnlyWorker

\* on_final, or the runner's own answer to a transport error.
RunnerEmitsFinal(verdict) ==
    /\ missionPc = "running"
    /\ ~HasFinal
    /\ journal' = Append(journal, Emitted(verdict))
    /\ missionResult' = verdict
    /\ UNCHANGED <<missionStatus, missionFinal, activeMission, missionPc,
                   gateVars, recorderVars>>
    /\ OnlyWorker

\* A runner that emitted its final event returns what it told it.
RunnerReturns(verdict) ==
    /\ missionPc = "running"
    /\ HasFinal => verdict = missionResult
    /\ missionResult' = verdict
    /\ missionPc' = "returned"
    /\ UNCHANGED <<missionStatus, journal, missionFinal, activeMission,
                   gateVars, recorderVars>>
    /\ OnlyWorker

\* The except branch: the result is chosen before the final event is.
RunnerRaises ==
    /\ missionPc = "running"
    /\ missionResult' = IF missionTask \in cancelSet THEN "cancelled"
                        ELSE "planner_error"
    /\ missionPc' = "concluding"
    /\ UNCHANGED <<missionStatus, journal, missionFinal, activeMission,
                   gateVars, recorderVars>>
    /\ OnlyWorker

\* The result of a cancelled mission, unless an emergency stop is on record.
OverrideResult ==
    /\ missionPc = "returned"
    /\ missionResult' =
           IF missionTask \in cancelSet
              /\ ~(HasFinal /\ Last(journal) = "emergency_stop")
           THEN "cancelled"
           ELSE missionResult
    /\ missionPc' = "concluding"
    /\ UNCHANGED <<missionStatus, journal, missionFinal, activeMission,
                   gateVars, recorderVars>>
    /\ OnlyWorker

\* Mutant: the coordinator always adds a final event of its own.
AddFinal ==
    /\ missionPc = "concluding"
    /\ journal' = Append(journal, Emitted(missionResult))
    /\ missionPc' = "finishing"
    /\ UNCHANGED <<missionStatus, missionFinal, activeMission, missionResult,
                   gateVars, recorderVars>>
    /\ OnlyWorker

\* The final event, if the runner left it to the coordinator.
ConcludeJournal ==
    /\ missionPc = "concluding"
    /\ journal' = IF HasFinal THEN journal
                  ELSE Append(journal, Emitted(missionResult))
    /\ missionPc' = "finishing"
    /\ UNCHANGED <<missionStatus, missionFinal, activeMission, missionResult,
                   gateVars, recorderVars>>
    /\ OnlyWorker

\* Mutants of the finally section: it trusts the result over the journal;
\* it gives up the gate at once.
FinishWithResult ==
    /\ missionPc = "finishing"
    /\ missionStatus' = "finished"
    /\ missionFinal' = missionResult
    /\ activeMission' = NoRun
    /\ missionPc' = "notifying"
    /\ UNCHANGED <<journal, missionResult, gateVars, recorderVars>>
    /\ OnlyWorker

FinishAndRelease ==
    /\ missionPc = "finishing"
    /\ missionStatus' = "finished"
    /\ missionFinal' = IF HasFinal THEN Last(journal) ELSE missionResult
    /\ missionResult' = missionFinal'
    /\ activeMission' = NoRun
    /\ missionPc' = "notifying"
    /\ Release(missionTask)
    /\ UNCHANGED <<journal, recorderVars>>
    /\ OnlyWorker

\* The finally section: the snapshot is finished, with the verdict of its
\* final event, and a copy of it is kept for the listeners.
FinishMission ==
    /\ missionPc = "finishing"
    /\ missionStatus' = "finished"
    /\ missionFinal' = IF HasFinal THEN Last(journal) ELSE missionResult
    /\ missionResult' = missionFinal'
    /\ activeMission' = NoRun
    /\ missionPc' = "notifying"
    /\ UNCHANGED <<journal, gateVars, recorderVars>>
    /\ OnlyWorker

\* Mutant: a cancelled mission has nothing to record.
NotifyUnlessCancelled ==
    /\ missionPc = "notifying"
    /\ IF missionResult = "cancelled" THEN UNCHANGED recorderVars
       ELSE Complete(missionTask, missionResult)
    /\ missionPc' = "releasing"
    /\ UNCHANGED <<missionStatus, journal, missionFinal, activeMission,
                   missionResult, gateVars>>
    /\ OnlyWorker

\* _notify_completion: the recorder is the listener.
NotifyMission ==
    /\ missionPc = "notifying"
    /\ Complete(missionTask, missionResult)
    /\ missionPc' = "releasing"
    /\ UNCHANGED <<missionStatus, journal, missionFinal, activeMission,
                   missionResult, gateVars>>
    /\ OnlyWorker

ReleaseMission ==
    /\ missionPc = "releasing"
    /\ Release(missionTask)
    /\ missionPc' = "idle"
    /\ UNCHANGED <<missionStatus, journal, missionFinal, activeMission,
                   missionResult, recorderVars>>
    /\ OnlyWorker

RunnerEnds == RunnerRaises \/ \E v \in FinalStatus : RunnerReturns(v)

\* The worker's own steps, between the runner's.
MissionWorker ==
    \/ TakeMission
    \/ OverrideResult
    \/ ConcludeJournal
    \/ FinishMission
    \/ NotifyMission
    \/ ReleaseMission

CallerSteps(c) == StartMission(c) \/ CallCancelHandler(c)

MissionNext ==
    \/ \E c \in Callers : \/ \E m \in Missions : SubmitMission(c, m)
                          \/ CancelCurrent(c)
                          \/ CallerSteps(c)
    \/ MissionWorker
    \/ RunnerEmitsStep
    \/ \E v \in FinalStatus : RunnerEmitsFinal(v)
    \/ RunnerEnds
=============================================================================
