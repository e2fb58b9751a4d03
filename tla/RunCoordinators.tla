-------------------------- MODULE RunCoordinators --------------------------
(***************************************************************************)
(* The runtime's runs as create_app wires them: the two coordinators with  *)
(* their workers, the gate they share, the recorder that listens to both,  *)
(* the tick loop that publishes frames, and the threads that submit and    *)
(* cancel.                                                                 *)
(***************************************************************************)
EXTENDS MissionTaskCoordinator, FaultCoordinator, FiniteSets

ASSUME CallersAssumption == IsFiniteSet(Callers)

vars == <<gateVars, recorderVars, missionVars, faultVars>>

Init ==
    /\ GateInit
    /\ RecorderInit
    /\ MissionInit
    /\ FaultInit

\* _publish_frame, to the recorder's listener.
PublishFrame ==
    /\ \E revision \in 1 .. MaxRevision, changed \in BOOLEAN :
           OnFrame(revision, changed)
    /\ UNCHANGED <<gateVars, missionVars, faultVars>>

\* POST /api/faults, by a thread that is not inside of another call.
RequestFault ==
    /\ \E c \in Callers : call[c] = OutsideCall
    /\ \E f \in Faults : SubmitFault(f)
    /\ UNCHANGED missionVars

Next ==
    \/ MissionNext /\ UNCHANGED faultVars
    \/ FaultNext /\ UNCHANGED missionVars
    \/ RequestFault
    \/ PublishFrame

\* Threads inside of a section or between two go on, and runners end: the
\* graph counts its steps and bounds its waits, a scenario its requests.
Fairness ==
    /\ \A c \in Callers : WF_vars(CallerSteps(c) /\ UNCHANGED faultVars)
    /\ WF_vars(MissionWorker /\ UNCHANGED faultVars)
    /\ WF_vars(RunnerEnds /\ UNCHANGED faultVars)
    /\ WF_vars(FaultWorker /\ UNCHANGED missionVars)
    /\ WF_vars(FaultRunEnds /\ UNCHANGED missionVars)

Spec == Init /\ [][Next]_vars

FairSpec == Spec /\ Fairness

-----------------------------------------------------------------------------
(* Properties.                                                             *)

FrameSample == [revision : Nat, reason : {"start", "change", "terminal"}]

CallState == {OutsideCall} \cup [op : {"submit", "cancel"}, run : Missions]

\* Every variable keeps the shape the classes give it.
TypeOK ==
    /\ lease \in Runs \cup {NoRun} /\ issued \subseteq Runs
    /\ recorderState \in {"idle", "recording", "ready", "invalid"}
    /\ capture \in [run : Runs \cup {NoRun}, frames : Seq(FrameSample),
                   truncated : BOOLEAN]
    /\ latestFrame \in 0 .. MaxRevision
    /\ bundle \in [run : Runs \cup {NoRun}, frames : Seq(FrameSample),
                  verdict : FinalStatus \cup FaultResult \cup {"none"}]
    /\ currentMission \in Missions \cup {NoRun}
    /\ missionStatus \in {"none", "accepted", "running", "finished"}
    /\ journal \in Seq({"user_goal", "step"} \cup FinalStatus)
    /\ missionFinal \in FinalStatus \cup {"none"}
    /\ activeMission \in Missions \cup {NoRun}
    /\ cancelSet \subseteq Missions
    /\ missionQueue \in Seq(Missions)
    /\ missionTask \in Missions \cup {NoRun}
    /\ missionPc \in {"idle", "running", "returned", "concluding",
                      "finishing", "notifying", "releasing"}
    /\ missionResult \in FinalStatus \cup {"none"}
    /\ call \in [Callers -> CallState]
    /\ handled \in [Missions -> Nat]
    /\ currentFault \in Faults \cup {NoRun}
    /\ faultStatus \in {"none", "accepted", "running", "finished"}
    /\ evidence \in 0 .. MaxEvidence
    /\ finalRecorded \in BOOLEAN
    /\ faultFinal \in FaultResult \cup {"none"}
    /\ activeFault \in Faults \cup {NoRun}
    /\ faultQueue \in Seq(Faults)
    /\ faultTask \in Faults \cup {NoRun}
    /\ faultPc \in {"idle", "announcing", "running", "cleaning", "finishing",
                    "notifying", "releasing"}
    /\ faultResult \in FaultResult \cup {"none"}

\* The runs somebody still has work to do for: a caller inside of submit, an
\* executor's queue, a worker anywhere before it has let go of the gate.
InProgress ==
    {call[c].run : c \in {d \in Callers : call[d].op = "submit"}}
        \cup ToSet(missionQueue) \cup ToSet(faultQueue)
        \cup (IF missionPc = "idle" THEN {} ELSE {missionTask})
        \cup (IF faultPc = "idle" THEN {} ELSE {faultTask})

\* Whatever is in progress holds the gate, so a mission and a fault scenario
\* are never in progress together, not even while one of them is only being
\* recorded (run_gate.py: acquire first, release last).
OneRunInProgress == \A r \in InProgress : lease = r

\* An open capture belongs to the run that holds the gate: a run's frames are
\* never recorded under another run, and none is left open behind it.
CaptureOwned ==
    recorderState = "recording" => capture.run # NoRun /\ lease = capture.run

\* A cancel request that was accepted is honoured whatever the runner answers
\* and whenever it came: the mission's final event says cancelled, unless it
\* says emergency_stop (mission.py, _emit).
CancelHonoured ==
    currentMission \in cancelSet /\ HasFinal
        => Last(journal) \in {"cancelled", "emergency_stop"}

FinalEvents == {i \in DOMAIN journal : journal[i] \in FinalStatus}

\* A mission's journal has one final event at most, and a finished mission's
\* ends with it and agrees with the snapshot's verdict.
OneFinalEvent ==
    /\ Cardinality(FinalEvents) <= 1
    /\ missionStatus = "finished" => HasFinal /\ missionFinal = Last(journal)

\* The cancel handler runs once for a mission whose cancelling was accepted,
\* however many requests there are, and never for another (mission.py:377,
\* "exactly once").
CancelRelayedOnce ==
    \A m \in Missions :
        LET relaying == {c \in Callers : call[c] = [op |-> "cancel", run |-> m]}
        IN  handled[m] + Cardinality(relaying) = (IF m \in cancelSet THEN 1 ELSE 0)

\* The final evidence of a fault run is never lost to a full journal.
FinalEvidenceKept == faultStatus = "finished" => finalRecorded

\* While no run is in progress, a bundle on offer is that of a coordinator's
\* last run, with the verdict its own journal or snapshot gives.
BundleOfLastRun ==
    recorderState = "ready" /\ lease = NoRun =>
        \/ bundle.run = currentMission /\ bundle.verdict = Last(journal)
        \/ bundle.run = currentFault /\ bundle.verdict = faultFinal

\* A recording only fails for want of any frame at all: neither a full capture
\* nor the terminal sample nor another run's beginning can spoil it.
RecordingKept ==
    [][recorderState # "invalid" /\ recorderState' = "invalid"
           => latestFrame = 0]_vars

\* The verdict of the run that holds the gate, as its journal or snapshot has
\* it so far.
VerdictSoFar ==
    IF lease \in Missions /\ HasFinal THEN Last(journal)
    ELSE IF lease \in Faults /\ faultStatus = "finished" THEN faultFinal
    ELSE "none"

Abstract == INSTANCE SingleRun WITH
    Run <- Runs, NoOne <- NoRun,
    Verdict <- FinalStatus \cup FaultResult,
    Honours <- {"cancelled", "emergency_stop"},
    owner <- lease, begun <- issued, asked <- cancelSet,
    verdict <- VerdictSoFar

\* The coordinators keep what SingleRun promises, its fairness included: each
\* run gets a verdict and then lets the next one in.
ImplementsSingleRun == Abstract!Spec

\* Every recording ends.
RecordingEnds == recorderState = "recording" ~> recorderState # "recording"

\* A coordinator that waits for nothing has its evidence ready, as the callers
\* of wait_for_idle take for granted before they read the bundle
\* (acceptance.py:256-260, tests/test_replay.py:355-357).
IdleIsRecorded ==
    activeMission = NoRun /\ activeFault = NoRun => recorderState # "recording"
=============================================================================
