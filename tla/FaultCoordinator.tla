-------------------------- MODULE FaultCoordinator --------------------------
(***************************************************************************)
(* FaultCoordinator: one fault scenario at a time, run by one worker, with *)
(* a bounded journal of evidence.  submit is one section of the lock.  The *)
(* runner emits evidence and returns or raises; the cleanup that restores  *)
(* the device service follows it whatever it did.                          *)
(***************************************************************************)
EXTENDS ReplayRecorder

CONSTANT MaxEvidence  \* MAX_FAULT_EVIDENCE

ASSUME FaultAssumption == MaxEvidence \in Nat \ {0}

VARIABLES
    currentFault,   \* _current.run_id
    faultStatus,    \* _current.status
    evidence,       \* entries in _current.evidence
    finalRecorded,  \* the last of them is the final one
    faultFinal,     \* _current.result
    activeFault,    \* _active_run_id and _run_lease
    faultQueue,     \* runs handed to the executor
    faultTask,      \* the worker's run_id
    faultPc,        \* the worker's next section
    faultResult     \* the worker's result

faultVars == <<currentFault, faultStatus, evidence, finalRecorded, faultFinal,
               activeFault, faultQueue, faultTask, faultPc, faultResult>>

FaultResult == {"passed", "failed"}

FaultInit ==
    /\ currentFault = NoRun
    /\ faultStatus = "none"
    /\ evidence = 0
    /\ finalRecorded = FALSE
    /\ faultFinal = "none"
    /\ activeFault = NoRun
    /\ faultQueue = <<>>
    /\ faultTask = NoRun
    /\ faultPc = "idle"
    /\ faultResult = "none"

\* submit: refused by a busy gate, which changes nothing.
SubmitFault(f) ==
    /\ Acquire(f)
    /\ currentFault' = f
    /\ faultStatus' = "accepted"
    /\ evidence' = 0
    /\ finalRecorded' = FALSE
    /\ faultFinal' = "none"
    /\ activeFault' = f
    /\ faultQueue' = Append(faultQueue, f)
    /\ UNCHANGED <<faultTask, faultPc, faultResult, recorderVars>>

\* _run, first section.
TakeFault ==
    /\ faultPc = "idle"
    /\ faultQueue # <<>>
    /\ currentFault = Head(faultQueue)
    /\ faultTask' = Head(faultQueue)
    /\ faultQueue' = Tail(faultQueue)
    /\ faultStatus' = "running"
    /\ faultResult' = "failed"
    /\ faultPc' = "announcing"
    /\ UNCHANGED <<currentFault, evidence, finalRecorded, faultFinal,
                   activeFault, gateVars, recorderVars>>

\* What the sections after it leave alone.
OnlyFaultWorker ==
    /\ UNCHANGED <<currentFault, faultQueue, faultTask, gateVars>>

\* _notify_run: the recorder starts its capture.
AnnounceFault ==
    /\ faultPc = "announcing"
    /\ StartCapture(faultTask)
    /\ faultPc' = "running"
    /\ UNCHANGED <<faultStatus, evidence, finalRecorded, faultFinal,
                   activeFault, faultResult>>
    /\ OnlyFaultWorker

\* Mutants of _emit: nothing bounds the journal; no entry is kept back for
\* the final one.
EmitWithoutLimit ==
    /\ faultPc = "running"
    /\ evidence <= MaxEvidence
    /\ evidence' = evidence + 1
    /\ UNCHANGED <<faultStatus, finalRecorded, faultFinal, activeFault,
                   faultResult, faultPc, recorderVars>>
    /\ OnlyFaultWorker

EmitUpToTheLimit ==
    /\ faultPc = "running"
    /\ IF evidence < MaxEvidence
       THEN /\ evidence' = evidence + 1
            /\ UNCHANGED <<faultResult, faultPc>>
       ELSE /\ faultResult' = "failed"
            /\ faultPc' = "cleaning"
            /\ UNCHANGED evidence
    /\ UNCHANGED <<faultStatus, finalRecorded, faultFinal, activeFault,
                   recorderVars>>
    /\ OnlyFaultWorker

\* _emit by the runner: the last entry is kept for the final evidence, and
\* the overflow it raises ends the runner with "failed".
RunnerEmitsEvidence ==
    /\ faultPc = "running"
    /\ IF evidence < MaxEvidence - 1
       THEN /\ evidence' = evidence + 1
            /\ UNCHANGED <<faultResult, faultPc>>
       ELSE /\ faultResult' = "failed"
            /\ faultPc' = "cleaning"
            /\ UNCHANGED evidence
    /\ UNCHANGED <<faultStatus, finalRecorded, faultFinal, activeFault,
                   recorderVars>>
    /\ OnlyFaultWorker

\* The runner returns; raising anything else is returning "failed".
FaultRunnerEnds(result) ==
    /\ faultPc = "running"
    /\ faultResult' = result
    /\ faultPc' = "cleaning"
    /\ UNCHANGED <<faultStatus, evidence, finalRecorded, faultFinal,
                   activeFault, recorderVars>>
    /\ OnlyFaultWorker

\* cleanup_handler: its failure is the result of the run.
CleanUp(succeeds) ==
    /\ faultPc = "cleaning"
    /\ faultResult' = IF succeeds THEN faultResult ELSE "failed"
    /\ faultPc' = "finishing"
    /\ UNCHANGED <<faultStatus, evidence, finalRecorded, faultFinal,
                   activeFault, recorderVars>>
    /\ OnlyFaultWorker

\* The finally section: final evidence, finished snapshot, idle coordinator.
FinishFault ==
    /\ faultPc = "finishing"
    /\ IF evidence < MaxEvidence
       THEN evidence' = evidence + 1 /\ finalRecorded' = TRUE
       ELSE UNCHANGED <<evidence, finalRecorded>>
    /\ faultStatus' = "finished"
    /\ faultFinal' = faultResult
    /\ activeFault' = NoRun
    /\ faultPc' = "notifying"
    /\ UNCHANGED <<faultResult, recorderVars>>
    /\ OnlyFaultWorker

NotifyFault ==
    /\ faultPc = "notifying"
    /\ Complete(faultTask, faultFinal)
    /\ faultPc' = "releasing"
    /\ UNCHANGED <<faultStatus, evidence, finalRecorded, faultFinal,
                   activeFault, faultResult>>
    /\ OnlyFaultWorker

ReleaseFault ==
    /\ faultPc = "releasing"
    /\ Release(faultTask)
    /\ faultPc' = "idle"
    /\ UNCHANGED <<currentFault, faultStatus, evidence, finalRecorded,
                   faultFinal, activeFault, faultQueue, faultTask,
                   faultResult, recorderVars>>

\* Everything the worker does by itself; that the runner and the cleanup end
\* is part of it.
FaultRunEnds == \E result \in FaultResult : FaultRunnerEnds(result)

FaultCleansUp == \E succeeds \in BOOLEAN : CleanUp(succeeds)

FaultWorker ==
    \/ TakeFault
    \/ AnnounceFault
    \/ FaultCleansUp
    \/ FinishFault
    \/ NotifyFault
    \/ ReleaseFault

FaultNext == FaultWorker \/ RunnerEmitsEvidence \/ FaultRunEnds
=============================================================================
