---------------------- MODULE RunCoordinatorsPromises ----------------------
(***************************************************************************)
(* What the inductive invariant of the runs is good for: the coordinators  *)
(* implement SingleRun, a journal has one final event, and a cancel is     *)
(* relayed once.                                                           *)
(***************************************************************************)
EXTENDS RunCoordinatorsProofs, FiniteSetTheorems

\* With at most one number in it, the set of final events has at most one
\* member; a finished mission has it.
THEOREM OneFinalEventHolds == Spec => []OneFinalEvent
<1>1. ASSUME IInv PROVE OneFinalEvent
  <2>1. FinalEvents \subseteq {Len(journal)}
    BY <1>1 DEF IInv, MissionRecord, FinalEvents
  <2>2. IsFiniteSet({Len(journal)}) /\ Cardinality({Len(journal)}) = 1
    BY FS_Singleton
  <2>3. Cardinality(FinalEvents) <= 1
    BY <2>1, <2>2, FS_Subset
  <2>4. QED
    BY <1>1, <2>3 DEF IInv, MissionRecord, OneFinalEvent
<1>2. QED
  BY <1>1, RunsInductive, PTL

-----------------------------------------------------------------------------
(* The coordinators implement SingleRun.                                   *)

\* What the mapping makes of a state: while no run holds the gate there is no
\* verdict, and otherwise it is that of the journal or of the fault snapshot.
LEMMA VerdictOfRun ==
    ASSUME IInv
    PROVE  /\ lease = NoRun => VerdictSoFar = "none"
           /\ lease \in Missions /\ HasFinal =>
                  VerdictSoFar = Last(journal) /\ Last(journal) \in FinalStatus
           /\ lease \in Missions /\ ~HasFinal => VerdictSoFar = "none"
           /\ lease \in Faults /\ faultStatus = "finished" =>
                  VerdictSoFar = faultFinal
           /\ lease \in Faults /\ faultStatus # "finished" =>
                  VerdictSoFar = "none"
BY RunAssumption DEF VerdictSoFar, HasFinal

\* Steps that change nothing the mapping looks at.
LEMMA Stuttering ==
    ASSUME UNCHANGED <<gateVars, cancelSet, journal, faultStatus, faultFinal>>
    PROVE  UNCHANGED Abstract!vars
BY DEF Abstract!vars, VerdictSoFar, HasFinal, gateVars

LEMMA SubmitMissionBegins ==
    ASSUME IInv, IInv', NEW c \in Callers, NEW m \in Missions,
           SubmitMission(c, m)
    PROVE  Abstract!Begin(m)
<1>1. lease = NoRun /\ lease' = m /\ m \notin issued
      /\ issued' = issued \cup {m} /\ cancelSet' = cancelSet
  BY DEF SubmitMission, Acquire
<1>2. ~HasFinal'
  BY DEF SubmitMission, HasFinal, FinalStatus, Last
<1>3. VerdictSoFar = "none" /\ VerdictSoFar' = "none"
  BY <1>1, <1>2, RunAssumption, VerdictOfRun DEF VerdictSoFar
<1>4. QED
  BY <1>1, <1>3 DEF Abstract!Begin

LEMMA SubmitFaultBegins ==
    ASSUME IInv, NEW f \in Faults, SubmitFault(f), UNCHANGED missionVars
    PROVE  Abstract!Begin(f)
<1>1. lease = NoRun /\ lease' = f /\ f \notin issued
      /\ issued' = issued \cup {f} /\ cancelSet' = cancelSet
      /\ faultStatus' = "accepted" /\ f \notin Missions
  BY RunAssumption DEF SubmitFault, Acquire, missionVars
<1>2. VerdictSoFar = "none" /\ VerdictSoFar' = "none"
  BY <1>1, VerdictOfRun DEF VerdictSoFar
<1>3. QED
  BY <1>1, <1>2 DEF Abstract!Begin

LEMMA CancelAsks ==
    ASSUME IInv, NEW c \in Callers, CancelCurrent(c), UNCHANGED faultVars
    PROVE  Abstract!Ask
<1>1. activeMission = lease /\ lease \in Missions /\ lease # NoRun /\ ~HasFinal
  BY DEF CancelCurrent, IInv, TypeOK, MissionStages
<1>2. VerdictSoFar = "none"
  BY <1>1, VerdictOfRun
<1>3. VerdictSoFar' = VerdictSoFar /\ lease' = lease /\ issued' = issued
  BY DEF CancelCurrent, VerdictSoFar, HasFinal, gateVars, faultVars
<1>4. cancelSet' = cancelSet \cup {lease}
  BY <1>1 DEF CancelCurrent
<1>5. QED
  BY <1>1, <1>2, <1>3, <1>4 DEF Abstract!Ask

\* The final event of the mission at work settles it.
LEMMA FinalSettles ==
    ASSUME IInv, NEW v \in FinalStatus, ~HasFinal,
           missionPc \in {"running", "concluding"},
           journal' = Append(journal, Emitted(v)),
           UNCHANGED <<gateVars, cancelSet, faultVars>>
    PROVE  Abstract!SettleSome
<1>1. lease \in Missions /\ lease # NoRun /\ activeMission = lease
  BY WorkerHolds DEF IInv, MissionStages
<1>2. Emitted(v) \in FinalStatus /\ HasFinal' /\ Last(journal') = Emitted(v)
  BY EmittedHonours, JournalOfMission
<1>3. VerdictSoFar = "none" /\ VerdictSoFar' = Emitted(v)
  BY <1>1, <1>2, VerdictOfRun DEF VerdictSoFar, gateVars
<1>4. lease \in cancelSet => Emitted(v) \in {"cancelled", "emergency_stop"}
  BY <1>1, EmittedHonours
<1>5. Abstract!Settle(Emitted(v))
  BY <1>1, <1>3, <1>4 DEF Abstract!Settle, gateVars
<1>6. QED
  BY <1>2, <1>5 DEF Abstract!SettleSome

LEMMA FinishFaultSettles ==
    ASSUME IInv, FinishFault, UNCHANGED missionVars
    PROVE  Abstract!SettleSome
<1>1. /\ lease \in Faults /\ lease \notin Missions /\ lease # NoRun
      /\ faultResult \in FaultResult /\ faultStatus # "finished"
      /\ lease' = lease /\ issued' = issued
  BY FaultHolds DEF FinishFault, OnlyFaultWorker, gateVars, IInv, FaultStages
<1>2. VerdictSoFar = "none" /\ VerdictSoFar' = faultResult
  BY <1>1, VerdictOfRun DEF FinishFault, VerdictSoFar
<1>3. lease \notin cancelSet /\ cancelSet' = cancelSet
  BY <1>1 DEF IInv, TypeOK, missionVars
<1>4. Abstract!Settle(faultResult)
  BY <1>1, <1>2, <1>3 DEF Abstract!Settle
<1>5. QED
  BY <1>1, <1>4 DEF Abstract!SettleSome

LEMMA ReleaseMissionEnds ==
    ASSUME IInv, ReleaseMission
    PROVE  Abstract!End
<1>1. lease \in Missions /\ lease # NoRun /\ lease' = NoRun /\ HasFinal
      /\ issued' = issued /\ cancelSet' = cancelSet
  BY WorkerHolds DEF ReleaseMission, Release, OnlyWorker, IInv, MissionRecord
<1>2. VerdictSoFar \in FinalStatus /\ VerdictSoFar' = "none"
  BY <1>1, VerdictOfRun, RunAssumption DEF VerdictSoFar
<1>3. QED
  BY <1>1, <1>2 DEF Abstract!End, FinalStatus

LEMMA ReleaseFaultEnds ==
    ASSUME IInv, ReleaseFault, UNCHANGED missionVars
    PROVE  Abstract!End
<1>1. lease \in Faults /\ lease # NoRun /\ lease' = NoRun
      /\ faultStatus = "finished" /\ faultFinal \in FaultResult
      /\ issued' = issued /\ cancelSet' = cancelSet
  BY FaultHolds
  DEF ReleaseFault, Release, IInv, FaultStages, missionVars
<1>2. VerdictSoFar \in FaultResult /\ VerdictSoFar' = "none"
  BY <1>1, VerdictOfRun, RunAssumption DEF VerdictSoFar
<1>3. QED
  BY <1>1, <1>2 DEF Abstract!End, FaultResult

\* Every step of the coordinators is a step of SingleRun or none at all.
LEMMA StepImplements ==
    ASSUME IInv, IInv', [Next]_vars
    PROVE  [Abstract!Next]_Abstract!vars
<1>1. ASSUME MissionNext, UNCHANGED faultVars
      PROVE  [Abstract!Next]_Abstract!vars
  <2>1. ASSUME NEW c \in Callers, NEW m \in Missions, SubmitMission(c, m)
        PROVE  Abstract!Next
    BY <2>1, SubmitMissionBegins DEF Abstract!Next, Runs
  <2>2. ASSUME NEW c \in Callers, CancelCurrent(c) PROVE Abstract!Next
    BY <1>1, <2>2, CancelAsks DEF Abstract!Next
  <2>3. ASSUME NEW c \in Callers, CallerSteps(c)
        PROVE  UNCHANGED Abstract!vars
    BY <1>1, <2>3, Stuttering
    DEF CallerSteps, StartMission, CallCancelHandler, gateVars, faultVars
  <2>4. ASSUME TakeMission \/ RunnerEmitsStep \/ RunnerEnds \/ OverrideResult
               \/ FinishMission \/ NotifyMission
        PROVE  UNCHANGED <<gateVars, cancelSet, faultStatus, faultFinal>>
    BY <1>1, <2>4
    DEF TakeMission, RunnerEmitsStep, RunnerEnds, RunnerRaises, RunnerReturns,
        OverrideResult, FinishMission, NotifyMission, OnlyWorker, faultVars
  <2>5. ASSUME TakeMission \/ RunnerEnds \/ OverrideResult
               \/ FinishMission \/ NotifyMission
        PROVE  UNCHANGED Abstract!vars
    BY <2>4, <2>5, Stuttering
    DEF TakeMission, RunnerEnds, RunnerRaises, RunnerReturns,
        OverrideResult, FinishMission, NotifyMission
  <2>6. ASSUME RunnerEmitsStep PROVE UNCHANGED Abstract!vars
    <3>1. ~HasFinal /\ ~HasFinal'
      BY <2>6, JournalOfMission DEF RunnerEmitsStep, FinalStatus
    <3>2. QED
      BY <2>4, <2>6, <3>1 DEF Abstract!vars, VerdictSoFar, gateVars
  <2>7. ASSUME NEW v \in FinalStatus, RunnerEmitsFinal(v) PROVE Abstract!Next
    BY <1>1, <2>7, FinalSettles
    DEF RunnerEmitsFinal, OnlyWorker, Abstract!Next
  <2>8. ASSUME ConcludeJournal PROVE [Abstract!Next]_Abstract!vars
    <3>1. CASE HasFinal
      BY <1>1, <2>8, <3>1, Stuttering
      DEF ConcludeJournal, OnlyWorker, faultVars
    <3>2. CASE ~HasFinal
      <4>1. missionResult \in FinalStatus
        BY <2>8 DEF ConcludeJournal, IInv, MissionRecord
      <4>2. QED
        BY <1>1, <2>8, <3>2, <4>1, FinalSettles
        DEF ConcludeJournal, OnlyWorker, Abstract!Next
    <3>3. QED
      BY <3>1, <3>2
  <2>9. ASSUME ReleaseMission PROVE Abstract!Next
    BY <2>9, ReleaseMissionEnds DEF Abstract!Next
  <2>10. QED
    BY <1>1, <2>1, <2>2, <2>3, <2>5, <2>6, <2>7, <2>8, <2>9
    DEF MissionNext, MissionWorker
<1>2. ASSUME FaultNext, UNCHANGED missionVars
      PROVE  [Abstract!Next]_Abstract!vars
  <2>1. ASSUME FinishFault PROVE Abstract!Next
    BY <1>2, <2>1, FinishFaultSettles DEF Abstract!Next
  <2>2. ASSUME ReleaseFault PROVE Abstract!Next
    BY <1>2, <2>2, ReleaseFaultEnds DEF Abstract!Next
  <2>3. ASSUME TakeFault PROVE UNCHANGED Abstract!vars
    <3>1. lease \in Faults /\ lease \notin Missions /\ faultStatus # "finished"
      BY <2>3, FaultHolds DEF TakeFault, IInv, FaultStages
    <3>2. UNCHANGED <<gateVars, cancelSet>> /\ faultStatus' = "running"
      BY <1>2, <2>3 DEF TakeFault, missionVars
    <3>3. QED
      BY <3>1, <3>2 DEF Abstract!vars, VerdictSoFar, gateVars
  <2>4. ASSUME AnnounceFault \/ RunnerEmitsEvidence \/ FaultRunEnds
               \/ FaultCleansUp \/ NotifyFault
        PROVE  UNCHANGED Abstract!vars
    <3>1. UNCHANGED <<gateVars, faultStatus, faultFinal>>
      BY <2>4
      DEF AnnounceFault, RunnerEmitsEvidence, FaultRunEnds, FaultRunnerEnds,
          FaultCleansUp, CleanUp, NotifyFault, OnlyFaultWorker
    <3>2. QED
      BY <1>2, <3>1, Stuttering DEF missionVars
  <2>5. QED
    BY <1>2, <2>1, <2>2, <2>3, <2>4 DEF FaultNext, FaultWorker
<1>3. ASSUME RequestFault PROVE Abstract!Next
  BY <1>3, SubmitFaultBegins DEF RequestFault, Abstract!Next, Runs
<1>4. ASSUME PublishFrame PROVE UNCHANGED Abstract!vars
  BY <1>4, Stuttering DEF PublishFrame, missionVars, faultVars
<1>5. ASSUME UNCHANGED vars PROVE UNCHANGED Abstract!vars
  BY <1>5, Stuttering DEF vars, missionVars, faultVars
<1>6. QED
  BY <1>1, <1>2, <1>3, <1>4, <1>5 DEF Next

\* The coordinators, the gate and the recorder together run one run at a time,
\* give each a verdict before the next begins and honour every cancel they
\* accepted.
THEOREM CoordinatorsImplementSingleRun == Spec => Abstract!Safety
<1>1. Init => Abstract!Init
  BY RunAssumption
  DEF Init, GateInit, MissionInit, FaultInit, Abstract!Init, VerdictSoFar
<1>2. IInv /\ IInv' /\ [Next]_vars => [Abstract!Next]_Abstract!vars
  BY StepImplements
<1>3. QED
  BY <1>1, <1>2, RunsInductive, PTL DEF Spec, Abstract!Safety

-----------------------------------------------------------------------------
(* A cancel is relayed once.                                               *)

Relaying(m) == {c \in Callers : call[c] = [op |-> "cancel", run |-> m]}

\* Steps that leave the calls to the handler, their count and the cancelled
\* missions alone.
LEMMA NothingRelayed ==
    ASSUME CancelRelayedOnce,
           \A m \in Missions : Relaying(m)' = Relaying(m),
           UNCHANGED <<handled, cancelSet>>
    PROVE  CancelRelayedOnce'
BY DEF CancelRelayedOnce, Relaying

\* The first cancel request of a mission is inside of a call of the handler.
LEMMA CancelRelays ==
    ASSUME TypeOK, CancelRelayedOnce, NEW c \in Callers, CancelCurrent(c)
    PROVE  CancelRelayedOnce'
<1>1. CASE activeMission \in cancelSet
  <2>1. UNCHANGED <<call, cancelSet, handled>>
    BY <1>1 DEF CancelCurrent
  <2>2. QED
    BY <2>1, NothingRelayed DEF Relaying
<1>2. CASE activeMission \notin cancelSet
  <2>1. /\ call' = [call EXCEPT ![c] = [op |-> "cancel", run |-> activeMission]]
        /\ cancelSet' = cancelSet \cup {activeMission}
        /\ handled' = handled /\ activeMission \in Missions
        /\ call[c] = OutsideCall
    BY <1>2 DEF CancelCurrent, TypeOK
  <2>2. SUFFICES ASSUME NEW m \in Missions
                 PROVE  handled[m] + Cardinality(Relaying(m)')
                            = (IF m \in cancelSet' THEN 1 ELSE 0)
    BY <2>1 DEF CancelRelayedOnce, Relaying
  <2>3. handled[m] + Cardinality(Relaying(m)) = (IF m \in cancelSet THEN 1 ELSE 0)
    BY DEF CancelRelayedOnce, Relaying
  <2>4. CASE m = activeMission
    <3>1. Relaying(m)' = Relaying(m) \cup {c} /\ c \notin Relaying(m)
      BY <2>1, <2>4 DEF Relaying, OutsideCall, TypeOK
    <3>2. IsFiniteSet(Relaying(m))
      BY CallersAssumption, FS_Subset DEF Relaying
    <3>3. Cardinality(Relaying(m)') = Cardinality(Relaying(m)) + 1
      BY <3>1, <3>2, FS_AddElement
    <3>4. handled[m] \in Nat /\ Cardinality(Relaying(m)) \in Nat
      BY <3>2, FS_CardinalityType DEF TypeOK
    <3>5. QED
      BY <1>2, <2>1, <2>3, <2>4, <3>3, <3>4
  <2>5. CASE m # activeMission
    <3>1. Relaying(m)' = Relaying(m)
      BY <2>1, <2>5 DEF Relaying, OutsideCall, TypeOK
    <3>2. QED
      BY <2>1, <2>3, <2>5, <3>1
  <2>6. QED
    BY <2>4, <2>5
<1>3. QED
  BY <1>1, <1>2

\* The run a caller cancels is a mission.
LEMMA InsideOfCancel ==
    ASSUME TypeOK, NEW c \in Callers, call[c].op = "cancel"
    PROVE  /\ call[c].run \in Missions
           /\ call[c] = [op |-> "cancel", run |-> call[c].run]
<1>1. call[c] \in CallState /\ call[c] # OutsideCall
  BY DEF TypeOK, OutsideCall
<1>2. call[c] \in [op : {"submit", "cancel"}, run : Missions]
  BY <1>1 DEF CallState
<1>3. QED
  BY <1>2

\* A call of the handler that returns has been made.
LEMMA HandlerCounts ==
    ASSUME TypeOK, CancelRelayedOnce, NEW c \in Callers, CallCancelHandler(c),
           call[c].run \in Missions
    PROVE  CancelRelayedOnce'
<1> DEFINE r == call[c].run
<1>1. /\ call' = [call EXCEPT ![c] = OutsideCall]
      /\ handled' = [handled EXCEPT ![r] = @ + 1]
      /\ cancelSet' = cancelSet
      /\ call[c] = [op |-> "cancel", run |-> r]
  BY InsideOfCancel DEF CallCancelHandler
<1>2. SUFFICES ASSUME NEW m \in Missions
               PROVE  handled'[m] + Cardinality(Relaying(m)')
                          = (IF m \in cancelSet THEN 1 ELSE 0)
  BY <1>1 DEF CancelRelayedOnce, Relaying
<1>3. handled[m] + Cardinality(Relaying(m)) = (IF m \in cancelSet THEN 1 ELSE 0)
  BY DEF CancelRelayedOnce, Relaying
<1>4. handled \in [Missions -> Nat] /\ r \in Missions
  BY DEF TypeOK
<1>5. CASE m = r
  <2>1. Relaying(m)' = Relaying(m) \ {c} /\ c \in Relaying(m)
    BY <1>1, <1>5 DEF Relaying, OutsideCall, TypeOK
  <2>2. IsFiniteSet(Relaying(m))
    BY CallersAssumption, FS_Subset DEF Relaying
  <2>3. Cardinality(Relaying(m)') = Cardinality(Relaying(m)) - 1
    BY <2>1, <2>2, FS_RemoveElement
  <2>4. Cardinality(Relaying(m)) \in Nat
    BY <2>2, FS_CardinalityType
  <2>5. handled'[m] = handled[m] + 1 /\ handled[m] \in Nat
    BY <1>1, <1>4, <1>5
  <2>6. QED
    BY <1>3, <2>3, <2>4, <2>5
<1>6. CASE m # r
  <2>1. Relaying(m)' = Relaying(m)
    BY <1>1, <1>6 DEF Relaying, OutsideCall, TypeOK
  <2>2. handled'[m] = handled[m]
    BY <1>1, <1>4, <1>6
  <2>3. QED
    BY <1>3, <2>1, <2>2
<1>7. QED
  BY <1>5, <1>6

LEMMA RelayedOnceStep ==
    ASSUME IInv, CancelRelayedOnce, [Next]_vars
    PROVE  CancelRelayedOnce'
<1>1. TypeOK
  BY DEF IInv
<1>2. ASSUME UNCHANGED <<call, cancelSet, handled>> PROVE CancelRelayedOnce'
  BY <1>2, NothingRelayed DEF Relaying
<1>3. ASSUME MissionNext, UNCHANGED faultVars PROVE CancelRelayedOnce'
  <2>1. ASSUME NEW c \in Callers, NEW m \in Missions, SubmitMission(c, m)
        PROVE  CancelRelayedOnce'
    <3>1. ASSUME NEW n \in Missions PROVE Relaying(n)' = Relaying(n)
      BY <1>1, <2>1 DEF SubmitMission, Relaying, OutsideCall, TypeOK
    <3>2. QED
      BY <2>1, <3>1, NothingRelayed DEF SubmitMission
  <2>2. ASSUME NEW c \in Callers, StartMission(c) PROVE CancelRelayedOnce'
    <3>1. ASSUME NEW n \in Missions PROVE Relaying(n)' = Relaying(n)
      BY <1>1, <2>2 DEF StartMission, Relaying, OutsideCall, TypeOK
    <3>2. QED
      BY <2>2, <3>1, NothingRelayed DEF StartMission
  <2>3. ASSUME NEW c \in Callers, CallCancelHandler(c)
        PROVE  CancelRelayedOnce'
    <3>1. call[c].run \in Missions
      BY <1>1, <2>3, InsideOfCancel DEF CallCancelHandler
    <3>2. QED
      BY <1>1, <2>3, <3>1, HandlerCounts
  <2>4. ASSUME MissionWorker \/ RunnerEmitsStep \/ RunnerEnds
               \/ (\E v \in FinalStatus : RunnerEmitsFinal(v))
        PROVE  UNCHANGED <<call, cancelSet, handled>>
    BY <2>4
    DEF MissionWorker, TakeMission, OverrideResult, ConcludeJournal,
        FinishMission, NotifyMission, ReleaseMission, RunnerEmitsStep,
        RunnerEnds, RunnerRaises, RunnerReturns, RunnerEmitsFinal, OnlyWorker
  <2>5. QED
    BY <1>1, <1>2, <1>3, <2>1, <2>2, <2>3, <2>4, CancelRelays
    DEF MissionNext, CallerSteps
<1>4. CASE (FaultNext /\ UNCHANGED missionVars) \/ RequestFault \/ PublishFrame
           \/ UNCHANGED vars
  BY <1>2, <1>4 DEF RequestFault, PublishFrame, vars, missionVars
<1>5. QED
  BY <1>3, <1>4 DEF Next

\* However many threads cancel, and however often, the adapter is told once of
\* a mission whose cancelling was accepted.
THEOREM CancelRelayedOnceHolds == Spec => []CancelRelayedOnce
<1>1. Init => CancelRelayedOnce
  <2>1. SUFFICES ASSUME Init, NEW m \in Missions
                 PROVE  handled[m] + Cardinality(Relaying(m))
                            = (IF m \in cancelSet THEN 1 ELSE 0)
    BY DEF CancelRelayedOnce, Relaying
  <2>2. Relaying(m) = {} /\ handled[m] = 0 /\ cancelSet = {}
    BY <2>1 DEF Init, MissionInit, Relaying, OutsideCall
  <2>3. QED
    BY <2>2, FS_EmptySet
<1>2. IInv /\ CancelRelayedOnce /\ [Next]_vars => CancelRelayedOnce'
  BY RelayedOnceStep
<1>3. QED
  BY <1>1, <1>2, RunsInductive, PTL DEF Spec
=============================================================================
