---------------------- MODULE SimulationAdapterPromises ----------------------
(***************************************************************************)
(* What a client gets from the bridge, proved on top of its inductive      *)
(* invariant: every delivery is answered once, and the bridge implements   *)
(* MotionDevice; a cancelled task stays down and the motions of a task     *)
(* start in order; and, as long as nothing is evicted from the cache of    *)
(* results, a command runs at most once and is always given one answer.    *)
(***************************************************************************)
EXTENDS SimulationAdapterProofs, FiniteSetTheorems

-----------------------------------------------------------------------------
(* Every delivery is answered once.                                        *)

\* The callbacks registered for a payload.
Registered(c) ==
    IF IsPending(c) /\ pending[KeyOf(c)].command = c
    THEN pending[KeyOf(c)].callbacks ELSE 0

LEMMA RegisteredIsNat ==
    ASSUME IInv, NEW c \in Commands PROVE Registered(c) \in Nat
BY DEF IInv, TypeOK, PendingTypes, Registered, IsPending

\* A step that touches no callback, count or pending entry.
LEMMA QuietCallbacks ==
    ASSUME CallbacksConserved, UNCHANGED <<pending, delivered, answered>>
    PROVE  CallbacksConserved'
BY DEF CallbacksConserved, IsPending

\* A delivery answered at once, nothing pending touched.
LEMMA AnsweredAtOnce ==
    ASSUME IInv, CallbacksConserved, NEW c \in Commands, NEW code \in Code,
           Deliver(c), Reply(c, code, 1), UNCHANGED pending
    PROVE  CallbacksConserved'
<1> SUFFICES ASSUME NEW d \in Commands
             PROVE  delivered'[d] = answered'[d] + Registered(d)'
  BY DEF CallbacksConserved, Registered, IsPending
<1>1. delivered[d] = answered[d] + Registered(d)
  BY DEF CallbacksConserved, Registered, IsPending
<1>2. Registered(d)' = Registered(d)
  BY DEF Registered, IsPending
<1>3. delivered'[d] = delivered[d] + (IF d = c THEN 1 ELSE 0)
  BY DEF Deliver, IInv, TypeOK, HistoryTypes
<1>4. answered'[d] = answered[d] + (IF d = c THEN 1 ELSE 0)
  BY DEF Reply, IInv, TypeOK, HistoryTypes
<1>5. delivered[d] \in Nat /\ answered[d] \in Nat /\ Registered(d) \in Nat
  BY RegisteredIsNat DEF IInv, TypeOK, HistoryTypes
<1>6. QED
  BY <1>1, <1>2, <1>3, <1>4, <1>5

\* A delivery whose callback is registered and not called.
LEMMA Registering ==
    ASSUME IInv, CallbacksConserved, NEW c \in Commands, Deliver(c), NoReply,
           \A d \in Commands :
               Registered(d)' = Registered(d) + (IF d = c THEN 1 ELSE 0)
    PROVE  CallbacksConserved'
<1> SUFFICES ASSUME NEW d \in Commands
             PROVE  delivered'[d] = answered'[d] + Registered(d)'
  BY DEF CallbacksConserved, Registered, IsPending
<1>1. delivered[d] = answered[d] + Registered(d)
  BY DEF CallbacksConserved, Registered, IsPending
<1>2. delivered'[d] = delivered[d] + (IF d = c THEN 1 ELSE 0)
  BY DEF Deliver, IInv, TypeOK, HistoryTypes
<1>3. answered'[d] = answered[d]
  BY DEF NoReply
<1>4. delivered[d] \in Nat /\ answered[d] \in Nat /\ Registered(d) \in Nat
  BY RegisteredIsNat DEF IInv, TypeOK, HistoryTypes
<1>5. QED
  BY <1>1, <1>2, <1>3, <1>4

LEMMA SubmitConserves ==
    ASSUME IInv, CallbacksConserved, NEW c \in Commands, Submit(c)
    PROVE  CallbacksConserved'
<1>1. CASE SubmitCached(c)
  <2>1. PICK code \in Code : Reply(c, code, 1)
    BY <1>1 DEF IInv, TypeOK, ResultTypes, SubmitCached, Cached, Code
  <2>2. QED
    BY <1>1, <2>1, AnsweredAtOnce DEF SubmitCached
<1>2. CASE SubmitCancelled(c)
  <2>1. "operator_cancelled" \in Code
    BY DEF Code
  <2>2. QED
    BY <1>2, <2>1, AnsweredAtOnce DEF SubmitCancelled
<1>3. CASE SubmitPending(c)
  <2>1. CASE pending[KeyOf(c)].command = c
    <3>1. Deliver(c) /\ NoReply /\ AddCallback(c) /\ IsPending(c)
      BY <1>3, <2>1 DEF SubmitPending
    <3>2. ASSUME NEW d \in Commands
          PROVE  Registered(d)' = Registered(d) + (IF d = c THEN 1 ELSE 0)
      BY <2>1, <3>1 DEF AddCallback, Registered, IsPending, IInv, TypeOK, PendingTypes
    <3>3. QED
      BY <3>1, <3>2, Registering
  <2>2. CASE pending[KeyOf(c)].command # c
    <3>1. "duplicate_conflict" \in Code
      BY DEF Code
    <3>2. QED
      BY <1>3, <2>2, <3>1, AnsweredAtOnce DEF SubmitPending
  <2>3. QED
    BY <2>1, <2>2
<1>4. CASE SubmitStale(c)
  <2>1. "stale_sequence" \in Code
    BY DEF Code
  <2>2. QED
    BY <1>4, <2>1, AnsweredAtOnce DEF SubmitStale
<1>5. CASE SubmitImmediate(c)
  <2>1. ImmediateCodes(c) \subseteq Code
    BY DEF ImmediateCodes, SafetyDecisions, Code
  <2>2. PICK code \in Code : Reply(c, code, 1)
    BY <1>5, <2>1 DEF SubmitImmediate
  <2>3. QED
    BY <1>5, <2>2, AnsweredAtOnce DEF SubmitImmediate
<1>6. CASE SubmitEmergency(c) \/ SubmitMotion(c)
  <2>1. Deliver(c) /\ Enroll(c) /\ ~IsPending(c)
    BY <1>6 DEF SubmitEmergency, SubmitMotion, Fresh
  <2>2. ASSUME NEW d \in Commands
        PROVE  Registered(d)' = Registered(d) + (IF d = c THEN 1 ELSE 0)
    BY <2>1 DEF Enroll, Entry, Registered, IsPending, IInv, TypeOK, PendingTypes
  <2>3. QED
    BY <2>1, <2>2, Registering DEF Enroll
<1>7. QED
  BY <1>1, <1>2, <1>3, <1>4, <1>5, <1>6 DEF Submit

\* A completed command gives its callbacks up for as many answers.
LEMMA AnswerConserves ==
    ASSUME IInv, CallbacksConserved, Answer PROVE CallbacksConserved'
<1> SUFFICES ASSUME NEW d \in Commands
             PROVE  delivered'[d] = answered'[d] + Registered(d)'
  BY DEF CallbacksConserved, Registered, IsPending
<1>1. PICK key \in DOMAIN work : Complete(key, work[key])
  BY DEF Answer
<1>2. key \in DOMAIN pending
  BY <1>1 DEF IInv, Ownership
<1>3. PICK c \in Commands : c = pending[key].command /\ KeyOf(c) = key
  BY <1>2 DEF IInv, TypeOK, PendingTypes
<1>4. pending[key].callbacks \in Nat
  BY <1>2 DEF IInv, TypeOK, PendingTypes
<1>5. delivered'[d] = delivered[d]
  BY DEF Answer
<1>6. answered'[d] = answered[d] + (IF d = c THEN pending[key].callbacks ELSE 0)
  BY <1>1, <1>3, <1>4 DEF Complete, Reply, IInv, TypeOK, HistoryTypes
<1>7. Registered(d)' = IF d = c THEN 0 ELSE Registered(d)
  BY <1>1, <1>2, <1>3 DEF Complete, Registered, IsPending
<1>8. d = c => Registered(d) = pending[key].callbacks
  BY <1>2, <1>3 DEF Registered, IsPending
<1>9. delivered[d] = answered[d] + Registered(d)
  BY DEF CallbacksConserved, Registered, IsPending
<1>10. delivered[d] \in Nat /\ answered[d] \in Nat /\ Registered(d) \in Nat
  BY RegisteredIsNat DEF IInv, TypeOK, HistoryTypes
<1>11. QED
  BY <1>4, <1>5, <1>6, <1>7, <1>8, <1>9, <1>10

\* The rest of the system registers and calls no callback.
LEMMA OthersConserve ==
    ASSUME CallbacksConserved, [Next]_vars,
           ~ \E c \in Commands : Submit(c), ~ Answer
    PROVE  CallbacksConserved'
<1>1. CASE LoopStep
  BY <1>1, QuietCallbacks
  DEF LoopStep, NoEmergency, LatchEmergency, Halt, ExpireQueued, SkipCancellation,
      SelectCancelled, Withdraw, KeepActive, TimeoutActive, NothingToStart,
      PopMotion, Start, Advance, AfterTick, Reboot, tableVars, historyVars
<1>2. CASE \E t \in Cancellable : CancelTask(t)
  BY <1>2, QuietCallbacks DEF CancelTask, tableVars, historyVars
<1>3. CASE Reset \/ PauseOrResume
  BY <1>3, QuietCallbacks DEF Reset, PauseOrResume, tableVars, historyVars
<1>4. CASE (\E c \in Aging : Age(c)) \/ Overrun
  BY <1>4, QuietCallbacks DEF Age, Overrun, tableVars, historyVars
<1>5. CASE UNCHANGED vars
  BY <1>5, QuietCallbacks DEF vars, tableVars, historyVars
<1>6. QED
  BY <1>1, <1>2, <1>3, <1>4, <1>5 DEF Next

\* Every delivery's callback is called exactly once or still registered, for
\* any number of deliveries: duplicates joining a pending command, conflicts,
\* resets and emergencies included.
THEOREM EveryDeliveryCounted == Spec => []CallbacksConserved
<1>1. Init => CallbacksConserved
  <2> SUFFICES ASSUME Init, NEW c \in Commands
               PROVE  delivered[c] = answered[c] + Registered(c)
    BY DEF CallbacksConserved, Registered, IsPending
  <2>1. DOMAIN pending = {} /\ delivered[c] = 0 /\ answered[c] = 0
    BY DEF Init
  <2>2. QED
    BY <2>1 DEF Registered, IsPending
<1>2. IInv /\ CallbacksConserved /\ [Next]_vars => CallbacksConserved'
  BY SubmitConserves, AnswerConserves, OthersConserve
<1>3. QED
  BY <1>1, <1>2, Inductive, PTL DEF Spec

-----------------------------------------------------------------------------
(* The bridge implements MotionDevice.                                     *)

\* How a step of the bridge looks to the abstract device: no key changes its
\* phase, or a set of keys comes to its outcome.
LEMMA SamePhases ==
    ASSUME stopped' = stopped, \A k \in Keys : Phase(k)' = Phase(k)
    PROVE  UNCHANGED Device!deviceVars
BY DEF Device!deviceVars

LEMMA Decided ==
    ASSUME NEW S \in SUBSET Keys, stopped' = stopped,
           \A k \in S : Phase(k) \in {"waiting", "moving"},
           \A k \in Keys : Phase(k)' = IF k \in S THEN "ending" ELSE Phase(k)
    PROVE  Device!DeviceNext
<1>1. Device!Decide(S)
  BY DEF Device!Decide, Device!Ending
<1>2. QED
  BY <1>1 DEF Device!DeviceNext

\* Steps that leave the pending keys, the motion and the answers alone.
LEMMA SameParts ==
    ASSUME DOMAIN pending' = DOMAIN pending, DOMAIN work' = DOMAIN work,
           UNCHANGED <<action, activeKey, stopped>>
    PROVE  UNCHANGED Device!deviceVars
<1>1. ASSUME NEW k \in Keys PROVE Phase(k)' = Phase(k)
  BY DEF Phase
<1>2. QED
  BY <1>1, SamePhases

LEMMA SubmitMaps ==
    ASSUME IInv, NEW c \in Commands, Submit(c)
    PROVE  Device!DeviceNext \/ UNCHANGED Device!deviceVars
<1>1. UNCHANGED <<action, activeKey, stopped, work>>
  BY DEF Submit, SubmitCached, SubmitCancelled, SubmitPending, SubmitStale,
         SubmitImmediate, SubmitEmergency, SubmitMotion, Deliver, engineVars
<1>2. CASE SubmitEmergency(c) \/ SubmitMotion(c)
  <2>1. Enroll(c) /\ ~IsPending(c) /\ KeyOf(c) \in Keys /\ KeyOf(c) # NoKey
    BY <1>2, KeyOfCommand DEF SubmitEmergency, SubmitMotion, Fresh
  <2>2. KeyOf(c) # activeKey /\ KeyOf(c) \notin DOMAIN work
    BY <2>1 DEF IsPending, IInv, Ownership
  <2>3. Phase(KeyOf(c)) = "unknown"
    BY <2>1 DEF Phase, IsPending
  <2>4. ASSUME NEW k \in Keys
        PROVE  Phase(k)' = IF k = KeyOf(c) THEN "waiting" ELSE Phase(k)
    BY <1>1, <2>1, <2>2 DEF Phase, Enroll
  <2>5. Device!Accept(KeyOf(c))
    BY <1>1, <2>1, <2>3, <2>4 DEF Device!Accept
  <2>6. QED
    BY <2>1, <2>5 DEF Device!DeviceNext
<1>3. CASE ~(SubmitEmergency(c) \/ SubmitMotion(c))
  <2>1. DOMAIN pending' = DOMAIN pending
    BY <1>3 DEF Submit, SubmitCached, SubmitCancelled, SubmitPending, SubmitStale,
                SubmitImmediate, AddCallback
  <2>2. QED
    BY <1>1, <2>1, SameParts
<1>4. QED
  BY <1>2, <1>3

\* Calling the callbacks of a key delivers its outcome.
LEMMA AnswerMaps ==
    ASSUME IInv, Answer PROVE Device!DeviceNext
<1>1. PICK key \in DOMAIN work :
          /\ Complete(key, work[key])
          /\ DOMAIN work' = DOMAIN work \ {key}
  BY DEF Answer
<1>2. /\ UNCHANGED <<action, stopped>> /\ DOMAIN pending' = DOMAIN pending \ {key}
      /\ activeKey' = ActiveAfter(key) /\ pc # "withdraw"
  BY <1>1 DEF Answer, Complete, engineVars
<1>3. key \in Keys /\ key \in DOMAIN pending
  BY <1>1 DEF IInv, Ownership, TypeOK, LoopTypes
<1>4. Phase(key) = "ending"
  BY <1>1, <1>2, <1>3 DEF Phase, IInv, EngineAgreement
<1>5. ASSUME NEW k \in Keys
      PROVE  Phase(k)' = IF k = key THEN "unknown" ELSE Phase(k)
  BY <1>1, <1>2, NoKeyIsNoKey DEF Phase, ActiveAfter
<1>6. Device!Deliver(key)
  BY <1>2, <1>3, <1>4, <1>5 DEF Device!Deliver
<1>7. QED
  BY <1>3, <1>6 DEF Device!DeviceNext

\* Both queues are emptied: what waited there will not move.
LEMMA LatchMaps ==
    ASSUME IInv, LatchEmergency PROVE Device!DeviceNext
<1>1. /\ UNCHANGED <<action, activeKey, stopped, pending>>
      /\ DOMAIN work = {} /\ DOMAIN work' = DOMAIN normalQueue \cup emergencyQueue
  BY DEF LatchEmergency, Ready, Interrupted, engineVars, tableVars
<1>2. DOMAIN work' \subseteq Keys /\ activeKey \notin DOMAIN work'
      /\ DOMAIN work' \subseteq DOMAIN pending
  BY <1>1, NoKeyIsNoKey DEF IInv, Ownership, TypeOK, QueueTypes
<1>3. PICK S \in SUBSET Keys : S = DOMAIN work'
  BY <1>2
<1>4. \A k \in S : Phase(k) \in {"waiting", "moving"}
  BY <1>1, <1>2, <1>3 DEF Phase
<1>5. ASSUME NEW k \in Keys
      PROVE  Phase(k)' = IF k \in S THEN "ending" ELSE Phase(k)
  BY <1>1, <1>2, <1>3 DEF Phase
<1>6. QED
  BY <1>1, <1>4, <1>5, Decided

LEMMA HaltMaps ==
    ASSUME IInv, Halt PROVE Device!DeviceNext
<1>1. /\ UNCHANGED <<activeKey, pending>> /\ stopped' = TRUE /\ action' = NoCommand
      /\ \A k \in Keys : k \in DOMAIN work' <=>
             k \in DOMAIN work \/ (action # NoCommand /\ k = activeKey)
  BY NoKeyIsNoKey DEF Halt, CancelAction, tableVars, IInv, TypeOK, EngineTypes
<1>2. action # NoCommand => activeKey \in DOMAIN pending
  BY MovingIsPending
<1>3. ASSUME NEW k \in Keys
      PROVE  Phase(k)' = IF Phase(k) = "moving" THEN "ending" ELSE Phase(k)
  BY <1>1, <1>2 DEF Phase
<1>4. Device!Halt
  BY <1>1, <1>3 DEF Device!Halt, Device!Moving, Device!Ending
<1>5. QED
  BY <1>4 DEF Device!DeviceNext

LEMMA ExpireMaps ==
    ASSUME IInv, ExpireQueued PROVE Device!DeviceNext
<1>1. /\ UNCHANGED <<action, activeKey, stopped, pending>>
      /\ DOMAIN work = {} /\ DOMAIN work' = LateKeys
  BY DEF ExpireQueued, Ready, Assigned, engineVars, tableVars
<1>2. /\ LateKeys \subseteq Keys /\ LateKeys \subseteq DOMAIN pending
      /\ activeKey \notin LateKeys
  BY NoKeyIsNoKey DEF LateKeys, IInv, Ownership, TypeOK, QueueTypes
<1>3. PICK S \in SUBSET Keys : S = LateKeys
  BY <1>2
<1>4. \A k \in S : Phase(k) \in {"waiting", "moving"}
  BY <1>1, <1>2, <1>3 DEF Phase
<1>5. ASSUME NEW k \in Keys
      PROVE  Phase(k)' = IF k \in S THEN "ending" ELSE Phase(k)
  BY <1>1, <1>2, <1>3 DEF Phase
<1>6. QED
  BY <1>1, <1>4, <1>5, Decided

\* The waiting commands of a cancelled task come to their end here, the moving
\* one when the engine is stopped.
LEMMA SelectCancelledMaps ==
    ASSUME IInv, SelectCancelled PROVE Device!DeviceNext
<1>1. /\ UNCHANGED <<action, activeKey, stopped, pending>>
      /\ DOMAIN work = {} /\ DOMAIN work' \subseteq DOMAIN pending
      /\ pc = "cancel"
  BY DEF SelectCancelled, Ready, Assigned, engineVars, tableVars
<1>2. DOMAIN work' \subseteq Keys
  BY <1>1 DEF IInv, TypeOK, PendingTypes
<1>3. activeKey # NoKey => action # NoCommand
  BY <1>1 DEF IInv, EngineAgreement
<1>4. PICK S \in SUBSET Keys : S = DOMAIN work' \ {activeKey}
  BY <1>2
<1>5. \A k \in S : Phase(k) \in {"waiting", "moving"}
  BY <1>1, <1>4 DEF Phase
<1>6. ASSUME NEW k \in Keys
      PROVE  Phase(k)' = IF k \in S THEN "ending" ELSE Phase(k)
  BY <1>1, <1>3, <1>4, NoKeyIsNoKey DEF Phase
<1>7. QED
  BY <1>1, <1>5, <1>6, Decided

\* Stopping a motion for another reason than an emergency.
LEMMA MotionDecided ==
    ASSUME IInv, action # NoCommand, action' = NoCommand, stopped' = stopped,
           UNCHANGED pending, activeKey' = activeKey,
           DOMAIN work' = DOMAIN work \cup {activeKey} \/ DOMAIN work' = DOMAIN work
    PROVE  Device!DeviceNext
<1>1. activeKey # NoKey /\ activeKey \in DOMAIN pending
  BY MovingIsPending
<1>2. activeKey \in Keys
  BY <1>1 DEF IInv, TypeOK, LoopTypes
<1>3. PICK S \in SUBSET Keys : S = {activeKey}
  BY <1>2
<1>4. \A k \in S : Phase(k) \in {"waiting", "moving"}
  BY <1>1, <1>3 DEF Phase
<1>5. ASSUME NEW k \in Keys
      PROVE  Phase(k)' = IF k \in S THEN "ending" ELSE Phase(k)
  BY <1>1, <1>3 DEF Phase
<1>6. QED
  BY <1>4, <1>5, Decided

LEMMA WithdrawMaps ==
    ASSUME IInv, Withdraw
    PROVE  Device!DeviceNext \/ UNCHANGED Device!deviceVars
<1>1. UNCHANGED <<pending, activeKey, work>>
  BY DEF Withdraw, tableVars
<1>2. CASE action # NoCommand /\ activeKey \in DOMAIN work
  <2>1. action' = NoCommand /\ stopped' = stopped
    BY <1>2 DEF Withdraw, CancelAction, IInv, EmergencyHolds, TypeOK, EngineTypes
  <2>2. QED
    BY <1>1, <1>2, <2>1, MotionDecided
<1>3. CASE action = NoCommand \/ activeKey \notin DOMAIN work
  <2>1. UNCHANGED <<action, stopped>>
    BY <1>3 DEF Withdraw, CancelAction, engineVars, IInv, TypeOK, EngineTypes
  <2>2. QED
    BY <1>1, <2>1, SameParts
<1>4. QED
  BY <1>2, <1>3

LEMMA TimeoutMaps ==
    ASSUME IInv, TimeoutActive
    PROVE  Device!DeviceNext \/ UNCHANGED Device!deviceVars
<1>1. UNCHANGED <<pending, activeKey>> /\ DOMAIN work = {} /\ action' = NoCommand
  BY DEF TimeoutActive, Ready, CancelAction, tableVars
<1>2. stopped' = stopped
  BY DEF TimeoutActive, CancelAction, IInv, EmergencyHolds, TypeOK, EngineTypes
<1>3. CASE action # NoCommand
  <2>1. DOMAIN work' = {activeKey}
    BY <1>3 DEF TimeoutActive, Assigned
  <2>2. QED
    BY <1>1, <1>2, <1>3, <2>1, MotionDecided
<1>4. CASE action = NoCommand
  <2>1. DOMAIN work' = {}
    BY <1>4 DEF TimeoutActive, NoWork
  <2>2. QED
    BY <1>1, <1>2, <1>4, <2>1, SameParts
<1>5. QED
  BY <1>3, <1>4

LEMMA PopMaps ==
    ASSUME IInv, PopMotion
    PROVE  Device!DeviceNext \/ UNCHANGED Device!deviceVars
<1>1. /\ UNCHANGED <<action, stopped, pending, activeKey>>
      /\ DOMAIN work = {} /\ activeKey = NoKey
  BY DEF PopMotion, Ready, engineVars, tableVars
<1>2. PICK key \in DOMAIN normalQueue :
          UNCHANGED work \/ DOMAIN work' = {key}
  BY DEF PopMotion, Assigned
<1>3. key \in Keys /\ key \in DOMAIN pending
  BY <1>2 DEF IInv, TypeOK, QueueTypes, Ownership
<1>4. CASE UNCHANGED work
  BY <1>1, <1>4, SameParts
<1>5. CASE DOMAIN work' = {key}
  <2>1. PICK S \in SUBSET Keys : S = {key}
    BY <1>3
  <2>2. \A k \in S : Phase(k) \in {"waiting", "moving"}
    BY <1>1, <1>3, <2>1, NoKeyIsNoKey DEF Phase
  <2>3. ASSUME NEW k \in Keys
        PROVE  Phase(k)' = IF k \in S THEN "ending" ELSE Phase(k)
    BY <1>1, <1>3, <1>5, <2>1, NoKeyIsNoKey DEF Phase
  <2>4. QED
    BY <1>1, <2>2, <2>3, Decided
<1>6. QED
  BY <1>2, <1>4, <1>5

\* A motion starts only on a robot that stands and is not stopped; one of no
\* length is over at once.
LEMMA StartMaps ==
    ASSUME IInv, Start
    PROVE  Device!DeviceNext \/ UNCHANGED Device!deviceVars
<1>1. /\ UNCHANGED <<pending, work, stopped>> /\ pc = "start"
      /\ ~latched /\ ~stopped
  BY DEF Start, SubmitAction, tableVars, engineVars, IInv, EmergencyHolds
<1>2. /\ chosen \in Keys /\ chosen \in DOMAIN pending
      /\ activeKey = NoKey /\ DOMAIN work = {}
  BY <1>1 DEF IInv, Ownership, TypeOK, LoopTypes
<1>3. activeKey' = chosen /\ SubmitAction(pending[chosen].command)
  BY <1>1 DEF Start
<1>4. Phase(chosen) = "waiting"
  BY <1>2, NoKeyIsNoKey DEF Phase
<1>5. \A k \in Keys : Phase(k) # "moving"
  BY <1>2, NoKeyIsNoKey DEF Phase
<1>6. CASE action' # NoCommand
  <2>1. ASSUME NEW k \in Keys
        PROVE  Phase(k)' = IF k = chosen THEN "moving" ELSE Phase(k)
    BY <1>1, <1>2, <1>3, <1>6, NoKeyIsNoKey DEF Phase
  <2>2. Device!Begin(chosen)
    BY <1>1, <1>2, <1>4, <1>5, <2>1 DEF Device!Begin, Device!Moving
  <2>3. QED
    BY <1>2, <2>2 DEF Device!DeviceNext
<1>7. CASE action' = NoCommand
  <2>1. PICK S \in SUBSET Keys : S = {chosen}
    BY <1>2
  <2>2. \A k \in S : Phase(k) \in {"waiting", "moving"}
    BY <1>4, <2>1
  <2>3. ASSUME NEW k \in Keys
        PROVE  Phase(k)' = IF k \in S THEN "ending" ELSE Phase(k)
    BY <1>1, <1>2, <1>3, <1>7, <2>1, NoKeyIsNoKey DEF Phase
  <2>4. QED
    BY <1>1, <2>2, <2>3, Decided
<1>8. QED
  BY <1>6, <1>7

LEMMA AdvanceMaps ==
    ASSUME IInv, Advance
    PROVE  Device!DeviceNext \/ UNCHANGED Device!deviceVars
<1>1. UNCHANGED <<pending, activeKey, work>>
  BY DEF Advance, tableVars
<1>2. stopped' = stopped
  BY DEF Advance, EngineAdvance, AdvanceIdle, AdvanceMoving, AdvanceEnding,
         FinishAction, engineVars
<1>3. CASE action' = action
  BY <1>1, <1>2, <1>3, SameParts
<1>4. CASE action' # action
  <2>1. action # NoCommand /\ action' = NoCommand
    BY <1>4 DEF Advance, EngineAdvance, AdvanceIdle, AdvanceMoving, AdvanceEnding,
                FinishAction, engineVars
  <2>2. QED
    BY <1>1, <1>2, <2>1, MotionDecided
<1>5. QED
  BY <1>3, <1>4

\* Collecting the completion of a motion changes nothing a client can see.
LEMMA AfterTickMaps ==
    ASSUME IInv, AfterTick PROVE UNCHANGED Device!deviceVars
<1>1. /\ UNCHANGED <<action, stopped, pending, activeKey>>
      /\ DOMAIN work = {} /\ work' = completion
  BY DEF AfterTick, Ready, tableVars
<1>2. DOMAIN work' # {} => DOMAIN work' = {activeKey} /\ action = NoCommand
  BY <1>1 DEF IInv, EngineAgreement
<1>3. ASSUME NEW k \in Keys PROVE Phase(k)' = Phase(k)
  BY <1>1, <1>2 DEF Phase
<1>4. QED
  BY <1>1, <1>3, SamePhases

\* A reset brings every accepted command to its outcome at once.
LEMMA ResetMaps ==
    ASSUME IInv, Reset PROVE Device!DeviceNext
<1>1. /\ UNCHANGED pending /\ activeKey' = NoKey /\ action' = NoCommand
      /\ DOMAIN work' = DOMAIN pending
  BY DEF Reset, CancelAction, Assigned, tableVars
<1>2. stopped' = stopped
  BY DEF Reset, CancelAction, IInv, EmergencyHolds, TypeOK, EngineTypes
<1>3. PICK S \in SUBSET Keys :
          S = {k \in Keys : Phase(k) \in {"waiting", "moving"}}
  OBVIOUS
<1>4. ASSUME NEW k \in Keys
      PROVE  Phase(k)' = IF k \in S THEN "ending" ELSE Phase(k)
  BY <1>1, <1>3, NoKeyIsNoKey DEF Phase
<1>5. QED
  BY <1>2, <1>3, <1>4, Decided

LEMMA RebootMaps ==
    ASSUME IInv, Reboot PROVE Device!DeviceNext
<1>1. /\ UNCHANGED <<pending, work, activeKey>> /\ pc = "reboot"
      /\ action' = NoCommand /\ stopped' = FALSE
  BY DEF Reboot, Ready, EngineReset, tableVars
<1>2. activeKey = NoKey
  BY <1>1 DEF IInv, EngineAgreement
<1>3. ASSUME NEW k \in Keys PROVE Phase(k)' = Phase(k) /\ Phase(k) # "moving"
  BY <1>1, <1>2, NoKeyIsNoKey DEF Phase
<1>4. Device!Restart
  BY <1>1, <1>3 DEF Device!Restart, Device!Moving
<1>5. QED
  BY <1>4 DEF Device!DeviceNext

\* Steps of which a client sees nothing.
LEMMA QuietMaps ==
    ASSUME \/ NoEmergency \/ SkipCancellation \/ KeepActive \/ NothingToStart
           \/ PauseOrResume \/ (\E t \in Cancellable : CancelTask(t))
           \/ (\E c \in Aging : Age(c)) \/ Overrun \/ UNCHANGED vars
    PROVE  UNCHANGED Device!deviceVars
<1>1. UNCHANGED <<pending, work, activeKey, action, stopped>>
  BY DEF NoEmergency, SkipCancellation, KeepActive, NothingToStart, PauseOrResume,
         SetPaused, CancelTask, Age, Overrun, vars, tableVars, engineVars
<1>2. QED
  BY <1>1, SameParts

LEMMA StepMaps ==
    ASSUME IInv, [Next]_vars PROVE [Device!DeviceNext]_Device!deviceVars
<1>1. CASE \E c \in Commands : Submit(c)
  BY <1>1, SubmitMaps
<1>2. CASE LoopStep
  BY <1>2, AnswerMaps, LatchMaps, HaltMaps, ExpireMaps, SelectCancelledMaps,
     WithdrawMaps, TimeoutMaps, PopMaps, StartMaps, AdvanceMaps, AfterTickMaps,
     RebootMaps, QuietMaps DEF LoopStep
<1>3. CASE Reset
  BY <1>3, ResetMaps
<1>4. QED
  BY <1>1, <1>2, <1>3, QuietMaps DEF Next

\* The bridge implements MotionDevice: for every set of commands, queue and
\* cache size, what its threads do together looks to a client like commands
\* that wait, move one at a time and end once, and a robot that halts.
THEOREM BridgeImplementsDevice == Spec => ImplementsDevice
<1>1. Init => Device!DeviceInit
  <2> SUFFICES ASSUME Init PROVE Device!DeviceInit
    OBVIOUS
  <2>1. DOMAIN pending = {} /\ stopped = FALSE
    BY DEF Init, EngineInit
  <2>2. \A k \in Keys : Phase(k) = "unknown"
    BY <2>1 DEF Phase
  <2>3. QED
    BY <2>1, <2>2 DEF Device!DeviceInit
<1>2. IInv /\ [Next]_vars => [Device!DeviceNext]_Device!deviceVars
  BY StepMaps
<1>3. QED
  BY <1>1, <1>2, Inductive, PTL DEF Spec, ImplementsDevice, Device!Spec
-----------------------------------------------------------------------------
(* What waits: the motions of cancelled tasks.                             *)

\* The keys of motions that have not started.
Waiting == DOMAIN normalQueue \cup ({chosen} \ {NoKey})

Motions == \A k \in Waiting : pending[k].command.tool # "emergency_stop"

\* A motion of a cancelled task waits only as long as something will still
\* take it out of the queue: the request, an emergency stop on its way or in
\* force, or the list that "withdraw" is about to filter the queue with.
Downed ==
    \A k \in Waiting :
        k[1] \in DOMAIN cancelledTasks =>
            \/ k[1] \in cancelTaskIds
            \/ emergencyQueue # {}
            \/ latched
            \/ pc = "withdraw" /\ k \in DOMAIN work

DownInv == Motions /\ Downed

LEMMA WaitingIsPending ==
    ASSUME IInv, NEW k \in Waiting
    PROVE  /\ k \in Keys /\ k \in DOMAIN pending /\ pending[k].command \in Commands
           /\ KeyOf(pending[k].command) = k
           /\ pc # "withdraw" => k \notin DOMAIN work
<1>1. k \in DOMAIN pending
  BY DEF IInv, Ownership, Waiting
<1>2. pc # "withdraw" => k \notin DOMAIN work
  BY DEF IInv, Ownership, Waiting
<1>3. QED
  BY <1>1, <1>2 DEF IInv, TypeOK, PendingTypes

\* Nothing comes to wait, no cancellation is asked for or carried out.
LEMMA DownKept ==
    ASSUME IInv, DownInv, Waiting' \subseteq Waiting,
           \A k \in Waiting' : pending'[k].command = pending[k].command,
           DOMAIN cancelledTasks' = DOMAIN cancelledTasks,
           cancelTaskIds' = cancelTaskIds \/ latched',
           emergencyQueue' = {} => emergencyQueue = {},
           latched => latched',
           pc = "withdraw" => UNCHANGED <<pc, work>>
    PROVE  DownInv'
<1>1. Motions'
  BY DEF DownInv, Motions
<1>2. Downed'
  BY DEF DownInv, Downed
<1>3. QED
  BY <1>1, <1>2 DEF DownInv

\* An empty line is under no threat.
LEMMA DownEmpty ==
    ASSUME Waiting' = {} PROVE DownInv'
BY DEF DownInv, Motions, Downed

\* The motion of a cancelled task is accepted only under an emergency.
LEMMA SubmitDown ==
    ASSUME IInv, DownInv, NEW c \in Commands, Submit(c) PROVE DownInv'
<1>1. /\ UNCHANGED <<cancelVars, latchVars, pc, work, chosen>>
      /\ emergencyQueue \subseteq emergencyQueue'
  BY DEF Submit, SubmitCached, SubmitCancelled, SubmitPending, SubmitStale,
         SubmitImmediate, SubmitEmergency, SubmitMotion, Deliver, queueVars
<1>2. \A k \in DOMAIN pending :
          k \in DOMAIN pending' /\ pending'[k].command = pending[k].command
  BY DEF Submit, SubmitCached, SubmitCancelled, SubmitPending, SubmitStale,
         SubmitImmediate, SubmitEmergency, SubmitMotion, Fresh, Enroll, IsPending,
         AddCallback, IInv, TypeOK, PendingTypes
<1>3. CASE SubmitMotion(c)
  <2>1. /\ DOMAIN normalQueue' = DOMAIN normalQueue \cup {KeyOf(c)}
        /\ pending'[KeyOf(c)].command = c /\ c.tool # "emergency_stop"
        /\ ~Cancelled(c) /\ UNCHANGED emergencyQueue
    BY <1>3 DEF SubmitMotion, Fresh, Join, Enroll, Entry, MotionTools
  <2>2. Waiting' = Waiting \cup {KeyOf(c)}
    BY <1>1, <2>1 DEF Waiting
  <2>3. KeyOf(c)[1] = c.task
    BY DEF KeyOf
  <2>4. c.task \in DOMAIN cancelledTasks => latched \/ emergencyQueue # {}
    BY <2>1 DEF Cancelled
  <2>5. Motions'
    BY <1>2, <2>1, <2>2, WaitingIsPending DEF DownInv, Motions
  <2>6. Downed'
    BY <1>1, <2>1, <2>2, <2>3, <2>4 DEF DownInv, Downed, cancelVars, latchVars
  <2>7. QED
    BY <2>5, <2>6 DEF DownInv
<1>4. CASE ~SubmitMotion(c)
  <2>1. normalQueue' = normalQueue
    BY <1>4 DEF Submit, SubmitCached, SubmitCancelled, SubmitPending, SubmitStale,
                SubmitImmediate, SubmitEmergency, queueVars
  <2>2. Waiting' = Waiting
    BY <1>1, <2>1 DEF Waiting
  <2>3. QED
    BY <1>1, <1>2, <2>2, WaitingIsPending, DownKept DEF cancelVars, latchVars
<1>5. QED
  BY <1>3, <1>4

LEMMA CancelTaskDown ==
    ASSUME IInv, DownInv, NEW t \in Cancellable, CancelTask(t) PROVE DownInv'
<1>1. /\ UNCHANGED <<pending, normalQueue, emergencyQueue, latched, pc, work, chosen>>
      /\ cancelTaskIds' = cancelTaskIds \cup {t}
      /\ DOMAIN cancelledTasks' \subseteq DOMAIN cancelledTasks \cup {t}
  BY DEF CancelTask, tableVars, queueVars, latchVars, Trim, Rejoin, Join, Leave
<1>2. Waiting' = Waiting
  BY <1>1 DEF Waiting
<1>3. Motions'
  BY <1>1, <1>2 DEF DownInv, Motions
<1>4. Downed'
  BY <1>1, <1>2 DEF DownInv, Downed
<1>5. QED
  BY <1>3, <1>4 DEF DownInv

\* What is answered no longer waits.
LEMMA AnswerDown ==
    ASSUME IInv, DownInv, Answer PROVE DownInv'
<1>1. /\ UNCHANGED <<queueVars, cancelVars, latchVars, pc, chosen>>
      /\ pc # "withdraw"
  BY DEF Answer
<1>2. PICK key \in DOMAIN work :
          pending' = [k \in DOMAIN pending \ {key} |-> pending[k]]
  BY DEF Answer, Complete
<1>3. Waiting' = Waiting
  BY <1>1 DEF Waiting, queueVars
<1>4. \A k \in Waiting : pending'[k] = pending[k]
  BY <1>1, <1>2, WaitingIsPending
<1>5. QED
  BY <1>1, <1>3, <1>4, DownKept DEF queueVars, cancelVars, latchVars

\* The cancelled motions go to the list the queue is filtered with.
LEMMA SelectCancelledDown ==
    ASSUME IInv, DownInv, SelectCancelled PROVE DownInv'
<1>1. /\ UNCHANGED <<pending, queueVars, cancelledTasks, chosen>>
      /\ pc = "cancel" /\ pc' = "withdraw" /\ ~latched /\ emergencyQueue = {}
      /\ DOMAIN work' = {k \in DOMAIN pending :
                            /\ k[1] \in cancelTaskIds
                            /\ pending[k].command.tool # "emergency_stop"}
  BY DEF SelectCancelled, Ready, Assigned, tableVars
<1>2. Waiting' = Waiting
  BY <1>1 DEF Waiting, queueVars
<1>3. Motions'
  BY <1>1, <1>2 DEF DownInv, Motions
<1>4. ASSUME NEW k \in Waiting, k[1] \in DOMAIN cancelledTasks
      PROVE  k \in DOMAIN work'
  <2>1. k[1] \in cancelTaskIds
    BY <1>1, <1>4 DEF DownInv, Downed
  <2>2. QED
    BY <1>1, <1>4, <2>1, WaitingIsPending DEF DownInv, Motions
<1>5. Downed'
  BY <1>1, <1>2, <1>4 DEF Downed
<1>6. QED
  BY <1>3, <1>5 DEF DownInv

LEMMA WithdrawDown ==
    ASSUME IInv, DownInv, Withdraw PROVE DownInv'
<1>1. /\ UNCHANGED <<pending, emergencyQueue, cancelVars, latched, work, chosen>>
      /\ DOMAIN normalQueue' = DOMAIN normalQueue \ DOMAIN work
      /\ pc = "withdraw"
  BY DEF Withdraw, tableVars, Leave
<1>2. chosen = NoKey
  BY <1>1 DEF IInv, Ownership
<1>3. Waiting' = Waiting \ DOMAIN work
  BY <1>1, <1>2 DEF Waiting
<1>4. Motions'
  BY <1>1, <1>3 DEF DownInv, Motions
<1>5. Downed'
  BY <1>1, <1>3 DEF DownInv, Downed, cancelVars
<1>6. QED
  BY <1>4, <1>5 DEF DownInv

\* The rest of the tick.
LEMMA TickDown ==
    ASSUME IInv, DownInv, LoopStep, ~Answer, ~SelectCancelled, ~Withdraw
    PROVE  DownInv'
<1>1. CASE LatchEmergency
  <2>1. DOMAIN normalQueue' = {} /\ chosen' = NoKey
    BY <1>1 DEF LatchEmergency, Ready, EmptyLine, IInv, Ownership
  <2>2. QED
    BY <2>1, DownEmpty DEF Waiting
<1>2. CASE ~LatchEmergency
  <2>1. /\ UNCHANGED <<pending, cancelledTasks, emergencyQueue, latched>>
        /\ pc # "withdraw"
    <3>1. CASE NoEmergency \/ Halt \/ ExpireQueued \/ SkipCancellation \/ Reboot
      BY <3>1 DEF NoEmergency, Halt, ExpireQueued, SkipCancellation, Reboot, Ready,
         tableVars, queueVars, cancelVars, latchVars
    <3>2. CASE KeepActive \/ TimeoutActive \/ NothingToStart \/ PopMotion
      BY <3>2 DEF KeepActive, TimeoutActive, NothingToStart, PopMotion, Ready,
         tableVars, queueVars, cancelVars, latchVars
    <3>3. CASE Start \/ Advance \/ AfterTick
      BY <3>3 DEF Start, Advance, AfterTick, Ready, tableVars, queueVars, cancelVars,
         latchVars
    <3>4. QED
      BY <1>2, <3>1, <3>2, <3>3 DEF LoopStep
  <2>2. cancelTaskIds' = cancelTaskIds \/ latched'
    <3>1. CASE SkipCancellation
      BY <3>1 DEF SkipCancellation, latchVars
    <3>2. CASE ~SkipCancellation
      BY <1>2, <3>2 DEF LoopStep, NoEmergency, Halt, ExpireQueued, KeepActive,
         TimeoutActive, NothingToStart, PopMotion, Start, Advance, AfterTick, Reboot,
         cancelVars
    <3>3. QED
      BY <3>1, <3>2
  <2>3. Waiting' \subseteq Waiting
    <3>1. CASE ExpireQueued
      BY <3>1 DEF ExpireQueued, Waiting, Leave
    <3>2. CASE PopMotion
      BY <3>2 DEF PopMotion, Waiting, Leave
    <3>3. CASE ~ExpireQueued /\ ~PopMotion
      <4>1. UNCHANGED normalQueue /\ (chosen' = chosen \/ chosen' = NoKey)
        BY <1>2, <3>3 DEF LoopStep, NoEmergency, Halt, SkipCancellation, KeepActive,
           TimeoutActive, NothingToStart, Start, Advance, AfterTick, Reboot, queueVars
      <4>2. QED
        BY <4>1 DEF Waiting
    <3>4. QED
      BY <3>1, <3>2, <3>3
  <2>4. QED
    BY <2>1, <2>2, <2>3, DownKept
<1>3. QED
  BY <1>1, <1>2

LEMMA StepDown ==
    ASSUME IInv, DownInv, [Next]_vars PROVE DownInv'
<1>1. CASE \E c \in Commands : Submit(c)
  BY <1>1, SubmitDown
<1>2. CASE \E t \in Cancellable : CancelTask(t)
  BY <1>2, CancelTaskDown
<1>3. CASE LoopStep
  BY <1>3, AnswerDown, SelectCancelledDown, WithdrawDown, TickDown
<1>4. CASE Reset
  <2>1. DOMAIN normalQueue' = {} /\ chosen' = NoKey
    BY <1>4 DEF Reset, Ready, EmptyLine, IInv, Ownership
  <2>2. QED
    BY <2>1, DownEmpty DEF Waiting
<1>5. CASE PauseOrResume \/ (\E c \in Aging : Age(c)) \/ Overrun \/ UNCHANGED vars
  <2>1. UNCHANGED <<pending, normalQueue, emergencyQueue, cancelVars, latched, pc,
                    work, chosen>>
    BY <1>5 DEF PauseOrResume, Age, Overrun, vars, tableVars, queueVars, latchVars
  <2>2. Waiting' = Waiting
    BY <2>1 DEF Waiting
  <2>3. QED
    BY <2>1, <2>2, DownKept DEF cancelVars
<1>6. QED
  BY <1>1, <1>2, <1>3, <1>4, <1>5 DEF Next

\* Only Start counts a motion as run, and only the popped one.
LEMMA OnlyStartRuns ==
    ASSUME IInv, [Next]_vars
    PROVE  \/ UNCHANGED runs
           \/ /\ pc = "start" /\ ~latched /\ chosen \in Keys
              /\ chosen' = NoKey /\ UNCHANGED <<tableVars, queueVars>>
              /\ runs' = [runs EXCEPT ![chosen] = @ + 1]
<1>1. CASE Start
  <2>1. pc = "start" /\ ~latched
    BY <1>1 DEF Start, IInv, EmergencyHolds
  <2>2. chosen \in Keys
    BY <2>1 DEF IInv, TypeOK, LoopTypes, Ownership
  <2>3. QED
    BY <1>1, <2>1, <2>2 DEF Start
<1>2. CASE ~Start
  <2>1. CASE \E c \in Commands : Submit(c)
    BY <2>1 DEF Submit, SubmitCached, SubmitCancelled, SubmitPending, SubmitStale,
       SubmitImmediate, SubmitEmergency, SubmitMotion, Deliver
  <2>2. CASE LoopStep
    BY <1>2, <2>2 DEF LoopStep, Answer, NoEmergency, LatchEmergency, Halt,
       ExpireQueued, SkipCancellation, SelectCancelled, Withdraw, KeepActive,
       TimeoutActive, NothingToStart, PopMotion, Advance, AfterTick, Reboot,
       historyVars
  <2>3. CASE ~LoopStep /\ ~ \E c \in Commands : Submit(c)
    BY <2>3 DEF Next, CancelTask, Reset, PauseOrResume, Age, Overrun, vars,
       historyVars
  <2>4. QED
    BY <2>1, <2>2, <2>3
<1>3. QED
  BY <1>1, <1>2

\* A motion of a cancelled task starts only in the tick the request came too
\* late for, or while a queued emergency stop is about to interrupt it, for
\* every interleaving of cancel_task with the sections of the tick.
THEOREM CancelledStaysDownHolds == Spec => CancelledStaysDown
<1>1. Init => DownInv
  <2>1. Init => DOMAIN normalQueue = {} /\ chosen = NoKey
    BY DEF Init, EmptyLine
  <2>2. QED
    BY <2>1 DEF DownInv, Motions, Downed, Waiting
<1>2. IInv /\ DownInv /\ [Next]_vars => DownInv'
  BY StepDown
<1>3. ASSUME IInv, DownInv, [Next]_vars, NEW k \in Keys,
             runs'[k] > runs[k], k[1] \in DOMAIN cancelledTasks
      PROVE  k[1] \in cancelTaskIds \/ emergencyQueue # {}
  <2>1. runs[k] \in Nat
    BY <1>3 DEF IInv, TypeOK, HistoryTypes
  <2>2. pc = "start" /\ ~latched /\ k = chosen
    BY <1>3, <2>1, OnlyStartRuns DEF IInv, TypeOK, HistoryTypes
  <2>3. k \in Waiting
    BY <1>3, <2>2, NoKeyIsNoKey DEF Waiting
  <2>4. QED
    BY <1>3, <2>2, <2>3 DEF DownInv, Downed
<1>4. IInv /\ DownInv /\ [Next]_vars =>
          [\A k \in Keys : runs'[k] > runs[k] /\ k[1] \in DOMAIN cancelledTasks
              => k[1] \in cancelTaskIds \/ emergencyQueue # {}]_vars
  BY <1>3
<1>5. QED
  BY <1>1, <1>2, <1>4, Inductive, PTL DEF Spec, CancelledStaysDown

-----------------------------------------------------------------------------
(* Lines: what Join, Leave and Trim do to the places of their members.     *)

\* The members from the front up to x.
UpTo(line, x) == {y \in DOMAIN line : line[y] <= line[x]}

\* A line is a finite numbering of its members without gaps or ties.
Ranked(line) ==
    /\ IsFiniteSet(DOMAIN line)
    /\ \A x \in DOMAIN line : line[x] = Cardinality(UpTo(line, x))
    /\ \A x, y \in DOMAIN line : line[x] = line[y] => x = y

\* Places count from one to the length of the line.
LEMMA RankedPlaces ==
    ASSUME NEW line, Ranked(line), NEW x \in DOMAIN line
    PROVE  /\ line[x] \in Nat /\ 1 <= line[x]
           /\ line[x] <= Cardinality(DOMAIN line)
           /\ Cardinality(DOMAIN line) \in Nat
           /\ x \in UpTo(line, x) /\ IsFiniteSet(UpTo(line, x))
<1>1. IsFiniteSet(DOMAIN line) /\ line[x] = Cardinality(UpTo(line, x))
  BY DEF Ranked
<1>2. UpTo(line, x) \in SUBSET DOMAIN line
  BY DEF UpTo
<1>3. /\ IsFiniteSet(UpTo(line, x))
      /\ Cardinality(UpTo(line, x)) <= Cardinality(DOMAIN line)
  BY <1>1, <1>2, FS_Subset
<1>4. Cardinality(UpTo(line, x)) \in Nat /\ Cardinality(DOMAIN line) \in Nat
  BY <1>1, <1>3, FS_CardinalityType
<1>5. x \in UpTo(line, x)
  <2>1. line[x] \in Nat
    BY <1>1, <1>4
  <2>2. QED
    BY <2>1 DEF UpTo
<1>6. Cardinality(UpTo(line, x)) # 0
  BY <1>3, <1>5, FS_EmptySet
<1>7. QED
  BY <1>1, <1>3, <1>4, <1>5, <1>6

LEMMA EmptyRanked ==
    ASSUME NEW line, DOMAIN line = {} PROVE Ranked(line)
BY FS_EmptySet DEF Ranked

\* Whoever joins comes last, and nobody moves.
LEMMA JoinRanked ==
    ASSUME NEW line, Ranked(line), NEW x, x \notin DOMAIN line
    PROVE  /\ Ranked(Join(line, x))
           /\ DOMAIN Join(line, x) = DOMAIN line \cup {x}
           /\ \A y \in DOMAIN line : /\ Join(line, x)[y] = line[y]
                                     /\ Join(line, x)[y] < Join(line, x)[x]
<1> DEFINE new == Join(line, x)
           size == Cardinality(DOMAIN line)
<1>1. /\ DOMAIN new = DOMAIN line \cup {x}
      /\ \A y \in DOMAIN line : new[y] = line[y]
      /\ new[x] = size + 1
  BY DEF Join
<1>2. IsFiniteSet(DOMAIN line)
  BY DEF Ranked
<1>3. size \in Nat
  BY <1>2, FS_CardinalityType
<1>4. \A y \in DOMAIN line : line[y] \in Nat /\ line[y] <= size
  BY RankedPlaces
<1>5. IsFiniteSet(DOMAIN new) /\ Cardinality(DOMAIN new) = size + 1
  BY <1>1, <1>2, FS_AddElement
<1>6. ASSUME NEW y \in DOMAIN line PROVE UpTo(new, y) = UpTo(line, y)
  BY <1>1, <1>3, <1>4 DEF UpTo
<1>7. UpTo(new, x) = DOMAIN new
  BY <1>1, <1>3, <1>4 DEF UpTo
<1>8. \A y \in DOMAIN line : new[y] < new[x]
  BY <1>1, <1>3, <1>4
<1>9. \A y \in DOMAIN new : new[y] = Cardinality(UpTo(new, y))
  BY <1>1, <1>5, <1>6, <1>7 DEF Ranked
<1>10. \A y, z \in DOMAIN new : new[y] = new[z] => y = z
  BY <1>1, <1>3, <1>4 DEF Ranked
<1>11. Ranked(new)
  BY <1>5, <1>9, <1>10 DEF Ranked
<1>12. QED
  BY <1>1, <1>8, <1>11

\* Those who stay close ranks and keep their order.
LEMMA LeaveRanked ==
    ASSUME NEW line, Ranked(line), NEW gone
    PROVE  /\ Ranked(Leave(line, gone))
           /\ DOMAIN Leave(line, gone) = DOMAIN line \ gone
           /\ \A y, z \in DOMAIN line \ gone :
                  Leave(line, gone)[y] < Leave(line, gone)[z] <=> line[y] < line[z]
<1> DEFINE new == Leave(line, gone)
           Stay(y) == UpTo(line, y) \ gone
           Before(y) == {z \in gone \cap DOMAIN line : line[z] < line[y]}
<1>1. /\ DOMAIN new = DOMAIN line \ gone
      /\ \A y \in DOMAIN new : new[y] = line[y] - Cardinality(Before(y))
  BY DEF Leave
<1>2. IsFiniteSet(DOMAIN line)
  BY DEF Ranked
<1>3. \A y \in DOMAIN line : line[y] \in Nat
  BY RankedPlaces
<1>4. ASSUME NEW y \in DOMAIN new
      PROVE  /\ new[y] = Cardinality(Stay(y)) /\ new[y] \in Nat
             /\ IsFiniteSet(Stay(y)) /\ y \in Stay(y)
  <2>1. y \in DOMAIN line /\ y \notin gone
    BY <1>1
  <2>2. UpTo(line, y) \cap gone = Before(y)
    <3>1. \A z \in DOMAIN line : z \in gone /\ line[z] <= line[y] => line[z] < line[y]
      BY <1>3, <2>1 DEF Ranked
    <3>2. QED
      BY <1>3, <2>1, <3>1 DEF UpTo
  <2>3. IsFiniteSet(UpTo(line, y)) /\ y \in UpTo(line, y)
    BY <2>1, RankedPlaces
  <2>4. /\ IsFiniteSet(Stay(y))
        /\ Cardinality(Stay(y)) = Cardinality(UpTo(line, y))
                                      - Cardinality(UpTo(line, y) \cap gone)
    BY <2>3, FS_Difference
  <2>5. Cardinality(Stay(y)) \in Nat
    BY <2>4, FS_CardinalityType
  <2>6. new[y] = Cardinality(Stay(y))
    BY <1>1, <2>1, <2>2, <2>4 DEF Ranked
  <2>7. QED
    BY <2>1, <2>3, <2>4, <2>5, <2>6
<1>5. ASSUME NEW y \in DOMAIN new, NEW z \in DOMAIN new, line[y] <= line[z]
      PROVE  new[y] <= new[z]
  <2>1. line[y] \in Nat /\ line[z] \in Nat
    BY <1>1, <1>3
  <2>2. Stay(y) \in SUBSET Stay(z)
    BY <1>3, <1>5, <2>1 DEF UpTo
  <2>3. Cardinality(Stay(y)) <= Cardinality(Stay(z))
    BY <1>4, <2>2, FS_Subset
  <2>4. QED
    BY <1>4, <2>3
<1>6. ASSUME NEW y \in DOMAIN new, NEW z \in DOMAIN new, line[y] < line[z]
      PROVE  new[y] < new[z]
  <2>1. line[y] \in Nat /\ line[z] \in Nat
    BY <1>1, <1>3
  <2>2. Stay(y) \in SUBSET Stay(z)
    BY <1>3, <1>6, <2>1 DEF UpTo
  <2>3. IsFiniteSet(Stay(z)) /\ z \in Stay(z)
    BY <1>4
  <2>4. z \notin Stay(y)
    BY <1>6, <2>1 DEF UpTo
  <2>5. Cardinality(Stay(y)) <= Cardinality(Stay(z))
    BY <2>2, <2>3, FS_Subset
  <2>6. Cardinality(Stay(z)) # Cardinality(Stay(y))
    BY <2>2, <2>3, <2>4, FS_Subset
  <2>7. QED
    BY <1>4, <2>5, <2>6
<1>7. ASSUME NEW y \in DOMAIN new, NEW z \in DOMAIN new
      PROVE  /\ new[y] < new[z] <=> line[y] < line[z]
             /\ new[y] <= new[z] <=> line[y] <= line[z]
             /\ new[y] = new[z] => y = z
  <2>1. line[y] \in Nat /\ line[z] \in Nat /\ new[y] \in Nat /\ new[z] \in Nat
    BY <1>1, <1>3, <1>4
  <2>2. new[y] = new[z] => line[y] = line[z]
    BY <1>6, <2>1
  <2>3. QED
    BY <1>1, <1>5, <1>6, <2>1, <2>2 DEF Ranked
<1>8. ASSUME NEW y \in DOMAIN new PROVE UpTo(new, y) = Stay(y)
  BY <1>1, <1>7 DEF UpTo
<1>9. IsFiniteSet(DOMAIN new)
  BY <1>1, <1>2, FS_Difference
<1>10. Ranked(new)
  BY <1>4, <1>7, <1>8, <1>9 DEF Ranked
<1>11. QED
  BY <1>1, <1>7, <1>10

\* A line that nobody joined is a line still, in the same order.
LEMMA StillRanked ==
    ASSUME NEW line, NEW new, Ranked(line),
           \/ new = line
           \/ DOMAIN new = {}
           \/ \E gone : new = Leave(line, gone)
    PROVE  /\ Ranked(new)
           /\ DOMAIN new \subseteq DOMAIN line
           /\ \A y, z \in DOMAIN new : new[y] < new[z] => line[y] < line[z]
<1>1. CASE DOMAIN new = {}
  BY <1>1, EmptyRanked
<1>2. CASE \E gone : new = Leave(line, gone)
  <2>1. PICK gone : new = Leave(line, gone)
    BY <1>2
  <2>2. /\ Ranked(Leave(line, gone))
        /\ DOMAIN Leave(line, gone) = DOMAIN line \ gone
        /\ \A y, z \in DOMAIN line \ gone :
               Leave(line, gone)[y] < Leave(line, gone)[z] <=> line[y] < line[z]
    BY LeaveRanked, Zenon
  <2>3. QED
    BY <2>1, <2>2
<1>3. QED
  BY <1>1, <1>2

LEMMA RejoinRanked ==
    ASSUME NEW line, Ranked(line), NEW x
    PROVE  /\ Ranked(Rejoin(line, x))
           /\ DOMAIN Rejoin(line, x) = DOMAIN line \cup {x}
<1> DEFINE rest == Leave(line, {x})
<1>1. Ranked(rest) /\ DOMAIN rest = DOMAIN line \ {x}
  BY LeaveRanked, Zenon
<1>2. /\ Ranked(Join(rest, x))
      /\ DOMAIN Join(rest, x) = DOMAIN rest \cup {x}
  <2>1. x \notin DOMAIN rest
    BY <1>1
  <2>2. QED
    BY <1>1, <2>1, JoinRanked, Zenon
<1>3. QED
  BY <1>1, <1>2 DEF Rejoin

\* A line that fits is not trimmed.
LEMMA TrimRanked ==
    ASSUME NEW line, Ranked(line), NEW size \in Nat,
           Cardinality(DOMAIN line) <= size
    PROVE  Ranked(Trim(line, size)) /\ DOMAIN Trim(line, size) = DOMAIN line
<1> DEFINE gone == {x \in DOMAIN line : line[x] <= Cardinality(DOMAIN line) - size}
<1>1. gone = {}
  BY RankedPlaces
<1>2. Ranked(Leave(line, gone)) /\ DOMAIN Leave(line, gone) = DOMAIN line \ gone
  BY LeaveRanked, Zenon
<1>3. QED
  BY <1>1, <1>2 DEF Trim

-----------------------------------------------------------------------------
(* What waits: the motions of one task, in the order of their numbers.     *)

\* The line of waiting motions is in order: among themselves, behind the
\* popped motion and behind everything that has ever run; and no motion is
\* ahead of the newest number the bridge has seen for its task.
Line ==
    \A j, k \in DOMAIN normalQueue :
        j[1] = k[1] /\ normalQueue[j] < normalQueue[k] => j[2] <= k[2]

Behind ==
    \A j \in Keys, k \in DOMAIN normalQueue :
        (j = chosen \/ runs[j] > 0) /\ j[1] = k[1] => j[2] <= k[2]

Last ==
    chosen # NoKey =>
        \A j \in Keys : runs[j] > 0 /\ j[1] = chosen[1] => j[2] <= chosen[2]

Newest ==
    \A j \in Keys : j \in Waiting \/ runs[j] > 0 => j[2] <= latestSeq[j[1]]

InOrder == Ranked(normalQueue) /\ Line /\ Behind /\ Last /\ Newest

LEMMA KeyParts ==
    ASSUME NEW k \in Keys PROVE k[1] \in Task /\ k[2] \in Nat
BY AdapterAssumption DEF Keys, KeyOf

\* The newest number of a task never falls.
LEMMA NewestGrows ==
    ASSUME IInv, [Next]_vars, NEW t \in Task
    PROVE  latestSeq[t] \in Nat /\ latestSeq'[t] \in Nat /\ latestSeq[t] <= latestSeq'[t]
<1>1. latestSeq \in [Task -> Nat] /\ latestSeq' \in [Task -> Nat]
  BY StepIInv DEF IInv, TypeOK, ResultTypes
<1>2. ASSUME NEW c \in Commands, RaiseLatest(c) PROVE latestSeq[t] <= latestSeq'[t]
  BY <1>1, <1>2, KeyOfCommand DEF RaiseLatest
<1>3. CASE \E c \in Commands : Submit(c)
  <2>1. PICK c \in Commands : Submit(c)
    BY <1>3
  <2>2. CASE SubmitEmergency(c) \/ SubmitMotion(c)
    <3>1. ~Stale(c) /\ latestSeq' = [latestSeq EXCEPT ![c.task] = c.seq]
      BY <2>2 DEF SubmitEmergency, SubmitMotion, Fresh, Enroll
    <3>2. c.seq \in Nat /\ c.task \in Task
      BY KeyOfCommand
    <3>3. QED
      BY <1>1, <3>1, <3>2 DEF Stale
  <2>3. CASE ~(SubmitEmergency(c) \/ SubmitMotion(c))
    <3>1. UNCHANGED latestSeq \/ RaiseLatest(c)
      BY <2>1, <2>3 DEF Submit, SubmitCached, SubmitCancelled, SubmitPending,
         SubmitStale, SubmitImmediate, Remember
    <3>2. QED
      BY <1>1, <1>2, <3>1
  <2>4. QED
    BY <2>2, <2>3
<1>4. CASE Answer
  <2>1. PICK key \in DOMAIN work : Complete(key, work[key])
    BY <1>4 DEF Answer
  <2>2. pending[key].command \in Commands
    BY DEF IInv, TypeOK, PendingTypes, Ownership
  <2>3. QED
    BY <1>1, <1>2, <2>1, <2>2 DEF Complete, Remember
<1>5. CASE ~Answer /\ ~ \E c \in Commands : Submit(c)
  <2>1. UNCHANGED latestSeq
    BY <1>5 DEF Next, LoopStep, NoEmergency, LatchEmergency, Halt, ExpireQueued,
       SkipCancellation, SelectCancelled, Withdraw, KeepActive, TimeoutActive,
       NothingToStart, PopMotion, Start, Advance, AfterTick, Reboot, CancelTask,
       Reset, PauseOrResume, Age, Overrun, vars, tableVars
  <2>2. QED
    BY <1>1, <2>1
<1>6. QED
  BY <1>3, <1>4, <1>5

\* Nothing comes to wait and nothing starts.
LEMMA OrderKept ==
    ASSUME IInv, InOrder, [Next]_vars, Ranked(normalQueue'),
           DOMAIN normalQueue' \subseteq DOMAIN normalQueue,
           \A y, z \in DOMAIN normalQueue' :
               normalQueue'[y] < normalQueue'[z] => normalQueue[y] < normalQueue[z],
           chosen' = chosen \/ chosen' = NoKey, UNCHANGED runs
    PROVE  InOrder'
<1>1. Line'
  BY DEF InOrder, Line
<1>2. Behind'
  BY NoKeyIsNoKey DEF InOrder, Behind
<1>3. Last'
  BY DEF InOrder, Last
<1>4. Newest'
  <2> SUFFICES ASSUME NEW j \in Keys, j \in Waiting' \/ runs'[j] > 0
               PROVE  j[2] <= latestSeq'[j[1]]
    BY DEF Newest
  <2>1. j \in Waiting \/ runs[j] > 0
    BY NoKeyIsNoKey DEF Waiting
  <2>2. j[2] <= latestSeq[j[1]]
    BY <2>1 DEF InOrder, Newest
  <2>3. j[1] \in Task /\ j[2] \in Nat
    BY KeyParts
  <2>4. QED
    BY <2>2, <2>3, NewestGrows
<1>5. QED
  BY <1>1, <1>2, <1>3, <1>4 DEF InOrder

\* A motion joins the line only with the newest number of its task.
LEMMA SubmitMotionOrder ==
    ASSUME IInv, InOrder, NEW c \in Commands, SubmitMotion(c) PROVE InOrder'
<1>1. /\ UNCHANGED <<chosen, runs>> /\ ~IsPending(c) /\ ~Stale(c)
      /\ normalQueue' = Join(normalQueue, KeyOf(c))
      /\ latestSeq' = [latestSeq EXCEPT ![c.task] = c.seq]
  BY DEF SubmitMotion, Deliver, Fresh, Enroll
<1>2. /\ KeyOf(c) \in Keys /\ KeyOf(c)[1] = c.task /\ KeyOf(c)[2] = c.seq
      /\ c.task \in Task /\ c.seq \in Nat
  BY KeyOfCommand DEF KeyOf
<1>3. KeyOf(c) \notin DOMAIN normalQueue
  BY <1>1 DEF IsPending, IInv, Ownership
<1>4. /\ Ranked(normalQueue')
      /\ DOMAIN normalQueue' = DOMAIN normalQueue \cup {KeyOf(c)}
      /\ \A y \in DOMAIN normalQueue : /\ normalQueue'[y] = normalQueue[y]
                                       /\ normalQueue'[y] < normalQueue'[KeyOf(c)]
  <2>1. Ranked(normalQueue)
    BY DEF InOrder
  <2>2. /\ Ranked(Join(normalQueue, KeyOf(c)))
        /\ DOMAIN Join(normalQueue, KeyOf(c)) = DOMAIN normalQueue \cup {KeyOf(c)}
        /\ \A y \in DOMAIN normalQueue :
               /\ Join(normalQueue, KeyOf(c))[y] = normalQueue[y]
               /\ Join(normalQueue, KeyOf(c))[y]
                      < Join(normalQueue, KeyOf(c))[KeyOf(c)]
    BY <1>3, <2>1, JoinRanked, Zenon
  <2>3. QED
    BY <1>1, <2>2
<1>5. ASSUME NEW j \in Keys, j \in Waiting \/ runs[j] > 0, j[1] = c.task
      PROVE  j[2] <= c.seq
  <2>1. j[2] <= latestSeq[c.task] /\ ~(c.seq < latestSeq[c.task])
    BY <1>1, <1>5 DEF InOrder, Newest, Stale
  <2>2. j[2] \in Nat /\ latestSeq[c.task] \in Nat
    BY <1>2, KeyParts DEF IInv, TypeOK, ResultTypes
  <2>3. QED
    BY <1>2, <2>1, <2>2
<1>6. \A j \in DOMAIN normalQueue : j \in Keys /\ j \in Waiting
  BY DEF IInv, TypeOK, QueueTypes, Waiting
<1>7. Line'
  <2> SUFFICES ASSUME NEW j \in DOMAIN normalQueue', NEW k \in DOMAIN normalQueue',
                      j[1] = k[1], normalQueue'[j] < normalQueue'[k]
               PROVE  j[2] <= k[2]
    BY DEF Line
  <2>1. CASE k = KeyOf(c)
    <3>1. j \in DOMAIN normalQueue \/ j[2] = c.seq
      BY <1>2, <1>4
    <3>2. QED
      BY <1>2, <1>5, <1>6, <2>1, <3>1
  <2>2. CASE k # KeyOf(c)
    <3>1. k \in DOMAIN normalQueue
      BY <1>4, <2>2
    <3>2. \A y \in DOMAIN normalQueue' : normalQueue'[y] \in Nat
      BY <1>4, RankedPlaces
    <3>3. j \in DOMAIN normalQueue
      BY <1>4, <3>1, <3>2
    <3>4. normalQueue[j] < normalQueue[k]
      BY <1>4, <3>1, <3>3
    <3>5. QED
      BY <3>1, <3>3, <3>4 DEF InOrder, Line
  <2>3. QED
    BY <2>1, <2>2
<1>8. Behind'
  <2> SUFFICES ASSUME NEW j \in Keys, NEW k \in DOMAIN normalQueue',
                      j = chosen \/ runs[j] > 0, j[1] = k[1]
               PROVE  j[2] <= k[2]
    BY <1>1 DEF Behind
  <2>1. CASE k = KeyOf(c)
    <3>1. j \in Waiting \/ runs[j] > 0
      BY NoKeyIsNoKey DEF Waiting
    <3>2. QED
      BY <1>2, <1>5, <2>1, <3>1
  <2>2. CASE k # KeyOf(c)
    BY <1>4, <2>2 DEF InOrder, Behind
  <2>3. QED
    BY <2>1, <2>2
<1>9. Last'
  BY <1>1 DEF InOrder, Last
<1>10. Newest'
  <2> SUFFICES ASSUME NEW j \in Keys, j \in Waiting' \/ runs[j] > 0
               PROVE  j[2] <= latestSeq'[j[1]]
    BY <1>1 DEF Newest
  <2>1. j[1] \in Task /\ j[2] \in Nat
    BY KeyParts
  <2>2. j = KeyOf(c) \/ j \in Waiting \/ runs[j] > 0
    BY <1>1, <1>4 DEF Waiting
  <2>3. latestSeq \in [Task -> Nat]
    BY DEF IInv, TypeOK, ResultTypes
  <2>4. CASE j[1] = c.task
    BY <1>1, <1>2, <1>5, <2>2, <2>3, <2>4
  <2>5. CASE j[1] # c.task
    BY <1>1, <1>2, <2>1, <2>2, <2>3, <2>5 DEF InOrder, Newest
  <2>6. QED
    BY <2>4, <2>5
<1>11. QED
  BY <1>4, <1>7, <1>8, <1>9, <1>10 DEF InOrder

\* The front of the line becomes the popped motion.
LEMMA PopOrder ==
    ASSUME IInv, InOrder, PopMotion PROVE InOrder'
<1>1. PICK key \in DOMAIN normalQueue :
          /\ normalQueue[key] = 1
          /\ normalQueue' = Leave(normalQueue, {key})
          /\ chosen' = key \/ chosen' = chosen
  BY DEF PopMotion
<1>2. UNCHANGED <<runs, latestSeq>> /\ chosen = NoKey
  BY DEF PopMotion, Ready, historyVars, tableVars, IInv, Ownership
<1>3. /\ Ranked(normalQueue')
      /\ DOMAIN normalQueue' = DOMAIN normalQueue \ {key}
      /\ \A y, z \in DOMAIN normalQueue' :
             normalQueue'[y] < normalQueue'[z] => normalQueue[y] < normalQueue[z]
  <2>1. Ranked(normalQueue)
    BY DEF InOrder
  <2>2. DOMAIN normalQueue' = DOMAIN normalQueue \ {key}
    BY <1>1 DEF Leave
  <2>3. QED
    BY <1>1, <2>1, <2>2, StillRanked
<1>4. CASE chosen' = chosen
  <2>1. Next
    BY DEF Next, LoopStep
  <2>2. QED
    BY <1>2, <1>3, <1>4, <2>1, OrderKept
<1>5. CASE chosen' = key
  <2>1. key \in Keys /\ key # NoKey /\ key \in Waiting
    BY NoKeyIsNoKey DEF IInv, TypeOK, QueueTypes, Waiting
  <2>2. Line'
    BY <1>3 DEF InOrder, Line
  <2>3. \A k \in DOMAIN normalQueue' : normalQueue[key] < normalQueue[k]
    <3> SUFFICES ASSUME NEW k \in DOMAIN normalQueue'
                 PROVE  normalQueue[key] < normalQueue[k]
      OBVIOUS
    <3>1. k \in DOMAIN normalQueue /\ k # key
      BY <1>3
    <3>2. normalQueue[k] \in Nat /\ 1 <= normalQueue[k]
      BY <3>1, RankedPlaces DEF InOrder
    <3>3. normalQueue[k] # normalQueue[key]
      BY <3>1 DEF InOrder, Ranked
    <3>4. QED
      BY <1>1, <3>2, <3>3
  <2>4. Behind'
    BY <1>2, <1>3, <1>5, <2>3 DEF InOrder, Behind, Line
  <2>5. Last'
    BY <1>2, <1>5 DEF InOrder, Behind, Last
  <2>6. Newest'
    BY <1>2, <1>3, <1>5, <2>1 DEF InOrder, Newest, Waiting
  <2>7. QED
    BY <1>3, <2>2, <2>4, <2>5, <2>6 DEF InOrder
<1>6. QED
  BY <1>1, <1>4, <1>5

\* The popped motion joins those that have run.
LEMMA StartOrder ==
    ASSUME IInv, InOrder, NEW k \in Keys, k = chosen, chosen' = NoKey,
           UNCHANGED <<tableVars, queueVars>>, runs' = [runs EXCEPT ![chosen] = @ + 1]
    PROVE  InOrder'
<1>1. UNCHANGED <<normalQueue, latestSeq>>
  BY DEF tableVars, queueVars
<1>2. \A j \in Keys : runs'[j] > 0 => runs[j] > 0 \/ j = chosen
  BY DEF IInv, TypeOK, HistoryTypes
<1>3. chosen \in Waiting /\ Waiting' \subseteq Waiting
  BY <1>1, NoKeyIsNoKey DEF Waiting
<1>4. Ranked(normalQueue')
  BY <1>1 DEF InOrder
<1>5. Line'
  BY <1>1 DEF InOrder, Line
<1>6. Behind'
  BY <1>1, <1>2, NoKeyIsNoKey DEF InOrder, Behind
<1>7. Last'
  BY DEF Last
<1>8. Newest'
  BY <1>1, <1>2, <1>3 DEF InOrder, Newest
<1>9. QED
  BY <1>4, <1>5, <1>6, <1>7, <1>8 DEF InOrder

LEMMA StepOrder ==
    ASSUME IInv, InOrder, [Next]_vars PROVE InOrder'
<1>1. CASE \E c \in Commands : SubmitMotion(c)
  BY <1>1, SubmitMotionOrder
<1>2. CASE PopMotion
  BY <1>2, PopOrder
<1>3. CASE ~UNCHANGED runs
  BY <1>3, OnlyStartRuns, StartOrder
<1>4. CASE UNCHANGED runs /\ ~PopMotion /\ ~ \E c \in Commands : SubmitMotion(c)
  <2>1. chosen' = chosen \/ chosen' = NoKey
    BY <1>4 DEF Next, LoopStep, Submit, SubmitCached, SubmitCancelled, SubmitPending,
       SubmitStale, SubmitImmediate, SubmitEmergency, Deliver, Answer, NoEmergency,
       LatchEmergency, Halt, ExpireQueued, SkipCancellation, SelectCancelled,
       Withdraw, KeepActive, TimeoutActive, NothingToStart, Start, Advance,
       AfterTick, Reboot, CancelTask, Reset, PauseOrResume, Age, Overrun, vars
  <2>2. \/ UNCHANGED normalQueue
        \/ DOMAIN normalQueue' = {}
        \/ normalQueue' = Leave(normalQueue, LateKeys)
        \/ normalQueue' = Leave(normalQueue, DOMAIN work)
    BY <1>4 DEF Next, LoopStep, Submit, SubmitCached, SubmitCancelled, SubmitPending,
       SubmitStale, SubmitImmediate, SubmitEmergency, Deliver, Answer, NoEmergency,
       LatchEmergency, Halt, ExpireQueued, SkipCancellation, SelectCancelled,
       Withdraw, KeepActive, TimeoutActive, NothingToStart, Start, Advance,
       AfterTick, Reboot, CancelTask, Reset, PauseOrResume, Age, Overrun, vars,
       queueVars, EmptyLine
  <2>3. Ranked(normalQueue)
    BY DEF InOrder
  <2>4. /\ Ranked(normalQueue')
        /\ DOMAIN normalQueue' \subseteq DOMAIN normalQueue
        /\ \A y, z \in DOMAIN normalQueue' :
               normalQueue'[y] < normalQueue'[z] => normalQueue[y] < normalQueue[z]
    BY <2>2, <2>3, StillRanked
  <2>5. UNCHANGED runs
    BY <1>4
  <2>6. QED
    BY <2>1, <2>4, <2>5, OrderKept
<1>5. QED
  BY <1>1, <1>2, <1>3, <1>4

\* The motions of one task start in the order of their sequence numbers, for
\* any queue and cache size: a delayed or repeated delivery that comes after a
\* newer command, forgotten result or not, never moves the robot back.
THEOREM TaskOrderHolds == Spec => TaskOrder
<1>1. Init => InOrder
  <2> SUFFICES ASSUME Init PROVE InOrder
    OBVIOUS
  <2>1. /\ DOMAIN normalQueue = {} /\ chosen = NoKey
        /\ \A k \in Keys : runs[k] = 0
    BY DEF Init, EmptyLine
  <2>2. QED
    BY <2>1, EmptyRanked DEF InOrder, Line, Behind, Last, Newest, Waiting
<1>2. IInv /\ InOrder /\ [Next]_vars => InOrder'
  BY StepOrder
<1>3. ASSUME IInv, InOrder, [Next]_vars, NEW j \in Keys, NEW k \in Keys,
             runs'[k] > runs[k], runs[j] > 0, j[1] = k[1]
      PROVE  j[2] <= k[2]
  <2>1. runs \in [Keys -> Nat]
    BY <1>3 DEF IInv, TypeOK, HistoryTypes
  <2>2. k = chosen
    BY <1>3, <2>1, OnlyStartRuns
  <2>3. QED
    BY <1>3, <2>2, NoKeyIsNoKey DEF InOrder, Last
<1>4. IInv /\ InOrder /\ [Next]_vars =>
          [\A j, k \in Keys : runs'[k] > runs[k] /\ runs[j] > 0 /\ j[1] = k[1]
                                  => j[2] <= k[2]]_vars
  BY <1>3
<1>5. QED
  BY <1>1, <1>2, <1>4, Inductive, PTL DEF Spec, TaskOrder

-----------------------------------------------------------------------------
(* What the result cache is for, as long as nothing is evicted from it.    *)

\* Every command that ever arrives finds room in the cache of results.
Roomy == IsFiniteSet(Keys) /\ Cardinality(Keys) <= CacheSize

\* A motion that ran is remembered or still pending, and waits no more.
RanIsKnown ==
    \A k \in Keys :
        runs[k] > 0 => k \in DOMAIN results \cup DOMAIN pending /\ k \notin Waiting

Single == Ranked(recency) /\ AtMostOnce /\ RanIsKnown

\* A new result displaces no other.
LEMMA StoreKeeps ==
    ASSUME Roomy, IInv, Ranked(recency), NEW c \in Commands, NEW code,
           StoreResult(c, code)
    PROVE  /\ Ranked(recency')
           /\ DOMAIN results' = DOMAIN results \cup {KeyOf(c)}
           /\ results'[KeyOf(c)] = [command |-> c, code |-> code]
           /\ \A k \in DOMAIN results : k # KeyOf(c) => results'[k] = results[k]
<1> DEFINE new == Rejoin(recency, KeyOf(c))
<1>1. Ranked(new) /\ DOMAIN new = DOMAIN recency \cup {KeyOf(c)}
  BY RejoinRanked
<1>2. DOMAIN recency = DOMAIN results /\ DOMAIN new \in SUBSET Keys
  BY <1>1, KeyOfCommand DEF IInv, TypeOK, ResultTypes
<1>3. Cardinality(DOMAIN new) <= Cardinality(Keys)
  BY <1>2, FS_Subset DEF Roomy
<1>4. Cardinality(DOMAIN new) <= CacheSize
  <2>1. Cardinality(DOMAIN new) \in Nat /\ Cardinality(Keys) \in Nat
    BY <1>1, FS_CardinalityType DEF Roomy, Ranked
  <2>2. QED
    BY <1>3, <2>1, AdapterAssumption DEF Roomy
<1>5. Ranked(Trim(new, CacheSize)) /\ DOMAIN Trim(new, CacheSize) = DOMAIN new
  BY <1>1, <1>4, TrimRanked, AdapterAssumption
<1>6. recency' = Trim(new, CacheSize)
  BY DEF StoreResult
<1>7. DOMAIN recency' = DOMAIN results \cup {KeyOf(c)}
  BY <1>1, <1>2, <1>5, <1>6
<1>8. Ranked(recency')
  BY <1>5, <1>6
<1>9. QED
  BY <1>7, <1>8 DEF StoreResult

\* The tables of a delivery: a cached result only becomes the most recent one,
\* a pending command is joined by a callback or not at all, and everything
\* else is a new result or a new pending command.
LEMMA SubmitTables ==
    ASSUME NEW c \in Commands, Submit(c)
    PROVE  \/ /\ Cached(c) /\ UNCHANGED <<pending, results>>
              /\ recency' = Rejoin(recency, KeyOf(c))
              /\ Reply(c, IF results[KeyOf(c)].command = c
                          THEN results[KeyOf(c)].code ELSE "duplicate_conflict", 1)
           \/ /\ ~Cached(c) /\ IsPending(c) /\ UNCHANGED <<results, recency>>
              /\ \/ /\ pending[KeyOf(c)].command = c
                    /\ AddCallback(c) /\ NoReply
                 \/ /\ pending[KeyOf(c)].command # c
                    /\ Reply(c, "duplicate_conflict", 1) /\ UNCHANGED pending
           \/ /\ ~Cached(c)
              /\ Cancelled(c) \/ ~IsPending(c)
              /\ \E code : StoreResult(c, code) /\ Reply(c, code, 1)
              /\ UNCHANGED pending
           \/ ~Cached(c) /\ ~IsPending(c) /\ Enroll(c)
<1>1. CASE SubmitCached(c)
  BY <1>1 DEF SubmitCached
<1>2. CASE SubmitPending(c)
  BY <1>2 DEF SubmitPending
<1>3. CASE SubmitCancelled(c) \/ SubmitStale(c) \/ SubmitImmediate(c)
  <2>1. /\ ~Cached(c) /\ UNCHANGED pending
        /\ Cancelled(c) \/ ~IsPending(c)
    BY <1>3 DEF SubmitCancelled, SubmitStale, SubmitImmediate, Fresh
  <2>2. \E code : StoreResult(c, code) /\ Reply(c, code, 1)
    BY <1>3 DEF SubmitCancelled, SubmitStale, SubmitImmediate, Remember
  <2>3. QED
    BY <2>1, <2>2
<1>4. CASE SubmitEmergency(c) \/ SubmitMotion(c)
  BY <1>4 DEF SubmitEmergency, SubmitMotion, Fresh
<1>5. QED
  BY <1>1, <1>2, <1>3, <1>4 DEF Submit

\* The tables of an answer.
LEMMA AnswerTables ==
    ASSUME IInv, Answer
    PROVE  \E k \in Keys, c \in Commands, code \in Code, n \in Nat :
              /\ k \in DOMAIN work /\ k \in DOMAIN pending
              /\ c = pending[k].command /\ KeyOf(c) = k
              /\ pending' = [j \in DOMAIN pending \ {k} |-> pending[j]]
              /\ StoreResult(c, code) /\ Reply(c, code, n)
<1>1. PICK k \in DOMAIN work : Complete(k, work[k])
  BY DEF Answer
<1>2. k \in Keys /\ k \in DOMAIN pending /\ work[k] \in Code
  BY DEF IInv, TypeOK, LoopTypes, Ownership
<1>3. /\ pending[k].command \in Commands /\ pending[k].callbacks \in Nat
      /\ KeyOf(pending[k].command) = k
  BY <1>2 DEF IInv, TypeOK, PendingTypes
<1>4. QED
  BY <1>1, <1>2, <1>3 DEF Complete, Remember

\* Nobody else writes to the tables.
LEMMA OtherTables ==
    ASSUME [Next]_vars, ~Answer, ~ \E c \in Commands : Submit(c)
    PROVE  UNCHANGED <<pending, results, recency, verdicts>>
<1>1. UNCHANGED tableVars
  BY DEF Next, LoopStep, NoEmergency, LatchEmergency, Halt, ExpireQueued,
     SkipCancellation, SelectCancelled, Withdraw, KeepActive, TimeoutActive,
     NothingToStart, PopMotion, Start, Advance, AfterTick, Reboot, CancelTask, Reset,
     PauseOrResume, Age, Overrun, vars
<1>2. UNCHANGED verdicts
  BY DEF Next, LoopStep, NoEmergency, LatchEmergency, Halt, ExpireQueued,
     SkipCancellation, SelectCancelled, Withdraw, KeepActive, TimeoutActive,
     NothingToStart, PopMotion, Start, Advance, AfterTick, Reboot, CancelTask, Reset,
     PauseOrResume, Age, Overrun, vars, historyVars
<1>3. QED
  BY <1>1, <1>2 DEF tableVars

\* No result is ever forgotten.
LEMMA ResultsGrow ==
    ASSUME Roomy, IInv, Ranked(recency), [Next]_vars
    PROVE  /\ Ranked(recency')
           /\ DOMAIN results \subseteq DOMAIN results'
           /\ DOMAIN pending \subseteq DOMAIN pending' \cup DOMAIN results'
<1>1. CASE \E c \in Commands : Submit(c)
  <2>1. PICK c \in Commands : Submit(c)
    BY <1>1
  <2>2. CASE Cached(c) /\ UNCHANGED <<pending, results>>
                       /\ recency' = Rejoin(recency, KeyOf(c))
    BY <2>2, RejoinRanked
  <2>3. CASE UNCHANGED <<results, recency>> /\ (AddCallback(c) \/ UNCHANGED pending)
    BY <2>3 DEF AddCallback
  <2>4. CASE (\E code : StoreResult(c, code)) /\ UNCHANGED pending
    BY <2>4, StoreKeeps
  <2>5. CASE Enroll(c)
    BY <2>5 DEF Enroll
  <2>6. QED
    BY <2>1, <2>2, <2>3, <2>4, <2>5, SubmitTables
<1>2. CASE Answer
  <2>1. PICK k \in Keys, c \in Commands, code \in Code :
            /\ KeyOf(c) = k /\ StoreResult(c, code)
            /\ pending' = [j \in DOMAIN pending \ {k} |-> pending[j]]
    BY <1>2, AnswerTables
  <2>2. QED
    BY <2>1, StoreKeeps
<1>3. CASE ~Answer /\ ~ \E c \in Commands : Submit(c)
  BY <1>3, OtherTables
<1>4. QED
  BY <1>1, <1>2, <1>3

\* What comes to wait is neither remembered nor pending.
LEMMA NewWaiting ==
    ASSUME IInv, [Next]_vars, NEW k \in Waiting'
    PROVE  k \in Waiting \/ (k \notin DOMAIN results /\ k \notin DOMAIN pending)
<1>1. CASE \E c \in Commands : SubmitMotion(c)
  BY <1>1 DEF SubmitMotion, Fresh, Cached, IsPending, Join, Deliver, Waiting
<1>2. CASE PopMotion
  BY <1>2 DEF PopMotion, Leave, Waiting
<1>3. CASE ~PopMotion /\ ~ \E c \in Commands : SubmitMotion(c)
  <2>1. chosen' = chosen \/ chosen' = NoKey
    BY <1>3 DEF Next, LoopStep, Submit, SubmitCached, SubmitCancelled, SubmitPending,
       SubmitStale, SubmitImmediate, SubmitEmergency, Deliver, Answer, NoEmergency,
       LatchEmergency, Halt, ExpireQueued, SkipCancellation, SelectCancelled,
       Withdraw, KeepActive, TimeoutActive, NothingToStart, Start, Advance,
       AfterTick, Reboot, CancelTask, Reset, PauseOrResume, Age, Overrun, vars
  <2>2. DOMAIN normalQueue' \subseteq DOMAIN normalQueue
    BY <1>3 DEF Next, LoopStep, Submit, SubmitCached, SubmitCancelled, SubmitPending,
       SubmitStale, SubmitImmediate, SubmitEmergency, Deliver, Answer, NoEmergency,
       LatchEmergency, Halt, ExpireQueued, SkipCancellation, SelectCancelled,
       Withdraw, KeepActive, TimeoutActive, NothingToStart, Start, Advance,
       AfterTick, Reboot, CancelTask, Reset, PauseOrResume, Age, Overrun, vars,
       queueVars, EmptyLine, Leave
  <2>3. QED
    BY <2>1, <2>2 DEF Waiting
<1>4. QED
  BY <1>1, <1>2, <1>3

LEMMA StepSingle ==
    ASSUME Roomy, IInv, Single, [Next]_vars PROVE Single'
<1>1. runs \in [Keys -> Nat]
  BY DEF IInv, TypeOK, HistoryTypes
<1>2. /\ Ranked(recency')
      /\ DOMAIN results \cup DOMAIN pending
             \subseteq DOMAIN results' \cup DOMAIN pending'
  BY ResultsGrow DEF Single
<1>3. CASE UNCHANGED runs
  <2>1. AtMostOnce'
    BY <1>3 DEF Single, AtMostOnce
  <2>2. RanIsKnown'
    BY <1>2, <1>3, NewWaiting DEF Single, RanIsKnown
  <2>3. QED
    BY <1>2, <2>1, <2>2 DEF Single
<1>4. CASE ~UNCHANGED runs
  <2>1. /\ pc = "start" /\ chosen \in Keys /\ chosen' = NoKey
        /\ UNCHANGED <<results, pending, normalQueue>>
        /\ runs' = [runs EXCEPT ![chosen] = @ + 1]
    BY <1>4, OnlyStartRuns DEF tableVars, queueVars
  <2>2. chosen \in Waiting /\ chosen \in DOMAIN pending
    BY <2>1, NoKeyIsNoKey, WaitingIsPending DEF Waiting
  <2>3. runs[chosen] = 0
    BY <1>1, <2>1, <2>2 DEF Single, RanIsKnown
  <2>4. Waiting' \subseteq Waiting /\ chosen \notin Waiting'
    BY <2>1 DEF Waiting, IInv, Ownership
  <2>5. AtMostOnce'
    BY <1>1, <2>1, <2>3 DEF Single, AtMostOnce
  <2>6. RanIsKnown'
    BY <1>1, <2>1, <2>2, <2>4 DEF Single, RanIsKnown
  <2>7. QED
    BY <1>2, <2>5, <2>6 DEF Single
<1>5. QED
  BY <1>3, <1>4

\* A (task_id, seq) starts at most one motion, however often it is delivered
\* and whatever happens in between, as long as the cache of results has room
\* for every command; with a smaller cache a repeated delivery may run again.
THEOREM AtMostOnceHolds ==
    ASSUME Roomy PROVE Spec => []AtMostOnce
<1>1. Init => Single
  <2> SUFFICES ASSUME Init PROVE Single
    OBVIOUS
  <2>1. DOMAIN recency = {} /\ \A k \in Keys : runs[k] = 0
    BY DEF Init, EmptyLine
  <2>2. QED
    BY <2>1, EmptyRanked DEF Single, AtMostOnce, RanIsKnown
<1>2. IInv /\ Single /\ [Next]_vars => Single'
  BY StepSingle
<1>3. Single => AtMostOnce
  BY DEF Single
<1>4. QED
  BY <1>1, <1>2, <1>3, Inductive, PTL DEF Spec

\* What every later delivery of c will be told, as far as it is settled: the
\* remembered answer, or the refusal of a payload that a different one under
\* the same key came before.
Fate(c) ==
    IF Cached(c)
    THEN {IF results[KeyOf(c)].command = c THEN results[KeyOf(c)].code
                                           ELSE "duplicate_conflict"}
    ELSE IF IsPending(c) /\ pending[KeyOf(c)].command # c
         THEN {"duplicate_conflict"}
         ELSE {}

\* Commands of tasks nobody cancels have been told nothing but their fate, and
\* are never remembered and pending at once.
Told ==
    \A c \in Commands :
        c.task \notin Cancellable => /\ ~(IsPending(c) /\ Cached(c))
                                     /\ verdicts[c] \subseteq Fate(c)

Spared == DOMAIN cancelledTasks \subseteq Cancellable

ToldInv == Ranked(recency) /\ Spared /\ Told

LEMMA SparedKept ==
    ASSUME Spared, [Next]_vars PROVE Spared'
<1>1. CASE \E t \in Cancellable : CancelTask(t)
  BY <1>1 DEF Spared, CancelTask, Trim, Rejoin, Join, Leave
<1>2. CASE ~ \E t \in Cancellable : CancelTask(t)
  <2>1. UNCHANGED cancelledTasks
    BY <1>2 DEF Next, LoopStep, Submit, SubmitCached, SubmitCancelled, SubmitPending,
       SubmitStale, SubmitImmediate, SubmitEmergency, SubmitMotion, Deliver, Answer,
       NoEmergency, LatchEmergency, Halt, ExpireQueued, SkipCancellation,
       SelectCancelled, Withdraw, KeepActive, TimeoutActive, NothingToStart,
       PopMotion, Start, Advance, AfterTick, Reboot, Reset, PauseOrResume, Age,
       Overrun, vars, cancelVars
  <2>2. QED
    BY <2>1 DEF Spared
<1>3. QED
  BY <1>1, <1>2

\* Nothing is settled for a command, and nothing has been said of it, before
\* its key is known.
LEMMA NothingToldYet ==
    ASSUME Told, NEW d \in Commands, d.task \notin Cancellable,
           ~Cached(d), ~IsPending(d)
    PROVE  verdicts[d] = {}
BY DEF Told, Fate

\* A result is stored under a key that was not known.
LEMMA StoreTold ==
    ASSUME Roomy, IInv, ToldInv, NEW c \in Commands, NEW code,
           StoreResult(c, code),
           verdicts' = [verdicts EXCEPT ![c] = @ \cup {code}],
           \/ ~Cached(c) /\ ~IsPending(c) /\ UNCHANGED pending
           \/ c.task \in Cancellable /\ UNCHANGED pending
           \/ /\ KeyOf(c) \in DOMAIN pending /\ pending[KeyOf(c)].command = c
              /\ pending' = [k \in DOMAIN pending \ {KeyOf(c)} |-> pending[k]]
    PROVE  Told'
<1> SUFFICES ASSUME NEW d \in Commands, d.task \notin Cancellable
             PROVE  /\ ~(IsPending(d)' /\ Cached(d)')
                    /\ verdicts'[d] \subseteq Fate(d)'
  BY DEF Told
<1>1. /\ DOMAIN results' = DOMAIN results \cup {KeyOf(c)}
      /\ results'[KeyOf(c)] = [command |-> c, code |-> code]
      /\ \A k \in DOMAIN results : k # KeyOf(c) => results'[k] = results[k]
  BY StoreKeeps DEF ToldInv
<1>2. ~(IsPending(d) /\ Cached(d)) /\ verdicts[d] \subseteq Fate(d)
  BY DEF ToldInv, Told
<1>3. verdicts \in [Commands -> SUBSET Code]
  BY DEF IInv, TypeOK, HistoryTypes
<1>4. CASE KeyOf(d) # KeyOf(c)
  <2>1. d # c
    BY <1>4
  <2>2. verdicts'[d] = verdicts[d]
    BY <1>3, <2>1
  <2>3. /\ Cached(d)' <=> Cached(d)
        /\ IsPending(d)' <=> IsPending(d)
        /\ IsPending(d) => pending'[KeyOf(d)] = pending[KeyOf(d)]
        /\ Cached(d) => results'[KeyOf(d)] = results[KeyOf(d)]
    BY <1>1, <1>4 DEF Cached, IsPending
  <2>4. Fate(d)' = Fate(d)
    BY <2>3 DEF Fate
  <2>5. QED
    BY <1>2, <2>2, <2>3, <2>4
<1>5. CASE KeyOf(d) = KeyOf(c)
  <2>1. c.task = d.task
    BY <1>5 DEF KeyOf
  <2>2. Cached(d)' /\ ~IsPending(d)'
    BY <1>1, <1>5, <2>1 DEF Cached, IsPending
  <2>3. Fate(d)' = IF d = c THEN {code} ELSE {"duplicate_conflict"}
    BY <1>1, <1>5, <2>2 DEF Fate
  <2>4. verdicts[d] \subseteq IF d = c THEN {} ELSE {"duplicate_conflict"}
    <3>1. CASE ~Cached(c) /\ ~IsPending(c)
      BY <1>2, <1>5, <3>1 DEF Fate, Cached, IsPending
    <3>2. CASE KeyOf(c) \in DOMAIN pending /\ pending[KeyOf(c)].command = c
      BY <1>2, <1>5, <3>2 DEF Fate, Cached, IsPending
    <3>3. QED
      BY <2>1, <3>1, <3>2
  <2>5. verdicts'[d] = IF d = c THEN verdicts[d] \cup {code} ELSE verdicts[d]
    BY <1>3
  <2>6. QED
    BY <2>2, <2>3, <2>4, <2>5
<1>6. QED
  BY <1>4, <1>5

LEMMA SubmitTold ==
    ASSUME Roomy, IInv, ToldInv, NEW c \in Commands, Submit(c) PROVE Told'
<1>1. verdicts \in [Commands -> SUBSET Code]
  BY DEF IInv, TypeOK, HistoryTypes
<1>2. CASE /\ Cached(c) /\ UNCHANGED <<pending, results>>
           /\ Reply(c, IF results[KeyOf(c)].command = c
                       THEN results[KeyOf(c)].code ELSE "duplicate_conflict", 1)
  <2>1. \A d \in Commands : verdicts'[d] \subseteq verdicts[d]
                               \cup (IF d = c THEN Fate(c) ELSE {})
    BY <1>1, <1>2 DEF Reply, Fate
  <2>2. \A d \in Commands : /\ Fate(d)' = Fate(d)
                            /\ IsPending(d)' <=> IsPending(d)
                            /\ Cached(d)' <=> Cached(d)
    BY <1>2 DEF Fate, IsPending, Cached
  <2>3. QED
    BY <2>1, <2>2 DEF ToldInv, Told
<1>3. CASE /\ ~Cached(c) /\ IsPending(c) /\ UNCHANGED results
           /\ \/ AddCallback(c) /\ NoReply
              \/ /\ pending[KeyOf(c)].command # c
                 /\ Reply(c, "duplicate_conflict", 1) /\ UNCHANGED pending
  <2>1. \A d \in Commands : verdicts'[d] \subseteq verdicts[d]
                               \cup (IF d = c THEN Fate(c) ELSE {})
    BY <1>1, <1>3 DEF Reply, NoReply, Fate
  <2>2. /\ DOMAIN pending' = DOMAIN pending
        /\ \A k \in DOMAIN pending : pending'[k].command = pending[k].command
    BY <1>3 DEF AddCallback, IInv, TypeOK, PendingTypes
  <2>3. \A d \in Commands : /\ Fate(d)' = Fate(d)
                            /\ IsPending(d)' <=> IsPending(d)
                            /\ Cached(d)' <=> Cached(d)
    BY <1>3, <2>2 DEF Fate, IsPending, Cached
  <2>4. QED
    BY <2>1, <2>3 DEF ToldInv, Told
<1>4. CASE /\ ~Cached(c) /\ UNCHANGED pending
           /\ Cancelled(c) \/ ~IsPending(c)
           /\ \E code : StoreResult(c, code) /\ Reply(c, code, 1)
  <2>1. PICK code : StoreResult(c, code) /\ Reply(c, code, 1)
    BY <1>4
  <2>2. Cancelled(c) => c.task \in Cancellable
    BY DEF Cancelled, ToldInv, Spared
  <2>3. QED
    BY <1>4, <2>1, <2>2, StoreTold DEF Reply
<1>5. CASE ~Cached(c) /\ ~IsPending(c) /\ Enroll(c)
  <2>1. /\ UNCHANGED <<results, verdicts>>
        /\ DOMAIN pending' = DOMAIN pending \cup {KeyOf(c)}
        /\ pending'[KeyOf(c)].command = c
        /\ \A k \in DOMAIN pending : pending'[k] = pending[k]
    BY <1>5 DEF Enroll, Entry, NoReply, IsPending
  <2> SUFFICES ASSUME NEW d \in Commands, d.task \notin Cancellable
               PROVE  /\ ~(IsPending(d)' /\ Cached(d)')
                      /\ verdicts'[d] \subseteq Fate(d)'
    BY DEF Told
  <2>2. ~(IsPending(d) /\ Cached(d)) /\ verdicts[d] \subseteq Fate(d)
    BY DEF ToldInv, Told
  <2>3. CASE KeyOf(d) = KeyOf(c)
    <3>1. ~Cached(d) /\ ~IsPending(d)
      BY <1>5, <2>3 DEF Cached, IsPending
    <3>2. verdicts[d] = {}
      BY <3>1, NothingToldYet DEF ToldInv
    <3>3. QED
      BY <2>1, <3>1, <3>2 DEF Cached
  <2>4. CASE KeyOf(d) # KeyOf(c)
    <3>1. /\ Cached(d)' <=> Cached(d)
          /\ IsPending(d)' <=> IsPending(d)
          /\ IsPending(d) => pending'[KeyOf(d)] = pending[KeyOf(d)]
      BY <2>1, <2>4 DEF Cached, IsPending
    <3>2. Fate(d)' = Fate(d)
      BY <2>1, <3>1 DEF Fate
    <3>3. QED
      BY <2>1, <2>2, <3>1, <3>2
  <2>5. QED
    BY <2>3, <2>4
<1>6. QED
  BY <1>2, <1>3, <1>4, <1>5, SubmitTables

LEMMA StepTold ==
    ASSUME Roomy, IInv, ToldInv, [Next]_vars PROVE ToldInv'
<1>1. Ranked(recency') /\ Spared'
  BY ResultsGrow, SparedKept DEF ToldInv
<1>2. CASE \E c \in Commands : Submit(c)
  BY <1>1, <1>2, SubmitTold DEF ToldInv
<1>3. CASE Answer
  <2>1. PICK k \in Keys, c \in Commands, code \in Code, n \in Nat :
            /\ k \in DOMAIN pending /\ c = pending[k].command /\ KeyOf(c) = k
            /\ pending' = [j \in DOMAIN pending \ {k} |-> pending[j]]
            /\ StoreResult(c, code) /\ Reply(c, code, n)
    BY <1>3, AnswerTables
  <2>2. Told'
    BY <2>1, StoreTold DEF Reply
  <2>3. QED
    BY <1>1, <2>2 DEF ToldInv
<1>4. CASE ~Answer /\ ~ \E c \in Commands : Submit(c)
  <2>1. UNCHANGED <<pending, results, verdicts>>
    BY <1>4, OtherTables
  <2>2. Told'
    BY <2>1 DEF ToldInv, Told, Fate, Cached, IsPending
  <2>3. QED
    BY <1>1, <2>2 DEF ToldInv
<1>5. QED
  BY <1>2, <1>3, <1>4

\* As long as the cache of results has room for every command, the deliveries
\* of one payload are all given one answer: whether it comes before, during or
\* after the motion, and whatever else was delivered under the same key.
THEOREM VerdictsAgreeHolds ==
    ASSUME Roomy PROVE Spec => []VerdictsAgree
<1>1. Init => ToldInv
  <2> SUFFICES ASSUME Init PROVE ToldInv
    OBVIOUS
  <2>1. /\ DOMAIN recency = {} /\ DOMAIN pending = {} /\ DOMAIN results = {}
        /\ DOMAIN cancelledTasks = {} /\ \A c \in Commands : verdicts[c] = {}
    BY DEF Init, EmptyLine
  <2>2. QED
    BY <2>1, EmptyRanked DEF ToldInv, Spared, Told, IsPending
<1>2. IInv /\ ToldInv /\ [Next]_vars => ToldInv'
  BY StepTold
<1>3. ToldInv => VerdictsAgree
  <2> SUFFICES ASSUME ToldInv, NEW c \in Commands, c.task \notin Cancellable
               PROVE  Cardinality(verdicts[c]) <= 1
    BY DEF VerdictsAgree
  <2>1. PICK code : verdicts[c] \subseteq {code}
    BY DEF ToldInv, Told, Fate
  <2>2. verdicts[c] = {} \/ verdicts[c] = {code}
    BY <2>1
  <2>3. Cardinality({}) = 0 /\ Cardinality({code}) = 1
    BY FS_EmptySet, FS_Singleton
  <2>4. QED
    BY <2>2, <2>3
<1>4. QED
  BY <1>1, <1>2, <1>3, Inductive, PTL DEF Spec
=============================================================================
