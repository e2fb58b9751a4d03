----------------------- MODULE SimulationAdapterProofs -----------------------
(***************************************************************************)
(* What the bridge keeps for every set of commands, every queue and cache  *)
(* size and every interleaving of the MQTT thread with the tick loop.      *)
(***************************************************************************)
EXTENDS SimulationAdapter, TLAPS

\* The inductive invariant.  None of its parts is inductive alone: answering
\* a key needs its entry (Ownership), starting a motion needs a free engine
\* (EngineAgreement), and the free engine under the latch needs both.
IInv == TypeOK /\ Ownership /\ EngineAgreement /\ EmergencyHolds

-----------------------------------------------------------------------------
\* The key of a command is one of the keys and never None.
LEMMA KeyOfCommand ==
    ASSUME NEW c \in Commands
    PROVE  /\ KeyOf(c) \in Keys /\ KeyOf(c) # NoKey
           /\ c.task \in Task /\ c.seq \in Nat
BY AdapterAssumption DEF Keys

\* What the engine carries is the motion of a pending command.
LEMMA MovingIsPending ==
    ASSUME IInv, action # NoCommand
    PROVE  activeKey # NoKey /\ activeKey \in DOMAIN pending
<1>1. action \in Commands /\ activeKey = KeyOf(action)
  BY DEF IInv, TypeOK, EngineTypes, EngineAgreement
<1>2. QED
  BY <1>1, KeyOfCommand DEF IInv, Ownership

\* Initially nothing is pending, remembered, queued or under way.
LEMMA InitIInv == Init => IInv
<1> SUFFICES ASSUME Init PROVE IInv
  OBVIOUS
<1>1. /\ DOMAIN completion = {} /\ DOMAIN pending = {} /\ DOMAIN results = {}
      /\ DOMAIN recency = {} /\ DOMAIN normalQueue = {} /\ DOMAIN work = {}
      /\ DOMAIN cancelledTasks = {}
  BY DEF Init, EngineInit, NoCompletion, EmptyLine, NoWork
<1>2. TypeOK
  BY <1>1, AdapterAssumption, EngineAssumption
  DEF Init, EngineInit, TypeOK, EngineTypes, PendingTypes, ResultTypes,
      QueueTypes, LoopTypes, HistoryTypes, Sections
<1>3. Ownership
  BY <1>1 DEF Init, EngineInit, Ownership
<1>4. EngineAgreement
  BY <1>1 DEF Init, EngineInit, EngineAgreement
<1>5. EmergencyHolds
  BY <1>1 DEF Init, EngineInit, EmergencyHolds
<1>6. QED
  BY <1>2, <1>3, <1>4, <1>5 DEF IInv

-----------------------------------------------------------------------------
(* Deliveries.                                                             *)

\* _remember, with or without raising the latest sequence number, keeps the
\* result table well typed.
LEMMA RememberTypes ==
    ASSUME ResultTypes, NEW c \in Commands, NEW code \in Code,
           StoreResult(c, code), RaiseLatest(c) \/ UNCHANGED latestSeq
    PROVE  ResultTypes'
<1>1. DOMAIN recency' \subseteq DOMAIN recency \cup {KeyOf(c)}
  BY DEF StoreResult, Join, Leave, Rejoin, Trim
<1>2. DOMAIN results' = DOMAIN recency'
  BY DEF StoreResult
<1>3. DOMAIN recency' \subseteq Keys
  BY <1>1, KeyOfCommand DEF ResultTypes
<1>4. ASSUME NEW k \in DOMAIN results'
      PROVE  /\ results'[k] \in [command : Commands, code : Code]
             /\ KeyOf(results'[k].command) = k
  <2>1. CASE k = KeyOf(c)
    BY <2>1, <1>2 DEF StoreResult
  <2>2. CASE k # KeyOf(c)
    BY <2>2, <1>1, <1>2, <1>4 DEF StoreResult, ResultTypes
  <2>3. QED
    BY <2>1, <2>2
<1>5. latestSeq' \in [Task -> Nat]
  BY KeyOfCommand DEF ResultTypes, RaiseLatest
<1>6. QED
  BY <1>2, <1>3, <1>4, <1>5 DEF ResultTypes

\* Calling callbacks keeps the histories well typed.
LEMMA ReplyTypes ==
    ASSUME HistoryTypes, NEW c \in Commands, NEW code \in Code, NEW n \in Nat,
           Reply(c, code, n)
    PROVE  /\ answered' \in [Commands -> Nat]
           /\ verdicts' \in [Commands -> SUBSET Code]
BY DEF HistoryTypes, Reply

\* A delivery touches neither the engine nor the loop thread.
LEMMA DeliverKeeps ==
    ASSUME IInv, NEW c \in Commands, Deliver(c)
    PROVE  /\ EngineTypes' /\ LoopTypes' /\ EmergencyHolds'
           /\ delivered' \in [Commands -> Nat] /\ runs' \in [Keys -> Nat]
<1>1. EngineTypes'
  BY DEF IInv, TypeOK, EngineTypes, Deliver, engineVars
<1>2. LoopTypes'
  BY DEF IInv, TypeOK, LoopTypes, Deliver, latchVars, clockVars
<1>3. EmergencyHolds'
  BY DEF IInv, EmergencyHolds, Deliver, engineVars, latchVars
<1>4. delivered' \in [Commands -> Nat] /\ runs' \in [Keys -> Nat]
  BY DEF IInv, TypeOK, HistoryTypes, Deliver
<1>5. QED
  BY <1>1, <1>2, <1>3, <1>4

\* A delivery answered at once leaves pending and the queues alone.
LEMMA ImmediateKeeps ==
    ASSUME IInv, NEW c \in Commands, Deliver(c), UNCHANGED <<pending, queueVars>>
    PROVE  PendingTypes' /\ QueueTypes' /\ Ownership' /\ EngineAgreement'
<1>1. PendingTypes'
  BY DEF IInv, TypeOK, PendingTypes
<1>2. QueueTypes'
  BY DEF IInv, TypeOK, QueueTypes, Deliver, queueVars, cancelVars
<1>3. Ownership'
  BY DEF IInv, Ownership, Deliver, queueVars
<1>4. EngineAgreement'
  BY DEF IInv, EngineAgreement, Deliver, engineVars
<1>5. QED
  BY <1>1, <1>2, <1>3, <1>4

LEMMA SubmitCachedIInv ==
    ASSUME IInv, NEW c \in Commands, SubmitCached(c) PROVE IInv'
<1>1. Deliver(c) /\ UNCHANGED <<pending, queueVars>>
  BY DEF SubmitCached
<1>2. ResultTypes'
  <2>1. DOMAIN recency' = DOMAIN recency
    BY DEF IInv, TypeOK, ResultTypes, SubmitCached, Cached, Join, Leave, Rejoin
  <2>2. QED
    BY <2>1 DEF IInv, TypeOK, ResultTypes, SubmitCached
<1>3. HistoryTypes'
  <2>1. PICK code \in Code : Reply(c, code, 1)
    BY DEF IInv, TypeOK, ResultTypes, SubmitCached, Cached, Code
  <2>2. QED
    BY <1>1, <2>1, ReplyTypes, DeliverKeeps DEF IInv, TypeOK, HistoryTypes
<1>4. QED
  BY <1>1, <1>2, <1>3, DeliverKeeps, ImmediateKeeps DEF IInv, TypeOK
LEMMA SubmitCancelledIInv ==
    ASSUME IInv, NEW c \in Commands, SubmitCancelled(c) PROVE IInv'
<1>1. Deliver(c) /\ UNCHANGED <<pending, queueVars>>
  BY DEF SubmitCancelled
<1>2. "operator_cancelled" \in Code
  BY DEF Code
<1>3. ResultTypes'
  BY <1>2, RememberTypes DEF IInv, TypeOK, SubmitCancelled, Remember
<1>4. HistoryTypes'
  <2>1. Reply(c, "operator_cancelled", 1) /\ HistoryTypes
    BY DEF SubmitCancelled, IInv, TypeOK
  <2>2. QED
    BY <1>1, <1>2, <2>1, ReplyTypes, DeliverKeeps DEF HistoryTypes
<1>5. QED
  BY <1>1, <1>3, <1>4, DeliverKeeps, ImmediateKeeps DEF IInv, TypeOK

LEMMA SubmitStaleIInv ==
    ASSUME IInv, NEW c \in Commands, SubmitStale(c) PROVE IInv'
<1>1. Deliver(c) /\ UNCHANGED <<pending, queueVars>>
  BY DEF SubmitStale
<1>2. "stale_sequence" \in Code
  BY DEF Code
<1>3. ResultTypes'
  BY <1>2, RememberTypes DEF IInv, TypeOK, SubmitStale
<1>4. HistoryTypes'
  <2>1. Reply(c, "stale_sequence", 1) /\ HistoryTypes
    BY DEF SubmitStale, IInv, TypeOK
  <2>2. QED
    BY <1>1, <1>2, <2>1, ReplyTypes, DeliverKeeps DEF HistoryTypes
<1>5. QED
  BY <1>1, <1>3, <1>4, DeliverKeeps, ImmediateKeeps DEF IInv, TypeOK

LEMMA SubmitImmediateIInv ==
    ASSUME IInv, NEW c \in Commands, SubmitImmediate(c) PROVE IInv'
<1>1. Deliver(c) /\ UNCHANGED <<pending, queueVars>>
  BY DEF SubmitImmediate
<1>2. PICK code \in ImmediateCodes(c) : Remember(c, code) /\ Reply(c, code, 1)
  BY DEF SubmitImmediate
<1>3. code \in Code
  <2>1. SafetyDecisions(c) \ {"allowed"} \subseteq Code
    BY DEF SafetyDecisions, Code
  <2>2. code \in SafetyDecisions(c) \ {"allowed"}
          \/ code \in {"success", "budget_exceeded", "device_busy"}
    BY <1>2 DEF ImmediateCodes
  <2>3. QED
    BY <2>1, <2>2 DEF Code
<1>4. ResultTypes'
  BY <1>2, <1>3, RememberTypes DEF IInv, TypeOK, Remember
<1>5. HistoryTypes'
  <2>1. HistoryTypes
    BY DEF IInv, TypeOK
  <2>2. QED
    BY <1>1, <1>2, <1>3, <2>1, ReplyTypes, DeliverKeeps DEF HistoryTypes
<1>6. QED
  BY <1>1, <1>4, <1>5, DeliverKeeps, ImmediateKeeps DEF IInv, TypeOK

\* The duplicate of a pending command changes no key and no command.
LEMMA SubmitPendingIInv ==
    ASSUME IInv, NEW c \in Commands, SubmitPending(c) PROVE IInv'
<1>1. Deliver(c) /\ UNCHANGED <<results, recency, latestSeq, queueVars>>
  BY DEF SubmitPending
<1>2. /\ DOMAIN pending' = DOMAIN pending
      /\ \A k \in DOMAIN pending : pending'[k].command = pending[k].command
      /\ PendingTypes'
  <2>1. PendingTypes /\ KeyOf(c) \in DOMAIN pending
    BY DEF IInv, TypeOK, SubmitPending, IsPending
  <2>2. CASE AddCallback(c)
    BY <2>1, <2>2 DEF AddCallback, PendingTypes
  <2>3. CASE UNCHANGED pending
    BY <2>1, <2>3 DEF PendingTypes
  <2>4. QED
    BY <2>2, <2>3 DEF SubmitPending
<1>3. ResultTypes' /\ QueueTypes'
  BY <1>1 DEF IInv, TypeOK, ResultTypes, QueueTypes, Deliver, queueVars, cancelVars
<1>4. HistoryTypes'
  <2>1. HistoryTypes /\ "duplicate_conflict" \in Code
    BY DEF IInv, TypeOK, Code
  <2>2. NoReply \/ Reply(c, "duplicate_conflict", 1)
    BY DEF SubmitPending
  <2>3. CASE NoReply
    BY <1>1, <2>1, <2>3, DeliverKeeps DEF HistoryTypes, NoReply
  <2>4. CASE Reply(c, "duplicate_conflict", 1)
    BY <1>1, <2>1, <2>4, ReplyTypes, DeliverKeeps DEF HistoryTypes
  <2>5. QED
    BY <2>2, <2>3, <2>4
<1>5. Ownership'
  BY <1>1, <1>2 DEF IInv, Ownership, Deliver, queueVars
<1>6. EngineAgreement'
  BY <1>1, <1>2, MovingIsPending DEF IInv, EngineAgreement, Deliver, engineVars
<1>7. QED
  BY <1>1, <1>2, <1>3, <1>4, <1>5, <1>6, DeliverKeeps DEF IInv, TypeOK

\* Registering a fresh command adds its key and keeps every other entry.
LEMMA EnrollKeeps ==
    ASSUME IInv, NEW c \in Commands, Deliver(c), Enroll(c), ~IsPending(c)
    PROVE  /\ PendingTypes' /\ ResultTypes' /\ HistoryTypes' /\ EngineAgreement'
           /\ DOMAIN pending' = DOMAIN pending \cup {KeyOf(c)}
<1>1. PendingTypes' /\ DOMAIN pending' = DOMAIN pending \cup {KeyOf(c)}
  BY KeyOfCommand DEF IInv, TypeOK, PendingTypes, Enroll, Entry
<1>2. \A k \in DOMAIN pending : pending'[k] = pending[k]
  BY DEF Enroll, IsPending
<1>3. ResultTypes'
  BY KeyOfCommand DEF IInv, TypeOK, ResultTypes, Enroll
<1>4. HistoryTypes'
  BY DeliverKeeps DEF IInv, TypeOK, HistoryTypes, Enroll, NoReply
<1>5. EngineAgreement'
  BY <1>2, MovingIsPending DEF IInv, EngineAgreement, Deliver, engineVars
<1>6. QED
  BY <1>1, <1>3, <1>4, <1>5

LEMMA SubmitEmergencyIInv ==
    ASSUME IInv, NEW c \in Commands, SubmitEmergency(c) PROVE IInv'
<1>1. /\ Deliver(c) /\ Enroll(c) /\ ~IsPending(c)
      /\ emergencyQueue' = emergencyQueue \cup {KeyOf(c)}
      /\ UNCHANGED normalQueue
  BY DEF SubmitEmergency, Fresh
<1>2. QueueTypes'
  BY <1>1, KeyOfCommand DEF IInv, TypeOK, QueueTypes, Deliver, cancelVars
<1>3. Ownership'
  <2>1. KeyOf(c) \notin DOMAIN pending /\ KeyOf(c) # NoKey
    BY <1>1, KeyOfCommand DEF IsPending
  <2>2. DOMAIN pending' = DOMAIN pending \cup {KeyOf(c)}
    BY <1>1, EnrollKeeps
  <2>3. QED
    BY <1>1, <2>1, <2>2 DEF IInv, Ownership, Deliver
<1>4. QED
  BY <1>1, <1>2, <1>3, EnrollKeeps, DeliverKeeps DEF IInv, TypeOK

LEMMA SubmitMotionIInv ==
    ASSUME IInv, NEW c \in Commands, SubmitMotion(c) PROVE IInv'
<1>1. /\ Deliver(c) /\ Enroll(c) /\ ~IsPending(c)
      /\ DOMAIN normalQueue' = DOMAIN normalQueue \cup {KeyOf(c)}
      /\ UNCHANGED emergencyQueue
  BY DEF SubmitMotion, Fresh, Join
<1>2. QueueTypes'
  BY <1>1, KeyOfCommand DEF IInv, TypeOK, QueueTypes, Deliver, cancelVars
<1>3. Ownership'
  <2>1. KeyOf(c) \notin DOMAIN pending /\ KeyOf(c) # NoKey
    BY <1>1, KeyOfCommand DEF IsPending
  <2>2. DOMAIN pending' = DOMAIN pending \cup {KeyOf(c)}
    BY <1>1, EnrollKeeps
  <2>3. QED
    BY <1>1, <2>1, <2>2 DEF IInv, Ownership, Deliver
<1>4. QED
  BY <1>1, <1>2, <1>3, EnrollKeeps, DeliverKeeps DEF IInv, TypeOK

LEMMA SubmitIInv ==
    ASSUME IInv, NEW c \in Commands, Submit(c) PROVE IInv'
BY SubmitCachedIInv, SubmitCancelledIInv, SubmitPendingIInv, SubmitStaleIInv,
   SubmitImmediateIInv, SubmitEmergencyIInv, SubmitMotionIInv DEF Submit

-----------------------------------------------------------------------------
(* The tick loop.                                                          *)

\* Actions that leave a group of variables alone keep its types.
LEMMA EngineUnchanged ==
    ASSUME IInv, UNCHANGED engineVars PROVE EngineTypes'
BY DEF IInv, TypeOK, EngineTypes, engineVars

LEMMA TablesUnchanged ==
    ASSUME IInv, UNCHANGED tableVars PROVE PendingTypes' /\ ResultTypes'
BY DEF IInv, TypeOK, PendingTypes, ResultTypes, tableVars

LEMMA HistoryUnchanged ==
    ASSUME IInv, UNCHANGED historyVars PROVE HistoryTypes'
BY DEF IInv, TypeOK, HistoryTypes, historyVars

LEMMA QueuesUnchanged ==
    ASSUME IInv, UNCHANGED <<queueVars, cancelVars>> PROVE QueueTypes'
BY DEF IInv, TypeOK, QueueTypes, queueVars, cancelVars

LEMMA NoKeyIsNoKey == NoKey \notin Keys
BY AdapterAssumption DEF Keys

LEMMA CancelTaskIInv ==
    ASSUME IInv, NEW t \in Cancellable, CancelTask(t) PROVE IInv'
<1>1. UNCHANGED <<engineVars, tableVars, queueVars, activeKey, latchVars, pc,
                  work, chosen, clockVars, historyVars>>
  BY DEF CancelTask
<1>2. QueueTypes'
  <2>1. DOMAIN cancelledTasks' \subseteq DOMAIN cancelledTasks \cup {t}
    BY DEF CancelTask, Join, Leave, Rejoin, Trim
  <2>2. cancelTaskIds' = cancelTaskIds \cup {t} /\ t \in Task
    BY AdapterAssumption DEF CancelTask
  <2>3. QED
    BY <1>1, <2>1, <2>2 DEF IInv, TypeOK, QueueTypes, queueVars
<1>3. LoopTypes'
  BY <1>1 DEF IInv, TypeOK, LoopTypes, latchVars, clockVars
<1>4. Ownership'
  BY <1>1 DEF IInv, Ownership, tableVars, queueVars
<1>5. EngineAgreement' /\ EmergencyHolds'
  BY <1>1 DEF IInv, EngineAgreement, EmergencyHolds, engineVars, tableVars, latchVars
<1>6. QED
  BY <1>1, <1>2, <1>3, <1>4, <1>5, EngineUnchanged, TablesUnchanged, HistoryUnchanged
  DEF IInv, TypeOK

\* Answering a key takes it from pending, from work and from the engine's
\* hands at once.
LEMMA AnswerIInv ==
    ASSUME IInv, Answer PROVE IInv'
<1>1. PICK key \in DOMAIN work :
         /\ Complete(key, work[key])
         /\ work' = [k \in DOMAIN work \ {key} |-> work[k]]
  BY DEF Answer
<1>2. UNCHANGED <<engineVars, queueVars, cancelVars, latchVars, pc, chosen,
                  clockVars, delivered, runs>> /\ pc \notin {"halt", "withdraw"}
  BY DEF Answer
<1>3. /\ key \in Keys /\ key # NoKey /\ key \in DOMAIN pending
      /\ work[key] \in Code
  <2>1. key \in Keys /\ work[key] \in Code
    BY DEF IInv, TypeOK, LoopTypes
  <2>2. QED
    BY <2>1, NoKeyIsNoKey DEF IInv, Ownership
<1>4. PICK c \in Commands, code \in Code, n \in Nat :
         /\ c = pending[key].command /\ code = work[key]
         /\ n = pending[key].callbacks
  BY <1>3 DEF IInv, TypeOK, PendingTypes
<1>5. /\ pending' = [k \in DOMAIN pending \ {key} |-> pending[k]]
      /\ activeKey' = IF activeKey = key THEN NoKey ELSE activeKey
      /\ Remember(c, code) /\ Reply(c, code, n)
  BY <1>1, <1>4 DEF Complete, ActiveAfter
<1>6. PendingTypes'
  BY <1>5 DEF IInv, TypeOK, PendingTypes
<1>7. ResultTypes'
  BY <1>5, RememberTypes DEF IInv, TypeOK, Remember
<1>8. HistoryTypes'
  <2>1. HistoryTypes
    BY DEF IInv, TypeOK
  <2>2. QED
    BY <1>2, <1>5, <2>1, ReplyTypes DEF HistoryTypes
<1>9. LoopTypes'
  BY <1>1, <1>2, <1>5 DEF IInv, TypeOK, LoopTypes, latchVars, clockVars
<1>10. Ownership'
  <2>1. chosen = NoKey /\ DOMAIN normalQueue \cap DOMAIN work = {}
    BY <1>2 DEF IInv, Ownership
  <2>2. DOMAIN work' = DOMAIN work \ {key} /\ DOMAIN pending' = DOMAIN pending \ {key}
    BY <1>1, <1>5
  <2>3. QED
    BY <1>2, <1>3, <1>5, <2>1, <2>2 DEF IInv, Ownership, queueVars
<1>11. EngineAgreement'
  <2>1. DOMAIN completion = {}
    BY <1>1 DEF IInv, EngineAgreement
  <2>2. activeKey = key => action = NoCommand
    BY <1>1, <1>2 DEF IInv, EngineAgreement
  <2>3. DOMAIN work' = DOMAIN work \ {key}
    BY <1>1
  <2>4. QED
    BY <1>2, <1>3, <1>5, <2>1, <2>2, <2>3, MovingIsPending
    DEF IInv, EngineAgreement, engineVars
<1>12. EmergencyHolds'
  BY <1>2 DEF IInv, EmergencyHolds, engineVars, latchVars
<1>13. QED
  BY <1>2, <1>6, <1>7, <1>8, <1>9, <1>10, <1>11, <1>12, EngineUnchanged,
     QueuesUnchanged DEF IInv, TypeOK

\* The early returns change only where the loop thread is.
LEMMA NoEmergencyIInv ==
    ASSUME IInv, NoEmergency PROVE IInv'
<1>1. /\ UNCHANGED <<engineVars, tableVars, queueVars, cancelVars, activeKey,
                     latchVars, work, chosen, clockVars, historyVars>>
      /\ pc = "idle" /\ pc' = "expire" /\ DOMAIN work = {}
  BY DEF NoEmergency, Ready
<1>2. LoopTypes'
  BY <1>1 DEF IInv, TypeOK, LoopTypes, latchVars, clockVars, Sections
<1>3. Ownership'
  BY <1>1 DEF IInv, Ownership, tableVars, queueVars
<1>4. EngineAgreement' /\ EmergencyHolds'
  BY <1>1 DEF IInv, EngineAgreement, EmergencyHolds, engineVars, tableVars, latchVars
<1>5. QED
  BY <1>1, <1>2, <1>3, <1>4, EngineUnchanged, TablesUnchanged, HistoryUnchanged,
     QueuesUnchanged DEF IInv, TypeOK

\* Latching moves both queues into work; the active motion goes on until Halt.
LEMMA LatchEmergencyIInv ==
    ASSUME IInv, LatchEmergency PROVE IInv'
<1>1. /\ UNCHANGED <<engineVars, tableVars, cancelVars, activeKey, latestStopped,
                     chosen, clockVars, historyVars>>
      /\ pc = "idle" /\ pc' = "halt" /\ DOMAIN work = {}
      /\ emergencyQueue' = {} /\ latched' = TRUE
  BY DEF LatchEmergency, Ready
<1>2. /\ DOMAIN normalQueue' = {}
      /\ DOMAIN work' = DOMAIN normalQueue \cup emergencyQueue
      /\ \A k \in DOMAIN work' : work'[k] \in Code
  BY DEF LatchEmergency, Interrupted, EmptyLine, Code
<1>3. LoopTypes' /\ QueueTypes'
  BY <1>1, <1>2 DEF IInv, TypeOK, LoopTypes, QueueTypes, cancelVars, clockVars, Sections
<1>4. Ownership'
  BY <1>1, <1>2 DEF IInv, Ownership, tableVars
<1>5. EngineAgreement'
  <2>1. DOMAIN completion = {}
    BY <1>1 DEF IInv, EngineAgreement
  <2>2. activeKey \notin DOMAIN work'
    BY <1>2, NoKeyIsNoKey DEF IInv, Ownership, TypeOK, QueueTypes
  <2>3. QED
    BY <1>1, <2>1, <2>2 DEF IInv, EngineAgreement, engineVars, tableVars
<1>6. EmergencyHolds'
  BY <1>1 DEF IInv, EmergencyHolds, engineVars
<1>7. QED
  BY <1>1, <1>3, <1>4, <1>5, <1>6, EngineUnchanged, TablesUnchanged, HistoryUnchanged
  DEF IInv, TypeOK

\* Stopping the engine and taking the interrupted motion into work.
LEMMA HaltIInv ==
    ASSUME IInv, Halt PROVE IInv'
<1>1. /\ UNCHANGED <<completion, paused, tableVars, queueVars, cancelVars,
                     activeKey, latched, chosen, clockVars, historyVars>>
      /\ pc = "halt" /\ pc' = "expire" /\ latched = TRUE
      /\ action' = NoCommand /\ remaining' = 0
      /\ stopped' = TRUE /\ latestStopped' = TRUE
  BY DEF Halt, CancelAction, IInv, EmergencyHolds, TypeOK, LoopTypes
<1>2. /\ DOMAIN work' = IF action # NoCommand THEN DOMAIN work \cup {activeKey}
                                              ELSE DOMAIN work
      /\ \A k \in DOMAIN work' : work'[k] \in Code
  BY MovingIsPending DEF Halt, IInv, TypeOK, LoopTypes, Code
<1>3. EngineTypes'
  BY <1>1 DEF IInv, TypeOK, EngineTypes
<1>4. LoopTypes'
  <2>1. DOMAIN work' \subseteq Keys
    BY <1>2, MovingIsPending DEF IInv, TypeOK, LoopTypes, PendingTypes
  <2>2. QED
    BY <1>1, <1>2, <2>1 DEF IInv, TypeOK, LoopTypes, clockVars, Sections
<1>5. Ownership'
  <2>1. DOMAIN normalQueue \cap DOMAIN work = {} /\ chosen = NoKey
    BY <1>1 DEF IInv, Ownership
  <2>2. QED
    BY <1>1, <1>2, <2>1, MovingIsPending DEF IInv, Ownership, tableVars, queueVars
<1>6. EngineAgreement'
  BY <1>1, <1>2 DEF IInv, EngineAgreement
<1>7. EmergencyHolds'
  BY <1>1 DEF EmergencyHolds
<1>8. QED
  BY <1>1, <1>3, <1>4, <1>5, <1>6, <1>7, TablesUnchanged, HistoryUnchanged,
     QueuesUnchanged DEF IInv, TypeOK

LEMMA ExpireQueuedIInv ==
    ASSUME IInv, ExpireQueued PROVE IInv'
<1>1. /\ UNCHANGED <<engineVars, tableVars, emergencyQueue, cancelVars, activeKey,
                     latchVars, chosen, clockVars, historyVars>>
      /\ pc = "expire" /\ pc' = "cancel" /\ DOMAIN work = {}
      /\ DOMAIN completion = {}
  BY DEF ExpireQueued, Ready, IInv, EngineAgreement
<1>2. /\ DOMAIN normalQueue' = DOMAIN normalQueue \ LateKeys
      /\ DOMAIN work' = LateKeys
      /\ \A k \in DOMAIN work' : work'[k] \in Code
      /\ LateKeys \subseteq DOMAIN normalQueue
  BY DEF ExpireQueued, Assigned, Leave, LateKeys, Code
<1>3. LoopTypes' /\ QueueTypes'
  BY <1>1, <1>2 DEF IInv, TypeOK, LoopTypes, QueueTypes, cancelVars, latchVars,
                    clockVars, Sections
<1>4. Ownership'
  BY <1>1, <1>2 DEF IInv, Ownership, tableVars
<1>5. EngineAgreement'
  <2>1. activeKey \notin DOMAIN work'
    BY <1>2 DEF IInv, Ownership
  <2>2. QED
    BY <1>1, <2>1 DEF IInv, EngineAgreement, engineVars, tableVars
<1>6. EmergencyHolds'
  BY <1>1 DEF IInv, EmergencyHolds, engineVars, latchVars
<1>7. QED
  BY <1>1, <1>3, <1>4, <1>5, <1>6, EngineUnchanged, TablesUnchanged, HistoryUnchanged
  DEF IInv, TypeOK

LEMMA SkipCancellationIInv ==
    ASSUME IInv, SkipCancellation PROVE IInv'
<1>1. /\ UNCHANGED <<engineVars, tableVars, queueVars, cancelledTasks, activeKey,
                     latchVars, work, chosen, clockVars, historyVars>>
      /\ pc = "cancel" /\ pc' = "select" /\ DOMAIN work = {}
      /\ cancelTaskIds' \subseteq cancelTaskIds
  BY DEF SkipCancellation, Ready
<1>2. LoopTypes' /\ QueueTypes'
  BY <1>1 DEF IInv, TypeOK, LoopTypes, QueueTypes, queueVars, latchVars, clockVars,
              Sections
<1>3. Ownership'
  BY <1>1 DEF IInv, Ownership, tableVars, queueVars
<1>4. EngineAgreement' /\ EmergencyHolds'
  BY <1>1 DEF IInv, EngineAgreement, EmergencyHolds, engineVars, tableVars, latchVars
<1>5. QED
  BY <1>1, <1>2, <1>3, <1>4, EngineUnchanged, TablesUnchanged, HistoryUnchanged
  DEF IInv, TypeOK

LEMMA SelectCancelledIInv ==
    ASSUME IInv, SelectCancelled PROVE IInv'
<1>1. /\ UNCHANGED <<engineVars, tableVars, queueVars, cancelledTasks, activeKey,
                     latchVars, chosen, clockVars, historyVars>>
      /\ pc = "cancel" /\ pc' = "withdraw" /\ DOMAIN work = {}
      /\ cancelTaskIds' = {} /\ emergencyQueue = {}
      /\ DOMAIN completion = {}
  BY DEF SelectCancelled, Ready, IInv, EngineAgreement
<1>2. /\ DOMAIN work' \subseteq DOMAIN pending
      /\ \A k \in DOMAIN work' : work'[k] \in Code
  BY DEF SelectCancelled, Assigned, Code
<1>3. LoopTypes'
  <2>1. DOMAIN work' \subseteq Keys
    BY <1>2 DEF IInv, TypeOK, PendingTypes
  <2>2. QED
    BY <1>1, <1>2, <2>1 DEF IInv, TypeOK, LoopTypes, latchVars, clockVars, Sections
<1>4. QueueTypes'
  BY <1>1 DEF IInv, TypeOK, QueueTypes, queueVars
<1>5. Ownership'
  BY <1>1, <1>2 DEF IInv, Ownership, tableVars, queueVars
<1>6. EngineAgreement' /\ EmergencyHolds'
  BY <1>1 DEF IInv, EngineAgreement, EmergencyHolds, engineVars, tableVars, latchVars
<1>7. QED
  BY <1>1, <1>3, <1>4, <1>5, <1>6, EngineUnchanged, TablesUnchanged, HistoryUnchanged
  DEF IInv, TypeOK

\* The cancelled motion stops and the cancelled waiters leave the queue.
LEMMA WithdrawIInv ==
    ASSUME IInv, Withdraw PROVE IInv'
<1>1. /\ UNCHANGED <<completion, paused, tableVars, emergencyQueue, cancelVars,
                     activeKey, latched, work, chosen, clockVars, historyVars>>
      /\ pc = "withdraw" /\ pc' = "select" /\ latestStopped' = stopped'
      /\ DOMAIN normalQueue' = DOMAIN normalQueue \ DOMAIN work
  BY DEF Withdraw, CancelAction, engineVars, Leave
<1>2. /\ stopped' = stopped
      /\ action' = IF activeKey \in DOMAIN work THEN NoCommand ELSE action
      /\ remaining' = IF activeKey \in DOMAIN work THEN 0 ELSE remaining
  BY DEF Withdraw, CancelAction, engineVars, IInv, EmergencyHolds, TypeOK, EngineTypes
<1>3. EngineTypes' /\ QueueTypes'
  BY <1>1, <1>2 DEF IInv, TypeOK, EngineTypes, QueueTypes, cancelVars
<1>4. LoopTypes'
  BY <1>1, <1>2 DEF IInv, TypeOK, LoopTypes, EngineTypes, clockVars, Sections
<1>5. Ownership'
  BY <1>1 DEF IInv, Ownership, tableVars
<1>6. EngineAgreement' /\ EmergencyHolds'
  BY <1>1, <1>2 DEF IInv, EngineAgreement, EmergencyHolds, tableVars
<1>7. QED
  BY <1>1, <1>3, <1>4, <1>5, <1>6, TablesUnchanged, HistoryUnchanged DEF IInv, TypeOK

\* Nothing to do in "select".
LEMMA SelectNothingIInv ==
    ASSUME IInv, KeepActive \/ NothingToStart PROVE IInv'
<1>1. /\ UNCHANGED <<engineVars, tableVars, queueVars, cancelVars, activeKey,
                     latchVars, work, chosen, clockVars, historyVars>>
      /\ pc = "select" /\ pc' = "advance"
  BY DEF KeepActive, NothingToStart, Ready
<1>2. LoopTypes'
  BY <1>1 DEF IInv, TypeOK, LoopTypes, latchVars, clockVars, Sections
<1>3. Ownership'
  BY <1>1 DEF IInv, Ownership, tableVars, queueVars
<1>4. EngineAgreement' /\ EmergencyHolds'
  BY <1>1 DEF IInv, EngineAgreement, EmergencyHolds, engineVars, tableVars, latchVars
<1>5. QED
  BY <1>1, <1>2, <1>3, <1>4, EngineUnchanged, TablesUnchanged, HistoryUnchanged,
     QueuesUnchanged DEF IInv, TypeOK

LEMMA TimeoutActiveIInv ==
    ASSUME IInv, TimeoutActive PROVE IInv'
<1>1. /\ UNCHANGED <<completion, paused, tableVars, queueVars, cancelVars,
                     activeKey, latched, chosen, clockVars, historyVars>>
      /\ pc = "select" /\ pc' = "advance" /\ latestStopped' = stopped'
      /\ activeKey # NoKey /\ DOMAIN work = {} /\ DOMAIN completion = {}
      /\ action' = NoCommand /\ remaining' = 0
  BY DEF TimeoutActive, Ready, CancelAction, IInv, EngineAgreement
<1>2. action # NoCommand
  BY <1>1 DEF IInv, EngineAgreement
<1>3. stopped' = stopped
  BY <1>2 DEF TimeoutActive, CancelAction, IInv, EmergencyHolds, TypeOK, EngineTypes
<1>4. /\ DOMAIN work' = {activeKey}
      /\ \A k \in DOMAIN work' : work'[k] \in Code
  BY <1>2 DEF TimeoutActive, Assigned, Code
<1>5. EngineTypes'
  BY <1>1, <1>3 DEF IInv, TypeOK, EngineTypes
<1>6. LoopTypes'
  BY <1>1, <1>3, <1>4 DEF IInv, TypeOK, EngineTypes, LoopTypes, clockVars, Sections
<1>7. Ownership'
  BY <1>1, <1>4 DEF IInv, Ownership, tableVars, queueVars
<1>8. EngineAgreement' /\ EmergencyHolds'
  BY <1>1, <1>3, <1>4 DEF IInv, EngineAgreement, EmergencyHolds
<1>9. QED
  BY <1>1, <1>5, <1>6, <1>7, <1>8, TablesUnchanged, HistoryUnchanged, QueuesUnchanged
  DEF IInv, TypeOK

\* A popped motion is either about to start or already being answered.
LEMMA PopMotionIInv ==
    ASSUME IInv, PopMotion PROVE IInv'
<1>1. PICK key \in DOMAIN normalQueue :
         /\ normalQueue' = Leave(normalQueue, {key})
         /\ \/ chosen' = key /\ pc' = "start" /\ UNCHANGED work
            \/ /\ work' = Assigned({key},
                     IF slack[pending[key].command] = "expired"
                     THEN "deadline_expired" ELSE "budget_exceeded")
               /\ pc' = "advance" /\ UNCHANGED chosen
  BY DEF PopMotion
<1>2. /\ UNCHANGED <<engineVars, tableVars, emergencyQueue, cancelVars, activeKey,
                     latchVars, clockVars, historyVars>>
      /\ pc = "select" /\ activeKey = NoKey /\ ~latched
      /\ DOMAIN work = {} /\ DOMAIN completion = {} /\ chosen = NoKey
  BY DEF PopMotion, Ready, IInv, EngineAgreement, Ownership
<1>3. /\ DOMAIN normalQueue' = DOMAIN normalQueue \ {key}
      /\ key \in Keys /\ key # NoKey /\ key \in DOMAIN pending
  BY <1>1, NoKeyIsNoKey DEF Leave, IInv, TypeOK, QueueTypes, Ownership
<1>4. \/ chosen' = key /\ pc' = "start" /\ work' = work
      \/ /\ DOMAIN work' = {key} /\ work'[key] \in Code
         /\ pc' = "advance" /\ chosen' = NoKey
  BY <1>1, <1>2 DEF Assigned, Code
<1>5. LoopTypes' /\ QueueTypes'
  BY <1>2, <1>3, <1>4 DEF IInv, TypeOK, LoopTypes, QueueTypes, latchVars, cancelVars,
                          clockVars, Sections
<1>6. Ownership'
  BY <1>2, <1>3, <1>4 DEF IInv, Ownership, tableVars
<1>7. EngineAgreement'
  <2>1. action = NoCommand
    BY <1>2, MovingIsPending
  <2>2. QED
    BY <1>2, <1>3, <1>4, <2>1 DEF IInv, EngineAgreement, engineVars, tableVars
<1>8. EmergencyHolds'
  BY <1>2, <1>4 DEF IInv, EmergencyHolds, engineVars, latchVars
<1>9. QED
  BY <1>2, <1>5, <1>6, <1>7, <1>8, EngineUnchanged, TablesUnchanged, HistoryUnchanged
  DEF IInv, TypeOK

\* The popped motion meets a free engine and no latch.
LEMMA StartIInv ==
    ASSUME IInv, Start PROVE IInv'
<1>1. /\ UNCHANGED <<tableVars, queueVars, cancelVars, latchVars, work, slack,
                     delivered, answered, verdicts>>
      /\ pc = "start" /\ pc' = "advance" /\ chosen' = NoKey /\ ~latched
      /\ activeKey' = chosen /\ overtime' = FALSE
      /\ runs' = [runs EXCEPT ![chosen] = @ + 1]
      /\ SubmitAction(pending[chosen].command)
  BY DEF Start, IInv, EmergencyHolds
<1>2. /\ chosen \in Keys /\ chosen # NoKey /\ chosen \in DOMAIN pending
      /\ activeKey = NoKey /\ DOMAIN work = {} /\ DOMAIN completion = {}
  BY <1>1 DEF IInv, Ownership, EngineAgreement, TypeOK, LoopTypes
<1>3. PICK c \in Commands : c = pending[chosen].command /\ KeyOf(c) = chosen
  BY <1>2 DEF IInv, TypeOK, PendingTypes
<1>4. /\ action = NoCommand /\ UNCHANGED <<paused, stopped>>
      /\ \/ /\ DOMAIN completion' = {chosen} /\ completion'[chosen] = "success"
            /\ UNCHANGED <<action, remaining>>
         \/ action' = c /\ remaining' \in Nat /\ UNCHANGED completion
  BY <1>1, <1>3, EngineAssumption DEF SubmitAction, Completed
<1>5. EngineTypes'
  BY <1>2, <1>4 DEF IInv, TypeOK, EngineTypes, Code
<1>6. LoopTypes'
  BY <1>1, <1>2 DEF IInv, TypeOK, LoopTypes, latchVars, Sections
<1>7. HistoryTypes'
  BY <1>1, <1>2 DEF IInv, TypeOK, HistoryTypes
<1>8. Ownership'
  BY <1>1, <1>2 DEF IInv, Ownership, tableVars, queueVars
<1>9. EngineAgreement'
  <2>1. CASE action' = c /\ UNCHANGED completion
    BY <1>1, <1>2, <1>3, <2>1, EngineAssumption DEF EngineAgreement, tableVars
  <2>2. CASE action' = NoCommand /\ DOMAIN completion' = {chosen}
    BY <1>1, <1>2, <2>2 DEF EngineAgreement
  <2>3. QED
    BY <1>4, <2>1, <2>2
<1>10. EmergencyHolds'
  BY <1>1, <1>4 DEF IInv, EmergencyHolds, latchVars
<1>11. QED
  BY <1>1, <1>5, <1>6, <1>7, <1>8, <1>9, <1>10, TablesUnchanged, QueuesUnchanged
  DEF IInv, TypeOK

\* One tick of motion, which may end it.
LEMMA AdvanceIInv ==
    ASSUME IInv, Advance PROVE IInv'
<1>1. /\ UNCHANGED <<paused, stopped, tableVars, queueVars, cancelVars, activeKey,
                     latched, work, chosen, clockVars, historyVars>>
      /\ pc = "advance" /\ pc' = "after" /\ latestStopped' = stopped
      /\ DOMAIN work = {}
  BY DEF Advance, Ready, EngineAdvance, AdvanceIdle, AdvanceMoving, AdvanceEnding,
         FinishAction, engineVars
<1>2. \/ UNCHANGED <<action, completion>> /\ remaining' \in Nat
      \/ /\ action # NoCommand /\ action' = NoCommand /\ remaining' = 0
         /\ DOMAIN completion' = {KeyOf(action)}
         /\ completion'[KeyOf(action)] \in {"success", "blocked"}
  BY DEF Advance, EngineAdvance, AdvanceIdle, AdvanceMoving, AdvanceEnding,
         FinishAction, Completed, engineVars, IInv, TypeOK, EngineTypes
<1>3. EngineTypes'
  BY <1>1, <1>2, KeyOfCommand DEF IInv, TypeOK, EngineTypes, Code
<1>4. LoopTypes'
  BY <1>1 DEF IInv, TypeOK, EngineTypes, LoopTypes, clockVars, Sections
<1>5. Ownership'
  BY <1>1 DEF IInv, Ownership, tableVars, queueVars
<1>6. EngineAgreement'
  BY <1>1, <1>2 DEF IInv, EngineAgreement, tableVars
<1>7. EmergencyHolds'
  BY <1>1, <1>2 DEF IInv, EmergencyHolds
<1>8. QED
  BY <1>1, <1>3, <1>4, <1>5, <1>6, <1>7, TablesUnchanged, HistoryUnchanged,
     QueuesUnchanged DEF IInv, TypeOK

\* The collected completion becomes the answer under way.
LEMMA AfterTickIInv ==
    ASSUME IInv, AfterTick PROVE IInv'
<1>1. /\ UNCHANGED <<action, remaining, paused, stopped, tableVars, queueVars,
                     cancelVars, activeKey, latched, chosen, clockVars, historyVars>>
      /\ pc = "after" /\ pc' = "idle" /\ latestStopped' = stopped
      /\ DOMAIN work = {} /\ work' = completion /\ DOMAIN completion' = {}
  BY DEF AfterTick, Ready, NoCompletion
<1>2. EngineTypes'
  BY <1>1 DEF IInv, TypeOK, EngineTypes
<1>3. LoopTypes'
  BY <1>1 DEF IInv, TypeOK, EngineTypes, LoopTypes, clockVars, Sections
<1>4. Ownership'
  <2>1. DOMAIN work' = DOMAIN completion
    BY <1>1
  <2>2. DOMAIN completion # {} => DOMAIN completion = {activeKey}
    BY DEF IInv, EngineAgreement
  <2>3. DOMAIN completion \subseteq Keys
    BY DEF IInv, TypeOK, EngineTypes
  <2>4. DOMAIN work' # {} => DOMAIN work' = {activeKey} /\ activeKey # NoKey
    BY <2>1, <2>2, <2>3, NoKeyIsNoKey
  <2>5. QED
    BY <1>1, <2>4 DEF IInv, Ownership, tableVars, queueVars
<1>5. EngineAgreement' /\ EmergencyHolds'
  BY <1>1 DEF IInv, EngineAgreement, EmergencyHolds, tableVars
<1>6. QED
  BY <1>1, <1>2, <1>3, <1>4, <1>5, TablesUnchanged, HistoryUnchanged, QueuesUnchanged
  DEF IInv, TypeOK

-----------------------------------------------------------------------------
(* Operator controls and time.                                             *)

\* cancel_all puts every pending key into work and frees the engine.
LEMMA ResetIInv ==
    ASSUME IInv, Reset PROVE IInv'
<1>1. /\ UNCHANGED <<completion, paused, tableVars, cancelledTasks, chosen,
                     clockVars, historyVars>>
      /\ pc = "idle" /\ pc' = "reboot" /\ latestStopped' = stopped'
      /\ DOMAIN work = {} /\ DOMAIN completion = {} /\ chosen = NoKey
      /\ action' = NoCommand /\ remaining' = 0 /\ stopped' = stopped
      /\ DOMAIN normalQueue' = {} /\ emergencyQueue' = {} /\ cancelTaskIds' = {}
      /\ activeKey' = NoKey /\ latched' = FALSE
  BY DEF Reset, Ready, CancelAction, EmptyLine, IInv, TypeOK, EngineTypes,
         EngineAgreement, EmergencyHolds, Ownership
<1>2. /\ DOMAIN work' = DOMAIN pending
      /\ \A k \in DOMAIN work' : work'[k] \in Code
  BY DEF Reset, Assigned, Code
<1>3. EngineTypes'
  BY <1>1 DEF IInv, TypeOK, EngineTypes
<1>4. QueueTypes'
  BY <1>1 DEF IInv, TypeOK, QueueTypes
<1>5. LoopTypes'
  BY <1>1, <1>2 DEF IInv, TypeOK, EngineTypes, PendingTypes, LoopTypes, clockVars,
                    Sections
<1>6. Ownership'
  BY <1>1, <1>2 DEF Ownership, tableVars
<1>7. EngineAgreement' /\ EmergencyHolds'
  BY <1>1 DEF EngineAgreement, EmergencyHolds
<1>8. QED
  BY <1>1, <1>3, <1>4, <1>5, <1>6, <1>7, TablesUnchanged, HistoryUnchanged
  DEF IInv, TypeOK

LEMMA RebootIInv ==
    ASSUME IInv, Reboot PROVE IInv'
<1>1. /\ UNCHANGED <<tableVars, queueVars, cancelVars, activeKey, latched, work,
                     chosen, clockVars, historyVars>>
      /\ pc = "reboot" /\ pc' = "idle" /\ latestStopped' = FALSE
      /\ DOMAIN work = {} /\ activeKey = NoKey /\ latched = FALSE
      /\ action' = NoCommand /\ remaining' = 0 /\ DOMAIN completion' = {}
      /\ paused' = FALSE /\ stopped' = FALSE
  BY DEF Reboot, Ready, EngineReset, NoCompletion, IInv, TypeOK, LoopTypes,
         EngineAgreement, EmergencyHolds
<1>2. EngineTypes'
  BY <1>1 DEF EngineTypes
<1>3. LoopTypes'
  BY <1>1 DEF IInv, TypeOK, LoopTypes, clockVars, Sections
<1>4. Ownership'
  BY <1>1 DEF IInv, Ownership, tableVars, queueVars
<1>5. EngineAgreement' /\ EmergencyHolds'
  BY <1>1 DEF EngineAgreement, EmergencyHolds
<1>6. QED
  BY <1>1, <1>2, <1>3, <1>4, <1>5, TablesUnchanged, HistoryUnchanged, QueuesUnchanged
  DEF IInv, TypeOK

LEMMA PauseOrResumeIInv ==
    ASSUME IInv, PauseOrResume PROVE IInv'
<1>1. /\ UNCHANGED <<action, remaining, completion, stopped, tableVars, queueVars,
                     cancelVars, activeKey, latched, pc, work, chosen, clockVars,
                     historyVars>>
      /\ latestStopped' = stopped /\ paused' \in BOOLEAN
  BY DEF PauseOrResume, SetPaused
<1>2. EngineTypes' /\ LoopTypes'
  BY <1>1 DEF IInv, TypeOK, EngineTypes, LoopTypes, clockVars
<1>3. Ownership'
  BY <1>1 DEF IInv, Ownership, tableVars, queueVars
<1>4. EngineAgreement' /\ EmergencyHolds'
  BY <1>1 DEF IInv, EngineAgreement, EmergencyHolds, tableVars
<1>5. QED
  BY <1>1, <1>2, <1>3, <1>4, TablesUnchanged, HistoryUnchanged, QueuesUnchanged
  DEF IInv, TypeOK

\* The clock changes slack and overtime only.
LEMMA ClockIInv ==
    ASSUME IInv, (\E c \in Aging : Age(c)) \/ Overrun PROVE IInv'
<1>1. /\ UNCHANGED <<engineVars, tableVars, queueVars, cancelVars, activeKey,
                     latchVars, pc, work, chosen, historyVars>>
      /\ slack' \in [Commands -> {"ample", "tight", "expired"}]
      /\ overtime' \in BOOLEAN
  BY AdapterAssumption DEF Age, Overrun, IInv, TypeOK, LoopTypes
<1>2. LoopTypes'
  BY <1>1 DEF IInv, TypeOK, LoopTypes, latchVars
<1>3. Ownership'
  BY <1>1 DEF IInv, Ownership, tableVars, queueVars
<1>4. EngineAgreement' /\ EmergencyHolds'
  BY <1>1 DEF IInv, EngineAgreement, EmergencyHolds, engineVars, tableVars, latchVars
<1>5. QED
  BY <1>1, <1>2, <1>3, <1>4, EngineUnchanged, TablesUnchanged, HistoryUnchanged,
     QueuesUnchanged DEF IInv, TypeOK

-----------------------------------------------------------------------------
(* The theorems.                                                           *)

LEMMA StepIInv ==
    ASSUME IInv, [Next]_vars PROVE IInv'
<1>1. CASE \E c \in Commands : Submit(c)
  BY <1>1, SubmitIInv
<1>2. CASE \E t \in Cancellable : CancelTask(t)
  BY <1>2, CancelTaskIInv
<1>3. CASE LoopStep
  BY <1>3, AnswerIInv, NoEmergencyIInv, LatchEmergencyIInv, HaltIInv,
     ExpireQueuedIInv, SkipCancellationIInv, SelectCancelledIInv, WithdrawIInv,
     SelectNothingIInv, TimeoutActiveIInv, PopMotionIInv, StartIInv, AdvanceIInv,
     AfterTickIInv, RebootIInv DEF LoopStep
<1>4. CASE Reset \/ PauseOrResume
  BY <1>4, ResetIInv, PauseOrResumeIInv
<1>5. CASE (\E c \in Aging : Age(c)) \/ Overrun
  BY <1>5, ClockIInv
<1>6. CASE UNCHANGED vars
  BY <1>6, EngineUnchanged, TablesUnchanged, HistoryUnchanged, QueuesUnchanged
  DEF vars, IInv, TypeOK, LoopTypes, Ownership, EngineAgreement, EmergencyHolds,
      engineVars, tableVars, queueVars, latchVars, clockVars
<1>7. QED
  BY <1>1, <1>2, <1>3, <1>4, <1>5, <1>6 DEF Next

\* The inductive invariant holds in every state of the bridge.
THEOREM Inductive == Spec => []IInv
<1>1. Init => IInv
  BY InitIInv
<1>2. IInv /\ [Next]_vars => IInv'
  BY StepIInv
<1>3. QED
  BY <1>1, <1>2, PTL DEF Spec

\* Every table, queue and history of the bridge keeps its type.
THEOREM TypeCorrect == Spec => []TypeOK
<1>1. IInv => TypeOK
  BY DEF IInv
<1>2. QED
  BY <1>1, Inductive, PTL

\* No pending command is ever without somebody who will complete it, whatever
\* order deliveries, ticks, cancellations, emergencies and resets come in.
THEOREM OwnershipHolds == Spec => []Ownership
<1>1. IInv => Ownership
  BY DEF IInv
<1>2. QED
  BY <1>1, Inductive, PTL

\* The engine never carries a motion the adapter does not know of, and the
\* adapter never waits for a motion the engine does not carry.
THEOREM EngineAgreementHolds == Spec => []EngineAgreement
<1>1. IInv => EngineAgreement
  BY DEF IInv
<1>2. QED
  BY <1>1, Inductive, PTL

\* An emergency stop, once taken in, keeps the robot still until a reset.
THEOREM EmergencyAlwaysHolds == Spec => []EmergencyHolds
<1>1. IInv => EmergencyHolds
  BY DEF IInv
<1>2. QED
  BY <1>1, Inductive, PTL
=============================================================================
