-------------------------- MODULE SimulationAdapter --------------------------
(***************************************************************************)
(* The bridge between MQTT and the simulation: SimulationAdapter composed  *)
(* with SimulationEngine and the tick loop of SimulationRuntime.           *)
(*                                                                         *)
(* Two kinds of thread meet here.  The MQTT thread runs submit_payload,    *)
(* whole, under the adapter's lock.  The loop thread runs before_tick,     *)
(* advance, after_tick and the operator's pause, resume and reset; it      *)
(* takes the lock only for short sections, and pc names the section that   *)
(* comes next, so deliveries land between any two of them.  cancel_task is *)
(* one locked section that any thread may run.  work holds the keys a loop *)
(* of the current section still has to complete, one lock section each.    *)
(***************************************************************************)
EXTENDS SimulationEngine, Lineup

CONSTANTS
    Task,           \* task_id values
    Tool,           \* tool names
    NoKey,          \* None, where a command key is expected
    QueueSize,      \* queue_size: motions that may wait
    CacheSize,      \* cache_size: results (and cancelled tasks) remembered
    MaxDeliveries,  \* bound: how often each payload is delivered
    Aging,          \* bound: the commands whose deadline may come near
    Cancellable,    \* bound: the tasks cancel_task is asked for
    Controls        \* bound: the operator controls in use

ASSUME AdapterAssumption ==
    /\ \A c \in Commands : c.task \in Task /\ c.seq \in Nat \ {0} /\ c.tool \in Tool
    /\ NoKey \notin {KeyOf(c) : c \in Commands}
    /\ QueueSize \in Nat \ {0}
    /\ CacheSize \in Nat \ {0}
    /\ MaxDeliveries \in [Commands -> Nat]
    /\ Aging \subseteq Commands
    /\ Cancellable \subseteq Task
    /\ Controls \subseteq {"pause", "reset"}

VARIABLES
    pending,         \* _pending: key -> command and number of callbacks
    results,         \* _completed: key -> command (its fingerprint) and code
    recency,         \* the order of _completed
    latestSeq,       \* _latest_seq, 0 when absent
    normalQueue,     \* _normal_queue
    emergencyQueue,  \* _emergency_queue, which is only ever drained whole
    cancelTaskIds,   \* _cancel_task_ids
    cancelledTasks,  \* _cancelled_tasks
    activeKey,       \* _active_key
    latched,         \* _emergency_latched
    latestStopped,   \* _latest_state.emergency_stopped
    pc,              \* the loop thread's next section
    work,            \* keys it has still to complete, with the code of each
    chosen,          \* the key popped from the normal queue, not yet started
    slack,           \* command -> how its deadline stands against its duration
    overtime,        \* the active motion has used up its timeout_ms
    delivered,       \* history: deliveries of each payload
    answered,        \* history: callbacks called for each payload
    verdicts,        \* history: codes those callbacks were given
    runs             \* history: motions started under each key

tableVars == <<pending, results, recency, latestSeq>>
queueVars == <<normalQueue, emergencyQueue>>
cancelVars == <<cancelTaskIds, cancelledTasks>>
latchVars == <<latched, latestStopped>>
clockVars == <<slack, overtime>>
historyVars == <<delivered, answered, verdicts, runs>>
vars == <<engineVars, tableVars, queueVars, cancelVars, activeKey, latchVars,
          pc, work, chosen, clockVars, historyVars>>

Keys == {KeyOf(c) : c \in Commands}
MotionTools == {"move_robot", "turn_robot"}
QueryTools == {"get_robot_state", "scan_obstacles", "inspect_semantic_world"}

\* Observation status and error_code, as far as callers can tell them apart.
Code == {"success", "blocked", "front_obstacle", "deadline_expired",
         "budget_exceeded", "action_timeout", "device_busy",
         "operator_cancelled", "simulation_reset", "emergency_cancelled",
         "emergency_stopped", "emergency_stop", "duplicate_conflict",
         "stale_sequence"}

NoWork == [k \in {} |-> "success"]

\* The loop thread is about to run this section, its previous loop finished.
Ready(section) == pc = section /\ DOMAIN work = {}

Assigned(keys, code) == [k \in keys |-> code]

-----------------------------------------------------------------------------
(* Results and callbacks.                                                  *)

Reply(c, code, callbacks) ==
    /\ answered' = [answered EXCEPT ![c] = @ + callbacks]
    /\ verdicts' = [verdicts EXCEPT ![c] = @ \cup {code}]

NoReply == UNCHANGED <<answered, verdicts>>

\* _remember: store the result as the most recent one and evict the oldest.
StoreResult(c, code) ==
    /\ recency' = Trim(Rejoin(recency, KeyOf(c)), CacheSize)
    /\ results' = [k \in DOMAIN recency' |->
                      IF k = KeyOf(c) THEN [command |-> c, code |-> code]
                                      ELSE results[k]]

RaiseLatest(c) ==
    latestSeq' = [latestSeq EXCEPT ![c.task] = IF @ < c.seq THEN c.seq ELSE @]

\* Mutant: the sequence number is noted, the result is not.
ForgetResult(c, code) == RaiseLatest(c) /\ UNCHANGED <<results, recency>>

Remember(c, code) == StoreResult(c, code) /\ RaiseLatest(c)

\* Mutant: completing the active command leaves it active.
KeepActiveKey(key) == activeKey

\* if self._active_key == key: self._active_key = None
ActiveAfter(key) == IF activeKey = key THEN NoKey ELSE activeKey

\* _complete: the pending entry goes, its result is remembered, and every
\* callback waiting on it is called once.
Complete(key, code) ==
    /\ pending' = [k \in DOMAIN pending \ {key} |-> pending[k]]
    /\ activeKey' = ActiveAfter(key)
    /\ Remember(pending[key].command, code)
    /\ Reply(pending[key].command, code, pending[key].callbacks)

-----------------------------------------------------------------------------
(* submit_payload, on the MQTT thread.                                     *)

\* Mutants: a duplicate is not recognised; a cancelled task is not; an old
\* sequence number is not.
NeverCached(c) == FALSE
NeverCancelled(c) == FALSE
NeverStale(c) == FALSE

Cached(c) == KeyOf(c) \in DOMAIN results

Cancelled(c) ==
    /\ c.tool # "emergency_stop"
    /\ c.task \in DOMAIN cancelledTasks
    /\ ~latched
    /\ emergencyQueue = {}

IsPending(c) == KeyOf(c) \in DOMAIN pending
Stale(c) == c.seq < latestSeq[c.task]
Fresh(c) == ~Cached(c) /\ ~Cancelled(c) /\ ~IsPending(c) /\ ~Stale(c)

\* SafetyGuard.check, as the decisions it may reach: only a forward move
\* depends on the obstacle in front.
SafetyDecisions(c) ==
    IF slack[c] = "expired" THEN {"deadline_expired"}
    ELSE IF c.tool \in MotionTools /\ latestStopped THEN {"emergency_stopped"}
    ELSE IF c.tool = "move_robot" THEN {"allowed", "front_obstacle"}
    ELSE {"allowed"}

Deliver(c) ==
    /\ delivered[c] < MaxDeliveries[c]
    /\ delivered' = [delivered EXCEPT ![c] = @ + 1]
    /\ UNCHANGED <<engineVars, cancelVars, activeKey, latchVars, pc, work,
                   chosen, clockVars, runs>>

SubmitCached(c) ==
    /\ Cached(c)
    /\ Deliver(c)
    /\ recency' = Rejoin(recency, KeyOf(c))
    /\ Reply(c, IF results[KeyOf(c)].command = c THEN results[KeyOf(c)].code
                                                 ELSE "duplicate_conflict", 1)
    /\ UNCHANGED <<pending, results, latestSeq, queueVars>>

SubmitCancelled(c) ==
    /\ ~Cached(c) /\ Cancelled(c)
    /\ Deliver(c)
    /\ Remember(c, "operator_cancelled")
    /\ Reply(c, "operator_cancelled", 1)
    /\ UNCHANGED <<pending, queueVars>>

\* Mutant: the duplicate of a pending command brings no callback.
IgnoreDuplicate(c) == UNCHANGED pending

\* pending.callbacks.append(on_complete)
AddCallback(c) == pending' = [pending EXCEPT ![KeyOf(c)].callbacks = @ + 1]

SubmitPending(c) ==
    /\ ~Cached(c) /\ ~Cancelled(c) /\ IsPending(c)
    /\ Deliver(c)
    /\ IF pending[KeyOf(c)].command = c
       THEN AddCallback(c) /\ NoReply
       ELSE Reply(c, "duplicate_conflict", 1) /\ UNCHANGED pending
    /\ UNCHANGED <<results, recency, latestSeq, queueVars>>

SubmitStale(c) ==
    /\ ~Cached(c) /\ ~Cancelled(c) /\ ~IsPending(c) /\ Stale(c)
    /\ Deliver(c)
    /\ StoreResult(c, "stale_sequence")
    /\ Reply(c, "stale_sequence", 1)
    /\ UNCHANGED <<pending, latestSeq, queueVars>>

\* Everything a fresh command may be told at once: a refusal of the safety
\* guard, the answer of a query, no budget left, or a full queue.
ImmediateCodes(c) ==
    LET refusals == SafetyDecisions(c) \ {"allowed"}
        accepted == IF "allowed" \notin SafetyDecisions(c) THEN {}
                    ELSE IF c.tool \in QueryTools THEN {"success"}
                    ELSE IF c.tool \notin MotionTools THEN {}
                    ELSE IF slack[c] = "tight" THEN {"budget_exceeded"}
                    ELSE IF Cardinality(DOMAIN normalQueue) >= QueueSize
                         THEN {"device_busy"}
                    ELSE {}
    IN  refusals \cup accepted

SubmitImmediate(c) ==
    /\ Fresh(c)
    /\ Deliver(c)
    /\ \E code \in ImmediateCodes(c) : Remember(c, code) /\ Reply(c, code, 1)
    /\ UNCHANGED <<pending, queueVars>>

\* Mutant: the first callback is not registered.
EntryWithoutCallback(c) == [command |-> c, callbacks |-> 0]

\* _PendingCommand(command, fingerprint, [on_complete])
Entry(c) == [command |-> c, callbacks |-> 1]

\* Register a command whose answer comes from the tick loop.
Enroll(c) ==
    /\ pending' = [k \in DOMAIN pending \cup {KeyOf(c)} |->
                      IF k = KeyOf(c) THEN Entry(c) ELSE pending[k]]
    /\ latestSeq' = [latestSeq EXCEPT ![c.task] = c.seq]
    /\ NoReply
    /\ UNCHANGED <<results, recency>>

SubmitEmergency(c) ==
    /\ Fresh(c)
    /\ "allowed" \in SafetyDecisions(c)
    /\ c.tool = "emergency_stop"
    /\ Deliver(c)
    /\ Enroll(c)
    /\ emergencyQueue' = emergencyQueue \cup {KeyOf(c)}
    /\ UNCHANGED normalQueue

SubmitMotion(c) ==
    /\ Fresh(c)
    /\ "allowed" \in SafetyDecisions(c)
    /\ c.tool \in MotionTools
    /\ slack[c] = "ample"
    /\ Cardinality(DOMAIN normalQueue) < QueueSize
    /\ Deliver(c)
    /\ Enroll(c)
    /\ normalQueue' = Join(normalQueue, KeyOf(c))
    /\ UNCHANGED emergencyQueue

Submit(c) ==
    \/ SubmitCached(c)
    \/ SubmitCancelled(c)
    \/ SubmitPending(c)
    \/ SubmitStale(c)
    \/ SubmitImmediate(c)
    \/ SubmitEmergency(c)
    \/ SubmitMotion(c)

\* cancel_task: one locked section, callable from any thread.
CancelTask(t) ==
    /\ cancelTaskIds' = cancelTaskIds \cup {t}
    /\ cancelledTasks' = Trim(Rejoin(cancelledTasks, t), CacheSize)
    /\ UNCHANGED <<engineVars, tableVars, queueVars, activeKey, latchVars, pc,
                   work, chosen, clockVars, historyVars>>

-----------------------------------------------------------------------------
(* The tick, on the loop thread: before_tick, advance, after_tick.         *)

\* One turn of a "for key in keys: ... self._complete(...)" loop.  The order
\* of the keys is left open; halt and withdraw must stop the engine first.
Answer ==
    /\ pc \notin {"halt", "withdraw"}
    /\ \E key \in DOMAIN work :
          /\ Complete(key, work[key])
          /\ work' = [k \in DOMAIN work \ {key} |-> work[k]]
    /\ UNCHANGED <<engineVars, queueVars, cancelVars, latchVars, pc, chosen,
                   clockVars, delivered, runs>>

\* Mutants: emergencies wait for a paused engine; queued motions are thrown
\* away instead of answered.
DueUnlessPaused == emergencyQueue # {} /\ ~paused
OnlyEmergencies == [k \in emergencyQueue |-> "emergency_stop"]

EmergencyDue == emergencyQueue # {}

\* What the keys taken from the two queues will be told.
Interrupted ==
    [k \in DOMAIN normalQueue \cup emergencyQueue |->
        IF k \in emergencyQueue THEN "emergency_stop" ELSE "emergency_stopped"]

\* _process_emergency, nothing to do.
NoEmergency ==
    /\ Ready("idle")
    /\ ~EmergencyDue
    /\ pc' = "expire"
    /\ UNCHANGED <<engineVars, tableVars, queueVars, cancelVars, activeKey,
                   latchVars, work, chosen, clockVars, historyVars>>

\* _process_emergency, its locked section: take both queues and latch.
LatchEmergency ==
    /\ Ready("idle")
    /\ EmergencyDue
    /\ work' = Interrupted
    /\ emergencyQueue' = {}
    /\ normalQueue' = EmptyLine
    /\ latched' = TRUE
    /\ pc' = "halt"
    /\ UNCHANGED <<engineVars, tableVars, cancelVars, activeKey, latestStopped,
                   chosen, clockVars, historyVars>>

\* ... then the engine is stopped and the frame taken over, after which the
\* interrupted motion, the queued motions and the emergencies are answered.
Halt ==
    /\ pc = "halt"
    /\ CancelAction(TRUE)
    /\ latestStopped' = stopped'
    /\ work' = IF action # NoCommand /\ activeKey # NoKey
               THEN [k \in DOMAIN work \cup {activeKey} |->
                        IF k = activeKey THEN "emergency_cancelled" ELSE work[k]]
               ELSE work
    /\ pc' = "expire"
    /\ UNCHANGED <<tableVars, queueVars, cancelVars, activeKey, latched, chosen,
                   clockVars, historyVars>>

\* Mutant: waiting motions never expire.
NoneLate == {}

LateKeys == {k \in DOMAIN normalQueue : slack[pending[k].command] = "expired"}

\* _expire_queued
ExpireQueued ==
    /\ Ready("expire")
    /\ normalQueue' = Leave(normalQueue, LateKeys)
    /\ work' = Assigned(LateKeys, "deadline_expired")
    /\ pc' = "cancel"
    /\ UNCHANGED <<engineVars, tableVars, emergencyQueue, cancelVars, activeKey,
                   latchVars, chosen, clockVars, historyVars>>

\* _process_operator_cancellation, its early returns.  Under the latch the
\* requests are dropped; behind a queued emergency they wait for it.
SkipCancellation ==
    /\ Ready("cancel")
    /\ cancelTaskIds = {} \/ latched \/ emergencyQueue # {}
    /\ cancelTaskIds' = IF latched THEN {} ELSE cancelTaskIds
    /\ pc' = "select"
    /\ UNCHANGED <<engineVars, tableVars, queueVars, cancelledTasks, activeKey,
                   latchVars, work, chosen, clockVars, historyVars>>

SelectCancelled ==
    /\ Ready("cancel")
    /\ cancelTaskIds # {} /\ ~latched /\ emergencyQueue = {}
    /\ work' = Assigned({k \in DOMAIN pending :
                            /\ k[1] \in cancelTaskIds
                            /\ pending[k].command.tool # "emergency_stop"},
                        "operator_cancelled")
    /\ cancelTaskIds' = {}
    /\ pc' = "withdraw"
    /\ UNCHANGED <<engineVars, tableVars, queueVars, cancelledTasks, activeKey,
                   latchVars, chosen, clockVars, historyVars>>

\* ... which stops the engine when the active motion is among them, and
\* filters the normal queue, before the keys are answered.
Withdraw ==
    /\ pc = "withdraw"
    /\ IF activeKey \in DOMAIN work THEN CancelAction(FALSE)
                                    ELSE UNCHANGED engineVars
    /\ latestStopped' = stopped'
    /\ normalQueue' = Leave(normalQueue, DOMAIN work)
    /\ pc' = "select"
    /\ UNCHANGED <<tableVars, emergencyQueue, cancelVars, activeKey, latched,
                   work, chosen, clockVars, historyVars>>

\* The active motion is past its deadline or its timeout_ms.
Overdue == overtime \/ slack[pending[activeKey].command] = "expired"

\* _active_would_miss_deadline: only a motion whose whole duration no longer
\* fits can fail to fit with the progress it has made.
MayMissDeadline == ~paused /\ slack[pending[activeKey].command] = "tight"

KeepActive ==
    /\ Ready("select")
    /\ activeKey # NoKey
    /\ ~Overdue
    /\ pc' = "advance"
    /\ UNCHANGED <<engineVars, tableVars, queueVars, cancelVars, activeKey,
                   latchVars, work, chosen, clockVars, historyVars>>

TimeoutActive ==
    /\ Ready("select")
    /\ activeKey # NoKey
    /\ Overdue \/ MayMissDeadline
    /\ CancelAction(FALSE)
    /\ latestStopped' = stopped'
    /\ work' = IF action = NoCommand THEN NoWork
               ELSE Assigned({activeKey},
                      IF slack[pending[activeKey].command] = "expired"
                      THEN "deadline_expired"
                      ELSE IF overtime THEN "action_timeout"
                      ELSE "budget_exceeded")
    /\ pc' = "advance"
    /\ UNCHANGED <<tableVars, queueVars, cancelVars, activeKey, latched, chosen,
                   clockVars, historyVars>>

NothingToStart ==
    /\ Ready("select")
    /\ activeKey = NoKey
    /\ paused \/ latched \/ DOMAIN normalQueue = {}
    /\ pc' = "advance"
    /\ UNCHANGED <<engineVars, tableVars, queueVars, cancelVars, activeKey,
                   latchVars, work, chosen, clockVars, historyVars>>

\* popleft, then the deadline and the budget of the popped motion.
PopMotion ==
    /\ Ready("select")
    /\ activeKey = NoKey
    /\ ~paused /\ ~latched
    /\ \E key \in DOMAIN normalQueue :
          /\ normalQueue[key] = 1
          /\ normalQueue' = Leave(normalQueue, {key})
          /\ IF slack[pending[key].command] = "ample"
             THEN /\ chosen' = key
                  /\ pc' = "start"
                  /\ UNCHANGED work
             ELSE /\ work' = Assigned({key},
                        IF slack[pending[key].command] = "expired"
                        THEN "deadline_expired" ELSE "budget_exceeded")
                  /\ pc' = "advance"
                  /\ UNCHANGED chosen
    /\ UNCHANGED <<engineVars, tableVars, emergencyQueue, cancelVars, activeKey,
                   latchVars, clockVars, historyVars>>

\* The popped motion becomes the active one.  A latch seen here would leave
\* the key without an owner; only this thread latches, so none is (Ownership).
Start ==
    /\ pc = "start"
    /\ IF latched
       THEN UNCHANGED <<engineVars, activeKey, overtime, runs>>
       ELSE /\ activeKey' = chosen
            /\ SubmitAction(pending[chosen].command)
            /\ overtime' = FALSE
            /\ runs' = [runs EXCEPT ![chosen] = @ + 1]
    /\ chosen' = NoKey
    /\ pc' = "advance"
    /\ UNCHANGED <<tableVars, queueVars, cancelVars, latchVars, work, slack,
                   delivered, answered, verdicts>>

\* engine.advance, then update_frame.
Advance ==
    /\ Ready("advance")
    /\ EngineAdvance
    /\ latestStopped' = stopped'
    /\ pc' = "after"
    /\ UNCHANGED <<tableVars, queueVars, cancelVars, activeKey, latched, work,
                   chosen, clockVars, historyVars>>

\* after_tick.  Its own timeout check reads the now_ms that before_tick has
\* already checked, so a collected completion always keeps its status.
AfterTick ==
    /\ Ready("after")
    /\ work' = completion
    /\ completion' = NoCompletion
    /\ latestStopped' = stopped
    /\ pc' = "idle"
    /\ UNCHANGED <<action, remaining, paused, stopped, tableVars, queueVars,
                   cancelVars, activeKey, latched, chosen, clockVars, historyVars>>

-----------------------------------------------------------------------------
(* Operator controls, on the loop thread between two ticks.                *)

\* SimulationRuntime.reset: cancel_all empties queues and latch in one
\* section, then answers every key that was pending ...
Reset ==
    /\ "reset" \in Controls
    /\ Ready("idle")
    /\ CancelAction(FALSE)
    /\ latestStopped' = stopped'
    /\ work' = Assigned(DOMAIN pending, "simulation_reset")
    /\ normalQueue' = EmptyLine
    /\ emergencyQueue' = {}
    /\ cancelTaskIds' = {}
    /\ activeKey' = NoKey
    /\ latched' = FALSE
    /\ pc' = "reboot"
    /\ UNCHANGED <<tableVars, cancelledTasks, chosen, clockVars, historyVars>>

\* ... and the engine starts over.
Reboot ==
    /\ Ready("reboot")
    /\ EngineReset
    /\ latestStopped' = FALSE
    /\ pc' = "idle"
    /\ UNCHANGED <<tableVars, queueVars, cancelVars, activeKey, latched, work,
                   chosen, clockVars, historyVars>>

PauseOrResume ==
    /\ "pause" \in Controls
    /\ Ready("idle")
    /\ \E flag \in BOOLEAN : SetPaused(flag)
    /\ latestStopped' = stopped
    /\ UNCHANGED <<tableVars, queueVars, cancelVars, activeKey, latched, pc, work,
                   chosen, clockVars, historyVars>>

-----------------------------------------------------------------------------
(* Time.  A tick reads the clock once and hands that now_ms to all of its  *)
(* sections, so letting deadlines approach only between ticks loses        *)
(* nothing: a delivery in mid-tick looks only at the slack of a command    *)
(* that the tick has not taken in.                                         *)

Age(c) ==
    /\ Ready("idle")
    /\ slack[c] # "expired"
    /\ slack' = [slack EXCEPT ![c] = IF @ = "ample" THEN "tight" ELSE "expired"]
    /\ UNCHANGED <<engineVars, tableVars, queueVars, cancelVars, activeKey,
                   latchVars, pc, work, chosen, overtime, historyVars>>

Overrun ==
    /\ Ready("idle")
    /\ activeKey # NoKey /\ activeKey \in {KeyOf(c) : c \in Aging}
    /\ ~overtime
    /\ overtime' = TRUE
    /\ UNCHANGED <<engineVars, tableVars, queueVars, cancelVars, activeKey,
                   latchVars, pc, work, chosen, slack, historyVars>>

-----------------------------------------------------------------------------
Init ==
    /\ EngineInit
    /\ pending = [k \in {} |-> NoCommand]
    /\ results = [k \in {} |-> NoCommand]
    /\ recency = EmptyLine
    /\ latestSeq = [t \in Task |-> 0]
    /\ normalQueue = EmptyLine
    /\ emergencyQueue = {}
    /\ cancelTaskIds = {}
    /\ cancelledTasks = EmptyLine
    /\ activeKey = NoKey
    /\ latched = FALSE
    /\ latestStopped = FALSE
    /\ pc = "idle"
    /\ work = NoWork
    /\ chosen = NoKey
    /\ slack = [c \in Commands |-> "ample"]
    /\ overtime = FALSE
    /\ delivered = [c \in Commands |-> 0]
    /\ answered = [c \in Commands |-> 0]
    /\ verdicts = [c \in Commands |-> {}]
    /\ runs = [k \in Keys |-> 0]

\* What the loop thread does unasked.
LoopStep ==
    \/ Answer
    \/ NoEmergency \/ LatchEmergency \/ Halt
    \/ ExpireQueued
    \/ SkipCancellation \/ SelectCancelled \/ Withdraw
    \/ KeepActive \/ TimeoutActive \/ NothingToStart \/ PopMotion \/ Start
    \/ Advance \/ AfterTick
    \/ Reboot

Next ==
    \/ \E c \in Commands : Submit(c)
    \/ \E t \in Cancellable : CancelTask(t)
    \/ LoopStep
    \/ Reset \/ PauseOrResume
    \/ \E c \in Aging : Age(c)
    \/ Overrun

Spec == Init /\ [][Next]_vars

\* The tick loop keeps running and the clock keeps going.  Age is enabled
\* only between ticks, hence strong fairness.
FairSpec == Spec /\ WF_vars(LoopStep) /\ \A c \in Aging : SF_vars(Age(c))

-----------------------------------------------------------------------------
(* Properties.                                                             *)

Sections == {"idle", "halt", "expire", "cancel", "withdraw", "select",
             "start", "advance", "after", "reboot"}

EngineTypes ==
    /\ action \in Commands \cup {NoCommand}
    /\ remaining \in Nat
    /\ DOMAIN completion \subseteq Keys
    /\ \A k \in DOMAIN completion : completion[k] \in Code
    /\ paused \in BOOLEAN
    /\ stopped \in BOOLEAN

PendingTypes ==
    /\ DOMAIN pending \subseteq Keys
    /\ \A k \in DOMAIN pending :
          /\ pending[k] \in [command : Commands, callbacks : Nat \ {0}]
          /\ KeyOf(pending[k].command) = k

ResultTypes ==
    /\ DOMAIN results = DOMAIN recency
    /\ DOMAIN recency \subseteq Keys
    /\ \A k \in DOMAIN results :
          /\ results[k] \in [command : Commands, code : Code]
          /\ KeyOf(results[k].command) = k
    /\ latestSeq \in [Task -> Nat]

QueueTypes ==
    /\ DOMAIN normalQueue \subseteq Keys
    /\ emergencyQueue \subseteq Keys
    /\ cancelTaskIds \subseteq Task
    /\ DOMAIN cancelledTasks \subseteq Task

LoopTypes ==
    /\ activeKey \in Keys \cup {NoKey}
    /\ chosen \in Keys \cup {NoKey}
    /\ latched \in BOOLEAN
    /\ latestStopped \in BOOLEAN
    /\ pc \in Sections
    /\ DOMAIN work \subseteq Keys
    /\ \A k \in DOMAIN work : work[k] \in Code
    /\ slack \in [Commands -> {"ample", "tight", "expired"}]
    /\ overtime \in BOOLEAN

HistoryTypes ==
    /\ delivered \in [Commands -> Nat]
    /\ answered \in [Commands -> Nat]
    /\ verdicts \in [Commands -> SUBSET Code]
    /\ runs \in [Keys -> Nat]

\* The variables keep their types: tables are keyed by command keys and hold
\* commands under their own key, with at least one callback while they are
\* pending; results and their order cover the same keys.
TypeOK == EngineTypes /\ PendingTypes /\ ResultTypes /\ QueueTypes /\ LoopTypes
            /\ HistoryTypes

\* Every key in _pending is on its way to exactly one completion: it waits in
\* one queue, is the active or the just popped motion, or is in the list the
\* loop thread is completing.  A pending key outside all of these would keep
\* its callbacks waiting forever.
Ownership ==
    /\ DOMAIN pending = DOMAIN normalQueue \cup emergencyQueue \cup DOMAIN work
                            \cup ({activeKey, chosen} \ {NoKey})
    /\ emergencyQueue \cap (DOMAIN normalQueue \cup DOMAIN work) = {}
    /\ DOMAIN normalQueue \cap DOMAIN work # {} => pc = "withdraw"
    /\ {activeKey, chosen} \cap (DOMAIN normalQueue \cup emergencyQueue) = {}
    /\ chosen # NoKey <=> pc = "start"
    /\ chosen # NoKey => activeKey = NoKey /\ DOMAIN work = {}

\* The engine moves only for the active key, whose entry is still pending, so
\* submit_action never raises; an active key always has an action, a completion
\* or an answer under way; one that is being answered moves no more; and a
\* restarting engine has none.
EngineAgreement ==
    /\ action # NoCommand => /\ activeKey = KeyOf(action)
                             /\ pending[activeKey].command = action
    /\ activeKey # NoKey => \/ action # NoCommand
                            \/ activeKey \in DOMAIN completion \cup DOMAIN work
    /\ activeKey \in DOMAIN work /\ pc # "withdraw" => action = NoCommand
    /\ DOMAIN completion # {} => /\ pc \in {"advance", "after"}
                                 /\ DOMAIN completion = {activeKey}
                                 /\ action = NoCommand /\ DOMAIN work = {}
    /\ pc = "reboot" => activeKey = NoKey

\* Once an emergency stop has been taken in, nothing moves: latch and robot
\* flag agree outside the two sections that change them one after the other,
\* the robot carries no action while it is stopped, and no latch is set while
\* a popped motion is about to start.
EmergencyHolds ==
    /\ stopped => action = NoCommand
    /\ pc \notin {"halt", "reboot"} => (latched <=> stopped)
    /\ latched /\ pc # "halt" => action = NoCommand
    /\ pc = "halt" => latched
    /\ pc \in {"start", "reboot"} => ~latched

\* Each delivery's callback is called exactly once, or is still registered.
CallbacksConserved ==
    \A c \in Commands :
        delivered[c] = answered[c] +
            (IF IsPending(c) /\ pending[KeyOf(c)].command = c
             THEN pending[KeyOf(c)].callbacks ELSE 0)

\* A (task_id, seq) starts at most one motion, however often it is delivered.
AtMostOnce == \A k \in Keys : runs[k] <= 1

\* Deliveries of the same payload are all given the same answer.
DuplicatesAgree == \A c \in Commands : Cardinality(verdicts[c]) <= 1

\* ... which holds for the commands of tasks nobody cancels.
VerdictsAgree ==
    \A c \in Commands : c.task \notin Cancellable => Cardinality(verdicts[c]) <= 1

\* The motions of one task start in the order of their sequence numbers, even
\* when results have been evicted and old commands come again.
TaskOrder ==
    [][\A j, k \in Keys : runs'[k] > runs[k] /\ runs[j] > 0 /\ j[1] = k[1]
                              => j[2] <= k[2]]_vars

\* A motion of a cancelled task starts only in the tick the request came too
\* late for, or while an emergency stop that will interrupt it is queued.
CancelledStaysDown ==
    [][\A k \in Keys : runs'[k] > runs[k] /\ k[1] \in DOMAIN cancelledTasks
            => k[1] \in cancelTaskIds \/ emergencyQueue # {}]_vars

\* Once its cancellation has been carried out, a task starts no motion.
LateMotionRejected ==
    [][\A k \in Keys : runs'[k] > runs[k] /\ k[1] \in DOMAIN cancelledTasks
            => k[1] \in cancelTaskIds]_vars

\* Every accepted command is answered: by its motion's end, an emergency, a
\* cancellation, a reset, or in the end its deadline.
EveryCommandAnswered ==
    \A k \in Keys : k \in DOMAIN pending ~> k \notin DOMAIN pending

\* A queued emergency stop stops the robot unless a reset answers it first.
EmergencyTakesEffect == emergencyQueue # {} ~> stopped \/ pc = "reboot"

\* What a client may rely on, MotionDevice, is what the adapter does: a key is
\* moving while the engine carries its action, and ending from the moment its
\* outcome is decided until its callbacks have been called.
Phase(k) ==
    IF k \notin DOMAIN pending THEN "unknown"
    ELSE IF action # NoCommand /\ k = activeKey THEN "moving"
    ELSE IF k = activeKey \/ k \in DOMAIN work THEN "ending"
    ELSE "waiting"

Device == INSTANCE MotionDevice WITH
    Key <- Keys, phase <- [k \in Keys |-> Phase(k)], halted <- stopped

ImplementsDevice == Device!Spec
=============================================================================
