---------------------------- MODULE DeviceService ----------------------------
(***************************************************************************)
(* MqttDeviceService: the device's side of MQTT.  paho's network thread    *)
(* connects, subscribes and gives up; the faults stop and restore it and   *)
(* hold back one observation.  The telemetry of its heartbeat is left out: *)
(* nothing waits for it.                                                   *)
(***************************************************************************)
EXTENDS Integers, FiniteSets

CONSTANT MaxAttempts  \* max_reconnect_attempts

ASSUME AttemptsAssumption == MaxAttempts \in Nat \ {0}

VARIABLES
    serviceUp,      \* _started
    online,         \* _connected: the command topic is subscribed
    loop,           \* the network thread: "off", "trying", "open", "refused"
    attempts,       \* _reconnect_attempts
    exhausted,      \* _reconnect_exhausted
    loopStopped,    \* _fault_loop_stopped
    suppressNext,   \* _suppress_next_observation
    swallowed,      \* history: the keys of the observations held back
    observations    \* observations on their way to the clients

linkVars == <<serviceUp, online, loop, attempts, exhausted, loopStopped>>

publishVars == <<suppressNext, swallowed, observations>>

serviceVars == <<linkVars, publishVars>>

ServiceInit ==
    /\ serviceUp = FALSE
    /\ online = FALSE
    /\ loop = "off"
    /\ attempts = 0
    /\ exhausted = FALSE
    /\ loopStopped = FALSE
    /\ suppressNext = FALSE
    /\ swallowed = {}
    /\ observations = {}

-----------------------------------------------------------------------------
(* The network thread.                                                     *)

\* _on_connect, accepted.
ServiceConnects ==
    /\ loop = "trying"
    /\ loop' = "open"
    /\ attempts' = 0
    /\ exhausted' = FALSE
    /\ UNCHANGED <<serviceUp, online, loopStopped, publishVars>>

\* _on_subscribe.
ServiceSubscribes ==
    /\ loop = "open"
    /\ ~online
    /\ online' = TRUE
    /\ UNCHANGED <<serviceUp, loop, attempts, exhausted, loopStopped, publishVars>>

\* A refused subscription is not repeated while the connection lasts.
SubscriptionRefused ==
    /\ loop = "open"
    /\ ~online
    /\ loop' = "refused"
    /\ UNCHANGED <<serviceUp, online, attempts, exhausted, loopStopped, publishVars>>

\* _on_disconnect of a broken connection.
ServiceDisconnects ==
    /\ loop \in {"open", "refused"}
    /\ loop' = "trying"
    /\ online' = FALSE
    /\ UNCHANGED <<serviceUp, attempts, exhausted, loopStopped, publishVars>>

\* _on_connect_fail: the last attempt disconnects, which ends the thread.
ServiceConnectFails ==
    /\ loop = "trying"
    /\ attempts' = attempts + 1
    /\ IF attempts' >= MaxAttempts
       THEN exhausted' = TRUE /\ loop' = "off"
       ELSE UNCHANGED <<exhausted, loop>>
    /\ UNCHANGED <<serviceUp, online, loopStopped, publishVars>>

-----------------------------------------------------------------------------
(* The owner's and the faults' calls.                                      *)

\* start, up to its wait.
StartService ==
    /\ ~serviceUp
    /\ serviceUp' = TRUE
    /\ loop' = "trying"
    /\ attempts' = 0
    /\ exhausted' = FALSE
    /\ loopStopped' = FALSE
    /\ UNCHANGED <<online, publishVars>>

\* stop.
StopService ==
    /\ serviceUp
    /\ serviceUp' = FALSE
    /\ loop' = "off"
    /\ online' = FALSE
    /\ loopStopped' = FALSE
    /\ suppressNext' = FALSE
    /\ UNCHANGED <<attempts, exhausted, swallowed, observations>>

\* disconnect_for_fault.
DisconnectForFault ==
    /\ serviceUp
    /\ loop' = "off"
    /\ online' = FALSE
    /\ loopStopped' = TRUE
    /\ UNCHANGED <<serviceUp, attempts, exhausted, publishVars>>

\* Mutant: the connection is asked for, the network thread not started again.
RestoreWithoutLoop ==
    /\ serviceUp
    /\ UNCHANGED serviceVars

\* restore_after_fault, up to its wait.  Only a thread that the fault stopped
\* is started again; one that gave up stays ended.
RestoreAfterFault ==
    /\ serviceUp
    /\ IF ~online /\ loopStopped
       THEN loop' = "trying" /\ loopStopped' = FALSE
       ELSE UNCHANGED <<loop, loopStopped>>
    /\ UNCHANGED <<serviceUp, online, attempts, exhausted, publishVars>>

SuppressNextObservation ==
    /\ suppressNext' = TRUE
    /\ UNCHANGED <<linkVars, swallowed, observations>>

\* Mutant: the fault stays armed.
LeaveFaultInjection == UNCHANGED serviceVars

ClearFaultInjection ==
    /\ suppressNext' = FALSE
    /\ UNCHANGED <<linkVars, swallowed, observations>>

\* _publish_observation for each of copies callbacks, in a row.  Each is sent
\* once; that QoS 1 may deliver it more than once is up to the clients that
\* take the observations.
PublishObservation(key, code, copies) ==
    LET held == IF suppressNext THEN 1 ELSE 0
    IN  /\ suppressNext' = FALSE
        /\ swallowed' = swallowed \cup (IF suppressNext THEN {key} ELSE {})
        /\ observations' = observations
               \cup {[key |-> key, code |-> code, copy |-> k] : k \in held + 1 .. copies}
        /\ UNCHANGED linkVars
=============================================================================
