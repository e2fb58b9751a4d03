--------------------------- MODULE RequestClient ---------------------------
(***************************************************************************)
(* MqttRequestClient as one mission uses it: the connection its network    *)
(* thread keeps, the one request it waits for, and what is in flight to    *)
(* the device and back.  A command is its sequence number, an observation  *)
(* the number and code it carries; those of other tasks have other keys    *)
(* and are dropped like late ones.  What is in flight may be delivered     *)
(* again until it is lost.                                                 *)
(***************************************************************************)
EXTENDS Integers

CONSTANT MaxAttempts  \* max_reconnect_attempts

ASSUME AttemptsAssumption == MaxAttempts \in Nat \ {0}

VARIABLES
    started,       \* _started
    connected,     \* _connected: the status topic is subscribed
    link,          \* the network thread's: "off", "trying", "open", "refused"
    attempts,      \* _reconnect_attempts
    exhausted,     \* _reconnect_exhausted
    waitingFor,    \* the key in _pending: a sequence number, 0 for none
    held,          \* the observation of that entry: its code
    commands,      \* commands in flight
    observations,  \* observations in flight
    sent           \* history: the commands that were ever in flight

linkVars == <<started, connected, link, attempts, exhausted>>

requestVars == <<waitingFor, held>>

networkVars == <<commands, observations, sent>>

clientVars == <<linkVars, requestVars, networkVars>>

Observation(n, code) == [seq |-> n, code |-> code]

ClientInit ==
    /\ started = FALSE
    /\ connected = FALSE
    /\ link = "off"
    /\ attempts = 0
    /\ exhausted = FALSE
    /\ waitingFor = 0
    /\ held = "none"
    /\ commands = {}
    /\ observations = {}
    /\ sent = {}

-----------------------------------------------------------------------------
(* The network thread.                                                     *)

\* _on_connect, accepted: the subscription is requested.
Connects ==
    /\ link = "trying"
    /\ link' = "open"
    /\ attempts' = 0
    /\ exhausted' = FALSE
    /\ UNCHANGED <<started, connected, requestVars, networkVars>>

\* _on_subscribe, and a refused subscription, which nothing repeats.
Subscribes ==
    /\ link = "open"
    /\ ~connected
    /\ \/ connected' = TRUE /\ UNCHANGED link
       \/ link' = "refused" /\ UNCHANGED connected
    /\ UNCHANGED <<started, attempts, exhausted, requestVars, networkVars>>

\* _on_disconnect of a broken connection.
Disconnects ==
    /\ link \in {"open", "refused"}
    /\ link' = "trying"
    /\ connected' = FALSE
    /\ UNCHANGED <<started, attempts, exhausted, requestVars, networkVars>>

\* _on_connect_fail: after the last attempt the thread gives up.
ConnectFails ==
    /\ link = "trying"
    /\ attempts' = attempts + 1
    /\ IF attempts' >= MaxAttempts
       THEN exhausted' = TRUE /\ link' = "off"
       ELSE UNCHANGED <<exhausted, link>>
    /\ UNCHANGED <<started, connected, requestVars, networkVars>>

\* Mutant of _on_message: whoever waits gets what comes.
OnMessageOfAny(o) ==
    /\ link = "open"
    /\ o \in observations
    /\ held' = IF waitingFor # 0 THEN o.code ELSE held
    /\ UNCHANGED <<waitingFor, linkVars, networkVars>>

\* _on_message: the observation goes to the request with its key, if that is
\* still pending, and replaces one that came before.
OnMessage(o) ==
    /\ link = "open"
    /\ o \in observations
    /\ held' = IF waitingFor = o.seq THEN o.code ELSE held
    /\ UNCHANGED <<waitingFor, linkVars, networkVars>>

\* The broker and the sockets may lose either.
Lose ==
    /\ \/ \E n \in commands : commands' = commands \ {n}
          /\ UNCHANGED observations
       \/ \E o \in observations : observations' = observations \ {o}
          /\ UNCHANGED commands
    /\ UNCHANGED <<sent, linkVars, requestVars>>

NetworkThread ==
    \/ Connects
    \/ Subscribes
    \/ Disconnects
    \/ ConnectFails
    \/ \E o \in observations : OnMessage(o)

-----------------------------------------------------------------------------
(* What the thread of the mission does with the client.                    *)

\* start, up to its wait.
Start ==
    /\ started' = TRUE
    /\ attempts' = 0
    /\ exhausted' = FALSE
    /\ link' = "trying"
    /\ UNCHANGED <<connected, requestVars, networkVars>>

\* stop.
Stop ==
    /\ started' = FALSE
    /\ connected' = FALSE
    /\ link' = "off"
    /\ UNCHANGED <<attempts, exhausted, requestVars, networkVars>>

\* execute, up to its pending entry.
Register(n) ==
    /\ started /\ connected
    /\ waitingFor' = n
    /\ held' = "none"
    /\ UNCHANGED <<linkVars, networkVars>>

PutInFlight(n) ==
    /\ commands' = commands \cup {n}
    /\ sent' = sent \cup {n}
    /\ UNCHANGED observations

\* execute, its finally.
Withdraw ==
    /\ waitingFor' = 0
    /\ held' = "none"
=============================================================================
