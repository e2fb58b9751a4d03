---------------------------- MODULE MotionDevice ----------------------------
(***************************************************************************)
(* What the bridge promises a client, without queues, caches or threads.   *)
(* An accepted command waits, moves the robot if it is a motion that gets  *)
(* its turn, and ends exactly once: it never waits or moves again after    *)
(* its outcome is decided.  One motion moves at a time, none while the     *)
(* robot is halted, and halting interrupts the one that does.              *)
(***************************************************************************)
CONSTANT Key

VARIABLES
    phase,   \* Key -> where the command of this key is
    halted   \* the robot has been stopped for an emergency

deviceVars == <<phase, halted>>

Moving == {k \in Key : phase[k] = "moving"}

\* The keys in S have come to their outcome.
Ending(S) == [k \in Key |-> IF k \in S THEN "ending" ELSE phase[k]]

DeviceInit ==
    /\ phase = [k \in Key |-> "unknown"]
    /\ halted = FALSE

Accept(k) ==
    /\ phase[k] = "unknown"
    /\ phase' = [phase EXCEPT ![k] = "waiting"]
    /\ UNCHANGED halted

Begin(k) ==
    /\ phase[k] = "waiting"
    /\ Moving = {} /\ ~halted
    /\ phase' = [phase EXCEPT ![k] = "moving"]
    /\ UNCHANGED halted

\* Several commands may come to an end at once: a reset, a cancelled task.
Decide(S) ==
    /\ \A k \in S : phase[k] \in {"waiting", "moving"}
    /\ phase' = Ending(S)
    /\ UNCHANGED halted

Deliver(k) ==
    /\ phase[k] = "ending"
    /\ phase' = [phase EXCEPT ![k] = "unknown"]
    /\ UNCHANGED halted

Halt ==
    /\ halted' = TRUE
    /\ phase' = Ending(Moving)

Restart ==
    /\ Moving = {}
    /\ halted' = FALSE
    /\ UNCHANGED phase

DeviceNext ==
    \/ \E k \in Key : Accept(k) \/ Begin(k) \/ Deliver(k)
    \/ \E S \in SUBSET Key : Decide(S)
    \/ Halt
    \/ Restart

Spec == DeviceInit /\ [][DeviceNext]_deviceVars
=============================================================================
