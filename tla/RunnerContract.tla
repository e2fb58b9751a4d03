--------------------------- MODULE RunnerContract ---------------------------
(***************************************************************************)
(* What MissionTaskCoordinator expects of its runner: a bounded number of  *)
(* events, then either one final event, nothing behind it and a return, or *)
(* an exception, after which the coordinator emits the final event itself; *)
(* and that much always happens.                                           *)
(***************************************************************************)
EXTENDS Integers

CONSTANT MaxEvents  \* the events before the final one

VARIABLES
    emitted,    \* number of events so far, without the final one
    concluded,  \* the final event is out
    ended       \* "no", "returned" or "raised"

vars == <<emitted, concluded, ended>>

Init ==
    /\ emitted = 0
    /\ concluded = FALSE
    /\ ended = "no"

EmitStep ==
    /\ ended = "no"
    /\ ~concluded
    /\ emitted < MaxEvents
    /\ emitted' = emitted + 1
    /\ UNCHANGED <<concluded, ended>>

EmitFinal ==
    /\ ended = "no"
    /\ ~concluded
    /\ concluded' = TRUE
    /\ UNCHANGED <<emitted, ended>>

Return ==
    /\ ended = "no"
    /\ concluded
    /\ ended' = "returned"
    /\ UNCHANGED <<emitted, concluded>>

Raise ==
    /\ ended = "no"
    /\ ~concluded
    /\ ended' = "raised"
    /\ UNCHANGED <<emitted, concluded>>

Next ==
    \/ EmitStep
    \/ EmitFinal
    \/ Return
    \/ Raise

Safety == Init /\ [][Next]_vars

Spec == Safety /\ WF_vars(Next)
=============================================================================
