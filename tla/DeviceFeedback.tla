--------------------------- MODULE DeviceFeedback ---------------------------
(***************************************************************************)
(* What a device answers: an ObservationMessage without its texts and      *)
(* times.  remaining is what is left of a blocked move, 0 when the answer  *)
(* does not say; of the objects a semantic query lists there is the first. *)
(***************************************************************************)
EXTENDS Integers

CONSTANTS
    NoState,    \* an observation without a state
    NoObject    \* an observation without objects

Observation(status, code, remaining, state, object) ==
    [status |-> status, code |-> code, remaining |-> remaining,
     state |-> state, object |-> object]

\* _feedback: every observation carries the state after the command.
Feedback(status, code, state) == Observation(status, code, 0, state, NoObject)
=============================================================================
