-------------------------- MODULE MCFaultScenarios --------------------------
(***************************************************************************)
(* The correct device and one flaw for each way a scenario can find it     *)
(* out.  Three disturbances are a message that comes again, a wait that is *)
(* cut short before it and one more; two attempts are one that fails and   *)
(* one that is the last.                                                   *)
(***************************************************************************)
EXTENDS FaultScenarios

MCFlaws == {"none", "repeats", "contradicts", "ignores_order"}
=============================================================================
