--------------------------- MODULE MCMissionLoop ---------------------------
(***************************************************************************)
(* Two steps: what is left of the first can meet the second, and a third   *)
(* would break the limit.  Two attempts are a reconnect that fails and one *)
(* that is the last.  The claims are one that an operator's cancel         *)
(* overrides and the one it does not.                                      *)
(***************************************************************************)
EXTENDS MissionLoop

MCClaims == {"success", "emergency_stop"}
=============================================================================
