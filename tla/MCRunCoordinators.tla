------------------------- MODULE MCRunCoordinators -------------------------
(***************************************************************************)
(* Two missions and one fault run, submitted by two threads: the HTTP API  *)
(* and the acceptance runner.  Two frames of capture make every recording  *)
(* that sees a second frame a full one.                                    *)
(***************************************************************************)
EXTENDS RunCoordinators

MCMissions == {"m1", "m2"}
MCFaults == {"f1"}
MCCallers == {"api", "acceptance"}
=============================================================================
