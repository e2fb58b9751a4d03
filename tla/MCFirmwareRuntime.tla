------------------------- MODULE MCFirmwareRuntime -------------------------
(***************************************************************************)
(* A cache and a queue of two slots each: three commands under way reuse   *)
(* the slot of the one that is executed.  Chunks of single bytes meet the  *)
(* parser between any two of its own, whole lines leave room for more      *)
(* lines.  Of lines 1 and 3, the beginning of one and the end of the other *)
(* make a command nobody sent.                                             *)
(***************************************************************************)
EXTENDS FirmwareRuntime

MCSeqs == 1 .. 3

MCTools == {"move_robot", "turn_robot", "emergency_stop"}

MCAmounts == {"ahead", "back"}

Cmd(seq, tool, amount) == [seq |-> seq, tool |-> tool, amount |-> amount]

Ahead == Cmd(1, "move_robot", "ahead")

Back == Cmd(3, "move_robot", "back")

Turn == Cmd(2, "turn_robot", "ahead")

Stop == Cmd(2, "emergency_stop", "ahead")

MCMayExpire == {Ahead}

Bytewise == [lines |-> {Of(Ahead), Of(Back), Junk, Blank},
             count |-> 3, drops |-> 3, chunk |-> 1]

Linewise == [lines |-> {Of(Ahead), Of(Turn), Of(Stop), Of(Back)},
             count |-> 4, drops |-> 0, chunk |-> 3]

MCBudgets == {Bytewise, Linewise}
=============================================================================
