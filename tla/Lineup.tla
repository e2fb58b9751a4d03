------------------------------- MODULE Lineup -------------------------------
(***************************************************************************)
(* The ordered collections of the bridge: the deque of waiting motions and *)
(* the OrderedDicts that hold recent results and cancelled tasks.  All of  *)
(* them hold an element at most once, so a collection is the function that *)
(* gives each member its place, place 1 being the front (the oldest).      *)
(* Unlike a sequence, membership is plain DOMAIN, and leaving the middle   *)
(* needs no recursion.                                                     *)
(***************************************************************************)
EXTENDS Integers, FiniteSets

EmptyLine == [x \in {} |-> 0]

\* Append at the back; a member keeps its place (OrderedDict assignment).
Join(line, x) ==
    [y \in DOMAIN line \cup {x} |->
        IF y \in DOMAIN line THEN line[y] ELSE Cardinality(DOMAIN line) + 1]

\* Remove every element of gone; the others close ranks in the same order.
Leave(line, gone) ==
    [y \in DOMAIN line \ gone |->
        line[y] - Cardinality({z \in gone \cap DOMAIN line : line[z] < line[y]})]

\* OrderedDict assignment followed by move_to_end.
Rejoin(line, x) == Join(Leave(line, {x}), x)

\* while len(line) > size: popitem(last=False)
Trim(line, size) ==
    Leave(line, {x \in DOMAIN line : line[x] <= Cardinality(DOMAIN line) - size})
=============================================================================
