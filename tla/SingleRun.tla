----------------------------- MODULE SingleRun -----------------------------
(***************************************************************************)
(* What the runtime promises whoever submits a run: one run at a time, a   *)
(* verdict for each before the next begins, and cancelling, once accepted, *)
(* leaves no verdict but "cancelled" or "emergency_stop".                  *)
(***************************************************************************)
CONSTANTS
    Run,      \* ids of runs
    NoOne,    \* the absence of one, not an id
    Verdict,  \* verdicts a run may have
    Honours   \* those of them that an accepted cancel request leaves

VARIABLES
    owner,    \* the run in progress
    begun,    \* the runs that have been in progress
    asked,    \* the runs whose cancelling was accepted
    verdict   \* the verdict of the run in progress, "none" until it has one

vars == <<owner, begun, asked, verdict>>

Init ==
    /\ owner = NoOne
    /\ begun = {}
    /\ asked = {}
    /\ verdict = "none"

Begin(r) ==
    /\ owner = NoOne
    /\ r \notin begun
    /\ owner' = r
    /\ begun' = begun \cup {r}
    /\ UNCHANGED <<asked, verdict>>

Ask ==
    /\ owner # NoOne
    /\ verdict = "none"
    /\ asked' = asked \cup {owner}
    /\ UNCHANGED <<owner, begun, verdict>>

Settle(v) ==
    /\ owner # NoOne
    /\ verdict = "none"
    /\ owner \in asked => v \in Honours
    /\ verdict' = v
    /\ UNCHANGED <<owner, begun, asked>>

End ==
    /\ owner # NoOne
    /\ verdict # "none"
    /\ owner' = NoOne
    /\ verdict' = "none"
    /\ UNCHANGED <<begun, asked>>

SettleSome == \E v \in Verdict : Settle(v)

Next ==
    \/ \E r \in Run : Begin(r)
    \/ Ask
    \/ SettleSome
    \/ End

Safety == Init /\ [][Next]_vars

Spec == Safety /\ WF_vars(SettleSome) /\ WF_vars(End)
=============================================================================
