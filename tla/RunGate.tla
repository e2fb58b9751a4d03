------------------------------ MODULE RunGate ------------------------------
(***************************************************************************)
(* The gate that mission and fault runs share.  A lease is a pair of kind  *)
(* and run id; ids are never issued twice and their kind is known, so the  *)
(* id alone stands for the lease.                                          *)
(***************************************************************************)
EXTENDS Integers

CONSTANTS
    Missions,  \* ids the mission coordinator may draw
    Faults,    \* ids the fault coordinator may draw
    NoRun      \* None, where a run id is expected

ASSUME RunAssumption ==
    /\ Missions \cap Faults = {}
    /\ NoRun \notin Missions \cup Faults

VARIABLES
    lease,   \* _active
    issued   \* the ids _id_factory has produced for accepted runs

gateVars == <<lease, issued>>

Runs == Missions \cup Faults

GateInit ==
    /\ lease = NoRun
    /\ issued = {}

\* Mutant: the gate is handed to whoever asks.
AcquireAlways(r) ==
    /\ r \notin issued
    /\ lease' = r
    /\ issued' = issued \cup {r}

\* acquire: refused while anyone holds the gate.
Acquire(r) ==
    /\ r \notin issued
    /\ lease = NoRun
    /\ lease' = r
    /\ issued' = issued \cup {r}

\* release: only the lease that is active is given up.
Release(r) ==
    /\ lease' = IF lease = r THEN NoRun ELSE lease
    /\ UNCHANGED issued
=============================================================================
