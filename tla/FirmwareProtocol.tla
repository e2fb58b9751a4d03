-------------------------- MODULE FirmwareProtocol --------------------------
(***************************************************************************)
(* The firmware's protocol core: the idempotency cache, a ring of slots    *)
(* that are reused whatever they hold, and the execution of one command.   *)
(* The parser task remembers in one go; the control task can be preempted  *)
(* between its writes, so that each of them is an operator of its own.     *)
(* The commands are those of one task, and a fingerprint is the command.   *)
(***************************************************************************)
EXTENDS Integers

CONSTANTS
    Seqs,        \* sequence numbers of the task
    Tools,       \* registered tools
    Amounts,     \* distances and angles
    CacheSize    \* ROBOT_IDEMPOTENCY_CACHE_CAPACITY

ASSUME ProtocolAssumption ==
    /\ Seqs \subseteq Nat \ {0}
    /\ CacheSize \in Nat \ {0}

VARIABLES
    cache,       \* cache
    cacheNext,   \* cache_next
    forgotten,   \* history: how often a slot that held the seq was reused
    late,        \* commands whose deadline is over
    stopped,     \* state.emergency_stopped
    frontClear   \* state.front_distance_cm >= 25

protocolVars == <<cache, cacheNext, forgotten, late, stopped, frontClear>>

Command == [seq : Seqs, tool : Tools, amount : Amounts]

NoCommand == [seq |-> 0, tool |-> "none", amount |-> "none"]

Observation(seq, code) == [seq |-> seq, code |-> code]

\* What a slot holds before its observation, and while it is being copied.
Unwritten == Observation(0, "none")

Torn == Observation(0, "torn")

Slots == 1 .. CacheSize

Entry(c, answered, answer) ==
    [command |-> c, answered |-> answered, answer |-> answer]

Cleared == Entry(NoCommand, FALSE, Unwritten)

ProtocolInit ==
    /\ cache = [i \in Slots |-> Cleared]
    /\ cacheNext = 1
    /\ forgotten = [s \in Seqs |-> 0]
    /\ late = {}
    /\ stopped = FALSE
    /\ frontClear = FALSE

-----------------------------------------------------------------------------
(* The cache.                                                              *)

Holding(seq) == {i \in Slots : cache[i].command.seq = seq}

\* find_cache.
FindCache(seq) == CHOOSE i \in Holding(seq) : \A j \in Holding(seq) : i <= j

IsKnown(c) == Holding(c.seq) # {}

Known(c) == cache[FindCache(c.seq)]

\* seq < latest_seq_for_task
IsOlder(c) == \E i \in Slots : c.seq < cache[i].command.seq

NextSlot == (cacheNext % CacheSize) + 1

\* A slot gets a new key: the seq it held is forgotten.
Reuse(slot) ==
    LET seq == cache[slot].command.seq
    IN  forgotten' = IF seq \in Seqs THEN [forgotten EXCEPT ![seq] = @ + 1]
                                     ELSE forgotten

\* allocate_cache_entry and what its callers write, by the parser task.
Note(entry) ==
    /\ Reuse(cacheNext)
    /\ cache' = [cache EXCEPT ![cacheNext] = entry]
    /\ cacheNext' = NextSlot

\* robot_protocol_commit_pending of a command that is not known.
RememberPending(c) == Note(Entry(c, FALSE, Unwritten))

RememberAnswer(c, answer) == Note(Entry(c, TRUE, answer))

\* allocate_cache_entry by the control task: the slot is cleared ...
ClearSlot ==
    /\ Reuse(cacheNext)
    /\ cache' = [cache EXCEPT ![cacheNext] = Cleared]
    /\ UNCHANGED cacheNext

\* ... and gets its key; the parser may have taken the same slot meanwhile.
KeySlot(slot, c) ==
    /\ Reuse(slot)
    /\ cache' = [cache EXCEPT ![slot].command = c]
    /\ cacheNext' = NextSlot

\* remember_observation in its found or allocated entry: the flag comes first.
FlagSlot(slot) ==
    /\ cache' = [cache EXCEPT ![slot].answered = TRUE, ![slot].answer = Torn]
    /\ UNCHANGED <<cacheNext, forgotten>>

\* Mutant: only the status is stored.
CopyNothing(slot, answer) == UNCHANGED <<cache, cacheNext, forgotten>>

CopyAnswer(slot, answer) ==
    /\ cache' = [cache EXCEPT ![slot].answer = answer]
    /\ UNCHANGED <<cacheNext, forgotten>>

-----------------------------------------------------------------------------
(* robot_protocol_prepare_json, after its parsing.                         *)

Conflicts(c) == IsKnown(c) /\ Known(c).command # c

Replays(c) == IsKnown(c) /\ Known(c).command = c /\ Known(c).answered

IsPending(c) == IsKnown(c) /\ Known(c).command = c /\ ~Known(c).answered

IsLate(c) == ~IsKnown(c) /\ c \in late

IsStale(c) == ~IsKnown(c) /\ c \notin late /\ IsOlder(c)

\* Mutant: a pending command is queued once more.
IsNewOrPending(c) == (~IsKnown(c) /\ c \notin late /\ ~IsOlder(c)) \/ IsPending(c)

IsNew(c) == ~IsKnown(c) /\ c \notin late /\ ~IsOlder(c)

Expires(c) ==
    /\ c \notin late
    /\ late' = late \cup {c}
    /\ UNCHANGED <<cache, cacheNext, forgotten, stopped, frontClear>>

-----------------------------------------------------------------------------
(* robot_protocol_execute_command, up to its memory.                       *)

IsMotion(c) == c.tool \in {"move_robot", "turn_robot"}

Verdict(c) ==
    CASE c \in late -> "deadline_expired"
      [] c \notin late /\ c.tool = "emergency_stop" -> "emergency_stop"
      [] c \notin late /\ stopped /\ IsMotion(c) -> "emergency_stopped"
      [] c \notin late /\ ~stopped /\ c.tool = "move_robot"
             /\ c.amount = "ahead" /\ ~frontClear -> "front_obstacle"
      [] OTHER -> "success"

\* A turn makes the left or right distance the front one; both are ample.
Execute(c) ==
    /\ stopped' = (stopped \/ Verdict(c) = "emergency_stop")
    /\ frontClear' = (frontClear \/ (c.tool = "turn_robot" /\ Verdict(c) = "success"))
    /\ UNCHANGED late
=============================================================================
