--------------------------- MODULE FirmwareRuntime ---------------------------
(***************************************************************************)
(* The FreeRTOS binding: the parser task hands commands to the control     *)
(* task through the queue; both answer through one buffer.  The parser has *)
(* the higher priority, so that the control task runs only while it        *)
(* sleeps, and may be preempted between any two of its steps.  The host    *)
(* sends lines, one chunk of bytes after the other.                        *)
(***************************************************************************)
EXTENDS UartIngress, FirmwareProtocol

CONSTANTS
    MayExpire,     \* commands whose deadline may pass
    QueueLength,   \* ROBOT_FREERTOS_QUEUE_LENGTH
    Budgets        \* what the host sends, and bounds on the lines it sends, on
                   \* the bytes that are dropped and on the bytes of a chunk

VARIABLES
    budget,      \* the bounds of this behaviour
    line,        \* the line begun last
    wire,        \* its bytes that are still to come
    sent,        \* lines begun so far
    lost,        \* bytes dropped so far
    asked,       \* the host waits for an answer
    impatient,   \* history: it began a line without waiting
    queue,       \* the command queue
    control,     \* where the control task is
    held,        \* its command
    answer,      \* its observation
    slot,        \* its cache entry
    buffer,      \* observation_json
    output,      \* the sink's last call
    told,        \* history: the first answer to each command since a slot that
                 \* held it was last reused
    accepted     \* history: how often each seq was queued

hostVars == <<budget, line, wire, sent, lost>>

controlVars == <<control, held, answer, slot>>

sinkVars == <<buffer, output, asked>>

vars == <<hostVars, asked, impatient, queue, controlVars, buffer, output, told,
          accepted, ingressVars, protocolVars>>

Junk == [kind |-> "junk"]

Blank == [kind |-> "blank"]

Of(c) == [kind |-> "command", command |-> c]

\* The two bytes of a command fit in a frame.
ASSUME RuntimeAssumption ==
    /\ QueueLength \in Nat \ {0}
    /\ FrameCapacity >= 2
    /\ \A b \in Budgets :
          /\ b.lines \subseteq {Of(c) : c \in Command} \cup {Junk, Blank}
          /\ b.chunk \in Nat \ {0}

HeadOf(c) == <<"head", c.seq, c.tool>>

TailOf(c) == <<"tail", c.tool, c.amount>>

\* The bytes of a line; a line of junk is longer than a frame may be.
Bytes(l) ==
    CASE l.kind = "command" -> <<HeadOf(l.command), TailOf(l.command), LF>>
      [] l.kind = "junk" -> [i \in 1 .. FrameCapacity + 1 |-> <<"junk">>] \o <<LF>>
      [] l.kind = "blank" -> <<CR, LF>>

\* What a frame is read as: the commands whose text it is.
ReadAs == {c \in Command : frame = <<HeadOf(c), TailOf(c)>>}

Silence == [answer |-> Unwritten, text |-> Unwritten]

Init ==
    /\ budget \in Budgets
    /\ line = Blank
    /\ wire = <<>>
    /\ sent = 0
    /\ lost = 0
    /\ asked = FALSE
    /\ impatient = FALSE
    /\ queue = <<>>
    /\ control = "waiting"
    /\ held = NoCommand
    /\ answer = Unwritten
    /\ slot = 0
    /\ buffer = Unwritten
    /\ output = Silence
    /\ told = [c \in Command |-> Unwritten]
    /\ accepted = [s \in Seqs |-> 0]
    /\ IngressInit
    /\ ProtocolInit

-----------------------------------------------------------------------------
(* The host and the interrupt.                                             *)

BeginsLine ==
    /\ wire = <<>>
    /\ sent < budget.count
    /\ \E l \in budget.lines :
          /\ line' = l
          /\ wire' = Bytes(l)
          /\ asked' = (asked \/ l # Blank)
    /\ sent' = sent + 1
    /\ impatient' = (impatient \/ asked)
    /\ UNCHANGED <<budget, lost, queue, controlVars, buffer, output, told, accepted,
                   ingressVars, protocolVars>>

BytesArrive ==
    /\ wire # <<>>
    /\ LET n == IF Len(wire) < budget.chunk THEN Len(wire) ELSE budget.chunk
           chunk == SubSeq(wire, 1, n)
       IN  /\ lost + Dropped(chunk) <= budget.drops
           /\ Interrupt(chunk)
           /\ lost' = lost + Dropped(chunk)
           /\ wire' = SubSeq(wire, n + 1, Len(wire))
    /\ UNCHANGED <<budget, line, sent, asked, impatient, queue, controlVars, buffer,
                   output, told, accepted, protocolVars>>

DeadlinePasses ==
    /\ \E c \in MayExpire : Expires(c)
    /\ UNCHANGED <<hostVars, asked, impatient, queue, controlVars, buffer, output,
                   told, accepted, ingressVars>>

-----------------------------------------------------------------------------
(* The parser task.  It answers in one step: nothing of lower priority     *)
(* runs meanwhile, and the interrupt touches the ring alone.               *)

\* emit_observation by the parser task.
Emit(obs) ==
    /\ buffer' = obs
    /\ output' = [answer |-> obs, text |-> obs]
    /\ asked' = FALSE

ParserRests == UNCHANGED <<hostVars, impatient, queue, controlVars, told, accepted,
                           protocolVars>>

ParserWakes ==
    /\ Wakes
    /\ ParserRests
    /\ UNCHANGED sinkVars

ParserChecks ==
    /\ ChecksOverflow
    /\ ParserRests
    /\ UNCHANGED sinkVars

ReportsOverflow ==
    /\ Flushes
    /\ Emit(Observation(1, "uart_overflow"))
    /\ ParserRests

ParserGathers ==
    /\ Gathers
    /\ ParserRests
    /\ UNCHANGED sinkVars

ParserSleeps ==
    /\ Sleeps
    /\ ParserRests
    /\ UNCHANGED sinkVars

ReportsTooLong ==
    /\ EndsTooLong
    /\ Emit(Observation(1, "frame_too_long"))
    /\ ParserRests

RefusesFrame ==
    /\ EndsFrame
    /\ ReadAs = {}
    /\ Emit(Observation(1, "schema_validation_error"))
    /\ ParserRests

RefusesConflict(c) ==
    /\ EndsFrame
    /\ Conflicts(c)
    /\ Emit(Observation(c.seq, "duplicate_conflict"))
    /\ ParserRests

Replies(c) ==
    /\ EndsFrame
    /\ Replays(c)
    /\ Emit(Known(c).answer)
    /\ ParserRests

IgnoresPending(c) ==
    /\ EndsFrame
    /\ IsPending(c)
    /\ ParserRests
    /\ UNCHANGED sinkVars

\* The history when a slot gets another key.
Untold(i) == [c \in Command |-> IF cache[i].command = c THEN Unwritten ELSE told[c]]

\* The refusal of a late or a stale command is remembered.
Refuses(c) ==
    LET obs == Observation(c.seq, IF IsLate(c) THEN "deadline_expired"
                                               ELSE "stale_sequence")
    IN  /\ EndsFrame
        /\ IsLate(c) \/ IsStale(c)
        /\ RememberAnswer(c, obs)
        /\ told' = [Untold(cacheNext) EXCEPT ![c] = obs]
        /\ Emit(obs)
        /\ UNCHANGED <<hostVars, impatient, queue, controlVars, accepted, late, stopped,
                       frontClear>>

FindsQueueFull(c) ==
    /\ EndsFrame
    /\ IsNew(c)
    /\ Len(queue) = QueueLength
    /\ Emit(Observation(c.seq, "queue_full"))
    /\ ParserRests

\* queue_send and then robot_protocol_commit_pending.
Accepts(c) ==
    /\ EndsFrame
    /\ IsNew(c)
    /\ Len(queue) < QueueLength
    /\ queue' = Append(queue, c)
    /\ RememberPending(c)
    /\ told' = Untold(cacheNext)
    /\ accepted' = [accepted EXCEPT ![c.seq] = @ + 1]
    /\ UNCHANGED <<hostVars, impatient, controlVars, late, stopped, frontClear,
                   sinkVars>>

\* robot_protocol_prepare_json reads the frame as c.
Handles(c) ==
    \/ RefusesConflict(c)
    \/ Replies(c)
    \/ IgnoresPending(c)
    \/ Refuses(c)
    \/ FindsQueueFull(c)
    \/ Accepts(c)

Parser ==
    \/ ParserWakes
    \/ ParserChecks
    \/ ReportsOverflow
    \/ ParserGathers
    \/ ParserSleeps
    \/ ReportsTooLong
    \/ RefusesFrame
    \/ \E c \in ReadAs : Handles(c)

-----------------------------------------------------------------------------
(* The control task: robot_runtime_control_step, write by write.           *)

\* The priorities of the two tasks.
ControlRuns == parser = "asleep" /\ ~notified

ControlStep(from, to) ==
    /\ ControlRuns
    /\ control = from
    /\ control' = to
    /\ UNCHANGED <<hostVars, impatient, accepted, ingressVars>>

TakesCommand ==
    /\ queue # <<>>
    /\ ControlStep("waiting", "executing")
    /\ held' = Head(queue)
    /\ queue' = Tail(queue)
    /\ UNCHANGED <<answer, slot, sinkVars, told, protocolVars>>

\* The command is executed and its entry looked up.
Executes ==
    /\ ControlStep("executing", IF IsKnown(held) THEN "flagging" ELSE "clearing")
    /\ Execute(held)
    /\ answer' = Observation(held.seq, Verdict(held))
    /\ slot' = IF IsKnown(held) THEN FindCache(held.seq) ELSE 0
    /\ UNCHANGED <<queue, held, sinkVars, told, cache, cacheNext, forgotten>>

ClearsSlot ==
    /\ ControlStep("clearing", "keying")
    /\ ClearSlot
    /\ slot' = cacheNext
    /\ told' = Untold(cacheNext)
    /\ UNCHANGED <<queue, held, answer, sinkVars, late, stopped, frontClear>>

KeysSlot ==
    /\ ControlStep("keying", "flagging")
    /\ KeySlot(slot, held)
    /\ told' = Untold(slot)
    /\ UNCHANGED <<queue, held, answer, slot, sinkVars, late, stopped, frontClear>>

FlagsSlot ==
    /\ ControlStep("flagging", "copying")
    /\ FlagSlot(slot)
    /\ UNCHANGED <<queue, held, answer, slot, sinkVars, told, late, stopped, frontClear>>

CopiesAnswer ==
    /\ ControlStep("copying", "formatting")
    /\ CopyAnswer(slot, answer)
    /\ told' = [told EXCEPT ![held] = IF @ = Unwritten THEN answer ELSE @]
    /\ UNCHANGED <<queue, held, answer, slot, sinkVars, late, stopped, frontClear>>

FormatsAnswer ==
    /\ ControlStep("formatting", "emitting")
    /\ buffer' = answer
    /\ UNCHANGED <<queue, held, answer, slot, asked, output, told, protocolVars>>

\* The text is what the buffer holds now.
EmitsAnswer ==
    /\ ControlStep("emitting", "waiting")
    /\ output' = [answer |-> answer, text |-> buffer]
    /\ asked' = FALSE
    /\ held' = NoCommand
    /\ answer' = Unwritten
    /\ slot' = 0
    /\ UNCHANGED <<queue, buffer, told, protocolVars>>

Control ==
    \/ TakesCommand
    \/ Executes
    \/ ClearsSlot
    \/ KeysSlot
    \/ FlagsSlot
    \/ CopiesAnswer
    \/ FormatsAnswer
    \/ EmitsAnswer

Next ==
    \/ BeginsLine
    \/ BytesArrive
    \/ DeadlinePasses
    \/ Parser
    \/ Control

\* The scheduler runs a task that is ready and has the highest priority.
Spec == Init /\ [][Next]_vars /\ WF_vars(Parser) /\ WF_vars(Control)

-----------------------------------------------------------------------------
(* Properties.                                                             *)

\* A command is queued only if its entry, where it had one, was reused since
\* it was queued before, and if it is a line the host sent, except when bytes
\* were dropped after this very step had looked for that: no redelivery, full
\* queue or preemption makes the robot execute a remembered command again, and
\* two ends of different lines are not taken for a command.
QueuesNewLines ==
    [][\A c \in ReadAs : Accepts(c) =>
           /\ accepted[c.seq] <= forgotten[c.seq]
           /\ Of(c) \in budget.lines \/ overflowed]_vars

\* Where a command has no answer of its own, another one has its number.
AnswerDue(c) ==
    IF told[c] # Unwritten THEN told[c] ELSE Observation(c.seq, "duplicate_conflict")

\* A host that waits for each answer is answered for what it asked, by a text
\* that is the answer's own; and however often it repeats a command, it gets
\* the first answer again, unless the slot that held it was reused since.  The
\* limit concerns this host as well: a late or stale command takes a slot like
\* any other, and one that is forgotten may be executed once more.
PatientHostServed ==
    ~impatient /\ ~asked /\ lost = 0 /\ line # Blank =>
        /\ output.text = output.answer
        /\ output.answer.seq = IF line.kind = "command" THEN line.command.seq ELSE 1
        /\ line.kind = "command" => output.answer = AnswerDue(line.command)

\* Both tasks sleep and nothing is left behind.
Settled ==
    /\ parser = "asleep" /\ ~notified /\ ring = <<>> /\ ~overflowed
    /\ control = "waiting" /\ queue = <<>>
    /\ wire = <<>> => ~asked

\* Whenever the line falls silent, the tasks get through all that has arrived:
\* no wakeup is lost, and no line stays without any answer after it.
Settles == []<>Settled
=============================================================================
