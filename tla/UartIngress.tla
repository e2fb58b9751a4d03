---------------------------- MODULE UartIngress ----------------------------
(***************************************************************************)
(* The firmware's receiving half: the interrupt that fills the ring, and   *)
(* the parser task that cuts its bytes into frames.  A body byte stands    *)
(* for a stretch of the line that arrives as a whole or not at all; the    *)
(* two indices of the ring are the ends of a sequence.                     *)
(***************************************************************************)
EXTENDS Integers, Sequences

CONSTANTS
    RingCapacity,    \* ROBOT_UART_RX_CAPACITY; one place stays free
    FrameCapacity    \* ROBOT_JSON_FRAME_CAPACITY

ASSUME IngressAssumption ==
    RingCapacity \in Nat \ {0, 1} /\ FrameCapacity \in Nat \ {0}

VARIABLES
    ring,         \* ingress.bytes from tail to head
    overflowed,   \* dropped_bytes # reported_dropped_bytes
    notified,     \* the parser task's notification
    parser,       \* the parser task: "asleep", "stepping", "flushing", "popping"
    frame,        \* frame.bytes
    dropping      \* frame.dropping_oversize

ingressVars == <<ring, overflowed, notified, parser, frame, dropping>>

CR == <<"cr">>

LF == <<"lf">>

IngressInit ==
    /\ ring = <<>>
    /\ overflowed = FALSE
    /\ notified = FALSE
    /\ parser = "asleep"
    /\ frame = <<>>
    /\ dropping = FALSE

\* How many of the chunk's bytes find no place.
Dropped(chunk) ==
    LET room == RingCapacity - 1 - Len(ring)
    IN  IF Len(chunk) > room THEN Len(chunk) - room ELSE 0

\* robot_freertos_runtime_uart_rx_isr: no task runs meanwhile.
Interrupt(chunk) ==
    /\ ring' = ring \o SubSeq(chunk, 1, Len(chunk) - Dropped(chunk))
    /\ overflowed' = (overflowed \/ Dropped(chunk) > 0)
    /\ notified' = TRUE
    /\ UNCHANGED <<parser, frame, dropping>>

-----------------------------------------------------------------------------
(* The parser task.                                                        *)

\* ulTaskNotifyTake, which clears the notification.
Wakes ==
    /\ parser = "asleep"
    /\ notified
    /\ notified' = FALSE
    /\ parser' = "stepping"
    /\ UNCHANGED <<ring, overflowed, frame, dropping>>

\* Mutant: the loss of bytes is never looked at.
NeverChecks ==
    /\ parser = "stepping"
    /\ parser' = "popping"
    /\ UNCHANGED <<ring, overflowed, notified, frame, dropping>>

\* The beginning of robot_runtime_parser_step.
ChecksOverflow ==
    /\ parser = "stepping"
    /\ parser' = IF overflowed THEN "flushing" ELSE "popping"
    /\ overflowed' = FALSE
    /\ UNCHANGED <<ring, notified, frame, dropping>>

\* Mutant: the bytes of the frame gathered so far stay.
FlushesRing ==
    /\ parser = "flushing"
    /\ ring' = <<>>
    /\ dropping' = FALSE
    /\ parser' = "stepping"
    /\ UNCHANGED <<overflowed, notified, frame>>

\* The interrupt may have added bytes since the check; they go as well.
Flushes ==
    /\ parser = "flushing"
    /\ ring' = <<>>
    /\ frame' = <<>>
    /\ dropping' = FALSE
    /\ parser' = "stepping"
    /\ UNCHANGED <<overflowed, notified>>

\* ingress_pop finds nothing: the step returns 0 and the loop around it ends.
Sleeps ==
    /\ parser = "popping"
    /\ ring = <<>>
    /\ parser' = "asleep"
    /\ UNCHANGED <<ring, overflowed, notified, frame, dropping>>

Pops ==
    /\ parser = "popping"
    /\ ring # <<>>
    /\ ring' = Tail(ring)
    /\ UNCHANGED <<overflowed, notified>>

Byte == Head(ring)

\* A byte that ends nothing.
Gathers ==
    /\ Pops
    /\ Byte # LF \/ (~dropping /\ frame = <<>>)
    /\ LET skipped == dropping \/ Byte \in {CR, LF}
           full == Len(frame) >= FrameCapacity
       IN  /\ dropping' = (dropping \/ (~skipped /\ full))
           /\ frame' = IF skipped THEN frame
                       ELSE IF full THEN <<>>
                       ELSE Append(frame, Byte)
    /\ UNCHANGED parser

EndsTooLong ==
    /\ Pops
    /\ Byte = LF
    /\ dropping
    /\ dropping' = FALSE
    /\ frame' = <<>>
    /\ parser' = "stepping"

\* Mutant: the task sleeps after a frame until it is notified again.
EndsAndSleeps ==
    /\ Pops
    /\ Byte = LF
    /\ ~dropping
    /\ frame # <<>>
    /\ frame' = <<>>
    /\ parser' = "asleep"
    /\ UNCHANGED dropping

\* The frame is complete: process_frame takes it.
EndsFrame ==
    /\ Pops
    /\ Byte = LF
    /\ ~dropping
    /\ frame # <<>>
    /\ frame' = <<>>
    /\ parser' = "stepping"
    /\ UNCHANGED dropping
=============================================================================
