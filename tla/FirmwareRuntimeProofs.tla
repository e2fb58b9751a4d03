------------------------ MODULE FirmwareRuntimeProofs ------------------------
(***************************************************************************)
(* For every ring, frame, cache and queue, and whatever lines the host     *)
(* sends: the parser queues no remembered command again and takes no two   *)
(* halves of different lines for a command; and a host that waits for each *)
(* answer gets the one to its line, which for a repeated command is the    *)
(* first one as long as its slot is not reused.                            *)
(***************************************************************************)
EXTENDS FirmwareRuntime, SequenceTheorems, WellFoundedInduction, TLAPS

(* The inductive invariant, in parts.                                      *)

\* The codes that are remembered.
Codes == {"none", "torn", "deadline_expired", "stale_sequence", "emergency_stop",
          "emergency_stopped", "front_obstacle", "success"}

Answers == [seq : Nat, code : Codes]

Entries == [command : Command \cup {NoCommand}, answered : BOOLEAN, answer : Answers]

CacheTyped ==
    /\ cache \in [Slots -> Entries]
    /\ cacheNext \in Slots
    /\ forgotten \in [Seqs -> Nat]
    /\ accepted \in [Seqs -> Nat]

\* The control task holds a command while it works, and a slot to write to.
ControlTyped ==
    /\ queue \in Seq(Command)
    /\ control # "waiting" => held \in Command
    /\ answer \in Answers
    /\ control \in {"keying", "flagging", "copying"} => slot \in Slots

AnyByte == {CR, LF, <<"junk">>} \cup {HeadOf(c) : c \in Command}
                                \cup {TailOf(c) : c \in Command}

IngressTyped ==
    /\ budget \in Budgets
    /\ wire \in Seq(AnyByte)
    /\ ring \in Seq(AnyByte)
    /\ frame \in Seq(AnyByte)
    /\ dropping \in BOOLEAN

\* A seq was queued at most once more than its slots were reused, and not even
\* that when no slot holds it now.
Counted ==
    \A s \in Seqs :
        /\ accepted[s] <= forgotten[s] + 1
        /\ Holding(s) = {} => accepted[s] <= forgotten[s]

\* The two bytes of one of the lines.
Pair(lines, a, b) ==
    \E c \in Command : a = HeadOf(c) /\ b = TailOf(c) /\ Of(c) \in lines

\* Behind each beginning of a line follows its own end.
Whole(lines, bytes) ==
    \A i \in 1 .. Len(bytes) :
        bytes[i][1] = "head" =>
            i < Len(bytes) /\ Pair(lines, bytes[i], bytes[i + 1])

\* What is gathered, what is in the ring and what is still to come.
Stream == frame \o (ring \o wire)

\* After a loss of bytes only what is still to come is sure to be whole, until
\* the rest has been flushed.
Streamed ==
    /\ Whole(budget.lines, wire)
    /\ overflowed \/ parser = "flushing" \/ Whole(budget.lines, Stream)
    /\ dropping => frame = <<>>

IInv == CacheTyped /\ ControlTyped /\ IngressTyped /\ Counted /\ Streamed

-----------------------------------------------------------------------------
(* Bytes and sequences of them.                                            *)

\* The two bytes of a command tell it, and are what their mark says.
LEMMA Marks ==
    /\ \A c \in Command : HeadOf(c)[1] = "head" /\ TailOf(c)[1] = "tail"
    /\ \A c, d \in Command : HeadOf(c) = HeadOf(d) /\ TailOf(c) = TailOf(d) => c = d
    /\ CR[1] = "cr" /\ LF[1] = "lf"
  BY DEF HeadOf, TailOf, Command, CR, LF

LEMMA PairMarks ==
    ASSUME NEW lines, NEW a, NEW b, Pair(lines, a, b)
    PROVE  b[1] = "tail"
  BY Marks DEF Pair

\* What is left of a whole stretch of bytes is whole.
LEMMA WholeSuffix ==
    ASSUME NEW X, NEW lines, NEW s \in Seq(X), Whole(lines, s),
           NEW n \in 0 .. Len(s)
    PROVE  Whole(lines, SubSeq(s, n + 1, Len(s)))
  <1> DEFINE t == SubSeq(s, n + 1, Len(s))
  <1>1. Len(t) = Len(s) - n /\ \A i \in 1 .. Len(t) : t[i] = s[i + n]
    OBVIOUS
  <1> HIDE DEF t
  <1>2. ASSUME NEW i \in 1 .. Len(t), t[i][1] = "head"
        PROVE  i < Len(t) /\ Pair(lines, t[i], t[i + 1])
    <2>1. i + n \in 1 .. Len(s) /\ s[i + n][1] = "head"
      BY <1>1, <1>2
    <2>2. i + n < Len(s) /\ Pair(lines, s[i + n], s[i + n + 1])
      BY <2>1 DEF Whole
    <2>3. i < Len(t) /\ t[i] = s[i + n]
      BY <1>1, <2>2
    <2>4. t[i + 1] = s[(i + 1) + n] /\ (i + 1) + n = i + n + 1
      BY <1>1, <2>3
    <2> QED BY <2>2, <2>3, <2>4
  <1> QED BY <1>2 DEF Whole, t

LEMMA WholeTail ==
    ASSUME NEW X, NEW lines, NEW s \in Seq(X), s # <<>>, Whole(lines, s)
    PROVE  Whole(lines, Tail(s))
  <1>1. Tail(s) = SubSeq(s, 1 + 1, Len(s)) /\ 1 \in 0 .. Len(s)
    OBVIOUS
  <1> QED BY <1>1, WholeSuffix

LEMMA WholeSecond ==
    ASSUME NEW X, NEW lines, NEW a \in Seq(X), NEW b \in Seq(X), Whole(lines, a \o b)
    PROVE  Whole(lines, b)
  <1>1. /\ a \o b \in Seq(X) /\ Len(a) \in 0 .. Len(a \o b)
        /\ b = SubSeq(a \o b, Len(a) + 1, Len(a \o b))
    OBVIOUS
  <1> QED BY <1>1, WholeSuffix

\* A byte that ends a line or opens it may be left out behind others.
LEMMA WholeSkip ==
    ASSUME NEW X, NEW lines, NEW a \in Seq(X), NEW b \in Seq(X), b # <<>>,
           Whole(lines, a \o b), Head(b)[1] # "tail"
    PROVE  Whole(lines, a \o Tail(b))
  <1> DEFINE s == a \o b
             t == a \o Tail(b)
  <1>1. /\ Len(s) = Len(a) + Len(b) /\ Len(t) = Len(s) - 1 /\ Len(b) > 0
        /\ Len(a) \in Nat /\ Len(b) \in Nat
        /\ s[Len(a) + 1] = Head(b)
        /\ \A i \in 1 .. Len(a) : t[i] = s[i]
        /\ \A i \in Len(a) + 1 .. Len(t) : t[i] = s[i + 1]
    OBVIOUS
  <1>0. Whole(lines, s)
    OBVIOUS
  <1> HIDE DEF s, t
  <1>2. ASSUME NEW i \in 1 .. Len(t), t[i][1] = "head"
        PROVE  i < Len(t) /\ Pair(lines, t[i], t[i + 1])
    <2>1. CASE i \in 1 .. Len(a)
      <3>1. i \in 1 .. Len(s) /\ s[i][1] = "head"
        BY <1>1, <1>2, <2>1
      <3>2. i < Len(s) /\ Pair(lines, s[i], s[i + 1])
        BY <3>1, <1>0 DEF Whole
      <3>3. i # Len(a)
        BY <3>2, PairMarks, <1>1
      <3>4. i + 1 \in 1 .. Len(a)
        BY <2>1, <3>3, <1>1
      <3> QED BY <1>1, <2>1, <3>2, <3>4
    <2>2. CASE i \in Len(a) + 1 .. Len(t)
      <3>1. i + 1 \in 1 .. Len(s) /\ s[i + 1][1] = "head"
        BY <1>1, <1>2, <2>2
      <3>2. i + 1 < Len(s) /\ Pair(lines, s[i + 1], s[i + 2])
        BY <3>1, <1>0 DEF Whole
      <3> QED BY <1>1, <2>2, <3>2
    <2> QED BY <2>1, <2>2, <1>1
  <1> QED BY <1>2 DEF Whole, t

LEMMA WholeJoin ==
    ASSUME NEW X, NEW lines, NEW a \in Seq(X), NEW b \in Seq(X),
           Whole(lines, a), Whole(lines, b)
    PROVE  Whole(lines, a \o b)
  <1> DEFINE s == a \o b
  <1>1. /\ Len(s) = Len(a) + Len(b) /\ Len(a) \in Nat /\ Len(b) \in Nat
        /\ \A i \in 1 .. Len(a) : s[i] = a[i]
        /\ \A i \in Len(a) + 1 .. Len(s) : s[i] = b[i - Len(a)]
    OBVIOUS
  <1> HIDE DEF s
  <1>2. ASSUME NEW i \in 1 .. Len(s), s[i][1] = "head"
        PROVE  i < Len(s) /\ Pair(lines, s[i], s[i + 1])
    <2>1. CASE i \in 1 .. Len(a)
      <3>1. i < Len(a) /\ Pair(lines, a[i], a[i + 1])
        BY <1>1, <1>2, <2>1 DEF Whole
      <3> QED BY <1>1, <2>1, <3>1
    <2>2. CASE i \in Len(a) + 1 .. Len(s)
      <3>1. i - Len(a) \in 1 .. Len(b) /\ b[i - Len(a)][1] = "head"
        BY <1>1, <1>2, <2>2
      <3>2. i - Len(a) < Len(b) /\ Pair(lines, b[i - Len(a)], b[i - Len(a) + 1])
        BY <3>1 DEF Whole
      <3>3. i + 1 \in Len(a) + 1 .. Len(s) /\ (i + 1) - Len(a) = i - Len(a) + 1
        BY <1>1, <2>2, <3>2
      <3> QED BY <1>1, <2>2, <3>2, <3>3
    <2> QED BY <2>1, <2>2, <1>1
  <1> QED BY <1>2 DEF Whole, s

LEMMA MovesByte ==
    ASSUME NEW X, NEW a \in Seq(X), NEW b \in Seq(X), NEW c \in Seq(X), b # <<>>
    PROVE  Append(a, Head(b)) \o (Tail(b) \o c) = a \o (b \o c)
  <1>1. Append(a, Head(b)) = a \o <<Head(b)>> /\ <<Head(b)>> \in Seq(X)
    OBVIOUS
  <1>2. b = <<Head(b)>> \o Tail(b) /\ Tail(b) \in Seq(X)
    OBVIOUS
  <1>3. b \o c = <<Head(b)>> \o (Tail(b) \o c)
    BY <1>1, <1>2, ConcatAssociative
  <1> QED BY <1>1, <1>2, <1>3, ConcatAssociative, ConcatProperties

\* Every line is whole.
LEMMA LinesWhole ==
    ASSUME NEW b \in Budgets, NEW l \in b.lines
    PROVE  Bytes(l) \in Seq(AnyByte) /\ Whole(b.lines, Bytes(l))
  <1>1. l \in {Of(c) : c \in Command} \cup {Junk, Blank}
    BY RuntimeAssumption
  <1>2. CASE l = Blank
    <2>1. Bytes(l) = <<CR, LF>>
      BY <1>2 DEF Bytes, Blank
    <2> QED BY <2>1, Marks DEF Whole, AnyByte
  <1>3. CASE l = Junk
    <2> DEFINE junk == [i \in 1 .. FrameCapacity + 1 |-> <<"junk">>]
    <2>1. Bytes(l) = junk \o <<LF>>
      BY <1>3 DEF Bytes, Junk
    <2>2. junk \in Seq(AnyByte) /\ Len(junk) = FrameCapacity + 1
      BY IngressAssumption DEF AnyByte
    <2>3. <<LF>> \in Seq(AnyByte) /\ Whole(b.lines, <<LF>>)
      BY Marks DEF AnyByte, Whole
    <2>4. \A i \in 1 .. Len(junk) : junk[i][1] = "junk"
      BY <2>2
    <2> HIDE DEF junk
    <2>5. ASSUME NEW i \in 1 .. Len(junk) PROVE junk[i][1] # "head"
      BY <2>4
    <2>6. Whole(b.lines, junk)
      BY <2>5 DEF Whole
    <2>7. Whole(b.lines, junk \o <<LF>>)
      BY <2>2, <2>3, <2>6, WholeJoin
    <2>8. junk \o <<LF>> \in Seq(AnyByte)
      BY <2>2, <2>3
    <2> QED BY <2>1, <2>7, <2>8
  <1>4. CASE \E c \in Command : l = Of(c)
    <2>1. PICK c \in Command : l = Of(c)
      BY <1>4
    <2>2. Bytes(l) = <<HeadOf(c), TailOf(c), LF>>
      BY <2>1 DEF Bytes, Of
    <2>3. Pair(b.lines, HeadOf(c), TailOf(c))
      BY <2>1 DEF Pair
    <2> QED BY <2>2, <2>3, Marks DEF Whole, AnyByte
  <1> QED BY <1>1, <1>2, <1>3, <1>4

-----------------------------------------------------------------------------
(* The stream of bytes.                                                    *)

\* The stretch between frame and wire that the parser pops the next byte from.
LEMMA Popped ==
    ASSUME IngressTyped, Pops
    PROVE  /\ Tail(ring) \in Seq(AnyByte) /\ Byte \in AnyByte
           /\ ring \o wire \in Seq(AnyByte) /\ ring \o wire # <<>>
           /\ Tail(ring \o wire) = Tail(ring) \o wire
           /\ Head(ring \o wire) = Byte
  BY DEF IngressTyped, Pops, Byte

\* A step that leaves the parser's gathering to the ring alone.
LEMMA ForgetsFrame ==
    ASSUME IngressTyped, Pops, Whole(budget.lines, Stream)
    PROVE  /\ Whole(budget.lines, ring \o wire)
           /\ Whole(budget.lines, Tail(ring) \o wire)
  <1>1. Whole(budget.lines, ring \o wire)
    BY Popped, WholeSecond DEF IngressTyped, Stream
  <1> QED BY <1>1, Popped, WholeTail

LEMMA GathersKeeps ==
    ASSUME IngressTyped, Streamed, Gathers, UNCHANGED <<budget, wire>>
    PROVE  IngressTyped' /\ Streamed'
  <1> DEFINE rest == Tail(ring) \o wire
  <1>0. /\ Pops /\ ring' = Tail(ring) /\ overflowed' = overflowed
        /\ parser' = parser /\ parser = "popping"
    BY DEF Gathers, Pops
  <1>1. rest \in Seq(AnyByte) /\ (ring \o wire)' = rest
    BY <1>0, Popped DEF IngressTyped
  <1>2. CASE dropping \/ Byte \in {CR, LF}
    <2>1. frame' = frame /\ dropping' = dropping
      BY <1>2 DEF Gathers, IngressTyped
    <2>2. ASSUME Whole(budget.lines, Stream)
          PROVE  Whole(budget.lines, frame \o rest)
      <3>1. CASE dropping
        <4>1. frame = <<>>
          BY <3>1 DEF Streamed
        <4>2. frame \o rest = rest
          BY <4>1, <1>1
        <4> QED BY <4>2, <1>0, <2>2, ForgetsFrame
      <3>2. CASE Byte \in {CR, LF}
        <4>1. Head(ring \o wire)[1] # "tail"
          BY <3>2, <1>0, Popped, Marks
        <4>2. Whole(budget.lines, frame \o Tail(ring \o wire))
          BY <4>1, <1>0, <2>2, Popped, WholeSkip DEF IngressTyped, Stream
        <4> QED BY <4>2, <1>0, Popped
      <3> QED BY <1>2, <3>1, <3>2
    <2>3. IngressTyped'
      BY <1>0, <2>1, Popped DEF IngressTyped
    <2>4. Stream' = frame \o rest
      BY <1>1, <2>1 DEF Stream
    <2> QED BY <1>0, <2>1, <2>2, <2>3, <2>4 DEF Streamed
  <1>3. CASE ~(dropping \/ Byte \in {CR, LF}) /\ Len(frame) >= FrameCapacity
    <2>1. frame' = <<>> /\ dropping' = TRUE
      BY <1>3 DEF Gathers
    <2>2. IngressTyped'
      BY <1>0, <2>1, Popped DEF IngressTyped
    <2>3. Stream' = rest
      BY <1>1, <2>1 DEF Stream
    <2> QED BY <1>0, <2>1, <2>2, <2>3, ForgetsFrame DEF Streamed
  <1>4. CASE ~(dropping \/ Byte \in {CR, LF}) /\ ~(Len(frame) >= FrameCapacity)
    <2>1. frame' = Append(frame, Byte) /\ dropping' = dropping /\ ~dropping
      BY <1>4 DEF Gathers, IngressTyped
    <2>2. IngressTyped'
      BY <1>0, <2>1, Popped DEF IngressTyped
    <2>3. Append(frame, Byte) \o rest = frame \o (ring \o wire)
      BY <1>0, MovesByte DEF IngressTyped, Pops, Byte
    <2>4. Stream' = Stream
      BY <1>1, <2>1, <2>3 DEF Stream
    <2> QED BY <1>0, <2>1, <2>2, <2>4 DEF Streamed
  <1> QED BY <1>2, <1>3, <1>4

\* The end of a line takes the frame away.
LEMMA EndsKeeps ==
    ASSUME IngressTyped, Streamed, EndsFrame \/ EndsTooLong, UNCHANGED <<budget, wire>>
    PROVE  IngressTyped' /\ Streamed'
  <1>1. /\ Pops /\ ring' = Tail(ring) /\ overflowed' = overflowed
        /\ parser = "popping" /\ frame' = <<>> /\ dropping' \in BOOLEAN
    BY DEF EndsFrame, EndsTooLong, Pops, IngressTyped
  <1>2. IngressTyped'
    BY <1>1, Popped DEF IngressTyped
  <1>3. (ring \o wire)' = Tail(ring) \o wire /\ Tail(ring) \o wire \in Seq(AnyByte)
    BY <1>1, Popped DEF IngressTyped
  <1>4. Stream' = Tail(ring) \o wire
    BY <1>1, <1>3 DEF Stream
  <1> QED BY <1>1, <1>2, <1>4, ForgetsFrame DEF Streamed

LEMMA FlushesKeeps ==
    ASSUME IngressTyped, Streamed, Flushes, UNCHANGED <<budget, wire>>
    PROVE  IngressTyped' /\ Streamed'
  <1>1. ring' = <<>> /\ frame' = <<>> /\ dropping' \in BOOLEAN
    BY DEF Flushes
  <1>2. IngressTyped'
    BY <1>1 DEF IngressTyped
  <1>3. Stream' = wire
    BY <1>1 DEF Stream, IngressTyped
  <1> QED BY <1>1, <1>2, <1>3 DEF Streamed

\* The parser's steps that move no byte.
LEMMA RestsKeeps ==
    ASSUME IngressTyped, Streamed, Wakes \/ ChecksOverflow \/ Sleeps,
           UNCHANGED <<budget, wire>>
    PROVE  IngressTyped' /\ Streamed'
  <1>1. /\ UNCHANGED <<ring, frame, dropping>>
        /\ parser # "flushing"
        /\ overflowed => overflowed' \/ parser' = "flushing"
    BY DEF Wakes, ChecksOverflow, Sleeps
  <1>2. IngressTyped' /\ Stream' = Stream
    BY <1>1 DEF IngressTyped, Stream
  <1> QED BY <1>1, <1>2 DEF Streamed

LEMMA InterruptKeeps ==
    ASSUME IngressTyped, Streamed, BytesArrive
    PROVE  IngressTyped' /\ Streamed'
  <1> DEFINE n == IF Len(wire) < budget.chunk THEN Len(wire) ELSE budget.chunk
             chunk == SubSeq(wire, 1, n)
             rest == SubSeq(wire, n + 1, Len(wire))
             kept == SubSeq(chunk, 1, Len(chunk) - Dropped(chunk))
  <1>1. budget \in Budgets /\ budget.chunk \in Nat /\ Len(wire) \in Nat
    BY RuntimeAssumption DEF IngressTyped
  <1>2. n \in 0 .. Len(wire)
    BY <1>1
  <1>3. /\ ring' = ring \o kept /\ wire' = rest
        /\ overflowed' = (overflowed \/ Dropped(chunk) > 0)
        /\ UNCHANGED <<budget, parser, frame, dropping>>
    BY DEF BytesArrive, Interrupt
  <1> HIDE DEF n
  <1>4. chunk \in Seq(AnyByte) /\ rest \in Seq(AnyByte) /\ Len(chunk) \in Nat
    BY <1>2 DEF IngressTyped
  <1>5. chunk \o rest = wire
    <2>1. wire \in Seq(AnyByte) /\ 1 \in 1 .. Len(wire) + 1 /\ n \in 1 - 1 .. Len(wire)
          /\ Len(wire) \in n .. Len(wire) /\ SubSeq(wire, 1, Len(wire)) = wire
      BY <1>1, <1>2 DEF IngressTyped
    <2> QED BY <2>1, ConcatAdjacentSubSeq
  <1>6. Whole(budget.lines, rest)
    BY <1>2, WholeSuffix DEF IngressTyped, Streamed
  <1> HIDE DEF chunk, rest
  <1>7. Dropped(chunk) \in Nat
    BY <1>4, IngressAssumption DEF Dropped, IngressTyped
  <1>8. kept \in Seq(AnyByte) /\ (Dropped(chunk) = 0 => kept = chunk)
    BY <1>4, <1>7
  <1> HIDE DEF kept
  <1>9. IngressTyped'
    BY <1>3, <1>4, <1>8 DEF IngressTyped
  <1>10. ASSUME Dropped(chunk) = 0 PROVE Stream' = Stream
    <2>1. ring \in Seq(AnyByte)
      BY DEF IngressTyped
    <2>2. (ring \o chunk) \o rest = ring \o (chunk \o rest)
      BY <1>4, <2>1, ConcatAssociative
    <2>3. Stream' = frame \o ((ring \o chunk) \o rest)
      BY <1>3, <1>8, <1>10 DEF Stream
    <2> QED BY <2>2, <2>3, <1>5 DEF Stream
  <1>11. Dropped(chunk) = 0 \/ Dropped(chunk) > 0
    BY <1>7
  <1>12. overflowed \/ Dropped(chunk) > 0 => overflowed'
    BY <1>3
  <1> QED BY <1>3, <1>6, <1>9, <1>10, <1>11, <1>12 DEF Streamed

LEMMA LineKeeps ==
    ASSUME IngressTyped, Streamed, BeginsLine
    PROVE  IngressTyped' /\ Streamed'
  <1>1. PICK l \in budget.lines : wire' = Bytes(l)
    BY DEF BeginsLine
  <1>2. /\ wire = <<>> /\ UNCHANGED <<budget, ring, frame, dropping, overflowed, parser>>
    BY DEF BeginsLine, ingressVars
  <1>3. Bytes(l) \in Seq(AnyByte) /\ Whole(budget.lines, Bytes(l))
    BY LinesWhole DEF IngressTyped
  <1>4. IngressTyped'
    BY <1>1, <1>2, <1>3 DEF IngressTyped
  <1>5. Stream = frame \o ring /\ Stream' = frame \o (ring \o Bytes(l))
    BY <1>1, <1>2 DEF Stream, IngressTyped
  <1>6. frame \in Seq(AnyByte) /\ ring \in Seq(AnyByte) /\ frame \o ring \in Seq(AnyByte)
    BY DEF IngressTyped
  <1>7. Stream' = Stream \o Bytes(l) /\ Stream \in Seq(AnyByte)
    BY <1>3, <1>5, <1>6, ConcatAssociative
  <1>8. Whole(budget.lines, Stream) => Whole(budget.lines, Stream')
    BY <1>3, <1>7, WholeJoin
  <1> QED BY <1>1, <1>2, <1>3, <1>4, <1>8 DEF Streamed

-----------------------------------------------------------------------------
(* The cache and how often a command was queued.                           *)

LEMMA CommandSeqs ==
    /\ \A c \in Command : c.seq \in Seqs /\ c.seq \in Nat
    /\ \A e \in Entries : e.command.seq \in Seqs => e.command \in Command
    /\ NoCommand.seq \notin Seqs
  <1>1. \A c \in Command : c.seq \in Seqs /\ c.seq \in Nat
    BY ProtocolAssumption DEF Command
  <1>2. NoCommand.seq = 0 /\ 0 \notin Seqs
    BY ProtocolAssumption DEF NoCommand
  <1>3. ASSUME NEW e \in Entries, e.command.seq \in Seqs
        PROVE  e.command \in Command
    <2>1. e.command \in Command \/ e.command = NoCommand
      BY DEF Entries
    <2> QED BY <2>1, <1>2, <1>3
  <1> QED BY <1>1, <1>2, <1>3

LEMMA Texts ==
    /\ Unwritten \in Answers /\ Torn \in Answers
    /\ \A c \in Command : \A code \in Codes : Observation(c.seq, code) \in Answers
  <1>1. \A n \in Nat : \A code \in Codes : Observation(n, code) \in Answers
    BY DEF Answers, Observation
  <1>2. "none" \in Codes /\ "torn" \in Codes
    BY DEF Codes
  <1>3. Unwritten \in Answers /\ Torn \in Answers
    BY <1>1, <1>2 DEF Unwritten, Torn
  <1> QED BY <1>1, <1>3, CommandSeqs

LEMMA NextSlotIn ==
    ASSUME CacheTyped
    PROVE  NextSlot \in Slots
  BY ProtocolAssumption DEF CacheTyped, NextSlot, Slots

LEMMA FindCacheIn ==
    ASSUME NEW s, Holding(s) # {}
    PROVE  FindCache(s) \in Slots /\ FindCache(s) \in Holding(s)
  <1>1. Holding(s) \subseteq Slots /\ Holding(s) \subseteq Nat
    BY DEF Holding, Slots
  <1> DEFINE less == {pair \in Nat \X Nat : pair[1] < pair[2]}
  <1>2. IsWellFoundedOn(less, Nat)
    BY NatLessThanWellFounded DEF OpToRel
  <1>0. ASSUME NEW m \in Nat, NEW n \in Nat, m < n
        PROVE  <<m, n>> \in less
    <2>1. <<m, n>> \in Nat \X Nat /\ <<m, n>>[1] = m /\ <<m, n>>[2] = n
      OBVIOUS
    <2>2. <<m, n>>[1] < <<m, n>>[2]
      BY <2>1, <1>0
    <2> QED BY <2>1, <2>2, Zenon
  <1> HIDE DEF less
  <1>3. PICK i \in Holding(s) : \A j \in Holding(s) : <<j, i>> \notin less
    BY <1>1, <1>2, WFMin
  <1>4. ASSUME NEW j \in Holding(s)
        PROVE  i <= j
    <2>1. i \in Nat /\ j \in Nat
      BY <1>1
    <2>2. <<j, i>> \notin less
      BY <1>3
    <2>3. ~(j < i)
      BY <1>0, <2>1, <2>2, Zenon
    <2> QED BY <2>1, <2>3
  <1>5. FindCache(s) \in Holding(s)
    BY <1>4 DEF FindCache
  <1> QED BY <1>1, <1>5

\* A slot gets an entry and what it held is forgotten; one command that no slot
\* held may have been queued.
LEMMA WritesSlot ==
    ASSUME CacheTyped, Counted, NEW i \in Slots, NEW entry \in Entries,
           cache' = [cache EXCEPT ![i] = entry], Reuse(i), cacheNext' \in Slots,
           \/ accepted' = accepted
           \/ /\ entry.command.seq \in Seqs
              /\ Holding(entry.command.seq) = {}
              /\ accepted' = [accepted EXCEPT ![entry.command.seq] = @ + 1]
    PROVE  CacheTyped' /\ Counted'
  <1> DEFINE old == cache[i].command.seq
             new == entry.command.seq
  <1>1. /\ cache' \in [Slots -> Entries]
        /\ cache'[i] = entry
        /\ \A j \in Slots \ {i} : cache'[j] = cache[j]
    BY DEF CacheTyped
  <1>2. /\ forgotten' \in [Seqs -> Nat]
        /\ \A s \in Seqs : forgotten'[s] = IF s = old THEN forgotten[s] + 1
                                                      ELSE forgotten[s]
    BY DEF CacheTyped, Reuse
  <1>3. accepted' \in [Seqs -> Nat]
    BY DEF CacheTyped
  <1>4. ASSUME NEW s \in Seqs
        PROVE  /\ accepted'[s] <= forgotten'[s] + 1
               /\ Holding(s)' = {} => accepted'[s] <= forgotten'[s]
    <2>1. /\ accepted[s] \in Nat /\ forgotten[s] \in Nat
          /\ accepted[s] <= forgotten[s] + 1
          /\ Holding(s) = {} => accepted[s] <= forgotten[s]
      BY DEF CacheTyped, Counted
    <2>2. accepted'[s] = accepted[s]
          \/ (s = new /\ Holding(s) = {} /\ accepted'[s] = accepted[s] + 1)
      BY DEF CacheTyped
    <2>3. s = old => i \in Holding(s)
      BY DEF Holding
    <2>4. s = new => i \in Holding(s)'
      BY <1>1 DEF Holding
    <2>5. s # old /\ Holding(s)' = {} => Holding(s) = {}
      BY <1>1 DEF Holding
    <2>6. CASE s = new
      BY <1>2, <2>1, <2>2, <2>4, <2>6
    <2>7. CASE s # new /\ s = old
      BY <1>2, <2>1, <2>2, <2>7
    <2>8. CASE s # new /\ s # old
      BY <1>2, <2>1, <2>2, <2>5, <2>8
    <2> QED BY <2>6, <2>7, <2>8
  <1> QED BY <1>1, <1>2, <1>3, <1>4 DEF CacheTyped, Counted

\* The parser remembers what it queued or refused.
LEMMA NoteKeeps ==
    ASSUME CacheTyped, Counted, NEW entry \in Entries, Note(entry),
           \/ accepted' = accepted
           \/ /\ entry.command.seq \in Seqs
              /\ Holding(entry.command.seq) = {}
              /\ accepted' = [accepted EXCEPT ![entry.command.seq] = @ + 1]
    PROVE  CacheTyped' /\ Counted'
  <1>1. /\ cacheNext \in Slots /\ cacheNext' \in Slots /\ Reuse(cacheNext)
        /\ cache' = [cache EXCEPT ![cacheNext] = entry]
    BY NextSlotIn DEF Note, CacheTyped
  <1> QED BY <1>1, WritesSlot

\* Writes that leave every key alone.
LEMMA KeysStay ==
    ASSUME CacheTyped, Counted, UNCHANGED <<cacheNext, forgotten, accepted>>,
           cache' \in [Slots -> Entries],
           \A i \in Slots : cache'[i].command = cache[i].command
    PROVE  CacheTyped' /\ Counted'
  <1>1. \A s : Holding(s)' = Holding(s)
    BY DEF Holding
  <1> QED BY <1>1 DEF CacheTyped, Counted

-----------------------------------------------------------------------------
(* The steps, by the parts of the invariant they disturb.                  *)

\* A command that was refused or queued gets its entry.
LEMMA RefusesKeeps ==
    ASSUME IInv, NEW c \in Command, Refuses(c)
    PROVE  IInv'
  <1> DEFINE obs == Observation(c.seq, IF IsLate(c) THEN "deadline_expired"
                                                    ELSE "stale_sequence")
  <1>1. RememberAnswer(c, obs) /\ accepted' = accepted
    BY DEF Refuses
  <1>2. obs \in Answers
    BY Texts DEF Codes
  <1> HIDE DEF obs
  <1>3. Entry(c, TRUE, obs) \in Entries
    BY <1>2 DEF Entry, Entries
  <1>4. CacheTyped' /\ Counted'
    BY <1>1, <1>3, NoteKeeps DEF RememberAnswer, IInv
  <1>5. EndsFrame /\ UNCHANGED <<budget, wire, queue, control, held, answer, slot>>
    BY DEF Refuses, hostVars, controlVars
  <1>6. IngressTyped' /\ Streamed'
    BY <1>5, EndsKeeps DEF IInv
  <1>7. ControlTyped'
    BY <1>5 DEF IInv, ControlTyped
  <1> QED BY <1>4, <1>6, <1>7 DEF IInv

LEMMA AcceptsKeeps ==
    ASSUME IInv, NEW c \in Command, Accepts(c)
    PROVE  IInv'
  <1> DEFINE entry == Entry(c, FALSE, Unwritten)
  <1>1. /\ entry \in Entries /\ entry.command = c
    BY Texts DEF Entry, Entries
  <1>2. /\ Note(entry) /\ Holding(c.seq) = {}
        /\ accepted' = [accepted EXCEPT ![c.seq] = @ + 1]
    BY DEF Accepts, RememberPending, IsNew, IsKnown
  <1> HIDE DEF entry
  <1>3. CacheTyped' /\ Counted'
    BY <1>1, <1>2, NoteKeeps, CommandSeqs DEF IInv
  <1>4. /\ EndsFrame /\ queue' = Append(queue, c)
        /\ UNCHANGED <<budget, wire, control, held, answer, slot>>
    BY DEF Accepts, hostVars, controlVars
  <1>5. IngressTyped' /\ Streamed'
    BY <1>4, EndsKeeps DEF IInv
  <1>6. ControlTyped'
    BY <1>4 DEF IInv, ControlTyped
  <1> QED BY <1>3, <1>5, <1>6 DEF IInv

\* What the cache part and the control part of the invariant are about.
memoryVars == <<cache, cacheNext, forgotten, accepted, queue, controlVars>>

LEMMA MemoryStays ==
    ASSUME IInv, UNCHANGED memoryVars
    PROVE  CacheTyped' /\ Counted' /\ ControlTyped'
  <1>1. \A s : Holding(s)' = Holding(s)
    BY DEF Holding, memoryVars
  <1> QED BY <1>1 DEF IInv, CacheTyped, Counted, ControlTyped, memoryVars, controlVars

LEMMA ParserKeeps ==
    ASSUME IInv, Parser
    PROVE  IInv'
  <1>1. ASSUME ParserWakes \/ ParserChecks \/ ParserSleeps
        PROVE  IInv'
    <2>1. /\ Wakes \/ ChecksOverflow \/ Sleeps
          /\ UNCHANGED <<budget, wire>> /\ UNCHANGED memoryVars
      BY <1>1 DEF ParserWakes, ParserChecks, ParserSleeps, ParserRests, hostVars,
                  protocolVars, memoryVars
    <2> QED BY <2>1, MemoryStays, RestsKeeps DEF IInv
  <1>2. ASSUME ReportsOverflow
        PROVE  IInv'
    <2>1. Flushes /\ UNCHANGED <<budget, wire>> /\ UNCHANGED memoryVars
      BY <1>2 DEF ReportsOverflow, ParserRests, hostVars, protocolVars, memoryVars
    <2> QED BY <2>1, MemoryStays, FlushesKeeps DEF IInv
  <1>3. ASSUME ParserGathers
        PROVE  IInv'
    <2>1. Gathers /\ UNCHANGED <<budget, wire>> /\ UNCHANGED memoryVars
      BY <1>3 DEF ParserGathers, ParserRests, hostVars, protocolVars, memoryVars
    <2> QED BY <2>1, MemoryStays, GathersKeeps DEF IInv
  <1>4. ASSUME \/ ReportsTooLong \/ RefusesFrame
               \/ \E c \in ReadAs : \/ RefusesConflict(c) \/ Replies(c)
                                   \/ IgnoresPending(c) \/ FindsQueueFull(c)
        PROVE  IInv'
    <2>1. /\ EndsFrame \/ EndsTooLong
          /\ UNCHANGED <<budget, wire>> /\ UNCHANGED memoryVars
      BY <1>4 DEF ReportsTooLong, RefusesFrame, RefusesConflict, Replies, IgnoresPending,
                  FindsQueueFull, ParserRests, hostVars, protocolVars, memoryVars
    <2> QED BY <2>1, MemoryStays, EndsKeeps DEF IInv
  <1>5. ASSUME \E c \in ReadAs : Refuses(c) \/ Accepts(c)
        PROVE  IInv'
    BY <1>5, RefusesKeeps, AcceptsKeeps DEF ReadAs
  <1> QED BY <1>1, <1>2, <1>3, <1>4, <1>5 DEF Parser, Handles

LEMMA ControlKeeps ==
    ASSUME IInv, Control
    PROVE  IInv'
  <1> USE DEF ControlStep
  <1>0. /\ UNCHANGED <<hostVars, ingressVars>> /\ accepted' = accepted
        /\ control # "waiting" => held \in Command
        /\ answer \in Answers /\ queue \in Seq(Command)
    BY DEF Control, TakesCommand, Executes, ClearsSlot, KeysSlot, FlagsSlot, CopiesAnswer,
           FormatsAnswer, EmitsAnswer, IInv, ControlTyped
  <1>1. IngressTyped' /\ Streamed'
    BY <1>0 DEF IInv, IngressTyped, Streamed, Stream, hostVars, ingressVars
  <1>2. ASSUME TakesCommand \/ Executes \/ FormatsAnswer \/ EmitsAnswer
        PROVE  CacheTyped' /\ Counted'
    <2>1. UNCHANGED <<cache, cacheNext, forgotten, accepted>>
      BY <1>2 DEF TakesCommand, Executes, FormatsAnswer, EmitsAnswer, protocolVars
    <2>2. cache' \in [Slots -> Entries]
      BY <2>1 DEF IInv, CacheTyped
    <2> QED BY <2>1, <2>2, KeysStay DEF IInv
  <1>3. ASSUME TakesCommand
        PROVE  ControlTyped'
    BY <1>0, <1>3 DEF TakesCommand, ControlTyped
  <1>4. ASSUME Executes
        PROVE  ControlTyped'
    <2>1. /\ held \in Command /\ UNCHANGED <<queue, held>>
          /\ answer' = Observation(held.seq, Verdict(held))
          /\ control' \in {"flagging", "clearing"}
          /\ control' = "flagging" => slot' = FindCache(held.seq) /\ Holding(held.seq) # {}
      BY <1>0, <1>4 DEF Executes, IsKnown
    <2>2. Verdict(held) \in Codes
      BY DEF Verdict, Codes
    <2>3. answer' \in Answers
      BY <2>1, <2>2, Texts
    <2> QED BY <1>0, <2>1, <2>3, FindCacheIn DEF ControlTyped
  <1>5. ASSUME ClearsSlot
        PROVE  CacheTyped' /\ Counted' /\ ControlTyped'
    <2>1. /\ cache' = [cache EXCEPT ![cacheNext] = Cleared] /\ Reuse(cacheNext)
          /\ cacheNext \in Slots /\ cacheNext' = cacheNext
      BY <1>5 DEF ClearsSlot, ClearSlot, IInv, CacheTyped
    <2>2. Cleared \in Entries
      BY Texts DEF Cleared, Entry, Entries
    <2>3. CacheTyped' /\ Counted'
      BY <1>0, <2>1, <2>2, WritesSlot DEF IInv
    <2>4. ControlTyped'
      BY <1>0, <1>5, <2>1 DEF ClearsSlot, ControlTyped
    <2> QED BY <2>3, <2>4
  <1>6. ASSUME KeysSlot
        PROVE  CacheTyped' /\ Counted' /\ ControlTyped'
    <2> DEFINE entry == [cache[slot] EXCEPT !.command = held]
    <2>1. slot \in Slots /\ held \in Command /\ cache[slot] \in Entries
      BY <1>0, <1>6 DEF KeysSlot, IInv, ControlTyped, CacheTyped
    <2>2. /\ cache' = [cache EXCEPT ![slot] = entry] /\ Reuse(slot)
          /\ cacheNext' \in Slots
      BY <1>6, NextSlotIn DEF KeysSlot, KeySlot, IInv
    <2>3. entry \in Entries
      BY <2>1 DEF Entries
    <2> HIDE DEF entry
    <2>4. CacheTyped' /\ Counted'
      BY <1>0, <2>1, <2>2, <2>3, WritesSlot DEF IInv
    <2>5. ControlTyped'
      BY <1>0, <1>6, <2>1 DEF KeysSlot, ControlTyped
    <2> QED BY <2>4, <2>5
  <1>7. ASSUME FlagsSlot
        PROVE  CacheTyped' /\ Counted' /\ ControlTyped'
    <2>1. slot \in Slots /\ held \in Command /\ cache \in [Slots -> Entries]
      BY <1>0, <1>7 DEF FlagsSlot, IInv, ControlTyped, CacheTyped
    <2>2. cache' = [cache EXCEPT ![slot].answered = TRUE, ![slot].answer = Torn]
          /\ UNCHANGED <<cacheNext, forgotten>>
      BY <1>7 DEF FlagsSlot, FlagSlot
    <2>3. /\ cache' \in [Slots -> Entries]
          /\ \A i \in Slots : cache'[i].command = cache[i].command
      BY <2>1, <2>2, Texts DEF Entries
    <2>4. CacheTyped' /\ Counted'
      BY <1>0, <2>2, <2>3, KeysStay DEF IInv
    <2>5. ControlTyped'
      BY <1>0, <1>7, <2>1 DEF FlagsSlot, ControlTyped
    <2> QED BY <2>4, <2>5
  <1>8. ASSUME CopiesAnswer
        PROVE  CacheTyped' /\ Counted' /\ ControlTyped'
    <2>1. slot \in Slots /\ held \in Command /\ cache \in [Slots -> Entries]
      BY <1>0, <1>8 DEF CopiesAnswer, IInv, ControlTyped, CacheTyped
    <2>2. cache' = [cache EXCEPT ![slot].answer = answer]
          /\ UNCHANGED <<cacheNext, forgotten>>
      BY <1>8 DEF CopiesAnswer, CopyAnswer
    <2>3. /\ cache' \in [Slots -> Entries]
          /\ \A i \in Slots : cache'[i].command = cache[i].command
      BY <1>0, <2>1, <2>2 DEF Entries
    <2>4. CacheTyped' /\ Counted'
      BY <1>0, <2>2, <2>3, KeysStay DEF IInv
    <2>5. ControlTyped'
      BY <1>0, <1>8, <2>1 DEF CopiesAnswer, ControlTyped
    <2> QED BY <2>4, <2>5
  <1>9. ASSUME FormatsAnswer \/ EmitsAnswer
        PROVE  ControlTyped'
    BY <1>0, <1>9, Texts DEF FormatsAnswer, EmitsAnswer, ControlTyped
  <1> QED BY <1>1, <1>2, <1>3, <1>4, <1>5, <1>6, <1>7, <1>8, <1>9 DEF Control, IInv

-----------------------------------------------------------------------------
(* The theorems.                                                           *)

LEMMA InitIInv == Init => IInv
  <1> SUFFICES ASSUME Init PROVE IInv
    OBVIOUS
  <1>1. CacheTyped
    <2>1. Cleared \in Entries
      BY Texts DEF Cleared, Entry, Entries
    <2>2. 1 \in Slots
      BY ProtocolAssumption DEF Slots
    <2> QED BY <2>1, <2>2 DEF Init, ProtocolInit, CacheTyped
  <1>2. Counted
    BY DEF Init, ProtocolInit, Counted
  <1>3. ControlTyped
    BY Texts DEF Init, ControlTyped
  <1>4. IngressTyped
    <2>1. budget \in Budgets /\ dropping \in BOOLEAN
      BY Zenon DEF Init, IngressInit
    <2>2. wire = <<>> /\ ring = <<>> /\ frame = <<>>
      BY DEF Init, IngressInit
    <2>3. <<>> \in Seq(AnyByte)
      OBVIOUS
    <2> QED BY <2>1, <2>2, <2>3, Zenon DEF IngressTyped
  <1>5. Streamed
    <2>1. wire = <<>> /\ Stream = <<>> /\ frame = <<>>
      BY DEF Init, IngressInit, Stream
    <2> QED BY <2>1 DEF Streamed, Whole
  <1> QED BY <1>1, <1>2, <1>3, <1>4, <1>5 DEF IInv

LEMMA NextIInv == IInv /\ [Next]_vars => IInv'
  <1> SUFFICES ASSUME IInv, [Next]_vars PROVE IInv'
    OBVIOUS
  <1>1. CASE BeginsLine
    <2>1. UNCHANGED memoryVars
      BY <1>1 DEF BeginsLine, protocolVars, memoryVars
    <2> QED BY <1>1, <2>1, MemoryStays, LineKeeps DEF IInv
  <1>2. CASE BytesArrive
    <2>1. UNCHANGED memoryVars
      BY <1>2 DEF BytesArrive, protocolVars, memoryVars
    <2> QED BY <1>2, <2>1, MemoryStays, InterruptKeeps DEF IInv
  <1>3. CASE DeadlinePasses \/ UNCHANGED vars
    <2>1. UNCHANGED memoryVars /\ UNCHANGED <<hostVars, ingressVars>>
      BY <1>3 DEF DeadlinePasses, Expires, vars, protocolVars, memoryVars
    <2>2. IngressTyped' /\ Streamed'
      BY <2>1 DEF IInv, IngressTyped, Streamed, Stream, hostVars, ingressVars
    <2> QED BY <2>1, <2>2, MemoryStays DEF IInv
  <1> QED BY <1>1, <1>2, <1>3, ParserKeeps, ControlKeeps DEF Next

\* The invariant of the firmware holds, for every capacity of ring, frame,
\* queue and cache and whatever lines the host sends.
THEOREM FirmwareInductive == Spec => []IInv
  BY InitIInv, NextIInv, PTL DEF Spec

\* A frame that spells a command is one of the lines, unless bytes were lost.
LEMMA FrameIsLine ==
    ASSUME IngressTyped, Streamed, parser = "popping", NEW c \in ReadAs
    PROVE  Of(c) \in budget.lines \/ overflowed
  <1> SUFFICES ASSUME ~overflowed PROVE Of(c) \in budget.lines
    OBVIOUS
  <1>1. c \in Command /\ frame = <<HeadOf(c), TailOf(c)>> /\ Whole(budget.lines, Stream)
    BY DEF ReadAs, Streamed
  <1>2. Len(Stream) >= 2 /\ Stream[1] = HeadOf(c) /\ Stream[2] = TailOf(c)
        /\ Len(Stream) \in Nat
    BY <1>1 DEF Stream, IngressTyped
  <1>3. Pair(budget.lines, HeadOf(c), TailOf(c))
    BY <1>1, <1>2, Marks DEF Whole
  <1>4. PICK d \in Command : HeadOf(c) = HeadOf(d) /\ TailOf(c) = TailOf(d)
                             /\ Of(d) \in budget.lines
    BY <1>3 DEF Pair
  <1> QED BY <1>1, <1>4, Marks

\* No remembered command is queued again, and none that was not sent unless
\* bytes were lost under the parser's hands.
THEOREM QueuesNewLinesHolds == Spec => QueuesNewLines
  <1>1. IInv => (\A c \in ReadAs : Accepts(c) =>
                    /\ accepted[c.seq] <= forgotten[c.seq]
                    /\ Of(c) \in budget.lines \/ overflowed)
    <2> SUFFICES ASSUME IInv, NEW c \in ReadAs, Accepts(c)
                 PROVE  /\ accepted[c.seq] <= forgotten[c.seq]
                        /\ Of(c) \in budget.lines \/ overflowed
      OBVIOUS
    <2>1. c.seq \in Seqs
      BY CommandSeqs DEF ReadAs
    <2>2. Holding(c.seq) = {} /\ parser = "popping"
      BY DEF Accepts, IsNew, IsKnown, EndsFrame, Pops
    <2> QED BY <2>1, <2>2, FrameIsLine DEF IInv, Counted
  <1> QED BY <1>1, FirmwareInductive, PTL DEF QueuesNewLines

-----------------------------------------------------------------------------
(* The host that waits for each answer.  Until it has been answered, either  *)
(* its line is on the way to the parser and both tasks have finished with    *)
(* the lines before, or its command is in the hands of the control task and  *)
(* nothing else is on the way.                                               *)

LineEnd == {CR, LF}

Lines == {Of(c) : c \in Command} \cup {Junk, Blank}

\* What the parser has not popped yet.
Ahead == ring \o wire

HostTyped == line \in Lines /\ lost \in Nat

ToldTyped == told \in [Command -> Answers]

\* As long as no byte was dropped the parser has nothing to flush.
Lossless == lost = 0 => ~overflowed /\ parser # "flushing"

Fits == Len(frame) <= FrameCapacity

Patient == ~impatient /\ lost = 0

\* The line begun last is on its way, behind nothing but ends of lines.
Coming ==
    \/ /\ dropping
       /\ line = Junk
       /\ frame = <<>>
       /\ Ahead = <<LF>>
    \/ /\ ~dropping
       /\ frame = <<>>
       /\ \E b \in Seq(LineEnd) : Ahead = b \o Bytes(line)
    \/ /\ ~dropping
       /\ frame # <<>>
       /\ Stream = Bytes(line)

\* Nothing but ends of lines is on its way.
Silent == frame = <<>> /\ ~dropping /\ Ahead \in Seq(LineEnd)

\* What the slot holds is the first answer to its command.
Kept(i) ==
    cache[i].command.seq \in Seqs =>
        /\ cache[i].answered
        /\ cache[i].answer = told[cache[i].command]
        /\ cache[i].answer.seq = cache[i].command.seq

NoTwins ==
    \A i, j \in Slots :
        cache[i].command.seq \in Seqs /\ cache[i].command.seq = cache[j].command.seq
            => i = j

\* A command with an answer has a slot.
Remembered ==
    \A c \in Command : told[c] # Unwritten => \E i \in Slots : cache[i].command = c

AtRest ==
    /\ queue = <<>>
    /\ control = "waiting"
    /\ Remembered
    /\ \A i \in Slots : Kept(i)

\* The command is queued or executed, and every other slot is at rest.
InHand(c) ==
    /\ line = Of(c)
    /\ Remembered
    /\ told[c] = IF control \in {"formatting", "emitting"} THEN answer ELSE Unwritten
    /\ \/ control = "waiting" /\ queue = <<c>>
       \/ control \notin {"waiting", "clearing", "keying"} /\ queue = <<>> /\ held = c
    /\ \E i \in Slots :
          /\ cache[i].command = c
          /\ \A j \in Slots \ {i} : Kept(j)
          /\ control \in {"flagging", "copying"} => slot = i
          /\ control = "copying" => cache[i].answered
          /\ control \in {"formatting", "emitting"} => Kept(i)
    /\ control \notin {"waiting", "executing"} => answer.seq = c.seq
    /\ control = "emitting" => buffer = answer

AnswersLine ==
    /\ output.text = output.answer
    /\ output.answer.seq = IF line.kind = "command" THEN line.command.seq ELSE 1
    /\ line.kind = "command" => output.answer = AnswerDue(line.command)

Waits == asked /\ line # Blank /\ Coming /\ AtRest

Worked == asked /\ line # Blank /\ Silent /\ \E c \in Command : InHand(c)

Served == ~asked /\ Silent /\ AtRest /\ (line # Blank => AnswersLine)

Serving == Patient => NoTwins /\ (Waits \/ Worked \/ Served)

HostInv == HostTyped /\ ToldTyped /\ Lossless /\ Fits /\ Serving

-----------------------------------------------------------------------------
(* The bytes of the lines.                                                 *)

LEMMA CommandBytes ==
    ASSUME NEW c \in Command
    PROVE  /\ Bytes(Of(c)) = <<HeadOf(c), TailOf(c), LF>>
           /\ HeadOf(c) \notin LineEnd /\ TailOf(c) \notin LineEnd
           /\ Of(c) # Blank /\ Of(c) # Junk
           /\ Of(c).kind = "command" /\ Of(c).command = c
  BY DEF Bytes, Of, HeadOf, TailOf, LineEnd, CR, LF, Blank, Junk

LEMMA JunkBytes ==
    /\ Bytes(Junk) \in Seq(AnyByte)
    /\ Len(Bytes(Junk)) = FrameCapacity + 2
    /\ \A i \in 1 .. FrameCapacity + 1 : Bytes(Junk)[i] = <<"junk">>
    /\ Bytes(Junk)[FrameCapacity + 2] = LF
    /\ <<"junk">> \notin LineEnd
    /\ Junk # Blank /\ Junk.kind = "junk"
  <1> DEFINE junk == [i \in 1 .. FrameCapacity + 1 |-> <<"junk">>]
  <1>1. Bytes(Junk) = junk \o <<LF>>
    BY DEF Bytes, Junk
  <1>2. /\ junk \in Seq(AnyByte) /\ Len(junk) = FrameCapacity + 1
        /\ \A i \in 1 .. FrameCapacity + 1 : junk[i] = <<"junk">>
    BY IngressAssumption DEF AnyByte
  <1>3. <<LF>> \in Seq(AnyByte) /\ FrameCapacity \in Nat
    BY IngressAssumption DEF AnyByte
  <1> HIDE DEF junk
  <1>4. /\ Bytes(Junk) \in Seq(AnyByte)
        /\ Len(Bytes(Junk)) = FrameCapacity + 2
        /\ \A i \in 1 .. FrameCapacity + 1 : Bytes(Junk)[i] = <<"junk">>
        /\ Bytes(Junk)[FrameCapacity + 2] = LF
    BY <1>1, <1>2, <1>3
  <1>5. <<"junk">> \notin LineEnd /\ Junk # Blank /\ Junk.kind = "junk"
    BY DEF LineEnd, CR, LF, Junk, Blank
  <1> QED BY <1>4, <1>5

\* A line begins with no end of a line, ends in LF and has no other before it.
LEMMA LineBytes ==
    ASSUME NEW l \in Lines, l # Blank
    PROVE  /\ Bytes(l) \in Seq(AnyByte)
           /\ Len(Bytes(l)) > 1
           /\ \A i \in 1 .. Len(Bytes(l)) - 1 : Bytes(l)[i] \notin LineEnd
           /\ Bytes(l)[Len(Bytes(l))] = LF
  <1>1. CASE l = Junk
    <2>1. FrameCapacity \in Nat /\ Len(Bytes(l)) = FrameCapacity + 2
      BY <1>1, IngressAssumption, JunkBytes
    <2>2. ASSUME NEW i \in 1 .. Len(Bytes(l)) - 1
          PROVE  Bytes(l)[i] \notin LineEnd
      BY <1>1, <2>1, JunkBytes
    <2> QED BY <1>1, <2>1, <2>2, JunkBytes
  <1>2. CASE \E c \in Command : l = Of(c)
    <2>1. PICK c \in Command : l = Of(c)
      BY <1>2
    <2>2. /\ Bytes(l) = <<HeadOf(c), TailOf(c), LF>>
          /\ HeadOf(c) \notin LineEnd /\ TailOf(c) \notin LineEnd
      BY <2>1, CommandBytes
    <2>3. Len(Bytes(l)) = 3 /\ Bytes(l)[1] = HeadOf(c) /\ Bytes(l)[2] = TailOf(c)
          /\ Bytes(l)[3] = LF
      BY <2>2
    <2>4. Bytes(l) \in Seq(AnyByte)
      BY <2>2 DEF AnyByte
    <2>5. ASSUME NEW i \in 1 .. 2
          PROVE  Bytes(l)[i] \notin LineEnd
      <3>1. i = 1 \/ i = 2
        OBVIOUS
      <3> QED BY <3>1, <2>2, <2>3
    <2> QED BY <2>3, <2>4, <2>5
  <1> QED BY <1>1, <1>2 DEF Lines

-----------------------------------------------------------------------------
(* The way of the line through the parser.                                 *)

\* A pop takes the first byte of what is ahead.
LEMMA PopsAhead ==
    ASSUME IngressTyped, Pops, UNCHANGED wire
    PROVE  /\ Ahead \in Seq(AnyByte) /\ Ahead # <<>>
           /\ Head(Ahead) = Byte
           /\ Ahead' = Tail(Ahead)
           /\ frame \in Seq(AnyByte)
           /\ Stream = frame \o Ahead
           /\ Append(frame, Byte) \o Ahead' = Stream
  <1>1. Ahead' = Tail(ring) \o wire
    BY DEF Pops, Ahead
  <1>2. Append(frame, Byte) \o (Tail(ring) \o wire) = Stream
    BY MovesByte DEF IngressTyped, Pops, Byte, Stream
  <1>3. frame \in Seq(AnyByte)
    BY DEF IngressTyped
  <1> QED BY <1>1, <1>2, <1>3, Popped DEF Ahead, Stream

\* The byte that follows what is gathered.
LEMMA NextByte ==
    ASSUME NEW X, NEW a \in Seq(X), NEW b \in Seq(X), b # <<>>
    PROVE  /\ (a \o b)[Len(a) + 1] = Head(b)
           /\ Len(a) + 1 \in 1 .. Len(a \o b)
           /\ Len(a \o b) = Len(a) + Len(b)
           /\ Len(a) \in Nat /\ Len(b) \in Nat /\ Len(b) > 0
  OBVIOUS

LEMMA LastByte ==
    ASSUME NEW X, NEW a \in Seq(X), NEW b \in Seq(X),
           Len(b) <= 2, 2 <= Len(b)
    PROVE  Tail(b) = <<(a \o b)[Len(a) + 2]>>
  <1>1. (a \o b)[Len(a) + 2] = b[2]
    <2>1. /\ Len(a) \in Nat
          /\ Len(a) + 2 \in 1 .. Len(a) + Len(b)
          /\ ~(Len(a) + 2 <= Len(a))
          /\ (Len(a) + 2) - Len(a) = 2
      OBVIOUS
    <2>2. \A i \in 1 .. Len(a) + Len(b) :
              (a \o b)[i] = IF i <= Len(a) THEN a[i] ELSE b[i - Len(a)]
      BY ConcatProperties
    <2>3. (a \o b)[Len(a) + 2] = b[(Len(a) + 2) - Len(a)]
      BY <2>1, <2>2
    <2> QED BY <2>1, <2>3
  <1>2. Tail(b) = <<b[2]>>
    <2>1. b # <<>>
      OBVIOUS
    <2>2. /\ Tail(b) \in Seq(X) /\ Len(Tail(b)) = Len(b) - 1
          /\ \A i \in 1 .. Len(Tail(b)) : Tail(b)[i] = b[i + 1]
      BY <2>1, HeadTailProperties
    <2>3. b[2] \in X /\ Len(b) \in Nat
      OBVIOUS
    <2>4. <<b[2]>> \in Seq(X) /\ Len(<<b[2]>>) = Len(Tail(b))
      <3>1. <<b[2]>> \in Seq(X) /\ Len(<<b[2]>>) = 1
        BY <2>3
      <3>2. \A n \in Nat : n <= 2 /\ 2 <= n => n - 1 = 1
        OBVIOUS
      <3>3. Len(b) - 1 = 1
        BY <2>3, <3>2, Zenon
      <3> QED BY <2>2, <3>1, <3>3
    <2>5. ASSUME NEW i \in 1 .. Len(Tail(b))
          PROVE  Tail(b)[i] = <<b[2]>>[i]
      <3>1. i = 1
        BY <2>2, <2>3
      <3>2. Tail(b)[i] = b[i + 1]
        BY <2>2
      <3> QED BY <3>1, <3>2
    <2> QED BY <2>2, <2>4, <2>5, SeqEqual
  <1> QED BY <1>1, <1>2

LEMMA GathersSilent ==
    ASSUME IngressTyped, Gathers, UNCHANGED wire, Silent
    PROVE  Silent'
  <1>1. Pops /\ frame = <<>> /\ ~dropping /\ Ahead \in Seq(LineEnd)
    BY DEF Gathers, Silent
  <1>2. Ahead # <<>> /\ Head(Ahead) = Byte /\ Ahead' = Tail(Ahead)
    BY <1>1, PopsAhead
  <1>3. Byte \in {CR, LF} /\ Tail(Ahead) \in Seq(LineEnd)
    BY <1>1, <1>2 DEF LineEnd
  <1>4. frame' = frame /\ dropping' = dropping
    BY <1>1, <1>3 DEF Gathers, IngressTyped
  <1> QED BY <1>1, <1>2, <1>3, <1>4 DEF Silent

\* The parser gathers a line and drops one that is too long.
LEMMA GathersComing ==
    ASSUME IngressTyped, HostTyped, Fits, line # Blank, Gathers,
           UNCHANGED <<line, wire>>, Coming
    PROVE  Coming'
  <1> DEFINE bytes == Bytes(line)
  <1>1. Pops /\ wire' = wire
    BY DEF Gathers
  <1>2. /\ bytes \in Seq(AnyByte) /\ Len(bytes) > 1
        /\ \A i \in 1 .. Len(bytes) - 1 : bytes[i] \notin LineEnd
        /\ bytes[Len(bytes)] = LF
        /\ Bytes(line)' = bytes
    BY LineBytes DEF HostTyped
  <1> HIDE DEF bytes
  <1>3. FrameCapacity \in Nat /\ FrameCapacity >= 2
    BY IngressAssumption, RuntimeAssumption
  <1>7. /\ Ahead \in Seq(AnyByte) /\ frame \in Seq(AnyByte)
        /\ Ahead' = Tail(Ahead) /\ Stream = frame \o Ahead
    BY <1>1, PopsAhead
  <1>8. ASSUME frame' = Append(frame, Byte), Stream = bytes, ~dropping, dropping' = dropping
        PROVE  Coming'
    <2>1. Stream' = frame' \o Ahead'
      BY DEF Stream, Ahead
    <2>2. Append(frame, Byte) \o Ahead' = Stream
      BY <1>1, PopsAhead
    <2>3. Append(frame, Byte) # <<>>
      BY <1>7
    <2> QED BY <1>2, <1>8, <2>1, <2>2, <2>3 DEF Coming
  <1>4. CASE dropping
    <2>1. Ahead = <<LF>> /\ frame = <<>>
      BY <1>4 DEF Coming
    <2>2. Byte = LF
      BY <1>1, <2>1, PopsAhead
    <2> QED BY <1>4, <2>2 DEF Gathers
  <1>5. CASE ~dropping /\ frame = <<>>
    <2>1. PICK b \in Seq(LineEnd) : Ahead = b \o bytes
      BY <1>5 DEF Coming, bytes
    <2>2. CASE b = <<>>
      <3>1. Ahead = bytes
        BY <1>2, <2>1, <2>2
      <3>2. Byte = bytes[1]
        BY <1>1, <3>1, PopsAhead
      <3>3. Byte \notin LineEnd
        BY <1>2, <3>2
      <3>4. ~(Len(frame) >= FrameCapacity)
        BY <1>3, <1>5
      <3>5. frame' = Append(frame, Byte) /\ dropping' = dropping
        <4>1. Byte \notin {CR, LF}
          BY <3>3 DEF LineEnd
        <4> QED BY <1>5, <3>4, <4>1 DEF Gathers, IngressTyped
      <3>6. Stream = bytes
        BY <1>2, <1>5, <1>7, <3>1
      <3> QED BY <1>5, <1>8, <3>5, <3>6
    <2>3. CASE b # <<>>
      <3>1. Head(Ahead) = Head(b) /\ Tail(Ahead) = Tail(b) \o bytes
        BY <1>2, <2>1, <2>3
      <3>2. Head(b) \in LineEnd /\ Tail(b) \in Seq(LineEnd)
        BY <2>3
      <3>3. Byte \in {CR, LF} /\ Ahead' = Tail(b) \o bytes
        BY <1>1, <3>1, <3>2, PopsAhead DEF LineEnd
      <3>4. frame' = frame /\ dropping' = dropping
        BY <1>5, <3>3 DEF Gathers, IngressTyped
      <3> QED BY <1>2, <1>5, <3>2, <3>3, <3>4 DEF Coming
    <2> QED BY <2>2, <2>3
  <1>6. CASE ~dropping /\ frame # <<>>
    <2>1. frame \o Ahead = bytes
      BY <1>1, <1>6, PopsAhead DEF Coming, bytes
    <2>2. /\ Byte = bytes[Len(frame) + 1] /\ Len(bytes) = Len(frame) + Len(Ahead)
          /\ Len(frame) \in Nat /\ Len(frame) > 0 /\ Len(Ahead) \in Nat /\ Len(Ahead) > 0
      BY <1>1, <1>6, <2>1, PopsAhead, NextByte
    <2>3. Byte # LF
      BY <1>6 DEF Gathers
    <2>4. Len(frame) + 1 \in 1 .. Len(bytes) - 1
      BY <1>2, <2>2, <2>3
    <2>5. Byte \notin LineEnd
      BY <1>2, <2>2, <2>4
    <2>6. CASE Len(frame) < FrameCapacity
      <3>1. frame' = Append(frame, Byte) /\ dropping' = dropping
        BY <1>3, <1>6, <2>2, <2>5, <2>6 DEF Gathers, LineEnd, IngressTyped
      <3> QED BY <1>6, <1>7, <1>8, <2>1, <3>1
    <2>7. CASE ~(Len(frame) < FrameCapacity)
      <3>1. Len(frame) = FrameCapacity
        BY <1>3, <2>2, <2>7 DEF Fits
      <3>2. line = Junk
        <4>1. ASSUME NEW c \in Command, line = Of(c)
              PROVE  FALSE
          <5>1. Len(bytes) = 3
            BY <4>1, CommandBytes DEF bytes
          <5> QED BY <1>3, <2>4, <3>1, <5>1
        <4> QED BY <4>1 DEF HostTyped, Lines
      <3>3. Len(bytes) = FrameCapacity + 2
        BY <3>2, JunkBytes DEF bytes
      <3>4. Len(Ahead) <= 2 /\ 2 <= Len(Ahead)
        <4>1. Len(bytes) = Len(frame) + Len(Ahead)
          BY <2>2
        <4>2. Len(Ahead) \in Nat
          BY <1>7
        <4> HIDE DEF bytes
        <4> QED BY <1>3, <3>1, <3>3, <4>1, <4>2
      <3>5. Tail(Ahead) = <<bytes[Len(frame) + 2]>>
        BY <1>7, <2>1, <3>4, LastByte
      <3>6. Tail(Ahead) = <<LF>>
        BY <1>2, <3>1, <3>3, <3>5
      <3>7. frame' = <<>> /\ dropping' = TRUE
        <4>1. Byte \notin {CR, LF} /\ Len(frame) >= FrameCapacity
          BY <1>3, <2>5, <3>1 DEF LineEnd
        <4> QED BY <1>6, <4>1 DEF Gathers
      <3> QED BY <1>7, <3>2, <3>6, <3>7 DEF Coming
    <2> QED BY <2>6, <2>7
  <1> QED BY <1>4, <1>5, <1>6

LEMMA GathersFits ==
    ASSUME IngressTyped, Fits, Gathers
    PROVE  Fits'
  <1>1. FrameCapacity \in Nat /\ frame \in Seq(AnyByte) /\ Len(frame) \in Nat
    BY IngressAssumption DEF IngressTyped
  <1>2. \/ frame' = frame
        \/ frame' = <<>>
        \/ frame' = Append(frame, Byte) /\ ~(Len(frame) >= FrameCapacity)
    BY DEF Gathers
  <1> QED BY <1>1, <1>2 DEF Fits

\* What ends a line leaves nothing behind it.
LEMMA EndsSilent ==
    ASSUME IngressTyped, EndsFrame \/ EndsTooLong, UNCHANGED wire,
           Silent \/ Coming,
           frame \o Ahead = Bytes(line) \/ Ahead = <<LF>>,
           line \in Lines, line # Blank
    PROVE  Silent'
  <1>1. /\ Pops /\ Byte = LF /\ frame' = <<>> /\ dropping' = FALSE
    BY DEF EndsFrame, EndsTooLong, IngressTyped
  <1>2. /\ Ahead \in Seq(AnyByte) /\ frame \in Seq(AnyByte) /\ Ahead # <<>>
        /\ Ahead' = Tail(Ahead) /\ Head(Ahead) = Byte
    BY <1>1, PopsAhead
  <1>3. Tail(Ahead) = <<>>
    <2>1. CASE frame \o Ahead = Bytes(line)
      <3>1. /\ (frame \o Ahead)[Len(frame) + 1] = LF
            /\ Len(frame) + 1 \in 1 .. Len(frame \o Ahead)
            /\ Len(frame \o Ahead) = Len(frame) + Len(Ahead)
            /\ Len(frame) \in Nat /\ Len(Ahead) \in Nat
        BY <1>1, <1>2, NextByte
      <3>2. \A i \in 1 .. Len(frame \o Ahead) - 1 : (frame \o Ahead)[i] \notin LineEnd
        BY <2>1, LineBytes
      <3>3. Len(frame) + 1 \notin 1 .. Len(frame \o Ahead) - 1
        BY <3>1, <3>2 DEF LineEnd
      <3>4. Len(Ahead) <= 1
        BY <3>1, <3>3
      <3>5. Tail(Ahead) \in Seq(AnyByte) /\ Len(Tail(Ahead)) = Len(Ahead) - 1
        BY <1>2, HeadTailProperties
      <3> QED BY <3>1, <3>4, <3>5, EmptySeq
    <2>2. CASE Ahead = <<LF>>
      BY <2>2
    <2> QED BY <2>1, <2>2
  <1>4. <<>> \in Seq(LineEnd)
    OBVIOUS
  <1> QED BY <1>1, <1>2, <1>3, <1>4 DEF Silent

\* A frame is complete only for a command, and is read as this one.
LEMMA EndsCommand ==
    ASSUME IngressTyped, HostTyped, Fits, line # Blank, EndsFrame, UNCHANGED wire, Coming
    PROVE  /\ Silent'
           /\ \E c \in Command : line = Of(c) /\ ReadAs = {c}
  <1> DEFINE bytes == Bytes(line)
  <1>1. Pops /\ Byte = LF /\ ~dropping /\ frame # <<>>
    BY DEF EndsFrame
  <1>2. /\ Ahead \in Seq(AnyByte) /\ frame \in Seq(AnyByte) /\ Ahead # <<>>
        /\ Head(Ahead) = Byte /\ Stream = frame \o Ahead
    BY <1>1, PopsAhead
  <1>3. frame \o Ahead = bytes
    BY <1>1, <1>2 DEF Coming, bytes
  <1>4. Silent'
    BY <1>3, EndsSilent DEF HostTyped, bytes
  <1>5. /\ bytes[Len(frame) + 1] = LF /\ Len(frame) \in Nat
        /\ Len(frame) + 1 \in 1 .. Len(bytes)
        /\ \A i \in 1 .. Len(frame) : frame[i] = bytes[i]
    <2>1. (frame \o Ahead)[Len(frame) + 1] = Head(Ahead)
          /\ Len(frame) + 1 \in 1 .. Len(frame \o Ahead) /\ Len(frame) \in Nat
      BY <1>2, NextByte
    <2>2. \A i \in 1 .. Len(frame) : frame[i] = (frame \o Ahead)[i]
      BY <1>2
    <2> HIDE DEF bytes
    <2> QED BY <1>1, <1>2, <1>3, <2>1, <2>2
  <1>6. LF \in LineEnd
    BY DEF LineEnd
  <1>7. line # Junk
    <2>1. SUFFICES ASSUME line = Junk PROVE FALSE
      OBVIOUS
    <2>2. /\ \A i \in 1 .. FrameCapacity + 1 : bytes[i] \notin LineEnd
          /\ FrameCapacity \in Nat
      BY <2>1, JunkBytes, IngressAssumption DEF bytes
    <2>3. Len(frame) + 1 \in 1 .. FrameCapacity + 1
      BY <1>5, <2>2 DEF Fits
    <2> QED BY <1>5, <1>6, <2>2, <2>3
  <1>8. PICK c \in Command : line = Of(c)
    BY <1>7 DEF HostTyped, Lines
  <1>9. bytes = <<HeadOf(c), TailOf(c), LF>>
        /\ HeadOf(c) \notin LineEnd /\ TailOf(c) \notin LineEnd
    BY <1>8, CommandBytes DEF bytes
  <1> HIDE DEF bytes
  <1>10. Len(bytes) = 3 /\ bytes[1] = HeadOf(c) /\ bytes[2] = TailOf(c)
    BY <1>9
  <1>11. Len(frame) + 1 # 1 /\ Len(frame) + 1 # 2
    BY <1>5, <1>6, <1>9, <1>10
  <1>12. Len(frame) = 2
    <2>1. \A n \in Nat : n + 1 \in 1 .. 3 /\ n + 1 # 1 /\ n + 1 # 2 => n = 2
      OBVIOUS
    <2>2. Len(frame) + 1 \in 1 .. 3
      BY <1>5, <1>10, Zenon
    <2> QED BY <1>5, <1>11, <2>1, <2>2, Zenon
  <1>13. frame[1] = HeadOf(c) /\ frame[2] = TailOf(c)
    BY <1>5, <1>10, <1>12
  <1>14. frame = <<HeadOf(c), TailOf(c)>>
    BY <1>2, <1>12, <1>13
  <1>15. ReadAs = {c}
    <2>1. \A d \in Command : frame = <<HeadOf(d), TailOf(d)>> => d = c
      BY <1>14, Marks
    <2> QED BY <1>14, <2>1 DEF ReadAs
  <1> QED BY <1>4, <1>8, <1>15

LEMMA EndsJunk ==
    ASSUME IngressTyped, HostTyped, EndsTooLong, UNCHANGED wire, Coming
    PROVE  Silent' /\ line = Junk
  <1>1. line = Junk /\ Ahead = <<LF>>
    BY DEF Coming, EndsTooLong
  <1>2. Silent'
    BY <1>1, EndsSilent, JunkBytes DEF HostTyped
  <1> QED BY <1>1, <1>2

\* No frame ends while nothing but ends of lines arrives.
LEMMA SilentEndsNothing ==
    ASSUME Silent
    PROVE  ~EndsFrame /\ ~EndsTooLong
  BY DEF Silent, EndsFrame, EndsTooLong

\* Steps that move no byte.
LEMMA WayStays ==
    ASSUME UNCHANGED <<line, frame, dropping>>, (ring \o wire)' = ring \o wire
    PROVE  (Coming => Coming') /\ (Silent => Silent')
  <1>1. Ahead' = Ahead
    BY DEF Ahead
  <1>2. Stream = frame \o Ahead /\ Stream' = frame' \o Ahead'
    BY DEF Stream, Ahead
  <1>3. Bytes(line)' = Bytes(line)
    OBVIOUS
  <1> QED BY <1>1, <1>2, <1>3 DEF Coming, Silent

-----------------------------------------------------------------------------
(* The parser's steps and the host that waits.                             *)

LEMMA EmptyFits == Len(<<>>) <= FrameCapacity
  BY IngressAssumption

LEMMA EndsBasics ==
    ASSUME HostTyped, Lossless, EndsFrame \/ EndsTooLong \/ Flushes,
           UNCHANGED <<line, lost>>
    PROVE  HostTyped' /\ Lossless' /\ Fits'
  <1>1. frame' = <<>> /\ parser' = "stepping" /\ overflowed' = overflowed
    BY DEF EndsFrame, EndsTooLong, Flushes, Pops
  <1> QED BY <1>1, EmptyFits DEF HostTyped, Lossless, Fits

\* What the tasks share stays as it is.
LEMMA MemoryServes ==
    ASSUME UNCHANGED <<line, queue, controlVars, buffer, told, cache>>
    PROVE  /\ NoTwins => NoTwins'
           /\ AtRest => AtRest'
           /\ \A c \in Command : InHand(c) => InHand(c)'
  <1>1. (\A i : Kept(i)' = Kept(i)) /\ Remembered' = Remembered
    BY DEF Kept, Remembered
  <1> QED BY <1>1 DEF NoTwins, AtRest, InHand, controlVars

\* Another answer may have been given meanwhile.
LEMMA CacheServes ==
    ASSUME UNCHANGED <<queue, control, told, cache>>
    PROVE  /\ NoTwins => NoTwins'
           /\ AtRest => AtRest'
  <1>1. (\A i : Kept(i)' = Kept(i)) /\ Remembered' = Remembered
    BY DEF Kept, Remembered
  <1> QED BY <1>1 DEF NoTwins, AtRest

\* The parser's steps that answer nothing.
LEMMA LooksServe ==
    ASSUME IInv, HostInv, ParserWakes \/ ParserChecks \/ ParserSleeps \/ ParserGathers
    PROVE  HostInv'
  <1>1. /\ UNCHANGED <<hostVars, impatient, queue, controlVars, told, accepted, cache>>
        /\ UNCHANGED sinkVars
    BY DEF ParserWakes, ParserChecks, ParserSleeps, ParserGathers, ParserRests,
           protocolVars
  <1>2. UNCHANGED <<line, wire, lost, impatient, asked, buffer, output, told>>
    BY <1>1 DEF hostVars, sinkVars
  <1>3. HostTyped' /\ ToldTyped'
    BY <1>2 DEF HostInv, HostTyped, ToldTyped
  <1>4. Lossless'
    BY <1>2 DEF HostInv, Lossless, ParserWakes, ParserChecks, ParserSleeps,
                ParserGathers, Wakes, ChecksOverflow, Sleeps, Gathers, Pops
  <1>5. /\ Fits'
        /\ line # Blank /\ Coming => Coming'
        /\ Silent => Silent'
    <2>1. CASE ParserGathers
      BY <1>2, <2>1, GathersFits, GathersComing, GathersSilent
         DEF ParserGathers, IInv, HostInv
    <2>2. CASE ParserWakes \/ ParserChecks \/ ParserSleeps
      <3>1. UNCHANGED <<ring, frame, dropping>>
        BY <2>2 DEF ParserWakes, ParserChecks, ParserSleeps, Wakes, ChecksOverflow,
                    Sleeps
      <3>2. Fits'
        BY <3>1 DEF HostInv, Fits
      <3> QED BY <1>2, <3>1, <3>2, WayStays
    <2> QED BY <2>1, <2>2
  <1>6. Serving'
    <2>1. /\ NoTwins => NoTwins'
          /\ AtRest => AtRest'
          /\ \A c \in Command : InHand(c) => InHand(c)'
      BY <1>1, <1>2, MemoryServes
    <2>2. Waits => Waits'
      BY <1>2, <1>5, <2>1 DEF Waits
    <2>3. Worked => Worked'
      BY <1>2, <1>5, <2>1 DEF Worked
    <2>4. Served => Served'
      BY <1>2, <1>5, <2>1 DEF Served, AnswersLine, AnswerDue
    <2>5. Patient' = Patient
      BY <1>2 DEF Patient
    <2> QED BY <2>1, <2>2, <2>3, <2>4, <2>5 DEF HostInv, Serving
  <1> QED BY <1>3, <1>4, <1>5, <1>6 DEF HostInv

\* A line that ends while the host is patient is the one it waits for.
LEMMA EndsServing ==
    ASSUME IInv, HostInv, EndsFrame \/ EndsTooLong, UNCHANGED wire, Patient
    PROVE  Waits /\ NoTwins
  BY SilentEndsNothing DEF HostInv, Serving, Worked, Served

\* The parser answers the line and changes nothing else.
LEMMA AnswersServe ==
    ASSUME IInv, HostInv, EndsFrame \/ EndsTooLong, ParserRests,
           asked' = FALSE, Patient => Silent' /\ AnswersLine'
    PROVE  HostInv'
  <1>1. UNCHANGED <<line, wire, lost, impatient, queue, control, told, cache>>
    BY DEF ParserRests, hostVars, controlVars, protocolVars
  <1>2. HostTyped' /\ ToldTyped' /\ Lossless' /\ Fits'
    BY <1>1, EndsBasics DEF HostInv, ToldTyped
  <1>3. Serving'
    <2>1. SUFFICES ASSUME Patient' PROVE NoTwins' /\ Served'
      BY DEF Serving
    <2>2. Patient
      BY <1>1, <2>1 DEF Patient
    <2>3. Waits /\ NoTwins
      BY <1>1, <2>2, EndsServing
    <2>4. NoTwins' /\ AtRest'
      BY <1>1, <2>3, CacheServes DEF Waits
    <2> QED BY <2>2, <2>4 DEF Served
  <1> QED BY <1>2, <1>3 DEF HostInv

LEMMA TooLongServes ==
    ASSUME IInv, HostInv, ReportsTooLong
    PROVE  HostInv'
  <1> DEFINE obs == Observation(1, "frame_too_long")
  <1>1. EndsTooLong /\ ParserRests /\ asked' = FALSE
    BY DEF ReportsTooLong, Emit
  <1>2. output' = [answer |-> obs, text |-> obs] /\ obs.seq = 1
    BY DEF ReportsTooLong, Emit, Observation
  <1> HIDE DEF obs
  <1>3. UNCHANGED <<line, wire>>
    BY <1>1 DEF ParserRests, hostVars
  <1>4. ASSUME Patient
        PROVE  Silent' /\ AnswersLine'
    <2>1. Waits
      BY <1>1, <1>3, <1>4, EndsServing
    <2>2. Silent' /\ line = Junk
      BY <1>1, <1>3, <2>1, EndsJunk DEF Waits, IInv, HostInv
    <2>3. line'.kind # "command"
      BY <1>3, <2>2, JunkBytes
    <2> QED BY <1>2, <2>2, <2>3 DEF AnswersLine
  <1> QED BY <1>1, <1>4, AnswersServe

\* The frame that ends is the command the host waits for.
LEMMA FrameServing ==
    ASSUME IInv, HostInv, EndsFrame, UNCHANGED <<line, wire>>, Patient
    PROVE  /\ Waits /\ NoTwins /\ Silent'
           /\ ReadAs # {}
           /\ \A c \in ReadAs :
                  /\ c \in Command /\ line = Of(c) /\ line' = Of(c)
                  /\ Of(c).kind = "command" /\ Of(c).command = c /\ Of(c) # Blank
  <1>1. Waits /\ NoTwins
    BY EndsServing
  <1>2. /\ Silent'
        /\ \E c \in Command : line = Of(c) /\ ReadAs = {c}
    BY <1>1, EndsCommand DEF Waits, IInv, HostInv
  <1> QED BY <1>1, <1>2, CommandBytes

LEMMA RefusalServes ==
    ASSUME IInv, HostInv, RefusesFrame
    PROVE  HostInv'
  <1>1. EndsFrame /\ ReadAs = {} /\ ParserRests /\ asked' = FALSE
    BY DEF RefusesFrame, Emit
  <1>2. ~Patient
    BY <1>1, FrameServing DEF ParserRests, hostVars
  <1> QED BY <1>1, <1>2, AnswersServe

\* A command that is known is found in a slot that keeps its answer, or has no
\* answer and the slot is another's.
LEMMA KnownKept ==
    ASSUME AtRest, NoTwins, CacheTyped, ToldTyped, NEW c \in Command, IsKnown(c)
    PROVE  /\ Known(c).answered
           /\ Known(c).command = c => /\ Known(c).answer = told[c]
                                      /\ Known(c).answer.seq = c.seq
                                      /\ told[c] # Unwritten
           /\ Known(c).command # c => told[c] = Unwritten
  <1> DEFINE i == FindCache(c.seq)
  <1>1. i \in Slots /\ i \in Holding(c.seq) /\ Known(c) = cache[i]
    BY FindCacheIn DEF IsKnown, Known
  <1> HIDE DEF i
  <1>2. cache[i].command.seq = c.seq /\ c.seq \in Seqs
    BY <1>1, CommandSeqs DEF Holding
  <1>3. Kept(i)
    BY <1>1 DEF AtRest
  <1>4. /\ cache[i].answered
        /\ cache[i].answer = told[cache[i].command]
        /\ cache[i].answer.seq = c.seq
    BY <1>2, <1>3 DEF Kept
  <1>5. Unwritten.seq # c.seq
    BY <1>2, ProtocolAssumption DEF Unwritten, Observation
  <1>6. ASSUME told[c] # Unwritten
        PROVE  cache[i].command = c
    <2>1. PICK j \in Slots : cache[j].command = c
      BY <1>6 DEF AtRest, Remembered
    <2>2. i = j
      BY <1>1, <1>2, <2>1 DEF NoTwins
    <2> QED BY <2>1, <2>2
  <1> QED BY <1>1, <1>4, <1>5, <1>6

LEMMA ConflictServes ==
    ASSUME IInv, HostInv, NEW c \in ReadAs, RefusesConflict(c)
    PROVE  HostInv'
  <1> DEFINE obs == Observation(c.seq, "duplicate_conflict")
  <1>1. EndsFrame /\ ParserRests /\ asked' = FALSE
    BY DEF RefusesConflict, Emit
  <1>2. output' = [answer |-> obs, text |-> obs] /\ obs.seq = c.seq
    BY DEF RefusesConflict, Emit, Observation
  <1>3. ASSUME Patient
        PROVE  Silent' /\ AnswersLine'
    <2>1. /\ Silent' /\ line' = Of(c) /\ Of(c).kind = "command" /\ Of(c).command = c
          /\ c \in Command /\ AtRest /\ NoTwins
      BY <1>1, <1>3, FrameServing DEF ParserRests, hostVars, Waits
    <2>2. told' = told /\ told[c] = Unwritten
      BY <1>1, <2>1, KnownKept
         DEF RefusesConflict, Conflicts, ParserRests, IInv, HostInv
    <2>3. AnswerDue(c)' = obs
      BY <2>2 DEF AnswerDue
    <2> HIDE DEF obs
    <2> QED BY <1>2, <2>1, <2>3 DEF AnswersLine
  <1> HIDE DEF obs
  <1> QED BY <1>1, <1>3, AnswersServe

LEMMA RepliesServe ==
    ASSUME IInv, HostInv, NEW c \in ReadAs, Replies(c)
    PROVE  HostInv'
  <1> DEFINE obs == Known(c).answer
  <1>1. /\ EndsFrame /\ ParserRests /\ asked' = FALSE /\ IsKnown(c)
        /\ Known(c).command = c
    BY DEF Replies, Emit, Replays
  <1>2. output' = [answer |-> obs, text |-> obs]
    BY DEF Replies, Emit
  <1>3. told' = told
    BY <1>1 DEF ParserRests
  <1>4. ASSUME Patient
        PROVE  Silent' /\ AnswersLine'
    <2>1. /\ Silent' /\ line' = Of(c) /\ Of(c).kind = "command" /\ Of(c).command = c
          /\ c \in Command /\ AtRest /\ NoTwins
      BY <1>1, <1>4, FrameServing DEF ParserRests, hostVars, Waits
    <2>2. obs = told[c] /\ obs.seq = c.seq /\ told[c] # Unwritten
      BY <1>1, <2>1, KnownKept DEF IInv, HostInv
    <2> HIDE DEF obs
    <2>3. AnswerDue(c)' = obs
      BY <1>3, <2>2 DEF AnswerDue
    <2> QED BY <1>2, <2>1, <2>2, <2>3 DEF AnswersLine
  <1> HIDE DEF obs
  <1> QED BY <1>1, <1>4, AnswersServe

\* What is pending is not asked for twice, and the queue is not full.
LEMMA PendingServes ==
    ASSUME IInv, HostInv, NEW c \in ReadAs, IgnoresPending(c) \/ FindsQueueFull(c)
    PROVE  HostInv'
  <1>1. EndsFrame /\ ParserRests
    BY DEF IgnoresPending, FindsQueueFull
  <1>2. UNCHANGED <<line, wire, lost, impatient>>
    BY <1>1 DEF ParserRests, hostVars
  <1>3. HostTyped' /\ ToldTyped' /\ Lossless' /\ Fits'
    BY <1>1, <1>2, EndsBasics DEF HostInv, ToldTyped, ParserRests
  <1>4. ~Patient
    <2>1. SUFFICES ASSUME Patient PROVE FALSE
      OBVIOUS
    <2>2. AtRest /\ NoTwins /\ c \in Command
      BY <1>1, <1>2, <2>1, FrameServing DEF Waits
    <2>3. CASE IgnoresPending(c)
      BY <2>2, <2>3, KnownKept DEF IgnoresPending, IsPending, IInv, HostInv
    <2>4. CASE FindsQueueFull(c)
      <3>1. Len(<<>>) = QueueLength
        BY <2>2, <2>4 DEF AtRest, FindsQueueFull
      <3> QED BY <3>1, RuntimeAssumption
    <2> QED BY <2>3, <2>4
  <1>5. ~Patient'
    BY <1>2, <1>4 DEF Patient
  <1> QED BY <1>3, <1>5 DEF HostInv, Serving

\* A slot gets the entry of a seq that no other holds.
LEMMA NotesApart ==
    ASSUME CacheTyped, NoTwins, NEW c \in Command, Holding(c.seq) = {},
           NEW entry \in Entries, entry.command = c, Note(entry)
    PROVE  /\ NoTwins'
           /\ cacheNext \in Slots /\ cache'[cacheNext] = entry
           /\ \A i \in Slots \ {cacheNext} : cache'[i] = cache[i]
           /\ \A i \in Slots : cache[i].command.seq # c.seq
  <1>1. /\ cacheNext \in Slots /\ cache'[cacheNext] = entry
        /\ \A i \in Slots \ {cacheNext} : cache'[i] = cache[i]
    BY DEF CacheTyped, Note
  <1>2. \A i \in Slots : cache[i].command.seq # c.seq
    BY DEF Holding
  <1>3. ASSUME NEW i \in Slots, NEW j \in Slots, cache'[i].command.seq \in Seqs,
               cache'[i].command.seq = cache'[j].command.seq
        PROVE  i = j
    BY <1>1, <1>2, <1>3 DEF NoTwins
  <1> QED BY <1>1, <1>2, <1>3 DEF NoTwins

\* With a slot goes the answer to the command it held and no other.
LEMMA ForgetsSlot ==
    ASSUME CacheTyped, ToldTyped, NoTwins, Remembered, NEW n \in Slots
    PROVE  /\ \A c \in Command : Untold(n)[c] # Unwritten =>
                  \E i \in Slots \ {n} : cache[i].command = c
           /\ \A i \in Slots \ {n} : cache[i].command.seq \in Seqs =>
                  /\ cache[i].command \in Command
                  /\ Untold(n)[cache[i].command] = told[cache[i].command]
  <1>1. \A c \in Command :
            Untold(n)[c] = IF cache[n].command = c THEN Unwritten ELSE told[c]
    BY DEF Untold
  <1>2. ASSUME NEW c \in Command, Untold(n)[c] # Unwritten
        PROVE  \E i \in Slots \ {n} : cache[i].command = c
    <2>1. told[c] # Unwritten /\ cache[n].command # c
      BY <1>1, <1>2
    <2> QED BY <2>1 DEF Remembered
  <1>3. ASSUME NEW i \in Slots \ {n}, cache[i].command.seq \in Seqs
        PROVE  /\ cache[i].command \in Command
               /\ Untold(n)[cache[i].command] = told[cache[i].command]
    <2>1. cache[i].command \in Command
      BY <1>3, CommandSeqs DEF CacheTyped
    <2>2. cache[n].command # cache[i].command
      BY <1>3 DEF NoTwins
    <2> QED BY <1>1, <2>1, <2>2
  <1> QED BY <1>2, <1>3

LEMMA UntoldTyped ==
    ASSUME ToldTyped
    PROVE  \A n : Untold(n) \in [Command -> Answers]
  BY Texts DEF ToldTyped, Untold

LEMMA LateServes ==
    ASSUME IInv, HostInv, NEW c \in ReadAs, Refuses(c)
    PROVE  HostInv'
  <1> DEFINE obs == Observation(c.seq, IF IsLate(c) THEN "deadline_expired"
                                                    ELSE "stale_sequence")
             entry == Entry(c, TRUE, obs)
  <1>1. /\ EndsFrame /\ Note(entry) /\ Holding(c.seq) = {}
        /\ told' = [Untold(cacheNext) EXCEPT ![c] = obs]
        /\ output' = [answer |-> obs, text |-> obs]
        /\ asked' = FALSE
        /\ UNCHANGED <<line, wire, lost, impatient, queue, control>>
    BY DEF Refuses, RememberAnswer, Emit, IsLate, IsStale, IsKnown, hostVars, controlVars
  <1>2. obs \in Answers /\ obs.seq = c.seq /\ c \in Command
    BY Texts DEF Codes, ReadAs, Observation
  <1> HIDE DEF obs
  <1>3. /\ entry \in Entries /\ entry.command = c /\ entry.answered /\ entry.answer = obs
    BY <1>2 DEF Entry, Entries
  <1> HIDE DEF entry
  <1>4. HostTyped' /\ ToldTyped' /\ Lossless' /\ Fits'
    <2>1. Untold(cacheNext) \in [Command -> Answers]
      BY UntoldTyped DEF HostInv
    <2>2. ToldTyped'
      BY <1>1, <1>2, <2>1 DEF ToldTyped
    <2> QED BY <1>1, <2>2, EndsBasics DEF HostInv
  <1>5. Serving'
    <2>1. SUFFICES ASSUME Patient' PROVE NoTwins' /\ Served'
      BY DEF Serving
    <2>2. Patient
      BY <1>1, <2>1 DEF Patient
    <2>3. /\ Waits /\ NoTwins /\ Silent'
          /\ line' = Of(c) /\ Of(c).kind = "command" /\ Of(c).command = c
      BY <1>1, <2>2, FrameServing
    <2>4. /\ NoTwins' /\ cache'[cacheNext] = entry
          /\ \A i \in Slots \ {cacheNext} : cache'[i] = cache[i]
          /\ \A i \in Slots : cache[i].command.seq # c.seq
          /\ cacheNext \in Slots
      BY <1>1, <1>2, <1>3, <2>3, NotesApart DEF IInv
    <2> DEFINE left == Untold(cacheNext)
    <2>5. left \in [Command -> Answers]
      BY UntoldTyped DEF HostInv
    <2>6. /\ \A d \in Command : left[d] # Unwritten =>
                 \E i \in Slots \ {cacheNext} : cache[i].command = d
          /\ \A i \in Slots \ {cacheNext} : cache[i].command.seq \in Seqs =>
                 /\ cache[i].command \in Command
                 /\ left[cache[i].command] = told[cache[i].command]
      BY <2>3, <2>4, ForgetsSlot DEF IInv, HostInv, Waits, AtRest
    <2> HIDE DEF left
    <2>7. told'[c] = obs /\ \A d \in Command \ {c} : told'[d] = left[d]
      BY <1>1, <1>2, <2>5 DEF left
    <2>8. ASSUME NEW i \in Slots
          PROVE  Kept(i)'
      <3>1. CASE i = cacheNext
        BY <1>2, <1>3, <2>4, <2>7, <3>1 DEF Kept
      <3>2. CASE i # cacheNext
        <4>1. cache'[i] = cache[i] /\ cache[i].command # c /\ Kept(i)
          BY <2>3, <2>4, <3>2 DEF Waits, AtRest
        <4> QED BY <2>6, <2>7, <3>2, <4>1 DEF Kept
      <3> QED BY <3>1, <3>2
    <2>9. Remembered'
      <3>1. ASSUME NEW d \in Command, told'[d] # Unwritten
            PROVE  \E i \in Slots : cache'[i].command = d
        <4>1. CASE d = c
          BY <1>3, <2>4, <4>1
        <4>2. CASE d # c
          BY <2>4, <2>6, <2>7, <3>1, <4>2
        <4> QED BY <4>1, <4>2
      <3> QED BY <3>1 DEF Remembered
    <2>10. AtRest'
      BY <1>1, <2>3, <2>8, <2>9 DEF Waits, AtRest
    <2>11. AnswersLine'
      <3>1. obs # Unwritten
        BY <1>2, CommandSeqs, ProtocolAssumption DEF Unwritten, Observation
      <3>2. AnswerDue(c)' = obs
        BY <2>7, <3>1 DEF AnswerDue
      <3> QED BY <1>1, <1>2, <2>3, <3>2 DEF AnswersLine
    <2> QED BY <1>1, <2>3, <2>4, <2>10, <2>11 DEF Served
  <1> QED BY <1>4, <1>5 DEF HostInv

LEMMA AcceptanceServes ==
    ASSUME IInv, HostInv, NEW c \in ReadAs, Accepts(c)
    PROVE  HostInv'
  <1> DEFINE entry == Entry(c, FALSE, Unwritten)
  <1>1. /\ EndsFrame /\ Note(entry) /\ Holding(c.seq) = {}
        /\ queue' = Append(queue, c)
        /\ told' = Untold(cacheNext)
        /\ UNCHANGED <<line, wire, lost, impatient, control, asked>>
    BY DEF Accepts, RememberPending, IsNew, IsKnown, hostVars, controlVars, sinkVars
  <1>2. c \in Command
    BY DEF ReadAs
  <1>3. entry \in Entries /\ entry.command = c
    BY <1>2, Texts DEF Entry, Entries
  <1> HIDE DEF entry
  <1>4. HostTyped' /\ ToldTyped' /\ Lossless' /\ Fits'
    BY <1>1, EndsBasics, UntoldTyped DEF HostInv, ToldTyped
  <1>5. Serving'
    <2>1. SUFFICES ASSUME Patient' PROVE NoTwins' /\ Worked'
      BY DEF Serving
    <2>2. Patient
      BY <1>1, <2>1 DEF Patient
    <2>3. Waits /\ NoTwins /\ Silent' /\ line' = Of(c)
      BY <1>1, <2>2, FrameServing
    <2>4. /\ NoTwins' /\ cacheNext \in Slots /\ cache'[cacheNext] = entry
          /\ \A i \in Slots \ {cacheNext} : cache'[i] = cache[i]
          /\ \A i \in Slots : cache[i].command.seq # c.seq
      BY <1>1, <1>2, <1>3, <2>3, NotesApart DEF IInv
    <2>5. /\ \A d \in Command : told'[d] # Unwritten =>
                 \E i \in Slots \ {cacheNext} : cache[i].command = d
          /\ \A i \in Slots \ {cacheNext} : cache[i].command.seq \in Seqs =>
                 /\ cache[i].command \in Command
                 /\ told'[cache[i].command] = told[cache[i].command]
      BY <1>1, <2>3, <2>4, ForgetsSlot DEF IInv, HostInv, Waits, AtRest
    <2>6. ASSUME NEW i \in Slots \ {cacheNext}
          PROVE  Kept(i)'
      <3>1. Kept(i) /\ cache'[i] = cache[i]
        BY <2>3, <2>4 DEF Waits, AtRest
      <3> QED BY <2>5, <3>1 DEF Kept
    <2>7. Remembered' /\ told'[c] = Unwritten
      BY <1>2, <2>4, <2>5 DEF Remembered
    <2>8. control' = "waiting" /\ queue' = <<c>>
      BY <1>1, <2>3 DEF Waits, AtRest
    <2>9. cache'[cacheNext].command = c
      BY <1>3, <2>4
    <2>10. InHand(c)'
      BY <2>3, <2>4, <2>6, <2>7, <2>8, <2>9 DEF InHand
    <2> QED BY <1>1, <1>2, <2>3, <2>4, <2>10 DEF Waits, Worked
  <1> QED BY <1>4, <1>5 DEF HostInv

LEMMA FlushServes ==
    ASSUME IInv, HostInv, ReportsOverflow
    PROVE  HostInv'
  <1>1. Flushes /\ UNCHANGED <<line, lost, told>>
    BY DEF ReportsOverflow, ParserRests, hostVars
  <1>2. lost # 0
    BY <1>1 DEF HostInv, Lossless, Flushes
  <1>3. HostTyped' /\ ToldTyped' /\ Lossless' /\ Fits'
    BY <1>1, EndsBasics DEF HostInv, ToldTyped
  <1> QED BY <1>1, <1>2, <1>3 DEF HostInv, Serving, Patient

LEMMA ParserServes ==
    ASSUME IInv, HostInv, Parser
    PROVE  HostInv'
  BY LooksServe, FlushServes, TooLongServes, RefusalServes, ConflictServes,
     RepliesServe, PendingServes, LateServes, AcceptanceServes DEF Parser, Handles

-----------------------------------------------------------------------------
(* The control task, the host and the interrupt.                           *)

\* The control task works only on the command that the host waits for.
LEMMA ControlServing ==
    ASSUME IInv, HostInv, Control, Patient
    PROVE  Worked /\ NoTwins
  <1>1. control # "waiting" \/ queue # <<>>
    BY DEF Control, ControlStep, TakesCommand, Executes, ClearsSlot, KeysSlot, FlagsSlot,
           CopiesAnswer, FormatsAnswer, EmitsAnswer
  <1> QED BY <1>1 DEF HostInv, Serving, Waits, Served, AtRest

\* It touches neither the bytes nor the line.
LEMMA ControlBasics ==
    ASSUME IInv, HostInv, Control
    PROVE  /\ UNCHANGED <<line, lost, impatient>>
           /\ HostTyped' /\ ToldTyped' /\ Lossless' /\ Fits'
           /\ Silent => Silent'
           /\ Patient' => Patient /\ Worked /\ NoTwins
  <1>1. /\ UNCHANGED <<line, wire, lost, impatient, ring, frame, dropping, overflowed,
                       parser>>
    BY DEF Control, ControlStep, TakesCommand, Executes, ClearsSlot, KeysSlot, FlagsSlot,
           CopiesAnswer, FormatsAnswer, EmitsAnswer, hostVars, ingressVars
  <1>2. \/ told' = told
        \/ \E n : told' = Untold(n)
        \/ told' = [told EXCEPT ![held] = IF @ = Unwritten THEN answer ELSE @]
    BY DEF Control, ControlStep, TakesCommand, Executes, ClearsSlot, KeysSlot, FlagsSlot,
           CopiesAnswer, FormatsAnswer, EmitsAnswer, protocolVars
  <1>3. ToldTyped'
    BY <1>2, UntoldTyped DEF IInv, ControlTyped, HostInv, ToldTyped
  <1>4. HostTyped' /\ Lossless' /\ Fits'
    BY <1>1 DEF HostInv, HostTyped, Lossless, Fits
  <1>5. Patient' = Patient
    BY <1>1 DEF Patient
  <1> QED BY <1>1, <1>3, <1>4, <1>5, ControlServing, WayStays

\* A step by which the control task goes on with its command.
LEMMA WorksOn ==
    ASSUME IInv, HostInv, Control, asked' = asked,
           ASSUME NEW c \in Command, InHand(c), NoTwins
           PROVE  NoTwins' /\ InHand(c)'
    PROVE  HostInv'
  <1>1. /\ line' = line
        /\ HostTyped' /\ ToldTyped' /\ Lossless' /\ Fits'
        /\ Silent => Silent'
        /\ Patient' => Patient /\ Worked /\ NoTwins
    BY ControlBasics
  <1>2. ASSUME Patient'
        PROVE  NoTwins' /\ Worked'
    <2>1. Worked /\ NoTwins
      BY <1>1, <1>2
    <2>2. PICK c \in Command : InHand(c)
      BY <2>1 DEF Worked
    <2>3. NoTwins' /\ InHand(c)'
      BY <2>1, <2>2
    <2> QED BY <1>1, <2>1, <2>3 DEF Worked
  <1> QED BY <1>1, <1>2 DEF HostInv, Serving

LEMMA TakesServe ==
    ASSUME IInv, HostInv, TakesCommand
    PROVE  HostInv'
  <1>1. /\ queue # <<>> /\ control = "waiting" /\ control' = "executing"
        /\ held' = Head(queue) /\ queue' = Tail(queue)
        /\ UNCHANGED <<line, asked, cache, told>>
    BY DEF TakesCommand, ControlStep, hostVars, sinkVars, protocolVars
  <1>2. (\A i : Kept(i)' = Kept(i)) /\ Remembered' = Remembered
    BY <1>1 DEF Kept, Remembered
  <1>3. ASSUME NEW c \in Command, InHand(c), NoTwins
        PROVE  NoTwins' /\ InHand(c)'
    <2>1. queue = <<c>>
      BY <1>1, <1>3 DEF InHand
    <2>2. queue' = <<>> /\ held' = c
      BY <1>1, <2>1
    <2> QED BY <1>1, <1>2, <1>3, <2>2 DEF NoTwins, InHand
  <1> QED BY <1>1, <1>3, WorksOn DEF Control

LEMMA ExecutesServe ==
    ASSUME IInv, HostInv, Executes
    PROVE  HostInv'
  <1>1. /\ control = "executing"
        /\ control' = IF IsKnown(held) THEN "flagging" ELSE "clearing"
        /\ IsKnown(held) => slot' = FindCache(held.seq)
        /\ answer' = Observation(held.seq, Verdict(held))
        /\ UNCHANGED <<line, asked, cache, told, queue, held>>
    BY DEF Executes, ControlStep, hostVars, sinkVars
  <1>2. (\A i : Kept(i)' = Kept(i)) /\ Remembered' = Remembered
    BY <1>1 DEF Kept, Remembered
  <1>3. ASSUME NEW c \in Command, InHand(c), NoTwins
        PROVE  NoTwins' /\ InHand(c)'
    <2>1. held = c /\ queue = <<>> /\ line = Of(c)
      BY <1>1, <1>3 DEF InHand
    <2>2. PICK i \in Slots : /\ cache[i].command = c
                             /\ \A j \in Slots \ {i} : Kept(j)
      BY <1>3 DEF InHand
    <2>3. IsKnown(c)
      BY <2>2 DEF IsKnown, Holding
    <2>4. FindCache(c.seq) \in Slots /\ cache[FindCache(c.seq)].command.seq = c.seq
      BY <2>3, FindCacheIn DEF IsKnown, Holding
    <2>5. FindCache(c.seq) = i
      BY <1>3, <2>2, <2>4, CommandSeqs DEF NoTwins
    <2>6. control' = "flagging" /\ slot' = i /\ answer'.seq = c.seq
      BY <1>1, <2>1, <2>3, <2>5 DEF Observation
    <2> QED BY <1>1, <1>2, <1>3, <2>1, <2>2, <2>6 DEF NoTwins, InHand
  <1> QED BY <1>1, <1>3, WorksOn DEF Control

LEMMA FlagsServe ==
    ASSUME IInv, HostInv, FlagsSlot
    PROVE  HostInv'
  <1>1. /\ control = "flagging" /\ control' = "copying"
        /\ cache' = [cache EXCEPT ![slot].answered = TRUE, ![slot].answer = Torn]
        /\ UNCHANGED <<line, asked, told, queue, held, answer, slot>>
    BY DEF FlagsSlot, FlagSlot, ControlStep, hostVars, sinkVars
  <1>2. slot \in Slots /\ cache \in [Slots -> Entries]
    BY <1>1 DEF IInv, CacheTyped, ControlTyped
  <1>3. /\ \A i \in Slots : cache'[i].command = cache[i].command
        /\ cache'[slot].answered
        /\ \A i \in Slots \ {slot} : cache'[i] = cache[i]
    BY <1>1, <1>2 DEF Entries
  <1>4. \A i \in Slots \ {slot} : Kept(i)' = Kept(i)
    BY <1>1, <1>3 DEF Kept
  <1>5. Remembered => Remembered'
    BY <1>1, <1>3 DEF Remembered
  <1>6. ASSUME NEW c \in Command, InHand(c), NoTwins
        PROVE  NoTwins' /\ InHand(c)'
    <2>1. /\ held = c /\ queue = <<>> /\ line = Of(c) /\ answer.seq = c.seq
          /\ cache[slot].command = c
          /\ \A j \in Slots \ {slot} : Kept(j)
      BY <1>1, <1>6 DEF InHand
    <2>2. NoTwins'
      BY <1>3, <1>6 DEF NoTwins
    <2>3. cache'[slot].command = c /\ \A j \in Slots \ {slot} : Kept(j)'
      BY <1>2, <1>3, <1>4, <2>1
    <2>4. told'[c] = Unwritten /\ Remembered'
      BY <1>1, <1>6, <1>5 DEF InHand
    <2> QED BY <1>1, <1>2, <1>3, <2>1, <2>2, <2>3, <2>4 DEF InHand
  <1> QED BY <1>1, <1>6, WorksOn DEF Control

LEMMA CopiesServe ==
    ASSUME IInv, HostInv, CopiesAnswer
    PROVE  HostInv'
  <1>1. /\ control = "copying" /\ control' = "formatting"
        /\ cache' = [cache EXCEPT ![slot].answer = answer]
        /\ told' = [told EXCEPT ![held] = IF @ = Unwritten THEN answer ELSE @]
        /\ UNCHANGED <<line, asked, queue, held, answer, slot>>
    BY DEF CopiesAnswer, CopyAnswer, ControlStep, hostVars, sinkVars
  <1>2. slot \in Slots /\ cache \in [Slots -> Entries] /\ told \in [Command -> Answers]
    BY <1>1 DEF IInv, CacheTyped, ControlTyped, HostInv, ToldTyped
  <1>3. /\ \A i \in Slots : cache'[i].command = cache[i].command
        /\ cache'[slot].answered = cache[slot].answered
        /\ cache'[slot].answer = answer
        /\ \A i \in Slots \ {slot} : cache'[i] = cache[i]
    BY <1>1, <1>2 DEF Entries
  <1>4. ASSUME NEW c \in Command, InHand(c), NoTwins
        PROVE  NoTwins' /\ InHand(c)'
    <2>1. /\ held = c /\ queue = <<>> /\ line = Of(c) /\ answer.seq = c.seq
          /\ cache[slot].command = c /\ cache[slot].answered
          /\ told[c] = Unwritten /\ Remembered
          /\ \A j \in Slots \ {slot} : Kept(j)
      BY <1>1, <1>4 DEF InHand
    <2>2. c.seq \in Seqs
      BY CommandSeqs
    <2>3. NoTwins'
      BY <1>3, <1>4 DEF NoTwins
    <2>4. told'[c] = answer /\ \A d \in Command \ {c} : told'[d] = told[d]
      BY <1>1, <1>2, <2>1, <2>2
    <2>5. Kept(slot)'
      BY <1>1, <1>2, <1>3, <2>1, <2>4 DEF Kept
    <2>6. ASSUME NEW j \in Slots, j # slot'
          PROVE  Kept(j)'
      <3>1. Kept(j) /\ cache'[j] = cache[j]
        BY <1>1, <1>3, <2>1, <2>6
      <3>2. cache[j].command.seq \in Seqs =>
                cache[j].command # c /\ cache[j].command \in Command
        <4>1. cache[j] \in Entries
          BY <1>2
        <4>2. cache[j].command.seq \in Seqs => cache[j].command.seq # cache[slot].command.seq
          BY <1>1, <1>2, <1>4, <2>6 DEF NoTwins
        <4> QED BY <2>1, <4>1, <4>2, CommandSeqs
      <3>3. cache[j].command.seq \in Seqs =>
                told'[cache[j].command] = told[cache[j].command]
        BY <2>4, <3>2
      <3> QED BY <3>1, <3>3 DEF Kept
    <2>7. cache'[slot].command = c /\ answer'.seq = c.seq
      BY <1>1, <1>2, <1>3, <2>1
    <2>8. /\ cache'[slot'].command = c /\ slot' \in Slots /\ Kept(slot)'
          /\ \A j \in Slots \ {slot'} : Kept(j)'
      BY <1>1, <1>2, <2>5, <2>6, <2>7
    <2>9. Remembered' /\ told'[c] = answer'
      <3>1. ASSUME NEW d \in Command, told'[d] # Unwritten
            PROVE  \E i \in Slots : cache'[i].command = d
        <4>1. CASE d = c
          BY <1>2, <1>3, <2>1, <4>1
        <4>2. CASE d # c
          <5>1. PICK i \in Slots : cache[i].command = d
            BY <2>1, <2>4, <3>1, <4>2 DEF Remembered
          <5> QED BY <1>3, <5>1
        <4> QED BY <4>1, <4>2
      <3> QED BY <1>1, <2>4, <3>1 DEF Remembered
    <2> QED BY <1>1, <2>1, <2>3, <2>7, <2>8, <2>9 DEF InHand
  <1> QED BY <1>1, <1>4, WorksOn DEF Control

LEMMA FormatsServe ==
    ASSUME IInv, HostInv, FormatsAnswer
    PROVE  HostInv'
  <1>1. /\ control = "formatting" /\ control' = "emitting" /\ buffer' = answer
        /\ UNCHANGED <<line, asked, cache, told, queue, held, answer, slot>>
    BY DEF FormatsAnswer, ControlStep, hostVars, protocolVars
  <1>2. (\A i : Kept(i)' = Kept(i)) /\ Remembered' = Remembered
    BY <1>1 DEF Kept, Remembered
  <1>3. ASSUME NEW c \in Command, InHand(c), NoTwins
        PROVE  NoTwins' /\ InHand(c)'
    <2>1. /\ held = c /\ queue = <<>> /\ line = Of(c) /\ answer.seq = c.seq
      BY <1>1, <1>3 DEF InHand
    <2>2. PICK i \in Slots : /\ cache[i].command = c /\ Kept(i)
                             /\ \A j \in Slots \ {i} : Kept(j)
      BY <1>1, <1>3 DEF InHand
    <2> QED BY <1>1, <1>2, <1>3, <2>1, <2>2 DEF NoTwins, InHand
  <1> QED BY <1>1, <1>3, WorksOn DEF Control

\* The answer goes out as it was formatted.
LEMMA EmitsServe ==
    ASSUME IInv, HostInv, EmitsAnswer
    PROVE  HostInv'
  <1>1. /\ control = "emitting" /\ control' = "waiting" /\ asked' = FALSE
        /\ output' = [answer |-> answer, text |-> buffer]
        /\ UNCHANGED <<cache, told, queue>>
    BY DEF EmitsAnswer, ControlStep, protocolVars
  <1>2. (\A i : Kept(i)' = Kept(i)) /\ Remembered' = Remembered
    BY <1>1 DEF Kept, Remembered
  <1>3. /\ line' = line
        /\ HostTyped' /\ ToldTyped' /\ Lossless' /\ Fits'
        /\ Silent => Silent'
        /\ Patient' => Patient /\ Worked /\ NoTwins
    BY ControlBasics DEF Control
  <1>4. ASSUME Patient'
        PROVE  NoTwins' /\ Served'
    <2>1. Worked /\ NoTwins
      BY <1>3, <1>4
    <2>2. PICK c \in Command : InHand(c)
      BY <2>1 DEF Worked
    <2>3. /\ queue = <<>> /\ line = Of(c) /\ answer.seq = c.seq /\ buffer = answer
          /\ told[c] = answer /\ Remembered
      BY <1>1, <2>2 DEF InHand
    <2>4. \A i \in Slots : Kept(i)
      BY <1>1, <2>2 DEF InHand
    <2>5. AtRest'
      BY <1>1, <1>2, <2>3, <2>4 DEF AtRest
    <2>6. AnswersLine'
      <3>1. answer # Unwritten
        BY <2>3, CommandSeqs, ProtocolAssumption DEF Unwritten, Observation
      <3>2. AnswerDue(c)' = answer
        BY <1>1, <2>3, <3>1 DEF AnswerDue
      <3> QED BY <1>1, <1>3, <2>3, <3>2, CommandBytes DEF AnswersLine
    <2>7. NoTwins'
      BY <1>1, <2>1 DEF NoTwins
    <2> QED BY <1>1, <1>3, <2>1, <2>5, <2>6, <2>7 DEF Worked, Served
  <1> QED BY <1>3, <1>4 DEF HostInv, Serving

\* No new entry is needed for a command that was queued with its own.
LEMMA AllocatesServe ==
    ASSUME IInv, HostInv, ClearsSlot \/ KeysSlot
    PROVE  HostInv'
  <1>1. control \in {"clearing", "keying"}
    BY DEF ClearsSlot, KeysSlot, ControlStep
  <1>2. ~Worked
    BY <1>1 DEF Worked, InHand
  <1>3. /\ HostTyped' /\ ToldTyped' /\ Lossless' /\ Fits'
        /\ Patient' => Worked
    BY ControlBasics DEF Control
  <1> QED BY <1>2, <1>3 DEF HostInv, Serving

LEMMA ControlServes ==
    ASSUME IInv, HostInv, Control
    PROVE  HostInv'
  BY TakesServe, ExecutesServe, AllocatesServe, FlagsServe, CopiesServe, FormatsServe,
     EmitsServe DEF Control

LEMMA LineServes ==
    ASSUME IInv, HostInv, BeginsLine
    PROVE  HostInv'
  <1>1. PICK l \in budget.lines : /\ line' = l /\ wire' = Bytes(l)
                                  /\ asked' = (asked \/ l # Blank)
    BY DEF BeginsLine
  <1>2. /\ wire = <<>> /\ impatient' = (impatient \/ asked)
        /\ UNCHANGED <<lost, queue, control, told, cache, ring, frame, dropping,
                       overflowed, parser>>
    BY DEF BeginsLine, controlVars, ingressVars, protocolVars
  <1>3. l \in Lines /\ Bytes(l) \in Seq(AnyByte)
    BY RuntimeAssumption, LinesWhole DEF IInv, IngressTyped, Lines
  <1>4. HostTyped' /\ ToldTyped' /\ Lossless' /\ Fits'
    BY <1>1, <1>2, <1>3 DEF HostInv, HostTyped, ToldTyped, Lossless, Fits
  <1>5. ASSUME Patient'
        PROVE  NoTwins' /\ (Waits' \/ Served')
    <2>1. Served /\ NoTwins
      BY <1>2, <1>5 DEF Patient, HostInv, Serving, Waits, Worked
    <2>2. NoTwins' /\ AtRest'
      BY <1>2, <2>1, CacheServes DEF Served
    <2>3. ring \in Seq(LineEnd) /\ Ahead' = ring \o Bytes(l)
      <3>1. ring \in Seq(AnyByte) /\ ring \o <<>> = ring
        BY DEF IInv, IngressTyped
      <3> QED BY <1>1, <1>2, <2>1, <3>1 DEF Served, Silent, Ahead
    <2>4. frame' = <<>> /\ ~dropping'
      BY <1>2, <2>1 DEF Served, Silent
    <2>5. CASE l = Blank
      <3>1. Bytes(l) \in Seq(LineEnd)
        BY <2>5 DEF Bytes, Blank, LineEnd
      <3>2. Ahead' \in Seq(LineEnd)
        BY <2>3, <3>1
      <3> QED BY <1>1, <2>1, <2>2, <2>4, <2>5, <3>2 DEF Served, Silent
    <2>6. CASE l # Blank
      <3>1. Bytes(line)' = Bytes(l)
        BY <1>1
      <3>2. Coming'
        BY <2>3, <2>4, <3>1 DEF Coming
      <3> QED BY <1>1, <2>2, <2>6, <3>2 DEF Waits
    <2> QED BY <2>2, <2>5, <2>6
  <1> QED BY <1>4, <1>5 DEF HostInv, Serving

LEMMA BytesServe ==
    ASSUME IInv, HostInv, BytesArrive
    PROVE  HostInv'
  <1> DEFINE n == IF Len(wire) < budget.chunk THEN Len(wire) ELSE budget.chunk
             chunk == SubSeq(wire, 1, n)
             rest == SubSeq(wire, n + 1, Len(wire))
  <1>1. /\ ring' = ring \o SubSeq(chunk, 1, Len(chunk) - Dropped(chunk))
        /\ wire' = rest
        /\ overflowed' = (overflowed \/ Dropped(chunk) > 0)
        /\ lost' = lost + Dropped(chunk)
        /\ UNCHANGED <<line, asked, impatient, queue, control, held, answer, slot, buffer,
                       output, told, cache, parser, frame, dropping>>
    BY DEF BytesArrive, Interrupt, controlVars, protocolVars
  <1>2. budget.chunk \in Nat /\ Len(wire) \in Nat /\ n \in 0 .. Len(wire)
    BY RuntimeAssumption DEF IInv, IngressTyped
  <1> HIDE DEF n
  <1>3. chunk \in Seq(AnyByte) /\ rest \in Seq(AnyByte) /\ Len(chunk) \in Nat
    BY <1>2 DEF IInv, IngressTyped
  <1>4. chunk \o rest = wire
    <2>1. wire \in Seq(AnyByte) /\ 1 \in 1 .. Len(wire) + 1 /\ n \in 1 - 1 .. Len(wire)
          /\ Len(wire) \in n .. Len(wire) /\ SubSeq(wire, 1, Len(wire)) = wire
      BY <1>2 DEF IInv, IngressTyped
    <2> QED BY <2>1, ConcatAdjacentSubSeq
  <1> HIDE DEF chunk, rest
  <1>5. Dropped(chunk) \in Nat
    BY <1>3, IngressAssumption DEF Dropped, IInv, IngressTyped
  <1>6. lost' = 0 => lost = 0 /\ Dropped(chunk) = 0
    BY <1>1, <1>5 DEF HostInv, HostTyped
  <1>7. HostTyped' /\ ToldTyped' /\ Fits'
    BY <1>1, <1>5 DEF HostInv, HostTyped, ToldTyped, Fits
  <1>8. Lossless'
    <2>1. Dropped(chunk) = 0 => ~(Dropped(chunk) > 0)
      BY <1>5
    <2>2. lost' = 0 => lost = 0 /\ (overflowed' => overflowed) /\ parser' = parser
      BY <1>1, <1>6, <2>1
    <2> QED BY <2>2 DEF HostInv, Lossless
  <1>9. ASSUME Dropped(chunk) = 0
        PROVE  (ring \o wire)' = ring \o wire
    <2>1. ring \in Seq(AnyByte) /\ SubSeq(chunk, 1, Len(chunk) - Dropped(chunk)) = chunk
      BY <1>3, <1>9 DEF IInv, IngressTyped
    <2>2. (ring \o chunk) \o rest = ring \o (chunk \o rest)
      BY <1>3, <2>1, ConcatAssociative
    <2> QED BY <1>1, <1>4, <2>1, <2>2
  <1>10. ASSUME Patient'
         PROVE  NoTwins' /\ (Waits' \/ Worked' \/ Served')
    <2>1. Patient /\ Dropped(chunk) = 0
      BY <1>1, <1>6, <1>10 DEF Patient
    <2>2. (Coming => Coming') /\ (Silent => Silent')
      BY <1>1, <1>9, <2>1, WayStays
    <2>3. /\ NoTwins => NoTwins'
          /\ AtRest => AtRest'
          /\ \A c \in Command : InHand(c) => InHand(c)'
      BY <1>1, MemoryServes DEF controlVars
    <2>4. Waits => Waits'
      BY <1>1, <2>2, <2>3 DEF Waits
    <2>5. Worked => Worked'
      BY <1>1, <2>2, <2>3 DEF Worked
    <2>6. Served => Served'
      BY <1>1, <2>2, <2>3 DEF Served, AnswersLine, AnswerDue
    <2> QED BY <2>1, <2>3, <2>4, <2>5, <2>6 DEF HostInv, Serving
  <1> QED BY <1>7, <1>8, <1>10 DEF HostInv, Serving

\* Neither a deadline that passes nor a stutter concerns the host.
LEMMA IdleServes ==
    ASSUME IInv, HostInv, DeadlinePasses \/ UNCHANGED vars
    PROVE  HostInv'
  <1>1. UNCHANGED <<line, wire, lost, asked, impatient, queue, control, held, answer,
                    slot, buffer, output, told, cache, ring, frame, dropping, overflowed,
                    parser>>
    BY DEF DeadlinePasses, Expires, vars, hostVars, controlVars, ingressVars,
           protocolVars
  <1>2. HostTyped' /\ ToldTyped' /\ Lossless' /\ Fits'
    BY <1>1 DEF HostInv, HostTyped, ToldTyped, Lossless, Fits
  <1>3. (Coming => Coming') /\ (Silent => Silent')
    BY <1>1, WayStays
  <1>4. /\ NoTwins => NoTwins'
        /\ AtRest => AtRest'
        /\ \A c \in Command : InHand(c) => InHand(c)'
    BY <1>1, MemoryServes DEF controlVars
  <1>5. Waits => Waits'
    BY <1>1, <1>3, <1>4 DEF Waits
  <1>6. Worked => Worked'
    BY <1>1, <1>3, <1>4 DEF Worked
  <1>7. Served => Served'
    BY <1>1, <1>3, <1>4 DEF Served, AnswersLine, AnswerDue
  <1>8. Patient' = Patient
    BY <1>1 DEF Patient
  <1> QED BY <1>2, <1>4, <1>5, <1>6, <1>7, <1>8 DEF HostInv, Serving

LEMMA InitHostInv == Init => HostInv
  <1> SUFFICES ASSUME Init PROVE HostInv
    OBVIOUS
  <1>1. HostTyped /\ ToldTyped /\ Lossless /\ Fits
    <2>1. HostTyped
      BY DEF Init, HostTyped, Lines
    <2>2. ToldTyped
      BY Texts DEF Init, ToldTyped
    <2>3. Lossless /\ Fits
      BY EmptyFits DEF Init, IngressInit, Lossless, Fits
    <2> QED BY <2>1, <2>2, <2>3
  <1>2. \A i \in Slots : cache[i].command.seq \notin Seqs
    BY CommandSeqs DEF Init, ProtocolInit, Cleared, Entry
  <1>3. NoTwins /\ AtRest
    BY <1>2 DEF Init, NoTwins, AtRest, Kept, Remembered
  <1>4. Silent
    <2>1. frame = <<>> /\ dropping = FALSE /\ Ahead = <<>>
      BY DEF Init, IngressInit, Ahead
    <2>2. <<>> \in Seq(LineEnd)
      OBVIOUS
    <2> QED BY <2>1, <2>2 DEF Silent
  <1>5. asked = FALSE /\ line = Blank
    BY DEF Init
  <1> QED BY <1>1, <1>3, <1>4, <1>5 DEF HostInv, Serving, Served

LEMMA NextHostInv == IInv /\ HostInv /\ [Next]_vars => HostInv'
  BY ParserServes, ControlServes, LineServes, BytesServe, IdleServes DEF Next

\* At every moment the line of a patient host is on its way and both tasks have
\* finished with the lines before, or its command alone is being worked on, or it
\* has been answered.
THEOREM HostInductive == Spec => []HostInv
  BY FirmwareInductive, InitHostInv, NextHostInv, PTL DEF Spec

\* A host that waits for each answer is answered for what it asked, by a text
\* that is the answer's own, and for a repeated command by the first answer to
\* it since a slot that held it was last reused: for every capacity of ring,
\* frame, queue and cache, and however bytes, tasks and deadlines interleave.
THEOREM PatientHostServedHolds == Spec => []PatientHostServed
  <1>1. HostInv => PatientHostServed
    BY DEF HostInv, Serving, Patient, Waits, Worked, Served, AnswersLine,
           PatientHostServed
  <1> QED BY <1>1, HostInductive, PTL
=============================================================================
