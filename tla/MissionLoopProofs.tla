------------------------- MODULE MissionLoopProofs -------------------------
(***************************************************************************)
(* What a mission keeps for any number of steps and attempts, whatever the *)
(* planner, the network, the device and the operator do.                   *)
(***************************************************************************)
EXTENDS MissionLoop, FiniteSetTheorems, TLAPS

Running == {"planning", "execute", "publish", "announce", "wait"}

\* The parts of TypeOK that different steps disturb.
FlagTypes ==
    /\ started \in BOOLEAN /\ connected \in BOOLEAN /\ exhausted \in BOOLEAN
    /\ cancelRequested \in BOOLEAN /\ deviceCancelled \in BOOLEAN

LinkTypes ==
    /\ link \in {"off", "trying", "open", "refused"}
    /\ attempts \in 0 .. MaxAttempts

WireTypes ==
    /\ waitingFor \in Seqs \cup {0}
    /\ held \in DeviceCodes \cup {"none"}
    /\ commands \subseteq sent /\ sent \subseteq Seqs
    /\ observations \subseteq answers /\ answers \subseteq Observations
    /\ sentAtCancel \subseteq sent

GraphTypes ==
    /\ node \in Places
    /\ stepCount \in 0 .. MaxSteps
    /\ nextSeq = stepCount + 1
    /\ decision \in Claims \cup {"tool_call", "none"}
    /\ lastObservation \in Codes \cup {"none"}
    /\ finalStatus \in FinalStatus \cup {"none"}

ListTypes ==
    /\ steps \in Seq(StepRecord) /\ Len(steps) = stepCount
    /\ events \in Seq(EventRecord)

LEMMA TypeParts ==
    TypeOK <=> FlagTypes /\ LinkTypes /\ WireTypes /\ GraphTypes /\ ListTypes
BY DEF TypeOK, FlagTypes, LinkTypes, WireTypes, GraphTypes, ListTypes

LEMMA TypePartsNext ==
    TypeOK' <=> FlagTypes' /\ LinkTypes' /\ WireTypes' /\ GraphTypes'
                    /\ ListTypes'
BY DEF TypeOK, FlagTypes, LinkTypes, WireTypes, GraphTypes, ListTypes

\* The network thread tries no more once it failed max_reconnect_attempts
\* times.
Retrying == link # "off" => attempts < MaxAttempts

\* The thread's place decides what the client waits for and whether there is
\* a verdict.
Stages ==
    /\ node \in {"start", "connecting"} => steps = <<>> /\ events = <<>>
    /\ node \in Running => stepCount < MaxSteps
    /\ waitingFor = IF node \in {"publish", "announce", "wait"}
                    THEN nextSeq ELSE 0
    /\ held # "none" =>
           waitingFor # 0 /\ Observation(waitingFor, held) \in answers
    /\ finalStatus # "none" <=> node \in {"end", "close", "done"}
    /\ node \in {"execute", "publish", "announce", "wait", "decide"} =>
           decision = "tool_call"

\* Commands are sent in order, the next one only once its step is under way.
Sending ==
    /\ \A n \in sent : n <= stepCount \/ n = nextSeq
    /\ nextSeq \in sent <=> node \in {"announce", "wait"}
    /\ \A o \in answers : o.seq \in sent

\* An ending code is the last one, and leads straight out of the graph.
Ending ==
    /\ \A i \in DOMAIN steps :
           steps[i].code \in EndingCodes => i = Len(steps)
    /\ steps # <<>> => lastObservation = steps[Len(steps)].code
    /\ steps = <<>> => lastObservation = "none"
    /\ lastObservation \in EndingCodes =>
           node \in {"decide", "end", "close", "done"}

\* Nothing has been sent since the cancel, while a command is past the look
\* at the cancellation event, and at most one command afterwards.
Cancelling ==
    cancelRequested =>
        /\ node = "publish" => sent = sentAtCancel
        /\ \A m, n \in sent \ sentAtCancel : m = n

\* What may be emitted now, going by the last event.
CanFollow ==
    IF events = <<>> THEN {Event("planning", 1), FinalEvent}
    ELSE Successors(events[Len(events)])

\* What the thread may emit next from its place.
Emissions ==
    CASE node \in {"start", "connecting", "end"} -> {FinalEvent}
      [] node = "planner" -> {Event("planning", nextSeq), FinalEvent}
      [] node = "planning" -> {Event("tool_call", nextSeq), FinalEvent}
      [] node = "execute" ->
             {Event("published", nextSeq), Event("safety_rejected", nextSeq),
              Event("observation", nextSeq), FinalEvent}
      [] node = "publish" ->
             {Event("published", nextSeq), Event("observation", nextSeq)}
      [] node = "announce" -> {Event("published", nextSeq)}
      [] node = "wait" -> {Event("observation", nextSeq)}
      [] node = "decide" ->
             {Event("planning", nextSeq), FinalEvent}
                 \cup IF lastObservation = "not_allowed" THEN {}
                      ELSE {Event("replanning", nextSeq)}
      [] OTHER -> {}

\* The most events there can be at each place.
Quota ==
    CASE node \in {"start", "connecting"} -> 0
      [] node = "planner" -> 5 * stepCount
      [] node = "planning" -> 5 * stepCount + 1
      [] node \in {"execute", "publish", "announce"} -> 5 * stepCount + 2
      [] node = "wait" -> 5 * stepCount + 3
      [] node = "decide" -> 5 * stepCount - 1
      [] node \in {"end", "raise", "raised"} -> 5 * MaxSteps
      [] OTHER -> 5 * MaxSteps + 1

Journal ==
    /\ EventsInOrder
    /\ Emissions \subseteq CanFollow
    /\ Len(events) <= Quota
    /\ \A i \in DOMAIN events :
           events[i] = FinalEvent => i = Len(events) /\ node \in {"close", "done"}
    /\ node \in {"close", "done"} =>
           events # <<>> /\ events[Len(events)] = FinalEvent

\* The inductive invariant.
IInv ==
    /\ TypeOK
    /\ Retrying
    /\ Stages
    /\ Sending
    /\ AnswersBelong
    /\ Ending
    /\ Cancelling
    /\ VerdictExplained
    /\ Journal

-----------------------------------------------------------------------------
(* One more event, one more step.                                          *)

\* An event that may follow keeps the journal in order.
LEMMA JournalGrows ==
    ASSUME events \in Seq(EventRecord), EventsInOrder,
           NEW e \in EventRecord, e \in CanFollow,
           \A i \in DOMAIN events : events[i] # FinalEvent,
           events' = Append(events, e)
    PROVE  /\ events' \in Seq(EventRecord)
           /\ EventsInOrder'
           /\ Len(events') = Len(events) + 1
           /\ CanFollow' = Successors(e)
           /\ events' # <<>> /\ events'[Len(events')] = e
           /\ \A i \in DOMAIN events' :
                  events'[i] = FinalEvent => i = Len(events') /\ e = FinalEvent
<1>1. /\ events' \in Seq(EventRecord)
      /\ Len(events') = Len(events) + 1
      /\ events' # <<>> /\ events'[Len(events')] = e
      /\ DOMAIN events' = 1 .. Len(events) + 1
      /\ \A i \in 1 .. Len(events) : events'[i] = events[i]
  OBVIOUS
<1>2. CanFollow' = Successors(e)
  BY <1>1 DEF CanFollow
<1>3. EventsInOrder'
  <2> SUFFICES ASSUME NEW i \in DOMAIN events'
               PROVE  IF i = 1
                      THEN events'[i] \in {Event("planning", 1), FinalEvent}
                      ELSE events'[i] \in Successors(events'[i - 1])
    BY DEF EventsInOrder
  <2>2. CASE i = Len(events) + 1
    BY <1>1, <2>2 DEF CanFollow
  <2>3. CASE i \in 1 .. Len(events)
    <3>1. events'[i] = events[i] /\ (i # 1 => events'[i - 1] = events[i - 1])
      BY <1>1, <2>3
    <3>2. QED
      BY <2>3, <3>1 DEF EventsInOrder
  <2>4. QED
    BY <1>1, <2>2, <2>3
<1>4. QED
  BY <1>1, <1>2, <1>3

\* One more step behind the others.
LEMMA StepsGrow ==
    ASSUME steps \in Seq(StepRecord), NEW s \in StepRecord,
           steps' = Append(steps, s)
    PROVE  /\ steps' \in Seq(StepRecord)
           /\ steps' # <<>>
           /\ Len(steps') = Len(steps) + 1
           /\ DOMAIN steps' = 1 .. Len(steps) + 1
           /\ steps'[Len(steps')] = s
           /\ \A i \in 1 .. Len(steps) : steps'[i] = steps[i]
OBVIOUS

\* What follows an event.
LEMMA SuccessorsOf ==
    ASSUME NEW n \in Nat
    PROVE  /\ Successors(Event("planning", n))
                  = {Event("tool_call", n), FinalEvent}
           /\ Successors(Event("tool_call", n))
                  = {Event("published", n), Event("safety_rejected", n),
                     Event("observation", n), FinalEvent}
           /\ Successors(Event("published", n)) = {Event("observation", n)}
           /\ Successors(Event("safety_rejected", n))
                  = {Event("planning", n + 1), FinalEvent}
           /\ Successors(Event("observation", n))
                  = {Event("replanning", n + 1), Event("planning", n + 1),
                     FinalEvent}
           /\ Successors(Event("replanning", n))
                  = {Event("planning", n), FinalEvent}
BY DEF Successors, Event

\* The events a run can emit are events.
LEMMA EventTypes ==
    ASSUME NEW n \in 1 .. MaxSteps + 1, NEW p \in Phases
    PROVE  /\ Event(p, n) \in EventRecord
           /\ FinalEvent \in EventRecord
           /\ Event(p, n) # FinalEvent
BY StepsAssumption DEF Event, FinalEvent, EventRecord, Phases

LEMMA InitIInv == Init => IInv
<1> SUFFICES ASSUME Init PROVE IInv
  OBVIOUS
<1> USE DEF Init, ClientInit, GraphInit
<1>1. TypeOK
  <2>1. LinkTypes
    BY AttemptsAssumption DEF LinkTypes
  <2>2. WireTypes
    BY DEF WireTypes
  <2>3. FlagTypes
    BY DEF FlagTypes
  <2>4. GraphTypes
    BY StepsAssumption DEF GraphTypes, Places
  <2>5. ListTypes
    BY DEF ListTypes
  <2>6. QED
    BY <2>1, <2>2, <2>3, <2>4, <2>5, TypeParts
<1>2. Retrying /\ Stages
  BY DEF Retrying, Stages, Running
<1>3. Sending
  BY DEF Sending
<1>4. AnswersBelong /\ Ending /\ Cancelling
  BY DEF AnswersBelong, Ending, Cancelling, EndingCodes
<1>5. VerdictExplained
  BY DEF VerdictExplained
<1>6. Journal
  BY DEF Journal, EventsInOrder, Emissions, CanFollow, Quota, FinalEvent
<1>7. QED
  BY <1>1, <1>2, <1>3, <1>4, <1>5, <1>6 DEF IInv

-----------------------------------------------------------------------------
(* Steps beside the thread of the mission.                                 *)

\* Where neither the run nor what was sent and answered changes, only the
\* types and what the client holds are at stake.
LEMMA SameRun ==
    ASSUME IInv, UNCHANGED <<graphVars, cancelRequested, sent, answers,
                             sentAtCancel>>
    PROVE  /\ GraphTypes' /\ ListTypes'
           /\ Sending' /\ AnswersBelong' /\ Ending' /\ Cancelling'
           /\ VerdictExplained' /\ Journal'
<1>1. GraphTypes' /\ ListTypes'
  BY TypeParts DEF IInv, graphVars, GraphTypes, ListTypes
<1>2. Sending' /\ Cancelling'
  BY DEF IInv, graphVars, Sending, Cancelling
<1>3. AnswersBelong' /\ Ending'
  BY DEF IInv, graphVars, AnswersBelong, Ending
<1>4. VerdictExplained'
  BY DEF IInv, graphVars, VerdictExplained
<1>5. Journal'
  <2>1. EventsInOrder'
    BY DEF IInv, Journal, graphVars, EventsInOrder
  <2>2. Emissions' = Emissions /\ CanFollow' = CanFollow /\ Quota' = Quota
    BY DEF graphVars, Emissions, CanFollow, Quota
  <2>3. QED
    BY <2>1, <2>2 DEF IInv, Journal, graphVars
<1>6. QED
  BY <1>1, <1>2, <1>3, <1>4, <1>5

LEMMA NetworkKeeps == ASSUME IInv, Network PROVE IInv'
<1>1. /\ UNCHANGED <<graphVars, cancelRequested, deviceVars, sentAtCancel>>
      /\ NetworkThread \/ Lose
  BY DEF Network
<1>2. sent' = sent /\ waitingFor' = waitingFor
  BY <1>1 DEF NetworkThread, Connects, Subscribes, Disconnects, ConnectFails,
              OnMessage, Lose, linkVars, requestVars, networkVars
<1>3. FlagTypes' /\ LinkTypes' /\ Retrying'
  <2>1. FlagTypes /\ LinkTypes /\ Retrying
    BY TypeParts DEF IInv
  <2>2. CASE Connects \/ Subscribes \/ Disconnects
    <3>1. FlagTypes'
      BY <1>1, <2>1, <2>2
         DEF FlagTypes, Connects, Subscribes, Disconnects, deviceVars
    <3>2. LinkTypes' /\ Retrying'
      BY <2>1, <2>2, AttemptsAssumption
         DEF LinkTypes, Retrying, Connects, Subscribes, Disconnects
    <3>3. QED
      BY <3>1, <3>2
  <2>3. CASE ConnectFails
    <3>1. FlagTypes'
      BY <1>1, <2>1, <2>3 DEF FlagTypes, ConnectFails, deviceVars
    <3>2. LinkTypes' /\ Retrying'
      BY <2>1, <2>3, AttemptsAssumption DEF LinkTypes, Retrying, ConnectFails
    <3>3. QED
      BY <3>1, <3>2
  <2>4. CASE Lose \/ \E o \in observations : OnMessage(o)
    BY <1>1, <2>1, <2>4
       DEF FlagTypes, LinkTypes, Retrying, OnMessage, Lose, linkVars, deviceVars
  <2>5. QED
    BY <1>1, <2>2, <2>3, <2>4 DEF NetworkThread
<1>4. WireTypes' /\ Stages'
  <2>1. WireTypes /\ Stages /\ GraphTypes
    BY TypeParts DEF IInv
  <2>2. CASE UNCHANGED requestVars
    <3>1. commands' \subseteq commands /\ observations' \subseteq observations
      BY <1>1 DEF NetworkThread, Connects, Subscribes, Disconnects,
                  ConnectFails, OnMessage, Lose, networkVars
    <3>2. WireTypes'
      BY <1>1, <1>2, <2>1, <2>2, <3>1 DEF WireTypes, requestVars, deviceVars
    <3>3. Stages'
      BY <1>1, <2>1, <2>2 DEF Stages, Running, requestVars, deviceVars, graphVars
    <3>4. QED
      BY <3>2, <3>3
  <2>3. CASE \E o \in observations : OnMessage(o)
    <3>1. PICK o \in observations : OnMessage(o)
      BY <2>3
    <3>2. /\ UNCHANGED <<waitingFor, commands, observations>>
          /\ held' = IF waitingFor = o.seq THEN o.code ELSE held
      BY <3>1 DEF OnMessage, networkVars
    <3>3. /\ o \in answers /\ o.seq \in Seqs /\ o.code \in DeviceCodes
          /\ o = Observation(o.seq, o.code)
      BY <2>1, <3>1 DEF WireTypes, Observations, Observation
    <3>4. WireTypes'
      BY <1>1, <1>2, <2>1, <3>2, <3>3 DEF WireTypes, deviceVars
    <3>5. held' # "none" =>
              waitingFor' # 0 /\ Observation(waitingFor', held') \in answers'
      BY <1>1, <2>1, <3>2, <3>3, StepsAssumption DEF Stages, Seqs, deviceVars
    <3>6. Stages'
      BY <1>1, <2>1, <3>2, <3>5 DEF Stages, Running, graphVars
    <3>7. QED
      BY <3>4, <3>6
  <2>4. QED
    BY <1>1, <2>2, <2>3 DEF NetworkThread, Connects, Subscribes, Disconnects,
                            ConnectFails, Lose
<1>5. QED
  BY <1>1, <1>2, <1>3, <1>4, SameRun, TypePartsNext DEF IInv, deviceVars

LEMMA CancelKeeps == ASSUME IInv, RequestCancel PROVE IInv'
<1> USE DEF RequestCancel, clientVars, graphVars, deviceVars, linkVars,
            requestVars, networkVars
<1>1. TypeOK'
  <2>1. FlagTypes'
    BY TypeParts DEF IInv, FlagTypes
  <2>2. LinkTypes' /\ WireTypes' /\ GraphTypes' /\ ListTypes'
    BY TypeParts DEF IInv, LinkTypes, WireTypes, GraphTypes, ListTypes
  <2>3. QED
    BY <2>1, <2>2, TypePartsNext
<1>2. Retrying' /\ Stages' /\ Sending'
  BY DEF IInv, Retrying, Stages, Running, Sending
<1>3. AnswersBelong' /\ Ending'
  BY DEF IInv, AnswersBelong, Ending
<1>4. Cancelling'
  BY DEF Cancelling
<1>5. VerdictExplained'
  BY DEF IInv, VerdictExplained
<1>6. Journal'
  <2>1. EventsInOrder'
    BY DEF IInv, Journal, EventsInOrder
  <2>2. Emissions' = Emissions /\ CanFollow' = CanFollow /\ Quota' = Quota
    BY DEF Emissions, CanFollow, Quota
  <2>3. QED
    BY <2>1, <2>2 DEF IInv, Journal
<1>7. QED
  BY <1>1, <1>2, <1>3, <1>4, <1>5, <1>6 DEF IInv

LEMMA DeviceKeeps ==
    ASSUME IInv,
           TellDevice \/ \E n \in commands, code \in DeviceCodes :
                             DeviceAnswers(n, code)
    PROVE  IInv'
<1>1. CASE TellDevice
  <2>1. UNCHANGED <<clientVars, graphVars, cancelRequested, answers, sentAtCancel>>
    BY <1>1 DEF TellDevice
  <2>2. FlagTypes'
    BY <1>1, <2>1, TypeParts DEF IInv, FlagTypes, TellDevice, clientVars, linkVars
  <2>3. LinkTypes' /\ Retrying' /\ WireTypes' /\ Stages'
    BY <2>1, TypeParts DEF IInv, LinkTypes, Retrying, WireTypes, Stages, Running,
       clientVars, linkVars, requestVars, networkVars, graphVars
  <2>4. QED
    BY <2>1, <2>2, <2>3, SameRun, TypePartsNext DEF IInv, clientVars, networkVars
<1>2. ASSUME NEW n \in commands, NEW code \in DeviceCodes, DeviceAnswers(n, code)
      PROVE  IInv'
  <2>1. /\ UNCHANGED <<linkVars, requestVars, commands, sent, graphVars,
                       cancelRequested, deviceCancelled, sentAtCancel>>
        /\ observations' = observations \cup {Observation(n, code)}
        /\ answers' = answers \cup {Observation(n, code)}
    BY <1>2 DEF DeviceAnswers
  <2>2. n \in sent /\ n \in Seqs
    BY TypeParts DEF IInv, WireTypes
  <2>3. Observation(n, code) \in Observations /\ Observation(n, code).seq = n
    BY <2>2 DEF Observation, Observations
  <2>4. FlagTypes' /\ LinkTypes' /\ Retrying'
    BY <2>1, TypeParts DEF IInv, FlagTypes, LinkTypes, Retrying, linkVars
  <2>5. WireTypes'
    BY <2>1, <2>3, TypeParts DEF IInv, WireTypes, requestVars
  <2>6. GraphTypes' /\ ListTypes'
    BY <2>1, TypeParts DEF IInv, GraphTypes, ListTypes, graphVars
  <2>7. Stages'
    BY <2>1 DEF IInv, Stages, Running, requestVars, graphVars
  <2>8. Sending'
    BY <2>1, <2>2, <2>3 DEF IInv, Sending, graphVars
  <2>9. AnswersBelong' /\ Ending' /\ Cancelling'
    BY <2>1 DEF IInv, AnswersBelong, Ending, Cancelling, graphVars
  <2>10. VerdictExplained'
    BY <2>1 DEF IInv, VerdictExplained, graphVars
  <2>11. Journal'
    <3>1. EventsInOrder'
      BY <2>1 DEF IInv, Journal, EventsInOrder, graphVars
    <3>2. Emissions' = Emissions /\ CanFollow' = CanFollow /\ Quota' = Quota
      BY <2>1 DEF Emissions, CanFollow, Quota, graphVars
    <3>3. QED
      BY <2>1, <3>1, <3>2 DEF IInv, Journal, graphVars
  <2>12. QED
    BY <2>4, <2>5, <2>6, <2>7, <2>8, <2>9, <2>10, <2>11, TypePartsNext
       DEF IInv
<1>3. QED
  BY <1>1, <1>2

-----------------------------------------------------------------------------
(* The journal, step by step of the thread.                                *)

\* A step that emits an event that was due, and nothing is due behind it but
\* what may follow it.
LEMMA JournalEmits ==
    ASSUME IInv, NEW e \in EventRecord, e \in Emissions, e # FinalEvent,
           events' = Append(events, e),
           Emissions' \subseteq Successors(e),
           Len(events) + 1 <= Quota',
           node' \notin {"close", "done"}
    PROVE  Journal' /\ events' \in Seq(EventRecord)
<1>1. node \notin {"close", "done"}
  BY DEF Emissions
<1>2. /\ events \in Seq(EventRecord) /\ EventsInOrder /\ e \in CanFollow
      /\ \A i \in DOMAIN events : events[i] # FinalEvent
  BY <1>1, TypeParts DEF IInv, ListTypes, Journal
<1>3. /\ events' \in Seq(EventRecord) /\ EventsInOrder'
      /\ Len(events') = Len(events) + 1
      /\ CanFollow' = Successors(e)
      /\ \A i \in DOMAIN events' : events'[i] # FinalEvent
  BY <1>2, JournalGrows
<1>4. QED
  BY <1>3 DEF Journal

\* A step that emits nothing, and after which nothing new is due.
LEMMA JournalStays ==
    ASSUME IInv, events' = events,
           Emissions' \subseteq Emissions,
           Len(events) <= Quota',
           node \notin {"close", "done"}, node' \notin {"close", "done"}
    PROVE  Journal' /\ events' \in Seq(EventRecord)
<1>1. EventsInOrder' /\ CanFollow' = CanFollow
  BY DEF IInv, Journal, EventsInOrder, CanFollow
<1>2. events' \in Seq(EventRecord)
  BY TypeParts DEF IInv, ListTypes
<1>3. QED
  BY <1>1, <1>2 DEF IInv, Journal

\* What is on record of the steps stays true while no step is added.
LEMMA StepsStay ==
    ASSUME IInv, UNCHANGED <<steps, stepCount, nextSeq, lastObservation>>,
           sent \subseteq sent', answers' = answers,
           node' \in {"decide", "end", "close", "done"}
               \/ lastObservation \notin EndingCodes
    PROVE  /\ steps' \in Seq(StepRecord) /\ Len(steps') = stepCount'
           /\ AnswersBelong' /\ Ending'
<1>1. steps' \in Seq(StepRecord) /\ Len(steps') = stepCount'
  BY TypeParts DEF IInv, ListTypes
<1>2. AnswersBelong'
  BY DEF IInv, AnswersBelong
<1>3. Ending'
  BY DEF IInv, Ending
<1>4. QED
  BY <1>1, <1>2, <1>3

-----------------------------------------------------------------------------
(* The thread of the mission.                                              *)

\* Steps that end the run with a verdict.
LEMMA EndKeeps ==
    ASSUME IInv,
           node \in {"connecting", "planner", "planning", "execute", "decide"},
           NEW status \in FinalStatus, EndWith(status), OnlyEnds,
           decision' \in Claims \cup {"tool_call", "none"},
           UNCHANGED <<events, cancelRequested, requestVars, networkVars,
                       deviceVars, sentAtCancel>>,
           FlagTypes', LinkTypes', Retrying', VerdictExplained'
    PROVE  IInv'
<1> USE DEF EndWith, OnlyEnds, requestVars, networkVars, deviceVars
<1>1. node' = "end" /\ finalStatus' = status /\ status # "none"
  BY DEF FinalStatus
<1>2. GraphTypes /\ ListTypes /\ WireTypes
  BY TypeParts DEF IInv
<1>3. GraphTypes' /\ WireTypes'
  BY <1>1, <1>2 DEF GraphTypes, WireTypes, Places
<1>4. Stages'
  BY <1>1 DEF IInv, Stages, Running
<1>5. Sending'
  BY <1>1 DEF IInv, Sending
<1>6. steps' \in Seq(StepRecord) /\ Len(steps') = stepCount'
      /\ AnswersBelong' /\ Ending'
  BY <1>1, StepsStay
<1>7. Cancelling'
  BY <1>1 DEF IInv, Cancelling
<1>8. Journal' /\ events' \in Seq(EventRecord)
  <2>1. Emissions' \subseteq Emissions
    BY <1>1 DEF Emissions
  <2>2. Len(events) <= Quota'
    <3>1. /\ Quota' = 5 * MaxSteps /\ stepCount \in 0 .. MaxSteps
          /\ Len(events) \in Nat /\ Len(events) <= Quota
      BY <1>1, <1>2, StepsAssumption
         DEF IInv, Journal, Quota, GraphTypes, ListTypes
    <3>2. node \in {"planning", "execute"} => stepCount < MaxSteps
      BY DEF IInv, Stages, Running
    <3>3. QED
      BY <3>1, <3>2, StepsAssumption DEF Quota
  <2>3. QED
    BY <1>1, <2>1, <2>2, JournalStays
<1>9. QED
  BY <1>3, <1>4, <1>5, <1>6, <1>7, <1>8, TypePartsNext DEF IInv, ListTypes

LEMMA ClientKeeps ==
    ASSUME IInv, UNCHANGED <<deviceVars, sentAtCancel>>,
           StartClient \/ ClientConnected \/ ConnectTimesOut
    PROVE  IInv'
<1>1. CASE StartClient \/ ClientConnected
  <2> USE <1>1 DEF StartClient, ClientConnected, Start, clientVars, linkVars,
                   requestVars, networkVars, deviceVars
  <2>1. FlagTypes'
    BY TypeParts DEF IInv, FlagTypes
  <2>2. LinkTypes' /\ Retrying'
    BY TypeParts, AttemptsAssumption DEF IInv, LinkTypes, Retrying
  <2>3. WireTypes' /\ GraphTypes'
    BY TypeParts DEF IInv, WireTypes, GraphTypes, Places
  <2>4. Stages' /\ Sending' /\ Cancelling'
    BY DEF IInv, Stages, Running, Sending, Cancelling
  <2>5. steps' \in Seq(StepRecord) /\ Len(steps') = stepCount'
        /\ AnswersBelong' /\ Ending'
    BY StepsStay DEF IInv, Ending
  <2>6. VerdictExplained'
    BY DEF IInv, VerdictExplained
  <2>7. Journal' /\ events' \in Seq(EventRecord)
    <3>1. steps = <<>> /\ events = <<>> /\ stepCount = 0 /\ nextSeq = 1
      BY TypeParts DEF IInv, Stages, GraphTypes, ListTypes
    <3>2. Emissions' \subseteq CanFollow'
      BY <3>1 DEF Emissions, CanFollow
    <3>3. Len(events') <= Quota'
      BY <3>1 DEF Quota
    <3>4. events' = <<>> /\ node' \notin {"close", "done"}
      BY <3>1
    <3>5. EventsInOrder' /\ events' \in Seq(EventRecord)
          /\ \A i \in DOMAIN events' : events'[i] # FinalEvent
      BY <3>4 DEF EventsInOrder
    <3>6. QED
      BY <3>2, <3>3, <3>4, <3>5 DEF Journal
  <2>8. QED
    BY <2>1, <2>2, <2>3, <2>4, <2>5, <2>6, <2>7, TypePartsNext
       DEF IInv, ListTypes
<1>2. CASE ConnectTimesOut
  <2> USE <1>2 DEF ConnectTimesOut, Stop
  <2>1. FlagTypes'
    BY TypeParts DEF IInv, FlagTypes, deviceVars
  <2>2. LinkTypes' /\ Retrying'
    BY TypeParts DEF IInv, LinkTypes, Retrying
  <2>3. VerdictExplained'
    <3>1. steps = <<>> /\ finalStatus' = "transport_error"
          /\ node' = "end" /\ steps' = steps
          /\ lastObservation' = "none"
      BY DEF IInv, Stages, Ending, EndWith, OnlyEnds
    <3>2. QED
      BY <3>1 DEF VerdictExplained
  <2>4. decision' \in Claims \cup {"tool_call", "none"}
    BY TypeParts DEF IInv, GraphTypes
  <2>5. "transport_error" \in FinalStatus
    BY DEF FinalStatus
  <2>6. QED
    BY <2>1, <2>2, <2>3, <2>4, <2>5, EndKeeps
<1>3. QED
  BY <1>1, <1>2

\* What a step of the graph that does not touch the client keeps.
LEMMA ClientSame ==
    ASSUME IInv, UNCHANGED <<clientVars, cancelRequested, deviceVars,
                             sentAtCancel>>
    PROVE  /\ FlagTypes' /\ LinkTypes' /\ Retrying' /\ WireTypes'
           /\ UNCHANGED <<requestVars, networkVars>>
BY TypeParts DEF IInv, clientVars, deviceVars, linkVars, requestVars,
   networkVars, FlagTypes, LinkTypes, Retrying, WireTypes

LEMMA PlannerKeeps ==
    ASSUME IInv, UNCHANGED <<deviceVars, sentAtCancel>>, PlannerNode
    PROVE  IInv'
<1>1. /\ UNCHANGED <<clientVars, cancelRequested>>
      /\ node \in {"planner", "planning"}
      /\ UNCHANGED <<stepCount, nextSeq, lastObservation, steps>>
  BY DEF PlannerNode, PlannerStops, PlannerAsks, PlannerFails, PlannerEnds,
         PlannerCalls, UnknownToolCalled, OnlyEnds
<1>2. /\ FlagTypes' /\ LinkTypes' /\ Retrying' /\ WireTypes'
      /\ UNCHANGED <<requestVars, networkVars>>
  BY <1>1, ClientSame
<1>3. GraphTypes /\ ListTypes /\ nextSeq \in 1 .. MaxSteps + 1
  BY TypeParts, StepsAssumption DEF IInv, GraphTypes
<1>4. lastObservation \notin EndingCodes
  BY <1>1 DEF IInv, Ending
<1>5. ASSUME NEW status \in FinalStatus, EndWith(status), UNCHANGED events,
             decision' \in Claims \cup {"none"},
             \/ decision' = status
             \/ status = "cancelled" /\ cancelRequested
             \/ status = "step_limit" /\ stepCount = MaxSteps
             \/ status = "planner_error"
      PROVE  IInv'
  <2>1. VerdictExplained'
    <3>1. finalStatus' = status /\ lastObservation' # "emergency_stop"
      BY <1>1, <1>4, <1>5 DEF EndWith, EndingCodes
    <3>2. QED
      BY <1>1, <1>5, <3>1 DEF VerdictExplained
  <2>2. OnlyEnds
    BY <1>1 DEF OnlyEnds
  <2>3. QED
    BY <1>1, <1>2, <1>5, <2>1, <2>2, EndKeeps
<1>6. CASE PlannerStops
  <2>1. stepCount >= MaxSteps => stepCount = MaxSteps
    BY <1>3, StepsAssumption DEF GraphTypes
  <2>2. /\ IsCancelled => EndWith("cancelled") /\ cancelRequested
        /\ ~IsCancelled => EndWith("step_limit") /\ stepCount = MaxSteps
        /\ decision' = "none" /\ UNCHANGED events
    BY <1>6, <2>1 DEF PlannerStops, IsCancelled, AtLimit
  <2>3. QED
    BY <1>5, <2>2 DEF FinalStatus
<1>7. CASE PlannerFails
  BY <1>5, <1>7 DEF PlannerFails, FinalStatus
<1>8. CASE \E claim \in Claims : PlannerEnds(claim)
  BY <1>5, <1>8, ClaimsAssumption DEF PlannerEnds, IsCancelled, FinalStatus
<1>9. CASE PlannerCalls /\ IsCancelled
  BY <1>5, <1>9 DEF PlannerCalls, IsCancelled, FinalStatus
<1>10. ASSUME NEW e \in EventRecord, e \in Emissions, e # FinalEvent,
              events' = Append(events, e),
              Emissions' \subseteq Successors(e),
              \/ /\ node = "planner" /\ node' = "planning"
                 /\ decision' = decision /\ stepCount < MaxSteps
              \/ node = "planning" /\ node' = "execute" /\ decision' = "tool_call",
              finalStatus' = finalStatus
       PROVE  IInv'
  <2>1. GraphTypes'
    BY <1>1, <1>3, <1>10 DEF GraphTypes, Places
  <2>2. Stages' /\ Sending' /\ Cancelling'
    BY <1>1, <1>2, <1>10
       DEF IInv, Stages, Running, Sending, Cancelling, requestVars,
           networkVars, deviceVars
  <2>3. steps' \in Seq(StepRecord) /\ Len(steps') = stepCount'
        /\ AnswersBelong' /\ Ending'
    BY <1>1, <1>2, <1>4, StepsStay DEF networkVars, deviceVars
  <2>4. VerdictExplained'
    BY <1>1, <1>4, <1>10
       DEF IInv, Stages, VerdictExplained, EndingCodes
  <2>5. Len(events) + 1 <= Quota'
    BY <1>1, <1>3, <1>10 DEF IInv, Journal, Quota, GraphTypes, ListTypes
  <2>6. Journal' /\ events' \in Seq(EventRecord)
    BY <1>10, <2>5, JournalEmits
  <2>7. QED
    BY <1>2, <2>1, <2>2, <2>3, <2>4, <2>6, TypePartsNext DEF IInv, ListTypes
<1>11. CASE PlannerAsks
  <2>1. /\ node = "planner" /\ node' = "planning"
        /\ events' = Append(events, Event("planning", nextSeq))
        /\ stepCount < MaxSteps
        /\ UNCHANGED <<decision, finalStatus>>
    BY <1>3, <1>11, StepsAssumption
       DEF PlannerAsks, Emit, AtLimit, GraphTypes
  <2>2. /\ Event("planning", nextSeq) \in Emissions
        /\ Emissions' = {Event("tool_call", nextSeq), FinalEvent}
    BY <1>1, <2>1 DEF Emissions
  <2>3. /\ Event("planning", nextSeq) \in EventRecord
        /\ Event("planning", nextSeq) # FinalEvent
    BY <1>3, EventTypes DEF Phases
  <2>4. Emissions' \subseteq Successors(Event("planning", nextSeq))
    BY <1>3, <2>2, SuccessorsOf
  <2>5. QED
    BY <1>10, <2>1, <2>2, <2>3, <2>4
<1>12. CASE PlannerCalls /\ ~IsCancelled
  <2>1. /\ node = "planning" /\ node' = "execute"
        /\ events' = Append(events, Event("tool_call", nextSeq))
        /\ decision' = "tool_call" /\ finalStatus' = finalStatus
    BY <1>12 DEF PlannerCalls, Emit
  <2>2. /\ Event("tool_call", nextSeq) \in Emissions
        /\ Emissions' = {Event("published", nextSeq),
                         Event("safety_rejected", nextSeq),
                         Event("observation", nextSeq), FinalEvent}
    BY <1>1, <2>1 DEF Emissions
  <2>3. /\ Event("tool_call", nextSeq) \in EventRecord
        /\ Event("tool_call", nextSeq) # FinalEvent
    BY <1>3, EventTypes DEF Phases
  <2>4. Emissions' \subseteq Successors(Event("tool_call", nextSeq))
    BY <1>3, <2>2, SuccessorsOf
  <2>5. QED
    BY <1>10, <2>1, <2>2, <2>3, <2>4
<1>13. CASE UnknownToolCalled
  <2>1. /\ node = "planning" /\ node' = "raise"
        /\ UNCHANGED <<decision, finalStatus, events>>
    BY <1>13 DEF UnknownToolCalled
  <2>2. GraphTypes'
    BY <1>1, <1>3, <2>1 DEF GraphTypes, Places
  <2>3. Stages' /\ Sending' /\ Cancelling'
    BY <1>1, <1>2, <2>1
       DEF IInv, Stages, Running, Sending, Cancelling, requestVars,
           networkVars, deviceVars
  <2>4. steps' \in Seq(StepRecord) /\ Len(steps') = stepCount'
        /\ AnswersBelong' /\ Ending'
    BY <1>1, <1>2, <1>4, StepsStay DEF networkVars, deviceVars
  <2>5. VerdictExplained'
    BY <1>1, <1>4, <2>1 DEF IInv, Stages, VerdictExplained, EndingCodes
  <2>6. Emissions' = {}
    BY <2>1 DEF Emissions
  <2>7. Len(events) <= Quota'
    <3>1. Len(events) <= 5 * stepCount + 1 /\ Quota' = 5 * MaxSteps
      BY <2>1 DEF IInv, Journal, Quota
    <3>2. stepCount < MaxSteps /\ stepCount \in Nat /\ Len(events) \in Nat
      BY <1>3, <2>1, StepsAssumption
         DEF IInv, Stages, Running, GraphTypes, ListTypes
    <3>3. QED
      BY <3>1, <3>2, StepsAssumption
  <2>8. Journal' /\ events' \in Seq(EventRecord)
    BY <2>1, <2>6, <2>7, JournalStays
  <2>9. QED
    BY <1>2, <2>2, <2>3, <2>4, <2>5, <2>8, TypePartsNext DEF IInv, ListTypes
<1>14. QED
  BY <1>6, <1>7, <1>8, <1>9, <1>11, <1>12, <1>13 DEF PlannerNode

\* The event that closes a step.
StepEvent(code) ==
    IF code = "not_allowed" THEN Event("safety_rejected", nextSeq)
                            ELSE Event("observation", nextSeq)

\* A step that is over: at most its own command is new among the sent ones,
\* and a device's code is the one the device sent for it.
LEMMA FinishKeeps ==
    ASSUME IInv, node \in {"execute", "publish", "wait"},
           NEW code \in Codes, NEW published \in BOOLEAN, NEW early,
           FinishStep(code, published, early),
           early = IF code = "not_allowed"
                   THEN <<Event("safety_rejected", nextSeq)>> ELSE <<>>,
           code = "not_allowed" => node = "execute",
           FlagTypes', LinkTypes', Retrying', WireTypes', Cancelling',
           waitingFor' = 0, held' = "none",
           sent \subseteq sent', sent' \subseteq sent \cup {nextSeq},
           UNCHANGED deviceVars,
           code \in DeviceCodes =>
               /\ published /\ nextSeq \in sent
               /\ Observation(nextSeq, code) \in answers
    PROVE  IInv'
<1> DEFINE new == [seq |-> nextSeq, code |-> code, published |-> published]
<1>1. /\ steps' = Append(steps, new)
      /\ events' = events \o early \o (IF Observed(code)
                                     THEN <<Event("observation", nextSeq)>>
                                     ELSE <<>>)
      /\ lastObservation' = code
      /\ stepCount' = stepCount + 1 /\ nextSeq' = nextSeq + 1
      /\ node' = "decide"
      /\ UNCHANGED <<decision, finalStatus, cancelRequested>>
  BY DEF FinishStep
<1>2. GraphTypes /\ ListTypes /\ stepCount < MaxSteps
  BY TypeParts DEF IInv, Stages, Running
<1>3. nextSeq \in Seqs /\ nextSeq \in 1 .. MaxSteps + 1 /\ nextSeq = stepCount + 1
  BY <1>2, StepsAssumption DEF GraphTypes, Seqs
<1>4. GraphTypes'
  BY <1>1, <1>2, StepsAssumption DEF GraphTypes, Places
<1>5. Stages'
  BY <1>1 DEF IInv, Stages, Running
<1>6. Sending'
  <2>1. ASSUME NEW n \in sent' PROVE n \in Int /\ n <= stepCount'
    <3>1. n \in Seqs
      BY DEF WireTypes
    <3>2. n <= stepCount \/ n = nextSeq
      BY DEF IInv, Sending
    <3>3. QED
      BY <1>1, <1>2, <1>3, <3>1, <3>2 DEF Seqs, GraphTypes
  <2>2. nextSeq' \notin sent'
    BY <1>1, <1>2, <1>3, <2>1 DEF GraphTypes
  <2>3. \A o \in answers' : o.seq \in sent'
    BY DEF IInv, Sending, deviceVars
  <2>4. QED
    BY <1>1, <2>1, <2>2, <2>3 DEF Sending
<1>7. new \in StepRecord
  BY <1>3 DEF StepRecord
<1>8. /\ steps' \in Seq(StepRecord) /\ Len(steps') = stepCount'
      /\ steps' # <<>> /\ DOMAIN steps' = 1 .. nextSeq
      /\ steps'[nextSeq] = new
      /\ \A i \in 1 .. stepCount : steps'[i] = steps[i]
  BY <1>1, <1>2, <1>3, <1>7, StepsGrow DEF ListTypes
<1>9. AnswersBelong'
  <2> SUFFICES ASSUME NEW i \in DOMAIN steps'
               PROVE  /\ steps'[i].seq = i
                      /\ steps'[i].code \in DeviceCodes =>
                             /\ steps'[i].published
                             /\ i \in sent'
                             /\ Observation(i, steps'[i].code) \in answers'
    BY DEF AnswersBelong
  <2>1. CASE i = nextSeq
    BY <1>8, <2>1 DEF deviceVars
  <2>2. CASE i \in 1 .. stepCount
    <3>1. i \in DOMAIN steps /\ steps'[i] = steps[i]
      BY <1>2, <1>8, <2>2 DEF ListTypes
    <3>2. QED
      BY <3>1 DEF IInv, AnswersBelong, deviceVars
  <2>3. QED
    BY <1>2, <1>3, <1>8, <2>1, <2>2 DEF GraphTypes
<1>10. Ending'
  <2>1. \A i \in 1 .. stepCount : steps[i].code \notin EndingCodes
    <3>1. lastObservation \notin EndingCodes
      BY DEF IInv, Ending
    <3>2. QED
      BY <1>2, <3>1 DEF IInv, Ending, ListTypes
  <2>2. \A i \in DOMAIN steps' : i \in 1 .. stepCount \/ i = Len(steps')
    BY <1>1, <1>2, <1>3, <1>8 DEF GraphTypes
  <2>3. Len(steps') = nextSeq
    BY <1>1, <1>3, <1>8
  <2>4. QED
    BY <1>1, <1>8, <2>1, <2>2, <2>3 DEF Ending
<1>11. VerdictExplained'
  BY <1>1 DEF IInv, Stages, VerdictExplained
<1>12. Journal' /\ events' \in Seq(EventRecord)
  <2>1. StepEvent(code) \in EventRecord /\ StepEvent(code) # FinalEvent
    BY <1>3, EventTypes DEF StepEvent, Phases
  <2>2. events' = Append(events, StepEvent(code))
    <3>1. CASE code = "not_allowed"
      BY <1>1, <1>2, <2>1, <3>1 DEF Observed, StepEvent, ListTypes
    <3>2. CASE code # "not_allowed"
      BY <1>1, <1>2, <2>1, <3>2 DEF Observed, StepEvent, ListTypes
    <3>3. QED
      BY <3>1, <3>2
  <2>3. StepEvent(code) \in Emissions
    BY DEF Emissions, StepEvent
  <2>4. Emissions' = {Event("planning", nextSeq + 1), FinalEvent}
                         \cup IF code = "not_allowed" THEN {}
                              ELSE {Event("replanning", nextSeq + 1)}
    BY <1>1 DEF Emissions
  <2>5. Emissions' \subseteq Successors(StepEvent(code))
    <3>1. CASE code = "not_allowed"
      BY <1>3, <2>4, <3>1, SuccessorsOf DEF StepEvent
    <3>2. CASE code # "not_allowed"
      <4>1. StepEvent(code) = Event("observation", nextSeq)
        BY <3>2 DEF StepEvent
      <4>2. Emissions' = {Event("planning", nextSeq + 1), FinalEvent,
                          Event("replanning", nextSeq + 1)}
        BY <2>4, <3>2
      <4>3. Successors(Event("observation", nextSeq))
                = {Event("replanning", nextSeq + 1),
                   Event("planning", nextSeq + 1), FinalEvent}
        BY <1>3, SuccessorsOf
      <4>4. QED
        BY <4>1, <4>2, <4>3
    <3>3. QED
      BY <3>1, <3>2
  <2>6. Len(events) + 1 <= Quota'
    <3>1. stepCount \in Nat /\ Len(events) \in Nat
      BY <1>2, StepsAssumption DEF GraphTypes, ListTypes
    <3>2. Quota' = 5 * (stepCount + 1) - 1
      BY <1>1 DEF Quota
    <3>3. Quota = IF node = "wait" THEN 5 * stepCount + 3
                                  ELSE 5 * stepCount + 2
      BY DEF Quota
    <3>4. Len(events) <= Quota
      BY DEF IInv, Journal
    <3>5. QED
      BY <3>1, <3>2, <3>3, <3>4
  <2>7. QED
    BY <1>1, <2>1, <2>2, <2>3, <2>5, <2>6, JournalEmits
<1>13. QED
  BY <1>4, <1>5, <1>6, <1>8, <1>9, <1>10, <1>11, <1>12, TypePartsNext
     DEF IInv, ListTypes

\* The steps of the execute node that do not finish a step of the run.
LEMMA RequestKeeps ==
    ASSUME IInv, UNCHANGED <<deviceVars, sentAtCancel>>,
           ExecuteCancelled \/ Request \/ Publish \/ Announce
    PROVE  IInv'
<1>1. GraphTypes /\ ListTypes /\ WireTypes
      /\ nextSeq \in Seqs \cup {MaxSteps + 1} /\ nextSeq \in 1 .. MaxSteps + 1
      /\ (node \in Running => nextSeq \in Seqs)
  BY TypeParts, StepsAssumption DEF IInv, GraphTypes, Stages, Seqs
<1>2. CASE ExecuteCancelled
  <2>1. /\ node = "execute" /\ cancelRequested /\ EndWith("cancelled")
        /\ OnlyEnds
        /\ UNCHANGED <<decision, events, cancelRequested, clientVars>>
    BY <1>2 DEF ExecuteCancelled, IsCancelled
  <2>2. FlagTypes' /\ LinkTypes' /\ Retrying' /\ UNCHANGED <<requestVars, networkVars>>
    BY <2>1, ClientSame
  <2>3. VerdictExplained'
    <3>1. finalStatus' = "cancelled" /\ lastObservation' # "emergency_stop"
      BY <2>1 DEF IInv, Ending, EndingCodes, EndWith, OnlyEnds
    <3>2. QED
      BY <2>1, <3>1 DEF VerdictExplained
  <2>4. decision' \in Claims \cup {"tool_call", "none"}
    BY <1>1, <2>1 DEF GraphTypes
  <2>5. QED
    BY <2>1, <2>2, <2>3, <2>4, EndKeeps DEF FinalStatus
<1>3. CASE Request \/ Publish \/ Announce
  <2>1. /\ UNCHANGED <<stepCount, nextSeq, decision, lastObservation, steps,
                       finalStatus, cancelRequested, linkVars, observations>>
        /\ \/ /\ node = "execute" /\ node' = "publish" /\ ~cancelRequested
              /\ waitingFor' = nextSeq /\ held' = "none"
              /\ UNCHANGED <<events, commands, sent>>
           \/ /\ node = "publish" /\ node' = "announce"
              /\ commands' = commands \cup {nextSeq}
              /\ sent' = sent \cup {nextSeq}
              /\ UNCHANGED <<events, requestVars>>
           \/ /\ node = "announce" /\ node' = "wait"
              /\ events' = Append(events, Event("published", nextSeq))
              /\ UNCHANGED <<commands, sent, requestVars>>
    BY <1>3 DEF Request, Publish, Announce, Register, PutInFlight, OnlyMoves,
       Emit, IsCancelled, clientVars, networkVars
  <2>2. FlagTypes' /\ LinkTypes' /\ Retrying'
    BY <2>1, TypeParts
       DEF IInv, FlagTypes, LinkTypes, Retrying, linkVars, deviceVars
  <2>3. nextSeq \in Seqs /\ answers' = answers
    BY <1>1, <2>1 DEF Running, deviceVars
  <2>4. WireTypes'
    BY <1>1, <2>1, <2>3 DEF WireTypes, requestVars, deviceVars
  <2>5. GraphTypes'
    BY <1>1, <2>1 DEF GraphTypes, Places
  <2>6. Stages'
    BY <2>1, <2>3 DEF IInv, Stages, Running, requestVars
  <2>7. Sending'
    BY <2>1, <2>3 DEF IInv, Sending
  <2>8. steps' \in Seq(StepRecord) /\ Len(steps') = stepCount'
        /\ AnswersBelong' /\ Ending'
    <3>1. sent \subseteq sent' /\ lastObservation \notin EndingCodes
      BY <2>1 DEF IInv, Ending
    <3>2. QED
      BY <2>1, <2>3, <3>1, StepsStay
  <2>9. Cancelling'
    BY <2>1 DEF IInv, Cancelling
  <2>10. VerdictExplained'
    <3>1. lastObservation # "emergency_stop" /\ finalStatus = "none"
      BY <2>1 DEF IInv, Ending, EndingCodes, Stages
    <3>2. QED
      BY <2>1, <3>1 DEF VerdictExplained
  <2>11. Journal' /\ events' \in Seq(EventRecord)
    <3>1. CASE UNCHANGED events
      <4>1. Emissions' \subseteq Emissions
        BY <2>1, <3>1 DEF Emissions
      <4>2. Quota' = Quota
        BY <2>1, <3>1 DEF Quota
      <4>3. QED
        BY <2>1, <3>1, <4>1, <4>2, JournalStays DEF IInv, Journal
    <3>2. CASE node = "announce"
      <4>1. /\ events' = Append(events, Event("published", nextSeq))
            /\ node' = "wait"
        BY <2>1, <3>2
      <4>2. /\ Event("published", nextSeq) \in EventRecord
            /\ Event("published", nextSeq) # FinalEvent
        BY <1>1, EventTypes DEF Phases
      <4>3. /\ Event("published", nextSeq) \in Emissions
            /\ Emissions' = {Event("observation", nextSeq)}
        BY <2>1, <3>2 DEF Emissions
      <4>4. Emissions' \subseteq Successors(Event("published", nextSeq))
        BY <1>1, <4>3, SuccessorsOf
      <4>5. Len(events) + 1 <= Quota'
        <5>1. Quota = 5 * stepCount + 2 /\ Quota' = 5 * stepCount + 3
          BY <2>1, <3>2, <4>1 DEF Quota
        <5>2. QED
          BY <1>1, <5>1 DEF IInv, Journal, GraphTypes, ListTypes
      <4>6. QED
        BY <4>1, <4>2, <4>3, <4>4, <4>5, JournalEmits
    <3>3. QED
      BY <2>1, <3>1, <3>2
  <2>12. QED
    BY <2>2, <2>4, <2>5, <2>6, <2>7, <2>8, <2>9, <2>10, <2>11, TypePartsNext
       DEF IInv, ListTypes
<1>4. QED
  BY <1>2, <1>3

\* The steps of the execute node that finish a step of the run.
LEMMA StepKeeps ==
    ASSUME IInv, UNCHANGED <<deviceVars, sentAtCancel>>,
           \/ ToolRejected \/ RequestRefused \/ PublishFails
           \/ Answered \/ TimesOut
    PROVE  IInv'
<1>1. /\ UNCHANGED <<linkVars, cancelRequested, observations>>
      /\ waitingFor' = 0 /\ held' = "none"
      /\ UNCHANGED <<commands, sent>>
         \/ /\ node = "publish"
            /\ commands' = commands \cup {nextSeq}
            /\ sent' = sent \cup {nextSeq}
      /\ node' = "decide"
  BY DEF ToolRejected, RequestRefused, PublishFails, Answered, TimesOut,
         FinishStep, Withdraw, PutInFlight, clientVars, requestVars,
         networkVars, IInv, Stages
<1>2. FlagTypes' /\ LinkTypes' /\ Retrying'
  BY <1>1, TypeParts
     DEF IInv, FlagTypes, LinkTypes, Retrying, linkVars, deviceVars
<1>3. WireTypes'
  <2>1. node = "publish" => nextSeq \in Seqs
    BY TypeParts, StepsAssumption DEF IInv, GraphTypes, Stages, Running, Seqs
  <2>2. QED
    BY <1>1, <2>1, TypeParts DEF IInv, WireTypes, deviceVars
<1>4. Cancelling'
  BY <1>1 DEF IInv, Cancelling
<1>5. sent \subseteq sent' /\ sent' \subseteq sent \cup {nextSeq}
  BY <1>1
<1>6. CASE ToolRejected
  <2>1. /\ node = "execute"
        /\ FinishStep("not_allowed", FALSE,
                      <<Event("safety_rejected", nextSeq)>>)
    BY <1>6 DEF ToolRejected
  <2>2. "not_allowed" \in Codes /\ "not_allowed" \notin DeviceCodes
    BY DEF Codes, LocalCodes, DeviceCodes
  <2>3. QED
    BY <1>1, <1>2, <1>3, <1>4, <1>5, <2>1, <2>2, FinishKeeps
<1>7. CASE RequestRefused \/ PublishFails
  <2>1. /\ node \in {"execute", "publish"}
        /\ FinishStep("mqtt_transport_error", FALSE, <<>>)
    BY <1>7 DEF RequestRefused, PublishFails
  <2>2. "mqtt_transport_error" \in Codes
        /\ "mqtt_transport_error" \notin DeviceCodes
    BY DEF Codes, LocalCodes, DeviceCodes
  <2>3. QED
    BY <1>1, <1>2, <1>3, <1>4, <1>5, <2>1, <2>2, FinishKeeps
<1>8. CASE TimesOut
  <2>1. node = "wait" /\ FinishStep("mqtt_response_timeout", TRUE, <<>>)
    BY <1>8 DEF TimesOut
  <2>2. "mqtt_response_timeout" \in Codes
        /\ "mqtt_response_timeout" \notin DeviceCodes
    BY DEF Codes, LocalCodes, DeviceCodes
  <2>3. QED
    BY <1>1, <1>2, <1>3, <1>4, <1>5, <2>1, <2>2, FinishKeeps
<1>9. CASE Answered
  <2>1. node = "wait" /\ held # "none" /\ FinishStep(held, TRUE, <<>>)
    BY <1>9 DEF Answered
  <2>2. held \in DeviceCodes /\ held \in Codes /\ held # "not_allowed"
    BY <2>1, TypeParts DEF IInv, WireTypes, Codes, DeviceCodes
  <2>3. nextSeq \in sent /\ Observation(nextSeq, held) \in answers
    BY <2>1 DEF IInv, Stages, Sending
  <2>4. QED
    BY <1>1, <1>2, <1>3, <1>4, <1>5, <2>1, <2>2, <2>3, FinishKeeps
<1>10. QED
  BY <1>6, <1>7, <1>8, <1>9

\* The verdict on an observation, and the causes it can have.
LEMMA OutcomeOf ==
    ASSUME NEW code \in Codes \cup {"none"}
    PROVE  /\ Outcome(code) \in FinalStatus \cup {"none"}
           /\ Outcome(code) \notin {"success", "rejected", "step_limit"}
           /\ code = "emergency_stop" <=> Outcome(code) = "emergency_stop"
           /\ Outcome(code) = "cancelled" =>
                  cancelRequested \/ code = "operator_cancelled"
           /\ Outcome(code) = "timeout" =>
                  code \in {"timeout", "mqtt_response_timeout"}
           /\ Outcome(code) = "transport_error" =>
                  code = "mqtt_transport_error"
           /\ Outcome(code) = "none" => code \notin EndingCodes
BY DEF Outcome, FinalStatus, EndingCodes, IsCancelled

LEMMA DecideKeeps ==
    ASSUME IInv, UNCHANGED <<deviceVars, sentAtCancel>>,
           DecideEnds \/ DecideContinues
    PROVE  IInv'
<1>1. /\ node = "decide"
      /\ UNCHANGED <<stepCount, nextSeq, decision, lastObservation, steps,
                     cancelRequested, clientVars>>
  BY DEF DecideEnds, DecideContinues, OnlyEnds, OnlyMoves
<1>2. /\ FlagTypes' /\ LinkTypes' /\ Retrying' /\ WireTypes'
      /\ UNCHANGED <<requestVars, networkVars>>
  BY <1>1, ClientSame
<1>3. GraphTypes /\ ListTypes
  BY TypeParts DEF IInv
<1>4. nextSeq \in 1 .. MaxSteps + 1 /\ nextSeq = stepCount + 1
  BY <1>3, StepsAssumption DEF GraphTypes
<1>5. lastObservation \in Codes \cup {"none"}
  BY <1>3 DEF GraphTypes
<1>6. CASE DecideEnds
  <2>1. /\ EndWith(Outcome(lastObservation)) /\ OnlyEnds
        /\ Outcome(lastObservation) # "none" /\ UNCHANGED events
    BY <1>6 DEF DecideEnds
  <2>2. Outcome(lastObservation) \in FinalStatus
    BY <1>5, <2>1, OutcomeOf
  <2>3. finalStatus' = Outcome(lastObservation)
    BY <2>1 DEF EndWith
  <2>4. VerdictExplained'
    BY <1>1, <1>5, <2>3, OutcomeOf DEF VerdictExplained
  <2>5. decision' \in Claims \cup {"tool_call", "none"}
    BY <1>1, <1>3 DEF GraphTypes
  <2>6. QED
    BY <1>1, <1>2, <2>1, <2>2, <2>4, <2>5, EndKeeps
<1>7. CASE DecideContinues
  <2>1. /\ node' = "planner" /\ finalStatus' = finalStatus
        /\ Outcome(lastObservation) = "none"
        /\ IF lastObservation = "blocked"
           THEN events' = Append(events, Event("replanning", nextSeq))
           ELSE UNCHANGED events
    BY <1>7 DEF DecideContinues, OnlyMoves, Emit
  <2>2. lastObservation \notin EndingCodes
    BY <1>5, <2>1, OutcomeOf
  <2>3. GraphTypes'
    BY <1>1, <1>3, <2>1 DEF GraphTypes, Places
  <2>4. Stages' /\ Sending' /\ Cancelling'
    BY <1>1, <1>2, <2>1 DEF IInv, Stages, Running, Sending, Cancelling,
       requestVars, networkVars, deviceVars
  <2>5. steps' \in Seq(StepRecord) /\ Len(steps') = stepCount'
        /\ AnswersBelong' /\ Ending'
    BY <1>1, <1>2, <2>2, StepsStay DEF networkVars, deviceVars
  <2>6. VerdictExplained'
    <3>1. lastObservation # "emergency_stop" /\ finalStatus = "none"
      BY <1>1, <2>2 DEF IInv, Stages, EndingCodes
    <3>2. QED
      BY <1>1, <2>1, <3>1 DEF VerdictExplained
  <2>7. Emissions' = {Event("planning", nextSeq), FinalEvent}
    BY <1>1, <2>1 DEF Emissions
  <2>8. Quota = 5 * stepCount - 1 /\ Quota' = 5 * stepCount
    BY <1>1, <2>1 DEF Quota
  <2>9. Journal' /\ events' \in Seq(EventRecord)
    <3>1. CASE lastObservation = "blocked"
      <4>1. Event("replanning", nextSeq) \in Emissions
        BY <1>1, <3>1 DEF Emissions
      <4>2. /\ Event("replanning", nextSeq) \in EventRecord
            /\ Event("replanning", nextSeq) # FinalEvent
        BY <1>4, EventTypes DEF Phases
      <4>3. Emissions' \subseteq Successors(Event("replanning", nextSeq))
        BY <1>4, <2>7, SuccessorsOf
      <4>4. Len(events) + 1 <= Quota'
        BY <1>3, <2>8 DEF IInv, Journal, GraphTypes, ListTypes
      <4>5. QED
        BY <2>1, <3>1, <4>1, <4>2, <4>3, <4>4, JournalEmits
    <3>2. CASE lastObservation # "blocked"
      <4>1. Emissions' \subseteq Emissions
        BY <1>1, <2>7 DEF Emissions
      <4>2. Len(events) <= Quota'
        BY <1>3, <2>8 DEF IInv, Journal, GraphTypes, ListTypes
      <4>3. QED
        BY <1>1, <2>1, <3>2, <4>1, <4>2, JournalStays
    <3>3. QED
      BY <3>1, <3>2
  <2>10. QED
    BY <1>2, <2>3, <2>4, <2>5, <2>6, <2>9, TypePartsNext DEF IInv, ListTypes
<1>8. QED
  BY <1>6, <1>7

LEMMA FinalKeeps ==
    ASSUME IInv, UNCHANGED <<deviceVars, sentAtCancel>>, OnFinal \/ CloseClient
    PROVE  IInv'
<1>1. /\ UNCHANGED <<stepCount, nextSeq, decision, lastObservation, steps,
                     finalStatus, cancelRequested, requestVars, networkVars>>
      /\ \/ /\ node = "end" /\ node' = "close"
            /\ events' = Append(events, FinalEvent)
            /\ UNCHANGED linkVars
         \/ node = "close" /\ node' = "done" /\ events' = events
         \/ node = "raise" /\ node' = "raised" /\ events' = events
  BY DEF OnFinal, CloseClient, OnlyMoves, Stop, clientVars
<1>2. FlagTypes' /\ LinkTypes' /\ Retrying'
  <2>1. FlagTypes /\ LinkTypes /\ Retrying
    BY TypeParts DEF IInv
  <2>2. UNCHANGED linkVars \/ Stop
    BY DEF OnFinal, CloseClient, clientVars
  <2>3. FlagTypes'
    BY <1>1, <2>1, <2>2 DEF FlagTypes, Stop, linkVars, deviceVars
  <2>4. LinkTypes' /\ Retrying'
    BY <2>1, <2>2 DEF LinkTypes, Retrying, Stop, linkVars
  <2>5. QED
    BY <2>3, <2>4
<1>3. GraphTypes /\ ListTypes /\ WireTypes
  BY TypeParts DEF IInv
<1>4. GraphTypes' /\ WireTypes'
  BY <1>1, <1>3 DEF GraphTypes, WireTypes, Places, requestVars, networkVars,
     deviceVars
<1>5. Stages' /\ Sending' /\ Cancelling'
  BY <1>1 DEF IInv, Stages, Running, Sending, Cancelling, requestVars,
     networkVars, deviceVars
<1>6. steps' \in Seq(StepRecord) /\ Len(steps') = stepCount'
      /\ AnswersBelong' /\ Ending'
  BY <1>1, StepsStay DEF IInv, Ending, networkVars, deviceVars
<1>7. VerdictExplained'
  BY <1>1 DEF IInv, VerdictExplained
<1>8. Journal' /\ events' \in Seq(EventRecord)
  <2>1. CASE node = "end"
    <3>1. FinalEvent \in Emissions /\ Emissions' = {} /\ node' = "close"
          /\ events' = Append(events, FinalEvent)
      BY <1>1, <2>1 DEF Emissions
    <3>2. FinalEvent \in EventRecord
      BY EventTypes, StepsAssumption DEF Phases
    <3>3. /\ FinalEvent \in CanFollow /\ EventsInOrder
          /\ \A i \in DOMAIN events : events[i] # FinalEvent
      BY <2>1, <3>1 DEF IInv, Journal
    <3>4. /\ events' \in Seq(EventRecord) /\ EventsInOrder'
          /\ Len(events') = Len(events) + 1
          /\ events' # <<>> /\ events'[Len(events')] = FinalEvent
          /\ \A i \in DOMAIN events' :
                 events'[i] = FinalEvent => i = Len(events')
      BY <1>3, <3>1, <3>2, <3>3, JournalGrows DEF ListTypes
    <3>5. Len(events') <= Quota'
      <4>1. Quota = 5 * MaxSteps /\ Quota' = 5 * MaxSteps + 1
        BY <2>1, <3>1 DEF Quota
      <4>2. QED
        BY <1>3, <3>4, <4>1, StepsAssumption DEF IInv, Journal, ListTypes
    <3>6. QED
      BY <3>1, <3>4, <3>5 DEF Journal
  <2>2. CASE node = "close"
    <3>1. node' = "done" /\ events' = events
      BY <1>1, <2>2
    <3>2. Emissions' = {} /\ Quota' = Quota
      BY <2>2, <3>1 DEF Emissions, Quota
    <3>3. EventsInOrder'
      BY <3>1 DEF IInv, Journal, EventsInOrder
    <3>4. QED
      BY <1>3, <2>2, <3>1, <3>2, <3>3 DEF IInv, Journal, ListTypes
  <2>3. CASE node = "raise"
    <3>1. node' = "raised" /\ events' = events
      BY <1>1, <2>3
    <3>2. Emissions' = {} /\ Quota' = Quota
      BY <2>3, <3>1 DEF Emissions, Quota
    <3>3. QED
      BY <2>3, <3>1, <3>2, JournalStays DEF IInv, Journal
  <2>4. QED
    BY <1>1, <2>1, <2>2, <2>3
<1>9. QED
  BY <1>2, <1>4, <1>5, <1>6, <1>7, <1>8, TypePartsNext DEF IInv, ListTypes

-----------------------------------------------------------------------------
(* The theorems.                                                           *)

LEMMA StutterKeeps == ASSUME IInv, UNCHANGED vars PROVE IInv'
<1>1. UNCHANGED <<clientVars, graphVars, cancelRequested, deviceVars, sentAtCancel>>
  BY DEF vars
<1>2. FlagTypes' /\ LinkTypes' /\ Retrying' /\ WireTypes'
      /\ UNCHANGED <<requestVars, networkVars>>
  BY <1>1, ClientSame
<1>3. Stages'
  BY <1>1, <1>2 DEF IInv, Stages, Running, requestVars, graphVars, deviceVars
<1>4. QED
  BY <1>1, <1>2, <1>3, SameRun, TypePartsNext DEF IInv, networkVars, deviceVars

\* One run of the agent loop never leaves the invariant: where the thread is
\* decides what was sent, what may be answered and what the journal may say
\* next, for any limit of steps and of attempts.
THEOREM LoopInductive == Spec => []IInv
<1>1. ASSUME IInv, [Next]_vars PROVE IInv'
  <2>1. CASE Mission
    <3>1. MissionThread /\ UNCHANGED <<deviceVars, sentAtCancel>>
      BY <2>1 DEF Mission
    <3>2. CASE StartClient \/ ClientConnected \/ ConnectTimesOut
      BY <1>1, <3>1, <3>2, ClientKeeps
    <3>3. CASE PlannerNode
      BY <1>1, <3>1, <3>3, PlannerKeeps
    <3>4. CASE ExecuteNode
      BY <1>1, <3>1, <3>4, RequestKeeps, StepKeeps DEF ExecuteNode
    <3>5. CASE DecideEnds \/ DecideContinues
      BY <1>1, <3>1, <3>5, DecideKeeps
    <3>6. CASE OnFinal \/ CloseClient
      BY <1>1, <3>1, <3>6, FinalKeeps
    <3>7. QED
      BY <3>1, <3>2, <3>3, <3>4, <3>5, <3>6 DEF MissionThread
  <2>2. CASE Network
    BY <1>1, <2>2, NetworkKeeps
  <2>3. CASE RequestCancel
    BY <1>1, <2>3, CancelKeeps
  <2>4. CASE TellDevice \/ \E n \in commands, code \in DeviceCodes :
                               DeviceAnswers(n, code)
    BY <1>1, <2>4, DeviceKeeps
  <2>5. CASE Done \/ UNCHANGED vars
    BY <1>1, <2>5, StutterKeeps DEF Done
  <2>6. QED
    BY <1>1, <2>1, <2>2, <2>3, <2>4, <2>5 DEF Next
<1>2. QED
  BY <1>1, InitIInv, PTL DEF Spec

-----------------------------------------------------------------------------
(* What the invariant is good for: the properties of a mission.            *)

\* The variables keep their types and no run takes more than max_steps steps,
\* whatever the limit.
THEOREM LoopTypeCorrect == Spec => []TypeOK
<1>1. IInv => TypeOK
  BY DEF IInv
<1>2. QED
  BY <1>1, LoopInductive, PTL

\* A device's code in a step is the device's answer to that step's command,
\* for any loss, repetition and reordering.
THEOREM AnswersBelongHolds == Spec => []AnswersBelong
<1>1. IInv => AnswersBelong
  BY DEF IInv
<1>2. QED
  BY <1>1, LoopInductive, PTL

\* No command is sent behind one without an answer or one the device stopped.
THEOREM NothingBehindUnansweredHolds == Spec => []NothingBehindUnanswered
<1>1. ASSUME IInv PROVE NothingBehindUnanswered
  <2> SUFFICES ASSUME NEW i \in DOMAIN steps, steps[i].code \in EndingCodes
               PROVE  i = Len(steps) /\ \A n \in sent : n <= i
    BY DEF NothingBehindUnanswered
  <2>1. i = Len(steps) /\ steps # <<>> /\ i = stepCount
    BY <1>1, TypeParts DEF IInv, Ending, ListTypes
  <2>2. lastObservation \in EndingCodes
    BY <1>1, <2>1 DEF IInv, Ending
  <2>3. nextSeq \notin sent
    BY <1>1, <2>2 DEF IInv, Ending, Sending
  <2>4. QED
    BY <1>1, <2>1, <2>3 DEF IInv, Sending
<1>2. QED
  BY <1>1, LoopInductive, PTL

\* After a cancel at most one more command is sent, for any number of steps.
THEOREM OneAfterCancelHolds == Spec => []OneAfterCancel
<1>1. ASSUME IInv PROVE OneAfterCancel
  <2> DEFINE late == sent \ sentAtCancel
  <2> SUFFICES ASSUME cancelRequested PROVE Cardinality(late) <= 1
    BY DEF OneAfterCancel
  <2>1. CASE late = {}
    BY <2>1, FS_EmptySet
  <2>2. CASE late # {}
    <3>1. PICK n : n \in late
      BY <2>2
    <3>2. late = {n}
      BY <1>1, <3>1 DEF IInv, Cancelling
    <3>3. QED
      BY <3>2, FS_Singleton
  <2>3. QED
    BY <2>1, <2>2
<1>2. QED
  BY <1>1, LoopInductive, PTL

\* Every verdict that the planner did not claim has its cause in the steps;
\* an emergency stop outranks the rest.
THEOREM VerdictExplainedHolds == Spec => []VerdictExplained
<1>1. IInv => VerdictExplained
  BY DEF IInv
<1>2. QED
  BY <1>1, LoopInductive, PTL

\* The events come in the order of the steps and end with the final one.
THEOREM EventsInOrderHolds == Spec => []EventsInOrder
<1>1. IInv => EventsInOrder
  BY DEF IInv, Journal
<1>2. QED
  BY <1>1, LoopInductive, PTL

-----------------------------------------------------------------------------
(* The loop keeps the runner's contract.                                   *)

\* How the events that the contract counts relate to the place of the thread.
EventCount ==
    /\ Contains(events, FinalEvent) <=> node \in {"close", "done"}
    /\ StepEvents = IF node \in {"close", "done"}
                    THEN Len(events) - 1 ELSE Len(events)
    /\ Len(events) \in Nat /\ StepEvents <= 5 * MaxSteps

LEMMA EventsCounted == ASSUME IInv PROVE EventCount
<1>1. events \in Seq(EventRecord) /\ Len(events) \in Nat
  BY TypeParts DEF IInv, ListTypes
<1>2. Contains(events, FinalEvent) <=> node \in {"close", "done"}
  BY <1>1 DEF IInv, Journal, Contains
<1>3. Len(events) <= IF node \in {"close", "done"}
                     THEN 5 * MaxSteps + 1 ELSE 5 * MaxSteps
  <2>1. /\ stepCount \in 0 .. MaxSteps /\ node \in Places
        /\ node \in Running => stepCount < MaxSteps
    BY TypeParts DEF IInv, GraphTypes, Stages
  <2>2. Quota <= IF node \in {"close", "done"}
                 THEN 5 * MaxSteps + 1 ELSE 5 * MaxSteps
    BY <2>1, StepsAssumption DEF Quota, Running, Places
  <2>3. Len(events) <= Quota /\ Quota \in Int
    BY <2>1, StepsAssumption DEF IInv, Journal, Quota
  <2>4. QED
    BY <1>1, <2>2, <2>3, StepsAssumption
<1>4. CASE node \in {"close", "done"}
  <2>1. events # <<>> /\ events[Len(events)] = FinalEvent
        /\ \A i \in DOMAIN events : events[i] = FinalEvent => i = Len(events)
    BY <1>4 DEF IInv, Journal
  <2>2. {i \in DOMAIN events : events[i] # FinalEvent} = 1 .. Len(events) - 1
    BY <1>1, <2>1
  <2>3. Len(events) # 0
    BY <1>1, <2>1
  <2>4. StepEvents = Len(events) - 1
    <3>1. Cardinality(1 .. Len(events) - 1) = Len(events) - 1
      BY <1>1, <2>3, FS_Interval
    <3>2. QED
      BY <2>2, <3>1 DEF StepEvents
  <2>5. QED
    BY <1>1, <1>2, <1>3, <1>4, <2>4, StepsAssumption DEF EventCount
<1>5. CASE node \notin {"close", "done"}
  <2>1. {i \in DOMAIN events : events[i] # FinalEvent} = 1 .. Len(events)
    BY <1>1, <1>5 DEF IInv, Journal
  <2>2. StepEvents = Len(events)
    <3>1. Cardinality(1 .. Len(events)) = Len(events)
      BY <1>1, FS_Interval
    <3>2. QED
      BY <2>1, <3>1 DEF StepEvents
  <2>3. QED
    BY <1>1, <1>2, <1>3, <1>5, <2>2 DEF EventCount
<1>6. QED
  BY <1>4, <1>5

\* A step emits nothing, one event that is not the final one, the final one,
\* or is the return or the exception.
LEMMA StepShapes ==
    ASSUME IInv, Next
    PROVE  \/ /\ events' = events
              /\ node' = node
                     \/ {node, node'} \cap {"close", "done", "raised"} = {}
           \/ /\ \E e : events' = Append(events, e)
              /\ {node, node'} \cap {"close", "done", "raised"} = {}
           \/ events' = Append(events, FinalEvent) /\ node = "end" /\ node' = "close"
           \/ events' = events /\ node = "close" /\ node' = "done"
           \/ events' = events /\ node = "raise" /\ node' = "raised"
<1>1. CASE Mission
  <2>1. MissionThread
    BY <1>1 DEF Mission
  <2>2. CASE StartClient \/ ClientConnected \/ ConnectTimesOut
    BY <2>2 DEF StartClient, ClientConnected, ConnectTimesOut, EndWith
  <2>3. CASE PlannerNode
    BY <2>3 DEF PlannerNode, PlannerStops, PlannerAsks, PlannerFails,
                PlannerEnds, PlannerCalls, UnknownToolCalled, EndWith, Emit
  <2>4. CASE ExecuteCancelled \/ Request \/ Publish \/ Announce
    BY <2>4 DEF ExecuteCancelled, Request, Publish, Announce, OnlyMoves,
                EndWith, Emit
  <2>5. CASE ToolRejected \/ RequestRefused \/ PublishFails \/ Answered
                 \/ TimesOut
    <3>1. PICK code, published, early :
              /\ code \in Codes \cup {"none"}
              /\ FinishStep(code, published, early)
              /\ early = IF code = "not_allowed"
                         THEN <<Event("safety_rejected", nextSeq)>> ELSE <<>>
      BY <2>5, TypeParts DEF ToolRejected, RequestRefused, PublishFails,
         Answered, TimesOut, IInv, WireTypes, Codes, LocalCodes, DeviceCodes
    <3>2. node \in {"execute", "publish", "wait"} /\ node' = "decide"
      BY <2>5, <3>1 DEF ToolRejected, RequestRefused, PublishFails, Answered,
         TimesOut, FinishStep
    <3>3. events \in Seq(EventRecord)
          /\ \A p \in Phases : Event(p, nextSeq) \in EventRecord
      BY TypeParts, StepsAssumption
         DEF IInv, ListTypes, GraphTypes, Event, EventRecord
    <3>4. events' = Append(events, StepEvent(code))
      <4>1. CASE code = "not_allowed"
        BY <3>1, <3>3, <4>1 DEF FinishStep, Observed, StepEvent, Phases
      <4>2. CASE code # "not_allowed"
        BY <3>1, <3>3, <4>2 DEF FinishStep, Observed, StepEvent, Phases
      <4>3. QED
        BY <4>1, <4>2
    <3>5. QED
      BY <3>2, <3>4
  <2>6. CASE DecideEnds \/ DecideContinues
    BY <2>6 DEF DecideEnds, DecideContinues, EndWith, OnlyMoves, Emit
  <2>7. CASE OnFinal \/ CloseClient
    BY <2>7 DEF OnFinal, CloseClient, OnlyMoves
  <2>8. QED
    BY <2>1, <2>2, <2>3, <2>4, <2>5, <2>6, <2>7 DEF MissionThread, ExecuteNode
<1>2. CASE Network \/ RequestCancel \/ TellDevice \/ Done
               \/ \E n \in commands, code \in DeviceCodes :
                      DeviceAnswers(n, code)
  BY <1>2 DEF Network, RequestCancel, TellDevice, DeviceAnswers, Done, vars,
              graphVars
<1>3. QED
  BY <1>1, <1>2 DEF Next

\* Every step of the loop is one of the contract's or a stutter.
LEMMA LoopStepAllowed ==
    ASSUME IInv, EventCount, EventCount', [Next]_vars
    PROVE  [Contract!Next]_(Contract!vars)
<1> USE DEF Contract!Next, Contract!vars
<1> DEFINE ended == CASE node = "done" -> "returned"
                      [] node = "raised" -> "raised"
                      [] OTHER -> "no"
<1>1. CASE UNCHANGED vars
  BY <1>1 DEF vars, graphVars, StepEvents
<1>2. CASE Next /\ events' = events
               /\ (node' = node
                     \/ {node, node'} \cap {"close", "done", "raised"} = {})
  <2>1. StepEvents' = StepEvents
    BY <1>2 DEF StepEvents
  <2>2. ended' = ended
        /\ Contains(events, FinalEvent)' = Contains(events, FinalEvent)
    BY <1>2
  <2>3. QED
    BY <2>1, <2>2
<1>3. CASE {node, node'} \cap {"close", "done", "raised"} = {}
               /\ \E e : events' = Append(events, e)
  <2>1. Len(events') = Len(events) + 1
    BY <1>3, TypeParts DEF IInv, ListTypes
  <2>2. StepEvents' = StepEvents + 1 /\ StepEvents < 5 * MaxSteps
    <3>1. node \notin {"close", "done"} /\ node' \notin {"close", "done"}
      BY <1>3
    <3>2. /\ StepEvents = Len(events) /\ Len(events) \in Nat
          /\ StepEvents' = Len(events') /\ StepEvents' <= 5 * MaxSteps
      BY <3>1 DEF EventCount
    <3>3. QED
      BY <2>1, <3>2, StepsAssumption
  <2>3. /\ ~Contains(events, FinalEvent)
        /\ Contains(events, FinalEvent)' = Contains(events, FinalEvent)
        /\ ended = "no" /\ ended' = "no"
    BY <1>3 DEF EventCount, Contains
  <2>4. Contract!EmitStep
    BY <2>2, <2>3 DEF Contract!EmitStep
  <2>5. QED
    BY <2>4
<1>4. CASE events' = Append(events, FinalEvent)
               /\ node = "end" /\ node' = "close"
  <2>1. Len(events') = Len(events) + 1
    BY <1>4, TypeParts DEF IInv, ListTypes
  <2>2. StepEvents' = StepEvents
    BY <1>4, <2>1 DEF EventCount
  <2>3. ~Contains(events, FinalEvent) /\ Contains(events, FinalEvent)'
        /\ ended = "no" /\ ended' = "no"
    BY <1>4 DEF EventCount
  <2>4. Contract!EmitFinal
    BY <2>2, <2>3 DEF Contract!EmitFinal
  <2>5. QED
    BY <2>4
<1>5. CASE events' = events /\ node = "close" /\ node' = "done"
  <2>1. StepEvents' = StepEvents
    BY <1>5 DEF StepEvents
  <2>2. Contains(events, FinalEvent) /\ Contains(events, FinalEvent)'
    BY <1>5 DEF EventCount
  <2>3. Contract!Return
    BY <1>5, <2>1, <2>2 DEF Contract!Return
  <2>4. QED
    BY <2>3
<1>6. CASE events' = events /\ node = "raise" /\ node' = "raised"
  <2>1. StepEvents' = StepEvents
    BY <1>6 DEF StepEvents
  <2>2. ~Contains(events, FinalEvent) /\ ~Contains(events, FinalEvent)'
    BY <1>6 DEF EventCount
  <2>3. Contract!Raise
    BY <1>6, <2>1, <2>2 DEF Contract!Raise
  <2>4. QED
    BY <2>3
<1>7. QED
  BY <1>1, <1>2, <1>3, <1>4, <1>5, <1>6, StepShapes

\* For every limit of steps the loop says at most five things a step, and
\* behind them either one final one and returns, or raises.
THEOREM LoopKeepsContract == Spec => Contract!Safety
<1>1. Init => Contract!Init
  <2> SUFFICES ASSUME Init PROVE Contract!Init
    OBVIOUS
  <2>1. events = <<>> /\ node = "start"
    BY DEF Init, GraphInit
  <2>2. {i \in DOMAIN events : events[i] # FinalEvent} = {}
    BY <2>1
  <2>3. StepEvents = 0 /\ ~Contains(events, FinalEvent)
    BY <2>1, <2>2, FS_EmptySet DEF StepEvents, Contains
  <2>4. QED
    BY <2>1, <2>3 DEF Contract!Init
<1>2. IInv => EventCount
  BY EventsCounted
<1>3. IInv /\ EventCount /\ EventCount' /\ [Next]_vars
          => [Contract!Next]_(Contract!vars)
  BY LoopStepAllowed
<1>4. QED
  BY <1>1, <1>2, <1>3, LoopInductive, PTL DEF Spec, Contract!Safety

-----------------------------------------------------------------------------
(* The journal is evidence of what was done.                               *)

Published(n) == Event("published", n)

\* The inductive invariant of the evidence: a command is announced while its
\* step waits for the answer, and the step it becomes says so; nothing else
\* is behind an announcement before that.
Evidenced ==
    /\ \A i \in DOMAIN steps :
           steps[i].published <=> Contains(events, Published(i))
    /\ \A n \in Seqs : Contains(events, Published(n)) =>
           n \in sent /\ (n \in DOMAIN steps \/ (n = nextSeq /\ node = "wait"))
    /\ node = "wait" => Contains(events, Published(nextSeq))
    /\ events # <<>> /\ events[Len(events)].phase = "published" => node = "wait"

LEMMA ContainsAppend ==
    ASSUME NEW s, s \in Seq(EventRecord), NEW e, NEW x
    PROVE  Contains(Append(s, e), x) <=> Contains(s, x) \/ x = e
<1>1. /\ Len(Append(s, e)) = Len(s) + 1 /\ Len(s) \in Nat
      /\ \A i \in 1 .. Len(s) : Append(s, e)[i] = s[i]
      /\ Append(s, e)[Len(s) + 1] = e
  OBVIOUS
<1>2. QED
  BY <1>1 DEF Contains

\* Nothing is announced and no step taken.
LEMMA NoNewEvidence ==
    ASSUME IInv, Evidenced, steps' = steps, nextSeq' = nextSeq, sent \subseteq sent',
           \/ events' = events /\ (node = "wait" <=> node' = "wait")
           \/ /\ \E e : events' = Append(events, e) /\ e.phase # "published"
              /\ node # "wait" /\ node' # "wait"
    PROVE  Evidenced'
<1>1. CASE events' = events /\ (node = "wait" <=> node' = "wait")
  BY <1>1 DEF Evidenced
<1>2. CASE /\ \E e : events' = Append(events, e) /\ e.phase # "published"
           /\ node # "wait" /\ node' # "wait"
  <2>1. PICK e : events' = Append(events, e) /\ e.phase # "published"
    BY <1>2
  <2>2. events \in Seq(EventRecord)
    BY TypeParts DEF IInv, ListTypes
  <2>3. \A n : Contains(events', Published(n)) <=> Contains(events, Published(n))
    BY <2>1, <2>2, ContainsAppend DEF Published, Event
  <2>4. events'[Len(events')] = e
    BY <2>1, <2>2
  <2>5. QED
    BY <1>2, <2>1, <2>3, <2>4 DEF Evidenced
<1>3. QED
  BY <1>1, <1>2

LEMMA AnnounceEvidenced ==
    ASSUME IInv, Evidenced, Announce
    PROVE  Evidenced'
<1>1. /\ events' = Append(events, Published(nextSeq)) /\ node' = "wait"
      /\ UNCHANGED <<steps, nextSeq, sent>> /\ node = "announce"
  BY DEF Announce, OnlyMoves, Emit, Published, clientVars, networkVars
<1>2. /\ events \in Seq(EventRecord) /\ DOMAIN steps = 1 .. stepCount
      /\ nextSeq = stepCount + 1 /\ stepCount \in Nat
  BY TypeParts DEF IInv, ListTypes, GraphTypes
<1>3. \A n : Contains(events', Published(n))
                 <=> Contains(events, Published(n)) \/ n = nextSeq
  BY <1>1, <1>2, ContainsAppend DEF Published, Event
<1>4. nextSeq \in sent
  BY <1>1 DEF IInv, Sending
<1>5. nextSeq \notin DOMAIN steps
  BY <1>2
<1>6. QED
  BY <1>1, <1>3, <1>4, <1>5 DEF Evidenced

\* A step that ends says it was published exactly if it waited for an answer.
LEMMA FinishEvidenced ==
    ASSUME IInv, Evidenced, sent \subseteq sent', NEW code, NEW published, NEW e,
           node \in {"execute", "publish", "wait"},
           events' = Append(events, e), e.phase # "published",
           steps' = Append(steps, [seq |-> nextSeq, code |-> code,
                                   published |-> published]),
           nextSeq' = nextSeq + 1, node' = "decide",
           published = (node = "wait")
    PROVE  Evidenced'
<1>1. /\ events \in Seq(EventRecord) /\ steps \in Seq(StepRecord)
      /\ Len(steps) = stepCount /\ nextSeq = stepCount + 1 /\ stepCount \in Nat
  BY TypeParts DEF IInv, ListTypes, GraphTypes
<1>2. /\ DOMAIN steps' = 1 .. nextSeq /\ DOMAIN steps = 1 .. stepCount
      /\ \A i \in DOMAIN steps : steps'[i] = steps[i]
      /\ steps'[nextSeq].published = published
  BY <1>1
<1>3. \A n : Contains(events', Published(n)) <=> Contains(events, Published(n))
  BY <1>1, ContainsAppend DEF Published, Event
<1>4. events'[Len(events')] = e
  BY <1>1
<1>5. ASSUME NEW i \in DOMAIN steps'
      PROVE  steps'[i].published <=> Contains(events', Published(i))
  <2>1. CASE i \in DOMAIN steps
    BY <1>2, <1>3, <2>1 DEF Evidenced
  <2>2. CASE i \notin DOMAIN steps
    <3>1. i = nextSeq
      BY <1>1, <1>2, <2>2
    <3>2. nextSeq \in Seqs
      BY <1>1, StepsAssumption DEF IInv, Stages, Running, Seqs
    <3>3. node # "wait" => ~Contains(events, Published(i))
      BY <2>2, <3>1, <3>2 DEF Evidenced
    <3>4. node = "wait" => Contains(events, Published(i))
      BY <3>1 DEF Evidenced
    <3>5. QED
      BY <1>2, <1>3, <3>1, <3>3, <3>4
  <2>3. QED
    BY <2>1, <2>2
<1>6. ASSUME NEW n \in Seqs, Contains(events', Published(n))
      PROVE  n \in sent' /\ n \in DOMAIN steps'
  <2>1. n \in sent /\ (n \in DOMAIN steps \/ n = nextSeq)
    BY <1>3, <1>6 DEF Evidenced
  <2>2. QED
    BY <1>1, <1>2, <2>1
<1>7. QED
  BY <1>4, <1>5, <1>6 DEF Evidenced

LEMMA MissionEvidenced ==
    ASSUME IInv, Evidenced, Mission
    PROVE  Evidenced'
<1>1. MissionThread
  BY DEF Mission
<1>2. CASE StartClient \/ ClientConnected \/ ConnectTimesOut
  BY <1>2, NoNewEvidence DEF StartClient, ClientConnected, ConnectTimesOut, EndWith,
     OnlyEnds, Start, Stop, clientVars, networkVars
<1>3. CASE PlannerNode
  <2>1. UNCHANGED <<steps, nextSeq, sent>> /\ node # "wait" /\ node' # "wait"
    BY <1>3 DEF PlannerNode, PlannerStops, PlannerAsks, PlannerFails, PlannerEnds,
       PlannerCalls, UnknownToolCalled, OnlyEnds, EndWith, clientVars, networkVars
  <2>2. \/ events' = events
        \/ events' = Append(events, Event("planning", nextSeq))
        \/ events' = Append(events, Event("tool_call", nextSeq))
    BY <1>3 DEF PlannerNode, PlannerStops, PlannerAsks, PlannerFails, PlannerEnds,
       PlannerCalls, UnknownToolCalled, Emit
  <2>3. QED
    BY <2>1, <2>2, NoNewEvidence DEF Event
<1>4. CASE ExecuteCancelled \/ Request \/ Publish
  BY <1>4, NoNewEvidence DEF ExecuteCancelled, Request, Publish, OnlyMoves, EndWith,
     OnlyEnds, Register, PutInFlight, clientVars, networkVars
<1>5. CASE Announce
  BY <1>5, AnnounceEvidenced
<1>6. CASE ToolRejected \/ RequestRefused \/ PublishFails \/ Answered \/ TimesOut
  <2>1. PICK code, published, early :
            /\ FinishStep(code, published, early)
            /\ early = IF code = "not_allowed"
                       THEN <<Event("safety_rejected", nextSeq)>> ELSE <<>>
            /\ published = (node = "wait")
            /\ node \in {"execute", "publish", "wait"}
    BY <1>6, TypeParts DEF ToolRejected, RequestRefused, PublishFails, Answered,
       TimesOut, IInv, WireTypes, DeviceCodes
  <2>2. sent \subseteq sent'
    BY <1>6 DEF ToolRejected, RequestRefused, PublishFails, Answered, TimesOut,
       PutInFlight, clientVars, networkVars
  <2>3. events \in Seq(EventRecord)
        /\ \A p \in Phases : Event(p, nextSeq) \in EventRecord
    BY TypeParts, StepsAssumption DEF IInv, ListTypes, GraphTypes, Event, EventRecord
  <2>4. events' = Append(events, StepEvent(code))
    <3>1. CASE code = "not_allowed"
      BY <2>1, <2>3, <3>1 DEF FinishStep, Observed, StepEvent, Phases
    <3>2. CASE code # "not_allowed"
      BY <2>1, <2>3, <3>2 DEF FinishStep, Observed, StepEvent, Phases
    <3>3. QED
      BY <3>1, <3>2
  <2>5. StepEvent(code).phase # "published"
    BY DEF StepEvent, Event
  <2>6. /\ steps' = Append(steps, [seq |-> nextSeq, code |-> code,
                                   published |-> published])
        /\ nextSeq' = nextSeq + 1 /\ node' = "decide"
    BY <2>1 DEF FinishStep
  <2>7. QED
    BY <2>1, <2>2, <2>4, <2>5, <2>6, FinishEvidenced
<1>7. CASE DecideEnds \/ DecideContinues
  <2>1. UNCHANGED <<steps, nextSeq, sent>> /\ node # "wait" /\ node' # "wait"
    BY <1>7 DEF DecideEnds, DecideContinues, OnlyEnds, OnlyMoves, EndWith,
       clientVars, networkVars
  <2>2. events' = events \/ events' = Append(events, Event("replanning", nextSeq))
    BY <1>7 DEF DecideEnds, DecideContinues, Emit
  <2>3. QED
    BY <2>1, <2>2, NoNewEvidence DEF Event
<1>8. CASE OnFinal \/ CloseClient
  <2>1. UNCHANGED <<steps, nextSeq, sent>> /\ node # "wait" /\ node' # "wait"
    BY <1>8 DEF OnFinal, CloseClient, OnlyMoves, Stop, clientVars, networkVars
  <2>2. events' = events \/ events' = Append(events, FinalEvent)
    BY <1>8 DEF OnFinal, CloseClient
  <2>3. QED
    BY <2>1, <2>2, NoNewEvidence DEF FinalEvent, Event
<1>9. QED
  BY <1>1, <1>2, <1>3, <1>4, <1>5, <1>6, <1>7, <1>8 DEF MissionThread, ExecuteNode

LEMMA EvidencedNext == IInv /\ Evidenced /\ [Next]_vars => Evidenced'
<1> SUFFICES ASSUME IInv, Evidenced, [Next]_vars PROVE Evidenced'
  OBVIOUS
<1>1. CASE Mission
  BY <1>1, MissionEvidenced
<1>2. CASE \/ Network \/ RequestCancel \/ TellDevice \/ Done \/ UNCHANGED vars
           \/ \E n \in commands, code \in DeviceCodes : DeviceAnswers(n, code)
  <2>1. UNCHANGED <<steps, nextSeq, events, node>> /\ sent' = sent
    BY <1>2 DEF Network, RequestCancel, TellDevice, DeviceAnswers, Done, vars,
       graphVars, clientVars, networkVars, NetworkThread, Connects, Subscribes,
       Disconnects, ConnectFails, OnMessage, Lose
  <2>2. QED
    BY <2>1, NoNewEvidence
<1>3. QED
  BY <1>1, <1>2 DEF Next

\* In the journal of a run that is over, a published event stands between the
\* call and the observation of its step, and a final event behind them.
LEMMA VerifiedRuns ==
    ASSUME IInv, Evidenced, node \in {"done", "raised"}
    PROVE  Verified <=> \E i \in DOMAIN steps : steps[i].published
<1>1. /\ events \in Seq(EventRecord) /\ EventsInOrder /\ Len(events) \in Nat
      /\ DOMAIN steps \subseteq Seqs
      /\ node = "done" => events # <<>> /\ events[Len(events)] = FinalEvent
  <2>1. ListTypes /\ GraphTypes /\ Journal
    BY TypeParts DEF IInv
  <2>2. events \in Seq(EventRecord) /\ DOMAIN steps = 1 .. stepCount
        /\ stepCount \in 0 .. MaxSteps
    BY <2>1 DEF ListTypes, GraphTypes
  <2>3. QED
    BY <2>1, <2>2, StepsAssumption DEF Journal, Seqs
<1> DEFINE last == Len(FullJournal)
<1>2. /\ DOMAIN FullJournal = 1 .. last /\ last \in Nat \ {0}
      /\ FullJournal[last] = FinalEvent
      /\ last = Len(events) \/ last = Len(events) + 1
      /\ \A i \in 1 .. Len(events) : FullJournal[i] = events[i]
      /\ last = Len(events) + 1 => node = "raised"
  <2>1. CASE node = "done"
    BY <1>1, <2>1 DEF FullJournal
  <2>2. CASE node = "raised"
    <3>1. FullJournal = Append(events, FinalEvent)
      BY <2>2 DEF FullJournal
    <3>2. QED
      BY <1>1, <2>2, <3>1
  <2>3. QED
    BY <2>1, <2>2
<1> HIDE DEF last
<1>3. ASSUME Verified
      PROVE  \E i \in DOMAIN steps : steps[i].published
  <2>1. PICK n \in Seqs : \E j \in 1 .. last : FullJournal[j] = Published(n)
    BY <1>2, <1>3 DEF Verified, Published
  <2>2. PICK j \in 1 .. last : FullJournal[j] = Published(n)
    BY <2>1
  <2>3. j \in 1 .. Len(events) /\ events[j] = Published(n)
    <3>1. j # last
      BY <1>2, <2>2 DEF Published, FinalEvent, Event
    <3>2. j \in 1 .. Len(events)
      BY <1>1, <1>2, <3>1
    <3>3. QED
      BY <1>2, <2>2, <3>2
  <2>4. Contains(events, Published(n))
    BY <1>1, <2>3 DEF Contains
  <2>5. n \in DOMAIN steps
    BY <2>4 DEF Evidenced
  <2>6. QED
    BY <2>4, <2>5 DEF Evidenced
<1>4. ASSUME NEW n \in DOMAIN steps, steps[n].published
      PROVE  Verified
  <2>1. n \in Seqs /\ n \in Nat /\ Contains(events, Published(n))
    BY <1>1, <1>4 DEF Evidenced, Seqs
  <2>2. PICK j \in 1 .. Len(events) : events[j] = Published(n)
    BY <1>1, <2>1 DEF Contains
  <2>3. j # Len(events)
    <3>1. events # <<>> /\ events[j].phase = "published"
      BY <1>1, <2>2 DEF Published, Event
    <3>2. QED
      BY <3>1 DEF Evidenced
  <2>4. j + 1 \in 1 .. Len(events) /\ events[j + 1] = Event("observation", n)
    <3>1. j + 1 \in 1 .. Len(events)
      BY <1>1, <2>3
    <3>2. events[j + 1] \in Successors(events[j])
      <4>1. j + 1 \in DOMAIN events /\ j + 1 # 1 /\ (j + 1) - 1 = j
        BY <1>1, <3>1
      <4>2. QED
        BY <1>1, <4>1 DEF EventsInOrder
    <3>3. QED
      BY <2>1, <2>2, <3>1, <3>2, SuccessorsOf DEF Published
  <2>5. j # 1 /\ j - 1 \in 1 .. Len(events) /\ events[j - 1] = Event("tool_call", n)
    <3>1. j # 1
      BY <1>1, <2>2 DEF EventsInOrder, Published, FinalEvent, Event
    <3>2. j - 1 \in 1 .. Len(events) /\ events[j] \in Successors(events[j - 1])
      BY <1>1, <3>1 DEF EventsInOrder
    <3>3. events[j - 1] \in EventRecord
      BY <1>1, <3>2
    <3>4. events[j - 1].phase = "tool_call" /\ events[j - 1].seq = n
      BY <2>2, <3>2, <3>3 DEF Successors, Published, FinalEvent, Event
    <3>5. QED
      BY <3>1, <3>2, <3>3, <3>4 DEF EventRecord, Event
  <2>6. j + 1 < last
    <3>1. FullJournal[j + 1] # FinalEvent
      BY <1>2, <2>4 DEF FinalEvent, Event
    <3>2. j + 1 # last
      BY <1>2, <3>1
    <3>3. QED
      BY <1>1, <1>2, <2>4, <3>2
  <2>7. /\ j - 1 \in DOMAIN FullJournal /\ j \in DOMAIN FullJournal
        /\ j + 1 \in DOMAIN FullJournal /\ last \in DOMAIN FullJournal
        /\ j - 1 < j /\ j < j + 1
    BY <1>1, <1>2, <2>4, <2>5, <2>6
  <2>8. /\ FullJournal[j - 1] = Event("tool_call", n)
        /\ FullJournal[j] = Event("published", n)
        /\ FullJournal[j + 1] = Event("observation", n)
    BY <1>2, <2>2, <2>4, <2>5 DEF Published
  <2>9. QED
    BY <1>2, <2>1, <2>6, <2>7, <2>8 DEF Verified
<1>5. QED
  BY <1>3, <1>4

\* What the journal shows is what happened, for any number of steps: a step
\* counts as published exactly if it was announced, what was announced was
\* sent, and the evidence of a tool chain is there exactly if there was one.
THEOREM EvidenceAgreesHolds == Spec => []EvidenceAgrees
<1>1. Init => Evidenced
  BY DEF Init, GraphInit, Evidenced, Contains
<1>2. IInv /\ Evidenced => EvidenceAgrees
  BY VerifiedRuns DEF EvidenceAgrees, Evidenced, Published
<1>3. QED
  BY <1>1, <1>2, EvidencedNext, LoopInductive, PTL DEF Spec
=============================================================================
