----------------------- MODULE RunCoordinatorsProofs -----------------------
(***************************************************************************)
(* What the runs of the runtime keep for any number of runs and callers,   *)
(* any journal and capture size and every interleaving.                    *)
(***************************************************************************)
EXTENDS RunCoordinators, TLAPS

Submitting(c) == call[c].op = "submit"

\* Where the mission that holds the gate is: one caller is still submitting
\* it, or it is queued, or the worker has it; and what its record says there.
MissionStages ==
    /\ \A c \in Callers : Submitting(c) =>
           /\ call[c].run = lease /\ lease \in Missions
           /\ activeMission = lease
           /\ missionQueue = <<>> /\ missionPc = "idle"
           /\ \A d \in Callers : Submitting(d) => d = c
    /\ missionQueue # <<>> =>
           /\ missionQueue = <<lease>> /\ lease \in Missions
           /\ activeMission = lease
           /\ missionPc = "idle"
    /\ missionPc # "idle" =>
           missionTask = lease /\ lease \in Missions /\ missionQueue = <<>>
    /\ missionPc \in {"running", "returned", "concluding", "finishing"} =>
           activeMission = lease
    /\ missionPc \in {"notifying", "releasing"} => activeMission = NoRun
    /\ activeMission # NoRun => activeMission = lease
    /\ lease \in Missions => currentMission = lease

MissionRecord ==
    /\ lease # NoRun => lease \in issued
    /\ currentMission # NoRun => currentMission \in issued
    /\ cancelSet \subseteq issued
    /\ \A i \in DOMAIN journal : journal[i] \in FinalStatus => i = Len(journal)
    /\ (\E c \in Callers : Submitting(c)) \/ missionQueue # <<>> => ~HasFinal
    /\ missionPc \in {"returned", "concluding"} => missionResult \in FinalStatus
    /\ missionPc = "running" /\ HasFinal => missionResult \in FinalStatus
    /\ missionPc = "finishing" => HasFinal
    /\ missionPc \in {"notifying", "releasing"} =>
           HasFinal /\ missionResult = Last(journal)
    /\ missionStatus = "finished" =>
           /\ HasFinal /\ missionFinal = Last(journal)
           /\ activeMission = NoRun

FaultStages ==
    /\ faultQueue # <<>> =>
           /\ faultQueue = <<lease>> /\ lease \in Faults
           /\ faultPc = "idle" /\ faultStatus # "finished"
    /\ faultPc # "idle" =>
           /\ faultTask = lease /\ lease \in Faults /\ faultQueue = <<>>
           /\ faultResult \in FaultResult
    /\ faultPc \in {"announcing", "running", "cleaning", "finishing"} =>
           faultStatus # "finished"
    /\ faultPc \in {"notifying", "releasing"} =>
           faultStatus = "finished" /\ faultFinal \in FaultResult
    /\ lease \in Faults => currentFault = lease
    /\ faultStatus # "finished" => evidence < MaxEvidence
    /\ faultStatus = "finished" => finalRecorded

\* When a run's capture is open: from its announcement to its completion.
CaptureStages ==
    /\ recorderState = "recording" <=> capture.run # NoRun
    /\ capture.run # NoRun =>
           /\ capture.run = lease
           /\ missionPc # "releasing" /\ faultPc # "releasing"
    /\ missionQueue # <<>> => capture.run = lease
    /\ missionPc \notin {"idle", "releasing"} => capture.run = lease
    /\ faultPc \notin {"idle", "announcing", "releasing"} => capture.run = lease

\* An open capture begins with its start frame, as soon as there is a frame
\* at all, and has no terminal one yet.
CaptureFrames ==
    /\ Len(capture.frames) <= MaxFrames
    /\ capture.frames # <<>> => capture.frames[1].reason = "start"
    /\ \A i \in DOMAIN capture.frames : capture.frames[i].reason # "terminal"
    /\ capture.run # NoRun => (latestFrame # 0 <=> capture.frames # <<>>)

BundleStages ==
    recorderState = "ready"
        /\ (lease = NoRun \/ missionPc = "releasing" \/ faultPc = "releasing")
    => \/ bundle.run = currentMission /\ bundle.verdict = Last(journal)
       \/ bundle.run = currentFault /\ bundle.verdict = faultFinal

\* The inductive invariant: who is at which stage of a run decides who may
\* touch the gate, the journal and the capture.
IInv ==
    /\ TypeOK
    /\ MissionStages
    /\ MissionRecord
    /\ FaultStages
    /\ CaptureStages
    /\ CaptureFrames
    /\ BundleStages
    /\ CancelHonoured

-----------------------------------------------------------------------------
\* One more event at the end of a journal.
LEMMA JournalGrows ==
    ASSUME NEW S, NEW s \in Seq(S), NEW e \in S
    PROVE  /\ Append(s, e) \in Seq(S)
           /\ Append(s, e) # <<>>
           /\ Len(Append(s, e)) = Len(s) + 1
           /\ Last(Append(s, e)) = e
           /\ \A i \in DOMAIN s : Append(s, e)[i] = s[i]
           /\ DOMAIN Append(s, e) = DOMAIN s \cup {Len(s) + 1}
BY DEF Last

\* The queue of an executor that had nothing to do.
LEMMA QueueOfOne ==
    ASSUME NEW x
    PROVE  /\ Head(<<x>>) = x
           /\ Tail(<<x>>) = <<>>
           /\ Append(<<>>, x) = <<x>>
           /\ <<x>> # <<>>
OBVIOUS

LEMMA InitIInv == Init => IInv
<1> SUFFICES ASSUME Init PROVE IInv
  OBVIOUS
<1> USE DEF Init, GateInit, RecorderInit, MissionInit, FaultInit
<1>1. TypeOK
  <2>1. /\ capture \in [run : Runs \cup {NoRun}, frames : Seq(FrameSample),
                        truncated : BOOLEAN]
        /\ bundle \in [run : Runs \cup {NoRun}, frames : Seq(FrameSample),
                       verdict : FinalStatus \cup FaultResult \cup {"none"}]
    BY DEF NoCapture, Opened, NoBundle
  <2>2. call \in [Callers -> CallState] /\ handled \in [Missions -> Nat]
    BY DEF CallState, OutsideCall
  <2>3. evidence \in 0 .. MaxEvidence /\ latestFrame \in 0 .. MaxRevision
    BY RecorderAssumption, FaultAssumption
  <2>4. /\ journal \in Seq({"user_goal", "step"} \cup FinalStatus)
        /\ missionQueue \in Seq(Missions) /\ faultQueue \in Seq(Faults)
    OBVIOUS
  <2>5. lease \in Runs \cup {NoRun} /\ issued \subseteq Runs
    OBVIOUS
  <2> HIDE DEF RecorderInit
  <2>6. recorderState \in {"idle", "recording", "ready", "invalid"}
    BY DEF RecorderInit
  <2>7. QED
    BY <2>1, <2>2, <2>3, <2>4, <2>5, <2>6 DEF TypeOK
<1>2. MissionStages /\ MissionRecord
  BY RunAssumption
  DEF MissionStages, MissionRecord, Submitting, OutsideCall, HasFinal
<1>3. FaultStages
  BY RunAssumption, FaultAssumption DEF FaultStages
<1>4. CaptureStages /\ CaptureFrames /\ BundleStages
  BY RecorderAssumption
  DEF CaptureStages, CaptureFrames, BundleStages, NoCapture, Opened
<1>5. CancelHonoured
  BY DEF CancelHonoured
<1>6. QED
  BY <1>1, <1>2, <1>3, <1>4, <1>5 DEF IInv

-----------------------------------------------------------------------------
(* The recorder.                                                           *)

\* What appending a frame does to a capture that is typed, bounded and opened
\* by a start frame.
LEMMA AppendFrameKeeps ==
    ASSUME NEW c \in [run : Runs \cup {NoRun}, frames : Seq(FrameSample),
                      truncated : BOOLEAN],
           NEW revision \in Nat, NEW reason \in {"start", "change", "terminal"},
           Len(c.frames) <= MaxFrames,
           c.frames # <<>> => c.frames[1].reason = "start",
           c.frames = <<>> => reason = "start"
    PROVE  LET after == AppendFrame(c, revision, reason)
           IN  /\ after \in [run : Runs \cup {NoRun}, frames : Seq(FrameSample),
                             truncated : BOOLEAN]
               /\ after.run = c.run
               /\ Len(after.frames) <= MaxFrames
               /\ after.frames # <<>>
               /\ after.frames[1].reason = "start"
               /\ reason = "terminal" => Last(after.frames).reason = "terminal"
               /\ reason # "terminal" =>
                      \A i \in DOMAIN after.frames :
                          \/ i \in DOMAIN c.frames
                                 /\ after.frames[i] = c.frames[i]
                          \/ after.frames[i].reason = reason
<1> DEFINE after == AppendFrame(c, revision, reason)
           sample == Sample(revision, reason)
           Captures == [run : Runs \cup {NoRun}, frames : Seq(FrameSample),
                        truncated : BOOLEAN]
<1>0. c.frames \in Seq(FrameSample) /\ sample \in FrameSample
      /\ sample.reason = reason
  BY DEF Sample, FrameSample
<1>1. CASE Repeated(c.frames, revision, reason)
  <2>1. after = c
    BY <1>1 DEF AppendFrame
  <2>2. c.frames # <<>> /\ (reason = "terminal" => Last(c.frames).reason = "terminal")
    BY <1>1 DEF Repeated
  <2>3. QED
    BY <2>1, <2>2
<1>2. CASE ~Repeated(c.frames, revision, reason) /\ Len(c.frames) < MaxFrames
  <2> DEFINE fs == Append(c.frames, sample)
  <2>1. after = [c EXCEPT !.frames = fs]
    BY <1>2 DEF AppendFrame
  <2>2. fs \in Seq(FrameSample) /\ fs # <<>> /\ Last(fs) = sample
        /\ Len(fs) = Len(c.frames) + 1
        /\ \A i \in DOMAIN fs : (i \in DOMAIN c.frames /\ fs[i] = c.frames[i])
                                 \/ fs[i] = sample
    BY <1>0, JournalGrows
  <2>3. fs[1].reason = "start"
    BY <1>0
  <2>4. Len(fs) <= MaxFrames
    BY <1>0, <1>2, <2>2, RecorderAssumption
  <2> HIDE DEF fs, sample
  <2>5. after \in Captures /\ after.frames = fs /\ after.run = c.run
    BY <2>1, <2>2
  <2> HIDE DEF after
  <2>6. QED
    BY <1>0, <2>2, <2>3, <2>4, <2>5 DEF after
<1>3. CASE ~Repeated(c.frames, revision, reason) /\ ~(Len(c.frames) < MaxFrames)
  <2>0. Len(c.frames) = MaxFrames /\ c.frames # <<>>
    BY <1>0, <1>3, RecorderAssumption
  <2>1. CASE reason = "terminal"
    <3> DEFINE fs == Append(Front(c.frames), sample)
    <3>1. after = [c EXCEPT !.truncated = TRUE, !.frames = fs]
      BY <1>3, <2>1 DEF AppendFrame
    <3>2. /\ Front(c.frames) \in Seq(FrameSample)
          /\ Len(Front(c.frames)) = MaxFrames - 1
          /\ Front(c.frames)[1] = c.frames[1]
      BY <1>0, <2>0, RecorderAssumption DEF Front
    <3>3. fs \in Seq(FrameSample) /\ fs # <<>> /\ Last(fs) = sample
          /\ Len(fs) = MaxFrames
      BY <1>0, <3>2, JournalGrows, RecorderAssumption
    <3>4. fs[1] = c.frames[1]
      BY <1>0, <3>2, RecorderAssumption
    <3> HIDE DEF fs, sample
    <3>5. after \in Captures /\ after.frames = fs /\ after.run = c.run
      BY <3>1, <3>3
    <3> HIDE DEF after
    <3>6. QED
      BY <1>0, <2>0, <2>1, <3>3, <3>4, <3>5, RecorderAssumption DEF after
  <2>2. CASE reason # "terminal"
    <3>1. after = [c EXCEPT !.truncated = TRUE]
      BY <1>3, <2>2 DEF AppendFrame
    <3>2. after \in Captures /\ after.frames = c.frames /\ after.run = c.run
      BY <3>1
    <3>3. QED
      BY <2>0, <2>2, <3>2
  <2>3. QED
    BY <2>1, <2>2
<1>4. QED
  BY <1>1, <1>2, <1>3

LEMMA StartCaptureKeeps ==
    ASSUME TypeOK, CaptureFrames, NEW r \in Runs, StartCapture(r),
           recorderState = "recording" <=> capture.run # NoRun
    PROVE  /\ capture' \in [run : Runs \cup {NoRun}, frames : Seq(FrameSample),
                            truncated : BOOLEAN]
           /\ capture'.run = r
           /\ recorderState' = "recording"
           /\ UNCHANGED <<latestFrame, bundle>>
           /\ CaptureFrames'
<1>0. r # NoRun /\ UNCHANGED <<latestFrame, bundle>>
  BY RunAssumption DEF Runs, StartCapture
<1>1. CASE capture.run = r
  BY <1>0, <1>1 DEF StartCapture, TypeOK, CaptureFrames
<1>2. CASE capture.run # r
  <2> DEFINE opened == Opened(r)
  <2>1. /\ opened \in [run : Runs \cup {NoRun}, frames : Seq(FrameSample),
                       truncated : BOOLEAN]
        /\ opened.run = r /\ opened.frames = <<>> /\ Len(opened.frames) = 0
    BY DEF Opened
  <2>2. capture' = WithStart(opened) /\ recorderState' = "recording"
    BY <1>2 DEF StartCapture
  <2> HIDE DEF opened
  <2>3. CASE latestFrame = 0
    <3>1. capture' = opened
      BY <2>2, <2>3 DEF WithStart
    <3>2. CaptureFrames'
      BY <1>0, <2>1, <2>3, <3>1, RecorderAssumption DEF CaptureFrames
    <3>3. QED
      BY <1>0, <2>1, <2>2, <3>1, <3>2
  <2>4. CASE latestFrame # 0
    <3>1. capture' = AppendFrame(opened, latestFrame, "start")
      BY <2>2, <2>4 DEF WithStart
    <3>2. latestFrame \in Nat /\ Len(opened.frames) <= MaxFrames
      BY <2>1, RecorderAssumption DEF TypeOK
    <3>3. QED
      BY <1>0, <2>1, <2>2, <2>4, <3>1, <3>2, AppendFrameKeeps DEF CaptureFrames
  <2>5. QED
    BY <2>3, <2>4
<1>3. QED
  BY <1>1, <1>2

\* A frame reaches the capture of the run in progress, if there is one.
LEMMA OnFrameKeeps ==
    ASSUME TypeOK, CaptureFrames, NEW revision \in 1 .. MaxRevision,
           NEW changed \in BOOLEAN, OnFrame(revision, changed)
    PROVE  /\ capture' \in [run : Runs \cup {NoRun}, frames : Seq(FrameSample),
                            truncated : BOOLEAN]
           /\ capture'.run = capture.run
           /\ latestFrame' \in 0 .. MaxRevision
           /\ UNCHANGED <<recorderState, bundle>>
           /\ CaptureFrames'
<1>0. /\ latestFrame' = revision /\ latestFrame' # 0
      /\ latestFrame' \in 0 .. MaxRevision /\ revision \in Nat
      /\ UNCHANGED <<recorderState, bundle>>
      /\ capture \in [run : Runs \cup {NoRun}, frames : Seq(FrameSample),
                      truncated : BOOLEAN]
  BY RecorderAssumption DEF OnFrame, TypeOK
<1>1. CASE capture.run = NoRun \/ (capture.frames # <<>> /\ ~changed)
  <2>1. capture' = capture
    BY <1>1 DEF OnFrame
  <2>2. QED
    BY <1>0, <1>1, <2>1 DEF CaptureFrames
<1>2. ASSUME NEW reason \in {"start", "change"}, capture.run # NoRun,
             capture' = AppendFrame(capture, revision, reason),
             capture.frames = <<>> => reason = "start"
      PROVE  /\ capture' \in [run : Runs \cup {NoRun}, frames : Seq(FrameSample),
                              truncated : BOOLEAN]
             /\ capture'.run = capture.run
             /\ CaptureFrames'
  <2>1. /\ Len(capture.frames) <= MaxFrames
        /\ capture.frames # <<>> => capture.frames[1].reason = "start"
        /\ \A i \in DOMAIN capture.frames : capture.frames[i].reason # "terminal"
    BY DEF CaptureFrames
  <2> DEFINE after == AppendFrame(capture, revision, reason)
  <2>2. /\ after \in [run : Runs \cup {NoRun}, frames : Seq(FrameSample),
                      truncated : BOOLEAN]
        /\ after.run = capture.run /\ after.frames # <<>>
        /\ Len(after.frames) <= MaxFrames /\ after.frames[1].reason = "start"
        /\ \A i \in DOMAIN after.frames :
               \/ i \in DOMAIN capture.frames
                      /\ after.frames[i] = capture.frames[i]
               \/ after.frames[i].reason = reason
    BY <1>0, <1>2, <2>1, AppendFrameKeeps
  <2>3. capture' = after
    BY <1>2
  <2> HIDE DEF after
  <2>4. \A i \in DOMAIN after.frames : after.frames[i].reason # "terminal"
    BY <2>1, <2>2
  <2>5. QED
    BY <1>0, <1>2, <2>2, <2>3, <2>4 DEF CaptureFrames
<1>3. CASE capture.run # NoRun /\ capture.frames = <<>>
  <2>1. capture' = AppendFrame(capture, revision, "start")
    BY <1>3 DEF OnFrame
  <2>2. QED
    BY <1>0, <1>2, <1>3, <2>1
<1>4. CASE capture.run # NoRun /\ capture.frames # <<>> /\ changed
  <2>1. capture' = AppendFrame(capture, revision, "change")
    BY <1>4 DEF OnFrame
  <2>2. QED
    BY <1>0, <1>2, <1>4, <2>1
<1>5. QED
  BY <1>0, <1>1, <1>3, <1>4

\* The terminal sample goes behind the start frame, however full the capture.
LEMMA WithTerminalValid ==
    ASSUME TypeOK, CaptureFrames, capture.frames # <<>>, latestFrame # 0
    PROVE  /\ ValidFrames(WithTerminal(capture).frames)
           /\ WithTerminal(capture).frames \in Seq(FrameSample)
<1> DEFINE forced == AppendFrame(capture, latestFrame, "terminal")
           fs == forced.frames
<1>1. /\ forced \in [run : Runs \cup {NoRun}, frames : Seq(FrameSample),
                     truncated : BOOLEAN]
      /\ fs \in Seq(FrameSample) /\ fs # <<>>
      /\ Len(fs) <= MaxFrames
      /\ fs[1].reason = "start"
      /\ Last(fs).reason = "terminal"
  <2>1. capture \in [run : Runs \cup {NoRun}, frames : Seq(FrameSample),
                     truncated : BOOLEAN]
        /\ latestFrame \in Nat /\ Len(capture.frames) <= MaxFrames
        /\ capture.frames[1].reason = "start"
    BY DEF TypeOK, CaptureFrames
  <2>2. QED
    BY <2>1, AppendFrameKeeps
<1>2. WithTerminal(capture)
          = [forced EXCEPT !.frames[Len(forced.frames)].reason = "terminal"]
  BY <1>1 DEF WithTerminal
<1> HIDE DEF forced
<1>3. Len(fs) \in Nat \ {0} /\ fs[Len(fs)].reason = "terminal"
      /\ fs[Len(fs)] \in FrameSample
  BY <1>1 DEF Last
<1>4. [fs[Len(fs)] EXCEPT !.reason = "terminal"] = fs[Len(fs)]
  BY <1>3 DEF FrameSample
<1>5. WithTerminal(capture).frames
          = [fs EXCEPT ![Len(fs)] = [fs[Len(fs)] EXCEPT !.reason = "terminal"]]
  BY <1>1, <1>2
<1>6. [fs EXCEPT ![Len(fs)] = fs[Len(fs)]] = fs
  BY <1>1, <1>3
<1>7. WithTerminal(capture).frames = fs
  BY <1>4, <1>5, <1>6
<1>8. QED
  BY <1>1, <1>3, <1>7 DEF ValidFrames

LEMMA CompleteKeeps ==
    ASSUME TypeOK, CaptureFrames, NEW r \in Runs, capture.run = r,
           NEW v \in FinalStatus \cup FaultResult, Complete(r, v)
    PROVE  /\ capture' = NoCapture
           /\ latestFrame' = latestFrame
           /\ recorderState' \in {"ready", "invalid"}
           /\ recorderState' = "ready" => bundle'.run = r /\ bundle'.verdict = v
           /\ latestFrame # 0 => recorderState' = "ready"
           /\ bundle' \in [run : Runs \cup {NoRun}, frames : Seq(FrameSample),
                           verdict : FinalStatus \cup FaultResult \cup {"none"}]
           /\ CaptureFrames'
<1> DEFINE closed == WithTerminal(capture)
<1>0. r # NoRun
  BY RunAssumption DEF Runs
<1>1. capture' = NoCapture /\ latestFrame' = latestFrame
  BY DEF Complete
<1>2. CaptureFrames'
  BY <1>1, RecorderAssumption DEF CaptureFrames, NoCapture, Opened
<1>3. CASE latestFrame # 0
  <2>1. ValidFrames(closed.frames) /\ closed.frames \in Seq(FrameSample)
    BY <1>0, <1>3, WithTerminalValid DEF CaptureFrames
  <2>2. /\ recorderState' = "ready"
        /\ bundle' = [run |-> r, verdict |-> v, frames |-> closed.frames]
    BY <2>1 DEF Complete
  <2> HIDE DEF closed
  <2>3. QED
    BY <1>1, <1>2, <1>3, <2>1, <2>2
<1>4. CASE latestFrame = 0
  <2>1. capture.frames = <<>>
    BY <1>0, <1>4 DEF CaptureFrames
  <2>2. closed = capture
    BY <1>4, <2>1 DEF WithTerminal, WithStart
  <2>3. ~ValidFrames(closed.frames)
    BY <2>1, <2>2 DEF ValidFrames
  <2>4. recorderState' = "invalid" /\ bundle' = bundle
    BY <2>3 DEF Complete
  <2>5. QED
    BY <1>1, <1>2, <1>4, <2>4 DEF TypeOK
<1>5. QED
  BY <1>3, <1>4

-----------------------------------------------------------------------------
(* The mission coordinator.                                                *)

\* Nothing of the fault coordinator's is touched by a mission's steps that
\* leave the gate alone.
LEMMA FaultUntouched ==
    ASSUME FaultStages, UNCHANGED <<faultVars, lease>>
    PROVE  FaultStages'
BY DEF FaultStages, faultVars

LEMMA SubmitMissionIInv ==
    ASSUME IInv, NEW c \in Callers, NEW m \in Missions, SubmitMission(c, m),
           UNCHANGED faultVars
    PROVE  IInv'
<1> USE DEF SubmitMission, Acquire, workerVars, recorderVars
<1>0. m \in Runs /\ m # NoRun /\ m \notin Faults /\ m \notin issued
      /\ lease = NoRun /\ NoRun \notin Missions /\ NoRun \notin Faults
  BY RunAssumption DEF Runs
<1>1. /\ missionQueue = <<>> /\ missionPc = "idle"
      /\ \A d \in Callers : ~Submitting(d)
      /\ faultQueue = <<>> /\ faultPc = "idle"
  <2>1. /\ missionPc = "idle" /\ faultQueue = <<>> /\ faultPc = "idle"
        /\ \A d \in Callers : ~Submitting(d)
    BY <1>0 DEF IInv, MissionStages, FaultStages
  <2>2. missionQueue = <<>>
    BY <1>0 DEF IInv, TypeOK, MissionStages
  <2>3. QED
    BY <2>1, <2>2
<1>2. TypeOK'
  <2>1. call' \in [Callers -> CallState]
    BY DEF IInv, TypeOK, CallState
  <2>2. journal' \in Seq({"user_goal", "step"} \cup FinalStatus)
    OBVIOUS
  <2>3. QED
    BY <1>0, <2>1, <2>2 DEF IInv, TypeOK, faultVars
<1>3. MissionStages'
  <2>1. \A d \in Callers : Submitting(d)' => d = c
    BY <1>1 DEF IInv, TypeOK, Submitting
  <2>2. call'[c].run = m
    BY DEF IInv, TypeOK
  <2>3. QED
    BY <1>0, <1>1, <2>1, <2>2 DEF MissionStages
<1>4. MissionRecord'
  <2>1. ~HasFinal'
    BY DEF HasFinal, FinalStatus, Last
  <2>2. QED
    BY <1>0, <1>1, <2>1 DEF IInv, MissionRecord, FinalStatus
<1>5. FaultStages'
  BY <1>0, <1>1 DEF IInv, FaultStages, faultVars
<1>6. CaptureStages' /\ CaptureFrames'
  BY <1>0, <1>1 DEF IInv, CaptureStages, CaptureFrames, faultVars
<1>7. BundleStages'
  BY <1>0, <1>1 DEF BundleStages, faultVars
<1>8. CancelHonoured'
  BY <1>0 DEF IInv, MissionRecord, CancelHonoured
<1>9. QED
  BY <1>2, <1>3, <1>4, <1>5, <1>6, <1>7, <1>8 DEF IInv

LEMMA StartMissionIInv ==
    ASSUME IInv, NEW c \in Callers, StartMission(c), UNCHANGED faultVars
    PROVE  IInv'
<1> DEFINE r == call[c].run
<1>1. /\ Submitting(c) /\ r = lease /\ activeMission = lease
      /\ missionQueue = <<>> /\ missionPc = "idle"
      /\ \A d \in Callers : Submitting(d) => d = c
      /\ lease \in Missions
  <2>1. Submitting(c)
    BY DEF StartMission, Submitting
  <2>2. QED
    BY <2>1 DEF IInv, MissionStages
<1>2. missionQueue' = <<lease>> /\ missionQueue' # <<>> /\ faultPc = "idle" /\ faultQueue = <<>>
  BY <1>1, QueueOfOne, RunAssumption DEF StartMission, IInv, FaultStages
<1>3. /\ capture' \in [run : Runs \cup {NoRun}, frames : Seq(FrameSample),
                       truncated : BOOLEAN]
      /\ capture'.run = lease
      /\ recorderState' = "recording"
      /\ UNCHANGED <<latestFrame, bundle>>
      /\ CaptureFrames'
  <2>1. lease \in Runs /\ StartCapture(lease)
    BY <1>1 DEF StartMission, Runs
  <2>2. QED
    BY <2>1, StartCaptureKeeps DEF IInv, CaptureStages
<1>4. TypeOK'
  <2>1. call' \in [Callers -> CallState]
    BY DEF StartMission, IInv, TypeOK, CallState, OutsideCall
  <2>2. missionQueue' \in Seq(Missions)
    BY <1>1, <1>2
  <2>3. QED
    BY <1>3, <2>1, <2>2 DEF StartMission, IInv, TypeOK, gateVars, faultVars
<1>5. \A d \in Callers : ~Submitting(d)'
  BY <1>1 DEF StartMission, IInv, TypeOK, Submitting, OutsideCall
<1>6. MissionStages'
  BY <1>1, <1>2, <1>5 DEF StartMission, IInv, MissionStages, gateVars
<1>7. MissionRecord'
  BY <1>1, <1>5 DEF StartMission, IInv, MissionRecord, HasFinal, gateVars
<1>8. FaultStages'
  BY FaultUntouched DEF StartMission, IInv, gateVars
<1>9. CaptureStages'
  BY <1>1, <1>2, <1>3, RunAssumption DEF StartMission, CaptureStages, gateVars, faultVars
<1>10. BundleStages'
  BY <1>3 DEF BundleStages
<1>11. CancelHonoured'
  BY DEF StartMission, IInv, CancelHonoured, HasFinal
<1>12. QED
  BY <1>3, <1>4, <1>6, <1>7, <1>8, <1>9, <1>10, <1>11 DEF IInv

LEMMA CancelCurrentIInv ==
    ASSUME IInv, NEW c \in Callers, CancelCurrent(c), UNCHANGED faultVars
    PROVE  IInv'
<1> USE DEF CancelCurrent, workerVars, gateVars, recorderVars
<1>1. activeMission \in Missions /\ activeMission = lease /\ activeMission \in issued
      /\ currentMission = lease
  BY DEF IInv, TypeOK, MissionStages, MissionRecord
<1>2. call' \in [Callers -> CallState]
  BY <1>1 DEF IInv, TypeOK, CallState
<1>3. TypeOK'
  BY <1>1, <1>2 DEF IInv, TypeOK, faultVars
<1>4. \A d \in Callers : Submitting(d)' => Submitting(d) /\ call'[d] = call[d]
  BY DEF IInv, TypeOK, Submitting
<1>5. MissionStages'
  BY <1>4 DEF IInv, MissionStages
<1>6. MissionRecord'
  BY <1>1, <1>4 DEF IInv, MissionRecord, HasFinal
<1>7. FaultStages'
  BY FaultUntouched DEF IInv
<1>8. CaptureStages' /\ CaptureFrames' /\ BundleStages'
  BY DEF IInv, CaptureStages, CaptureFrames, BundleStages, faultVars
<1>9. CancelHonoured'
  BY <1>1 DEF CancelHonoured, HasFinal
<1>10. QED
  BY <1>3, <1>5, <1>6, <1>7, <1>8, <1>9 DEF IInv

LEMMA CallCancelHandlerIInv ==
    ASSUME IInv, NEW c \in Callers, CallCancelHandler(c), UNCHANGED faultVars
    PROVE  IInv'
<1> USE DEF CallCancelHandler, workerVars, gateVars, recorderVars
<1>1. call' \in [Callers -> CallState] /\ handled' \in [Missions -> Nat]
  <2>1. OutsideCall \in CallState
    BY DEF CallState, OutsideCall
  <2>2. call' \in [Callers -> CallState]
    BY <2>1 DEF IInv, TypeOK
  <2>3. handled' \in [Missions -> Nat]
    <3>1. handled \in [Missions -> Nat]
      BY DEF IInv, TypeOK
    <3>2. \A m \in Missions : handled'[m] \in Nat
      BY <3>1
    <3>3. QED
      BY <3>1, <3>2
  <2>4. QED
    BY <2>2, <2>3
<1>2. TypeOK'
  BY <1>1 DEF IInv, TypeOK, faultVars
<1>3. \A d \in Callers : Submitting(d)' => Submitting(d) /\ call'[d] = call[d]
  BY DEF IInv, TypeOK, Submitting, OutsideCall
<1>4. MissionStages'
  BY <1>3 DEF IInv, MissionStages
<1>5. MissionRecord'
  BY <1>3 DEF IInv, MissionRecord, HasFinal
<1>6. FaultStages'
  BY FaultUntouched DEF IInv
<1>7. CaptureStages' /\ CaptureFrames' /\ BundleStages'
  BY DEF IInv, CaptureStages, CaptureFrames, BundleStages, faultVars
<1>8. CancelHonoured'
  BY DEF IInv, CancelHonoured, HasFinal
<1>9. QED
  BY <1>2, <1>4, <1>5, <1>6, <1>7, <1>8 DEF IInv

\* What the sections of the mission worker have in common: the caller, the
\* queue, the fault coordinator and, but for the last, the gate stay as they
\* are, while the worker holds the gate for its mission.
LEMMA WorkerHolds ==
    ASSUME IInv, missionPc # "idle"
    PROVE  /\ missionTask = lease /\ currentMission = lease
           /\ lease \in Missions /\ lease \in issued
           /\ lease # NoRun /\ lease \notin Faults
           /\ missionQueue = <<>> /\ faultPc = "idle" /\ faultQueue = <<>>
           /\ \A c \in Callers : ~Submitting(c)
BY RunAssumption
DEF IInv, MissionStages, MissionRecord, FaultStages

LEMMA TakeMissionIInv ==
    ASSUME IInv, TakeMission, UNCHANGED faultVars
    PROVE  IInv'
<1> USE DEF TakeMission, gateVars, recorderVars
<1>1. /\ missionQueue = <<lease>> /\ Head(missionQueue) = lease
      /\ Tail(missionQueue) = <<>> /\ activeMission = lease
      /\ lease \in Missions /\ lease \in Runs
      /\ \A c \in Callers : ~Submitting(c)
  BY QueueOfOne DEF IInv, MissionStages, Runs
<1>2. TypeOK'
  BY <1>1 DEF IInv, TypeOK, faultVars
<1>3. MissionStages'
  BY <1>1 DEF IInv, MissionStages, Submitting
<1>4. MissionRecord'
  <2>1. ~HasFinal
    BY DEF IInv, MissionRecord
  <2>2. QED
    BY <1>1, <2>1 DEF IInv, MissionRecord, HasFinal
<1>5. FaultStages'
  BY FaultUntouched DEF IInv
<1>6. CaptureStages'
  BY <1>1 DEF IInv, CaptureStages, faultVars
<1>7. CaptureFrames' /\ BundleStages'
  BY DEF IInv, CaptureFrames, BundleStages, faultVars
<1>8. CancelHonoured'
  BY DEF IInv, CancelHonoured, HasFinal
<1>9. QED
  BY <1>2, <1>3, <1>4, <1>5, <1>6, <1>7, <1>8 DEF IInv

\* Between taking a mission and finishing it, the worker only touches its
\* journal and its result.
LEMMA AtWork ==
    ASSUME IInv, OnlyWorker, UNCHANGED <<activeMission, gateVars, recorderVars,
                                         faultVars>>,
           missionPc \in {"running", "returned", "concluding", "finishing"},
           missionPc' \in {"running", "returned", "concluding", "finishing"}
    PROVE  /\ MissionStages' /\ FaultStages' /\ CaptureStages'
           /\ CaptureFrames' /\ BundleStages'
           /\ \A c \in Callers : ~Submitting(c)'
           /\ activeMission = currentMission
<1> USE DEF OnlyWorker, gateVars, recorderVars
<1>1. MissionStages'
  BY DEF IInv, MissionStages, Submitting
<1>2. FaultStages'
  BY FaultUntouched DEF IInv
<1>3. CaptureStages' /\ CaptureFrames'
  BY DEF IInv, CaptureStages, CaptureFrames, faultVars
<1>4. BundleStages'
  BY WorkerHolds DEF BundleStages, faultVars
<1>5. (\A c \in Callers : ~Submitting(c)') /\ activeMission = currentMission
  BY WorkerHolds DEF Submitting, IInv, MissionStages
<1>6. QED
  BY <1>1, <1>2, <1>3, <1>4, <1>5

\* A verdict put into the journal of the mission at work honours a cancel.
LEMMA EmittedHonours ==
    ASSUME NEW v \in FinalStatus
    PROVE  /\ Emitted(v) \in FinalStatus
           /\ activeMission \in cancelSet
                  => Emitted(v) \in {"cancelled", "emergency_stop"}
BY DEF Emitted, FinalStatus

\* The journal of the mission at work with one more event: a step, or the
\* final event it did not have.
LEMMA JournalOfMission ==
    ASSUME IInv, ~HasFinal, NEW e \in {"step"} \cup FinalStatus,
           journal' = Append(journal, e)
    PROVE  /\ journal' \in Seq({"user_goal", "step"} \cup FinalStatus)
           /\ Last(journal') = e /\ journal' # <<>>
           /\ HasFinal' <=> e \in FinalStatus
           /\ \A i \in DOMAIN journal' :
                  journal'[i] \in FinalStatus => i = Len(journal')
<1> DEFINE Phase == {"user_goal", "step"} \cup FinalStatus
<1>1. journal \in Seq(Phase) /\ e \in Phase
  BY DEF IInv, TypeOK
<1>2. \A i \in DOMAIN journal : journal[i] \notin FinalStatus
  BY <1>1 DEF IInv, MissionRecord, HasFinal, Last
<1> HIDE DEF Phase
<1>3. /\ journal' \in Seq(Phase) /\ journal' # <<>> /\ Last(journal') = e
      /\ Len(journal') = Len(journal) + 1
      /\ \A i \in DOMAIN journal : journal'[i] = journal[i]
      /\ DOMAIN journal' = DOMAIN journal \cup {Len(journal) + 1}
  BY <1>1, JournalGrows
<1>4. QED
  BY <1>2, <1>3 DEF HasFinal, Phase

LEMMA RunnerEmitsStepIInv ==
    ASSUME IInv, RunnerEmitsStep, UNCHANGED faultVars
    PROVE  IInv'
<1> USE DEF RunnerEmitsStep, OnlyWorker
<1>1. /\ MissionStages' /\ FaultStages' /\ CaptureStages'
      /\ CaptureFrames' /\ BundleStages' /\ \A c \in Callers : ~Submitting(c)'
  BY AtWork
<1>2. /\ journal' \in Seq({"user_goal", "step"} \cup FinalStatus)
      /\ ~HasFinal'
      /\ \A i \in DOMAIN journal' :
             journal'[i] \in FinalStatus => i = Len(journal')
  BY JournalOfMission DEF FinalStatus
<1>3. TypeOK'
  BY <1>2 DEF IInv, TypeOK, gateVars, recorderVars, faultVars
<1>4. MissionRecord'
  BY <1>1, <1>2, WorkerHolds DEF IInv, MissionRecord, gateVars, HasFinal
<1>5. CancelHonoured'
  BY <1>2 DEF CancelHonoured
<1>6. QED
  BY <1>1, <1>3, <1>4, <1>5 DEF IInv

LEMMA RunnerEmitsFinalIInv ==
    ASSUME IInv, NEW v \in FinalStatus, RunnerEmitsFinal(v), UNCHANGED faultVars
    PROVE  IInv'
<1> USE DEF RunnerEmitsFinal, OnlyWorker
<1>1. /\ MissionStages' /\ FaultStages' /\ CaptureStages'
      /\ CaptureFrames' /\ BundleStages' /\ \A c \in Callers : ~Submitting(c)'
      /\ activeMission = currentMission
  BY AtWork
<1>2. /\ journal' \in Seq({"user_goal", "step"} \cup FinalStatus)
      /\ HasFinal' /\ Last(journal') = Emitted(v)
      /\ \A i \in DOMAIN journal' :
             journal'[i] \in FinalStatus => i = Len(journal')
  BY JournalOfMission, EmittedHonours
<1>3. TypeOK'
  BY <1>2 DEF IInv, TypeOK, gateVars, recorderVars, faultVars
<1>4. MissionRecord'
  BY <1>1, <1>2, WorkerHolds DEF IInv, MissionRecord, gateVars, HasFinal
<1>5. CancelHonoured'
  BY <1>1, <1>2, EmittedHonours DEF CancelHonoured
<1>6. QED
  BY <1>1, <1>3, <1>4, <1>5 DEF IInv

\* Steps that only choose the result.
LEMMA ResultChosen ==
    ASSUME IInv, OnlyWorker, missionPc \in {"running", "returned"},
           missionPc' \in {"returned", "concluding"},
           missionResult' \in FinalStatus,
           UNCHANGED <<missionStatus, journal, missionFinal, activeMission,
                       gateVars, recorderVars, faultVars>>
    PROVE  IInv'
<1> USE DEF OnlyWorker
<1>1. /\ MissionStages' /\ FaultStages' /\ CaptureStages'
      /\ CaptureFrames' /\ BundleStages' /\ \A c \in Callers : ~Submitting(c)'
  BY AtWork
<1>2. TypeOK'
  BY DEF IInv, TypeOK, gateVars, recorderVars, faultVars
<1>3. MissionRecord'
  BY <1>1, WorkerHolds DEF IInv, MissionRecord, gateVars, HasFinal
<1>4. CancelHonoured'
  BY DEF IInv, CancelHonoured, HasFinal
<1>5. QED
  BY <1>1, <1>2, <1>3, <1>4 DEF IInv

LEMMA RunnerEndsIInv ==
    ASSUME IInv, RunnerEnds, UNCHANGED faultVars
    PROVE  IInv'
<1>1. ASSUME RunnerRaises PROVE IInv'
  BY <1>1, ResultChosen DEF RunnerRaises, FinalStatus
<1>2. ASSUME NEW v \in FinalStatus, RunnerReturns(v) PROVE IInv'
  BY <1>2, ResultChosen DEF RunnerReturns
<1>3. QED
  BY <1>1, <1>2 DEF RunnerEnds

LEMMA OverrideResultIInv ==
    ASSUME IInv, OverrideResult, UNCHANGED faultVars
    PROVE  IInv'
<1>1. missionResult' \in FinalStatus
  BY DEF OverrideResult, FinalStatus, IInv, MissionRecord
<1>2. QED
  BY <1>1, ResultChosen DEF OverrideResult

LEMMA ConcludeJournalIInv ==
    ASSUME IInv, ConcludeJournal, UNCHANGED faultVars
    PROVE  IInv'
<1> USE DEF ConcludeJournal, OnlyWorker
<1>1. /\ MissionStages' /\ FaultStages' /\ CaptureStages'
      /\ CaptureFrames' /\ BundleStages' /\ \A c \in Callers : ~Submitting(c)'
      /\ activeMission = currentMission
  BY AtWork
<1>2. /\ journal' \in Seq({"user_goal", "step"} \cup FinalStatus)
      /\ HasFinal'
      /\ \A i \in DOMAIN journal' :
             journal'[i] \in FinalStatus => i = Len(journal')
      /\ CancelHonoured'
  <2>1. CASE HasFinal
    BY <2>1 DEF IInv, TypeOK, MissionRecord, CancelHonoured, HasFinal
  <2>2. CASE ~HasFinal
    <3>1. missionResult \in FinalStatus
      BY DEF IInv, MissionRecord
    <3>2. journal' = Append(journal, Emitted(missionResult))
      BY <2>2
    <3>3. QED
      BY <1>1, <2>2, <3>1, <3>2, JournalOfMission, EmittedHonours
      DEF CancelHonoured
  <2>3. QED
    BY <2>1, <2>2
<1>3. TypeOK'
  BY <1>2 DEF IInv, TypeOK, gateVars, recorderVars, faultVars
<1>4. MissionRecord'
  BY <1>1, <1>2, WorkerHolds DEF IInv, MissionRecord, MissionStages, gateVars
<1>5. QED
  BY <1>1, <1>2, <1>3, <1>4 DEF IInv

LEMMA FinishMissionIInv ==
    ASSUME IInv, FinishMission, UNCHANGED faultVars
    PROVE  IInv'
<1> USE DEF FinishMission, OnlyWorker, gateVars, recorderVars
<1>1. /\ lease \in Missions /\ missionTask = lease /\ missionQueue = <<>>
      /\ \A c \in Callers : ~Submitting(c)'
  BY WorkerHolds DEF Submitting
<1>2. HasFinal /\ HasFinal' /\ Last(journal) \in FinalStatus
      /\ missionFinal' = Last(journal) /\ missionResult' = Last(journal)
  BY DEF IInv, MissionRecord, HasFinal
<1>3. TypeOK'
  BY <1>2 DEF IInv, TypeOK, faultVars
<1>4. MissionStages'
  BY <1>1 DEF IInv, MissionStages
<1>5. MissionRecord'
  BY <1>1, <1>2 DEF IInv, MissionRecord
<1>6. FaultStages'
  BY FaultUntouched DEF IInv
<1>7. CaptureStages' /\ CaptureFrames'
  BY DEF IInv, CaptureStages, CaptureFrames, faultVars
<1>8. BundleStages'
  BY WorkerHolds DEF BundleStages, faultVars
<1>9. CancelHonoured'
  BY DEF IInv, CancelHonoured, HasFinal
<1>10. QED
  BY <1>3, <1>4, <1>5, <1>6, <1>7, <1>8, <1>9 DEF IInv

LEMMA NotifyMissionIInv ==
    ASSUME IInv, NotifyMission, UNCHANGED faultVars
    PROVE  IInv'
<1> USE DEF NotifyMission, OnlyWorker, gateVars
<1>1. /\ lease \in Missions /\ lease \in Runs /\ missionTask = lease
      /\ currentMission = lease /\ missionQueue = <<>>
      /\ \A c \in Callers : ~Submitting(c)'
      /\ faultPc = "idle" /\ lease # NoRun
  BY WorkerHolds DEF Submitting, Runs
<1>2. HasFinal /\ missionResult = Last(journal) /\ missionResult \in FinalStatus
  BY DEF IInv, MissionRecord, HasFinal
<1>3. capture.run = lease
  BY DEF IInv, CaptureStages
<1>4. /\ capture' = NoCapture
      /\ latestFrame' = latestFrame
      /\ recorderState' \in {"ready", "invalid"}
      /\ recorderState' = "ready" =>
             bundle'.run = lease /\ bundle'.verdict = missionResult
      /\ bundle' \in [run : Runs \cup {NoRun}, frames : Seq(FrameSample),
                      verdict : FinalStatus \cup FaultResult \cup {"none"}]
      /\ CaptureFrames'
  BY <1>1, <1>2, <1>3, CompleteKeeps DEF IInv
<1>5. TypeOK'
  <2>1. capture' \in [run : Runs \cup {NoRun}, frames : Seq(FrameSample),
                      truncated : BOOLEAN]
    BY <1>4 DEF NoCapture, Opened
  <2>2. QED
    BY <1>4, <2>1 DEF IInv, TypeOK, faultVars
<1>6. MissionStages'
  BY <1>1 DEF IInv, MissionStages
<1>7. MissionRecord'
  BY <1>1, <1>2 DEF IInv, MissionRecord, HasFinal
<1>8. FaultStages'
  BY FaultUntouched DEF IInv
<1>9. CaptureStages'
  BY <1>1, <1>4 DEF CaptureStages, NoCapture, Opened, faultVars
<1>10. BundleStages'
  BY <1>1, <1>2, <1>4 DEF BundleStages
<1>11. CancelHonoured'
  BY DEF IInv, CancelHonoured, HasFinal
<1>12. QED
  BY <1>4, <1>5, <1>6, <1>7, <1>8, <1>9, <1>10, <1>11 DEF IInv

LEMMA ReleaseMissionIInv ==
    ASSUME IInv, ReleaseMission, UNCHANGED faultVars
    PROVE  IInv'
<1> USE DEF ReleaseMission, Release, OnlyWorker, recorderVars
<1>1. /\ lease \in Missions /\ missionTask = lease /\ lease' = NoRun
      /\ missionQueue = <<>> /\ missionPc' = "idle"
      /\ \A c \in Callers : ~Submitting(c)'
      /\ faultPc = "idle" /\ faultQueue = <<>>
      /\ NoRun \notin Missions /\ NoRun \notin Faults
  BY WorkerHolds, RunAssumption DEF Submitting
<1>2. activeMission = NoRun
  BY DEF IInv, MissionStages
<1>3. TypeOK'
  BY <1>1 DEF IInv, TypeOK, faultVars
<1>4. MissionStages'
  BY <1>1, <1>2 DEF MissionStages
<1>5. MissionRecord'
  BY <1>1 DEF IInv, MissionRecord, HasFinal
<1>6. FaultStages'
  BY <1>1 DEF IInv, FaultStages, faultVars
<1>7. CaptureStages' /\ CaptureFrames'
  <2>1. capture.run = NoRun
    BY DEF IInv, CaptureStages
  <2>2. QED
    BY <1>1, <2>1 DEF IInv, CaptureStages, CaptureFrames, faultVars
<1>8. BundleStages'
  BY DEF IInv, BundleStages, faultVars
<1>9. CancelHonoured'
  BY DEF IInv, CancelHonoured, HasFinal
<1>10. QED
  BY <1>3, <1>4, <1>5, <1>6, <1>7, <1>8, <1>9 DEF IInv

LEMMA MissionNextIInv ==
    ASSUME IInv, MissionNext, UNCHANGED faultVars
    PROVE  IInv'
BY SubmitMissionIInv, StartMissionIInv, CancelCurrentIInv,
   CallCancelHandlerIInv, TakeMissionIInv, RunnerEmitsStepIInv,
   RunnerEmitsFinalIInv, RunnerEndsIInv, OverrideResultIInv,
   ConcludeJournalIInv, FinishMissionIInv, NotifyMissionIInv,
   ReleaseMissionIInv
DEF MissionNext, MissionWorker, CallerSteps

-----------------------------------------------------------------------------
(* The fault coordinator.                                                  *)

\* A fault run that has the gate leaves no mission in progress.
LEMMA FaultHolds ==
    ASSUME IInv, lease \in Faults
    PROVE  /\ lease \notin Missions /\ lease # NoRun
           /\ missionPc = "idle" /\ missionQueue = <<>>
           /\ activeMission = NoRun
           /\ \A c \in Callers : ~Submitting(c)
<1>1. lease \notin Missions /\ lease # NoRun
  BY RunAssumption
<1>2. activeMission = NoRun
  BY <1>1 DEF IInv, TypeOK, MissionStages
<1>3. QED
  BY <1>1, <1>2 DEF IInv, MissionStages

\* The steps of the fault worker leave the mission's record alone.
LEMMA MissionUntouched ==
    ASSUME IInv, UNCHANGED <<missionVars, gateVars>>
    PROVE  MissionStages' /\ MissionRecord' /\ CancelHonoured'
<1>1. MissionStages'
  BY DEF IInv, MissionStages, Submitting, missionVars, gateVars
<1>2. MissionRecord'
  BY DEF IInv, MissionRecord, Submitting, HasFinal, missionVars, gateVars
<1>3. CancelHonoured'
  BY DEF IInv, CancelHonoured, HasFinal, missionVars
<1>4. QED
  BY <1>1, <1>2, <1>3

LEMMA SubmitFaultIInv ==
    ASSUME IInv, NEW f \in Faults, SubmitFault(f), UNCHANGED missionVars
    PROVE  IInv'
<1> USE DEF SubmitFault, Acquire, recorderVars
<1>0. f \in Runs /\ f # NoRun /\ f \notin Missions /\ f \notin issued
      /\ lease = NoRun /\ NoRun \notin Missions /\ NoRun \notin Faults
  BY RunAssumption DEF Runs
<1>1. /\ missionQueue = <<>> /\ missionPc = "idle" /\ activeMission = NoRun
      /\ \A d \in Callers : ~Submitting(d)
      /\ faultQueue = <<>> /\ faultPc = "idle"
  <2>1. activeMission = NoRun
    BY <1>0 DEF IInv, MissionStages
  <2>2. QED
    BY <1>0, <2>1 DEF IInv, MissionStages, FaultStages
<1>2. faultQueue' = <<f>> /\ faultQueue' \in Seq(Faults)
  BY <1>1
<1>3. TypeOK'
  <2>1. evidence' \in 0 .. MaxEvidence /\ lease' \in Runs /\ issued' \subseteq Runs
    BY <1>0, FaultAssumption DEF IInv, TypeOK
  <2>2. /\ currentFault' \in Faults \cup {NoRun}
        /\ activeFault' \in Faults \cup {NoRun}
        /\ faultStatus' = "accepted" /\ finalRecorded' \in BOOLEAN
        /\ faultFinal' = "none" /\ faultQueue' \in Seq(Faults)
        /\ UNCHANGED <<faultTask, faultPc, faultResult, recorderState, capture,
                       latestFrame, bundle>>
    BY <1>2
  <2> HIDE DEF SubmitFault, Acquire
  <2>3. QED
    BY <2>1, <2>2 DEF IInv, TypeOK, missionVars
<1>4. MissionStages'
  BY <1>0, <1>1 DEF MissionStages, Submitting, missionVars
<1>5. MissionRecord'
  BY <1>0, <1>1 DEF IInv, MissionRecord, Submitting, HasFinal, missionVars
<1>6. FaultStages'
  BY <1>0, <1>1, <1>2, FaultAssumption DEF FaultStages
<1>7. CaptureStages' /\ CaptureFrames'
  BY <1>0, <1>1 DEF IInv, CaptureStages, CaptureFrames, missionVars
<1>8. BundleStages'
  BY <1>0, <1>1 DEF BundleStages, missionVars
<1>9. CancelHonoured'
  BY DEF IInv, CancelHonoured, HasFinal, missionVars
<1>10. QED
  BY <1>3, <1>4, <1>5, <1>6, <1>7, <1>8, <1>9 DEF IInv

LEMMA TakeFaultIInv ==
    ASSUME IInv, TakeFault, UNCHANGED missionVars
    PROVE  IInv'
<1> USE DEF TakeFault, gateVars, recorderVars
<1>1. /\ faultQueue = <<lease>> /\ Head(faultQueue) = lease
      /\ Tail(faultQueue) = <<>> /\ lease \in Faults
  BY QueueOfOne DEF IInv, FaultStages
<1>2. TypeOK'
  BY <1>1 DEF IInv, TypeOK, missionVars, FaultResult
<1>3. MissionStages' /\ MissionRecord' /\ CancelHonoured'
  BY MissionUntouched
<1>4. FaultStages'
  BY <1>1 DEF IInv, FaultStages, FaultResult
<1>5. CaptureStages' /\ CaptureFrames' /\ BundleStages'
  BY DEF IInv, CaptureStages, CaptureFrames, BundleStages, missionVars
<1>6. QED
  BY <1>2, <1>3, <1>4, <1>5 DEF IInv

LEMMA AnnounceFaultIInv ==
    ASSUME IInv, AnnounceFault, UNCHANGED missionVars
    PROVE  IInv'
<1> USE DEF AnnounceFault, OnlyFaultWorker, gateVars
<1>1. faultTask = lease /\ lease \in Faults /\ lease \in Runs /\ faultQueue = <<>>
  BY DEF IInv, FaultStages, Runs
<1>2. /\ capture' \in [run : Runs \cup {NoRun}, frames : Seq(FrameSample),
                       truncated : BOOLEAN]
      /\ capture'.run = lease
      /\ recorderState' = "recording"
      /\ UNCHANGED <<latestFrame, bundle>>
      /\ CaptureFrames'
  BY <1>1, StartCaptureKeeps DEF IInv, CaptureStages
<1>3. TypeOK'
  BY <1>2 DEF IInv, TypeOK, missionVars
<1>4. MissionStages' /\ MissionRecord' /\ CancelHonoured'
  BY MissionUntouched
<1>5. FaultStages'
  BY DEF IInv, FaultStages
<1>6. CaptureStages'
  BY <1>1, <1>2, FaultHolds DEF CaptureStages, missionVars
<1>7. BundleStages'
  BY <1>2 DEF BundleStages
<1>8. QED
  BY <1>2, <1>3, <1>4, <1>5, <1>6, <1>7 DEF IInv

\* From the announcement to the end of the cleanup only evidence and result
\* change.
LEMMA FaultAtWork ==
    ASSUME IInv, OnlyFaultWorker,
           UNCHANGED <<faultStatus, finalRecorded, faultFinal, activeFault,
                       recorderVars, missionVars>>,
           faultPc \in {"running", "cleaning"},
           faultPc' \in {"running", "cleaning", "finishing"},
           faultResult' \in FaultResult,
           evidence' \in Nat, evidence' < MaxEvidence
    PROVE  IInv'
<1> USE DEF OnlyFaultWorker
<1>1. TypeOK'
  BY FaultAssumption DEF IInv, TypeOK, missionVars, gateVars, recorderVars
<1>2. MissionStages' /\ MissionRecord' /\ CancelHonoured'
  BY MissionUntouched
<1>3. FaultStages'
  BY DEF IInv, FaultStages, gateVars
<1>4. CaptureStages' /\ CaptureFrames' /\ BundleStages'
  BY DEF IInv, CaptureStages, CaptureFrames, BundleStages, missionVars,
         recorderVars, gateVars
<1>5. QED
  BY <1>1, <1>2, <1>3, <1>4 DEF IInv

LEMMA FaultStepsIInv ==
    ASSUME IInv, RunnerEmitsEvidence \/ FaultRunEnds \/ FaultCleansUp,
           UNCHANGED missionVars
    PROVE  IInv'
<1>0. evidence \in Nat /\ MaxEvidence \in Nat \ {0}
      /\ (faultPc \in {"running", "cleaning"}
              => evidence < MaxEvidence /\ faultResult \in FaultResult)
  BY FaultAssumption DEF IInv, TypeOK, FaultStages
<1>1. CASE RunnerEmitsEvidence
  <2>1. /\ evidence' \in Nat /\ evidence' < MaxEvidence
        /\ faultPc' \in {"running", "cleaning"} /\ faultResult' \in FaultResult
    BY <1>0, <1>1 DEF RunnerEmitsEvidence, FaultResult
  <2>2. QED
    BY <1>1, <2>1, FaultAtWork DEF RunnerEmitsEvidence
<1>2. ASSUME NEW result \in FaultResult, FaultRunnerEnds(result) PROVE IInv'
  BY <1>0, <1>2, FaultAtWork DEF FaultRunnerEnds
<1>3. ASSUME NEW succeeds \in BOOLEAN, CleanUp(succeeds) PROVE IInv'
  <2>1. faultResult' \in FaultResult
    BY <1>0, <1>3 DEF CleanUp, FaultResult
  <2>2. QED
    BY <1>0, <1>3, <2>1, FaultAtWork DEF CleanUp
<1>4. QED
  BY <1>1, <1>2, <1>3 DEF FaultRunEnds, FaultCleansUp

LEMMA FinishFaultIInv ==
    ASSUME IInv, FinishFault, UNCHANGED missionVars
    PROVE  IInv'
<1> USE DEF FinishFault, OnlyFaultWorker, gateVars, recorderVars
<1>1. /\ faultTask = lease /\ lease \in Faults /\ evidence < MaxEvidence
      /\ faultResult \in FaultResult
  BY DEF IInv, FaultStages
<1>2. evidence' \in 0 .. MaxEvidence /\ finalRecorded' = TRUE
  BY <1>1, FaultAssumption DEF IInv, TypeOK
<1>3. TypeOK'
  BY <1>1, <1>2 DEF IInv, TypeOK, missionVars
<1>4. MissionStages' /\ MissionRecord' /\ CancelHonoured'
  BY MissionUntouched
<1>5. FaultStages'
  BY <1>1, <1>2 DEF IInv, FaultStages
<1>6. CaptureStages' /\ CaptureFrames'
  BY DEF IInv, CaptureStages, CaptureFrames, missionVars
<1>7. BundleStages'
  BY <1>1, FaultHolds DEF BundleStages, missionVars
<1>8. QED
  BY <1>3, <1>4, <1>5, <1>6, <1>7 DEF IInv

LEMMA NotifyFaultIInv ==
    ASSUME IInv, NotifyFault, UNCHANGED missionVars
    PROVE  IInv'
<1> USE DEF NotifyFault, OnlyFaultWorker, gateVars
<1>1. /\ faultTask = lease /\ lease \in Faults /\ lease \in Runs
      /\ faultQueue = <<>> /\ faultFinal \in FaultResult
      /\ currentFault = lease
  BY DEF IInv, FaultStages, Runs
<1>2. capture.run = lease
  BY DEF IInv, CaptureStages
<1>3. /\ capture' = NoCapture
      /\ latestFrame' = latestFrame
      /\ recorderState' \in {"ready", "invalid"}
      /\ recorderState' = "ready" =>
             bundle'.run = lease /\ bundle'.verdict = faultFinal
      /\ bundle' \in [run : Runs \cup {NoRun}, frames : Seq(FrameSample),
                      verdict : FinalStatus \cup FaultResult \cup {"none"}]
      /\ CaptureFrames'
  BY <1>1, <1>2, CompleteKeeps DEF IInv
<1>4. TypeOK'
  <2>1. capture' \in [run : Runs \cup {NoRun}, frames : Seq(FrameSample),
                      truncated : BOOLEAN]
    BY <1>3 DEF NoCapture, Opened
  <2>2. QED
    BY <1>3, <2>1 DEF IInv, TypeOK, missionVars
<1>5. MissionStages' /\ MissionRecord' /\ CancelHonoured'
  BY MissionUntouched
<1>6. FaultStages'
  BY DEF IInv, FaultStages
<1>7. CaptureStages'
  BY <1>1, <1>3, FaultHolds DEF CaptureStages, NoCapture, Opened, missionVars
<1>8. BundleStages'
  BY <1>1, <1>3 DEF BundleStages
<1>9. QED
  BY <1>3, <1>4, <1>5, <1>6, <1>7, <1>8 DEF IInv

LEMMA ReleaseFaultIInv ==
    ASSUME IInv, ReleaseFault, UNCHANGED missionVars
    PROVE  IInv'
<1> USE DEF ReleaseFault, Release, recorderVars
<1>1. /\ lease \in Faults /\ faultTask = lease /\ lease' = NoRun
      /\ faultQueue = <<>> /\ NoRun \notin Missions /\ NoRun \notin Faults
  BY RunAssumption DEF IInv, FaultStages
<1>2. TypeOK'
  BY <1>1 DEF IInv, TypeOK, missionVars
<1>3. MissionStages'
  BY <1>1, FaultHolds DEF MissionStages, Submitting, missionVars
<1>4. MissionRecord'
  BY <1>1 DEF IInv, MissionRecord, Submitting, HasFinal, missionVars
<1>5. FaultStages'
  BY <1>1 DEF IInv, FaultStages
<1>6. CaptureStages' /\ CaptureFrames'
  <2>1. capture.run = NoRun
    BY DEF IInv, CaptureStages
  <2>2. QED
    BY <1>1, <2>1, FaultHolds DEF IInv, CaptureStages, CaptureFrames, missionVars
<1>7. BundleStages'
  BY DEF IInv, BundleStages, missionVars
<1>8. CancelHonoured'
  BY DEF IInv, CancelHonoured, HasFinal, missionVars
<1>9. QED
  BY <1>2, <1>3, <1>4, <1>5, <1>6, <1>7, <1>8 DEF IInv

LEMMA FaultNextIInv ==
    ASSUME IInv, FaultNext, UNCHANGED missionVars
    PROVE  IInv'
BY TakeFaultIInv, AnnounceFaultIInv, FaultStepsIInv, FinishFaultIInv,
   NotifyFaultIInv, ReleaseFaultIInv
DEF FaultNext, FaultWorker

LEMMA PublishFrameIInv ==
    ASSUME IInv, PublishFrame
    PROVE  IInv'
<1> USE DEF PublishFrame
<1>1. /\ capture' \in [run : Runs \cup {NoRun}, frames : Seq(FrameSample),
                       truncated : BOOLEAN]
      /\ capture'.run = capture.run
      /\ latestFrame' \in 0 .. MaxRevision
      /\ UNCHANGED <<recorderState, bundle>>
      /\ CaptureFrames'
  BY OnFrameKeeps DEF IInv
<1>2. TypeOK'
  BY <1>1 DEF IInv, TypeOK, gateVars, missionVars, faultVars
<1>3. MissionStages' /\ MissionRecord' /\ CancelHonoured'
  BY MissionUntouched
<1>4. FaultStages'
  BY FaultUntouched DEF IInv, gateVars
<1>5. CaptureStages' /\ BundleStages'
  BY <1>1 DEF IInv, CaptureStages, BundleStages, gateVars, missionVars, faultVars
<1>6. QED
  BY <1>1, <1>2, <1>3, <1>4, <1>5 DEF IInv

LEMMA StutterIInv == ASSUME IInv, UNCHANGED vars PROVE IInv'
<1> USE DEF vars
<1>1. TypeOK'
  BY DEF IInv, TypeOK, gateVars, recorderVars, missionVars, faultVars
<1>2. MissionStages' /\ MissionRecord' /\ CancelHonoured'
  BY MissionUntouched
<1>3. FaultStages'
  BY FaultUntouched DEF IInv, gateVars
<1>4. CaptureStages' /\ CaptureFrames' /\ BundleStages'
  BY DEF IInv, CaptureStages, CaptureFrames, BundleStages, gateVars,
         recorderVars, missionVars, faultVars
<1>5. QED
  BY <1>1, <1>2, <1>3, <1>4 DEF IInv

LEMMA NextIInv == ASSUME IInv, [Next]_vars PROVE IInv'
<1>1. CASE MissionNext /\ UNCHANGED faultVars
  BY <1>1, MissionNextIInv
<1>2. CASE FaultNext /\ UNCHANGED missionVars
  BY <1>2, FaultNextIInv
<1>3. CASE RequestFault
  BY <1>3, SubmitFaultIInv DEF RequestFault
<1>4. CASE PublishFrame
  BY <1>4, PublishFrameIInv
<1>5. CASE UNCHANGED vars
  BY <1>5, StutterIInv
<1>6. QED
  BY <1>1, <1>2, <1>3, <1>4, <1>5 DEF Next

-----------------------------------------------------------------------------
(* Theorems.                                                               *)

\* The inductive invariant holds in every reachable state.
THEOREM RunsInductive == Spec => []IInv
<1>1. Init => IInv
  BY InitIInv
<1>2. IInv /\ [Next]_vars => IInv'
  BY NextIInv
<1>3. QED
  BY <1>1, <1>2, PTL DEF Spec

\* Every variable of the coordinators, the gate and the recorder keeps its
\* type.
THEOREM RunsTypeCorrect == Spec => []TypeOK
<1>1. IInv => TypeOK
  BY DEF IInv
<1>2. QED
  BY <1>1, RunsInductive, PTL

\* Whatever is in progress anywhere, in a caller, a queue or a worker, holds
\* the gate: missions and fault runs exclude each other.
THEOREM OneRunInProgressHolds == Spec => []OneRunInProgress
<1>1. ASSUME IInv PROVE OneRunInProgress
  <2>1. \A c \in Callers : call[c].op = "submit" => call[c].run = lease
    BY <1>1 DEF IInv, MissionStages, Submitting
  <2>2. ToSet(missionQueue) \subseteq {lease}
    BY <1>1 DEF IInv, MissionStages, ToSet
  <2>3. ToSet(faultQueue) \subseteq {lease}
    BY <1>1 DEF IInv, FaultStages, ToSet
  <2>4. /\ missionPc # "idle" => missionTask = lease
        /\ faultPc # "idle" => faultTask = lease
    BY <1>1 DEF IInv, MissionStages, FaultStages
  <2>5. QED
    BY <2>1, <2>2, <2>3, <2>4 DEF OneRunInProgress, InProgress
<1>2. QED
  BY <1>1, RunsInductive, PTL

\* A recording is always of the run that holds the gate.
THEOREM CaptureOwnedHolds == Spec => []CaptureOwned
<1>1. IInv => CaptureOwned
  BY DEF IInv, CaptureStages, CaptureOwned
<1>2. QED
  BY <1>1, RunsInductive, PTL

\* An accepted cancel request leaves no final event but cancelled and
\* emergency_stop.
THEOREM CancelHonouredHolds == Spec => []CancelHonoured
<1>1. IInv => CancelHonoured
  BY DEF IInv
<1>2. QED
  BY <1>1, RunsInductive, PTL

\* The final evidence of a fault run always fits into its journal.
THEOREM FinalEvidenceKeptHolds == Spec => []FinalEvidenceKept
<1>1. IInv => FinalEvidenceKept
  BY DEF IInv, FaultStages, FinalEvidenceKept
<1>2. QED
  BY <1>1, RunsInductive, PTL

\* The bundle on offer between runs is that of a coordinator's last run.
THEOREM BundleOfLastRunHolds == Spec => []BundleOfLastRun
<1>1. IInv => BundleOfLastRun
  BY DEF IInv, BundleStages, BundleOfLastRun
<1>2. QED
  BY <1>1, RunsInductive, PTL

\* A recording that has seen a frame ends in a valid bundle, for captures of
\* any size from two frames up.
THEOREM RecordingKeptHolds == Spec => RecordingKept
<1> DEFINE Kept == recorderState # "invalid" /\ recorderState' = "invalid"
                       => latestFrame = 0
<1>1. ASSUME IInv, [Next]_vars PROVE [Kept]_vars
  <2>1. CASE NotifyMission
    <3>1. capture.run = missionTask /\ missionTask \in Runs
          /\ missionResult \in FinalStatus
      BY <1>1, <2>1, WorkerHolds
      DEF NotifyMission, IInv, CaptureStages, MissionRecord, HasFinal, Runs
    <3>2. latestFrame # 0 => recorderState' = "ready"
      BY <1>1, <2>1, <3>1, CompleteKeeps DEF NotifyMission, IInv
    <3>3. QED
      BY <3>2
  <2>2. CASE NotifyFault
    <3>1. capture.run = faultTask /\ faultTask \in Runs
          /\ faultFinal \in FaultResult
      BY <1>1, <2>2 DEF NotifyFault, IInv, CaptureStages, FaultStages, Runs
    <3>2. latestFrame # 0 => recorderState' = "ready"
      BY <1>1, <2>2, <3>1, CompleteKeeps DEF NotifyFault, IInv
    <3>3. QED
      BY <3>2
  <2>3. ASSUME [Next]_vars, ~NotifyMission, ~NotifyFault
        PROVE  recorderState' \in {recorderState, "recording"}
    <3>1. ASSUME NEW c \in Callers, NEW m \in Missions, SubmitMission(c, m)
          PROVE  recorderState' = recorderState
      BY <3>1 DEF SubmitMission, recorderVars
    <3>2. ASSUME NEW c \in Callers, CancelCurrent(c) \/ CallCancelHandler(c)
          PROVE  recorderState' = recorderState
      BY <3>2 DEF CancelCurrent, CallCancelHandler, recorderVars
    <3>3. ASSUME NEW c \in Callers, StartMission(c)
          PROVE  recorderState' \in {recorderState, "recording"}
      BY <3>3 DEF StartMission, StartCapture
    <3>4. ASSUME TakeMission \/ OverrideResult \/ ConcludeJournal
                 \/ FinishMission \/ ReleaseMission \/ RunnerEmitsStep
                 \/ RunnerRaises
          PROVE  recorderState' = recorderState
      BY <3>4 DEF TakeMission, OverrideResult, ConcludeJournal, FinishMission,
                  ReleaseMission, RunnerEmitsStep, RunnerRaises, recorderVars
    <3>5. ASSUME NEW v \in FinalStatus, RunnerEmitsFinal(v) \/ RunnerReturns(v)
          PROVE  recorderState' = recorderState
      BY <3>5 DEF RunnerEmitsFinal, RunnerReturns, recorderVars
    <3>6. CASE MissionNext
      BY <2>3, <3>1, <3>2, <3>3, <3>4, <3>5, <3>6
      DEF MissionNext, MissionWorker, CallerSteps, RunnerEnds
    <3>7. CASE FaultNext
      BY <2>3, <3>7
      DEF FaultNext, FaultWorker, FaultRunEnds, FaultCleansUp, TakeFault,
          AnnounceFault, StartCapture, RunnerEmitsEvidence, FaultRunnerEnds,
          CleanUp, FinishFault, ReleaseFault, recorderVars
    <3>8. CASE RequestFault
      BY <3>8 DEF RequestFault, SubmitFault, recorderVars
    <3>9. CASE PublishFrame
      BY <3>9 DEF PublishFrame, OnFrame
    <3>10. CASE UNCHANGED vars
      BY <3>10 DEF vars, recorderVars
    <3>11. QED
      BY <2>3, <3>6, <3>7, <3>8, <3>9, <3>10 DEF Next
  <2>4. QED
    BY <1>1, <2>1, <2>2, <2>3
<1>2. QED
  BY <1>1, RunsInductive, PTL DEF Spec, RecordingKept
=============================================================================
