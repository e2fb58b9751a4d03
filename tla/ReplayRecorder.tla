--------------------------- MODULE ReplayRecorder ---------------------------
(***************************************************************************)
(* ReplayRecorder: the frames of one run, from its first event to its      *)
(* completion, sealed in a bundle.  A frame is its revision; the reasons   *)
(* command_change, state_change and cadence are one, "change", and whether *)
(* a frame has one is an input.  Offsets are left out: they come from a    *)
(* clock that is taken to be monotonic.                                    *)
(***************************************************************************)
EXTENDS RunGate, Sequences, SequencesExt

CONSTANTS
    MaxFrames,   \* MAX_REPLAY_FRAMES
    MaxRevision  \* bound: frames published, as the highest revision

ASSUME RecorderAssumption ==
    /\ MaxFrames \in Nat \ {0, 1}
    /\ MaxRevision \in Nat

VARIABLES
    recorderState,  \* _state
    capture,        \* _capture: run, frames and truncated; run NoRun for None
    latestFrame,    \* _latest_frame: its revision, 0 for None
    bundle          \* _bundle: run, verdict and frames; run NoRun for None

recorderVars == <<recorderState, capture, latestFrame, bundle>>

Opened(r) == [run |-> r, frames |-> <<>>, truncated |-> FALSE]

NoCapture == Opened(NoRun)

NoBundle == [run |-> NoRun, verdict |-> "none", frames |-> <<>>]

Sample(revision, reason) == [revision |-> revision, reason |-> reason]

RecorderInit ==
    /\ recorderState = "idle"
    /\ capture = NoCapture
    /\ latestFrame = 0
    /\ bundle = NoBundle

\* A frame already sampled is not sampled again, unless it is now terminal.
Repeated(frames, revision, reason) ==
    /\ frames # <<>>
    /\ Last(frames).revision = revision
    /\ reason # "terminal" \/ Last(frames).reason = "terminal"

\* Mutant: a frame already sampled is never sampled again.
AppendFrameOnce(c, revision, reason) ==
    IF c.frames # <<>> /\ Last(c.frames).revision = revision THEN c
    ELSE IF Len(c.frames) < MaxFrames
    THEN [c EXCEPT !.frames = Append(@, Sample(revision, reason))]
    ELSE [c EXCEPT !.truncated = TRUE]

\* _append_frame.  Only the terminal sample is forced: it takes the place of
\* the last one when the capture is full.
AppendFrame(c, revision, reason) ==
    IF Repeated(c.frames, revision, reason) THEN c
    ELSE IF Len(c.frames) < MaxFrames
    THEN [c EXCEPT !.frames = Append(@, Sample(revision, reason))]
    ELSE [c EXCEPT !.truncated = TRUE,
                   !.frames = IF reason = "terminal"
                              THEN Append(Front(@), Sample(revision, reason))
                              ELSE @]

\* The frame a capture opens with, if any frame is known.
WithStart(c) ==
    IF latestFrame # 0 THEN AppendFrame(c, latestFrame, "start") ELSE c

\* on_frame: a frame published again has the revision it had.
OnFrame(revision, changed) ==
    /\ revision \in {latestFrame, latestFrame + 1} \ {0}
    /\ revision <= MaxRevision
    /\ latestFrame' = revision
    /\ capture' = IF capture.run = NoRun THEN capture
                  ELSE IF capture.frames = <<>>
                  THEN AppendFrame(capture, revision, "start")
                  ELSE IF changed
                  THEN AppendFrame(capture, revision, "change")
                  ELSE capture
    /\ UNCHANGED <<recorderState, bundle>>

\* _start_capture: a new run replaces whatever capture was open.
StartCapture(r) ==
    /\ IF capture.run = r
       THEN UNCHANGED <<recorderState, capture>>
       ELSE /\ capture' = WithStart(Opened(r))
            /\ recorderState' = "recording"
    /\ UNCHANGED <<latestFrame, bundle>>

\* The terminal sample, and the relabelling of the last frame without one.
WithTerminal(c) ==
    LET opened == IF c.frames = <<>> THEN WithStart(c) ELSE c
        forced == IF latestFrame # 0
                  THEN AppendFrame(opened, latestFrame, "terminal")
                  ELSE opened
    IN  IF forced.frames = <<>> THEN forced
        ELSE [forced EXCEPT !.frames[Len(forced.frames)].reason = "terminal"]

\* What the validators of ReplayBundle ask of the frames.
ValidFrames(frames) ==
    /\ Len(frames) \in 1 .. MaxFrames
    /\ frames[1].reason = "start"
    /\ Last(frames).reason = "terminal"

\* _complete.  A completion that is not of the open capture leaves it open;
\* one without frames, or with frames the bundle refuses, closes it.
Complete(r, verdict) ==
    LET closed == WithTerminal(capture)
    IN  /\ IF capture.run # r
           THEN /\ recorderState' = "invalid"
                /\ UNCHANGED <<capture, bundle>>
           ELSE /\ capture' = NoCapture
                /\ IF ValidFrames(closed.frames)
                   THEN /\ bundle' = [run |-> r, verdict |-> verdict,
                                      frames |-> closed.frames]
                        /\ recorderState' = "ready"
                   ELSE /\ recorderState' = "invalid"
                        /\ UNCHANGED bundle
        /\ UNCHANGED latestFrame
=============================================================================
