-------------------------- MODULE RecordingPromises --------------------------
(***************************************************************************)
(* The state of a recorded call, and what must hold of it however the call *)
(* is started, stopped, discarded or fails: that the transcript is whole,  *)
(* that the echo canceller has its reference, and that the end is one.     *)
(***************************************************************************)
VARIABLES
    rec,        \* the RecordingSession, its streams and inputs
    file,       \* the RecordingTranscript
    deadline    \* m_stopDeadline, and whether m_stopLimit is past

capturing(r) == r.sys \in {"starting", "on"}
isRunning(r) == r.me.running \/ r.them.running

\* No line of the transcript runs on from part of another, whichever writes
\* fail and however (RecordingTranscript::append(), "so the next line does not
\* run on from it").
LinesWhole == file.ends # "runOn"

\* While the echo canceller works on the microphone, its reference still
\* comes: system audio stops after the microphone, whichever stream ends first
\* and in whatever way the recording does ("System audio stops after the
\* microphone, as it is the echo canceller's reference").
ReferenceOutlasts == rec.cancelling => capturing(rec)

\* A recording that is over leaves nothing on, and ends and answers its start
\* once, though a stream's end ends the recording from inside its own stop,
\* deadline or discard.
EndsWhole ==
    /\ ~rec.astray
    /\ rec.phase = "Off" =>
        /\ rec.mic = "off" /\ rec.sys = "off" /\ ~isRunning(rec) /\ ~rec.pending
        /\ ~file.open /\ deadline.timer = "off"
    /\ rec.pending <=> rec.phase = "Starting"
==============================================================================
