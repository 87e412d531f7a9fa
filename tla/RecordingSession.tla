--------------------------- MODULE RecordingSession ---------------------------
(***************************************************************************)
(* A recorded call: the microphone's stream ("me") and system audio's      *)
(* ("them"), the echo canceller between them, the transcript file their    *)
(* lines go to, and the start, stop and discard of the whole.              *)
(*                                                                         *)
(* A call of the code that ends in other handlers of the session, as a     *)
(* stream's cancel() does in handleStreamFinished(), is a function from    *)
(* the recording's state to its state, so that each action is the whole    *)
(* cascade.  The streams are here by what they announce; RecordingStream   *)
(* is about their inside.  An AudioInput never answers inside a call.      *)
(***************************************************************************)
EXTENDS Naturals, RecordingPromises

CONSTANTS SystemAudio,   \* whether recordings take system audio
          Cancels        \* whether an echo canceller can be had

ASSUME RecordingAssumption == SystemAudio \in BOOLEAN /\ Cancels \in BOOLEAN

VARIABLE dictation   \* what the session knows of the dictation beside it

vars == <<rec, file, deadline, dictation>>

-----------------------------------------------------------------------------
(* State.                                                                  *)

\* state is what status() shows of the stream; utterance is pauseTimer.
NoStream == [running |-> FALSE, input |-> "Off", connecting |-> FALSE,
             state |-> "Recording", utterance |-> FALSE]
Started == [NoStream EXCEPT !.running = TRUE, !.input = "Starting", !.connecting = TRUE]

\* mic and sys are the captures themselves; answers counts StartDone's.
AtRest == [phase |-> "Off", me |-> NoStream, them |-> NoStream, mic |-> "off", sys |-> "off",
           cancelling |-> FALSE, pending |-> FALSE, astray |-> FALSE]

stopped(t) == [t EXCEPT !.running = FALSE, !.input = "Off", !.utterance = FALSE]
shows(t, state) == [t EXCEPT !.state = state]

live(who) == IF who = "me" /\ dictation.dictating THEN "Paused" ELSE "Recording"

-----------------------------------------------------------------------------
(* The session's calls, on its state r.                                    *)

\* Mutant: system audio's capture is left on.
ReleasesMicrophone(r) == [r EXCEPT !.mic = "off", !.cancelling = FALSE]

releaseInputs(r) == [r EXCEPT !.mic = "off", !.cancelling = FALSE, !.sys = "off"]

stopCancellingEcho(r) == [r EXCEPT !.cancelling = FALSE]

\* The start's done is called, which may be called once.
answer(r) == [r EXCEPT !.pending = FALSE, !.astray = @ \/ ~r.pending]

finish(r) == [releaseInputs(r) EXCEPT !.phase = "Off", !.astray = @ \/ r.phase = "Off"]

finishStartOnceSettled(r) ==
    IF r.phase = "Starting" /\ ~r.me.connecting /\ ~r.them.connecting
    THEN answer([r EXCEPT !.phase = "Recording"]) ELSE r

\* handleStreamFinished(m_them)
themFinished(r) ==
    LET s == [r EXCEPT !.them = stopped(@)]
        t == [s EXCEPT !.them = shows(@, "Stopped")]
        u == IF capturing(t) THEN t ELSE stopCancellingEcho(t)
    IN  CASE r.phase = "Off" -> s
          [] r.phase = "Stopping" -> IF isRunning(t) THEN t ELSE finish(t)
          [] r.phase = "Starting" -> finishStartOnceSettled([u EXCEPT !.them.connecting = FALSE])
          [] r.phase = "Recording" -> u

cancelThem(r) == IF r.them.running THEN themFinished(r) ELSE r

\* finishListening() of m_them's stream.
themFinishListening(r) ==
    CASE r.them.input = "Listening" ->
             [r EXCEPT !.them.input = "Stopping", !.sys = IF capturing(r) THEN "stopping" ELSE @]
      [] r.them.input = "Starting" -> themFinished(r)
      [] r.them.input = "Off" -> [r EXCEPT !.them.utterance = FALSE]
      [] r.them.input = "Stopping" -> r

stopSystemAudio(r) == IF r.them.running THEN themFinishListening(r) ELSE [r EXCEPT !.sys = "off"]

\* The microphone's stream never connected.
abandon(r) == answer(releaseInputs(cancelThem([r EXCEPT !.phase = "Off"])))

\* handleStreamFinished(m_me), whose stream let go of the microphone and of
\* what the canceller held.
meFinished(r) ==
    LET s == [r EXCEPT !.me = stopped(@), !.mic = "off",
                       !.cancelling = IF r.me.input = "Off" THEN @ ELSE FALSE]
        t == [s EXCEPT !.me = shows(@, "Stopped")]
        u == stopSystemAudio(t)
    IN  CASE r.phase = "Off" -> s
          [] r.phase = "Starting" -> abandon(s)
          [] r.phase = "Stopping" -> IF isRunning(u) THEN u ELSE finish(u)
          [] r.phase = "Recording" -> t

cancelMe(r) == IF r.me.running THEN meFinished(r) ELSE r

\* The microphone has stopped: the utterance being spoken ends, and system
\* audio, the canceller's reference, stops after it.
meListened(r) ==
    LET s == [r EXCEPT !.me.utterance = FALSE]
    IN  IF r.phase = "Stopping" THEN stopSystemAudio(s) ELSE s

meFinishListening(r) ==
    CASE r.me.input = "Listening" -> [r EXCEPT !.me.input = "Stopping", !.mic = "stopping"]
      [] r.me.input = "Starting" -> meFinished(meListened(r))
      [] r.me.input = "Off" -> meListened(r)
      [] r.me.input = "Stopping" -> r

\* Mutant: both inputs stop at once.
StopsBoth(r) == stopSystemAudio(IF r.me.running THEN meFinishListening(r) ELSE r)

stopInputs(r) == IF r.me.running THEN meFinishListening(r) ELSE stopSystemAudio(r)

-----------------------------------------------------------------------------
(* The transcript.  What the file ends with: whole lines, part of one, or  *)
(* a line that runs on from part of another.                               *)

NoFile == [open |-> FALSE, ends |-> "none"]

\* Mutant: the file takes lines after a part that could not be cut off.
AppendsOn(f) ==
    {f} \cup (IF f.open THEN {[f EXCEPT !.ends = IF @ = "part" THEN "runOn" ELSE "whole"],
                              [f EXCEPT !.ends = "part"]} ELSE {})

\* writeLine() and append(), by how it can end: written, not at all, in part and cut off, or in
\* part and never again.
append(f) ==
    {f} \cup (IF f.open THEN {[f EXCEPT !.ends = IF @ = "part" THEN "runOn" ELSE "whole"],
                              [f EXCEPT !.ends = "part", !.open = FALSE],
                              [f EXCEPT !.open = FALSE]} ELSE {})

\* The file once the recording is r: closed with it, gone if it never ran.
closed(f, r) ==
    CASE r.phase # "Off" -> f
      [] rec.phase = "Starting" -> NoFile
      [] OTHER -> [f EXCEPT !.open = FALSE]

-----------------------------------------------------------------------------
(* The stop's deadline.  Its timer runs for as long as an utterance may    *)
(* take, and never past the limit of the whole stop.                       *)

NoDeadline == [timer |-> "off", past |-> FALSE]
NewDeadline == [timer |-> "running", past |-> FALSE]

\* Mutant: each answer gives the next its whole time.
ExtendsWithoutLimit(d) == IF d.timer = "off" THEN d ELSE [d EXCEPT !.timer = "running"]

extendStop(d) ==
    IF d.timer = "off" THEN d ELSE [d EXCEPT !.timer = IF d.past THEN "due" ELSE "running"]

marks(d, r) == r.phase = "Recording" /\ d.listening /\ ~d.marked

\* The recording goes from rec to r, with its file as f and the stop's deadline
\* as d when it goes on.  Once it runs it has a line for a dictation that
\* listens (markDictation()).
becomes(r, f, d) ==
    /\ rec' = r
    /\ deadline' = IF r.phase = "Off" THEN NoDeadline ELSE d
    /\ IF marks(dictation, r) /\ rec.phase = "Starting"
       THEN dictation' = [dictation EXCEPT !.marked = TRUE] /\ file' \in append(f)
       ELSE dictation' = dictation /\ file' = closed(f, r)

-----------------------------------------------------------------------------
(* Operations.                                                             *)

start ==
    /\ rec.phase = "Off"
    /\ \E system \in {FALSE, SystemAudio}, cancels \in {FALSE, Cancels} :
         /\ rec' = [phase |-> "Starting", me |-> Started, pending |-> TRUE, astray |-> rec.astray,
                    them |-> IF system THEN Started ELSE NoStream,
                    mic |-> "starting", sys |-> IF system THEN "starting" ELSE "off",
                    cancelling |-> system /\ cancels]
    /\ file' = [open |-> TRUE, ends |-> "whole"]
    /\ UNCHANGED <<deadline, dictation>>

stop ==
    /\ rec.phase = "Recording"
    /\ LET r == [rec EXCEPT !.phase = "Stopping"]
       IN  becomes(IF isRunning(r) THEN stopInputs(r) ELSE finish(r), file, NewDeadline)

\* The file goes last.
discard ==
    /\ rec.phase = "Recording"
    /\ LET r == [rec EXCEPT !.phase = "Stopping", !.me.utterance = FALSE, !.them.utterance = FALSE]
       IN  /\ rec' = IF isRunning(r) THEN cancelThem(cancelMe(r)) ELSE finish(r)
           /\ deadline' = NoDeadline
    /\ file' = NoFile
    /\ UNCHANGED dictation

DeadlineFires ==
    /\ deadline.timer = "due"
    /\ becomes(cancelThem(cancelMe(rec)), file, NoDeadline)

TimePasses ==
    /\ deadline.timer = "running"
    /\ deadline' = [deadline EXCEPT !.timer = "due"]
    /\ UNCHANGED <<rec, file, dictation>>
LimitPasses ==
    /\ deadline.timer # "off" /\ ~deadline.past
    /\ deadline' = [deadline EXCEPT !.past = TRUE]
    /\ UNCHANGED <<rec, file, dictation>>

setDictating ==
    /\ dictation' = [dictation EXCEPT !.dictating = ~@]
    /\ rec' = IF rec.me.state \in {"Recording", "Paused"}
              THEN [rec EXCEPT !.me.state = IF dictation'.dictating THEN "Paused" ELSE "Recording"]
              ELSE rec
    /\ UNCHANGED <<file, deadline>>

\* Each dictation that listens while it records is marked once.
setDictationListening ==
    LET d == [dictation EXCEPT !.listening = ~@, !.marked = FALSE]
    IN  /\ dictation' = [d EXCEPT !.marked = marks(d, rec)]
        /\ IF marks(d, rec) THEN file' \in append(file) ELSE file' = file
        /\ UNCHANGED <<rec, deadline>>

-----------------------------------------------------------------------------
(* The inputs.                                                             *)

micStarted ==
    /\ rec.mic = "starting"
    /\ rec' = [rec EXCEPT !.mic = "on", !.me.input = "Listening"]
    /\ UNCHANGED <<file, deadline, dictation>>
sysStarted ==
    /\ rec.sys = "starting"
    /\ rec' = [rec EXCEPT !.sys = "on",
                          !.them.input = IF rec.them.running THEN "Listening" ELSE @]
    /\ UNCHANGED <<file, deadline, dictation>>

\* One that heard something still has that sent; one that did not ends its
\* stream.
micFailed ==
    /\ rec.mic \in {"starting", "on"}
    /\ LET r == [rec EXCEPT !.mic = "off", !.cancelling = FALSE]
       IN  \/ becomes(meFinished([r EXCEPT !.me.input = "Off"]), file, deadline)
           \/ rec.mic = "on" /\ becomes([r EXCEPT !.me.input = "Off"], file, deadline)

\* The session hears of it before the stream does.
sysFailed ==
    /\ rec.sys \in {"starting", "on"}
    /\ LET r == stopCancellingEcho([rec EXCEPT !.sys = "off"])
       IN  \/ becomes(IF r.them.running THEN themFinished([r EXCEPT !.them.input = "Off"]) ELSE r, file, deadline)
           \/ rec.sys = "on" /\ rec.them.running
              /\ becomes([r EXCEPT !.them.input = "Off"], file, deadline)

micStopped ==
    /\ rec.mic = "stopping"
    /\ becomes(meListened([rec EXCEPT !.mic = "off", !.cancelling = FALSE, !.me.input = "Off"]), file, deadline)
sysStopped ==
    /\ rec.sys = "stopping"
    /\ becomes([rec EXCEPT !.sys = "off", !.them.input = "Off", !.them.utterance = FALSE], file, deadline)

\* Voice opens an utterance; a pause, or its length, ends it.
trackUtterance ==
    /\ \/ /\ rec.mic # "off" /\ rec.me.running
          /\ rec' = [rec EXCEPT !.me.utterance = ~@]
       \/ /\ rec.sys # "off" /\ rec.them.running
          /\ rec' = [rec EXCEPT !.them.utterance = ~@]
    /\ UNCHANGED <<file, deadline, dictation>>
pauseEnds ==
    /\ \/ rec.me.utterance /\ rec' = [rec EXCEPT !.me.utterance = FALSE]
       \/ rec.them.utterance /\ rec' = [rec EXCEPT !.them.utterance = FALSE]
    /\ UNCHANGED <<file, deadline, dictation>>

-----------------------------------------------------------------------------
(* The streams.  Providers prepare once the input has started.             *)

speaks(t) == t.running /\ t.input # "Starting"

\* Words come finished: a line, and more time for the next.
textFinalized ==
    /\ speaks(rec.me) \/ speaks(rec.them)
    /\ file' \in append(file)
    /\ deadline' = extendStop(deadline)
    /\ UNCHANGED <<rec, dictation>>

utteranceFailed ==
    /\ speaks(rec.me) \/ speaks(rec.them)
    /\ deadline' = extendStop(deadline)
    /\ UNCHANGED <<rec, file, dictation>>

\* handleStreamConnected()
connected(who) ==
    /\ speaks(rec[who])
    /\ LET r == [rec EXCEPT ![who] = shows(@, live(who))]
       IN  becomes(IF rec.phase = "Starting"
                   THEN finishStartOnceSettled([r EXCEPT ![who].connecting = FALSE]) ELSE r,
                   file, deadline)

reconnecting(who) ==
    /\ speaks(rec[who]) /\ rec[who].input = "Listening" /\ ~rec[who].connecting
    /\ rec' = [rec EXCEPT ![who] = shows(@, "Reconnecting")]
    /\ UNCHANGED <<file, deadline, dictation>>

\* A stream ends: answered, once its input has; or failed, with what it had
\* of the utterance as its last line.
finished(who) ==
    /\ speaks(rec[who])
    /\ LET r == IF who = "me" THEN meFinished(rec) ELSE themFinished(rec)
       IN  \E f \in append(file) : becomes(r, f, extendStop(deadline))

-----------------------------------------------------------------------------
Init ==
    /\ rec = AtRest /\ file = NoFile /\ deadline = NoDeadline
    /\ dictation = [dictating |-> FALSE, listening |-> FALSE, marked |-> FALSE]

Inputs == micStarted \/ micFailed \/ micStopped \/ sysStarted \/ sysFailed \/ sysStopped
          \/ trackUtterance \/ pauseEnds
Streams == textFinalized \/ utteranceFailed
           \/ \E who \in {"me", "them"} : connected(who) \/ reconnecting(who) \/ finished(who)

Next ==
    \/ start \/ stop \/ discard
    \/ DeadlineFires \/ TimePasses \/ LimitPasses
    \/ setDictating \/ setDictationListening
    \/ Inputs \/ Streams

\* Only the session's own clock is counted on: no input and no provider has to
\* answer anything.
Fairness == WF_vars(DeadlineFires) /\ WF_vars(TimePasses) /\ WF_vars(LimitPasses)

Spec == Init /\ [][Next]_vars /\ Fairness

-----------------------------------------------------------------------------
(* Properties.                                                             *)

StreamType == [running : BOOLEAN, input : {"Off", "Starting", "Listening", "Stopping"},
               connecting : BOOLEAN, state : {"Recording", "Paused", "Reconnecting", "Stopped"},
               utterance : BOOLEAN]

TypeOK ==
    /\ rec \in [phase : {"Off", "Starting", "Recording", "Stopping"}, me : StreamType,
                them : StreamType, mic : {"off", "starting", "on", "stopping"},
                sys : {"off", "starting", "on", "stopping"}, cancelling : BOOLEAN,
                pending : BOOLEAN, astray : BOOLEAN]
    /\ file \in [open : BOOLEAN, ends : {"none", "whole", "part", "runOn"}]
    /\ deadline \in [timer : {"off", "running", "due"}, past : BOOLEAN]
    /\ dictation \in [dictating : BOOLEAN, listening : BOOLEAN, marked : BOOLEAN]

\* A stop ends, whatever the providers and the inputs do, and however many
\* words still come.
StopEnds == rec.phase = "Stopping" ~> rec.phase = "Off"
=============================================================================
