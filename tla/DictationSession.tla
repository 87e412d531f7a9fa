--------------------------- MODULE DictationSession ---------------------------
(***************************************************************************)
(* DictationSession: one dictation from its start to its delivery, with    *)
(* the review of a selection edit and the follow-ups dictated to it.       *)
(*                                                                         *)
(* The session is event driven, and its hard part is what it announces: a  *)
(* handler of stateChanged() may call any command, or make the speech      *)
(* fail, before the code that announced has gone on.  The code guards      *)
(* itself by m_step, which every announcement moves on, and m_generation,  *)
(* which every start and cancel does.  Only whether a remembered value is  *)
(* still the current one is ever asked, so calls and callbacks carry no    *)
(* numbers: the calls that are past are marked, the callbacks dropped.      *)
(*                                                                         *)
(* The speech is the one SpeechContract specifies; the microphone, the     *)
(* Target provider, the refiners and the delivery are the environment.     *)
(***************************************************************************)
EXTENDS Naturals, Sequences

CONSTANTS
    Refiners,       \* how many refinement providers a chain may have
    MaxUnanswered,  \* bound: deliveries asked for and not answered
    MaxNesting      \* bound: how deep handlers may call the session

ASSUME RefinersAssumption == Refiners \in Nat
ASSUME SessionBoundsAssumption == MaxUnanswered \in Nat \ {0} /\ MaxNesting \in Nat

VARIABLES
    state,        \* m_state
    settings,     \* whether m_sessionSettings holds the session's settings
    review,       \* m_review: none, up, or up with a follow-up dictated
    selection,    \* whether m_target has a selection
    edits,        \* m_transcriptPipeline.editsSelection
    text,         \* whether m_transcript holds words
    microphone,   \* m_microphone
    audio,        \* what the audio input does
    held,         \* m_microphoneHeld
    listening,    \* m_listening
    media,        \* media the session paused is paused
    speech,       \* m_speech: its phase, and what it was asked
    refining,     \* m_refinementGeneration is the session's
    refiners,     \* the providers the refinement chain has left
    job,          \* what the chain or the current refiner is busy with
    completing,   \* m_completionTimer runs
    awaited,      \* m_awaitedDelivery is the session's
    unanswered,   \* m_unansweredDeliveries
    delivered,    \* whether the dictation's words went to the delivery
    pending,      \* callbacks the event loop will bring
    calls,        \* the call stack
    failsInHandler  \* whether the speech may fail while a handler runs; it never changes

runVars == <<settings, selection, edits>>
microphoneVars == <<microphone, audio, held>>
refinementVars == <<refining, refiners, job>>
deliveryVars == <<completing, unanswered, delivered>>
vars == <<state, settings, review, selection, edits, text, microphone, audio, held,
          listening, media, speech, refining, refiners, job, completing, awaited,
          unanswered, delivered, pending, calls>>

States == {"Idle", "Starting", "Listening", "Paused", "Stopping", "Refining",
           "Reviewing", "Delivering", "Error"}

followingUp == review = "following"

\* The popup's answer counts until a start or a cancel, the Target provider's
\* until any announcement: one left behind does nothing, and is dropped.
Callbacks == {"popup", "target", "check"}

-----------------------------------------------------------------------------
(* The call stack: the head runs, and the event loop brings a callback only  *)
(* when it is empty.                                                         *)

Frames == {"handlers", "announced", "started", "showPopup", "captured", "failStartup",
           "startFollowUp", "resumed", "startMicrophone", "stopMicrophone",
           "resumePausedMedia", "proceed", "speech", "speechFailed", "beginRefinement",
           "walk", "walkOn", "startRefiner", "refine", "refiner", "prepareNext", "replace", "deliver",
           "overtaken"}

\* Mutant: a resume's microphone starts for a session that a handler has ended.
StepGuardedButMicrophone ==
    {"announced", "started", "showPopup", "captured", "failStartup", "startFollowUp",
     "resumed", "proceed", "beginRefinement", "startRefiner", "refine", "prepareNext",
     "replace", "deliver"}

\* What checks its step, its generation, or the chain's walk before it goes on.
StepGuarded == {"announced", "started", "showPopup", "captured", "failStartup",
                "startFollowUp", "resumed", "startMicrophone", "proceed",
                "beginRefinement", "startRefiner", "refine", "prepareNext",
                "replace", "deliver"}
GenerationGuarded == {"stopMicrophone"}

WalkGuarded == {"walk", "walkOn"}

\* The calls that check what has moved on return as soon as they run again.
Overtake(stack, guarded) ==
    [i \in DOMAIN stack |-> IF stack[i] \in guarded THEN "overtaken" ELSE stack[i]]

Running(f) == calls # <<>> /\ Head(calls) = f
Return == calls' = Tail(calls)
GoOn(frames) == calls' = frames \o Tail(calls)
Free == calls = <<>>
Handling == Running("handlers") /\ Len(calls) <= MaxNesting
MayCall == Free \/ Handling

\* setState(): the step moves on and the state is announced.  frames is what
\* the caller does after; the rest of setState() comes before it.
setState(next, frames, stack) ==
    /\ state' = next
    /\ awaited' = FALSE
    /\ pending' = pending \ {"target", "check"}
    /\ calls' = <<"handlers", "announced">> \o frames \o Overtake(stack, StepGuarded)

\* The same with m_generation moved on, and the chain's walk cancelled.
setStateAfresh(next, frames, stack) ==
    /\ state' = next
    /\ awaited' = FALSE
    /\ pending' = {}
    /\ calls' = <<"handlers", "announced">> \o frames
                \o Overtake(stack, StepGuarded \cup GenerationGuarded \cup WalkGuarded)

\* updateMicrophoneHeld() and updateListening(), where a handler has not moved
\* the session on.
Holds(m, st) == m # "Off" \/ st \in {"Starting", "Listening"}

Announced ==
    /\ Running("announced")
    /\ held' = Holds(microphone, state)
    /\ listening' = (state \in {"Listening", "Paused"})
    /\ Return
    /\ UNCHANGED <<state, runVars, review, text, microphone, audio, media, speech,
                   refinementVars, deliveryVars, awaited, pending>>

OvertakenReturns ==
    /\ Running("overtaken")
    /\ Return
    /\ UNCHANGED <<state, runVars, review, text, microphoneVars, listening, media, speech,
                   refinementVars, deliveryVars, awaited, pending>>

HandlersReturn ==
    /\ Running("handlers")
    /\ Return
    /\ UNCHANGED <<state, runVars, review, text, microphoneVars, listening, media, speech,
                   refinementVars, deliveryVars, awaited, pending>>

-----------------------------------------------------------------------------

Speeches == [phase : {"Idle", "Starting", "Listening", "Paused", "Stopping"},
             started : BOOLEAN, asked : BOOLEAN, stopped : BOOLEAN]
NoSpeech == [phase |-> "Idle", started |-> FALSE, asked |-> FALSE, stopped |-> FALSE]

Init ==
    /\ failsInHandler \in BOOLEAN
    /\ state = "Idle"
    /\ settings = FALSE
    /\ review = "none"
    /\ selection = FALSE
    /\ edits = FALSE
    /\ text = FALSE
    /\ microphone = "Off"
    /\ audio = "off"
    /\ held = FALSE
    /\ listening = FALSE
    /\ media = FALSE
    /\ speech = NoSpeech
    /\ refining = FALSE
    /\ refiners = 0
    /\ job = "none"
    /\ completing = FALSE
    /\ awaited = FALSE
    /\ unanswered = 0
    /\ delivered = FALSE
    /\ pending = {}
    /\ calls = <<>>

\* A handler runs and calls the session, or the event loop is free and does.
\* The report of a call that is running comes inside it.
In(f) == Free \/ Running(f)
Below(f) == IF Running(f) THEN Tail(calls) ELSE calls

-----------------------------------------------------------------------------
(* Ending a session.                                                         *)

\* abortMicrophone(): nothing more comes of its capture.
abortMicrophone ==
    /\ microphone' = "Off"
    /\ audio' = IF microphone = "Off" THEN audio ELSE "off"
    /\ held' = Holds("Off", state)

\* Mutant: the media the session paused is left paused.
DiscardButMedia(restored) ==
    /\ abortMicrophone
    /\ speech' = NoSpeech
    /\ job' = "none"
    /\ refining' = FALSE
    /\ completing' = FALSE
    /\ settings' = restored /\ selection' = restored /\ edits' = restored
    /\ UNCHANGED <<text, listening, media, refiners, unanswered, delivered>>

\* discard(): keeps nothing of the session but, for a follow-up cancelled,
\* what returnToReview() restores.
discard(restored) ==
    /\ abortMicrophone
    /\ speech' = NoSpeech
    /\ job' = "none"
    /\ refining' = FALSE
    /\ completing' = FALSE
    /\ settings' = restored /\ selection' = restored /\ edits' = restored
    /\ media' = FALSE
    /\ UNCHANGED <<text, listening, refiners, unanswered, delivered>>

\* failSession(): a follow-up goes back to its review, where setState(Error)
\* restores what the revision was made with.
FailSessionWith(target, pipeline, refines, stack) ==
    /\ abortMicrophone
    /\ media' = FALSE
    /\ IF followingUp
       THEN /\ review' = "up"
            /\ settings' = TRUE /\ selection' = TRUE /\ edits' = TRUE
            /\ refining' = FALSE
            /\ setState("Reviewing", <<>>, stack)
       ELSE /\ settings' = FALSE /\ selection' = target /\ edits' = pipeline
            /\ refining' = refines
            /\ setState("Error", <<>>, stack)
            /\ UNCHANGED review

\* Mutant: a follow-up that fails takes its review with it.
FailSessionAndReview(stack) ==
    /\ abortMicrophone
    /\ media' = FALSE
    /\ review' = "none"
    /\ settings' = FALSE
    /\ setState("Error", <<>>, stack)
    /\ UNCHANGED <<selection, edits, refining>>

failSession(stack) == FailSessionWith(selection, edits, refining, stack)
failSelectionEdit(stack) == FailSessionWith(FALSE, FALSE, FALSE, stack)

\* deliverFinal(); that it finds the session's settings is part of WorkFollows.
deliverFinal(stack) ==
    /\ refining' = FALSE
    /\ setState("Delivering", <<"deliver">>, stack)

\* deliverWithoutRefinement().
deliverWithoutRefinement(stack) ==
    IF edits THEN failSelectionEdit(stack)
    ELSE /\ deliverFinal(stack)
         /\ UNCHANGED <<runVars, review, microphoneVars, media>>

-----------------------------------------------------------------------------
(* The start.                                                                *)

mayStart == \/ state \in {"Idle", "Error"}
            \/ state = "Reviewing" /\ followingUp
            \/ state = "Delivering" /\ completing

\* startSession(), from the event loop, a handler, or startFollowUp().
StartSessionOn(stack) ==
    /\ mayStart
    /\ completing' = FALSE
    /\ speech' = [NoSpeech EXCEPT !.phase = "Starting"]
    /\ settings' = TRUE
    /\ selection' = FALSE
    /\ refining' = FALSE /\ refiners' = 0 /\ job' = "none"
    /\ delivered' = FALSE
    /\ setStateAfresh("Starting", <<"started">>, stack)
    /\ UNCHANGED <<review, edits, text, microphoneVars, listening, media, unanswered>>

startSession ==
    /\ MayCall
    /\ ~(state = "Reviewing" /\ review = "up")
    /\ StartSessionOn(calls)

\* startFollowUp(): a start while an edit is reviewed shows the review dimmed
\* first.
startFollowUp ==
    /\ MayCall
    /\ state = "Reviewing" /\ review = "up"
    /\ review' = "following"
    /\ calls' = <<"handlers", "startFollowUp">> \o calls
    /\ UNCHANGED <<state, runVars, text, microphoneVars, listening, media, speech,
                   refinementVars, deliveryVars, awaited, pending>>

StartFollowUp ==
    /\ Running("startFollowUp")
    /\ StartSessionOn(Tail(calls))

\* The transcript is cleared, and says so; then the popup is asked for.
ClearTranscript ==
    /\ Running("started")
    /\ text' = FALSE
    /\ edits' = FALSE
    /\ GoOn(<<"handlers", "showPopup">>)
    /\ UNCHANGED <<state, settings, selection, review, microphoneVars, listening, media,
                   speech, refinementVars, deliveryVars, awaited, pending>>

ShowPopup ==
    /\ Running("showPopup")
    /\ pending' = pending \cup {"popup"}
    /\ GoOn(<<"handlers">>)
    /\ UNCHANGED <<state, runVars, review, text, microphoneVars, listening, media, speech,
                   refinementVars, deliveryVars, awaited>>

\* The popup painted, or its fallback timer ended: continueStartupAfterPopup()
\* goes on once a session.  The Target is the review's, or the provider
\* answers inside capture() or later; a handler may run inside it too.
continueStartupAfterPopup ==
    /\ MayCall
    /\ "popup" \in pending
    /\ IF state = "Starting" /\ settings
       THEN \/ /\ calls' = (IF followingUp THEN <<"captured">> ELSE <<"handlers", "captured">>)
                           \o calls
               /\ pending' = pending \ {"popup"}
            \/ /\ ~followingUp
               /\ pending' = (pending \ {"popup"}) \cup {"target"}
               /\ UNCHANGED calls
       ELSE pending' = pending \ {"popup"} /\ UNCHANGED calls
    /\ UNCHANGED <<state, runVars, review, text, microphoneVars, listening, media, speech,
                   refinementVars, deliveryVars, awaited>>

TargetCaptured ==
    /\ Free
    /\ "target" \in pending
    /\ pending' = pending \ {"target"}
    /\ calls' = <<"captured">>
    /\ UNCHANGED <<state, runVars, review, text, microphoneVars, listening, media, speech,
                   refinementVars, deliveryVars, awaited>>

\* continueStartupWithTarget(): the chains are taken from the settings, and the
\* speech started, or the start fails.
continueStartupWithTarget ==
    /\ Running("captured")
    /\ selection' \in (IF followingUp THEN {TRUE} ELSE BOOLEAN)
    /\ \/ /\ refiners' \in 0..Refiners
          /\ job' = "none"
          /\ media' \in {media, TRUE}
          /\ speech' = [speech EXCEPT !.started = TRUE]
          /\ GoOn(<<"speech">>)
       \/ /\ GoOn(<<"handlers", "failStartup">>)
          /\ UNCHANGED <<refiners, job, media, speech>>
    /\ UNCHANGED <<state, settings, edits, review, text, microphoneVars, listening, refining,
                   deliveryVars, awaited, pending>>

FailStartup ==
    /\ Running("failStartup")
    /\ failSession(Tail(calls))
    /\ UNCHANGED <<text, listening, speech, refiners, job, deliveryVars>>

-----------------------------------------------------------------------------
(* The microphone.  Its input reports only from the event loop, and a stop   *)
(* is always answered.                                                       *)

\* startMicrophone().
StartsMicrophone ==
    /\ microphone' = "Starting"
    /\ audio' = "starting"
    /\ held' = TRUE

StartMicrophone ==
    /\ Running("startMicrophone")
    /\ StartsMicrophone
    /\ Return
    /\ UNCHANGED <<state, runVars, review, text, listening, media, speech,
                   refinementVars, deliveryVars, awaited, pending>>

microphoneStarted ==
    /\ Free
    /\ audio = "starting"
    /\ audio' = "running"
    /\ IF microphone = "Starting"
       THEN /\ microphone' = "On"
            /\ IF state = "Starting"
               THEN /\ speech' = IF speech.phase = "Starting"
                                 THEN [speech EXCEPT !.phase = "Listening", !.asked = FALSE]
                                 ELSE speech
                    /\ setState("Listening", <<>>, calls)
               ELSE UNCHANGED <<state, speech, awaited, pending, calls>>
       ELSE UNCHANGED <<state, microphone, speech, awaited, pending, calls>>
    /\ UNCHANGED <<runVars, review, text, held, listening, media, refinementVars, deliveryVars>>

\* microphoneStopped(), once it stopped as was asked.
StoppedAs(was, stack) ==
    /\ microphone' = "Off"
    /\ audio' = "off"
    /\ held' = Holds("Off", state)
    /\ IF was = "Pausing" /\ state = "Listening"
       THEN /\ speech' = IF speech.phase = "Listening"
                         THEN [speech EXCEPT !.phase = "Paused"] ELSE speech
            /\ setState("Paused", <<"proceed">>, stack)
            /\ UNCHANGED media
       ELSE IF was = "Stopping" /\ state = "Stopping"
       THEN /\ media' = FALSE
            /\ speech' = [speech EXCEPT !.stopped = (speech.phase = "Stopping")]
            /\ calls' = <<"speech">> \o stack
            /\ UNCHANGED <<state, awaited, pending>>
       ELSE /\ calls' = stack
            /\ UNCHANGED <<state, media, speech, awaited, pending>>

\* stopMicrophone(): one that is off has stopped already.
StopMicrophoneTo(stopping, stack) ==
    IF microphone = "Off" THEN StoppedAs(stopping, stack)
    ELSE /\ microphone' = stopping
         /\ audio' = IF microphone \in {"Starting", "On"} THEN "stopping" ELSE audio
         /\ calls' = stack
         /\ UNCHANGED <<state, held, media, speech, awaited, pending>>

StopMicrophone ==
    /\ Running("stopMicrophone")
    /\ StopMicrophoneTo("Stopping", Tail(calls))
    /\ UNCHANGED <<runVars, review, text, listening, refinementVars, deliveryVars>>

microphoneStopped ==
    /\ Free
    /\ audio = "stopping"
    /\ StoppedAs(microphone, calls)
    /\ UNCHANGED <<runVars, review, text, listening, refinementVars, deliveryVars>>

\* stopListening() while listening: Stopping takes the post-roll.
StopsSpeech == IF speech.phase \in {"Listening", "Paused"}
               THEN [speech EXCEPT !.phase = "Stopping"] ELSE speech
\* Mutant: the speech is told before the microphone has stopped.
StopFromListeningAtOnce(stack) ==
    /\ speech' = [StopsSpeech EXCEPT !.stopped = TRUE]
    /\ setState("Stopping", <<"speech", "stopMicrophone">>, stack)

StopFromListening(stack) ==
    /\ speech' = StopsSpeech
    /\ setState("Stopping", <<"stopMicrophone">>, stack)

\* Mutant: a start that fails leaves a provider that took over preparing.
MicrophoneFailedOnly ==
    /\ Free
    /\ audio \in {"starting", "running"}
    /\ IF state = "Starting"
       THEN /\ failSession(calls)
            /\ UNCHANGED speech
       ELSE /\ state = "Listening"
            /\ microphone' = "Off" /\ audio' = "off"
            /\ StopFromListening(calls)
            /\ UNCHANGED <<runVars, review, held, media, refining>>
    /\ UNCHANGED <<text, listening, refiners, job, deliveryVars>>

\* microphoneFailed(): a start fails, and so does a dictation nothing was heard
\* of; the rest stops with what was heard.
microphoneFailed ==
    /\ Free
    /\ audio \in {"starting", "running"}
    /\ IF state = "Starting"
       THEN /\ speech' = NoSpeech
            /\ failSession(calls)
       ELSE \/ /\ state = "Listening"
               /\ microphone' = "Off" /\ audio' = "off"
               /\ StopFromListening(calls)
               /\ UNCHANGED <<runVars, review, held, media, refining>>
            \/ /\ microphone # "Starting" /\ ~text
               /\ speech' = NoSpeech
               /\ failSession(calls)
    /\ UNCHANGED <<text, listening, refiners, job, deliveryVars>>

-----------------------------------------------------------------------------
(* Stop, cancel, quit, pause and resume.                                     *)

\* Nothing of the session is left but the state it ends in, and no popup.
EndSession(kept, next) ==
    /\ discard(kept)
    /\ setStateAfresh(next, <<>>, calls)

\* cancelForShutdown().
cancelForShutdown ==
    /\ MayCall
    /\ state # "Idle"
    /\ unanswered < MaxUnanswered
    /\ review' = "none"
    /\ EndSession(FALSE, "Idle")

\* cancel(), and the stops that act as one.  A follow-up cancelled goes back to
\* its review, and a review cancelled keeps the original.
CancelSession ==
    IF followingUp /\ state # "Reviewing"
    THEN review' = "up" /\ EndSession(TRUE, "Reviewing")
    ELSE review' = "none" /\ EndSession(FALSE, "Idle")

cancel ==
    /\ MayCall
    /\ state \notin {"Idle", "Delivering", "Error"}
    /\ CancelSession

DismissError ==
    /\ MayCall
    /\ state = "Error"
    /\ setStateAfresh("Idle", <<>>, calls)
    /\ UNCHANGED <<runVars, review, text, microphoneVars, listening, media, speech,
                   refinementVars, deliveryVars>>

\* stopListening(), by state.
StopStarting ==
    /\ MayCall
    /\ state = "Starting"
    /\ CancelSession

StopListening ==
    /\ MayCall
    /\ state = "Listening"
    /\ StopFromListening(calls)
    /\ UNCHANGED <<runVars, review, text, microphoneVars, media, listening,
                   refinementVars, deliveryVars>>

StopPaused ==
    /\ MayCall
    /\ state = "Paused"
    /\ speech' = StopsSpeech
    /\ setState("Stopping", <<"resumePausedMedia", "proceed">>, calls)
    /\ UNCHANGED <<runVars, review, text, microphoneVars, media, listening,
                   refinementVars, deliveryVars>>

\* The refinement is cancelled first, as cancelling can make a refiner report.
\* A selection edit comes to nothing; a dictation is delivered as spoken.
StopRefining ==
    /\ MayCall
    /\ state = "Refining"
    /\ IF followingUp THEN CancelSession
       ELSE /\ refining' = FALSE /\ job' = "none"
            /\ IF edits
               THEN /\ settings' = FALSE /\ selection' = FALSE /\ edits' = FALSE
                    /\ setState("Idle", <<>>, Overtake(calls, WalkGuarded))
               ELSE /\ setState("Delivering", <<"deliver">>, Overtake(calls, WalkGuarded))
                    /\ UNCHANGED runVars
            /\ UNCHANGED <<review, text, microphoneVars, listening, media, speech,
                           refiners, deliveryVars>>

pause ==
    /\ MayCall
    /\ state = "Listening" /\ microphone # "Pausing"
    /\ StopMicrophoneTo("Pausing", calls)
    /\ UNCHANGED <<runVars, review, text, listening, refinementVars, deliveryVars>>

\* togglePause() before the pause took: listening goes on.
UndoPause ==
    /\ MayCall
    /\ state # "Paused" /\ microphone = "Pausing"
    /\ StartsMicrophone
    /\ UNCHANGED <<state, runVars, review, text, listening, media, speech,
                   refinementVars, deliveryVars, awaited, pending, calls>>

\* resume(): Listening is announced before the next attempt opens, and the
\* microphone starts after.
resume ==
    /\ MayCall
    /\ state = "Paused" /\ settings
    /\ speech' = IF speech.phase = "Paused" THEN [speech EXCEPT !.phase = "Listening"] ELSE speech
    /\ setState("Listening", <<"resumed">>, calls)
    /\ UNCHANGED <<runVars, review, text, microphoneVars, media, listening,
                   refinementVars, deliveryVars>>

Resumed ==
    /\ Running("resumed")
    /\ GoOn(<<"speech", "startMicrophone">>)
    /\ UNCHANGED <<state, runVars, review, text, microphoneVars, listening, media, speech,
                   refinementVars, deliveryVars, awaited, pending>>

ResumePausedMedia ==
    /\ Running("resumePausedMedia")
    /\ media' = FALSE
    /\ Return
    /\ UNCHANGED <<state, runVars, review, text, microphoneVars, listening, speech,
                   refinementVars, deliveryVars, awaited, pending>>

\* Mutant: the speech is not told a stop that comes while paused.
ProceedResumedOnly ==
    /\ Running("proceed")
    /\ GoOn(<<"speech">>)
    /\ UNCHANGED <<state, runVars, review, text, microphoneVars, listening, media, speech,
                   refinementVars, deliveryVars, awaited, pending>>

Proceed ==
    /\ Running("proceed")
    /\ speech' = [speech EXCEPT !.stopped = (speech.phase = "Stopping")]
    /\ GoOn(<<"speech">>)
    /\ UNCHANGED <<state, runVars, review, text, microphoneVars, listening, media,
                   refinementVars, deliveryVars, awaited, pending>>

-----------------------------------------------------------------------------
(* What the speech reports: in the calls that let it, or from the event loop. *)

SpeechReturns ==
    /\ Running("speech")
    /\ Return
    /\ UNCHANGED <<state, runVars, review, text, microphoneVars, listening, media, speech,
                   refinementVars, deliveryVars, awaited, pending>>

\* readyToListen() starts the microphone.
readyToListen ==
    /\ In("speech")
    /\ speech.phase = "Starting" /\ speech.started /\ ~speech.asked
    /\ speech' = [speech EXCEPT !.asked = TRUE]
    /\ StartsMicrophone
    /\ calls' = Below("speech")
    /\ UNCHANGED <<state, runVars, review, text, listening, media, refinementVars,
                   deliveryVars, awaited, pending>>

SpeechEnded ==
    /\ In("speech")
    /\ speech.phase = "Stopping" /\ speech.stopped
    /\ speech' = [speech EXCEPT !.phase = "Idle"]
    /\ calls' = <<"beginRefinement">> \o Below("speech")
    /\ UNCHANGED <<state, runVars, review, text, microphoneVars, listening, media,
                   refinementVars, deliveryVars, awaited, pending>>

SpeechFails ==
    /\ In("speech") \/ (Handling /\ failsInHandler)
    /\ speech.phase # "Idle" /\ speech.started
    /\ speech' = [speech EXCEPT !.phase = "Idle"]
    /\ calls' = <<"speechFailed">> \o Below("speech")
    /\ UNCHANGED <<state, runVars, review, text, microphoneVars, listening, media,
                   refinementVars, deliveryVars, awaited, pending>>

TextArrives ==
    /\ In("speech")
    /\ speech.phase # "Idle" /\ speech.started /\ ~text
    /\ text' = TRUE
    /\ UNCHANGED <<state, runVars, review, microphoneVars, listening, media, speech,
                   refinementVars, deliveryVars, awaited, pending, calls>>

\* speechChainExhausted() fails a start.
speechChainExhausted ==
    /\ Running("speechFailed")
    /\ state = "Starting"
    /\ GoOn(<<"handlers", "failStartup">>)
    /\ UNCHANGED <<state, runVars, review, text, microphoneVars, listening, media, speech,
                   refinementVars, deliveryVars, awaited, pending>>

hearing == state \in {"Listening", "Paused"}

\* endSpeechAfterFailure(): what was heard is refined, or the session fails
\* when nothing was.  While stopping no provider takes a post-roll still to
\* come, and the media it would have waited for plays.
endSpeechAfterFailure ==
    /\ Running("speechFailed")
    /\ IF text /\ hearing
       THEN /\ speech' = NoSpeech
            /\ abortMicrophone
            /\ setState("Stopping", <<"resumePausedMedia", "beginRefinement">>, Tail(calls))
            /\ UNCHANGED <<runVars, review, media, refining>>
       ELSE IF text /\ state = "Stopping"
       THEN /\ IF microphone # "Off" THEN abortMicrophone /\ media' = FALSE
               ELSE UNCHANGED <<microphoneVars, media>>
            /\ GoOn(<<"beginRefinement">>)
            /\ UNCHANGED <<state, runVars, review, speech, refining, awaited, pending>>
       ELSE /\ speech' = NoSpeech
            /\ failSession(Tail(calls))
    /\ UNCHANGED <<text, listening, refiners, job, deliveryVars>>

-----------------------------------------------------------------------------
(* Refinement.                                                               *)

\* beginRefinement(): refinement may be off, or need nothing of a refiner.
beginRefinement ==
    /\ Running("beginRefinement")
    /\ IF state # "Stopping" \/ ~text \/ ~settings
       THEN /\ IF state = "Stopping" THEN failSession(Tail(calls))
               ELSE Return /\ UNCHANGED <<state, runVars, review, microphoneVars, media,
                                          refining, awaited, pending>>
       ELSE \/ /\ selection
               /\ failSelectionEdit(Tail(calls))
            \/ /\ ~selection
               /\ edits' = FALSE
               /\ deliverFinal(Tail(calls))
               /\ UNCHANGED <<settings, selection, review, microphoneVars, media>>
            \/ /\ refiners > 0
               /\ edits' = selection
               /\ GoOn(<<"walk">>)
               /\ UNCHANGED <<state, settings, selection, review, microphoneVars, media,
                              refining, awaited, pending>>
    /\ UNCHANGED <<text, listening, speech, refiners, job, deliveryVars>>

\* enterRefining(), with frames to go on with in Refining.
EnterRefining(frames, stack) ==
    IF state = "Refining"
    THEN calls' = frames \o stack /\ UNCHANGED <<state, refining, awaited, pending>>
    ELSE refining' = TRUE /\ setState("Refining", frames, stack)

\* The walk of the refinement chain.  A refiner is passed over, has its keys
\* read or its sign-in renewed off this thread, or is ready; without one the
\* words go as spoken.  A walk goes on from a refiner whose keys were read.
Walking == (Running("walk") \/ Running("walkOn")) /\ refiners > 0

PassOver ==
    /\ Walking
    /\ refiners' = refiners - 1
    /\ GoOn(<<"handlers", "walk">>)
    /\ UNCHANGED <<state, runVars, review, text, microphoneVars, listening, media, speech,
                   refining, job, deliveryVars, awaited, pending>>

Prepares ==
    /\ Walking
    /\ job' \in (IF Running("walk") THEN {"resolving", "renewing"} ELSE {"renewing"})
    /\ EnterRefining(<<>>, Tail(calls))
    /\ UNCHANGED <<runVars, review, text, microphoneVars, listening, media, speech,
                   refiners, deliveryVars>>

Ready ==
    /\ Walking
    /\ GoOn(<<"handlers", "startRefiner">>)
    /\ UNCHANGED <<state, runVars, review, text, microphoneVars, listening, media, speech,
                   refinementVars, deliveryVars, awaited, pending>>

RefinersExhausted ==
    /\ Running("walk")
    /\ refiners = 0
    /\ deliverWithoutRefinement(Tail(calls))
    /\ UNCHANGED <<text, listening, speech, refiners, job, deliveryVars>>

\* useResolvedSecrets() and finishPreparation(): the refiner is passed over, the
\* walk goes on with its keys, or it is ready once renewed.
PreparationEnds ==
    /\ Free
    /\ job \in {"resolving", "renewing"}
    /\ job' = "none"
    /\ \/ refiners' = refiners - 1 /\ calls' = <<"handlers", "walk">>
       \/ /\ calls' = IF job = "resolving" THEN <<"walkOn">> ELSE <<"handlers", "startRefiner">>
          /\ UNCHANGED refiners
    /\ UNCHANGED <<state, runVars, review, text, microphoneVars, listening, media, speech,
                   refining, deliveryVars, awaited, pending>>

\* startRefiner(), its sign-in announced: Refining comes before the refiner is
\* asked.
startRefiner ==
    /\ Running("startRefiner")
    /\ EnterRefining(<<"refine">>, Tail(calls))
    /\ UNCHANGED <<runVars, review, text, microphoneVars, listening, media, speech,
                   refiners, job, deliveryVars>>

Refine ==
    /\ Running("refine")
    /\ job' = "refining"
    /\ GoOn(<<"refiner">>)
    /\ UNCHANGED <<state, runVars, review, text, microphoneVars, listening, media, speech,
                   refining, refiners, deliveryVars, awaited, pending>>

RefinerReturns ==
    /\ Running("refiner")
    /\ Return
    /\ UNCHANGED <<state, runVars, review, text, microphoneVars, listening, media, speech,
                   refinementVars, deliveryVars, awaited, pending>>

\* current(): what a refiner reports counts only for the refinement under way.
RefinerReports ==
    /\ In("refiner")
    /\ job = "refining"
    /\ state = "Refining" /\ refining

\* completed(): a selection edit is put under review, or, with reviews turned
\* off, replaces at once; a dictation, or an edit without reviews, is
\* delivered; an answer that cannot be used counts for nothing.
RefinerCompleted ==
    /\ RefinerReports
    /\ job' = "none"
    /\ \/ /\ edits
          /\ review' = "up"
          /\ refining' = FALSE
          /\ setState("Reviewing", <<>>, Below("refiner"))
          /\ UNCHANGED <<runVars, microphoneVars, media>>
       \/ /\ followingUp
          /\ review' = "up"
          /\ refining' = FALSE
          /\ setState("Reviewing", <<"replace">>, Below("refiner"))
          /\ UNCHANGED <<runVars, microphoneVars, media>>
       \/ /\ ~followingUp
          /\ deliverFinal(Below("refiner"))
          /\ UNCHANGED <<runVars, review, microphoneVars, media>>
       \/ /\ edits
          /\ failSelectionEdit(Below("refiner"))
    /\ UNCHANGED <<text, listening, speech, refiners, deliveryVars>>

\* handleRefinementFailure(): the next refiner takes over, or none.
RefinerFailed ==
    /\ RefinerReports
    /\ job' = "none"
    /\ \/ /\ calls' = <<"handlers", "prepareNext">> \o Below("refiner")
          /\ UNCHANGED <<state, runVars, review, microphoneVars, media, refining,
                         awaited, pending>>
       \/ deliverWithoutRefinement(Below("refiner"))
    /\ UNCHANGED <<text, listening, speech, refiners, deliveryVars>>

PrepareNext ==
    /\ Running("prepareNext")
    /\ refiners' = refiners - 1
    /\ GoOn(<<"walk">>)
    /\ UNCHANGED <<state, runVars, review, text, microphoneVars, listening, media, speech,
                   refining, job, deliveryVars, awaited, pending>>

-----------------------------------------------------------------------------
(* Replace, and the delivery.                                                *)

\* deliverRevision() ends the review as the Target provider answers.
deliverRevision(stack) ==
    /\ review' = "none"
    /\ deliverFinal(stack)
    /\ UNCHANGED <<runVars, text, microphoneVars, listening, media, speech,
                   refiners, job, deliveryVars>>

\* replaceWithRevision(): the Target is asked whether the selection is still
\* the one edited, and answers at once or later.
replaceWithRevision(stack) ==
    \/ deliverRevision(stack)
    \/ /\ pending' = pending \cup {"check"}
       /\ calls' = stack
       /\ UNCHANGED <<state, runVars, review, text, microphoneVars, listening, media, speech,
                      refinementVars, deliveryVars, awaited>>

replaceSelection ==
    /\ MayCall
    /\ state = "Reviewing" /\ settings
    /\ replaceWithRevision(calls)

Replace ==
    /\ Running("replace")
    /\ replaceWithRevision(Tail(calls))

SelectionChecked ==
    /\ Free
    /\ "check" \in pending
    /\ deliverRevision(calls)

\* deliverFinal(), where no handler of Delivering has moved the session on.
Deliver ==
    /\ Running("deliver")
    /\ awaited' = TRUE
    /\ unanswered' = unanswered + 1
    /\ delivered' = TRUE
    /\ Return
    /\ UNCHANGED <<state, runVars, review, text, microphoneVars, listening, media, speech,
                   refinementVars, completing, pending>>

\* Answers come in order, so the last one asked for is the session's, if its
\* step is still the current one.
\* Mutant: any answer is taken for the session's.
AnswersAny == awaited
AnswersOwn == unanswered = 1 /\ awaited

\* finishDelivery(): the receipt shows for a while, or the delivery failed.
finishDelivery ==
    /\ Free
    /\ unanswered > 0
    /\ unanswered' = unanswered - 1
    /\ IF ~AnswersOwn
       THEN UNCHANGED <<state, settings, selection, completing, awaited, pending, calls>>
       ELSE /\ settings' = FALSE /\ selection' = FALSE
            /\ \/ /\ completing' = TRUE
                  /\ awaited' = FALSE
                  /\ UNCHANGED <<state, pending, calls>>
               \/ /\ setState("Error", <<>>, calls)
                  /\ UNCHANGED completing
    /\ UNCHANGED <<review, edits, text, microphoneVars, listening, media, speech,
                   refinementVars, delivered>>

\* m_completionTimer ends the receipt.
ReceiptEnds ==
    /\ Free
    /\ completing
    /\ completing' = FALSE
    /\ IF state = "Delivering" THEN setState("Idle", <<>>, calls)
       ELSE UNCHANGED <<state, awaited, pending, calls>>
    /\ UNCHANGED <<runVars, review, text, microphoneVars, listening, media, speech,
                   refinementVars, unanswered, delivered>>

-----------------------------------------------------------------------------
Code ==
    \/ Announced \/ OvertakenReturns \/ StartFollowUp \/ ClearTranscript \/ ShowPopup
    \/ continueStartupWithTarget \/ FailStartup \/ StartMicrophone \/ StopMicrophone
    \/ Resumed \/ ResumePausedMedia \/ Proceed \/ SpeechReturns
    \/ speechChainExhausted \/ endSpeechAfterFailure \/ beginRefinement
    \/ PassOver \/ Prepares \/ Ready \/ RefinersExhausted
    \/ startRefiner \/ Refine \/ RefinerReturns \/ PrepareNext \/ Replace \/ Deliver

Command ==
    \/ startSession \/ startFollowUp \/ cancelForShutdown \/ cancel \/ DismissError
    \/ StopStarting \/ StopListening \/ StopPaused \/ StopRefining
    \/ pause \/ UndoPause \/ resume \/ replaceSelection

Answer ==
    \/ continueStartupAfterPopup \/ TargetCaptured \/ SelectionChecked
    \/ microphoneStarted \/ microphoneStopped \/ PreparationEnds
    \/ finishDelivery \/ ReceiptEnds

SpeechReport == readyToListen \/ SpeechEnded \/ SpeechFails
RefinerReport == RefinerCompleted \/ RefinerFailed

Step ==
    \/ Code \/ HandlersReturn \/ Command \/ Answer \/ microphoneFailed
    \/ SpeechReport \/ TextArrives \/ RefinerReport
Next == Step /\ UNCHANGED failsInHandler

\* Running code goes on, and handlers return.  The popup's fallback timer and
\* the receipt's end; the Target provider, the preparations, the audio input
\* and the delivery answer; a refiner reports.  The speech reports once it was
\* started, and ends or fails once it was told a stop, which is what
\* DictationSpeech's StopEnds says of it.
SpeechOwesReport == speech.stopped \/ (speech.phase = "Starting" /\ ~speech.asked)
Fairness ==
    /\ WF_vars(Code)
    /\ WF_vars(HandlersReturn)
    /\ WF_vars(continueStartupAfterPopup) /\ WF_vars(TargetCaptured)
    /\ WF_vars(microphoneStarted \/ microphoneFailed) /\ WF_vars(microphoneStopped)
    /\ WF_vars(PreparationEnds) /\ WF_vars(RefinerReport)
    /\ WF_vars(finishDelivery) /\ WF_vars(ReceiptEnds)
    /\ WF_vars(Free /\ SpeechOwesReport /\ SpeechReport)

Spec == Init /\ [][Next]_<<vars, failsInHandler>> /\ Fairness

-----------------------------------------------------------------------------
\* Every variable keeps its type, and the refinement chain never runs past its
\* end.
TypeOK ==
    /\ state \in States
    /\ settings \in BOOLEAN /\ selection \in BOOLEAN /\ edits \in BOOLEAN /\ text \in BOOLEAN
    /\ review \in {"none", "up", "following"}
    /\ microphone \in {"Off", "Starting", "On", "Pausing", "Stopping"}
    /\ audio \in {"off", "starting", "running", "stopping"}
    /\ held \in BOOLEAN /\ listening \in BOOLEAN /\ media \in BOOLEAN
    /\ speech \in Speeches
    /\ refining \in BOOLEAN /\ refiners \in 0..Refiners
    /\ job \in {"none", "resolving", "renewing", "refining"}
    /\ completing \in BOOLEAN /\ awaited \in BOOLEAN /\ delivered \in BOOLEAN
    /\ unanswered \in 0..MaxUnanswered
    /\ pending \subseteq Callbacks
    /\ calls \in Seq(Frames)

\* A session that does not listen keeps no microphone: not while idle, in
\* error, paused, refining, reviewing or delivering, whatever handler ended a
\* start or a resume on its way (startMicrophone(), resume(), discard()).  And
\* when the event loop is free, what microphoneChanged() and listeningChanged()
\* last told (a recording mutes itself by them) is what the session does,
\* whatever announcements were overtaken on the way.
MicrophoneRests ==
    /\ (microphone = "Off") <=> (audio = "off")
    /\ state \in {"Idle", "Error", "Paused", "Refining", "Reviewing", "Delivering"}
       => microphone = "Off"
    /\ Free => /\ held = Holds(microphone, state)
               /\ listening = (state \in {"Listening", "Paused"})

\* Media the session paused plays again whenever no dictation is under way
\* (resumePausedMedia() on every way out), unless the speech failed while a
\* handler of the microphone's own failure ran.
MediaPlaysAtRest ==
    Free /\ ~failsInHandler /\ state \notin {"Starting", "Listening", "Paused", "Stopping"} => ~media

\* The speech is where the session is: each command reached it, and no failed
\* or cancelled session leaves a speech running that was started.  Nor does a
\* preparation or a refiner work for a session that has left Refining: a stop,
\* a cancel or a handler cancels the walk with it.  And from the start until
\* the words are delivered the session has the settings it dereferences, those
\* too that a cancelled or failed follow-up restores (returnToReview()).
Active == {"Starting", "Listening", "Paused", "Stopping", "Refining", "Reviewing"}
WorkFollows ==
    /\ state \in Active => settings
    /\ Free => /\ IF state \in {"Starting", "Listening", "Paused", "Stopping"}
                  THEN speech.phase = state
                  ELSE speech.phase = "Idle" \/ ~speech.started
               /\ job # "none" => state = "Refining" /\ refining /\ settings

\* The receipt is the one of this dictation's own delivery, which was answered:
\* never of an earlier one a quit left behind (finishDelivery()).
ReceiptIsOwn == completing => state = "Delivering" /\ delivered /\ ~awaited /\ unanswered = 0

\* Only Replace, Keep original or a quit ends a review: a follow-up that fails
\* or is cancelled never takes the edit with it (setState(Error)).  It is up
\* exactly while the session reviews, or dictates a follow-up that can still go
\* back to it (EditReview, returnToReview()).
ReviewKept ==
    /\ [][review # "none" /\ review' = "none"
          => \/ state' = "Idle"
             \/ state = "Reviewing" /\ state' = "Delivering"]_vars
    /\ [](Free => /\ (review = "up") <=> (state = "Reviewing")
                  /\ followingUp => state \in Active)

\* A session waits only for the person: every start, stop, refinement and
\* delivery comes to an end.
MovesOn == \A s \in {"Starting", "Stopping", "Refining", "Delivering"} :
               (state = s) ~> (state # s)

\* The session asks of its speech only what the speech's contract lets it:
\* listen() after readyToListen(), the stop's proceed() after the microphone
\* stopped, a begin() only when the failure was dealt with.
speechHears == speech.phase # "Idle" /\ audio # "off"
Contract == INSTANCE SpeechContract
    WITH phase <- speech.phase, settings <- speech.started, microphone <- speechHears,
         asked <- speech.asked, heard <- 0, given <- 0, failing <- Running("speechFailed")
AsksAsPromised == Contract!Init /\ [][Contract!Next]_(Contract!vars)
=============================================================================
