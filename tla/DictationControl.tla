--------------------------- MODULE DictationControl ---------------------------
(***************************************************************************)
(* How a dictation is asked for: the ShortcutGesture that turns presses    *)
(* and releases of the Global Shortcut into starts and stops, the          *)
(* ApplicationController that every start and stop goes through (with the  *)
(* microphone's grant, the file transcriptions that exclude a dictation,   *)
(* and the quit).                                                          *)
(*                                                                         *)
(* The DictationSession is its environment here, by the states it          *)
(* announces: what may start in each, what a stop and a cancel make of it, *)
(* and when it pauses and resumes the media (MediaPause).  The module      *)
(* DictationSession is about its inside.                                   *)
(***************************************************************************)
EXTENDS Naturals

CONSTANTS
    Modes,         \* the shortcut activation modes a person switches between
    MaxPresses     \* bound: presses of the shortcut, and commands

ASSUME ControlModesAssumption == Modes \subseteq {"Toggle", "PushToTalk", "Hybrid"}
ASSUME ControlBoundAssumption == MaxPresses \in Nat

VARIABLES
    gesture,      \* ShortcutGesture
    mode,         \* shortcutActivationMode, read at each use
    grant,        \* what waits for the microphone's grant
    session,      \* the DictationSession's state
    mediaPaused,  \* the session asked for the media to pause, last
    files,        \* files are being transcribed
    setupPending, \* the setup assistant takes every start's place
    quitting,     \* m_quitting, and whether the quit's event loop has run
    presses,      \* presses and commands so far
    asked         \* for the properties: how the newest start was asked for,
                  \* if nothing has stopped it since

vars == <<gesture, mode, grant, session, mediaPaused, files, setupPending, quitting,
          presses, asked>>

-----------------------------------------------------------------------------
NewGesture == [startedSession |-> FALSE, down |-> FALSE, releaseSeen |-> FALSE,
               pressedWhileDown |-> FALSE, startPending |-> FALSE]

Sessions == {"Idle", "Starting", "Listening", "Paused", "Stopping", "Refining",
             "Delivering", "ShowingReceipt", "Reviewing", "Error"}
Live == {"Starting", "Listening", "Paused"}

\* Mutant: a start that waits for the grant is no session yet.
SessionActiveGranted == session \in Live

sessionActive == session \in Live \/ grant # "none"
reportsRelease(g) == g.releaseSeen \/ ~g.pressedWhileDown

-----------------------------------------------------------------------------
(* The session, as its callers see it.                                     *)

begins(from) == from \in {"Idle", "Error", "ShowingReceipt", "Reviewing"}

\* startSession(), which nothing else than these states lets begin.
startSession ==
    IF begins(session)
    THEN session' = "Starting" /\ mediaPaused' = mediaPaused
    ELSE UNCHANGED <<session, mediaPaused>>

\* stopListening(): the post-roll comes before the media plays again; a stop of
\* the refinement delivers what there is, or nothing for an edited selection.
stopSession ==
    \/ session = "Listening" /\ session' = "Stopping" /\ mediaPaused' = mediaPaused
    \/ session = "Paused" /\ session' = "Stopping" /\ mediaPaused' = FALSE
    \/ session = "Starting" /\ session' \in {"Idle", "Reviewing"} /\ mediaPaused' = FALSE
    \/ session = "Refining" /\ session' \in {"Delivering", "Idle", "Reviewing"} /\ mediaPaused' = mediaPaused
    \/ session = "Error" /\ session' = "Idle" /\ mediaPaused' = mediaPaused
    \/ session \notin Live \cup {"Refining", "Error"} /\ UNCHANGED <<session, mediaPaused>>

\* toggleSession()
toggleSession == IF session \in Live \cup {"Refining"} THEN stopSession ELSE startSession

\* cancel(): a follow-up goes back to the review it came from.
cancelSession ==
    \/ session \in {"Idle", "Delivering", "ShowingReceipt"} /\ UNCHANGED <<session, mediaPaused>>
    \/ session = "Error" /\ session' = "Idle" /\ mediaPaused' = mediaPaused
    \/ session = "Reviewing" /\ session' = "Idle" /\ mediaPaused' = FALSE
    \/ session \in Live \cup {"Stopping", "Refining"} /\ session' \in {"Idle", "Reviewing"} /\ mediaPaused' = FALSE

\* What a session does by itself: it pauses the media as it starts, fails at any
\* step, pauses and resumes, stops its microphone, and ends.
SessionGoesOn ==
    /\ \/ session = "Starting" /\ session' = "Starting" /\ ~mediaPaused /\ mediaPaused' = TRUE
       \/ session = "Starting" /\ session' = "Listening" /\ mediaPaused' = mediaPaused
       \/ session = "Listening" /\ session' = "Paused" /\ mediaPaused' = mediaPaused
       \/ session = "Paused" /\ session' = "Listening" /\ mediaPaused' = mediaPaused
       \/ session \in Live \cup {"Stopping"} /\ session' \in {"Error", "Refining", "Reviewing"}
          /\ (session = "Starting" => session' # "Refining") /\ mediaPaused' = FALSE
       \/ session = "Stopping" /\ session' \in {"Refining", "Idle"} /\ mediaPaused' = FALSE
       \/ session = "Refining" /\ session' \in {"Delivering", "Reviewing", "Error"} /\ mediaPaused' = mediaPaused
       \/ session = "Reviewing" /\ session' = "Delivering" /\ mediaPaused' = mediaPaused
       \/ session = "Delivering" /\ session' \in {"ShowingReceipt", "Error"} /\ mediaPaused' = mediaPaused
       \/ session = "ShowingReceipt" /\ session' = "Idle" /\ mediaPaused' = mediaPaused
    /\ UNCHANGED <<gesture, mode, grant, files, setupPending, quitting, presses, asked>>

-----------------------------------------------------------------------------
(* The controller.  g is the gesture as the call that led here left it.    *)

\* Mutant: the start that waits for the grant is kept.
DropDeferredOnly(g) == gesture' = [g EXCEPT !.startPending = FALSE] /\ grant' = grant

\* dropPendingStart(), with the gesture left as g.
dropPendingStart(g) ==
    /\ gesture' = [g EXCEPT !.startPending = FALSE]
    /\ grant' = "none"

stopListening(g) ==
    /\ dropPendingStart(g)
    /\ stopSession
    /\ asked' = "none"

\* startListening() and toggle() with nothing to stop, and startWithMicrophone():
\* the grant is answered at once, or later.
startWithMicrophone(g, start, how) ==
    /\ gesture' = g
    /\ IF setupPending \/ quitting # "no" \/ files \/ grant # "none"
       THEN UNCHANGED <<grant, session, asked, mediaPaused>>
       ELSE /\ asked' = how
            /\ \/ grant' = start /\ UNCHANGED <<session, mediaPaused>>
               \/ grant' = grant /\ IF start = "toggle" THEN toggleSession ELSE startSession

toggle(g, how) ==
    IF sessionActive THEN stopListening(g) ELSE startWithMicrophone(g, "toggle", how)

\* The person grants the microphone, or refuses it.
GrantAnswered ==
    /\ grant # "none" /\ grant' = "none"
    /\ \/ IF grant = "toggle" THEN toggleSession ELSE startSession
       \/ UNCHANGED <<session, mediaPaused>>
    /\ UNCHANGED <<gesture, mode, files, setupPending, quitting, presses, asked>>

cancel ==
    /\ dropPendingStart([gesture EXCEPT !.startedSession = FALSE])
    /\ cancelSession
    /\ asked' = "none"
    /\ UNCHANGED <<mode, files, setupPending, quitting, presses>>

\* A command of the tray, the popup or another process.
Command ==
    /\ presses < MaxPresses /\ presses' = presses + 1
    /\ \/ toggle(gesture, "tap")
       \/ startWithMicrophone(gesture, "start", "tap")
       \/ stopListening(gesture)
    /\ UNCHANGED <<mode, files, setupPending, quitting>>

\* quitApplication(): the session goes, and the event loop runs for a while.
quitApplication ==
    /\ quitting = "no"
    /\ dropPendingStart(gesture)
    /\ asked' = "none"
    /\ IF session = "Idle"
       THEN quitting' = "done" /\ UNCHANGED <<session, mediaPaused>>
       ELSE quitting' = "pumping" /\ session' = "Idle" /\ mediaPaused' = FALSE
    /\ UNCHANGED <<mode, files, setupPending, presses>>
QuitLoopEnds ==
    /\ quitting = "pumping" /\ quitting' = "done"
    /\ UNCHANGED <<gesture, mode, grant, session, files, setupPending, presses, asked, mediaPaused>>

\* Mutant: a start that waits for the grant does not hold files back.
RefusalWithoutGrant == files \/ session \notin {"Idle", "Error"}

\* Files are transcribed when nothing refuses them, and are done.
fileTranscriptionRefusal == files \/ session \notin {"Idle", "Error"} \/ grant # "none"
FilesStart ==
    /\ ~fileTranscriptionRefusal
    /\ files' = TRUE
    /\ UNCHANGED <<gesture, mode, grant, session, setupPending, quitting, presses, asked, mediaPaused>>
FilesEnd ==
    /\ files /\ files' = FALSE
    /\ UNCHANGED <<gesture, mode, grant, session, setupPending, quitting, presses, asked, mediaPaused>>

-----------------------------------------------------------------------------
(* The gesture.                                                            *)

press ==
    LET g == [gesture EXCEPT !.pressedWhileDown = @ \/ gesture.down, !.down = TRUE,
                             !.startedSession = ~sessionActive]
    IN  /\ presses < MaxPresses /\ presses' = presses + 1
        /\ ~(gesture.down /\ gesture.releaseSeen)
        /\ IF g.startedSession /\ reportsRelease(g) /\ mode = "PushToTalk"
           THEN /\ gesture' = [g EXCEPT !.startPending = TRUE]
                /\ asked' = "hold"
                /\ UNCHANGED <<grant, session, mediaPaused>>
           ELSE toggle(g, "tap")
        /\ UNCHANGED <<mode, files, setupPending, quitting>>

\* The key was down for 200 ms: a dictation starts for as long as it stays.
DeferredStart ==
    /\ gesture.startPending
    /\ startWithMicrophone([gesture EXCEPT !.startPending = FALSE], "start", asked)
    /\ UNCHANGED <<mode, files, setupPending, quitting, presses>>

release ==
    LET g == [gesture EXCEPT !.down = FALSE, !.releaseSeen = TRUE, !.startedSession = FALSE,
                             !.startPending = @ /\ ~gesture.startedSession]
        stops(held) == \/ mode = "PushToTalk" /\ ~gesture.startPending
                       \/ mode = "Hybrid" /\ held
    IN  /\ \E held \in BOOLEAN :     \* longer than hybridHoldMs
             IF gesture.startedSession /\ sessionActive /\ stops(held)
             THEN stopListening(g)
             ELSE /\ gesture' = g
                  /\ asked' = IF asked # "hold" \/ ~gesture.startedSession THEN asked
                              ELSE IF gesture.startPending THEN "none"
                              ELSE IF mode = "PushToTalk" THEN "hold" ELSE "tap"
                  /\ UNCHANGED <<grant, session, mediaPaused>>
        /\ UNCHANGED <<mode, files, setupPending, quitting, presses>>

\* forget(): the shortcut is bound anew.
forget ==
    /\ gesture' = NewGesture
    /\ asked' = IF asked # "hold" THEN asked ELSE IF gesture.startPending THEN "none" ELSE "tap"
    /\ UNCHANGED <<mode, grant, session, files, setupPending, quitting, presses, mediaPaused>>

\* The person edits the settings, or completes the setup.
SettingsChange ==
    /\ \/ mode' \in Modes \ {mode} /\ setupPending' = setupPending
       \/ setupPending /\ setupPending' = FALSE /\ mode' = mode
    /\ UNCHANGED <<gesture, grant, session, files, quitting, presses, asked, mediaPaused>>

Init ==
    /\ gesture = NewGesture /\ mode \in Modes /\ grant = "none" /\ session = "Idle"
    /\ files = FALSE /\ setupPending \in BOOLEAN /\ quitting = "no"
    /\ presses = 0 /\ asked = "none" /\ mediaPaused = FALSE

\* The key repeats itself while it is down, so a release needs no press.
Next ==
    /\ quitting # "done"
    /\ \/ press \/ release \/ DeferredStart \/ forget \/ SettingsChange
       \/ GrantAnswered \/ cancel \/ Command \/ quitApplication \/ QuitLoopEnds
       \/ FilesStart \/ FilesEnd \/ SessionGoesOn

Spec == Init /\ [][Next]_vars

-----------------------------------------------------------------------------
(* Properties.                                                             *)

TypeOK ==
    /\ gesture \in [startedSession : BOOLEAN, down : BOOLEAN, releaseSeen : BOOLEAN,
                    pressedWhileDown : BOOLEAN, startPending : BOOLEAN]
    /\ mode \in Modes /\ grant \in {"none", "start", "toggle"} /\ session \in Sessions
    /\ mediaPaused \in BOOLEAN /\ files \in BOOLEAN /\ setupPending \in BOOLEAN /\ quitting \in {"no", "pumping", "done"}
    /\ presses \in 0..MaxPresses /\ asked \in {"none", "tap", "hold"}

\* A dictation begins only for a start that nothing took back since: no stop,
\* cancel or quit, and no release of the key within push-to-talk's delay
\* (dropPendingStart(), "must not begin after the session it belongs to was
\* stopped or cancelled").
NoUnaskedStart == [][session' = "Starting" /\ session # "Starting" => asked' # "none"]_vars

\* A dictation started by holding the key ends with the key, also while it
\* waits for the microphone's grant.
HoldEndsWithKey == asked = "hold" /\ (sessionActive \/ gesture.startPending) => gesture.down

\* No dictation begins beside a file transcription or a quit, whichever way it
\* was asked for and whenever its grant comes.
DictatesAlone ==
    /\ files => session \in {"Idle", "Error"} /\ grant = "none"
    /\ quitting # "no" => session = "Idle" /\ grant = "none" /\ ~mediaPaused
=============================================================================
