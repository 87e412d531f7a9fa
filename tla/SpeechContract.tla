--------------------------- MODULE SpeechContract ---------------------------
(***************************************************************************)
(* What a Dictation Session's speech promises the session, and what it     *)
(* asks of it: the order its commands and announcements come in, whatever  *)
(* its attempts and providers do behind them.                              *)
(***************************************************************************)
EXTENDS Naturals

VARIABLES
    phase,        \* where the speech is in the session
    settings,     \* whether it has the session's settings
    microphone,   \* the session's microphone may deliver audio
    asked,        \* readyToListen() came, and listen() has not
    heard,        \* the audio the speech took since begin()
    given,        \* the audio it handed to its providers
    failing       \* it has just announced a failure

vars == <<phase, settings, microphone, asked, heard, given, failing>>

Init ==
    /\ phase = "Idle"
    /\ ~settings /\ ~microphone /\ ~asked /\ ~failing
    /\ heard = 0 /\ given = 0

\* The session's commands.
begin ==
    /\ phase \in {"Idle", "Starting"} /\ ~microphone /\ ~failing
    /\ phase' = "Starting"
    /\ settings' = FALSE
    /\ asked' = FALSE
    /\ heard' = 0 /\ given' = 0
    /\ UNCHANGED <<microphone, failing>>

start ==
    /\ phase = "Starting" /\ ~settings
    /\ settings' = TRUE
    /\ UNCHANGED <<phase, microphone, asked, heard, given, failing>>

listen ==
    /\ phase = "Starting" /\ asked /\ microphone
    /\ phase' = "Listening"
    /\ asked' = FALSE
    /\ UNCHANGED <<settings, microphone, heard, given, failing>>

pause ==
    /\ phase = "Listening"
    /\ phase' = "Paused"
    /\ microphone' = FALSE
    /\ UNCHANGED <<settings, asked, heard, given, failing>>

resume ==
    /\ phase = "Paused"
    /\ phase' = "Listening"
    /\ UNCHANGED <<settings, microphone, asked, heard, given, failing>>

stop ==
    /\ phase \in {"Listening", "Paused"}
    /\ phase' = "Stopping"
    /\ microphone' \in {microphone, FALSE}
    /\ UNCHANGED <<settings, asked, heard, given, failing>>

cancel ==
    /\ phase' = "Idle"
    /\ settings' = FALSE /\ microphone' = FALSE /\ asked' = FALSE /\ failing' = FALSE
    /\ UNCHANGED <<heard, given>>

\* The session's microphone comes back on after a resume, and stops for a stop.
StartMicrophone ==
    /\ phase = "Listening"
    /\ microphone' = TRUE
    /\ UNCHANGED <<phase, settings, asked, heard, given, failing>>

StopMicrophone ==
    /\ phase = "Stopping"
    /\ microphone' = FALSE
    /\ UNCHANGED <<phase, settings, asked, heard, given, failing>>

\* Audio comes only from a microphone that is on, and is handed over once.
hear ==
    /\ microphone
    /\ heard' = heard + 1
    /\ UNCHANGED <<phase, settings, microphone, asked, given, failing>>

Give ==
    /\ given < heard
    /\ given' = given + 1
    /\ UNCHANGED <<phase, settings, microphone, asked, heard, failing>>

\* What the speech announces.  The microphone is asked for once a session.
readyToListen ==
    /\ phase = "Starting" /\ settings /\ ~asked
    /\ asked' = TRUE
    /\ microphone' = TRUE
    /\ UNCHANGED <<phase, settings, heard, given, failing>>

\* ended() comes only from a stop, once the microphone is off and all it heard
\* was handed over.
ended ==
    /\ phase = "Stopping" /\ ~microphone /\ given = heard
    /\ phase' = "Idle"
    /\ UNCHANGED <<settings, microphone, asked, heard, given, failing>>

\* A failure may come any time before.  The failing provider may have taken the
\* audio it failed on, and the audio that was too much for the budget is
\* dropped with what was held.
failed ==
    /\ phase # "Idle" /\ settings
    /\ phase' = "Idle"
    /\ microphone' = FALSE
    /\ given' \in {given, given + 1}
    /\ heard' \in {heard, heard + 1}
    /\ failing' = TRUE
    /\ UNCHANGED <<settings, asked>>

\* The session delivers what a failed speech has, or cancels it.
Salvage ==
    /\ failing
    /\ failing' = FALSE
    /\ UNCHANGED <<phase, settings, microphone, asked, heard, given>>

Next ==
    \/ begin \/ start \/ listen \/ pause \/ resume \/ stop \/ cancel
    \/ StartMicrophone \/ StopMicrophone \/ hear \/ Give
    \/ readyToListen \/ ended \/ failed \/ Salvage

Spec == Init /\ [][Next]_vars
=============================================================================
