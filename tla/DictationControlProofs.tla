----------------------- MODULE DictationControlProofs -----------------------
(***************************************************************************)
(* That a dictation begins only when it was asked for, ends with the key   *)
(* that holds it, and runs beside no file transcription, for any set of    *)
(* activation modes and any number of presses and commands; and that the   *)
(* media players it paused play again.                                     *)
(***************************************************************************)
EXTENDS DictationControl, MediaPromises, Sequences, SequenceTheorems, TLAPS

(* The media is paused only for a dictation the microphone still hears. *)
MediaPausedHeard == session \notin Live \cup {"Stopping"} => mediaPaused = FALSE

(* A start by holding the key is the gesture's own: release() will see that
   the gesture started it. *)
HoldIsOwn ==
    asked = "hold" /\ (sessionActive \/ gesture.startPending) =>
        gesture.down /\ gesture.startedSession

(* A start that waits, for the key or for the grant, was asked for; and a held
   key's start does not wait for both. *)
WaitingIsAsked ==
    /\ gesture.startPending => asked # "none"
    /\ grant # "none" => asked # "none"
    /\ gesture.startPending /\ asked = "hold" => grant = "none"

Inv == TypeOK /\ DictatesAlone /\ MediaPausedHeard /\ HoldIsOwn /\ WaitingIsAsked

USE DEF Live, sessionActive

-----------------------------------------------------------------------------
(* What a caller of the session can make of it: its state keeps its type, its
   media plays or is heard, a session that is idle or failed starts only in
   startSession(), and stops and cancels begin nothing. *)
SessionKept ==
    /\ session' \in Sessions /\ mediaPaused' \in BOOLEAN
    /\ MediaPausedHeard'

LEMMA Starts ==
    ASSUME TypeOK, MediaPausedHeard, startSession
    PROVE  SessionKept
  BY DEF TypeOK, MediaPausedHeard, startSession, begins, Sessions, SessionKept

LEMMA Stops ==
    ASSUME TypeOK, MediaPausedHeard, stopSession
    PROVE  /\ SessionKept
           /\ session' \in Live => session \in Live
           /\ session' = "Starting" => session = "Starting"
           /\ session \in {"Idle", "Error"} => session' \in {"Idle", "Error"}
           /\ session = "Idle" => UNCHANGED <<session, mediaPaused>>
  BY DEF TypeOK, MediaPausedHeard, stopSession, Sessions, SessionKept

LEMMA Toggles ==
    ASSUME TypeOK, MediaPausedHeard, toggleSession
    PROVE  SessionKept
  BY Starts, Stops DEF toggleSession

LEMMA Cancels ==
    ASSUME TypeOK, MediaPausedHeard, cancelSession
    PROVE  /\ SessionKept
           /\ session' \in Live => session \in Live
           /\ session' = "Starting" => session = "Starting"
           /\ session \in {"Idle", "Error"} => session' \in {"Idle", "Error"}
           /\ session = "Idle" => UNCHANGED <<session, mediaPaused>>
  BY DEF TypeOK, MediaPausedHeard, cancelSession, Sessions, SessionKept

-----------------------------------------------------------------------------
Gestures == [startedSession : BOOLEAN, down : BOOLEAN, releaseSeen : BOOLEAN,
             pressedWhileDown : BOOLEAN, startPending : BOOLEAN]

(* stopListening() leaves nothing that waits or was asked for. *)
LEMMA StopKeeps ==
    ASSUME Inv, NEW g \in Gestures, stopListening(g),
           UNCHANGED <<mode, files, setupPending, quitting>>, presses' \in 0..MaxPresses
    PROVE  Inv' /\ (session' = "Starting" => session = "Starting")
  <1>1. SessionKept /\ (session' = "Starting" => session = "Starting")
    BY Stops DEF Inv, stopListening
  <1>2. /\ gesture' \in Gestures /\ ~gesture'.startPending
        /\ grant' = "none" /\ asked' = "none"
    BY DEF stopListening, dropPendingStart, Gestures
  <1>3. TypeOK'
    BY <1>1, <1>2 DEF Inv, TypeOK, Gestures, SessionKept
  <1>4. DictatesAlone'
    BY <1>2, Stops DEF Inv, DictatesAlone, stopListening
  <1> QED
    BY <1>1, <1>2, <1>3, <1>4 DEF Inv, SessionKept, HoldIsOwn, WaitingIsAsked

(* startWithMicrophone() starts at once, waits for the grant, or is refused. *)
LEMMA StartKeeps ==
    ASSUME Inv, NEW g \in Gestures, NEW start \in {"start", "toggle"}, NEW how \in {"tap", "hold"},
           startWithMicrophone(g, start, how),
           UNCHANGED <<mode, files, setupPending, quitting>>, presses' \in 0..MaxPresses,
           g.startPending => how = "tap" /\ gesture.startPending,
           how = "hold" => g.down /\ g.startedSession,
           gesture.down /\ gesture.startedSession => g.down /\ g.startedSession
    PROVE  Inv' /\ (asked' # "none" \/ UNCHANGED session)
  <1>1. CASE setupPending \/ quitting # "no" \/ files \/ grant # "none"
    <2>1. gesture' = g /\ UNCHANGED <<grant, session, asked, mediaPaused>>
      BY <1>1 DEF startWithMicrophone
    <2>2. TypeOK' /\ DictatesAlone' /\ MediaPausedHeard'
      BY <2>1 DEF Inv, TypeOK, DictatesAlone, MediaPausedHeard, Gestures
    <2> QED
      BY <2>1, <2>2 DEF Inv, HoldIsOwn, WaitingIsAsked
  <1>2. CASE ~(setupPending \/ quitting # "no" \/ files \/ grant # "none")
    <2>1. gesture' = g /\ asked' = how
      BY <1>2 DEF startWithMicrophone
    <2>2. SessionKept /\ grant' \in {"none", "start", "toggle"}
      <3>1. CASE grant' = start /\ UNCHANGED <<session, mediaPaused>>
        BY <3>1 DEF Inv, TypeOK, SessionKept, MediaPausedHeard
      <3>2. CASE grant' = grant /\ IF start = "toggle" THEN toggleSession ELSE startSession
        BY <3>2, Starts, Toggles DEF Inv, TypeOK
      <3> QED
        BY <1>2, <3>1, <3>2 DEF startWithMicrophone
    <2>3. TypeOK'
      BY <2>1, <2>2 DEF Inv, TypeOK, Gestures, SessionKept
    <2>4. DictatesAlone'
      BY <1>2 DEF Inv, DictatesAlone, TypeOK
    <2> QED
      BY <2>1, <2>2, <2>3, <2>4 DEF Inv, SessionKept, HoldIsOwn, WaitingIsAsked
  <1> QED
    BY <1>1, <1>2

-----------------------------------------------------------------------------
(* The gesture a press leaves is one, and only the press itself starts. *)
LEMMA PressKeeps ==
    ASSUME Inv, press
    PROVE  Inv' /\ (session' = "Starting" /\ session # "Starting" => asked' # "none")
  <1> DEFINE g == [gesture EXCEPT !.pressedWhileDown = @ \/ gesture.down, !.down = TRUE,
                                  !.startedSession = ~sessionActive]
  <1>1. /\ g \in Gestures /\ g.down /\ g.startedSession = ~sessionActive
        /\ g.startPending = gesture.startPending
    BY DEF Inv, TypeOK, Gestures
  <1>2. presses' \in 0..MaxPresses /\ UNCHANGED <<mode, files, setupPending, quitting>>
    BY ControlBoundAssumption DEF press, Inv, TypeOK
  <1>3. CASE g.startedSession /\ reportsRelease(g) /\ mode = "PushToTalk"
    <2>1. /\ gesture' = [g EXCEPT !.startPending = TRUE] /\ asked' = "hold"
          /\ UNCHANGED <<grant, session, mediaPaused>>
      BY <1>3 DEF press
    <2>2. gesture' \in Gestures /\ gesture'.down /\ gesture'.startedSession
      BY <1>1, <1>3, <2>1 DEF Gestures
    <2>3. TypeOK' /\ DictatesAlone' /\ MediaPausedHeard'
      BY <1>2, <2>1, <2>2 DEF Inv, TypeOK, DictatesAlone, MediaPausedHeard, Gestures
    <2> QED
      BY <1>1, <1>3, <2>1, <2>2, <2>3 DEF Inv, HoldIsOwn, WaitingIsAsked
  <1>4. CASE ~(g.startedSession /\ reportsRelease(g) /\ mode = "PushToTalk")
    <2>1. toggle(g, "tap")
      BY <1>4 DEF press
    <2>2. CASE sessionActive
      BY <1>1, <1>2, <2>1, <2>2, StopKeeps DEF toggle
    <2>3. CASE ~sessionActive
      <3>1. startWithMicrophone(g, "toggle", "tap")
        BY <2>1, <2>3 DEF toggle
      <3> HIDE DEF g
      <3> QED
        BY <1>1, <1>2, <2>3, <3>1, StartKeeps
    <2> QED
      BY <2>2, <2>3
  <1> QED
    BY <1>3, <1>4

LEMMA DeferredKeeps ==
    ASSUME Inv, DeferredStart
    PROVE  Inv' /\ (session' = "Starting" /\ session # "Starting" => asked' # "none")
  <1> DEFINE g == [gesture EXCEPT !.startPending = FALSE]
  <1>1. /\ g \in Gestures /\ ~g.startPending /\ g.down = gesture.down
        /\ g.startedSession = gesture.startedSession
    BY DEF Inv, TypeOK, Gestures
  <1>2. asked \in {"tap", "hold"} /\ (asked = "hold" => g.down /\ g.startedSession)
    BY <1>1 DEF DeferredStart, Inv, TypeOK, WaitingIsAsked, HoldIsOwn
  <1>3. startWithMicrophone(g, "start", asked)
    BY DEF DeferredStart
  <1>4. presses' \in 0..MaxPresses /\ UNCHANGED <<mode, files, setupPending, quitting>>
    BY DEF DeferredStart, Inv, TypeOK
  <1> HIDE DEF g
  <1> QED
    BY <1>1, <1>2, <1>3, <1>4, StartKeeps

LEMMA CommandKeeps ==
    ASSUME Inv, Command
    PROVE  Inv' /\ (session' = "Starting" /\ session # "Starting" => asked' # "none")
  <1>1. gesture \in Gestures
    BY DEF Inv, TypeOK, Gestures
  <1>2. presses' \in 0..MaxPresses /\ UNCHANGED <<mode, files, setupPending, quitting>>
    BY ControlBoundAssumption DEF Command, Inv, TypeOK
  <1>3. CASE stopListening(gesture)
    BY <1>1, <1>2, <1>3, StopKeeps
  <1>4. ASSUME NEW start \in {"start", "toggle"}, startWithMicrophone(gesture, start, "tap")
        PROVE  Inv' /\ (session' = "Starting" /\ session # "Starting" => asked' # "none")
    BY <1>1, <1>2, <1>4, StartKeeps
  <1> QED
    BY <1>3, <1>4 DEF Command, toggle

(* A release takes back a start that waits for the key, stops what the key
   held, or leaves a dictation that goes on without it. *)
LEMMA ReleaseKeeps ==
    ASSUME Inv, release
    PROVE  Inv' /\ (session' = "Starting" => session = "Starting")
  <1> DEFINE g == [gesture EXCEPT !.down = FALSE, !.releaseSeen = TRUE,
                                  !.startedSession = FALSE,
                                  !.startPending = @ /\ ~gesture.startedSession]
  <1>1. /\ g \in Gestures
        /\ g.startPending = (gesture.startPending /\ ~gesture.startedSession)
    BY DEF Inv, TypeOK, Gestures
  <1>2. presses' \in 0..MaxPresses /\ UNCHANGED <<mode, files, setupPending, quitting>>
    BY DEF release, Inv, TypeOK
  <1>3. CASE stopListening(g)
    <2> HIDE DEF g
    <2> QED
      BY <1>1, <1>2, <1>3, StopKeeps
  <1>4. ASSUME NEW held \in BOOLEAN,
               ~(/\ gesture.startedSession /\ sessionActive
                 /\ \/ mode = "PushToTalk" /\ ~gesture.startPending
                    \/ mode = "Hybrid" /\ held),
               gesture' = g,
               asked' = IF asked # "hold" \/ ~gesture.startedSession THEN asked
                        ELSE IF gesture.startPending THEN "none"
                        ELSE IF mode = "PushToTalk" THEN "hold" ELSE "tap",
               UNCHANGED <<grant, session, mediaPaused>>
        PROVE  Inv'
    <2>0. \/ /\ asked # "hold" \/ ~gesture.startedSession
             /\ asked' = asked
          \/ /\ asked = "hold" /\ gesture.startedSession /\ gesture.startPending
             /\ asked' = "none"
          \/ /\ asked = "hold" /\ gesture.startedSession /\ ~gesture.startPending
             /\ asked' \in {"tap", "hold"}
             /\ asked' = "hold" => mode = "PushToTalk"
      BY <1>4
    <2>1. asked' \in {"none", "tap", "hold"}
      BY <2>0 DEF Inv, TypeOK
    <2>2. TypeOK' /\ DictatesAlone' /\ MediaPausedHeard'
      BY <1>1, <1>2, <1>4, <2>1 DEF Inv, TypeOK, DictatesAlone, MediaPausedHeard, Gestures
    <2>3. asked' = "hold" => asked = "hold" /\ ~g.startPending /\ ~sessionActive
      <3>1. CASE asked # "hold" \/ ~gesture.startedSession
        BY <1>1, <1>4, <3>1 DEF Inv, HoldIsOwn
      <3>2. CASE ~(asked # "hold" \/ ~gesture.startedSession)
        BY <1>1, <1>4, <3>2
      <3> QED
        BY <3>1, <3>2
    <2>4. HoldIsOwn'
      BY <1>4, <2>3 DEF HoldIsOwn
    <2>5. WaitingIsAsked'
      <3>1. g.startPending => asked' = asked
        BY <1>1, <2>0
      <3>2. grant # "none" => asked' # "none"
        BY <2>0 DEF Inv, WaitingIsAsked
      <3> QED
        BY <1>1, <1>4, <2>3, <3>1, <3>2 DEF Inv, WaitingIsAsked
    <2> QED
      BY <2>2, <2>4, <2>5 DEF Inv
  <1> QED
    BY <1>3, <1>4 DEF release, stopListening

LEMMA GrantKeeps ==
    ASSUME Inv, GrantAnswered
    PROVE  Inv' /\ asked' # "none"
  <1>1. SessionKept /\ grant' = "none" /\ grant # "none"
    <2>1. CASE UNCHANGED <<session, mediaPaused>>
      BY <2>1 DEF Inv, TypeOK, SessionKept, MediaPausedHeard, GrantAnswered
    <2> QED
      BY <2>1, Starts, Toggles DEF Inv, GrantAnswered
  <1>2. UNCHANGED <<gesture, mode, files, setupPending, quitting, presses, asked>>
    BY DEF GrantAnswered
  <1>3. TypeOK' /\ DictatesAlone'
    BY <1>1, <1>2 DEF Inv, TypeOK, DictatesAlone, SessionKept
  <1> QED
    BY <1>1, <1>2, <1>3 DEF Inv, SessionKept, HoldIsOwn, WaitingIsAsked

LEMMA CancelKeeps ==
    ASSUME Inv, cancel
    PROVE  Inv' /\ (session' = "Starting" => session = "Starting")
  <1>1. SessionKept /\ (session' = "Starting" => session = "Starting")
    BY Cancels DEF Inv, cancel
  <1>2. /\ gesture' \in Gestures /\ ~gesture'.startPending
        /\ grant' = "none" /\ asked' = "none"
        /\ UNCHANGED <<mode, files, setupPending, quitting, presses>>
    BY DEF cancel, dropPendingStart, Inv, TypeOK, Gestures
  <1>3. TypeOK' /\ DictatesAlone'
    BY <1>1, <1>2, Cancels DEF Inv, TypeOK, DictatesAlone, Gestures, SessionKept, cancel
  <1> QED
    BY <1>1, <1>2, <1>3 DEF Inv, SessionKept, HoldIsOwn, WaitingIsAsked

LEMMA QuitKeeps ==
    ASSUME Inv, quitApplication
    PROVE  Inv' /\ session' = "Idle"
  <1>1. /\ gesture' \in Gestures /\ ~gesture'.startPending
        /\ grant' = "none" /\ asked' = "none"
        /\ UNCHANGED <<mode, files, setupPending, presses>>
    BY DEF quitApplication, dropPendingStart, Inv, TypeOK, Gestures
  <1>2. session' = "Idle" /\ mediaPaused' = FALSE /\ quitting' \in {"pumping", "done"}
    BY DEF quitApplication, Inv, MediaPausedHeard
  <1>3. TypeOK' /\ DictatesAlone'
    BY <1>1, <1>2 DEF Inv, TypeOK, DictatesAlone, Gestures, Sessions
  <1> QED
    BY <1>1, <1>2, <1>3 DEF Inv, MediaPausedHeard, HoldIsOwn, WaitingIsAsked

(* What changes nothing that was asked for, and starts nothing. *)
LEMMA OthersKeep ==
    ASSUME Inv,
           \/ forget \/ SettingsChange \/ QuitLoopEnds \/ FilesStart \/ FilesEnd
           \/ SessionGoesOn \/ UNCHANGED vars
    PROVE  Inv' /\ (session' = "Starting" => session = "Starting")
  <1>1. CASE forget
    <2>1. NewGesture \in Gestures /\ ~NewGesture.startPending
      BY DEF NewGesture, Gestures
    <2>2. TypeOK' /\ DictatesAlone' /\ MediaPausedHeard' /\ asked' # "hold"
      BY <1>1, <2>1 DEF Inv, TypeOK, DictatesAlone, MediaPausedHeard, Gestures, forget
    <2> QED
      BY <1>1, <2>1, <2>2 DEF Inv, HoldIsOwn, WaitingIsAsked, forget
  <1>2. CASE SettingsChange
    <2>1. /\ UNCHANGED <<gesture, grant, session, files, quitting, presses, asked, mediaPaused>>
          /\ mode' \in Modes /\ setupPending' \in BOOLEAN
      BY <1>2 DEF Inv, TypeOK, SettingsChange
    <2> QED
      BY <2>1 DEF Inv, TypeOK, DictatesAlone, MediaPausedHeard, HoldIsOwn, WaitingIsAsked
  <1>3. CASE QuitLoopEnds
    BY <1>3 DEF Inv, TypeOK, DictatesAlone, MediaPausedHeard, HoldIsOwn, WaitingIsAsked,
                QuitLoopEnds
  <1>4. CASE FilesStart \/ FilesEnd
    <2>1. /\ UNCHANGED <<gesture, mode, grant, session, setupPending, quitting, presses, asked,
                         mediaPaused>>
          /\ files' \in BOOLEAN
          /\ files' => session \in {"Idle", "Error"} /\ grant = "none"
      BY <1>4 DEF FilesStart, FilesEnd, fileTranscriptionRefusal
    <2> QED
      BY <2>1 DEF Inv, TypeOK, DictatesAlone, MediaPausedHeard, HoldIsOwn, WaitingIsAsked
  <1>5. CASE SessionGoesOn
    <2>1. /\ SessionKept /\ (session' = "Starting" => session = "Starting")
          /\ session \notin {"Idle", "Error"}
          /\ session' \in Live => session \in Live
      BY <1>5 DEF SessionGoesOn, SessionKept, Inv, TypeOK, MediaPausedHeard, Sessions
    <2>2. UNCHANGED <<gesture, mode, grant, files, setupPending, quitting, presses, asked>>
      BY <1>5 DEF SessionGoesOn
    <2>3. TypeOK' /\ DictatesAlone'
      BY <2>1, <2>2 DEF Inv, TypeOK, DictatesAlone, SessionKept
    <2> QED
      BY <2>1, <2>2, <2>3 DEF Inv, SessionKept, HoldIsOwn, WaitingIsAsked
  <1>6. CASE UNCHANGED vars
    BY <1>6 DEF Inv, TypeOK, DictatesAlone, MediaPausedHeard, HoldIsOwn, WaitingIsAsked, vars
  <1> QED
    BY <1>1, <1>2, <1>3, <1>4, <1>5, <1>6

-----------------------------------------------------------------------------
NotUnasked == session' = "Starting" /\ session # "Starting" => asked' # "none"

LEMMA InvInit == Init => Inv
  <1> SUFFICES ASSUME Init PROVE Inv
    OBVIOUS
  <1>1. gesture \in Gestures /\ ~gesture.startPending
    BY DEF Init, NewGesture, Gestures
  <1>2. presses \in 0..MaxPresses
    BY ControlBoundAssumption DEF Init
  <1>3. TypeOK
    BY <1>1, <1>2 DEF Init, TypeOK, Gestures, Sessions
  <1> QED
    BY <1>1, <1>3 DEF Init, Inv, DictatesAlone, MediaPausedHeard, HoldIsOwn, WaitingIsAsked

LEMMA InvNext == Inv /\ [Next]_vars => Inv' /\ NotUnasked
  BY PressKeeps, DeferredKeeps, CommandKeeps, ReleaseKeeps, GrantKeeps, CancelKeeps,
     QuitKeeps, OthersKeep
  DEF Next, NotUnasked

(* Every variable keeps its type, whatever is pressed, released or asked. *)
THEOREM ControlTypeCorrect == Spec => []TypeOK
  <1>1. Inv => TypeOK
    BY DEF Inv
  <1> QED
    BY <1>1, InvInit, InvNext, PTL DEF Spec

(* A dictation begins only for a start nothing took back (dropPendingStart()). *)
THEOREM NothingStartsUnasked == Spec => NoUnaskedStart
  <1>1. Spec => [][NotUnasked]_vars
    <2>1. Inv /\ [Next]_vars => [NotUnasked]_vars
      BY InvNext
    <2>2. Inv /\ [Next]_vars => Inv'
      BY InvNext
    <2> QED
      BY <2>1, <2>2, InvInit, PTL DEF Spec
  <1> QED
    BY <1>1 DEF NoUnaskedStart, NotUnasked

(* A dictation started by holding the key ends with the key (release()). *)
THEOREM HoldsEndWithKey == Spec => []HoldEndsWithKey
  <1>1. Inv => HoldEndsWithKey
    BY DEF Inv, HoldIsOwn, HoldEndsWithKey
  <1> QED
    BY <1>1, InvInit, InvNext, PTL DEF Spec

(* No dictation runs beside a file transcription or a quit
   (fileTranscriptionRefusal(), quitApplication()). *)
THEOREM DictationIsAlone == Spec => []DictatesAlone
  <1>1. Inv => DictatesAlone
    BY DEF Inv
  <1> QED
    BY <1>1, InvInit, InvNext, PTL DEF Spec
-----------------------------------------------------------------------------
(***************************************************************************)
(* The media that a dictation pauses and resumes.  MediaPauseController is *)
(* a component of its own, so what follows is about the instance alone.    *)
(*                                                                         *)
(* A player is accounted for by what is on its way: a call that stops it   *)
(* comes back as an answer, the answer lists it or sends Play, and a       *)
(* listed player is sent Play.  What could break that is an answer that    *)
(* takes the player off the list once something newer stopped it again;    *)
(* none does, as only the newest generation's Play takes a player off, and *)
(* nothing that stops one follows that Play.                               *)
(***************************************************************************)
CONSTANTS PausesUnanswered, MaxAsked
VARIABLE mediaAsked

\* As asked is a name of DictationControl too, the pauses and resumes asked for are
\* mediaAsked here.
Media == INSTANCE MediaPause WITH asked <- mediaAsked

(* The messages of a queue. *)
Under(messages) == {messages[i] : i \in DOMAIN messages}

LEMMA UnderAppended ==
    ASSUME NEW S, NEW s \in Seq(S), NEW m \in S
    PROVE  /\ Append(s, m) \in Seq(S) /\ Under(Append(s, m)) = Under(s) \cup {m}
           /\ Len(Append(s, m)) = Len(s) + 1 /\ Append(s, m)[Len(s) + 1] = m
           /\ \A i \in 1..Len(s) : Append(s, m)[i] = s[i]
  <1>1. /\ Append(s, m) \in Seq(S) /\ Len(Append(s, m)) = Len(s) + 1
        /\ Append(s, m)[Len(s) + 1] = m /\ \A i \in 1..Len(s) : Append(s, m)[i] = s[i]
    BY AppendProperties
  <1>2. DOMAIN s = 1..Len(s) /\ DOMAIN Append(s, m) = 1..(Len(s) + 1) /\ Len(s) \in Nat
    BY <1>1
  <1> QED  BY <1>1, <1>2 DEF Under

LEMMA UnderTaken ==
    ASSUME NEW S, NEW s \in Seq(S), s # << >>
    PROVE  /\ Head(s) \in S /\ Tail(s) \in Seq(S) /\ Under(s) = {Head(s)} \cup Under(Tail(s))
           /\ Head(s) = s[1] /\ 1 \in DOMAIN s
           /\ \A i \in DOMAIN Tail(s) : i + 1 \in DOMAIN s /\ i \in Nat \ {0} /\ Tail(s)[i] = s[i + 1]
  <1>1. /\ Len(s) \in Nat \ {0} /\ Head(s) = s[1] /\ Head(s) \in S /\ Tail(s) \in Seq(S)
        /\ Len(Tail(s)) = Len(s) - 1 /\ \A i \in 1..Len(Tail(s)) : Tail(s)[i] = s[i + 1]
    BY HeadTailProperties
  <1>2. DOMAIN s = 1..Len(s) /\ DOMAIN Tail(s) = 1..(Len(s) - 1)
    BY <1>1
  <1>3. \A i \in DOMAIN Tail(s) : i + 1 \in DOMAIN s /\ i \in Nat \ {0} /\ Tail(s)[i] = s[i + 1]
    BY <1>1, <1>2
  <1>4. ASSUME NEW i \in DOMAIN s
        PROVE  s[i] \in {Head(s)} \cup Under(Tail(s))
    <2>1. CASE i = 1
      BY <2>1, <1>1
    <2>2. CASE i # 1
      <3>1. i - 1 \in DOMAIN Tail(s) /\ Tail(s)[i - 1] = s[i]
        BY <2>2, <1>1, <1>2
      <3> QED  BY <3>1 DEF Under
    <2> QED  BY <2>1, <2>2
  <1>5. 1 \in DOMAIN s
    BY <1>1, <1>2
  <1>6. Under(Tail(s)) \subseteq Under(s) /\ Head(s) \in Under(s)
    BY <1>1, <1>3, <1>5 DEF Under
  <1> QED  BY <1>1, <1>3, <1>4, <1>5, <1>6 DEF Under

LEMMA UnderRemoved ==
    ASSUME NEW S, NEW s \in Seq(S), NEW n \in DOMAIN s
    PROVE  /\ Media!RemoveAt(s, n) \in Seq(S)
           /\ \A m \in Under(Media!RemoveAt(s, n)) : m \in Under(s)
           /\ \A m \in Under(s) : m \in Under(Media!RemoveAt(s, n)) \/ m = s[n]
           /\ \A i, j \in DOMAIN Media!RemoveAt(s, n) : i < j =>
                 \E k, l \in DOMAIN s : /\ k < l /\ Media!RemoveAt(s, n)[i] = s[k]
                                        /\ Media!RemoveAt(s, n)[j] = s[l]
  <1> DEFINE r == Media!RemoveAt(s, n)
             at(i) == IF i < n THEN i ELSE i + 1
  <1>1. Len(s) \in Nat /\ DOMAIN s = 1..Len(s) /\ n \in 1..Len(s)
    OBVIOUS
  <1>2. /\ SubSeq(s, 1, n - 1) \in Seq(S) /\ Len(SubSeq(s, 1, n - 1)) = n - 1
        /\ \A i \in 1..(n - 1) : SubSeq(s, 1, n - 1)[i] = s[i]
    BY <1>1, SubSeqProperties
  <1>3. /\ SubSeq(s, n + 1, Len(s)) \in Seq(S) /\ Len(SubSeq(s, n + 1, Len(s))) = Len(s) - n
        /\ \A i \in 1..(Len(s) - n) : SubSeq(s, n + 1, Len(s))[i] = s[n + i]
    BY <1>1, SubSeqProperties
  <1>4. /\ r \in Seq(S) /\ Len(r) = Len(s) - 1
        /\ \A i \in 1..(Len(s) - 1) : r[i] = s[at(i)]
    <2>1. r = SubSeq(s, 1, n - 1) \o SubSeq(s, n + 1, Len(s))
      BY DEF Media!RemoveAt
    <2>2. /\ r \in Seq(S) /\ Len(r) = Len(SubSeq(s, 1, n - 1)) + Len(SubSeq(s, n + 1, Len(s)))
          /\ \A i \in 1..Len(r) : r[i] =
                IF i <= Len(SubSeq(s, 1, n - 1)) THEN SubSeq(s, 1, n - 1)[i]
                ELSE SubSeq(s, n + 1, Len(s))[i - Len(SubSeq(s, 1, n - 1))]
      BY <1>2, <1>3, <2>1, ConcatProperties
    <2>3. Len(r) = Len(s) - 1
      BY <1>1, <1>2, <1>3, <2>2
    <2>4. ASSUME NEW i \in 1..(Len(s) - 1)
          PROVE  r[i] = s[at(i)]
      <3>1. r[i] = IF i <= n - 1 THEN SubSeq(s, 1, n - 1)[i]
                   ELSE SubSeq(s, n + 1, Len(s))[i - (n - 1)]
        BY <2>2, <2>3, <1>2
      <3>2. CASE i < n
        BY <3>1, <3>2, <1>1, <1>2
      <3>3. CASE ~(i < n)
        <4>1. i - (n - 1) \in 1..(Len(s) - n) /\ n + (i - (n - 1)) = i + 1
          BY <3>3, <1>1
        <4>2. SubSeq(s, n + 1, Len(s))[i - (n - 1)] = s[i + 1]
          BY <4>1, <1>3
        <4>3. ~(i <= n - 1)
          BY <3>3, <1>1
        <4> QED  BY <3>1, <3>3, <4>2, <4>3
      <3> QED  BY <3>2, <3>3
    <2> QED  BY <2>2, <2>3, <2>4
  <1>5. DOMAIN r = 1..(Len(s) - 1)
    BY <1>4
  <1>6. \A i \in DOMAIN r : at(i) \in DOMAIN s /\ r[i] = s[at(i)]
    BY <1>1, <1>4, <1>5
  <1>7. \A i, j \in DOMAIN r : i < j => at(i) < at(j)
    BY <1>1, <1>5
  <1>8. ASSUME NEW k \in DOMAIN s, k # n
        PROVE  s[k] \in Under(r)
    <2>1. (IF k < n THEN k ELSE k - 1) \in DOMAIN r
      BY <1>1, <1>5, <1>8
    <2>2. at(IF k < n THEN k ELSE k - 1) = k
      BY <1>1, <1>8
    <2> QED  BY <2>1, <2>2, <1>6 DEF Under
  <1>9. \A m \in Under(r) : m \in Under(s)
    BY <1>6 DEF Under
  <1>10. \A m \in Under(s) : m \in Under(r) \/ m = s[n]
    BY <1>8 DEF Under
  <1>11. \A i, j \in DOMAIN r : i < j =>
                 \E k, l \in DOMAIN s : k < l /\ r[i] = s[k] /\ r[j] = s[l]
    BY <1>6, <1>7
  <1> QED  BY <1>4, <1>9, <1>10, <1>11

-----------------------------------------------------------------------------
(* What holds of one player's calls and answers.                           *)

Resumes(m) == m.kind = "Play" /\ m.watched = TRUE
TakesOff(m) == m.kind = "Play" /\ m.current = TRUE /\ m.answer \in {"taken", "gone"}

(* What the current generation sent is what it is for: it asks for a status
   only to pause, and to play only to resume. *)
OfGeneration(p) ==
    \A m \in Under(calls[p]) \cup Under(replies[p]) :
        m.current = TRUE => /\ m.kind = "Status" => pauseRequested = TRUE
                            /\ m.kind = "Play" => pauseRequested = FALSE

(* Pause is answered, however late. *)
PausesHeard(p) == \A m \in Under(calls[p]) : m.kind = "Pause" => m.watched = TRUE

(* Nothing that stops a player follows the current Play, nor does another
   Play whose answer counts. *)
LastPlay(p) ==
    \A i, j \in DOMAIN calls[p] :
        i < j /\ calls[p][i].current = TRUE /\ Resumes(calls[p][i]) =>
            calls[p][j].kind # "Pause" /\ ~Resumes(calls[p][j])

(* A player whose answer takes it off the list is not stopped, and nothing
   under way can stop it. *)
PlaysOn(p) ==
    (\E m \in Under(replies[p]) : TakesOff(m)) =>
        /\ stopped[p] = FALSE
        /\ \A m \in Under(calls[p]) : m.kind # "Pause" /\ ~Resumes(m)

(* A Play whose answer counts is a listed player's, and so is one refused. *)
ResumesListed(p) ==
    /\ \A m \in Under(calls[p]) : Resumes(m) => p \in listed
    /\ missed[p] = "asked" => p \in listed

(* A player that has quit is not stopped, nor did one that plays refuse. *)
RestsOrPlays(p) ==
    stopped[p] = FALSE => missed[p] = "no"

GoneRests(p) == player[p] = "Gone" => stopped[p] = FALSE

(* A player that Speecher stopped refused to play, or is to be resumed, or a
   Play is under way, or the answer that lists it or sends one. *)
Covered(p) ==
    stopped[p] = TRUE =>
        \/ missed[p] # "no"
        \/ p \in listed /\ pauseRequested = TRUE
        \/ \E m \in Under(calls[p]) : m.kind = "Play"
        \/ \E m \in Under(replies[p]) : m.kind = "Pause" /\ m.answer = "taken"

Follows(p) ==
    /\ OfGeneration(p) /\ PausesHeard(p) /\ LastPlay(p) /\ PlaysOn(p)
    /\ ResumesListed(p) /\ RestsOrPlays(p) /\ GoneRests(p) /\ Covered(p)

MediaInv ==
    /\ Media!TypeOK /\ (listing => pauseRequested)
    /\ \A p \in Players : Follows(p)

-----------------------------------------------------------------------------
LEMMA UnderOlder ==
    ASSUME NEW s \in Seq(Media!Call) \cup Seq(Media!Reply)
    PROVE  /\ s \in Seq(Media!Call) => Media!Older(s) \in Seq(Media!Call)
           /\ s \in Seq(Media!Reply) => Media!Older(s) \in Seq(Media!Reply)
           /\ DOMAIN Media!Older(s) = DOMAIN s
           /\ \A i \in DOMAIN s : /\ Media!Older(s)[i].current = FALSE
                                  /\ Media!Older(s)[i].kind = s[i].kind
                                  /\ s \in Seq(Media!Call) =>
                                        Media!Older(s)[i].watched = s[i].watched
                                  /\ s \in Seq(Media!Reply) =>
                                        Media!Older(s)[i].answer = s[i].answer
  <1> DEFINE o == Media!Older(s)
  <1>1. o = [i \in DOMAIN s |-> [s[i] EXCEPT !.current = FALSE]]
    BY DEF Media!Older
  <1>2. DOMAIN s = 1..Len(s) /\ Len(s) \in Nat
    OBVIOUS
  <1>3. ASSUME s \in Seq(Media!Call), NEW i \in DOMAIN s
        PROVE  /\ o[i] \in Media!Call /\ o[i].current = FALSE /\ o[i].kind = s[i].kind
               /\ o[i].watched = s[i].watched
    <2>1. s[i] \in Media!Call
      BY <1>3
    <2> QED  BY <1>1, <2>1 DEF Media!Call
  <1>4. ASSUME s \in Seq(Media!Reply), NEW i \in DOMAIN s
        PROVE  /\ o[i] \in Media!Reply /\ o[i].current = FALSE /\ o[i].kind = s[i].kind
               /\ o[i].answer = s[i].answer
    <2>1. s[i] \in Media!Reply
      BY <1>4
    <2> QED  BY <1>1, <2>1 DEF Media!Reply
  <1>5. DOMAIN o = 1..Len(s)
    BY <1>1, <1>2
  <1>6. s \in Seq(Media!Call) => o \in Seq(Media!Call)
    <2> HAVE s \in Seq(Media!Call)
    <2>1. o \in [1..Len(s) -> Media!Call]
      BY <1>1, <1>2, <1>3
    <2> QED  BY <1>2, <2>1
  <1>7. s \in Seq(Media!Reply) => o \in Seq(Media!Reply)
    <2> HAVE s \in Seq(Media!Reply)
    <2>1. o \in [1..Len(s) -> Media!Reply]
      BY <1>1, <1>2, <1>4
    <2> QED  BY <1>2, <2>1
  <1>8. \A i \in DOMAIN s : /\ o[i].current = FALSE /\ o[i].kind = s[i].kind
                            /\ s \in Seq(Media!Call) => o[i].watched = s[i].watched
                            /\ s \in Seq(Media!Reply) => o[i].answer = s[i].answer
    BY <1>3, <1>4
  <1> QED  BY <1>2, <1>5, <1>6, <1>7, <1>8

(* A player that a step leaves alone, its place in the list and what is asked
   of the media included. *)
LEMMA LeftAlone ==
    ASSUME NEW p, Follows(p), calls'[p] = calls[p], replies'[p] = replies[p],
           player'[p] = player[p], stopped'[p] = stopped[p], missed'[p] = missed[p],
           (p \in listed') = (p \in listed), pauseRequested' = pauseRequested
    PROVE  Follows(p)'
  BY DEF Follows, OfGeneration, PausesHeard, LastPlay, PlaysOn, ResumesListed, RestsOrPlays,
         GoneRests, Covered

LEMMA Pauses ==
    ASSUME MediaInv, Media!pausePlaying, MaxAsked \in Nat
    PROVE  MediaInv'
  <1>1. /\ mediaAsked' \in 0..MaxAsked /\ pauseRequested' = TRUE /\ listing' = TRUE
        /\ calls' = [p \in Players |-> Media!Older(calls[p])]
        /\ replies' = [p \in Players |-> Media!Older(replies[p])]
        /\ UNCHANGED <<listed, player, stopped, missed>>
    BY DEF MediaInv, Media!TypeOK, Media!pausePlaying, Media!NextGeneration, Media!olderBus
  <1>2. \A p \in Players : calls[p] \in Seq(Media!Call) /\ replies[p] \in Seq(Media!Reply)
    BY DEF MediaInv, Media!TypeOK
  <1>3. \A p \in Players : calls'[p] \in Seq(Media!Call) /\ replies'[p] \in Seq(Media!Reply)
    BY <1>1, <1>2, UnderOlder
  <1>4. Media!TypeOK'
    BY <1>1, <1>3 DEF MediaInv, Media!TypeOK
  <1>5. ASSUME NEW p \in Players
        PROVE  Follows(p)'
    <2>1. Follows(p)
      BY DEF MediaInv
    <2>2. /\ DOMAIN calls'[p] = DOMAIN calls[p]
          /\ \A i \in DOMAIN calls[p] : /\ calls'[p][i].current = FALSE
                                        /\ calls'[p][i].kind = calls[p][i].kind
                                        /\ calls'[p][i].watched = calls[p][i].watched
      BY <1>1, <1>2, UnderOlder
    <2>3. /\ DOMAIN replies'[p] = DOMAIN replies[p]
          /\ \A i \in DOMAIN replies[p] : /\ replies'[p][i].current = FALSE
                                          /\ replies'[p][i].kind = replies[p][i].kind
                                          /\ replies'[p][i].answer = replies[p][i].answer
      BY <1>1, <1>2, UnderOlder
    <2>4. OfGeneration(p)' /\ LastPlay(p)' /\ PlaysOn(p)'
      BY <2>2, <2>3 DEF Under, OfGeneration, LastPlay, PlaysOn, TakesOff
    <2>5. PausesHeard(p)' /\ ResumesListed(p)'
      BY <1>1, <2>1, <2>2 DEF Follows, Under, PausesHeard, ResumesListed, Resumes
    <2>6. RestsOrPlays(p)' /\ GoneRests(p)'
      BY <1>1, <2>1 DEF Follows, RestsOrPlays, GoneRests
    <2>7. Covered(p)'
      BY <1>1, <2>1, <2>2, <2>3 DEF Follows, Under, Covered
    <2> QED  BY <2>4, <2>5, <2>6, <2>7 DEF Follows
  <1> QED  BY <1>1, <1>4, <1>5 DEF MediaInv

\* A Play of a listed player's, and nothing else, joins what became older.
LEMMA Resumed ==
    ASSUME MediaInv, Media!resumePaused, MaxAsked \in Nat
    PROVE  MediaInv'
  <1> DEFINE older(p) == Media!Older(calls[p])
             play == Media!ACall("Play")
  <1>1. /\ mediaAsked' \in 0..MaxAsked /\ pauseRequested' = FALSE /\ listing' = FALSE
        /\ replies' = [p \in Players |-> Media!Older(replies[p])]
        /\ missed' = [p \in Players |-> IF missed[p] = "asked" THEN "no" ELSE missed[p]]
        /\ UNCHANGED <<listed, player, stopped>>
    BY DEF MediaInv, Media!TypeOK, Media!resumePaused, Media!NextGeneration
  <1>2. calls' = [p \in Players |-> IF p \in listed THEN Append(older(p), play) ELSE older(p)]
    <2>1. \A p \in Players : Media!olderBus[p] = older(p)
      BY DEF Media!olderBus
    <2> QED  BY <2>1 DEF Media!resumePaused
  <1>3. \A p \in Players : calls[p] \in Seq(Media!Call) /\ replies[p] \in Seq(Media!Reply)
    BY DEF MediaInv, Media!TypeOK
  <1>4. play \in Media!Call /\ play.kind = "Play" /\ play.current = TRUE /\ play.watched = TRUE
    BY DEF Media!ACall, Media!Call
  <1> HIDE DEF play
  <1>5. ASSUME NEW p \in Players
        PROVE  /\ older(p) \in Seq(Media!Call) /\ DOMAIN older(p) = DOMAIN calls[p]
               /\ \A i \in DOMAIN calls[p] : /\ older(p)[i].current = FALSE
                                             /\ older(p)[i].kind = calls[p][i].kind
                                             /\ older(p)[i].watched = calls[p][i].watched
    BY <1>3, UnderOlder
  <1>6. ASSUME NEW p \in Players
        PROVE  /\ replies'[p] \in Seq(Media!Reply) /\ DOMAIN replies'[p] = DOMAIN replies[p]
               /\ \A i \in DOMAIN replies[p] : /\ replies'[p][i].current = FALSE
                                               /\ replies'[p][i].kind = replies[p][i].kind
                                               /\ replies'[p][i].answer = replies[p][i].answer
    BY <1>1, <1>3, UnderOlder
  <1> HIDE DEF older
  <1>7. ASSUME NEW p \in Players
        PROVE  calls'[p] \in Seq(Media!Call)
    BY <1>2, <1>4, <1>5, UnderAppended
  <1>8. Media!TypeOK'
    <2>1. calls' \in [Players -> Seq(Media!Call)] /\ replies' \in [Players -> Seq(Media!Reply)]
      BY <1>1, <1>2, <1>6, <1>7
    <2>2. missed' \in [Players -> {"no", "asked", "once"}]
      BY <1>1 DEF MediaInv, Media!TypeOK
    <2> QED  BY <1>1, <2>1, <2>2 DEF MediaInv, Media!TypeOK
  <1>9. ASSUME NEW p \in Players
        PROVE  Follows(p)'
    <2>1. Follows(p) /\ missed[p] \in {"no", "asked", "once"}
      BY DEF MediaInv, Media!TypeOK
    <2>older. /\ older(p) \in Seq(Media!Call) /\ DOMAIN older(p) = DOMAIN calls[p]
          /\ \A i \in DOMAIN calls[p] : /\ older(p)[i].current = FALSE
                                        /\ older(p)[i].kind = calls[p][i].kind
                                        /\ older(p)[i].watched = calls[p][i].watched
      BY <1>5
    <2>replies. /\ DOMAIN replies'[p] = DOMAIN replies[p]
          /\ \A i \in DOMAIN replies[p] : /\ replies'[p][i].current = FALSE
                                          /\ replies'[p][i].kind = replies[p][i].kind
                                          /\ replies'[p][i].answer = replies[p][i].answer
      BY <1>6
    <2>2. /\ \A m \in Under(older(p)) : m.current = FALSE
          /\ \A m \in Under(older(p)) : m.kind = "Pause" => m.watched = TRUE
          /\ \A m \in Under(older(p)) : Resumes(m) => p \in listed
      BY <2>older, <2>1 DEF Follows, PausesHeard, ResumesListed, Resumes, Under
    <2>3. \A m \in Under(replies'[p]) : m.current = FALSE
      BY <2>replies DEF Under
    <2>4. missed'[p] \in {"no", "once"} /\ (missed'[p] = "no" => missed[p] # "once")
      BY <1>1, <2>1
    <2>5. PlaysOn(p)' /\ RestsOrPlays(p)' /\ GoneRests(p)'
      BY <1>1, <2>1, <2>3 DEF Follows, RestsOrPlays, GoneRests, PlaysOn, TakesOff
    <2>6. CASE p \in listed
      <3>1. calls'[p] = Append(older(p), play)
        BY <1>2, <2>6
      <3>2. /\ Under(calls'[p]) = Under(older(p)) \cup {play}
            /\ Len(calls'[p]) = Len(older(p)) + 1
            /\ \A i \in 1..Len(older(p)) : calls'[p][i] = older(p)[i]
        BY <1>4, <2>older, <3>1, UnderAppended
      <3>3. OfGeneration(p)' /\ PausesHeard(p)' /\ ResumesListed(p)' /\ Covered(p)'
        BY <1>1, <1>4, <2>2, <2>3, <2>4, <2>6, <3>2
           DEF OfGeneration, PausesHeard, ResumesListed, Covered
      <3>4. LastPlay(p)'
        <4>1. DOMAIN calls'[p] = 1..(Len(older(p)) + 1) /\ Len(older(p)) \in Nat
          BY <1>5, <1>7, <3>2
        <4>2. \A i, j \in DOMAIN calls'[p] : i < j => calls'[p][i].current = FALSE
          BY <2>older, <3>2, <4>1
        <4> QED  BY <4>2 DEF LastPlay
      <3> QED  BY <2>5, <3>3, <3>4 DEF Follows
    <2>7. CASE p \notin listed
      <3>1. calls'[p] = older(p)
        BY <1>2, <2>7
      <3>2. OfGeneration(p)' /\ PausesHeard(p)' /\ ResumesListed(p)'
        BY <1>1, <2>2, <2>3, <2>4, <3>1 DEF OfGeneration, PausesHeard, ResumesListed
      <3>3. LastPlay(p)'
        BY <1>5, <3>1 DEF LastPlay
      <3>4. missed[p] # "asked" /\ missed'[p] = missed[p]
        BY <1>1, <2>1, <2>7 DEF Follows, ResumesListed
      <3>5. (\E m \in Under(calls[p]) : m.kind = "Play") =>
               \E m \in Under(calls'[p]) : m.kind = "Play"
        BY <2>older, <3>1 DEF Under
      <3>6. (\E m \in Under(replies[p]) : m.kind = "Pause" /\ m.answer = "taken") =>
               \E m \in Under(replies'[p]) : m.kind = "Pause" /\ m.answer = "taken"
        BY <2>replies DEF Under
      <3>7. Covered(p)'
        BY <1>1, <2>1, <2>7, <3>4, <3>5, <3>6 DEF Follows, Covered
      <3> QED  BY <2>5, <3>2, <3>3, <3>7 DEF Follows
    <2> QED  BY <2>6, <2>7
  <1> QED  BY <1>1, <1>8, <1>9 DEF MediaInv

\* The call that joins a player's queue stops nobody and resumes nobody, or
\* comes where no current Play is.
LEMMA CallJoins ==
    ASSUME NEW p \in Players, Follows(p), NEW call \in Media!Call, calls[p] \in Seq(Media!Call),
           calls'[p] = Append(calls[p], call), pauseRequested' = pauseRequested,
           call.kind = "Status" => pauseRequested = TRUE,
           call.kind = "Play" => pauseRequested = FALSE /\ call.watched = FALSE,
           call.kind = "Pause" => pauseRequested = TRUE /\ call.watched = TRUE
    PROVE  /\ \A m \in Under(calls'[p]) :
                 m.current = TRUE => /\ m.kind = "Status" => pauseRequested' = TRUE
                                     /\ m.kind = "Play" => pauseRequested' = FALSE
           /\ PausesHeard(p)' /\ LastPlay(p)'
           /\ Under(calls'[p]) = Under(calls[p]) \cup {call} /\ ~Resumes(call)
  <1>1. /\ Under(calls'[p]) = Under(calls[p]) \cup {call} /\ calls'[p] \in Seq(Media!Call)
        /\ Len(calls'[p]) = Len(calls[p]) + 1 /\ calls'[p][Len(calls[p]) + 1] = call
        /\ \A i \in 1..Len(calls[p]) : calls'[p][i] = calls[p][i]
    BY UnderAppended
  <1>2. call.kind \in {"Status", "Pause", "Play"}
    BY DEF Media!Call
  <1>3. ~Resumes(call)
    BY DEF Resumes
  <1>4. \A m \in Under(calls'[p]) :
           m.current = TRUE => /\ m.kind = "Status" => pauseRequested' = TRUE
                               /\ m.kind = "Play" => pauseRequested' = FALSE
    BY <1>1 DEF Follows, OfGeneration
  <1>5. PausesHeard(p)'
    BY <1>1 DEF Follows, PausesHeard
  <1>6. LastPlay(p)'
    <2>1. SUFFICES ASSUME NEW i \in DOMAIN calls'[p], NEW j \in DOMAIN calls'[p], i < j,
                          calls'[p][i].current = TRUE, Resumes(calls'[p][i])
                   PROVE  calls'[p][j].kind # "Pause" /\ ~Resumes(calls'[p][j])
      BY DEF LastPlay
    <2>2. /\ DOMAIN calls'[p] = 1..(Len(calls[p]) + 1) /\ Len(calls[p]) \in Nat
          /\ DOMAIN calls[p] = 1..Len(calls[p])
      BY <1>1
    <2>3. i \in DOMAIN calls[p] /\ calls'[p][i] = calls[p][i]
      BY <1>1, <2>1, <2>2
    <2>4. CASE j \in DOMAIN calls[p]
      BY <1>1, <2>1, <2>2, <2>3, <2>4 DEF Follows, LastPlay
    <2>5. CASE j = Len(calls[p]) + 1
      <3>1. calls[p][i] \in Under(calls[p]) /\ calls[p][i].kind = "Play"
        BY <2>1, <2>3 DEF Under, Resumes
      <3>2. pauseRequested = FALSE
        BY <2>1, <2>3, <3>1 DEF Follows, OfGeneration
      <3> QED  BY <1>1, <1>3, <2>5, <3>2
    <2> QED  BY <2>2, <2>4, <2>5
  <1> QED  BY <1>1, <1>3, <1>4, <1>5, <1>6

LEMMA NamesAnswered ==
    ASSUME MediaInv, Media!namesAnswered
    PROVE  MediaInv'
  <1> DEFINE status == Media!ACall("Status")
  <1>1. /\ listing /\ listing' = FALSE /\ pauseRequested = TRUE
        /\ UNCHANGED <<listed, pauseRequested, mediaAsked, replies, player, stopped, missed>>
        /\ \/ calls' = [p \in Players |-> IF player[p] = "Gone" THEN calls[p]
                                           ELSE Append(calls[p], status)]
           \/ calls' = calls
    BY DEF MediaInv, Media!TypeOK, Media!namesAnswered
  <1>2. status \in Media!Call /\ status.kind = "Status"
    BY DEF Media!ACall, Media!Call
  <1> HIDE DEF status
  <1>3. calls \in [Players -> Seq(Media!Call)]
    BY DEF MediaInv, Media!TypeOK
  <1>4. ASSUME NEW p \in Players
        PROVE  calls'[p] \in Seq(Media!Call) /\ Follows(p)'
    <2>1. Follows(p) /\ calls[p] \in Seq(Media!Call)
      BY <1>3 DEF MediaInv
    <2>2. CASE calls'[p] = calls[p]
      BY <1>1, <2>1, <2>2, LeftAlone
    <2>3. CASE calls'[p] = Append(calls[p], status)
      <3>1. /\ \A m \in Under(calls'[p]) :
                  m.current = TRUE => /\ m.kind = "Status" => pauseRequested' = TRUE
                                      /\ m.kind = "Play" => pauseRequested' = FALSE
            /\ PausesHeard(p)' /\ LastPlay(p)'
            /\ Under(calls'[p]) = Under(calls[p]) \cup {status} /\ ~Resumes(status)
        BY <1>1, <1>2, <2>1, <2>3, CallJoins
      <3>2. OfGeneration(p)'
        BY <1>1, <2>1, <3>1 DEF Follows, OfGeneration
      <3>3. PlaysOn(p)' /\ ResumesListed(p)' /\ RestsOrPlays(p)' /\ GoneRests(p)' /\ Covered(p)'
        BY <1>1, <1>2, <2>1, <3>1
           DEF Follows, PlaysOn, ResumesListed, RestsOrPlays, GoneRests, Covered
      <3>4. calls'[p] \in Seq(Media!Call)
        BY <1>2, <2>1, <2>3, UnderAppended
      <3> QED  BY <3>1, <3>2, <3>3, <3>4 DEF Follows
    <2> QED  BY <1>1, <2>2, <2>3
  <1>5. Media!TypeOK'
    <2>1. calls' \in [Players -> Seq(Media!Call)]
      BY <1>1, <1>3, <1>4
    <2> QED  BY <1>1, <2>1 DEF MediaInv, Media!TypeOK
  <1> QED  BY <1>1, <1>4, <1>5 DEF MediaInv

LEMMA PersonSets ==
    ASSUME MediaInv, NEW p \in Players, Media!PersonSets(p)
    PROVE  MediaInv'
  <1>1. Media!TypeOK'
    BY DEF MediaInv, Media!TypeOK, Media!PersonSets
  <1>2. ASSUME NEW q \in Players, q # p
        PROVE  Follows(q)'
    BY <1>2, LeftAlone DEF MediaInv, Media!TypeOK, Media!PersonSets
  <1>3. Follows(p)'
    <2>1. /\ Follows(p) /\ stopped'[p] = FALSE /\ missed'[p] = "no"
          /\ UNCHANGED <<listed, pauseRequested, calls, replies>>
      BY DEF MediaInv, Media!TypeOK, Media!PersonSets
    <2> QED  BY <2>1 DEF Follows, OfGeneration, PausesHeard, LastPlay, PlaysOn, ResumesListed,
                         RestsOrPlays, GoneRests, Covered
  <1> QED  BY <1>1, <1>2, <1>3 DEF MediaInv, Media!PersonSets

\* What a step of one player's makes of the rest.
LEMMA OthersFollow ==
    ASSUME MediaInv, NEW p \in Players, NEW q \in Players, q # p,
           calls'[q] = calls[q], replies'[q] = replies[q], player'[q] = player[q],
           stopped'[q] = stopped[q], missed'[q] = missed[q],
           (q \in listed') = (q \in listed), pauseRequested' = pauseRequested
    PROVE  Follows(q)'
  BY LeftAlone DEF MediaInv

\* An error comes for a status or for Play: Pause is answered.
LEMMA TimesOut ==
    ASSUME MediaInv, NEW p \in Players, Media!timedOut(p), PausesUnanswered = FALSE
    PROVE  MediaInv'
  <1>1. UNCHANGED <<listed, pauseRequested, mediaAsked, listing, player, stopped, missed>>
    BY DEF Media!timedOut
  <1>2. /\ calls \in [Players -> Seq(Media!Call)] /\ replies \in [Players -> Seq(Media!Reply)]
        /\ calls[p] \in Seq(Media!Call) /\ replies[p] \in Seq(Media!Reply) /\ Follows(p)
    BY DEF MediaInv, Media!TypeOK
  <1>3. CASE \E i \in DOMAIN calls[p] :
                /\ calls[p][i].watched /\ (calls[p][i].kind # "Pause" \/ PausesUnanswered)
                /\ calls' = [calls EXCEPT ![p] =
                     IF calls[p][i].kind = "Status" THEN Media!RemoveAt(@, i)
                     ELSE [@ EXCEPT ![i] = Media!Unwatched(calls[p][i])]]
                /\ UNCHANGED replies
    <2>1. PICK i \in DOMAIN calls[p] :
             /\ calls[p][i].kind # "Pause" /\ UNCHANGED replies
             /\ calls' = [calls EXCEPT ![p] =
                     IF calls[p][i].kind = "Status" THEN Media!RemoveAt(@, i)
                     ELSE [@ EXCEPT ![i] = Media!Unwatched(calls[p][i])]]
      BY <1>3
    <2>2. calls[p][i] \in Media!Call
      BY <1>2
    <2>3. /\ calls'[p] \in Seq(Media!Call)
          /\ \A m \in Under(calls'[p]) : \E n \in Under(calls[p]) :
                /\ m.kind = n.kind /\ m.current = n.current /\ (Resumes(m) => Resumes(n))
                /\ n.kind = "Pause" => m = n
          /\ \A n \in Under(calls[p]) : n.kind # "Status" =>
                \E m \in Under(calls'[p]) : m.kind = n.kind
          /\ LastPlay(p)'
      <3>1. CASE calls[p][i].kind = "Status"
        <4>1. calls'[p] = Media!RemoveAt(calls[p], i)
          BY <1>2, <2>1, <3>1
        <4>2. /\ calls'[p] \in Seq(Media!Call)
              /\ \A m \in Under(calls'[p]) : m \in Under(calls[p])
              /\ \A m \in Under(calls[p]) : m \in Under(calls'[p]) \/ m = calls[p][i]
              /\ \A k, l \in DOMAIN calls'[p] : k < l =>
                    \E m, n \in DOMAIN calls[p] : /\ m < n /\ calls'[p][k] = calls[p][m]
                                                  /\ calls'[p][l] = calls[p][n]
          BY <1>2, <4>1, UnderRemoved
        <4>3. LastPlay(p)'
          BY <1>2, <4>2 DEF Follows, LastPlay
        <4> QED  BY <3>1, <4>2, <4>3
      <3>2. CASE calls[p][i].kind # "Status"
        <4> DEFINE c == Media!Unwatched(calls[p][i])
        <4>1. calls'[p] = [calls[p] EXCEPT ![i] = c]
          BY <1>2, <2>1, <3>2
        <4>2. /\ c \in Media!Call /\ c.kind = calls[p][i].kind /\ c.current = calls[p][i].current
              /\ c.watched = FALSE
          BY <2>2 DEF Media!Unwatched, Media!Call
        <4> HIDE DEF c
        <4>3. /\ calls'[p] \in Seq(Media!Call) /\ DOMAIN calls'[p] = DOMAIN calls[p]
              /\ \A k \in DOMAIN calls[p] : calls'[p][k] = IF k = i THEN c ELSE calls[p][k]
          BY <1>2, <4>1, <4>2
        <4>4. LastPlay(p)'
          BY <1>2, <2>1, <4>2, <4>3 DEF Follows, LastPlay, Resumes
        <4>5. ~Resumes(c)
          BY <4>2 DEF Resumes
        <4>6. ASSUME NEW m \in Under(calls'[p])
              PROVE  \E n \in Under(calls[p]) :
                        /\ m.kind = n.kind /\ m.current = n.current /\ (Resumes(m) => Resumes(n))
                        /\ n.kind = "Pause" => m = n
          <5>1. PICK k \in DOMAIN calls[p] : m = IF k = i THEN c ELSE calls[p][k]
            BY <4>3 DEF Under
          <5>2. calls[p][k] \in Under(calls[p])
            BY DEF Under
          <5> QED  BY <2>1, <4>2, <4>5, <5>1, <5>2
        <4>7. ASSUME NEW n \in Under(calls[p])
              PROVE  \E m \in Under(calls'[p]) : m.kind = n.kind
          <5>1. PICK k \in DOMAIN calls[p] : n = calls[p][k]
            BY DEF Under
          <5>2. calls'[p][k] \in Under(calls'[p]) /\ calls'[p][k].kind = n.kind
            BY <4>2, <4>3, <5>1 DEF Under
          <5> QED  BY <5>2
        <4> QED  BY <4>3, <4>4, <4>6, <4>7
      <3> QED  BY <3>1, <3>2
    <2>4. Media!TypeOK'
      <3>1. calls' \in [Players -> Seq(Media!Call)]
        BY <1>2, <2>1, <2>3
      <3> QED  BY <1>1, <2>1, <3>1 DEF MediaInv, Media!TypeOK
    <2>5. OfGeneration(p)'
      <3>1. ASSUME NEW m \in Under(calls'[p]), m.current = TRUE
            PROVE  /\ m.kind = "Status" => pauseRequested' = TRUE
                   /\ m.kind = "Play" => pauseRequested' = FALSE
        <4>1. PICK n \in Under(calls[p]) : m.kind = n.kind /\ m.current = n.current
          BY <2>3
        <4> QED  BY <1>1, <1>2, <3>1, <4>1 DEF Follows, OfGeneration
      <3>2. Under(replies'[p]) = Under(replies[p])
        BY <2>1
      <3> QED  BY <1>1, <1>2, <3>1, <3>2 DEF Follows, OfGeneration
    <2>6. PausesHeard(p)'
      <3>1. ASSUME NEW m \in Under(calls'[p]), m.kind = "Pause"
            PROVE  m.watched = TRUE
        <4>1. PICK n \in Under(calls[p]) : m.kind = n.kind /\ (n.kind = "Pause" => m = n)
          BY <2>3
        <4> QED  BY <1>2, <3>1, <4>1 DEF Follows, PausesHeard
      <3> QED  BY <3>1 DEF PausesHeard
    <2>7. PlaysOn(p)' /\ ResumesListed(p)'
      BY <1>1, <1>2, <2>1, <2>3 DEF Follows, PlaysOn, ResumesListed
    <2>8. Follows(p)'
      <3>1. RestsOrPlays(p)' /\ GoneRests(p)'
        BY <1>1, <1>2 DEF Follows, RestsOrPlays, GoneRests
      <3>2. (\E n \in Under(calls[p]) : n.kind = "Play") => \E m \in Under(calls'[p]) : m.kind = "Play"
        BY <2>3
      <3>3. Covered(p)'
        BY <1>1, <1>2, <2>1, <3>2 DEF Follows, Covered
      <3> QED  BY <2>3, <2>5, <2>6, <2>7, <3>1, <3>3 DEF Follows
    <2>9. ASSUME NEW q \in Players, q # p
          PROVE  Follows(q)'
      BY <1>1, <1>2, <2>1, <2>9, OthersFollow
    <2> QED  BY <1>1, <2>4, <2>8, <2>9 DEF MediaInv
  <1>4. CASE \E i \in DOMAIN replies[p] :
                /\ replies[p][i].kind # "Pause" \/ PausesUnanswered
                /\ replies' = [replies EXCEPT ![p] = Media!RemoveAt(@, i)]
                /\ UNCHANGED calls
    <2>1. PICK i \in DOMAIN replies[p] :
             /\ replies[p][i].kind # "Pause" /\ UNCHANGED calls
             /\ replies' = [replies EXCEPT ![p] = Media!RemoveAt(@, i)]
      BY <1>4
    <2>2. /\ replies'[p] = Media!RemoveAt(replies[p], i) /\ replies'[p] \in Seq(Media!Reply)
          /\ \A m \in Under(replies'[p]) : m \in Under(replies[p])
          /\ \A m \in Under(replies[p]) : m \in Under(replies'[p]) \/ m = replies[p][i]
      BY <1>2, <2>1, UnderRemoved
    <2>3. Media!TypeOK'
      BY <1>1, <1>2, <2>1, <2>2 DEF MediaInv, Media!TypeOK
    <2>4. OfGeneration(p)' /\ PausesHeard(p)' /\ LastPlay(p)' /\ PlaysOn(p)'
      BY <1>1, <1>2, <2>1, <2>2 DEF Follows, OfGeneration, PausesHeard, LastPlay, PlaysOn
    <2>5. ResumesListed(p)' /\ RestsOrPlays(p)' /\ GoneRests(p)' /\ Covered(p)'
      BY <1>1, <1>2, <2>1, <2>2 DEF Follows, ResumesListed, RestsOrPlays, GoneRests, Covered
    <2>6. ASSUME NEW q \in Players, q # p
          PROVE  Follows(q)'
      BY <1>1, <1>2, <2>1, <2>6, OthersFollow
    <2>7. Follows(p)'
      BY <2>4, <2>5 DEF Follows
    <2> QED  BY <1>1, <2>3, <2>6, <2>7 DEF MediaInv
  <1>5. \/ \E i \in DOMAIN calls[p] :
             /\ calls[p][i].watched /\ (calls[p][i].kind # "Pause" \/ PausesUnanswered)
             /\ calls' = [calls EXCEPT ![p] =
                  IF calls[p][i].kind = "Status" THEN Media!RemoveAt(@, i)
                  ELSE [@ EXCEPT ![i] = Media!Unwatched(calls[p][i])]]
             /\ UNCHANGED replies
        \/ \E i \in DOMAIN replies[p] :
             /\ replies[p][i].kind # "Pause" \/ PausesUnanswered
             /\ replies' = [replies EXCEPT ![p] = Media!RemoveAt(@, i)]
             /\ UNCHANGED calls
    BY DEF Media!timedOut
  <1> QED  BY <1>3, <1>4, <1>5

\* What the controller makes of an answer.
LEMMA AnswerTaken ==
    ASSUME MediaInv, NEW p \in Players, Media!playerAnswered(p)
    PROVE  MediaInv'
  <1> DEFINE reply == Head(replies[p])
  <1>1. /\ replies[p] # << >> /\ replies' = [replies EXCEPT ![p] = Tail(replies[p])]
        /\ Media!answered(p, reply)
        /\ UNCHANGED <<pauseRequested, mediaAsked, listing, player, stopped, missed>>
    BY DEF Media!playerAnswered
  <1>2. /\ calls \in [Players -> Seq(Media!Call)] /\ replies \in [Players -> Seq(Media!Reply)]
        /\ calls[p] \in Seq(Media!Call) /\ replies[p] \in Seq(Media!Reply) /\ Follows(p)
        /\ pauseRequested \in BOOLEAN /\ stopped[p] \in BOOLEAN /\ listed \subseteq Players
    BY DEF MediaInv, Media!TypeOK
  <1>3. /\ reply \in Media!Reply /\ Tail(replies[p]) \in Seq(Media!Reply)
        /\ Under(replies[p]) = {reply} \cup Under(Tail(replies[p]))
    BY <1>1, <1>2, UnderTaken
  <1>4. /\ replies'[p] = Tail(replies[p]) /\ replies' \in [Players -> Seq(Media!Reply)]
        /\ Under(replies[p]) = {reply} \cup Under(replies'[p])
    BY <1>1, <1>2, <1>3
  <1>5. /\ reply.kind \in {"Status", "Pause", "Play"} /\ reply.current \in BOOLEAN
        /\ reply \in Under(replies[p])
    BY <1>3 DEF Media!Reply
  <1> DEFINE pauses == reply.kind = "Status" /\ reply.current = TRUE /\ reply.answer = "Playing"
             takenPause == reply.kind = "Pause" /\ reply.answer = "taken"
             takenOff == TakesOff(reply)
             pause == Media!ACall("Pause")
             play == Media!Unwatched(Media!ACall("Play"))
  <1>6. /\ pause \in Media!Call /\ pause.kind = "Pause" /\ pause.watched = TRUE
        /\ play \in Media!Call /\ play.kind = "Play" /\ play.watched = FALSE
    BY DEF Media!ACall, Media!Unwatched, Media!Call
  <1>7. /\ listed' = IF takenPause /\ pauseRequested THEN listed \cup {p}
                     ELSE IF takenOff THEN listed \ {p} ELSE listed
        /\ calls' = [calls EXCEPT ![p] = calls[p] \o
               IF pauses THEN <<pause>>
               ELSE IF takenPause /\ ~pauseRequested THEN <<play>> ELSE << >>]
    BY <1>1, <1>5 DEF Media!answered, TakesOff
  <1> HIDE DEF reply, pause, play
  <1>8. /\ pauses => calls'[p] = Append(calls[p], pause)
        /\ ~pauses /\ takenPause /\ ~pauseRequested => calls'[p] = Append(calls[p], play)
        /\ ~pauses /\ ~(takenPause /\ ~pauseRequested) => calls'[p] = calls[p]
        /\ \A q \in Players : q # p => calls'[q] = calls[q]
    <2>1. \A c \in Media!Call : calls[p] \o <<c>> = Append(calls[p], c)
      BY <1>2, AppendIsConcat
    <2>2. calls[p] \o << >> = calls[p]
      BY <1>2, ConcatEmptySeq
    <2> QED  BY <1>2, <1>6, <1>7, <2>1, <2>2
  <1>9. calls' \in [Players -> Seq(Media!Call)] /\ calls'[p] \in Seq(Media!Call)
    <2>1. calls'[p] \in Seq(Media!Call)
      <3>1. Append(calls[p], pause) \in Seq(Media!Call) /\ Append(calls[p], play) \in Seq(Media!Call)
        BY <1>2, <1>6, UnderAppended
      <3> QED  BY <1>2, <1>8, <3>1
    <2> QED  BY <1>2, <1>7, <2>1
  <1>10. Media!TypeOK'
    BY <1>1, <1>4, <1>7, <1>9 DEF MediaInv, Media!TypeOK
  <1>11. ASSUME NEW q \in Players, q # p
         PROVE  Follows(q)'
    <2>1. replies'[q] = replies[q] /\ (q \in listed') = (q \in listed)
      BY <1>1, <1>2, <1>7, <1>11
    <2> QED  BY <1>1, <1>8, <1>11, <2>1, OthersFollow
  <1>12. Follows(p)'
    <2>1. RestsOrPlays(p)' /\ GoneRests(p)'
      BY <1>1, <1>2 DEF Follows, RestsOrPlays, GoneRests
    <2>2. CASE pauses
      <3>1. pauseRequested = TRUE /\ ~takenPause /\ ~takenOff
        BY <1>2, <1>5, <2>2 DEF Follows, OfGeneration, TakesOff
      <3>2. /\ calls'[p] = Append(calls[p], pause) /\ listed' = listed /\ pauseRequested' = pauseRequested
        BY <1>1, <1>7, <1>8, <2>2, <3>1
      <3>3. /\ \A m \in Under(calls'[p]) :
                  m.current = TRUE => /\ m.kind = "Status" => pauseRequested' = TRUE
                                      /\ m.kind = "Play" => pauseRequested' = FALSE
            /\ PausesHeard(p)' /\ LastPlay(p)'
            /\ Under(calls'[p]) = Under(calls[p]) \cup {pause} /\ ~Resumes(pause)
        BY <1>2, <1>6, <3>1, <3>2, CallJoins
      <3>4. OfGeneration(p)'
        BY <1>2, <1>4, <3>2, <3>3 DEF Follows, OfGeneration
      <3>5. PlaysOn(p)'
        BY <1>2, <1>4, <3>1 DEF Follows, OfGeneration, PlaysOn, TakesOff
      <3>6. ResumesListed(p)' /\ Covered(p)'
        BY <1>1, <1>2, <1>4, <2>2, <3>2, <3>3 DEF Follows, ResumesListed, Covered
      <3> QED  BY <2>1, <3>3, <3>4, <3>5, <3>6 DEF Follows
    <2>3. CASE takenPause /\ pauseRequested = FALSE
      <3>1. ~pauses /\ ~takenOff
        BY <2>3 DEF TakesOff
      <3>2. /\ calls'[p] = Append(calls[p], play) /\ listed' = listed /\ pauseRequested' = pauseRequested
        BY <1>1, <1>7, <1>8, <2>3, <3>1
      <3>3. /\ \A m \in Under(calls'[p]) :
                  m.current = TRUE => /\ m.kind = "Status" => pauseRequested' = TRUE
                                      /\ m.kind = "Play" => pauseRequested' = FALSE
            /\ PausesHeard(p)' /\ LastPlay(p)'
            /\ Under(calls'[p]) = Under(calls[p]) \cup {play} /\ ~Resumes(play)
        BY <1>2, <1>6, <2>3, <3>2, CallJoins
      <3>4. OfGeneration(p)'
        BY <1>2, <1>4, <3>2, <3>3 DEF Follows, OfGeneration
      <3>5. PlaysOn(p)'
        BY <1>1, <1>2, <1>4, <1>6, <3>3 DEF Follows, PlaysOn
      <3>6. ResumesListed(p)' /\ Covered(p)'
        BY <1>1, <1>2, <1>6, <3>2, <3>3 DEF Follows, ResumesListed, Covered
      <3> QED  BY <2>1, <3>3, <3>4, <3>5, <3>6 DEF Follows
    <2>4. CASE ~pauses /\ ~(takenPause /\ pauseRequested = FALSE)
      <3>1. calls'[p] = calls[p] /\ pauseRequested' = pauseRequested
        BY <1>1, <1>2, <1>8, <2>4
      <3>2. OfGeneration(p)' /\ PausesHeard(p)' /\ LastPlay(p)' /\ PlaysOn(p)'
        BY <1>1, <1>2, <1>4, <3>1 DEF Follows, OfGeneration, PausesHeard, LastPlay, PlaysOn
      <3>3. takenOff => /\ stopped[p] = FALSE /\ missed[p] = "no"
                        /\ \A m \in Under(calls[p]) : ~Resumes(m)
        BY <1>2, <1>5 DEF Follows, PlaysOn, RestsOrPlays
      <3>4. takenOff \/ (p \in listed => p \in listed')
        BY <1>7
      <3>5. ResumesListed(p)'
        BY <1>1, <1>2, <3>1, <3>3, <3>4 DEF Follows, ResumesListed
      <3>6. takenPause => p \in listed' /\ pauseRequested = TRUE
        BY <1>2, <1>7, <2>4
      <3>7. Covered(p)'
        BY <1>1, <1>2, <1>4, <3>1, <3>3, <3>4, <3>6 DEF Follows, Covered
      <3> QED  BY <2>1, <3>2, <3>5, <3>7 DEF Follows
    <2> QED  BY <2>2, <2>3, <2>4
  <1> QED  BY <1>1, <1>10, <1>11, <1>12 DEF MediaInv

\* What is left once a player has taken a call.
LEMMA CallLeaves ==
    ASSUME NEW p \in Players, calls[p] \in Seq(Media!Call), calls[p] # << >>, Follows(p),
           calls'[p] = Tail(calls[p]), pauseRequested' = pauseRequested
    PROVE  /\ \A m \in Under(calls'[p]) :
                 m.current = TRUE => /\ m.kind = "Status" => pauseRequested' = TRUE
                                     /\ m.kind = "Play" => pauseRequested' = FALSE
           /\ PausesHeard(p)' /\ LastPlay(p)'
           /\ Head(calls[p]) \in Media!Call /\ Tail(calls[p]) \in Seq(Media!Call)
           /\ Under(calls[p]) = {Head(calls[p])} \cup Under(calls'[p])
           /\ Head(calls[p]).current = TRUE /\ Resumes(Head(calls[p])) =>
                 \A m \in Under(calls'[p]) : m.kind # "Pause" /\ ~Resumes(m)
  <1>1. /\ Head(calls[p]) \in Media!Call /\ Tail(calls[p]) \in Seq(Media!Call)
        /\ Under(calls[p]) = {Head(calls[p])} \cup Under(calls'[p])
        /\ Head(calls[p]) = calls[p][1] /\ 1 \in DOMAIN calls[p]
        /\ \A i \in DOMAIN calls'[p] : /\ i + 1 \in DOMAIN calls[p] /\ i \in Nat \ {0}
                                       /\ calls'[p][i] = calls[p][i + 1]
    BY UnderTaken
  <1>2. LastPlay(p)'
    <2>1. SUFFICES ASSUME NEW i \in DOMAIN calls'[p], NEW j \in DOMAIN calls'[p], i < j,
                          calls'[p][i].current = TRUE, Resumes(calls'[p][i])
                   PROVE  calls'[p][j].kind # "Pause" /\ ~Resumes(calls'[p][j])
      BY DEF LastPlay
    <2>2. /\ i + 1 \in DOMAIN calls[p] /\ j + 1 \in DOMAIN calls[p] /\ i + 1 < j + 1
          /\ calls'[p][i] = calls[p][i + 1] /\ calls'[p][j] = calls[p][j + 1]
      BY <1>1, <2>1
    <2> QED  BY <2>1, <2>2 DEF Follows, LastPlay
  <1>3. Head(calls[p]).current = TRUE /\ Resumes(Head(calls[p])) =>
           \A m \in Under(calls'[p]) : m.kind # "Pause" /\ ~Resumes(m)
    <2>1. SUFFICES ASSUME Head(calls[p]).current = TRUE, Resumes(Head(calls[p])),
                          NEW i \in DOMAIN calls'[p]
                   PROVE  calls'[p][i].kind # "Pause" /\ ~Resumes(calls'[p][i])
      BY DEF Under
    <2>2. i + 1 \in DOMAIN calls[p] /\ 1 < i + 1
      BY <1>1
    <2> QED  BY <1>1, <2>1, <2>2 DEF Follows, LastPlay
  <1>4. \A m \in Under(calls'[p]) :
           m.current = TRUE => /\ m.kind = "Status" => pauseRequested' = TRUE
                               /\ m.kind = "Play" => pauseRequested' = FALSE
    BY <1>1 DEF Follows, OfGeneration
  <1>5. PausesHeard(p)'
    BY <1>1 DEF Follows, PausesHeard
  <1> QED  BY <1>1, <1>2, <1>3, <1>4, <1>5

LEMMA CallTaken ==
    ASSUME MediaInv, NEW p \in Players, Media!PlayerTakes(p)
    PROVE  MediaInv'
  <1> DEFINE call == Head(calls[p])
             says(answer) == [kind |-> call.kind, current |-> call.current, answer |-> answer]
             answers(answer) == replies' = [replies EXCEPT ![p] =
                IF call.watched THEN Append(replies[p], says(answer)) ELSE replies[p]]
  <1>1. /\ calls[p] # << >> /\ calls' = [calls EXCEPT ![p] = Tail(calls[p])]
        /\ UNCHANGED <<listed, pauseRequested, mediaAsked, listing>>
        /\ \/ /\ player[p] = "Gone" /\ answers("gone")
              /\ UNCHANGED <<player, stopped, missed>>
           \/ /\ player[p] # "Gone" /\ call.kind = "Status" /\ answers(player[p])
              /\ UNCHANGED <<player, stopped, missed>>
           \/ /\ player[p] # "Gone" /\ call.kind # "Status" /\ answers("taken")
              /\ player' = [player EXCEPT ![p] = IF call.kind = "Pause" THEN "Paused" ELSE "Playing"]
              /\ stopped' = [stopped EXCEPT ![p] =
                   call.kind = "Pause" /\ (stopped[p] \/ player[p] = "Playing")]
              /\ missed' = [missed EXCEPT ![p] = IF stopped'[p] THEN missed[p] ELSE "no"]
           \/ /\ player[p] # "Gone" /\ call.kind # "Status" /\ answers("refused")
              /\ missed' = IF call.kind = "Pause" \/ ~stopped[p] THEN missed
                           ELSE [missed EXCEPT ![p] = IF call.watched THEN "asked" ELSE "once"]
              /\ UNCHANGED <<player, stopped>>
    BY DEF Media!PlayerTakes
  <1>2. /\ calls \in [Players -> Seq(Media!Call)] /\ replies \in [Players -> Seq(Media!Reply)]
        /\ calls[p] \in Seq(Media!Call) /\ replies[p] \in Seq(Media!Reply) /\ Follows(p)
        /\ player \in [Players -> {"Playing", "Paused", "Gone"}]
        /\ stopped \in [Players -> BOOLEAN] /\ missed \in [Players -> {"no", "asked", "once"}]
    BY DEF MediaInv, Media!TypeOK
  <1>3. calls'[p] = Tail(calls[p]) /\ pauseRequested' = pauseRequested
    BY <1>1, <1>2
  <1>4. /\ \A m \in Under(calls'[p]) :
              m.current = TRUE => /\ m.kind = "Status" => pauseRequested' = TRUE
                                  /\ m.kind = "Play" => pauseRequested' = FALSE
        /\ PausesHeard(p)' /\ LastPlay(p)'
        /\ call \in Media!Call /\ calls'[p] \in Seq(Media!Call)
        /\ Under(calls[p]) = {call} \cup Under(calls'[p])
        /\ call.current = TRUE /\ Resumes(call) =>
              \A m \in Under(calls'[p]) : m.kind # "Pause" /\ ~Resumes(m)
    BY <1>1, <1>2, <1>3, CallLeaves
  <1>5. call.kind \in {"Status", "Pause", "Play"} /\ call.watched \in BOOLEAN /\ call.current \in BOOLEAN
    BY <1>4 DEF Media!Call
  <1>6. PICK answer \in {"Playing", "Paused", "taken", "refused", "gone"} : answers(answer)
    BY <1>1, <1>2
  <1>7. /\ says(answer) \in Media!Reply /\ says(answer).kind = call.kind
        /\ says(answer).current = call.current /\ says(answer).answer = answer
    BY <1>5 DEF Media!Reply
  <1>8. /\ replies'[p] = IF call.watched THEN Append(replies[p], says(answer)) ELSE replies[p]
        /\ \A q \in Players : q # p => replies'[q] = replies[q]
    BY <1>2, <1>6
  <1> HIDE DEF call, says
  <1>9. /\ replies'[p] \in Seq(Media!Reply)
        /\ call.watched => Under(replies'[p]) = Under(replies[p]) \cup {says(answer)}
        /\ ~call.watched => Under(replies'[p]) = Under(replies[p])
    <2>1. /\ Append(replies[p], says(answer)) \in Seq(Media!Reply)
          /\ Under(Append(replies[p], says(answer))) = Under(replies[p]) \cup {says(answer)}
      BY <1>2, <1>7, UnderAppended
    <2> QED  BY <1>2, <1>8, <2>1
  <1>10. /\ player' \in [Players -> {"Playing", "Paused", "Gone"}]
         /\ stopped' \in [Players -> BOOLEAN] /\ missed' \in [Players -> {"no", "asked", "once"}]
         /\ \A q \in Players : q # p =>
               player'[q] = player[q] /\ stopped'[q] = stopped[q] /\ missed'[q] = missed[q]
    BY <1>1, <1>2, <1>5
  <1>11. Media!TypeOK'
    <2>1. calls' \in [Players -> Seq(Media!Call)] /\ replies' \in [Players -> Seq(Media!Reply)]
      BY <1>1, <1>2, <1>4, <1>6, <1>9
    <2> QED  BY <1>1, <1>10, <2>1 DEF MediaInv, Media!TypeOK
  <1>12. ASSUME NEW q \in Players, q # p
         PROVE  Follows(q)'
    BY <1>1, <1>2, <1>8, <1>10, <1>12, OthersFollow
  <1>13. Follows(p)'
    <2>1. OfGeneration(p)'
      BY <1>2, <1>3, <1>4, <1>7, <1>9 DEF Follows, OfGeneration
    <2> DEFINE newlyTakenOff == call.watched /\ TakesOff(says(answer))
    <2>2. /\ \A m \in Under(replies'[p]) : TakesOff(m) => m \in Under(replies[p]) \/ newlyTakenOff
          /\ newlyTakenOff => Resumes(call) /\ call.current = TRUE /\ answer \in {"taken", "gone"}
      BY <1>7, <1>9 DEF TakesOff, Resumes
    <2>3. CASE player[p] = "Gone" \/ call.kind = "Status"
      <3>1. UNCHANGED <<player, stopped, missed>>
        BY <1>1, <1>2, <2>3
      <3>2. newlyTakenOff => stopped[p] = FALSE
        BY <1>2, <2>2, <2>3 DEF Follows, GoneRests, Resumes
      <3>3. PlaysOn(p)'
        BY <1>2, <1>4, <2>2, <3>1, <3>2 DEF Follows, PlaysOn
      <3>4. ResumesListed(p)' /\ RestsOrPlays(p)' /\ GoneRests(p)'
        BY <1>1, <1>2, <1>4, <3>1 DEF Follows, ResumesListed, RestsOrPlays, GoneRests
      <3>5. Covered(p)'
        BY <1>1, <1>2, <1>4, <1>9, <2>3, <3>1 DEF Follows, Covered, GoneRests
      <3> QED  BY <1>4, <2>1, <3>3, <3>4, <3>5 DEF Follows
    <2>4. CASE /\ player[p] # "Gone" /\ call.kind # "Status" /\ answers("taken")
               /\ player' = [player EXCEPT ![p] = IF call.kind = "Pause" THEN "Paused" ELSE "Playing"]
               /\ stopped' = [stopped EXCEPT ![p] =
                    call.kind = "Pause" /\ (stopped[p] \/ player[p] = "Playing")]
               /\ missed' = [missed EXCEPT ![p] = IF stopped'[p] THEN missed[p] ELSE "no"]
      <3>1. /\ stopped'[p] = (call.kind = "Pause" /\ (stopped[p] \/ player[p] = "Playing"))
            /\ missed'[p] = (IF stopped'[p] THEN missed[p] ELSE "no") /\ player'[p] # "Gone"
        BY <1>2, <2>4
      <3>2. PlaysOn(p)'
        <4>1. CASE call.kind = "Pause"
          <5>1. ~newlyTakenOff
            BY <2>2, <4>1 DEF Resumes
          <5>2. call \in Under(calls[p])
            BY <1>4
          <5> QED  BY <1>2, <2>2, <4>1, <5>1, <5>2 DEF Follows, PlaysOn
        <4>2. CASE call.kind # "Pause"
          BY <1>2, <1>4, <2>2, <3>1, <4>2 DEF Follows, PlaysOn
        <4> QED  BY <4>1, <4>2
      <3>3. RestsOrPlays(p)' /\ GoneRests(p)' /\ ResumesListed(p)'
        BY <1>1, <1>2, <1>4, <3>1 DEF Follows, RestsOrPlays, GoneRests, ResumesListed
      <3>4. Covered(p)'
        <4>1. SUFFICES ASSUME call.kind = "Pause"
                       PROVE  \E m \in Under(replies'[p]) : m.kind = "Pause" /\ m.answer = "taken"
          BY <3>1 DEF Covered
        <4>2. call.watched = TRUE
          BY <1>2, <1>4, <4>1 DEF Follows, PausesHeard
        <4>3. replies'[p] = Append(replies[p], says("taken"))
          BY <1>2, <2>4, <4>2
        <4>4. says("taken") \in Media!Reply /\ says("taken").kind = "Pause" /\ says("taken").answer = "taken"
          BY <1>5, <4>1 DEF says, Media!Reply
        <4>5. says("taken") \in Under(replies'[p])
          BY <1>2, <4>3, <4>4, UnderAppended
        <4> QED  BY <4>4, <4>5
      <3> QED  BY <1>4, <2>1, <3>2, <3>3, <3>4 DEF Follows
    <2>5. CASE /\ player[p] # "Gone" /\ call.kind # "Status" /\ answers("refused")
               /\ missed' = IF call.kind = "Pause" \/ ~stopped[p] THEN missed
                            ELSE [missed EXCEPT ![p] = IF call.watched THEN "asked" ELSE "once"]
               /\ UNCHANGED <<player, stopped>>
      <3>1. \A m \in Under(replies'[p]) : TakesOff(m) => m \in Under(replies[p])
        <4>1. replies'[p] = IF call.watched THEN Append(replies[p], says("refused")) ELSE replies[p]
          BY <1>2, <2>5
        <4>2. says("refused") \in Media!Reply /\ says("refused").answer = "refused"
          BY <1>5 DEF says, Media!Reply
        <4>3. ~TakesOff(says("refused"))
          BY <4>2 DEF TakesOff
        <4>4. Under(Append(replies[p], says("refused"))) = Under(replies[p]) \cup {says("refused")}
          BY <1>2, <4>2, UnderAppended
        <4> QED  BY <4>1, <4>3, <4>4
      <3>2. PlaysOn(p)'
        BY <1>2, <1>4, <2>5, <3>1 DEF Follows, PlaysOn
      <3>3. missed'[p] = IF call.kind = "Pause" \/ ~stopped[p] THEN missed[p]
                         ELSE IF call.watched THEN "asked" ELSE "once"
        BY <1>2, <2>5
      <3>4. RestsOrPlays(p)' /\ GoneRests(p)'
        BY <1>2, <2>5, <3>3 DEF Follows, RestsOrPlays, GoneRests
      <3>5. ResumesListed(p)'
        BY <1>1, <1>2, <1>4, <1>5, <2>5, <3>3 DEF Follows, ResumesListed, Resumes
      <3>6. Covered(p)'
        BY <1>1, <1>2, <1>4, <1>5, <1>9, <2>5, <3>3 DEF Follows, Covered
      <3> QED  BY <1>4, <2>1, <3>2, <3>4, <3>5, <3>6 DEF Follows
    <2> QED  BY <1>1, <2>3, <2>4, <2>5
  <1> QED  BY <1>1, <1>11, <1>12, <1>13 DEF MediaInv

-----------------------------------------------------------------------------
LEMMA MediaInitInv ==
    ASSUME Media!Init, MaxAsked \in Nat
    PROVE  MediaInv
  <1>1. Media!TypeOK
    <2>1. calls \in [Players -> Seq(Media!Call)] /\ replies \in [Players -> Seq(Media!Reply)]
      BY DEF Media!Init
    <2>2. player \in [Players -> {"Playing", "Paused", "Gone"}]
      BY DEF Media!Init
    <2>3. stopped \in [Players -> BOOLEAN] /\ missed \in [Players -> {"no", "asked", "once"}]
      BY DEF Media!Init
    <2>4. mediaAsked \in 0..MaxAsked /\ listed \subseteq Players
      BY DEF Media!Init
    <2> QED  BY <2>1, <2>2, <2>3, <2>4 DEF Media!Init, Media!TypeOK
  <1>2. \A p \in Players : Under(calls[p]) = {} /\ Under(replies[p]) = {} /\ DOMAIN calls[p] = {}
    BY DEF Media!Init, Under
  <1>3. ASSUME NEW p \in Players
        PROVE  Follows(p)
    BY <1>2 DEF Media!Init, Follows, OfGeneration, PausesHeard, LastPlay, PlaysOn, ResumesListed,
                RestsOrPlays, GoneRests, Covered
  <1> QED  BY <1>1, <1>3 DEF MediaInv, Media!Init

LEMMA MediaNextInv ==
    ASSUME MediaInv, [Media!Next]_Media!vars, MaxAsked \in Nat, PausesUnanswered = FALSE
    PROVE  MediaInv'
  <1>1. CASE UNCHANGED Media!vars
    <2>1. UNCHANGED <<listed, pauseRequested, listing, calls, replies, mediaAsked, player, stopped, missed>>
      BY <1>1 DEF Media!vars
    <2>2. Media!TypeOK'
      BY <2>1 DEF MediaInv, Media!TypeOK
    <2>3. \A p \in Players : Follows(p)'
      BY <2>1, LeftAlone DEF MediaInv
    <2> QED  BY <2>1, <2>2, <2>3 DEF MediaInv
  <1>2. CASE Media!Next
    BY <1>2, Pauses, Resumed, NamesAnswered, AnswerTaken, TimesOut, CallTaken, PersonSets DEF Media!Next
  <1> QED  BY <1>1, <1>2

(* A player that answers Pause, however late, plays again once the dictation
   has resumed the media and nothing is under way, unless it refused to; and
   then it is listed.  That a player whose answer to Pause is an error may
   stay paused for good is what the code's own time limit brings with it. *)
THEOREM MediaPausedAgain ==
    ASSUME MaxAsked \in Nat, PausesUnanswered = FALSE
    PROVE  Media!Spec => []PlaysAgain
  <1>1. Media!Init => MediaInv
    BY MediaInitInv
  <1>2. MediaInv /\ [Media!Next]_Media!vars => MediaInv'
    BY MediaNextInv
  <1>3. MediaInv => PlaysAgain
    <2>1. SUFFICES ASSUME MediaInv, ~pauseRequested, NEW p \in Players, stopped[p],
                          calls[p] = << >>, replies[p] = << >>
                   PROVE  missed[p] = "once" \/ (missed[p] = "asked" /\ p \in listed)
      BY DEF PlaysAgain
    <2>2. Follows(p) /\ missed[p] \in {"no", "asked", "once"} /\ stopped[p] = TRUE
      BY <2>1 DEF MediaInv, Media!TypeOK
    <2>3. Under(calls[p]) = {} /\ Under(replies[p]) = {}
      BY <2>1 DEF Under
    <2> QED  BY <2>1, <2>2, <2>3 DEF Follows, ResumesListed, Covered
  <1> QED  BY <1>1, <1>2, <1>3, PTL DEF Media!Spec
=============================================================================
