----------------------- MODULE DictationSpeechProofs -----------------------
(***************************************************************************)
(* Proofs about DictationSpeech, for any number of providers, reconnects,  *)
(* attempts and chunks and any depth of handlers.  The first theorems hold *)
(* with any set of quirks, the last three Ordinarily: without the quirks   *)
(* under which the code breaks them.                                       *)
(***************************************************************************)
EXTENDS DictationSpeech, SequenceTheorems, TLAPS

ProviderCalls == {"startAttempt", "sendAudio", "finishInput"}

\* The frames that are not calls to a provider.  Only the running call may be
\* one: nothing the speech does waits below a call to its provider's caller.
QuietFrames == [at: Labels \ ProviderCalls, arg: Nat]
QuietBelow == calls # <<>> => Tail(calls) \in Seq(QuietFrames)

Typed == TypeOK /\ QuietBelow

-----------------------------------------------------------------------------
(* The call stack.                                                         *)

\* Every label the code pushes makes a frame, and one that is no call to a
\* provider makes a quiet frame.
LEMMA CallTyped ==
    /\ \A label \in Labels, n \in Nat :
          Call(label) \in Frames /\ CallWith(label, n) \in Frames
    /\ \A label \in Labels \ ProviderCalls, n \in Nat :
          Call(label) \in QuietFrames /\ CallWith(label, n) \in QuietFrames
BY DEF Call, CallWith, Frames, QuietFrames

\* A stack of quiet frames is a call stack.
LEMMA QuietIsFrames == Seq(QuietFrames) \subseteq Seq(Frames)
<1>1. QuietFrames \subseteq Frames  BY DEF QuietFrames, Frames
<1> QED  BY <1>1, SeqMonotonic

\* Pushing a quiet frame keeps a stack quiet.
LEMMA PushQuiet ==
    ASSUME NEW f \in QuietFrames, NEW s \in Seq(QuietFrames)
    PROVE  <<f>> \o s \in Seq(QuietFrames)
OBVIOUS

\* Pushing any frame over a quiet stack, as startAttempt() is pushed, gives a
\* stack whose head is that frame and whose tail is quiet.
LEMMA Push ==
    ASSUME NEW f \in Frames, NEW s \in Seq(QuietFrames)
    PROVE  /\ <<f>> \o s \in Seq(Frames)
           /\ <<f>> \o s # <<>>
           /\ Head(<<f>> \o s) = f
           /\ Tail(<<f>> \o s) = s
<1>1. s \in Seq(Frames)  BY QuietIsFrames
<1> QED  BY <1>1

\* The calls a newer announcement overtakes (m_step) stay quiet frames.
LEMMA OvertakenQuiet ==
    ASSUME NEW s \in Seq(QuietFrames)
    PROVE  Overtaken(s) \in Seq(QuietFrames)
<1>1. \A i \in 1..Len(s) : s[i] \in QuietFrames  OBVIOUS
<1>2. Call("overtaken") \in QuietFrames  BY CallTyped DEF Labels, ProviderCalls
<1>3. Overtaken(s) \in [1..Len(s) -> QuietFrames]
  BY <1>1, <1>2 DEF Overtaken
<1> QED  BY <1>3, SeqDef

\* A stack whose head is no provider call is quiet altogether.
LEMMA QuietHead ==
    ASSUME Typed, calls # <<>>, Head(calls).at \notin ProviderCalls
    PROVE  calls \in Seq(QuietFrames)
<1>1. calls \in Seq(Frames) /\ Head(calls) \in Frames
  BY DEF Typed, TypeOK
<1>2. Head(calls) \in QuietFrames  BY <1>1 DEF Frames, QuietFrames
<1>3. Tail(calls) \in Seq(QuietFrames)  BY DEF Typed, QuietBelow
<1>4. calls = <<Head(calls)>> \o Tail(calls)  BY <1>1
<1> QED  BY <1>2, <1>3, <1>4, PushQuiet

-----------------------------------------------------------------------------
(* What a step of the speech leaves, whatever led to it: sound values, a     *)
(* stack whose head is no audio and no end of input, and, while the session  *)
(* goes on, the audio held and whether the attempt's input ended.            *)

Settled ==
    /\ phase' \in Phases /\ microphone' \in BOOLEAN
    /\ between' \in Betweens /\ attempts' \in Attempts
    /\ calls' \in Seq(Frames)
    /\ calls' # <<>> => /\ Tail(calls') \in Seq(QuietFrames)
                        /\ Head(calls').at \notin {"sendAudio", "finishInput"}
    /\ phase' # "Idle" => phase # "Idle" /\ between'.held = between.held
    /\ between'.held \in {between.held, <<>>}
    /\ attempts'.id >= attempts.id
    /\ phase' # "Idle" /\ attempts'.id = attempts.id =>
          between'.inputEnded = between.inputEnded

\* The stack a step leaves when it runs on with quiet frames, or opens an
\* attempt over them.
LEMMA QuietStack ==
    ASSUME NEW s \in Seq(QuietFrames)
    PROVE  /\ s \in Seq(Frames)
           /\ s # <<>> => /\ Tail(s) \in Seq(QuietFrames)
                          /\ Head(s).at \notin ProviderCalls
<1>1. s \in Seq(Frames)  BY QuietIsFrames
<1>2. s # <<>> => Head(s) \in QuietFrames /\ Tail(s) \in Seq(QuietFrames)  OBVIOUS
<1> QED  BY <1>1, <1>2 DEF QuietFrames

\* SpeechAttempts::startAttempt: the new attempt is the next id, its input not
\* ended, and nothing held moves.
LEMMA OpenAttemptSettles ==
    ASSUME Typed, NEW b \in Betweens, NEW a \in Attempts, NEW rest \in Seq(QuietFrames),
           b.held = between.held, a.id = attempts.id,
           OpenAttempt(b, a, rest), UNCHANGED <<phase, microphone>>
    PROVE  Settled
<1> DEFINE tail == <<CallWith("committed", a.id + 1)>> \o rest
<1>1. a.id + 1 \in Nat /\ attempts.id \in Nat  BY DEF Attempts, Typed, TypeOK
<1>2. tail \in Seq(QuietFrames)
  BY <1>1, CallTyped, PushQuiet DEF Labels, ProviderCalls
<1>3. Call("startAttempt") \in Frames  BY CallTyped DEF Labels
<1>4. calls' = <<Call("startAttempt")>> \o tail
  <2>1. rest \in Seq(Frames)  BY QuietIsFrames
  <2> QED  BY <2>1, <1>1, CallTyped DEF OpenAttempt, Labels
<1>5. /\ calls' \in Seq(Frames) /\ Tail(calls') \in Seq(QuietFrames)
      /\ Head(calls').at \notin {"sendAudio", "finishInput"}
  <2> HIDE DEF tail
  <2>1. /\ calls' \in Seq(Frames) /\ Tail(calls') = tail
        /\ Head(calls') = Call("startAttempt")
    BY <1>2, <1>3, <1>4, Push
  <2>2. Call("startAttempt").at = "startAttempt"  BY DEF Call
  <2> QED  BY <2>1, <2>2, <1>2
<1>6. between' \in Betweens /\ between'.held = b.held
  BY DEF OpenAttempt, Betweens
<1>7. attempts' \in Attempts /\ attempts'.id = a.id + 1
  BY <1>1 DEF OpenAttempt, Attempts
<1> QED  BY <1>1, <1>5, <1>6, <1>7 DEF Settled, Typed, TypeOK

\* resumeAttempt() opens an attempt, which gets what is held next.
LEMMA ResumeAttemptSettles ==
    ASSUME Typed, NEW b \in Betweens, NEW a \in Attempts, NEW rest \in Seq(QuietFrames),
           b.held = between.held, a.id = attempts.id,
           resumeAttempt(b, a, rest), UNCHANGED <<phase, microphone>>
    PROVE  Settled
<1>1. <<Call("sendHeldAudio")>> \o rest \in Seq(QuietFrames)
  BY CallTyped, PushQuiet DEF Labels, ProviderCalls, Call
<1> QED  BY <1>1, OpenAttemptSettles DEF resumeAttempt

\* The step runs on with quiet frames, and leaves what is held and the attempt.
LEMMA QuietSettles ==
    ASSUME Typed, NEW s \in Seq(QuietFrames), calls' = s,
           between' \in Betweens, attempts' \in Attempts,
           attempts'.id >= attempts.id,
           phase' \in Phases, microphone' \in BOOLEAN,
           between'.held \in {between.held, <<>>},
           phase' # "Idle" => /\ phase # "Idle"
                              /\ between'.held = between.held
                              /\ between'.inputEnded = between.inputEnded
    PROVE  Settled
<1>1. /\ calls' \in Seq(Frames)
      /\ calls' # <<>> => /\ Tail(calls') \in Seq(QuietFrames)
                          /\ Head(calls').at \notin ProviderCalls
  BY QuietStack
<1> QED  BY <1>1 DEF Settled, ProviderCalls

\* handleFailure()'s end by failure runs on with quiet frames.
LEMMA EndByFailureSettles ==
    ASSUME Typed, NEW b \in Betweens, NEW rest \in Seq(QuietFrames),
           EndByFailure(b, rest), UNCHANGED attempts, b.held \in {between.held, <<>>}
    PROVE  Settled
<1>1. <<Call("sessionEnds"), Call("handlers")>> \o Overtaken(rest) \in Seq(QuietFrames)
  <2>1. Overtaken(rest) \in Seq(QuietFrames)  BY OvertakenQuiet
  <2>2. Call("sessionEnds") \in QuietFrames /\ Call("handlers") \in QuietFrames
    BY CallTyped DEF Labels, ProviderCalls
  <2> QED  BY <2>1, <2>2
<1>2. attempts' \in Attempts /\ attempts'.id >= attempts.id
  BY DEF Typed, TypeOK, Attempts
<1>3. phase' = "Idle" /\ phase' \in Phases /\ microphone' = FALSE /\ between' = b
  BY DEF EndByFailure, Phases
<1> QED  BY <1>1, <1>2, <1>3, QuietSettles DEF EndByFailure

\* switchProvider() retires the attempt and prepares the next provider.
LEMMA SwitchProviderSettles ==
    ASSUME Typed, NEW b \in Betweens, NEW rest \in Seq(QuietFrames),
           b.held = between.held, b.inputEnded = between.inputEnded,
           switchProvider(b, rest), UNCHANGED <<phase, microphone, attempts>>
    PROVE  Settled
<1>1. <<Call("retire"), Call("switch")>> \o rest \in Seq(QuietFrames)
  BY CallTyped DEF Labels, ProviderCalls
<1>2. /\ between' \in Betweens
      /\ between'.held = b.held /\ between'.inputEnded = b.inputEnded
  BY DEF switchProvider, Betweens
<1>3. /\ phase' \in Phases /\ microphone' \in BOOLEAN
      /\ attempts' \in Attempts /\ attempts'.id >= attempts.id
  BY DEF Typed, TypeOK, Attempts
<1> QED  BY <1>1, <1>2, <1>3, QuietSettles DEF switchProvider

\* endedWhileStopping() settles the stop whether the microphone still stops.
LEMMA EndedWhileStoppingSettles ==
    ASSUME Typed, NEW b \in Betweens, NEW rest \in Seq(QuietFrames),
           b.held = between.held, b.inputEnded = between.inputEnded,
           endedWhileStopping(b, rest), UNCHANGED <<phase, microphone>>,
           attempts' \in Attempts, attempts'.id = attempts.id
    PROVE  Settled
<1>1. <<Call("end")>> \o rest \in Seq(QuietFrames)
  BY CallTyped DEF Labels, ProviderCalls
<1>2. /\ between' \in Betweens
      /\ between'.held = b.held /\ between'.inputEnded = b.inputEnded
  BY DEF endedWhileStopping, Betweens
<1>3. calls' \in Seq(QuietFrames)  BY <1>1 DEF endedWhileStopping
<1>4. /\ phase' \in Phases /\ microphone' \in BOOLEAN /\ attempts'.id >= attempts.id
  BY DEF Typed, TypeOK, Attempts
<1> QED  BY <1>2, <1>3, <1>4, QuietSettles

\* An attempt's failure, whatever it is and whenever it comes.
LEMMA HandleFailureSettles ==
    ASSUME Typed, NEW failure \in Failures, NEW offline \in BOOLEAN, NEW stable \in BOOLEAN,
           NEW rest \in Seq(QuietFrames),
           handleFailure(failure, offline, stable, rest)
    PROVE  Settled
<1> DEFINE ended == [between EXCEPT !.finishingPausedAttempt = FALSE]
<1>1. /\ ended \in Betweens
      /\ ended.held = between.held /\ ended.inputEnded = between.inputEnded
  BY DEF Typed, TypeOK, Betweens
<1>2. \A n \in Nat : /\ WithReconnects(n) \in Attempts
                     /\ WithReconnects(n).id = attempts.id
  BY DEF Typed, TypeOK, Attempts, WithReconnects
<1>3. attempts \in Attempts /\ attempts.id >= attempts.id
  BY DEF Typed, TypeOK, Attempts
<1>4. CASE switchProvider(ended, rest)
           /\ UNCHANGED <<phase, microphone, attempts>>
  BY <1>1, <1>4, SwitchProviderSettles
<1>5. CASE resumeAttempt(ended, attempts, rest)
           /\ UNCHANGED <<phase, microphone>>
  BY <1>1, <1>3, <1>5, ResumeAttemptSettles
<1>6. CASE endedWhileStopping(ended, rest)
           /\ UNCHANGED <<phase, microphone, attempts>>
  BY <1>1, <1>3, <1>6, EndedWhileStoppingSettles
<1>7. CASE between' = ended /\ calls' = rest /\ UNCHANGED <<phase, microphone, attempts>>
  BY <1>1, <1>3, <1>7, QuietSettles DEF Typed, TypeOK
<1>8. CASE UNCHANGED <<phase, microphone>>
           /\ \E n \in Nat : resumeAttempt(ended, WithReconnects(n), rest)
  BY <1>1, <1>2, <1>8, ResumeAttemptSettles
<1>9. CASE EndByFailure(ended, rest) /\ UNCHANGED attempts
  BY <1>1, <1>9, EndByFailureSettles
<1> DEFINE left == IF stable THEN Reconnects ELSE attempts.reconnects
<1>10. left > 0 => left - 1 \in Nat
  BY ReconnectsAssumption DEF Typed, TypeOK, Attempts
<1>11. \/ switchProvider(ended, rest) /\ UNCHANGED <<phase, microphone, attempts>>
       \/ resumeAttempt(ended, attempts, rest) /\ UNCHANGED <<phase, microphone>>
       \/ endedWhileStopping(ended, rest) /\ UNCHANGED <<phase, microphone, attempts>>
       \/ between' = ended /\ calls' = rest /\ UNCHANGED <<phase, microphone, attempts>>
       \/ /\ left > 0 /\ UNCHANGED <<phase, microphone>>
          /\ resumeAttempt(ended, WithReconnects(left - 1), rest)
       \/ EndByFailure(ended, rest) /\ UNCHANGED attempts
  BY Zenon DEF handleFailure
<1> QED  BY <1>4, <1>5, <1>6, <1>7, <1>8, <1>9, <1>10, <1>11

\* An attempt's end, asked for or not.
LEMMA HandleCompletedSettles ==
    ASSUME Typed, NEW offline \in BOOLEAN, NEW stable \in BOOLEAN,
           NEW rest \in Seq(QuietFrames), handleCompleted(offline, stable, rest)
    PROVE  Settled
<1> DEFINE ended == [between EXCEPT !.finishingPausedAttempt = FALSE]
<1>1. /\ ended \in Betweens
      /\ ended.held = between.held /\ ended.inputEnded = between.inputEnded
  BY DEF Typed, TypeOK, Betweens
<1>2. /\ attempts \in Attempts /\ attempts.id >= attempts.id
      /\ WithReconnects(Reconnects) \in Attempts
      /\ WithReconnects(Reconnects).id = attempts.id
  BY ReconnectsAssumption DEF Typed, TypeOK, Attempts, WithReconnects
<1>3. CASE endedWhileStopping(ended, rest) /\ UNCHANGED <<phase, microphone, attempts>>
  BY <1>1, <1>2, <1>3, EndedWhileStoppingSettles
<1>4. CASE resumeAttempt(ended, attempts, rest) /\ UNCHANGED <<phase, microphone>>
  BY <1>1, <1>2, <1>4, ResumeAttemptSettles
<1>5. CASE /\ resumeAttempt(ended, WithReconnects(Reconnects), rest)
           /\ UNCHANGED <<phase, microphone>>
  BY <1>1, <1>2, <1>5, ResumeAttemptSettles
<1>6. CASE handleFailure("dropped", offline, FALSE, rest)
  BY <1>6, HandleFailureSettles DEF Failures
<1>7. CASE between' = ended /\ calls' = rest /\ UNCHANGED <<phase, microphone, attempts>>
  BY <1>1, <1>2, <1>7, QuietSettles DEF Typed, TypeOK
<1> QED  BY <1>3, <1>4, <1>5, <1>6, <1>7, Zenon DEF handleCompleted

\* The chain's provider is ready.
LEMMA TakeReadyProviderSettles ==
    ASSUME Typed, NEW rest \in Seq(QuietFrames), takeReadyProvider(rest)
    PROVE  Settled
<1> DEFINE ready == [between EXCEPT !.awaitingProvider = FALSE]
           refilled == [attempts EXCEPT !.transcriber = TRUE, !.reconnects = Reconnects]
<1>1. /\ ready \in Betweens
      /\ ready.held = between.held /\ ready.inputEnded = between.inputEnded
  BY DEF Typed, TypeOK, Betweens
<1>2. /\ refilled \in Attempts /\ refilled.id = attempts.id
      /\ refilled.id \in Nat /\ refilled.id >= attempts.id
  <2>1. attempts \in Attempts  BY DEF Typed, TypeOK
  <2>2. attempts.id \in Nat  BY <2>1 DEF Attempts
  <2>3. refilled.id = attempts.id  BY <2>1 DEF Attempts
  <2>4. refilled \in Attempts  BY <2>1, ReconnectsAssumption DEF Attempts
  <2> QED  BY <2>2, <2>3, <2>4
<1>3. UNCHANGED <<phase, microphone>>  BY DEF takeReadyProvider
<1>4. CASE UNCHANGED between /\ attempts' = refilled /\ calls' = rest
  BY <1>2, <1>3, <1>4, QuietSettles DEF Typed, TypeOK
<1>5. CASE openFirstAttempt(ready, refilled, rest)
  <2>1. CallWith("openedFirst", refilled.id + 1) \in QuietFrames
    BY <1>2, CallTyped DEF Labels, ProviderCalls
  <2>2. <<CallWith("openedFirst", refilled.id + 1)>> \o rest \in Seq(QuietFrames)
    BY <2>1, PushQuiet
  <2> QED  BY <1>1, <1>2, <1>3, <1>5, <2>2, OpenAttemptSettles DEF openFirstAttempt
<1>6. CASE resumeAttempt(ready, refilled, rest)
  BY <1>1, <1>2, <1>3, <1>6, ResumeAttemptSettles
<1>7. CASE resumeAttempt(ready, refilled, <<Call("finishPaused")>> \o rest)
  <2>1. <<Call("finishPaused")>> \o rest \in Seq(QuietFrames)
    BY CallTyped, PushQuiet DEF Labels, ProviderCalls, Call
  <2> QED  BY <1>1, <1>2, <1>3, <1>7, <2>1, ResumeAttemptSettles
<1>8. CASE between' = ready /\ attempts' = refilled /\ calls' = rest
  BY <1>1, <1>2, <1>3, <1>8, QuietSettles DEF Typed, TypeOK
<1>9. CASE endedWhileStopping(ready, rest) /\ attempts' = refilled
  BY <1>1, <1>2, <1>3, <1>9, EndedWhileStoppingSettles
<1> QED
  BY <1>4, <1>5, <1>6, <1>7, <1>8, <1>9, Zenon DEF takeReadyProvider

-----------------------------------------------------------------------------
(* Every action but the four that touch audio or the end of the input        *)
(* settles, and keeps the other variables' types.                            *)

OthersTyped ==
    /\ settings' \in BOOLEAN
    /\ microphoneStarting' \in BOOLEAN
    /\ microphoneStopped' \in BOOLEAN
    /\ noAttemptToFinish' \in BOOLEAN
    /\ finishOwed' \in BOOLEAN
    /\ openOwed' \in BOOLEAN
    /\ emptyResumedAttempt' \in Nat
    /\ retiredAttempt' \in Nat
    /\ chain' \in [index: Nat \ {0}, preparing: BOOLEAN]
    /\ provider' \in [open: SUBSET Nat, told: SUBSET Nat]
    /\ audio' \in [heard: Nat, given: Nat]
    /\ partial' \in BOOLEAN

\* A step whose parts are typed leaves a typed state.
LEMMA TypedStep ==
    ASSUME Typed, Settled, OthersTyped
    PROVE  Typed'
BY DEF Typed, TypeOK, QuietBelow, Settled, OthersTyped

\* The frames the code pushes.
LEMMA Frame ==
    ASSUME NEW label \in Labels \ ProviderCalls
    PROVE  Call(label) \in QuietFrames
BY DEF Call, QuietFrames

\* What a call returns to is quiet.
LEMMA TailQuiet ==
    ASSUME Typed, NEW label, Running(label)
    PROVE  Tail(calls) \in Seq(QuietFrames) /\ Tail(calls) \in Seq(Frames)
<1>1. Tail(calls) \in Seq(QuietFrames)  BY DEF Typed, QuietBelow, Running
<1> QED  BY <1>1, QuietIsFrames

\* The running call goes on with quiet frames in its place.
LEMMA GoOnSettles ==
    ASSUME Typed, NEW label, Running(label), NEW frames \in Seq(QuietFrames),
           GoOn(frames), UNCHANGED <<phase, attempts>>, microphone' \in BOOLEAN,
           between' \in Betweens, between'.held = between.held,
           between'.inputEnded = between.inputEnded
    PROVE  Settled
<1>1. Tail(calls) \in Seq(QuietFrames)  BY TailQuiet
<1>2. frames \o Tail(calls) \in Seq(QuietFrames)  BY <1>1
<1>3. attempts' \in Attempts /\ attempts'.id >= attempts.id /\ phase' \in Phases
  BY DEF Typed, TypeOK, Attempts
<1> QED  BY <1>2, <1>3, QuietSettles DEF GoOn

\* The running call returns.
LEMMA ReturnSettles ==
    ASSUME Typed, NEW label, Running(label), Return,
           UNCHANGED <<phase, attempts>>, microphone' \in BOOLEAN,
           between' \in Betweens, between'.held = between.held,
           between'.inputEnded = between.inputEnded
    PROVE  Settled
<1>1. GoOn(<<>>)
  <2>1. Tail(calls) \in Seq(Frames)  BY TailQuiet
  <2> QED  BY <2>1 DEF Return, GoOn
<1>2. <<>> \in Seq(QuietFrames)  OBVIOUS
<1> QED  BY <1>1, <1>2, GoOnSettles

\* Steps that return, or go on, without a word to a provider.
LEMMA QuietCodeSettles ==
    ASSUME Typed,
           \/ CommitPartial \/ RetireAttempt \/ FinishPaused \/ OpenedFirst
           \/ ReadyToListen \/ MarkEmpty \/ EndHeld \/ proceed \/ StartMicrophone
           \/ StopMicrophone \/ HandlersReturn \/ ReturnOvertaken
    PROVE  Settled /\ OthersTyped
<1> USE DEF speechVars, flagVars, resumeVars, providerVars, heardVars
<1>1. /\ microphone \in BOOLEAN /\ between \in Betweens /\ attempts.id \in Nat
      /\ \A f \in QuietFrames, g \in QuietFrames :
            <<f>> \in Seq(QuietFrames) /\ <<f, g>> \in Seq(QuietFrames)
      /\ <<>> \in Seq(QuietFrames)
  BY DEF Typed, TypeOK, Attempts
<1>2. \A label \in Labels \ ProviderCalls : Call(label) \in QuietFrames
  BY Frame
<1>3. endInput \in Seq(QuietFrames)
  BY <1>1, <1>2 DEF endInput, Labels, ProviderCalls
<1>4. CASE CommitPartial
  <2>1. Call("handlers") \in QuietFrames  BY <1>2 DEF Labels, ProviderCalls
  <2>2. Settled
    BY <1>1, <1>4, <2>1, GoOnSettles, ReturnSettles DEF CommitPartial
  <2> QED  BY <1>4, <2>2 DEF CommitPartial, OthersTyped, Typed, TypeOK
<1>5. CASE RetireAttempt
  <2>1. Call("handlers") \in QuietFrames  BY <1>2 DEF Labels, ProviderCalls
  <2>2. Settled
    BY <1>1, <1>5, <2>1, GoOnSettles DEF RetireAttempt
  <2> QED  BY <1>5, <2>2 DEF RetireAttempt, OthersTyped, Typed, TypeOK
<1>6. CASE FinishPaused
  <2>1. /\ [between EXCEPT !.finishingPausedAttempt = TRUE] \in Betweens
        /\ [between EXCEPT !.finishingPausedAttempt = TRUE].held = between.held
        /\ [between EXCEPT !.finishingPausedAttempt = TRUE].inputEnded = between.inputEnded
    BY <1>1 DEF Betweens
  <2>2. Settled
    BY <1>1, <1>3, <1>6, <2>1, GoOnSettles, ReturnSettles DEF FinishPaused
  <2> QED  BY <1>6, <2>2 DEF FinishPaused, OthersTyped, Typed, TypeOK
<1>7. CASE OpenedFirst
  <2>1. Call("sendHeldAudio") \in QuietFrames
    BY <1>2 DEF Labels, ProviderCalls
  <2>2. CallWith("readyFirst", attempts.id) \in QuietFrames
    BY <1>1, CallTyped DEF Labels, ProviderCalls
  <2>3. Settled
    BY <1>1, <1>7, <2>1, <2>2, GoOnSettles, ReturnSettles DEF OpenedFirst
  <2> QED  BY <1>7, <2>3 DEF OpenedFirst, OthersTyped, Typed, TypeOK
<1>8. CASE ReadyToListen
  <2>1. Settled
    BY <1>1, <1>8, ReturnSettles DEF ReadyToListen
  <2> QED  BY <1>8, <2>1 DEF ReadyToListen, OthersTyped, Typed, TypeOK
<1>9. CASE MarkEmpty
  <2>1. Settled
    BY <1>1, <1>9, ReturnSettles DEF MarkEmpty
  <2> QED  BY <1>1, <1>9, <2>1 DEF MarkEmpty, OthersTyped, Typed, TypeOK
<1>10. CASE EndHeld
  <2>1. Settled
    BY <1>1, <1>3, <1>10, GoOnSettles, ReturnSettles DEF EndHeld
  <2> QED  BY <1>10, <2>1 DEF EndHeld, OthersTyped, Typed, TypeOK
<1>11. CASE proceed
  <2> DEFINE first == IF finishOwed /\ between.finishingPausedAttempt THEN endInput ELSE <<>>
             then == CASE phase = "Listening" -> <<Call("proceedListening")>>
                       [] phase = "Stopping" -> <<Call("proceedStopping")>>
                       [] OTHER -> <<>>
  <2>1. first \in Seq(QuietFrames)  BY <1>1, <1>3
  <2>2. /\ Call("proceedListening") \in QuietFrames
        /\ Call("proceedStopping") \in QuietFrames
    BY <1>2 DEF Labels, ProviderCalls
  <2>3. then \in Seq(QuietFrames)  BY <1>1, <2>2
  <2>4. Running("proceed") /\ GoOn(first \o then)  BY <1>11 DEF proceed
  <2>5. first \o then \in Seq(QuietFrames)
    <3> HIDE DEF first, then
    <3> QED  BY <2>1, <2>3
  <2>6. Settled
    <3> HIDE DEF first, then
    <3> QED  BY <1>1, <1>11, <2>4, <2>5, GoOnSettles DEF proceed
  <2> QED  BY <1>11, <2>6 DEF proceed, OthersTyped, Typed, TypeOK
<1>12. CASE StartMicrophone
  <2>1. Settled  BY <1>1, <1>12, ReturnSettles DEF StartMicrophone
  <2> QED  BY <1>12, <2>1 DEF StartMicrophone, OthersTyped, Typed, TypeOK
<1>13. CASE StopMicrophone
  <2>1. Call("proceed") \in QuietFrames  BY <1>2 DEF Labels, ProviderCalls
  <2>2. Settled
    BY <1>1, <1>13, <2>1, GoOnSettles, ReturnSettles DEF StopMicrophone
  <2> QED  BY <1>13, <2>2 DEF StopMicrophone, OthersTyped, Typed, TypeOK
<1>14. CASE HandlersReturn
  <2>1. Settled  BY <1>1, <1>14, ReturnSettles DEF HandlersReturn
  <2> QED  BY <1>14, <2>1 DEF HandlersReturn, OthersTyped, Typed, TypeOK
<1>15. CASE ReturnOvertaken
  <2>1. Settled  BY <1>1, <1>15, ReturnSettles DEF ReturnOvertaken
  <2> QED  BY <1>15, <2>1 DEF ReturnOvertaken, OthersTyped, Typed, TypeOK
<1> QED
  BY <1>4, <1>5, <1>6, <1>7, <1>8, <1>9, <1>10, <1>11, <1>12, <1>13, <1>14, <1>15

\* Steps that open an attempt, switch providers or end the speech.
LEMMA SpeechCodeSettles ==
    ASSUME Typed,
           \/ End \/ Switch \/ Walk \/ finishPreparation
           \/ ProceedListening \/ finishStop
    PROVE  Settled /\ OthersTyped
<1> USE DEF speechVars, flagVars, resumeVars, providerVars, heardVars
<1>1. /\ microphone \in BOOLEAN /\ between \in Betweens /\ attempts.id \in Nat
      /\ attempts \in Attempts /\ attempts.id >= attempts.id
      /\ phase \in Phases /\ retiredAttempt \in Nat
  BY DEF Typed, TypeOK, Attempts
<1>0. /\ \A f \in QuietFrames, g \in QuietFrames :
            <<f>> \in Seq(QuietFrames) /\ <<f, g>> \in Seq(QuietFrames)
      /\ <<>> \in Seq(QuietFrames)
  OBVIOUS
<1>2. \A label \in Labels \ ProviderCalls : Call(label) \in QuietFrames
  BY Frame
<1>3. endInput \in Seq(QuietFrames)
  BY <1>0, <1>2 DEF endInput, Labels, ProviderCalls
<1>4. /\ chain \in [index: Nat \ {0}, preparing: BOOLEAN]
      /\ chain.index + 1 \in Nat \ {0}
      /\ provider \in [open: SUBSET Nat, told: SUBSET Nat]
      /\ \A a \in Nat : [provider EXCEPT !.open = @ \ {a}]
                            \in [open: SUBSET Nat, told: SUBSET Nat]
  BY DEF Typed, TypeOK
<1>5. CASE End
  <2>0. Tail(calls) \in Seq(QuietFrames)  BY <1>5, TailQuiet DEF End
  <2>1. ASSUME between.awaitingProvider /\ Return /\ UNCHANGED <<phase, between, attempts>>
       PROVE  Settled
    BY <1>1, <1>5, <2>1, ReturnSettles DEF End
  <2>2. ASSUME /\ resumeAttempt(between, attempts, <<Call("endHeld")>> \o Tail(calls))
               /\ UNCHANGED phase
       PROVE  Settled
    <3>1. <<Call("endHeld")>> \o Tail(calls) \in Seq(QuietFrames)
      BY <1>2, <2>0, PushQuiet DEF Labels, ProviderCalls
    <3> QED  BY <1>1, <1>5, <2>2, <3>1, ResumeAttemptSettles DEF End
  <2>3. ASSUME /\ phase' = "Idle"
               /\ calls' = <<Call("handlers")>> \o Overtaken(Tail(calls))
               /\ UNCHANGED <<between, attempts>>
       PROVE  Settled
    <3>1. <<Call("handlers")>> \o Overtaken(Tail(calls)) \in Seq(QuietFrames)
      BY <1>2, <2>0, OvertakenQuiet, PushQuiet DEF Labels, ProviderCalls
    <3> QED  BY <1>1, <1>5, <2>3, <3>1, QuietSettles DEF End, Phases
  <2>4. Settled  BY <1>5, <2>1, <2>2, <2>3 DEF End
  <2> QED  BY <1>5, <2>4 DEF End, OthersTyped, Typed, TypeOK
<1>6. CASE Switch
  <2>1. Call("walk") \in QuietFrames  BY <1>2 DEF Labels, ProviderCalls
  <2>2. attempts' \in Attempts /\ attempts'.id >= attempts.id
    <3>1. CASE attempts.transcriber
      <4>1. attempts' = [attempts EXCEPT !.id = attempts.id + 1, !.transcriber = FALSE]
        BY <1>6, <3>1 DEF Switch
      <4>2. attempts.id + 1 \in Nat /\ attempts.id + 1 >= attempts.id  BY <1>1
      <4>3. attempts'.id = attempts.id + 1  BY <1>1, <4>1 DEF Attempts
      <4>4. attempts' \in Attempts  BY <1>1, <4>1, <4>2 DEF Attempts
      <4> QED  BY <4>2, <4>3, <4>4
    <3>2. CASE ~attempts.transcriber
      BY <1>1, <1>6, <3>2 DEF Switch
    <3> QED  BY <3>1, <3>2
  <2>3. <<Call("walk")>> \o Tail(calls) \in Seq(QuietFrames)
    BY <1>6, <2>1, TailQuiet, PushQuiet DEF Switch
  <2>4. Settled  BY <1>1, <1>6, <2>2, <2>3, QuietSettles DEF Switch, GoOn
  <2>5. chain' \in [index: Nat \ {0}, preparing: BOOLEAN]  BY <1>4, <1>6 DEF Switch
  <2>6. provider' \in [open: SUBSET Nat, told: SUBSET Nat]  BY <1>1, <1>4, <1>6 DEF Switch
  <2> QED  BY <1>6, <2>4, <2>5, <2>6 DEF Switch, OthersTyped, Typed, TypeOK
<1>7. CASE Walk
  <2>0. Tail(calls) \in Seq(QuietFrames)  BY <1>7, TailQuiet DEF Walk
  <2>1. ASSUME exhaust(Tail(calls)) /\ UNCHANGED <<attempts, chain>>
       PROVE  Settled /\ chain' \in [index: Nat \ {0}, preparing: BOOLEAN]
    <3>0. <<>> \in Seq(Nat)  OBVIOUS
    <3>1. /\ [between EXCEPT !.awaitingProvider = FALSE, !.held = <<>>] \in Betweens
          /\ [between EXCEPT !.awaitingProvider = FALSE, !.held = <<>>].held = <<>>
      BY <1>1, <3>0 DEF Betweens
    <3>2. Settled  BY <2>0, <2>1, <3>1, EndByFailureSettles DEF exhaust
    <3> QED  BY <1>4, <2>1, <3>2
  <2>2. ASSUME /\ chain' = [chain EXCEPT !.index = @ + 1]
               /\ \E acquired \in BOOLEAN :
                     attempts' = [attempts EXCEPT !.transcriber = acquired]
               /\ UNCHANGED <<phase, between, microphone, calls>>
       PROVE  Settled /\ chain' \in [index: Nat \ {0}, preparing: BOOLEAN]
    <3>1. attempts' \in Attempts /\ attempts'.id >= attempts.id
      BY <1>1, <2>2 DEF Attempts
    <3>2. calls \in Seq(QuietFrames)
      BY <1>7, QuietHead DEF Walk, Running, ProviderCalls
    <3>3. Settled  BY <1>1, <2>2, <3>1, <3>2, QuietSettles
    <3> QED  BY <1>4, <2>2, <3>3
  <2>3. ASSUME /\ chain' = [chain EXCEPT !.preparing = TRUE]
               /\ attempts' = [attempts EXCEPT !.transcriber = TRUE]
               /\ Return
               /\ UNCHANGED <<phase, between, microphone>>
       PROVE  Settled /\ chain' \in [index: Nat \ {0}, preparing: BOOLEAN]
    <3>1. attempts' \in Attempts /\ attempts'.id >= attempts.id
      BY <1>1, <2>3 DEF Attempts
    <3>2. Settled  BY <1>1, <2>0, <2>3, <3>1, QuietSettles DEF Return
    <3> QED  BY <1>4, <2>3, <3>2
  <2>4. ASSUME takeReadyProvider(Tail(calls)) /\ UNCHANGED chain
       PROVE  Settled /\ chain' \in [index: Nat \ {0}, preparing: BOOLEAN]
    BY <1>4, <2>0, <2>4, TakeReadyProviderSettles
  <2>5. Settled /\ chain' \in [index: Nat \ {0}, preparing: BOOLEAN]
    BY <1>4, <1>7, <2>1, <2>2, <2>3, <2>4 DEF Walk
  <2> QED  BY <1>7, <2>5 DEF Walk, OthersTyped, Typed, TypeOK
<1>8. CASE finishPreparation
  <2>1. ASSUME /\ chain' = [chain EXCEPT !.preparing = FALSE]
               /\ takeReadyProvider(<<>>)
       PROVE  Settled /\ chain' \in [index: Nat \ {0}, preparing: BOOLEAN]
    BY <1>0, <1>1, <1>4, <2>1, TakeReadyProviderSettles
  <2>2. ASSUME /\ chain' = [index |-> chain.index + 1, preparing |-> FALSE]
               /\ calls' = <<Call("walk")>>
               /\ UNCHANGED <<phase, between, microphone, attempts>>
       PROVE  Settled /\ chain' \in [index: Nat \ {0}, preparing: BOOLEAN]
    <3>1. Call("walk") \in QuietFrames  BY <1>2 DEF Labels, ProviderCalls
    <3>2. Settled  BY <1>0, <1>1, <2>2, <3>1, QuietSettles
    <3> QED  BY <1>4, <2>2, <3>2
  <2>3. Settled /\ chain' \in [index: Nat \ {0}, preparing: BOOLEAN]
    BY <1>8, <2>1, <2>2 DEF finishPreparation
  <2> QED  BY <1>8, <2>3 DEF finishPreparation, OthersTyped, Typed, TypeOK
<1>9. CASE ProceedListening
  <2>0. Tail(calls) \in Seq(QuietFrames)  BY <1>9, TailQuiet DEF ProceedListening
  <2> DEFINE rest == (IF between.held = <<>> THEN <<Call("markEmpty")>> ELSE <<>>)
                     \o Tail(calls)
  <2>1. rest \in Seq(QuietFrames)
    <3>1. Call("markEmpty") \in QuietFrames  BY <1>2 DEF Labels, ProviderCalls
    <3> QED  BY <1>1, <2>0, <3>1
  <2>2. ASSUME resumeAttempt(between, attempts, rest)
       PROVE  Settled
    <3> HIDE DEF rest
    <3> QED  BY <1>1, <1>9, <2>1, <2>2, ResumeAttemptSettles DEF ProceedListening
  <2>3. ASSUME Return /\ UNCHANGED <<between, attempts>>
       PROVE  Settled
    BY <1>1, <1>9, <2>3, ReturnSettles DEF ProceedListening
  <2>4. Settled  BY <1>9, <2>2, <2>3 DEF ProceedListening
  <2> QED  BY <1>9, <2>4 DEF ProceedListening, OthersTyped, Typed, TypeOK
<1>10. CASE finishStop
  <2>1. CASE UNCHANGED <<between, microphoneStopped, retiredAttempt, provider>> /\ Return
    <3>1. Settled  BY <1>1, <1>10, <2>1, ReturnSettles DEF finishStop
    <3> QED  BY <1>10, <2>1, <3>1 DEF finishStop, OthersTyped, Typed, TypeOK
  <2>2. CASE ~(phase # "Stopping" \/ microphoneStopped)
    <3> DEFINE frames == IF between.endedDuringStop THEN <<Call("end")>>
                         ELSE IF between.finishingPausedAttempt \/ between.awaitingProvider
                              THEN <<>>
                         ELSE IF noAttemptToFinish THEN <<Call("end")>>
                         ELSE IF attempts.transcriber THEN endInput ELSE <<>>
    <3>1. frames \in Seq(QuietFrames)
      BY <1>1, <1>2, <1>3 DEF Labels, ProviderCalls
    <3>2. /\ between' \in Betweens /\ between'.held = between.held
          /\ between'.inputEnded = between.inputEnded
      BY <1>1, <1>10, <2>2 DEF finishStop, Betweens
    <3>3. GoOn(frames)  BY <1>10, <2>2 DEF finishStop
    <3>4. Settled
      <4> HIDE DEF frames
      <4> QED  BY <1>1, <1>10, <3>1, <3>2, <3>3, GoOnSettles DEF finishStop
    <3>5. /\ provider' \in [open: SUBSET Nat, told: SUBSET Nat]
          /\ retiredAttempt' \in Nat /\ microphoneStopped' \in BOOLEAN
      BY <1>1, <1>4, <1>10, <2>2 DEF finishStop, WithoutRetired
    <3> QED  BY <1>10, <3>4, <3>5 DEF finishStop, OthersTyped, Typed, TypeOK
  <2> QED  BY <1>10, <2>1, <2>2 DEF finishStop
<1> QED  BY <1>5, <1>6, <1>7, <1>8, <1>9, <1>10

\* A command may come when the loop is free or a handler runs: the calls below
\* are all quiet, and stay so once they are overtaken.
LEMMA MayCallQuiet ==
    ASSUME Typed, MayCall
    PROVE  calls \in Seq(QuietFrames) /\ Overtaken(calls) \in Seq(QuietFrames)
<1>1. CASE Free
  <2>1. calls \in Seq(QuietFrames)  BY <1>1 DEF Free
  <2> QED  BY <2>1, OvertakenQuiet
<1>2. CASE Handling
  BY <1>2, QuietHead, OvertakenQuiet DEF Handling, ProviderCalls
<1> QED  BY <1>1, <1>2 DEF MayCall

\* An announcement of the session's state pushes the command's rest and its
\* handlers: quiet frames, over calls it overtakes.
LEMMA AnnounceQuiet ==
    ASSUME Typed, MayCall, NEW frames \in Seq(QuietFrames), Announce(frames)
    PROVE  calls' \in Seq(QuietFrames)
<1>1. <<Call("handlers")>> \in Seq(QuietFrames)
  BY Frame DEF Labels, ProviderCalls
<1>2. Overtaken(calls) \in Seq(QuietFrames)  BY MayCallQuiet
<1> QED  BY <1>1, <1>2 DEF Announce

\* stop() may let the empty attempt go, and so move on its id; it keeps what
\* is held and whether the input ended.
LEMMA StopSpeechSettles ==
    ASSUME Typed, MayCall, NEW b \in Betweens, b.held = between.held,
           b.inputEnded = between.inputEnded, phase # "Idle",
           StopSpeech(b), microphone' \in BOOLEAN, UNCHANGED heardVars
    PROVE  Settled /\ OthersTyped
<1> DEFINE letGo == phase = "Listening" /\ emptyResumedAttempt = attempts.id
<1>1. /\ attempts \in Attempts /\ attempts.id \in Nat /\ attempts.id + 1 \in Nat
      /\ phase' \in Phases /\ retiredAttempt \in Nat /\ emptyResumedAttempt \in Nat
  BY DEF Typed, TypeOK, Attempts, StopSpeech, Phases
<1>2. attempts' \in Attempts /\ attempts'.id >= attempts.id
  BY <1>1 DEF StopSpeech, Attempts
<1>3. /\ between' \in Betweens
      /\ between'.held = between.held /\ between'.inputEnded = between.inputEnded
  BY DEF StopSpeech, Betweens
<1>4. calls' \in Seq(QuietFrames)
  <2>1. <<Call("proceed")>> \in Seq(QuietFrames) /\ <<Call("stopMicrophone")>> \in Seq(QuietFrames)
    BY Frame DEF Labels, ProviderCalls
  <2> QED  BY <2>1, AnnounceQuiet DEF StopSpeech
<1>5. Settled  BY <1>1, <1>2, <1>3, <1>4, QuietSettles
<1> QED
  BY <1>1, <1>5
  DEF StopSpeech, OthersTyped, Typed, TypeOK, flagVars, heardVars

\* cancel() lets go of everything held and of the attempt.
LEMMA CancelledSettles ==
    ASSUME Typed, NEW stack \in Seq(QuietFrames), Cancelled(stack)
    PROVE  Settled /\ OthersTyped
<1>1. /\ attempts \in Attempts /\ attempts.id \in Nat /\ attempts.id + 1 \in Nat
      /\ chain \in [index: Nat \ {0}, preparing: BOOLEAN]
      /\ provider \in [open: SUBSET Nat, told: SUBSET Nat]
  BY DEF Typed, TypeOK, Attempts
<1>2. attempts' \in Attempts /\ attempts'.id >= attempts.id
  BY <1>1 DEF Cancelled, Attempts
<1>3. NoBetween \in Betweens /\ NoBetween.held = <<>>
  <2>1. <<>> \in Seq(Nat)  OBVIOUS
  <2> QED  BY <2>1 DEF NoBetween, Betweens
<1>4. Overtaken(stack) \in Seq(QuietFrames)  BY OvertakenQuiet
<1>5. Settled
  BY <1>2, <1>3, <1>4, QuietSettles DEF Cancelled, Phases
<1>6. chain' \in [index: Nat \ {0}, preparing: BOOLEAN]
  BY <1>1 DEF Cancelled
<1>7. provider' \in [open: SUBSET Nat, told: SUBSET Nat]
  BY <1>1 DEF Cancelled
<1> QED  BY <1>5, <1>6, <1>7 DEF Cancelled, OthersTyped, Typed, TypeOK, heardVars

\* Each of the session's commands and the microphone's answers settles.
LEMMA SessionSettles ==
    ASSUME Typed,
           \/ Start \/ listen \/ pause \/ resume \/ stop \/ MicrophoneFailed
           \/ MicrophoneStopped \/ cancel \/ SessionEnds \/ TextArrives
    PROVE  Settled /\ OthersTyped
<1> USE DEF speechVars, flagVars, resumeVars, providerVars, heardVars
<1>1. /\ microphone \in BOOLEAN /\ between \in Betweens /\ attempts.id \in Nat
      /\ attempts \in Attempts /\ attempts.id >= attempts.id /\ phase \in Phases
  BY DEF Typed, TypeOK, Attempts
<1>2. \A label \in Labels \ ProviderCalls :
         Call(label) \in QuietFrames /\ <<Call(label)>> \in Seq(QuietFrames)
  BY Frame
<1>3. <<>> \in Seq(QuietFrames)  OBVIOUS
<1>4. CASE Start
  <2>1. attempts' \in Attempts /\ attempts'.id >= attempts.id
    BY <1>1, <1>4 DEF Start, Attempts
  <2>2. <<Call("walk")>> \in Seq(QuietFrames)  BY <1>2 DEF Labels, ProviderCalls
  <2>3. Settled  BY <1>1, <1>4, <2>1, <2>2, QuietSettles DEF Start
  <2> QED  BY <1>4, <2>3 DEF Start, OthersTyped, Typed, TypeOK
<1>5. CASE listen
  <2>1. Settled
    BY <1>1, <1>3, <1>5, QuietSettles DEF listen, Free, Phases
  <2> QED  BY <1>5, <2>1 DEF listen, OthersTyped, Typed, TypeOK
<1>6. CASE pause
  <2>1. <<Call("proceed")>> \in Seq(QuietFrames)  BY <1>2 DEF Labels, ProviderCalls
  <2>2. calls' \in Seq(QuietFrames)
    BY <1>6, <2>1, AnnounceQuiet DEF pause, MayCall
  <2>3. /\ between' \in Betweens /\ between'.held = between.held
        /\ between'.inputEnded = between.inputEnded
    BY <1>1, <1>6 DEF pause, Betweens
  <2>4. Settled
    BY <1>1, <1>6, <2>2, <2>3, QuietSettles DEF pause, Phases
  <2> QED  BY <1>6, <2>4 DEF pause, OthersTyped, Typed, TypeOK
<1>7. CASE resume
  <2>1. <<Call("proceed"), Call("startMicrophone")>> \in Seq(QuietFrames)
    BY <1>2 DEF Labels, ProviderCalls
  <2>2. calls' \in Seq(QuietFrames)
    BY <1>7, <2>1, AnnounceQuiet DEF resume
  <2>3. Settled  BY <1>1, <1>7, <2>2, QuietSettles DEF resume, Phases
  <2>4. openOwed' \in BOOLEAN  BY <1>7 DEF resume
  <2> QED  BY <1>7, <2>3, <2>4 DEF resume, OthersTyped, Typed, TypeOK
<1>8. CASE stop
  BY <1>1, <1>8, StopSpeechSettles DEF stop
<1>9. CASE MicrophoneFailed
  BY <1>1, <1>9, StopSpeechSettles DEF MicrophoneFailed, MayCall
<1>10. CASE MicrophoneStopped
  <2>1. <<Call("proceed")>> \in Seq(QuietFrames)  BY <1>2 DEF Labels, ProviderCalls
  <2>2. Settled
    BY <1>1, <1>10, <2>1, QuietSettles DEF MicrophoneStopped
  <2> QED  BY <1>10, <2>2 DEF MicrophoneStopped, OthersTyped, Typed, TypeOK
<1>11. CASE cancel
  BY <1>11, MayCallQuiet, CancelledSettles DEF cancel
<1>12. CASE SessionEnds
  <2>1. Tail(calls) \in Seq(QuietFrames)  BY <1>12, TailQuiet DEF SessionEnds
  <2>2. CASE Cancelled(Tail(calls))
    BY <2>1, <2>2, CancelledSettles
  <2>3. CASE /\ Return
             /\ UNCHANGED <<speechVars, flagVars, resumeVars, providerVars, microphone,
                            heardVars>>
    <3>1. Settled  BY <1>1, <1>12, <2>3, ReturnSettles DEF SessionEnds
    <3> QED  BY <2>3, <3>1 DEF OthersTyped, Typed, TypeOK
  <2> QED  BY <1>12, <2>2, <2>3 DEF SessionEnds
<1>13. CASE TextArrives
  <2>1. Settled
    BY <1>1, <1>3, <1>13, QuietSettles DEF TextArrives, Free
  <2> QED  BY <1>13, <2>1 DEF TextArrives, OthersTyped, Typed, TypeOK
<1> QED
  BY <1>4, <1>5, <1>6, <1>7, <1>8, <1>9, <1>10, <1>11, <1>12, <1>13

-----------------------------------------------------------------------------
(* Calls to the provider, and an attempt that ends by itself.                *)

\* A call to a provider returns, with whatever the provider did in it.
LEMMA ProviderCalledSettles ==
    ASSUME Typed, NEW label \in ProviderCalls, NEW took \in SUBSET Nat, NEW told \in SUBSET Nat,
           ProviderCalled(label, took, told),
           audio' \in [heard: Nat, given: Nat], UNCHANGED partial
    PROVE  /\ Settled /\ OthersTyped
           /\ provider'.told = provider.told \cup told
<1>1. /\ microphone \in BOOLEAN /\ between \in Betweens
      /\ provider.open \in SUBSET Nat /\ provider.told \in SUBSET Nat
  BY DEF Typed, TypeOK
<1>2. Tail(calls) \in Seq(QuietFrames)  BY TailQuiet DEF ProviderCalled
<1>3. /\ provider' \in [open: SUBSET Nat, told: SUBSET Nat]
      /\ provider'.told = provider.told \cup told
  <2>1. PICK open \in SUBSET Nat :
           provider' = [open |-> open, told |-> provider.told \cup told]
    BY <1>1, Zenon DEF ProviderCalled
  <2> QED  BY <1>1, <2>1
<1>4. ASSUME Return, UNCHANGED <<phase, between, attempts, microphone>>
      PROVE  Settled
  BY <1>1, <1>4, ReturnSettles DEF ProviderCalled
<1>5. ASSUME Failing(Tail(calls))
      PROVE  Settled
  BY <1>2, <1>5, HandleFailureSettles DEF Failing
<1>6. ASSUME Completing(Tail(calls))
      PROVE  Settled
  BY <1>2, <1>6, HandleCompletedSettles DEF Completing
<1>7. Settled  BY <1>4, <1>5, <1>6 DEF ProviderCalled
<1> QED
  BY <1>3, <1>7
  DEF ProviderCalled, OthersTyped, Typed, TypeOK, flagVars, resumeVars

\* An attempt that ends by itself is taken as one that ends inside a call.
LEMMA ProviderEndsSettles ==
    ASSUME Typed, ProviderEnds
    PROVE  /\ Settled /\ OthersTyped
           /\ UNCHANGED audio /\ provider'.told = provider.told
<1>1. PICK a \in provider.open : AttemptEnds(a)  BY DEF ProviderEnds
<1>2. /\ microphone \in BOOLEAN /\ between \in Betweens
      /\ provider \in [open: SUBSET Nat, told: SUBSET Nat]
      /\ attempts \in Attempts /\ attempts.id >= attempts.id /\ phase \in Phases
      /\ <<>> \in Seq(QuietFrames)
  <2>1. attempts \in Attempts  BY DEF Typed, TypeOK
  <2>2. attempts.id >= attempts.id  BY <2>1 DEF Attempts
  <2> QED  BY <2>1, <2>2 DEF Typed, TypeOK
<1>3. ASSUME Failing(<<>>)  PROVE  Settled
  BY <1>2, <1>3, HandleFailureSettles DEF Failing
<1>4. ASSUME Completing(<<>>)  PROVE  Settled
  BY <1>2, <1>4, HandleCompletedSettles DEF Completing
<1>5. ASSUME UNCHANGED <<phase, between, attempts, calls, microphone>>  PROVE  Settled
  BY <1>1, <1>2, <1>5, QuietSettles DEF AttemptEnds, Free
<1>6. Settled  BY <1>1, <1>3, <1>4, <1>5 DEF AttemptEnds
<1>7. /\ provider' \in [open: SUBSET Nat, told: SUBSET Nat]
      /\ provider'.told = provider.told
  BY <1>1, <1>2 DEF AttemptEnds
<1> QED
  BY <1>1, <1>6, <1>7
  DEF AttemptEnds, OthersTyped, Typed, TypeOK, flagVars, resumeVars, heardVars

-----------------------------------------------------------------------------
(* The inductive invariant.  HeldAudioInOrder is inductive with the types;   *)
(* NothingAfterInputEnded needs to know that inputEnded is set before the    *)
(* provider is told, and that no attempt id is used twice.                   *)

ToldIsPast == \A a \in provider.told : a <= attempts.id

EndedIsKnown ==
    InSession =>
        /\ attempts.id \in provider.told => between.inputEnded
        /\ Running("sendAudio") => ~between.inputEnded
        /\ Running("finishInput") => between.inputEnded /\ attempts.id \notin provider.told

Inv == Typed /\ ToldIsPast /\ EndedIsKnown /\ HeldAudioInOrder

\* The fresh speech side has held nothing and told no attempt.
LEMMA InvInit == Init => Inv
<1> SUFFICES ASSUME Init PROVE Inv  OBVIOUS
<1>1. <<>> \in Seq(Nat) /\ <<>> \in Seq(Frames)  OBVIOUS
<1>2. between \in Betweens  BY <1>1 DEF Init, NoBetween, Betweens
<1>3. attempts \in Attempts  BY DEF Init, Attempts
<1>4. /\ chain \in [index: Nat \ {0}, preparing: BOOLEAN]
      /\ provider \in [open: SUBSET Nat, told: SUBSET Nat]
      /\ audio \in [heard: Nat, given: Nat]
  BY DEF Init
<1>5. Typed
  BY <1>1, <1>2, <1>3, <1>4 DEF Init, Typed, TypeOK, QuietBelow, Phases
<1>6. ToldIsPast /\ EndedIsKnown  BY DEF Init, ToldIsPast, EndedIsKnown, InSession
<1>7. HeldAudioInOrder  BY DEF Init, HeldAudioInOrder, InSession
<1> QED  BY <1>5, <1>6, <1>7 DEF Inv

\* A settled step that takes no audio and tells no attempt keeps the invariant.
LEMMA SettledKeeps ==
    ASSUME Inv, Settled, OthersTyped, ~Running("sendAudio"),
           UNCHANGED audio, provider'.told = provider.told
    PROVE  Inv'
<1>1. Typed'  BY TypedStep DEF Inv
<1>2. ~Running("sendAudio")' /\ ~Running("finishInput")'
  BY DEF Settled, Running
<1>3. attempts.id \in Nat /\ attempts'.id \in Nat /\ provider.told \in SUBSET Nat
      /\ attempts'.id >= attempts.id
  BY DEF Inv, Typed, TypeOK, Attempts, Settled
<1>4. ToldIsPast'  BY <1>3 DEF Inv, ToldIsPast
<1>5. EndedIsKnown'
  BY <1>2, <1>3 DEF Inv, EndedIsKnown, InSession, Settled, ToldIsPast
<1>6. HeldAudioInOrder'
  <2>1. between.held \in Seq(Nat)  BY DEF Inv, Typed, TypeOK, Betweens
  <2>2. InSession' => Waiting' = Waiting
    BY <1>2, <2>1 DEF Waiting, InSession, Settled
  <2> QED  BY <2>2 DEF Inv, HeldAudioInOrder, InSession, Settled
<1> QED  BY <1>1, <1>4, <1>5, <1>6 DEF Inv

\* The settled steps hand over no audio and tell no attempt that its input ended.
Settling ==
    \/ CommitPartial \/ RetireAttempt \/ FinishPaused \/ OpenedFirst
    \/ ReadyToListen \/ MarkEmpty \/ EndHeld \/ proceed \/ StartMicrophone
    \/ StopMicrophone \/ HandlersReturn \/ ReturnOvertaken
    \/ End \/ Switch \/ Walk \/ finishPreparation \/ ProceedListening \/ finishStop
    \/ Start \/ listen \/ pause \/ resume \/ stop \/ MicrophoneFailed
    \/ MicrophoneStopped \/ cancel \/ SessionEnds \/ TextArrives

\* No settling step takes audio, hands any over or tells an attempt its end.
LEMMA SettlingTellsNothing ==
    ASSUME Typed, Settling
    PROVE  /\ ~Running("sendAudio")
           /\ UNCHANGED audio /\ provider'.told = provider.told
<1> USE DEF speechVars, flagVars, resumeVars, providerVars, heardVars, Running, Free,
            Handling, MayCall
<1>1. provider \in [open: SUBSET Nat, told: SUBSET Nat]  BY DEF Typed, TypeOK
<1>2. ASSUME \/ CommitPartial \/ RetireAttempt \/ FinishPaused \/ OpenedFirst
             \/ ReadyToListen \/ MarkEmpty \/ EndHeld \/ proceed \/ StartMicrophone
             \/ StopMicrophone \/ HandlersReturn \/ ReturnOvertaken
      PROVE  ~Running("sendAudio") /\ UNCHANGED <<audio, provider>>
  BY <1>2
  DEF CommitPartial, RetireAttempt, FinishPaused, OpenedFirst, ReadyToListen, MarkEmpty,
      EndHeld, proceed, StartMicrophone, StopMicrophone, HandlersReturn, ReturnOvertaken
<1>3. ASSUME End \/ Walk \/ finishPreparation \/ ProceedListening
      PROVE  ~Running("sendAudio") /\ UNCHANGED <<audio, provider>>
  BY <1>3 DEF End, Walk, finishPreparation, ProceedListening
<1>4. CASE Switch
  BY <1>1, <1>4 DEF Switch
<1>5. CASE finishStop
  BY <1>1, <1>5 DEF finishStop, WithoutRetired
<1>6. ASSUME \/ Start \/ listen \/ pause \/ resume \/ MicrophoneStopped \/ TextArrives
      PROVE  ~Running("sendAudio") /\ UNCHANGED <<audio, provider>>
  BY <1>6 DEF Start, listen, pause, resume, MicrophoneStopped, TextArrives
<1>7. ASSUME stop \/ MicrophoneFailed
      PROVE  ~Running("sendAudio") /\ UNCHANGED <<audio, provider>>
  BY <1>7 DEF stop, MicrophoneFailed, StopSpeech
<1>8. ASSUME NEW stack, Cancelled(stack)
      PROVE  UNCHANGED audio /\ provider'.told = provider.told
  BY <1>1, <1>8 DEF Cancelled
<1>9. CASE cancel
  BY <1>8, <1>9 DEF cancel
<1>10. CASE SessionEnds
  BY <1>8, <1>10 DEF SessionEnds
<1> QED
  BY <1>2, <1>3, <1>4, <1>5, <1>6, <1>7, <1>9, <1>10 DEF Settling

\* Every settling step keeps the invariant.
LEMMA SettlingKeeps ==
    ASSUME Inv, Settling
    PROVE  Inv'
<1>1. Typed  BY DEF Inv
<1>2. Settled /\ OthersTyped
  BY <1>1, QuietCodeSettles, SpeechCodeSettles, SessionSettles, Zenon DEF Settling
<1>3. /\ ~Running("sendAudio")
      /\ UNCHANGED audio /\ provider'.told = provider.told
  BY <1>1, SettlingTellsNothing
<1> QED  BY <1>2, <1>3, SettledKeeps

-----------------------------------------------------------------------------
(* The steps that touch audio or the end of an attempt's input.              *)

\* An attempt is started, or ends by itself: nothing is told.
LEMMA AttemptKeeps ==
    ASSUME Inv, StartAttempt \/ ProviderEnds
    PROVE  Inv'
<1>1. Typed  BY DEF Inv
<1>2. CASE StartAttempt
  <2>1. attempts.id \in Nat  BY <1>1 DEF Typed, TypeOK, Attempts
  <2>2. /\ {attempts.id} \in SUBSET Nat /\ {} \in SUBSET Nat
        /\ "startAttempt" \in ProviderCalls
    BY <2>1 DEF ProviderCalls
  <2>3. /\ audio' \in [heard: Nat, given: Nat] /\ UNCHANGED <<audio, partial>>
        /\ ProviderCalled("startAttempt", {attempts.id}, {})
    BY <1>1, <1>2 DEF StartAttempt, heardVars, Typed, TypeOK
  <2>4. Settled /\ OthersTyped /\ provider'.told = provider.told \cup {}
    BY <1>1, <2>2, <2>3, ProviderCalledSettles
  <2>5. ~Running("sendAudio")  BY <2>3 DEF ProviderCalled, Running
  <2> QED  BY <2>3, <2>4, <2>5, SettledKeeps
<1>3. CASE ProviderEnds
  <2>1. /\ Settled /\ OthersTyped
        /\ UNCHANGED audio /\ provider'.told = provider.told
    BY <1>1, <1>3, ProviderEndsSettles
  <2>2. ~Running("sendAudio")
    BY <1>3 DEF ProviderEnds, AttemptEnds, Free, Running
  <2> QED  BY <2>1, <2>2, SettledKeeps
<1> QED  BY <1>2, <1>3

\* The running audio is the next after what was given; what is held follows it.
LEMMA SendAudioKeeps ==
    ASSUME Inv, SendAudio
    PROVE  Inv'
<1>1. /\ Typed /\ ProviderCalled("sendAudio", {}, {}) /\ UNCHANGED partial
      /\ Running("sendAudio") /\ audio' = [audio EXCEPT !.given = Head(calls).arg]
  BY DEF Inv, SendAudio, ProviderCalled
<1>2. /\ Head(calls).arg \in Nat /\ audio \in [heard: Nat, given: Nat]
      /\ between.held \in Seq(Nat)
      /\ attempts.id \in Nat /\ provider.told \in SUBSET Nat
  <2>1. Head(calls) \in Frames  BY <1>1 DEF Typed, TypeOK, Running
  <2> QED  BY <1>1, <2>1 DEF Typed, TypeOK, Betweens, Attempts, Frames
<1>3. /\ audio' \in [heard: Nat, given: Nat]
      /\ audio'.heard = audio.heard /\ audio'.given = Head(calls).arg
  BY <1>1, <1>2
<1>4. Settled /\ OthersTyped /\ provider'.told = provider.told
  <2>1. {} \in SUBSET Nat /\ "sendAudio" \in ProviderCalls  BY DEF ProviderCalls
  <2>2. Settled /\ OthersTyped /\ provider'.told = provider.told \cup {}
    BY <1>1, <1>3, <2>1, ProviderCalledSettles
  <2> QED  BY <2>2
<1>5. Typed'  BY <1>1, <1>4, TypedStep
<1>6. ~Running("sendAudio")' /\ ~Running("finishInput")'
  BY <1>4 DEF Settled, Running
<1>7. attempts'.id \in Nat /\ attempts'.id >= attempts.id
  BY <1>4 DEF Settled, Attempts
<1>8. ToldIsPast'  BY <1>2, <1>4, <1>7 DEF Inv, ToldIsPast
<1>9. EndedIsKnown'
  BY <1>2, <1>4, <1>6, <1>7 DEF Inv, EndedIsKnown, InSession, Settled, ToldIsPast
<1>10. HeldAudioInOrder'
  <2> SUFFICES ASSUME InSession'
               PROVE  /\ audio'.heard = audio'.given + Len(Waiting')
                      /\ \A i \in 1..Len(Waiting') : Waiting'[i] = audio'.given + i
    BY DEF HeldAudioInOrder
  <2>1. InSession /\ between'.held = between.held
    BY <1>4 DEF InSession, Settled
  <2>2. Waiting' = between.held  BY <1>2, <1>6, <2>1 DEF Waiting
  <2>3. Waiting = <<Head(calls).arg>> \o between.held  BY <1>1 DEF Waiting
  <2>4. /\ audio.heard = audio.given + Len(Waiting)
        /\ \A i \in 1..Len(Waiting) : Waiting[i] = audio.given + i
    BY <2>1 DEF Inv, HeldAudioInOrder
  <2>5. Len(Waiting) = Len(between.held) + 1 /\ Waiting[1] = Head(calls).arg
    BY <1>2, <2>3
  <2>6. Head(calls).arg = audio.given + 1  BY <1>2, <2>4, <2>5
  <2>7. \A i \in 1..Len(between.held) : between.held[i] = audio.given + 1 + i
    <3> TAKE i \in 1..Len(between.held)
    <3>1. i + 1 \in 1..Len(Waiting) /\ Waiting[i + 1] = between.held[i]
      BY <1>2, <2>3, <2>5
    <3>2. Waiting[i + 1] = audio.given + (i + 1)  BY <2>4, <3>1
    <3> QED  BY <1>2, <3>1, <3>2
  <2>8. audio'.given = audio.given + 1 /\ audio'.given \in Nat  BY <1>2, <1>3, <2>6
  <2>9. audio'.heard = audio'.given + Len(Waiting')
    <3>1. Len(between.held) \in Nat /\ audio.given \in Nat /\ audio.heard \in Nat
      BY <1>2
    <3>2. audio.heard = audio.given + (Len(between.held) + 1)  BY <2>4, <2>5
    <3> QED  BY <1>3, <2>2, <2>8, <3>1, <3>2
  <2> QED  BY <2>2, <2>7, <2>8, <2>9
<1> QED  BY <1>5, <1>8, <1>9, <1>10 DEF Inv

\* The running end of input tells the current attempt, whose inputEnded is set.
LEMMA FinishInputKeeps ==
    ASSUME Inv, FinishInput
    PROVE  Inv'
<1>1. /\ Typed /\ ProviderCalled("finishInput", {}, {attempts.id})
      /\ Running("finishInput") /\ UNCHANGED <<audio, partial>>
  BY DEF Inv, FinishInput, ProviderCalled, heardVars
<1>2. /\ audio \in [heard: Nat, given: Nat] /\ between.held \in Seq(Nat)
      /\ attempts.id \in Nat /\ provider.told \in SUBSET Nat
  BY <1>1 DEF Typed, TypeOK, Betweens, Attempts
<1>3. Settled /\ OthersTyped /\ provider'.told = provider.told \cup {attempts.id}
  <2>1. {attempts.id} \in SUBSET Nat /\ {} \in SUBSET Nat /\ "finishInput" \in ProviderCalls
    BY <1>2 DEF ProviderCalls
  <2> QED  BY <1>1, <1>2, <2>1, ProviderCalledSettles
<1>4. Typed'  BY <1>1, <1>3, TypedStep
<1>5. ~Running("sendAudio")' /\ ~Running("finishInput")' /\ ~Running("sendAudio")
  BY <1>1, <1>3 DEF Settled, Running
<1>6. attempts'.id \in Nat /\ attempts'.id >= attempts.id
  BY <1>3 DEF Settled, Attempts
<1>7. ToldIsPast'  BY <1>2, <1>3, <1>6 DEF Inv, ToldIsPast
<1>8. EndedIsKnown'
  BY <1>1, <1>2, <1>3, <1>5, <1>6
  DEF Inv, EndedIsKnown, InSession, Settled, ToldIsPast
<1>9. HeldAudioInOrder'
  <2>1. InSession' => Waiting' = Waiting
    BY <1>2, <1>3, <1>5 DEF Waiting, InSession, Settled
  <2> QED  BY <1>1, <1>3, <2>1 DEF Inv, HeldAudioInOrder, InSession, Settled
<1> QED  BY <1>4, <1>7, <1>8, <1>9 DEF Inv

\* sendHeldAudio() moves the first held chunk to the running call, EndInput
\* sets inputEnded before it pushes finishInput().
LEMMA HeldCodeKeeps ==
    ASSUME Inv, sendHeldAudio \/ EndInput
    PROVE  Inv'
<1> USE DEF speechVars, flagVars, resumeVars, providerVars, heardVars
<1>1. /\ Typed /\ between \in Betweens /\ between.held \in Seq(Nat)
      /\ microphone \in BOOLEAN /\ attempts.id \in Nat /\ provider.told \in SUBSET Nat
      /\ calls # <<>> /\ Head(calls).at \in {"sendHeldAudio", "endInput"}
      /\ ~Running("sendAudio") /\ ~Running("finishInput")
  BY DEF Inv, Typed, TypeOK, Betweens, Attempts, sendHeldAudio, EndInput, Running
<1>2. calls \in Seq(QuietFrames) /\ Tail(calls) \in Seq(QuietFrames)
  BY <1>1, QuietHead DEF ProviderCalls
<1>3. UNCHANGED <<phase, settings, flagVars, resumeVars, providerVars, microphone, heardVars>>
  BY DEF sendHeldAudio, EndInput
<1>4. OthersTyped  BY <1>1, <1>3 DEF OthersTyped, Typed, TypeOK
<1>5. CASE Return /\ UNCHANGED between
  <2>1. Settled
    BY <1>1, <1>3, <1>5, ReturnSettles DEF sendHeldAudio, EndInput
  <2> QED  BY <1>1, <1>3, <1>4, <2>1, SettledKeeps
<1>6. CASE sendHeldAudio /\ ~between.awaitingProvider /\ ~between.inputEnded
           /\ between.held # <<>>
  <2> DEFINE frame == CallWith("sendAudio", Head(between.held))
  <2>1. /\ between' = [between EXCEPT !.held = Tail(@)]
        /\ calls' = <<frame>> \o calls
    BY <1>6 DEF sendHeldAudio
  <2>2. /\ between' \in Betweens /\ between'.held = Tail(between.held)
        /\ ~between'.inputEnded
    <3>1. Tail(between.held) \in Seq(Nat)  BY <1>1, <1>6
    <3> QED  BY <1>1, <1>6, <2>1, <3>1 DEF Betweens
  <2>3. Head(between.held) \in Nat  BY <1>1, <1>6
  <2>4. frame \in Frames /\ frame.at = "sendAudio" /\ frame.arg = Head(between.held)
    BY <2>3 DEF CallWith, Frames, Labels
  <2>5. /\ calls' \in Seq(Frames) /\ calls' # <<>>
        /\ Head(calls') = frame /\ Tail(calls') = calls
    <3> HIDE DEF frame
    <3> QED  BY <1>2, <2>1, <2>4, Push
  <2>6. Typed'
    BY <1>1, <1>2, <1>3, <2>2, <2>5 DEF Typed, TypeOK, QuietBelow
  <2>7. Running("sendAudio")' /\ ~Running("finishInput")'
    BY <2>4, <2>5 DEF Running
  <2>8. ToldIsPast' /\ EndedIsKnown'
    BY <1>1, <1>3, <1>6, <2>2, <2>7 DEF Inv, ToldIsPast, EndedIsKnown, InSession
  <2>9. Waiting' = Waiting
    <3>1. Waiting = between.held  BY <1>1 DEF Waiting
    <3>2. Waiting' = <<Head(between.held)>> \o Tail(between.held)
      BY <2>2, <2>4, <2>5, <2>7 DEF Waiting
    <3> QED  BY <1>1, <1>6, <3>1, <3>2
  <2>10. HeldAudioInOrder'
    BY <1>3, <2>9 DEF Inv, HeldAudioInOrder, InSession
  <2> QED  BY <2>6, <2>8, <2>10 DEF Inv
<1>7. CASE EndInput /\ ~between.awaitingProvider /\ ~between.inputEnded
  <2> DEFINE frame == Call("finishInput")
  <2>1. /\ between' = [between EXCEPT !.inputEnded = TRUE]
        /\ calls' = <<frame>> \o Tail(calls)
    BY <1>7 DEF EndInput, GoOn
  <2>2. between' \in Betweens /\ between'.held = between.held /\ between'.inputEnded
    BY <1>1, <2>1 DEF Betweens
  <2>4. frame \in Frames /\ frame.at = "finishInput"
    BY DEF Call, Frames, Labels
  <2>5. /\ calls' \in Seq(Frames) /\ calls' # <<>>
        /\ Head(calls') = frame /\ Tail(calls') = Tail(calls)
    <3> HIDE DEF frame
    <3> QED  BY <1>2, <2>1, <2>4, Push
  <2>6. Typed'
    BY <1>1, <1>2, <1>3, <2>2, <2>5 DEF Typed, TypeOK, QuietBelow
  <2>7. ~Running("sendAudio")' /\ Running("finishInput")'
    BY <2>4, <2>5 DEF Running
  <2>8. ToldIsPast' /\ EndedIsKnown'
    BY <1>1, <1>3, <1>7, <2>2, <2>7 DEF Inv, ToldIsPast, EndedIsKnown, InSession
  <2>9. Waiting' = Waiting
    BY <1>1, <2>2, <2>7 DEF Waiting
  <2>10. HeldAudioInOrder'
    BY <1>3, <2>9 DEF Inv, HeldAudioInOrder, InSession
  <2> QED  BY <2>6, <2>8, <2>10 DEF Inv
<1> QED  BY <1>5, <1>6, <1>7 DEF sendHeldAudio, EndInput

\* hear() while the loop is free: the chunk goes to the open attempt when none
\* is held, follows the held ones, or ends what the speech holds.
LEMMA HearKeeps ==
    ASSUME Inv, hear
    PROVE  Inv'
<1> USE DEF speechVars, flagVars, resumeVars, providerVars, heardVars
<1> DEFINE chunk == audio.heard + 1
           hold == [between EXCEPT !.held = Append(@, chunk)]
           given_up == [between EXCEPT !.awaitingProvider = FALSE, !.held = <<>>]
           past == [between EXCEPT !.heldPastTheBudget = TRUE]
<1>1. /\ Typed /\ between \in Betweens /\ between.held \in Seq(Nat)
      /\ microphone \in BOOLEAN /\ attempts \in Attempts /\ attempts.id \in Nat
      /\ attempts.id >= attempts.id /\ phase \in Phases
      /\ provider.told \in SUBSET Nat /\ audio \in [heard: Nat, given: Nat]
      /\ calls = <<>> /\ InSession /\ UNCHANGED partial
      /\ ~Running("sendAudio") /\ ~Running("finishInput")
      /\ <<>> \in Seq(QuietFrames)
  BY DEF Inv, Typed, TypeOK, Betweens, Attempts, hear, Running, Free, InSession
<1>2. chunk \in Nat /\ audio.heard \in Nat /\ audio.given \in Nat  BY <1>1
<1>3. Waiting = between.held  BY <1>1 DEF Waiting
<1>4. /\ audio.heard = audio.given + Len(between.held)
      /\ \A i \in 1..Len(between.held) : between.held[i] = audio.given + i
  BY <1>1, <1>3 DEF Inv, HeldAudioInOrder
<1>5. ASSUME ~holdsAudio, attempts.transcriber,
             emptyResumedAttempt' = 0, calls' = <<CallWith("sendAudio", chunk)>> \o calls,
             audio' = [audio EXCEPT !.heard = chunk],
             UNCHANGED <<phase, settings, between, flagVars, retiredAttempt, providerVars,
                         microphone>>
      PROVE  Inv'
  <2> DEFINE frame == CallWith("sendAudio", chunk)
  <2>1. frame \in Frames /\ frame.at = "sendAudio" /\ frame.arg = chunk
    BY <1>2 DEF CallWith, Frames, Labels
  <2>2. /\ calls' \in Seq(Frames) /\ calls' # <<>>
        /\ Head(calls') = frame /\ Tail(calls') = <<>>
    <3>1. calls' = <<frame>> \o <<>>  BY <1>1, <1>5
    <3> HIDE DEF frame
    <3> QED  BY <1>1, <2>1, <3>1, Push
  <2>3. audio' \in [heard: Nat, given: Nat]
        /\ audio'.heard = chunk /\ audio'.given = audio.given
    BY <1>1, <1>2, <1>5
  <2>4. Typed'
    <3> HIDE DEF frame, chunk
    <3> QED  BY <1>1, <1>5, <2>2, <2>3 DEF Typed, TypeOK, QuietBelow
  <2>5. Running("sendAudio")' /\ ~Running("finishInput")'
    BY <2>1, <2>2 DEF Running
  <2>6. ToldIsPast' /\ EndedIsKnown'
    BY <1>1, <1>5, <2>5 DEF Inv, ToldIsPast, EndedIsKnown, InSession, holdsAudio
  <2>7. between.held = <<>> /\ between'.held = <<>>  BY <1>5 DEF holdsAudio
  <2>8. Waiting' = <<chunk>>
    BY <2>1, <2>2, <2>5, <2>7 DEF Waiting
  <2>9. HeldAudioInOrder'
    <3>1. audio.heard = audio.given  BY <1>2, <1>4, <2>7
    <3> QED  BY <1>2, <2>3, <2>8, <3>1 DEF HeldAudioInOrder
  <2> QED  BY <2>4, <2>6, <2>9 DEF Inv
<1>6. ASSUME between' = hold, audio' = [audio EXCEPT !.heard = chunk],
             UNCHANGED <<phase, settings, flagVars, resumeVars, providerVars, microphone,
                         calls>>
      PROVE  Inv'
  <2>1. /\ between' \in Betweens /\ between'.held = Append(between.held, chunk)
        /\ between'.inputEnded = between.inputEnded
    <3>1. Append(between.held, chunk) \in Seq(Nat)  BY <1>1, <1>2
    <3> QED  BY <1>1, <1>6, <3>1 DEF Betweens
  <2>2. audio' \in [heard: Nat, given: Nat]
        /\ audio'.heard = chunk /\ audio'.given = audio.given
    BY <1>1, <1>2, <1>6
  <2>3. Typed'
    BY <1>1, <1>6, <2>1, <2>2 DEF Typed, TypeOK, QuietBelow
  <2>4. ~Running("sendAudio")' /\ ~Running("finishInput")'
    BY <1>1, <1>6 DEF Running
  <2>5. ToldIsPast' /\ EndedIsKnown'
    BY <1>1, <1>6, <2>1, <2>4 DEF Inv, ToldIsPast, EndedIsKnown, InSession
  <2>6. Waiting' = Append(between.held, chunk)
    BY <1>1, <1>2, <2>1, <2>4 DEF Waiting
  <2>7. Len(Waiting') = Len(between.held) + 1 /\ Len(between.held) \in Nat
    BY <1>1, <1>2, <2>6
  <2>8. ASSUME NEW i \in 1..Len(Waiting')
        PROVE  Waiting'[i] = audio'.given + i
    <3>1. CASE i \in 1..Len(between.held)
      BY <1>1, <1>2, <1>4, <2>2, <2>6, <3>1
    <3>2. CASE i = Len(between.held) + 1
      <4>1. Waiting'[i] = chunk  BY <1>1, <1>2, <2>6, <3>2
      <4> QED  BY <1>2, <1>4, <2>2, <2>7, <3>2, <4>1
    <3> QED  BY <2>7, <3>1, <3>2
  <2>9. audio'.heard = audio'.given + Len(Waiting')
    <3>1. audio'.heard = audio.heard + 1 /\ audio'.given = audio.given  BY <2>2
    <3>2. audio.heard = audio.given + Len(between.held)  BY <1>4
    <3>3. audio.given \in Nat  BY <1>2
    <3>4. Len(Waiting') = Len(between.held) + 1 /\ Len(between.held) \in Nat  BY <2>7
    <3> HIDE DEF chunk, hold
    <3> QED  BY <3>1, <3>2, <3>3, <3>4
  <2> QED  BY <2>3, <2>5, <2>8, <2>9 DEF Inv, HeldAudioInOrder
<1>7. ASSUME exhaust(calls), chain' = [chain EXCEPT !.preparing = FALSE],
             audio' = [audio EXCEPT !.heard = chunk],
             UNCHANGED <<settings, flagVars, resumeVars, attempts, provider>>
      PROVE  Inv'
  <2>1. given_up \in Betweens /\ given_up.held = <<>>
    <3>1. <<>> \in Seq(Nat)  OBVIOUS
    <3> QED  BY <1>1, <3>1 DEF Betweens
  <2>2. Settled  BY <1>1, <1>7, <2>1, EndByFailureSettles DEF exhaust
  <2>3. /\ chain' \in [index: Nat \ {0}, preparing: BOOLEAN]
        /\ audio' \in [heard: Nat, given: Nat]
    BY <1>1, <1>2, <1>7 DEF Typed, TypeOK
  <2>4. OthersTyped  BY <1>1, <1>7, <2>3 DEF OthersTyped, Typed, TypeOK
  <2>5. Typed'  BY <1>1, <2>2, <2>4, TypedStep
  <2>6. ~InSession'  BY <1>7 DEF exhaust, EndByFailure, InSession
  <2> QED
    BY <1>1, <1>7, <2>5, <2>6 DEF Inv, ToldIsPast, EndedIsKnown, HeldAudioInOrder
<1>8. past \in Betweens /\ past.held = between.held /\ past.inputEnded = between.inputEnded
  BY <1>1 DEF Betweens
<1>9. ASSUME StopSpeech(past), UNCHANGED <<microphone, heardVars>>
      PROVE  Inv'
  <2>1. MayCall /\ phase # "Idle"  BY <1>1 DEF MayCall, Free, InSession
  <2>2. Settled /\ OthersTyped
    <3> HIDE DEF past
    <3> QED  BY <1>1, <1>8, <1>9, <2>1, StopSpeechSettles
  <2>3. UNCHANGED audio /\ provider'.told = provider.told
    BY <1>9 DEF StopSpeech
  <2> QED  BY <1>1, <2>2, <2>3, SettledKeeps
<1>10. ASSUME between' = past,
              UNCHANGED <<phase, settings, flagVars, resumeVars, providerVars, calls,
                          microphone, heardVars>>
       PROVE  Inv'
  <2>1. Settled  BY <1>1, <1>8, <1>10, QuietSettles
  <2>2. OthersTyped  BY <1>1, <1>10 DEF OthersTyped, Typed, TypeOK
  <2> QED  BY <1>1, <1>10, <2>1, <2>2, SettledKeeps
<1> QED  BY <1>5, <1>6, <1>7, <1>9, <1>10, Zenon DEF hear

\* begin() starts from nothing held, under an attempt id of its own.
LEMMA BeginKeeps ==
    ASSUME Inv, Begin
    PROVE  Inv'
<1> USE DEF speechVars, flagVars, resumeVars, providerVars, heardVars
<1>1. /\ Typed /\ attempts \in Attempts /\ attempts.id \in Nat
      /\ provider.told \in SUBSET Nat
      /\ calls' \in Seq(QuietFrames)
  BY MayCallQuiet DEF Inv, Typed, TypeOK, Attempts, Begin
<1>2. /\ calls' \in Seq(Frames)
      /\ calls' # <<>> => /\ Tail(calls') \in Seq(QuietFrames)
                          /\ Head(calls').at \notin ProviderCalls
  BY <1>1, QuietStack
<1>3. attempts' \in Attempts /\ attempts'.id = attempts.id + 1
  BY <1>1 DEF Begin, Attempts
<1>4. /\ between' \in Betweens /\ between'.held = <<>>
  <2>1. <<>> \in Seq(Nat)  OBVIOUS
  <2> QED  BY <2>1 DEF Begin, NoBetween, Betweens
<1>5. Typed'
  BY <1>1, <1>2, <1>3, <1>4 DEF Typed, TypeOK, QuietBelow, Begin, Phases
<1>6. ~Running("sendAudio")' /\ ~Running("finishInput")'
  BY <1>2 DEF Running, ProviderCalls
<1>7. ToldIsPast' /\ EndedIsKnown'
  BY <1>1, <1>3, <1>6 DEF Begin, Inv, ToldIsPast, EndedIsKnown, InSession
<1>8. HeldAudioInOrder'
  BY <1>4, <1>6 DEF Begin, HeldAudioInOrder, Waiting
<1> QED  BY <1>5, <1>7, <1>8 DEF Inv

\* Every step keeps the invariant: one that settles, or one of the seven above.
LEMMA InvNext ==
    ASSUME Inv, [Next]_vars
    PROVE  Inv'
<1>1. CASE UNCHANGED vars
  <2>1. Typed'  BY <1>1 DEF vars, Inv, Typed, TypeOK, QuietBelow
  <2>2. ToldIsPast' /\ EndedIsKnown'
    BY <1>1 DEF vars, Inv, ToldIsPast, EndedIsKnown, InSession, Running
  <2>3. Waiting' = Waiting  BY <1>1 DEF vars, Waiting, Running
  <2>4. HeldAudioInOrder'
    BY <1>1, <2>3 DEF vars, Inv, HeldAudioInOrder, InSession
  <2> QED  BY <2>1, <2>2, <2>4 DEF Inv
<1>2. CASE Next
  <2>1. \/ Settling \/ StartAttempt \/ ProviderEnds \/ SendAudio \/ FinishInput
        \/ sendHeldAudio \/ EndInput \/ hear \/ Begin
    BY <1>2, Zenon DEF Next, Code, Session, Settling
  <2> QED
    BY <2>1, SettlingKeeps, AttemptKeeps, SendAudioKeeps, FinishInputKeeps,
       HeldCodeKeeps, HearKeeps, BeginKeeps, Zenon
<1> QED  BY <1>1, <1>2

LEMMA Invariance == Spec => []Inv
BY InvInit, InvNext, PTL DEF Spec

-----------------------------------------------------------------------------

(* Every variable keeps its type, and no call to a provider ever waits below
   another call: the speech calls its providers last. *)
THEOREM TypeCorrect == Spec => []TypeOK
<1>1. Inv => TypeOK  BY DEF Inv, Typed
<1> QED  BY <1>1, Invariance, PTL

(* However pauses, reconnects, switches and handlers interleave, what hear()
   took and the speech has not handed over waits complete and in order. *)
THEOREM AudioInOrder == Spec => []HeldAudioInOrder
<1>1. Inv => HeldAudioInOrder  BY DEF Inv
<1> QED  BY <1>1, Invariance, PTL

(* No provider is given audio, or an end of input, after it was told that an
   attempt's input ended, whichever of endInput()'s callers told it. *)
THEOREM NothingAfterEnd == Spec => []NothingAfterInputEnded
<1>1. Inv => NothingAfterInputEnded
  BY DEF Inv, NothingAfterInputEnded, EndedIsKnown
<1> QED  BY <1>1, Invariance, PTL

-----------------------------------------------------------------------------
(* What the code finds when it runs on: how the calls on the stack lie over  *)
(* one another, and what each of them may rely on once it comes to the head. *)

\* The speech is over, or has not begun its session.
Over == phase = "Idle" \/ (phase = "Starting" /\ ~settings)
Stops == phase = "Stopping" \/ Over

\* A provider runs the current attempt, or is about to be asked to.
Live == attempts.id \in provider.open \/ Running("startAttempt")

\* Calls nothing runs above: they are the head or they are gone.
HeadOnly == {"startAttempt", "sendAudio", "finishInput", "retire", "walk", "end",
             "sessionEnds"}
\* Calls that end the input or the speech, and those a command's announcement
\* leaves for later; none of them waits below another or below what may lead
\* to one.
Ending == {"endInput", "endHeld", "finishPaused", "finishInput", "end"}
Asks == {"proceed", "stopMicrophone"}
Way == Ending \cup Asks \cup {"proceedListening", "proceedStopping", "startMicrophone",
                              "walk", "switch", "retire"}
First == {"openedFirst", "readyFirst"}

\* How f lies above g, stops saying whether the speech stops or is over.
Lies(f, g, stops) ==
    /\ g.at \notin HeadOnly
    /\ g.at = "switch" => f.at = "retire"
    /\ g.at \in Ending \cup Asks => f.at \notin Way
    /\ g.at \in Asks => f.at = "handlers"
    /\ g.at = "finishPaused" => f.at \in {"startAttempt", "committed", "sendHeldAudio", "sendAudio"}
    /\ g.at = "endInput" => f.at \in {"sendHeldAudio", "sendAudio"} \/ stops
    /\ f.at \in First /\ g.at \in First => g.arg < f.arg

On(s) == {s[i] : i \in 1..Len(s)}

Ordered(s, stops) ==
    \A j \in 1..Len(s) : \A i \in 1..(j - 1) : Lies(s[i], s[j], stops)

\* What a call relies on.
Finds(f) ==
    /\ f.at \in {"retire", "switch", "walk"} =>
          between.awaitingProvider /\ settings /\ phase # "Idle" /\ ~chain.preparing
    /\ f.at = "end" => phase = "Stopping" /\ microphoneStopped /\ ~Live
    /\ f.at \in {"startAttempt", "sendAudio", "finishInput",
                 "endInput", "endHeld", "finishPaused"} => attempts.transcriber
    /\ f.at = "endHeld" => Stops
    /\ f.at = "endInput" => Stops \/ between.finishingPausedAttempt
    /\ f.at = "finishPaused" => phase = "Paused" /\ ~partial
    /\ f.at = "proceedStopping" => ~microphone /\ Stops
    /\ f.at = "proceed" => /\ phase \in {"Paused", "Listening", "Stopping"}
                           /\ phase = "Stopping" => ~microphone
    /\ f.at = "stopMicrophone" => phase = "Stopping"
    /\ f.at = "startMicrophone" => phase = "Listening"
    /\ f.at \in First =>
          /\ f.arg <= attempts.id
          /\ f.arg = attempts.id => ~microphoneStarting /\ ~(phase = "Starting" /\ ~settings)

Found == \A f \in On(calls) : Finds(f)

\* A switch waits under the commit of what it retires, the handlers of a
\* failure under what the session does of it.
Adjacent ==
    /\ Running("retire") => Tail(calls) # <<>> /\ Head(Tail(calls)).at = "switch"
    /\ Running("sessionEnds") => Tail(calls) # <<>> /\ Head(Tail(calls)).at = "handlers"

\* Where a provider may run the current attempt: never while another is awaited
\* or prepared, nor where resume() or a stop finds none to go on with.
LiveFits ==
    Live =>
        /\ attempts.id > 0 /\ attempts.transcriber /\ settings /\ ~Over
        /\ ~between.awaitingProvider /\ ~between.endedDuringStop /\ ~openOwed
        /\ phase = "Paused" /\ ~between.finishingPausedAttempt =>
              \E f \in On(calls) : f.at = "finishPaused"
        /\ phase = "Stopping" /\ noAttemptToFinish =>
              between.finishingPausedAttempt \/ microphoneStopped

OwedFits ==
    /\ openOwed => phase \in {"Listening", "Idle"}
    /\ openOwed /\ phase = "Listening" =>
          ~between.awaitingProvider /\ ~between.finishingPausedAttempt
    /\ between.endedDuringStop => phase \in {"Stopping", "Idle"}
    /\ between.endedDuringStop /\ phase = "Stopping" => ~microphoneStopped

\* The attempts a provider still runs.
OpenFits ==
    /\ 0 \notin provider.open
    /\ provider.open \subseteq {attempts.id, retiredAttempt}
    /\ retiredAttempt = 0 \/ retiredAttempt < attempts.id
    /\ retiredAttempt \in provider.open =>
          /\ phase = "Stopping" /\ between.endedDuringStop /\ ~microphoneStopped
          /\ attempts.transcriber /\ ~between.awaitingProvider

HoldsFits ==
    /\ attempts.transcriber \/ between.awaitingProvider \/ (between.held = <<>> /\ phase = "Idle")
    /\ between.finishingPausedAttempt => attempts.transcriber /\ ~between.awaitingProvider
    /\ chain.preparing => between.awaitingProvider /\ settings /\ phase # "Idle"
    /\ between.awaitingProvider => ~partial \/ Running("retire")
    /\ phase \in {"Listening", "Paused", "Stopping"} => settings
    /\ phase = "Starting" /\ ~settings => between.awaitingProvider

MicrophoneFits ==
    /\ microphone => settings /\ phase \in {"Starting", "Listening", "Stopping"}
    /\ phase = "Stopping" /\ microphoneStopped => ~microphone
    /\ microphoneStarting => (phase = "Starting" /\ settings) \/ phase = "Idle"

StateFits == LiveFits /\ OwedFits /\ OpenFits /\ HoldsFits /\ MicrophoneFits
StackFits == Ordered(calls, Stops) /\ Found /\ Adjacent

Runs == Inv /\ StateFits /\ StackFits

\* What the theorems below are about: providers that fail a paused attempt, and
\* handlers that act on the partial a switch commits, left out.
Ordinarily == Quirks \cap {"failsPaused", "actsRetiring"} = {}

-----------------------------------------------------------------------------
(* The stack as a set of calls, and the order they lie in.                   *)

\* A call is laid over a stack it may lie over.
LEMMA Laid ==
    ASSUME NEW stops \in BOOLEAN, NEW f \in Frames, NEW s \in Seq(Frames),
           Ordered(s, stops), \A g \in On(s) : Lies(f, g, stops)
    PROVE  /\ <<f>> \o s \in Seq(Frames) /\ <<f>> \o s # <<>>
           /\ Head(<<f>> \o s) = f /\ Tail(<<f>> \o s) = s
           /\ On(<<f>> \o s) = {f} \cup On(s)
           /\ Ordered(<<f>> \o s, stops)
<1> DEFINE t == <<f>> \o s
<1>1. /\ t \in Seq(Frames) /\ t # <<>> /\ Head(t) = f /\ Tail(t) = s
      /\ Len(t) = Len(s) + 1 /\ t[1] = f
      /\ \A i \in 1..Len(s) : t[i + 1] = s[i]
  OBVIOUS
<1>2. On(t) = {f} \cup On(s)
  <2>1. ASSUME NEW g \in On(t)  PROVE  g \in {f} \cup On(s)
    <3>1. PICK i \in 1..Len(t) : g = t[i]  BY DEF On
    <3>2. CASE i = 1  BY <1>1, <3>1, <3>2
    <3>3. CASE i # 1
      <4>1. i - 1 \in 1..Len(s)  BY <1>1, <3>1, <3>3
      <4>2. t[i] = s[i - 1]  BY <1>1, <4>1
      <4> QED  BY <3>1, <4>1, <4>2 DEF On
    <3> QED  BY <3>2, <3>3
  <2>2. f \in On(t)
    <3>1. 1 \in 1..Len(t)  BY <1>1
    <3> QED  BY <1>1, <3>1 DEF On
  <2>3. ASSUME NEW g \in On(s)  PROVE  g \in On(t)
    <3>1. PICK i \in 1..Len(s) : g = s[i]  BY DEF On
    <3>2. i + 1 \in 1..Len(t) /\ t[i + 1] = g  BY <1>1, <3>1
    <3> QED  BY <3>2 DEF On
  <2> QED  BY <2>1, <2>2, <2>3
<1>3. ASSUME NEW j \in 1..Len(t), NEW i \in 1..(j - 1)
      PROVE  Lies(t[i], t[j], stops)
  <2>1. j - 1 \in 1..Len(s) /\ t[j] = s[j - 1]
    <3>1. j - 1 \in 1..Len(s)  BY <1>1, <1>3
    <3> QED  BY <1>1, <3>1
  <2>2. CASE i = 1
    <3>1. s[j - 1] \in On(s)  BY <2>1 DEF On
    <3> QED  BY <1>1, <2>1, <2>2, <3>1
  <2>3. CASE i # 1
    <3>1. i - 1 \in 1..((j - 1) - 1) /\ i - 1 \in 1..Len(s)  BY <1>1, <2>1, <2>3
    <3>2. t[i] = s[i - 1]  BY <1>1, <3>1
    <3> QED  BY <2>1, <3>1, <3>2 DEF Ordered
  <2> QED  BY <2>2, <2>3
<1> HIDE DEF t
<1>4. Ordered(t, stops)  BY <1>3 DEF Ordered
<1> QED  BY <1>1, <1>2, <1>4 DEF t

\* What the head of an ordered stack lies over.
LEMMA Below ==
    ASSUME NEW stops \in BOOLEAN, NEW s \in Seq(Frames), s # <<>>, Ordered(s, stops)
    PROVE  /\ Head(s) \in Frames /\ Tail(s) \in Seq(Frames)
           /\ On(s) = {Head(s)} \cup On(Tail(s))
           /\ Ordered(Tail(s), stops)
           /\ \A g \in On(Tail(s)) : g \in Frames /\ Lies(Head(s), g, stops)
           /\ Tail(s) # <<>> => Head(Tail(s)) \in On(Tail(s))
<1> DEFINE t == Tail(s)
<1>1. /\ Head(s) \in Frames /\ t \in Seq(Frames) /\ Head(s) = s[1]
      /\ Len(s) = Len(t) + 1 /\ Len(t) \in Nat
      /\ \A i \in 1..Len(t) : t[i] = s[i + 1] /\ t[i] \in Frames
  OBVIOUS
<1>2. On(s) = {Head(s)} \cup On(t)
  <2>1. ASSUME NEW g \in On(s)  PROVE  g \in {Head(s)} \cup On(t)
    <3>1. PICK i \in 1..Len(s) : g = s[i]  BY DEF On
    <3>2. CASE i = 1  BY <1>1, <3>1, <3>2
    <3>3. CASE i # 1
      <4>1. i - 1 \in 1..Len(t)  BY <1>1, <3>1, <3>3
      <4>2. t[i - 1] = s[i]  BY <1>1, <4>1
      <4> QED  BY <3>1, <4>1, <4>2 DEF On
    <3> QED  BY <3>2, <3>3
  <2>2. Head(s) \in On(s)
    <3>1. 1 \in 1..Len(s)  BY <1>1
    <3> QED  BY <1>1, <3>1 DEF On
  <2>3. ASSUME NEW g \in On(t)  PROVE  g \in On(s)
    <3>1. PICK i \in 1..Len(t) : g = t[i]  BY DEF On
    <3>2. i + 1 \in 1..Len(s) /\ s[i + 1] = g  BY <1>1, <3>1
    <3> QED  BY <3>2 DEF On
  <2> QED  BY <2>1, <2>2, <2>3
<1>3. ASSUME NEW g \in On(t)  PROVE  g \in Frames /\ Lies(Head(s), g, stops)
  <2>1. PICK i \in 1..Len(t) : g = t[i]  BY DEF On
  <2>2. i + 1 \in 1..Len(s) /\ 1 \in 1..((i + 1) - 1) /\ g = s[i + 1] /\ g \in Frames
    BY <1>1, <2>1
  <2>3. Lies(s[1], s[i + 1], stops)  BY <2>2 DEF Ordered
  <2> QED  BY <1>1, <2>2, <2>3
<1>4. Ordered(t, stops)
  <2> SUFFICES ASSUME NEW j \in 1..Len(t), NEW i \in 1..(j - 1)
               PROVE  Lies(t[i], t[j], stops)
    BY DEF Ordered
  <2>1. /\ j + 1 \in 1..Len(s) /\ i + 1 \in 1..((j + 1) - 1) /\ i \in 1..Len(t)
        /\ t[j] = s[j + 1]
    BY <1>1
  <2>2. t[i] = s[i + 1]  BY <1>1, <2>1
  <2>3. Lies(s[i + 1], s[j + 1], stops)  BY <2>1 DEF Ordered
  <2> QED  BY <2>1, <2>2, <2>3
<1>5. t # <<>> => Head(t) \in On(t)
  <2>1. t # <<>> => 1 \in 1..Len(t) /\ Head(t) = t[1]  BY <1>1
  <2> QED  BY <2>1 DEF On
<1> QED  BY <1>1, <1>2, <1>3, <1>4, <1>5

\* The calls an announcement overtakes keep their order, and none waits for it.
LEMMA OvertakenLies ==
    ASSUME NEW stops \in BOOLEAN, NEW s \in Seq(Frames), Ordered(s, stops)
    PROVE  /\ Overtaken(s) \in Seq(Frames) /\ Ordered(Overtaken(s), stops)
           /\ \A g \in On(Overtaken(s)) :
                 \/ g = Call("overtaken")
                 \/ g \in On(s) /\ g.at \notin {"proceed", "startMicrophone", "stopMicrophone"}
<1> DEFINE t == Overtaken(s)
           late(f) == f.at \in {"proceed", "startMicrophone", "stopMicrophone"}
<1>1. /\ Len(s) \in Nat /\ DOMAIN s = 1..Len(s)
      /\ \A i \in 1..Len(s) : s[i] \in Frames
  OBVIOUS
<1>2. Call("overtaken") \in Frames  BY CallTyped DEF Labels
<1>3. t \in [1..Len(s) -> Frames]  BY <1>1, <1>2 DEF Overtaken
<1>4. t \in Seq(Frames) /\ Len(t) = Len(s)
  <2>1. t \in Seq(Frames)  BY <1>1, <1>3, SeqDef
  <2> QED  BY <1>1, <1>3, <2>1, LenProperties
<1>5. \A i \in 1..Len(s) : t[i] = IF late(s[i]) THEN Call("overtaken") ELSE s[i]
  BY <1>1 DEF Overtaken
<1>6. ASSUME NEW g \in On(t)
      PROVE  g = Call("overtaken") \/ (g \in On(s) /\ ~late(g))
  <2>1. PICK i \in 1..Len(s) : g = t[i]  BY <1>4 DEF On
  <2>2. s[i] \in On(s)  BY <2>1 DEF On
  <2> HIDE DEF t, late
  <2> QED  BY <1>5, <2>1, <2>2
<1>7. Ordered(t, stops)
  <2> SUFFICES ASSUME NEW j \in 1..Len(s), NEW i \in 1..(j - 1)
               PROVE  Lies(t[i], t[j], stops)
    BY <1>4 DEF Ordered
  <2>1. Lies(s[i], s[j], stops) /\ i \in 1..Len(s)  BY <1>1 DEF Ordered
  <2>2. /\ t[i] = IF late(s[i]) THEN Call("overtaken") ELSE s[i]
        /\ t[j] = IF late(s[j]) THEN Call("overtaken") ELSE s[j]
    BY <1>5, <2>1
  <2>3. Call("overtaken").at = "overtaken"  BY DEF Call
  <2> HIDE DEF t
  <2>4. CASE late(s[j])
    <3>1. t[j].at = "overtaken"  BY <2>2, <2>3, <2>4
    <3> QED  BY <3>1 DEF Lies, HeadOnly, Ending, Asks, First
  <2>5. CASE ~late(s[j]) /\ ~late(s[i])
    BY <2>1, <2>2, <2>5
  <2>6. CASE ~late(s[j]) /\ late(s[i])
    <3>1. t[j] = s[j] /\ t[i].at = "overtaken"  BY <2>2, <2>3, <2>6
    <3> QED  BY <2>1, <2>6, <3>1 DEF Lies, HeadOnly, Ending, Asks, Way, First
  <2> QED  BY <2>4, <2>5, <2>6
<1> QED  BY <1>4, <1>6, <1>7

\* A stack stays in order when the speech comes to stop.
LEMMA OrderedStops ==
    ASSUME NEW stops \in BOOLEAN, NEW later \in BOOLEAN, stops => later,
           NEW s, Ordered(s, stops)
    PROVE  Ordered(s, later)
BY DEF Ordered, Lies

-----------------------------------------------------------------------------
(* What a step leaves on the stack.                                          *)

LEMMA TruthValues ==
    /\ Stops \in BOOLEAN
    /\ Stops' \in BOOLEAN
BY DEF Stops, Over

\* The running call, and the calls it returns to.
LEMMA AtHead ==
    ASSUME Runs, NEW label, Running(label)
    PROVE  /\ calls \in Seq(Frames) /\ calls # <<>> /\ Head(calls) \in Frames
           /\ Head(calls).at = label /\ Finds(Head(calls))
           /\ Tail(calls) \in Seq(Frames) /\ Ordered(Tail(calls), Stops)
           /\ On(calls) = {Head(calls)} \cup On(Tail(calls))
           /\ \A g \in On(Tail(calls)) : /\ g \in Frames /\ Finds(g)
                                         /\ Lies(Head(calls), g, Stops)
           /\ Tail(calls) # <<>> => Head(Tail(calls)) \in On(Tail(calls))
<1>1. calls \in Seq(Frames) /\ calls # <<>> /\ Head(calls).at = label
  BY DEF Runs, Inv, Typed, TypeOK, Running
<1>2. Ordered(calls, Stops)  BY DEF Runs, StackFits
<1>3. /\ Head(calls) \in Frames /\ Tail(calls) \in Seq(Frames)
      /\ On(calls) = {Head(calls)} \cup On(Tail(calls))
      /\ Ordered(Tail(calls), Stops)
      /\ \A g \in On(Tail(calls)) : g \in Frames /\ Lies(Head(calls), g, Stops)
      /\ Tail(calls) # <<>> => Head(Tail(calls)) \in On(Tail(calls))
  BY <1>1, <1>2, TruthValues, Below
<1>4. \A g \in On(calls) : Finds(g)  BY DEF Runs, StackFits, Found
<1> QED  BY <1>1, <1>3, <1>4

\* A stack the step leaves in order, with what its calls rely on.
Kept(s) ==
    /\ s \in Seq(Frames) /\ Ordered(s, Stops')
    /\ \A g \in On(s) : g \in Frames /\ Finds(g)'

LEMMA KeptLaid ==
    ASSUME NEW f \in Frames, NEW s, Kept(s), Finds(f)',
           \A g \in On(s) : Lies(f, g, Stops')
    PROVE  /\ Kept(<<f>> \o s) /\ On(<<f>> \o s) = {f} \cup On(s)
           /\ Head(<<f>> \o s) = f /\ Tail(<<f>> \o s) = s /\ <<f>> \o s # <<>>
<1>1. s \in Seq(Frames) /\ Ordered(s, Stops')  BY DEF Kept
<1>2. /\ <<f>> \o s \in Seq(Frames) /\ <<f>> \o s # <<>>
      /\ Head(<<f>> \o s) = f /\ Tail(<<f>> \o s) = s
      /\ On(<<f>> \o s) = {f} \cup On(s)
      /\ Ordered(<<f>> \o s, Stops')
  BY <1>1, TruthValues, Laid
<1> QED  BY <1>2 DEF Kept

LEMMA KeptEmpty == Kept(<<>>)
BY DEF Kept, Ordered, On

\* The calls that any report may come back to: none is a call to come, and the
\* input is to end only in a speech that stops.
Calm(g, stops) ==
    /\ g.at \notin HeadOnly \cup Asks \cup {"switch", "finishPaused"}
    /\ g.at = "endInput" => stops

\* What a calm call relies on lasts, while the speech keeps its transcriber,
\* its microphone comes to no life and no announcement is made.
Lasts(g) ==
    /\ g.at \in {"endInput", "endHeld"} => (attempts.transcriber => attempts'.transcriber)
    /\ g.at = "startMicrophone" => (phase = "Listening" => phase' = "Listening")

Onward ==
    /\ Stops => Stops'
    /\ microphone' => microphone
    /\ attempts.id \in Nat /\ attempts'.id \in Nat /\ attempts'.id >= attempts.id
    /\ attempts'.id = attempts.id =>
          /\ microphoneStarting' => microphoneStarting
          /\ phase' = "Starting" /\ ~settings' => phase = "Starting" /\ ~settings

LEMMA CalmLasts ==
    ASSUME Onward, NEW g \in Frames, Finds(g), Calm(g, Stops), Lasts(g)
    PROVE  Finds(g)'
<1>1. g.arg \in Nat  BY DEF Frames
<1>2. g.at \notin HeadOnly \cup Asks \cup {"switch", "finishPaused"}  BY DEF Calm
<1>3. g.at \in {"endInput", "endHeld"} => attempts'.transcriber /\ Stops'
  BY DEF Finds, Calm, Lasts, Onward
<1>4. g.at = "proceedStopping" => ~microphone' /\ Stops'
  BY DEF Finds, Onward
<1>5. g.at = "startMicrophone" => phase' = "Listening"
  BY DEF Finds, Lasts
<1>6. g.at \in First =>
          /\ g.arg <= attempts'.id
          /\ g.arg = attempts'.id => /\ ~microphoneStarting'
                                     /\ ~(phase' = "Starting" /\ ~settings')
  BY <1>1 DEF Finds, Onward
<1> QED  BY <1>2, <1>3, <1>4, <1>5, <1>6 DEF Finds, HeadOnly, Asks

LEMMA CalmKept ==
    ASSUME Onward, NEW s \in Seq(Frames), Ordered(s, Stops),
           \A g \in On(s) : g \in Frames /\ Finds(g) /\ Calm(g, Stops) /\ Lasts(g)
    PROVE  Kept(s)
<1>1. Ordered(s, Stops')  BY TruthValues, OrderedStops DEF Onward
<1>2. \A g \in On(s) : Finds(g)'  BY CalmLasts
<1> QED  BY <1>1, <1>2 DEF Kept

\* The announcement of a state overtakes the calls that wait for it.
LEMMA OvertakenKept ==
    ASSUME Onward, NEW s \in Seq(Frames), Ordered(s, Stops),
           \A g \in On(s) : /\ g \in Frames /\ Finds(g)
                            /\ Calm(g, Stops) \/ g.at \in Asks
                            /\ g.at \in {"endInput", "endHeld"} =>
                                  (attempts.transcriber => attempts'.transcriber)
    PROVE  /\ Kept(Overtaken(s))
           /\ \A g \in On(Overtaken(s)) :
                 Calm(g, Stops) /\ (g = Call("overtaken") \/ g \in On(s))
<1> DEFINE t == Overtaken(s)
<1>1. /\ t \in Seq(Frames) /\ Ordered(t, Stops)
      /\ \A g \in On(t) :
            \/ g = Call("overtaken")
            \/ g \in On(s) /\ g.at \notin {"proceed", "startMicrophone", "stopMicrophone"}
  BY TruthValues, OvertakenLies
<1>2. Ordered(t, Stops')  BY <1>1, TruthValues, OrderedStops DEF Onward
<1>3. Call("overtaken") \in Frames /\ Call("overtaken").at = "overtaken"
  BY CallTyped DEF Labels, Call
<1>4. ASSUME NEW g \in On(t)
      PROVE  /\ g \in Frames /\ Finds(g)' /\ Calm(g, Stops)
             /\ g = Call("overtaken") \/ g \in On(s)
  <2>1. CASE g = Call("overtaken")
    <3>1. g.at = "overtaken" /\ g \in Frames  BY <1>3, <2>1
    <3> QED  BY <2>1, <3>1 DEF Finds, Calm, HeadOnly, Asks, First
  <2>2. CASE g \in On(s) /\ g.at \notin {"proceed", "startMicrophone", "stopMicrophone"}
    <3>1. g \in Frames /\ Finds(g) /\ Calm(g, Stops) /\ Lasts(g)
      BY <2>2 DEF Asks, Lasts
    <3> QED  BY <2>2, <3>1, CalmLasts
  <2> QED  BY <1>1, <2>1, <2>2
<1> HIDE DEF t
<1>5. Kept(t)  BY <1>1, <1>2, <1>4 DEF Kept
<1> QED  BY <1>4, <1>5 DEF t

\* A handler runs, or the loop is free: the calls below it are calm, but for
\* those that wait for the announcement.
LEMMA HandlersCalm ==
    ASSUME Runs, MayCall
    PROVE  /\ calls \in Seq(Frames) /\ Ordered(calls, Stops)
           /\ \A g \in On(calls) : /\ g \in Frames /\ Finds(g)
                                   /\ Calm(g, Stops) \/ g.at \in Asks
<1>1. calls \in Seq(Frames) /\ Ordered(calls, Stops)
  BY DEF Runs, Inv, Typed, TypeOK, StackFits
<1>2. CASE Free
  <2>1. On(calls) = {}  BY <1>2 DEF Free, On
  <2> QED  BY <1>1, <2>1
<1>3. CASE Handling
  <2>1. Running("handlers")  BY <1>3 DEF Handling, Running
  <2>2. ASSUME NEW g \in On(calls)
        PROVE  g \in Frames /\ Finds(g) /\ (Calm(g, Stops) \/ g.at \in Asks)
    <3>1. CASE g = Head(calls)
      <4>1. g \in Frames /\ Finds(g) /\ g.at = "handlers"  BY <2>1, <3>1, AtHead
      <4> QED  BY <4>1 DEF Calm, HeadOnly, Asks
    <3>2. CASE g \in On(Tail(calls))
      <4>1. g \in Frames /\ Finds(g) /\ Lies(Head(calls), g, Stops)
        BY <2>1, <3>2, AtHead
      <4>2. Head(calls).at = "handlers"  BY <2>1, AtHead
      <4> QED  BY <4>1, <4>2 DEF Lies, Calm, HeadOnly
    <3> QED  BY <2>1, <3>1, <3>2, AtHead
  <2> QED  BY <1>1, <2>2
<1> QED  BY <1>2, <1>3 DEF MayCall

-----------------------------------------------------------------------------
(* What the speech's own code leaves when the current attempt is over, or    *)
(* none ran: rest are the calls it came from.                                *)

LEMMA Types ==
    ASSUME Inv
    PROVE  /\ phase \in Phases /\ settings \in BOOLEAN /\ microphone \in BOOLEAN
           /\ microphoneStarting \in BOOLEAN /\ microphoneStopped \in BOOLEAN
           /\ noAttemptToFinish \in BOOLEAN /\ openOwed \in BOOLEAN
           /\ retiredAttempt \in Nat /\ emptyResumedAttempt \in Nat
           /\ between \in Betweens /\ between.held \in Seq(Nat)
           /\ between.awaitingProvider \in BOOLEAN /\ between.endedDuringStop \in BOOLEAN
           /\ between.finishingPausedAttempt \in BOOLEAN /\ between.inputEnded \in BOOLEAN
           /\ attempts \in Attempts /\ attempts.id \in Nat /\ attempts.transcriber \in BOOLEAN
           /\ chain \in [index: Nat \ {0}, preparing: BOOLEAN]
           /\ chain.preparing \in BOOLEAN
           /\ provider \in [open: SUBSET Nat, told: SUBSET Nat]
           /\ provider.open \in SUBSET Nat /\ provider.told \in SUBSET Nat
           /\ partial \in BOOLEAN /\ calls \in Seq(Frames)
           /\ audio \in [heard: Nat, given: Nat]
<1>1. between \in Betweens /\ attempts \in Attempts
  BY DEF Inv, Typed, TypeOK
<1>2. /\ chain \in [index: Nat \ {0}, preparing: BOOLEAN]
      /\ provider \in [open: SUBSET Nat, told: SUBSET Nat]
  BY DEF Inv, Typed, TypeOK
<1> QED  BY <1>1, <1>2 DEF Inv, Typed, TypeOK, Betweens, Attempts

\* Two calls pushed at once.
LEMMA TwoLaid ==
    ASSUME NEW f \in Frames, NEW h \in Frames, NEW s \in Seq(Frames)
    PROVE  <<f, h>> \o s = <<f>> \o (<<h>> \o s)
<1>1. <<f>> \in Seq(Frames) /\ <<h>> \in Seq(Frames)  OBVIOUS
<1>2. (<<f>> \o <<h>>) \o s = <<f>> \o (<<h>> \o s)  BY <1>1, ConcatAssociative
<1>3. <<f>> \o <<h>> = <<f, h>>
  <2> DEFINE t == <<f>> \o <<h>>
             u == <<f, h>>
  <2>1. t \in Seq(Frames) /\ Len(t) = 2 /\ t[1] = f /\ t[2] = h  BY <1>1
  <2>2. u \in Seq(Frames) /\ Len(u) = 2 /\ u[1] = f /\ u[2] = h  OBVIOUS
  <2> HIDE DEF t, u
  <2>3. \A i \in 1..Len(t) : t[i] = u[i]
    <3>1. \A i \in 1..2 : i = 1 \/ i = 2  OBVIOUS
    <3> QED  BY <2>1, <2>2, <3>1
  <2> QED  BY <2>1, <2>2, <2>3, SeqEqual DEF t, u
<1> QED  BY <1>2, <1>3

Clear(rest) ==
    /\ Runs
    /\ rest \in Seq(Frames) /\ Ordered(rest, Stops)
    /\ \A g \in On(rest) : g \in Frames /\ Finds(g) /\ Calm(g, Stops)
    /\ provider'.open = {} /\ ~chain'.preparing
    /\ openOwed' => openOwed
    /\ UNCHANGED <<settings, microphoneStarting, microphoneStopped, noAttemptToFinish,
                   retiredAttempt, partial>>

\* A call whose stack holds no commit or end of a failure at its head.
LEMMA AdjacentElse ==
    ASSUME calls' # <<>> => Head(calls').at \notin {"retire", "sessionEnds"}
    PROVE  Adjacent'
BY DEF Adjacent, Running

\* A stack of calm calls has none at its head either.
LEMMA AdjacentCalm ==
    ASSUME Kept(calls'), \A g \in On(calls') : g.at \notin HeadOnly
    PROVE  Adjacent' /\ ~Running("startAttempt")' /\ ~Running("retire")'
<1>1. calls' # <<>> => Head(calls') \in On(calls')
  <2>1. calls' \in Seq(Frames)  BY DEF Kept
  <2>2. calls' # <<>> => 1 \in 1..Len(calls') /\ Head(calls') = calls'[1]  BY <2>1
  <2> QED  BY <2>2 DEF On
<1>2. calls' # <<>> => Head(calls').at \notin HeadOnly  BY <1>1
<1> QED  BY <1>2, AdjacentElse DEF HeadOnly, Running

LEMMA StackFitsKept ==
    ASSUME Kept(calls'), Adjacent'
    PROVE  StackFits'
BY DEF Kept, StackFits, Found

\* The next attempt opens, over what is to follow it.
LEMMA OpensRuns ==
    ASSUME NEW rest, Clear(rest), NEW b \in Betweens, NEW a \in Attempts, NEW s,
           OpenAttempt(b, a, s), UNCHANGED <<phase, microphone>>,
           a.id = attempts.id, a.transcriber, settings, ~Over, ~openOwed',
           ~b.awaitingProvider, ~b.endedDuringStop,
           Kept(s), \A g \in On(s) : /\ g.at \notin HeadOnly \cup Asks \cup {"switch"}
                                     /\ g.at = "endInput" => Stops',
           phase = "Paused" /\ ~b.finishingPausedAttempt =>
              \E f \in On(s) : f.at = "finishPaused",
           phase = "Stopping" /\ noAttemptToFinish =>
              b.finishingPausedAttempt \/ microphoneStopped
    PROVE  StateFits' /\ StackFits'
<1> DEFINE after == CallWith("committed", a.id + 1)
<1>1. /\ Runs /\ Inv /\ attempts.id \in Nat /\ retiredAttempt \in Nat
      /\ openOwed \in BOOLEAN /\ settings'
  BY Types DEF Clear, Runs
<1>2. /\ between' \in Betweens
      /\ between'.awaitingProvider = FALSE /\ between'.endedDuringStop = FALSE
      /\ between'.finishingPausedAttempt = b.finishingPausedAttempt
  BY DEF OpenAttempt, Betweens
<1>3. attempts'.id = attempts.id + 1 /\ attempts'.transcriber
  BY DEF OpenAttempt, Attempts
<1>4. after \in Frames /\ after.at = "committed"
  BY <1>1 DEF CallWith, Frames, Labels
<1>5. Finds(after)' /\ \A g \in On(s) : Lies(after, g, Stops')
  <2>1. Finds(after)'  BY <1>4 DEF Finds, First
  <2>2. \A g \in On(s) : Lies(after, g, Stops')
    BY <1>4 DEF Lies, Ending, Asks, Way, First
  <2> QED  BY <2>1, <2>2
<1>6. /\ Call("startAttempt") \in Frames /\ Call("startAttempt").at = "startAttempt"
      /\ Finds(Call("startAttempt"))'
  <2>1. Call("startAttempt") \in Frames /\ Call("startAttempt").at = "startAttempt"
    BY DEF Call, Frames, Labels
  <2> QED  BY <2>1, <1>3 DEF Finds, First
<1>7. Kept(<<after>> \o s) /\ On(<<after>> \o s) = {after} \cup On(s)
  <2> HIDE DEF after
  <2> QED  BY <1>4, <1>5, KeptLaid
<1>8. \A g \in On(<<after>> \o s) : Lies(Call("startAttempt"), g, Stops')
  <2> HIDE DEF after
  <2>1. \A g \in On(<<after>> \o s) : /\ g.at \notin HeadOnly \cup Asks \cup {"switch"}
                                      /\ g.at = "endInput" => Stops'
    BY <1>4, <1>7 DEF HeadOnly, Asks
  <2> QED  BY <1>6, <2>1 DEF Lies, Ending, Asks, Way, First
<1>9. calls' = <<Call("startAttempt")>> \o (<<after>> \o s)
  <2>1. s \in Seq(Frames)  BY DEF Kept
  <2> HIDE DEF after
  <2>2. calls' = <<Call("startAttempt"), after>> \o s  BY DEF OpenAttempt, after
  <2> QED  BY <1>4, <1>6, <2>1, <2>2
<1> HIDE DEF after
<1>10. /\ Kept(calls') /\ Head(calls') = Call("startAttempt")
       /\ calls' # <<>> /\ On(calls') = {Call("startAttempt"), after} \cup On(s)
  BY <1>6, <1>7, <1>8, <1>9, KeptLaid
<1>11. StackFits'
  BY <1>6, <1>10, AdjacentElse, StackFitsKept
<1>12. LiveFits'
  BY <1>1, <1>2, <1>3, <1>10 DEF Clear, LiveFits, Over
<1>13. OwedFits' /\ MicrophoneFits'
  BY <1>1, <1>2 DEF OwedFits, MicrophoneFits, Runs, StateFits, Clear
<1>14. OpenFits'
  BY <1>1, <1>3 DEF OpenFits, Runs, StateFits, Clear
<1>15. HoldsFits'
  BY <1>1, <1>2, <1>3 DEF HoldsFits, Runs, StateFits, Clear
<1> QED  BY <1>11, <1>12, <1>13, <1>14, <1>15 DEF StateFits

\* What is below an attempt that opens keeps what it relies on.
LEMMA ClearKept ==
    ASSUME NEW rest, Clear(rest), Inv',
           attempts'.id >= attempts.id, phase' = phase, microphone' => microphone,
           \/ attempts.transcriber => attempts'.transcriber
           \/ \A g \in On(rest) : g.at \notin Ending
    PROVE  Kept(rest) /\ Onward /\ (Stops' <=> Stops)
<1>1. attempts.id \in Nat /\ attempts'.id \in Nat
  <2>1. attempts.id \in Nat  BY Types DEF Clear, Runs
  <2>2. attempts' \in Attempts  BY DEF Inv, Typed, TypeOK
  <2> QED  BY <2>1, <2>2 DEF Attempts
<1>2. Stops' <=> Stops  BY DEF Stops, Over, Clear
<1>3. Onward  BY <1>1, <1>2 DEF Onward, Clear
<1>4. \A g \in On(rest) : Lasts(g)  BY DEF Lasts, Ending
<1> QED  BY <1>2, <1>3, <1>4, CalmKept DEF Clear

\* resumeAttempt(): what is held follows the attempt's start.
LEMMA ResumesRuns ==
    ASSUME NEW rest, Clear(rest), Inv', NEW b \in Betweens, NEW a \in Attempts,
           resumeAttempt(b, a, rest), UNCHANGED <<phase, microphone>>,
           a.id = attempts.id, a.transcriber, settings, ~Over, ~openOwed',
           ~b.awaitingProvider, ~b.endedDuringStop,
           phase = "Paused" => b.finishingPausedAttempt,
           phase = "Stopping" /\ noAttemptToFinish =>
              b.finishingPausedAttempt \/ microphoneStopped
    PROVE  StateFits' /\ StackFits'
<1> DEFINE f == Call("sendHeldAudio")
<1>1. attempts.id \in Nat /\ attempts'.id = a.id + 1 /\ attempts'.transcriber
  BY Types DEF Clear, Runs, resumeAttempt, OpenAttempt, Attempts
<1>2. Kept(rest) /\ (Stops' <=> Stops)
  BY <1>1, ClearKept
<1>3. f \in Frames /\ f.at = "sendHeldAudio"  BY DEF Call, Frames, Labels
<1>4. OpenAttempt(b, a, <<f>> \o rest)  BY DEF resumeAttempt
<1> HIDE DEF f
<1>5. Finds(f)' /\ \A g \in On(rest) : Lies(f, g, Stops')
  <2>1. Finds(f)'  BY <1>3 DEF Finds, First
  <2>2. \A g \in On(rest) : Lies(f, g, Stops')
    BY <1>2, <1>3 DEF Clear, Calm, Lies, Ending, Asks, Way, First
  <2> QED  BY <2>1, <2>2
<1>6. Kept(<<f>> \o rest) /\ On(<<f>> \o rest) = {f} \cup On(rest)
  BY <1>2, <1>3, <1>5, KeptLaid
<1>7. \A g \in On(<<f>> \o rest) : /\ g.at \notin HeadOnly \cup Asks \cup {"switch"}
                                   /\ g.at = "endInput" => Stops'
  BY <1>2, <1>3, <1>6 DEF Clear, Calm, HeadOnly, Asks
<1> QED  BY <1>4, <1>6, <1>7, OpensRuns

\* An attempt opens with more to do after it: f, over what it returns to.
LEMMA OpensOver ==
    ASSUME NEW rest, Clear(rest), Inv', NEW b \in Betweens, NEW a \in Attempts,
           NEW f \in Frames,
           OpenAttempt(b, a, <<f>> \o rest)
           \/ resumeAttempt(b, a, <<f>> \o rest),
           UNCHANGED <<phase, microphone>>,
           a.id = attempts.id, a.transcriber, settings, ~Over, ~openOwed',
           ~b.awaitingProvider, ~b.endedDuringStop,
           f.at \in {"markEmpty", "endHeld", "finishPaused", "openedFirst"},
           Finds(f)', \A g \in On(rest) : Lies(f, g, Stops'),
           phase = "Paused" => f.at = "finishPaused",
           phase = "Stopping" /\ noAttemptToFinish =>
              b.finishingPausedAttempt \/ microphoneStopped
    PROVE  StateFits' /\ StackFits'
<1> DEFINE h == Call("sendHeldAudio")
           s == <<f>> \o rest
<1>1. attempts.id \in Nat /\ attempts'.id = a.id + 1 /\ attempts'.transcriber
  BY Types DEF Clear, Runs, resumeAttempt, OpenAttempt, Attempts
<1>2. Kept(rest) /\ (Stops' <=> Stops)
  BY <1>1, ClearKept
<1>3. Kept(s) /\ On(s) = {f} \cup On(rest)
  BY <1>2, KeptLaid
<1>4. \A g \in On(s) : /\ g.at \notin HeadOnly \cup Asks \cup {"switch"}
                       /\ g.at = "endInput" => Stops'
  <2> HIDE DEF s
  <2> QED  BY <1>2, <1>3 DEF Clear, Calm, HeadOnly, Asks
<1>5. f \in On(s)  BY <1>3
<1>6. CASE OpenAttempt(b, a, s)
  <2> HIDE DEF s
  <2>1. phase = "Paused" => \E g \in On(s) : g.at = "finishPaused"  BY <1>5
  <2> QED  BY <1>3, <1>4, <1>6, <2>1, OpensRuns
<1>7. CASE resumeAttempt(b, a, s)
  <2>1. h \in Frames /\ h.at = "sendHeldAudio"  BY DEF Call, Frames, Labels
  <2>2. OpenAttempt(b, a, <<h>> \o s)  BY <1>7 DEF resumeAttempt
  <2> HIDE DEF h, s
  <2>3. Finds(h)' /\ \A g \in On(s) : Lies(h, g, Stops')
    <3>1. Finds(h)'  BY <2>1 DEF Finds, First
    <3>2. \A g \in On(s) : Lies(h, g, Stops')
      BY <1>4, <2>1 DEF Lies, Ending, Asks, Way, First
    <3> QED  BY <3>1, <3>2
  <2>4. Kept(<<h>> \o s) /\ On(<<h>> \o s) = {h} \cup On(s)
    BY <1>3, <2>1, <2>3, KeptLaid
  <2>5. \A g \in On(<<h>> \o s) : /\ g.at \notin HeadOnly \cup Asks \cup {"switch"}
                                  /\ g.at = "endInput" => Stops'
    BY <1>4, <2>1, <2>4 DEF HeadOnly, Asks
  <2>6. phase = "Paused" => \E g \in On(<<h>> \o s) : g.at = "finishPaused"
    BY <1>5, <2>4
  <2> QED  BY <2>2, <2>4, <2>5, <2>6, OpensRuns
<1> QED  BY <1>6, <1>7

-----------------------------------------------------------------------------
(* What else a report leaves.                                                *)

\* switchProvider(): the partial is committed, then the transcriber let go.
LEMMA SwitchesRuns ==
    ASSUME NEW rest, Clear(rest), Inv', NEW b \in Betweens,
           switchProvider(b, rest), UNCHANGED <<phase, microphone, attempts>>,
           settings, ~Over, ~openOwed, ~b.endedDuringStop, ~b.finishingPausedAttempt,
           \A g \in On(rest) : g.at \notin Ending
    PROVE  StateFits' /\ StackFits'
<1> DEFINE f == Call("retire")
           h == Call("switch")
<1>1. /\ Runs /\ Inv /\ attempts.id \in Nat /\ attempts'.id >= attempts.id
      /\ openOwed \in BOOLEAN /\ retiredAttempt \in Nat /\ settings'
  BY Types DEF Clear, Runs
<1>2. /\ between' \in Betweens /\ between'.awaitingProvider = TRUE
      /\ between'.endedDuringStop = FALSE /\ between'.finishingPausedAttempt = FALSE
  BY DEF switchProvider, Betweens
<1>3. Kept(rest) /\ (Stops' <=> Stops)  BY <1>1, ClearKept
<1>4. f \in Frames /\ f.at = "retire" /\ h \in Frames /\ h.at = "switch"
  BY DEF Call, Frames, Labels
<1>5. calls' = <<f>> \o (<<h>> \o rest)
  <2>1. rest \in Seq(Frames)  BY DEF Clear
  <2>2. calls' = <<f, h>> \o rest  BY DEF switchProvider
  <2> HIDE DEF f, h
  <2> QED  BY <1>4, <2>1, <2>2, TwoLaid
<1> HIDE DEF f, h
<1>6. phase' # "Idle" /\ ~chain'.preparing  BY DEF Over, Clear
<1>7. Finds(f)' /\ Finds(h)'
  <2>1. Finds(f)'  BY <1>1, <1>2, <1>4, <1>6 DEF Finds, First
  <2>2. Finds(h)'  BY <1>1, <1>2, <1>4, <1>6 DEF Finds, First
  <2> QED  BY <2>1, <2>2
<1>8. \A g \in On(rest) : Lies(h, g, Stops') /\ Lies(f, g, Stops')
  BY <1>3, <1>4 DEF Clear, Calm, Lies, Ending, Asks, Way, First
<1>9. Lies(f, h, Stops')
  BY <1>4 DEF Lies, HeadOnly, Ending, Asks, Way, First
<1>10. Kept(<<h>> \o rest) /\ On(<<h>> \o rest) = {h} \cup On(rest)
       /\ Head(<<h>> \o rest) = h /\ <<h>> \o rest # <<>>
  BY <1>3, <1>4, <1>7, <1>8, KeptLaid
<1>11. \A g \in On(<<h>> \o rest) : Lies(f, g, Stops')
  BY <1>8, <1>9, <1>10
<1>12. /\ Kept(calls') /\ Head(calls') = f /\ Tail(calls') = <<h>> \o rest
       /\ calls' # <<>>
  BY <1>4, <1>5, <1>7, <1>10, <1>11, KeptLaid
<1>13. Adjacent' /\ Running("retire")' /\ ~Running("startAttempt")'
  BY <1>4, <1>10, <1>12 DEF Adjacent, Running
<1>14. StackFits'  BY <1>12, <1>13, StackFitsKept
<1>15. LiveFits'
  <2>1. ~Live'  BY <1>13 DEF Live, Clear
  <2> QED  BY <2>1 DEF LiveFits
<1>16. OwedFits' /\ MicrophoneFits'
  BY <1>1, <1>2 DEF OwedFits, MicrophoneFits, Runs, StateFits, Clear
<1>17. OpenFits'
  BY <1>1 DEF OpenFits, Runs, StateFits, Clear
<1>18. HoldsFits'
  BY <1>1, <1>2, <1>6, <1>13 DEF HoldsFits, Runs, StateFits, Clear, Over
<1> QED  BY <1>14, <1>15, <1>16, <1>17, <1>18 DEF StateFits

\* A failure, or audio past the budget, ends the speech.
LEMMA FailsRuns ==
    ASSUME NEW rest, Clear(rest), Inv', NEW b \in Betweens,
           EndByFailure(b, rest), UNCHANGED attempts,
           ~b.awaitingProvider, ~b.finishingPausedAttempt,
           attempts.transcriber \/ b.held = <<>>
    PROVE  StateFits' /\ StackFits'
<1> DEFINE f == Call("sessionEnds")
           h == Call("handlers")
           below == Overtaken(rest)
<1>1. /\ Runs /\ Inv /\ attempts.id \in Nat /\ retiredAttempt \in Nat
      /\ openOwed \in BOOLEAN
  BY Types DEF Clear, Runs
<1>2. phase' = "Idle" /\ microphone' = FALSE /\ between' = b
  BY DEF EndByFailure
<1>3. Onward /\ Stops'
  BY <1>1, <1>2 DEF Onward, Clear, Stops, Over
<1>4. /\ Kept(below)
      /\ \A g \in On(below) : Calm(g, Stops) /\ (g = Call("overtaken") \/ g \in On(rest))
  BY <1>3, OvertakenKept DEF Clear
<1>5. f \in Frames /\ f.at = "sessionEnds" /\ h \in Frames /\ h.at = "handlers"
  BY DEF Call, Frames, Labels
<1>6. calls' = <<f>> \o (<<h>> \o below)
  <2>1. below \in Seq(Frames)  BY <1>4 DEF Kept
  <2>2. calls' = <<f, h>> \o below  BY DEF EndByFailure
  <2> HIDE DEF f, h, below
  <2> QED  BY <1>5, <2>1, <2>2, TwoLaid
<1> HIDE DEF f, h, below
<1>7. Finds(f)' /\ Finds(h)'
  BY <1>5 DEF Finds, First
<1>8. \A g \in On(below) : Lies(h, g, Stops') /\ Lies(f, g, Stops')
  BY <1>3, <1>4, <1>5 DEF Calm, Lies, Ending, Asks, Way, First
<1>9. Lies(f, h, Stops')
  BY <1>5 DEF Lies, HeadOnly, Ending, Asks, Way, First
<1>10. Kept(<<h>> \o below) /\ On(<<h>> \o below) = {h} \cup On(below)
       /\ Head(<<h>> \o below) = h /\ <<h>> \o below # <<>>
  BY <1>4, <1>5, <1>7, <1>8, KeptLaid
<1>11. \A g \in On(<<h>> \o below) : Lies(f, g, Stops')
  BY <1>8, <1>9, <1>10
<1>12. /\ Kept(calls') /\ Head(calls') = f /\ Tail(calls') = <<h>> \o below
       /\ calls' # <<>>
  BY <1>5, <1>6, <1>7, <1>10, <1>11, KeptLaid
<1>13. Adjacent' /\ ~Running("startAttempt")'
  BY <1>5, <1>10, <1>12 DEF Adjacent, Running
<1>14. StackFits'  BY <1>12, <1>13, StackFitsKept
<1>15. LiveFits'
  <2>1. ~Live'  BY <1>13 DEF Live, Clear
  <2> QED  BY <2>1 DEF LiveFits
<1>16. OwedFits' /\ MicrophoneFits'
  BY <1>2 DEF OwedFits, MicrophoneFits
<1>17. OpenFits'
  BY <1>1 DEF OpenFits, Runs, StateFits, Clear
<1>18. HoldsFits'
  BY <1>1, <1>2 DEF HoldsFits, Runs, StateFits, Clear
<1> QED  BY <1>14, <1>15, <1>16, <1>17, <1>18 DEF StateFits

\* The state once the current attempt is over and no other opens.
LEMMA RestsFits ==
    ASSUME NEW rest, Clear(rest), UNCHANGED <<phase, microphone>>,
           settings, attempts'.id = attempts.id, attempts'.transcriber,
           ~between'.awaitingProvider, ~between'.finishingPausedAttempt,
           ~Running("startAttempt")',
           \/ between'.endedDuringStop = between.endedDuringStop
           \/ phase = "Stopping" /\ ~microphoneStopped
    PROVE  StateFits'
<1>1. /\ Runs /\ Inv /\ attempts.id \in Nat /\ retiredAttempt \in Nat
      /\ openOwed \in BOOLEAN /\ settings'
  BY Types DEF Clear, Runs
<1>2. LiveFits'
  <2>1. ~Live'  BY DEF Live, Clear
  <2> QED  BY <2>1 DEF LiveFits
<1>3. OwedFits'
  BY <1>1 DEF OwedFits, Runs, StateFits, Clear
<1>4. MicrophoneFits'
  BY <1>1 DEF MicrophoneFits, Runs, StateFits, Clear
<1>5. OpenFits'
  BY <1>1 DEF OpenFits, Runs, StateFits, Clear
<1>6. HoldsFits'
  BY <1>1 DEF HoldsFits, Runs, StateFits, Clear
<1> QED  BY <1>2, <1>3, <1>4, <1>5, <1>6 DEF StateFits

\* The report is taken, and the code it came from goes on.
LEMMA GoesOnRuns ==
    ASSUME NEW rest, Clear(rest), Inv', UNCHANGED <<phase, microphone>>, calls' = rest,
           settings, attempts'.id = attempts.id, attempts'.transcriber,
           ~between'.awaitingProvider, ~between'.finishingPausedAttempt,
           \/ between'.endedDuringStop = between.endedDuringStop
           \/ phase = "Stopping" /\ ~microphoneStopped
    PROVE  StateFits' /\ StackFits'
<1>1. attempts.id \in Nat /\ attempts'.id >= attempts.id
  BY Types DEF Clear, Runs
<1>2. Kept(rest)  BY <1>1, ClearKept
<1>3. \A g \in On(calls') : g.at \notin HeadOnly  BY DEF Clear, Calm
<1>4. Adjacent' /\ ~Running("startAttempt")'  BY <1>2, <1>3, AdjacentCalm
<1>5. StackFits'  BY <1>2, <1>4, StackFitsKept
<1>6. StateFits'  BY <1>4, RestsFits
<1> QED  BY <1>5, <1>6

\* endedWhileStopping(): the speech ends, or once the microphone has stopped.
LEMMA StopsRuns ==
    ASSUME NEW rest, Clear(rest), Inv', NEW b \in Betweens,
           endedWhileStopping(b, rest), UNCHANGED <<phase, microphone>>,
           phase = "Stopping", attempts'.id = attempts.id, attempts'.transcriber,
           ~b.awaitingProvider, ~b.finishingPausedAttempt,
           b.endedDuringStop = between.endedDuringStop,
           \A g \in On(rest) : g.at \notin Ending
    PROVE  StateFits' /\ StackFits'
<1> DEFINE f == Call("end")
<1>1. /\ Runs /\ Inv /\ attempts.id \in Nat /\ attempts'.id >= attempts.id
      /\ settings
  BY Types DEF Clear, Runs, StateFits, HoldsFits
<1>2. /\ ~between'.awaitingProvider /\ ~between'.finishingPausedAttempt
      /\ \/ between'.endedDuringStop = between.endedDuringStop
         \/ phase = "Stopping" /\ ~microphoneStopped
  BY DEF endedWhileStopping, Betweens
<1>3. Kept(rest) /\ (Stops' <=> Stops)  BY <1>1, ClearKept
<1>4. CASE calls' = rest
  BY <1>1, <1>2, <1>4, GoesOnRuns
<1>5. CASE calls' = <<f>> \o rest /\ microphoneStopped
  <2>1. f \in Frames /\ f.at = "end"  BY DEF Call, Frames, Labels
  <2> HIDE DEF f
  <2>2. \A g \in On(rest) : Lies(f, g, Stops')
    BY <1>3, <2>1 DEF Clear, Calm, Lies, Ending, Asks, Way, First
  <2>3. calls' # <<>> /\ Head(calls') = f
    <3>1. rest \in Seq(Frames)  BY DEF Clear
    <3> QED  BY <1>5, <2>1, <3>1
  <2>4. ~Running("startAttempt")' /\ Adjacent'
    BY <2>1, <2>3, AdjacentElse DEF Running
  <2>5. ~Live'  BY <2>4 DEF Live, Clear
  <2>6. phase' = "Stopping" /\ microphoneStopped'  BY <1>5 DEF Clear
  <2>7. Finds(f)'  BY <2>1, <2>5, <2>6 DEF Finds, First
  <2>8. Kept(calls')  BY <1>3, <1>5, <2>1, <2>2, <2>7, KeptLaid
  <2>9. StackFits'  BY <2>4, <2>8, StackFitsKept
  <2>10. StateFits'  BY <1>1, <1>2, <2>4, RestsFits
  <2> QED  BY <2>9, <2>10
<1> QED  BY <1>4, <1>5 DEF endedWhileStopping

-----------------------------------------------------------------------------
(* What the attempts and the chain report, in any code it comes from.        *)

\* handleFailure().
LEMMA FailureRuns ==
    ASSUME NEW rest, Clear(rest), Inv', Live,
           NEW failure \in Failures, NEW offline \in BOOLEAN, NEW stable \in BOOLEAN,
           handleFailure(failure, offline, stable, rest),
           between.finishingPausedAttempt => \A g \in On(rest) : g.at \notin Ending
    PROVE  StateFits' /\ StackFits'
<1> DEFINE ended == [between EXCEPT !.finishingPausedAttempt = FALSE]
           left == IF stable THEN Reconnects ELSE attempts.reconnects
<1>1. /\ Runs /\ Inv /\ between \in Betweens /\ attempts \in Attempts
      /\ attempts.id \in Nat /\ openOwed \in BOOLEAN /\ openOwed' \in BOOLEAN
  <2>1. openOwed' \in BOOLEAN  BY DEF Inv, Typed, TypeOK
  <2> QED  BY <2>1, Types DEF Clear, Runs
<1>2. /\ attempts.transcriber /\ settings /\ ~Over /\ ~between.awaitingProvider
      /\ ~between.endedDuringStop /\ ~openOwed /\ ~openOwed'
  BY <1>1 DEF Runs, StateFits, LiveFits, Clear
<1>3. /\ ended \in Betweens /\ ~ended.finishingPausedAttempt
      /\ ~ended.awaitingProvider /\ ~ended.endedDuringStop
      /\ ended.endedDuringStop = between.endedDuringStop
  BY <1>1, <1>2 DEF Betweens
<1>4. left > 0 => /\ WithReconnects(left - 1) \in Attempts
                  /\ WithReconnects(left - 1).id = attempts.id
                  /\ WithReconnects(left - 1).transcriber
  BY <1>1, <1>2, ReconnectsAssumption DEF Attempts, WithReconnects
<1>5. phase \in {"Starting", "Listening"} => \A g \in On(rest) : g.at \notin Ending
  <2>1. phase \in {"Starting", "Listening"} => ~Stops  BY <1>2 DEF Stops
  <2>2. \A g \in On(rest) : Calm(g, Stops) /\ Finds(g)  BY DEF Clear
  <2> QED  BY <2>1, <2>2 DEF Calm, Finds, Ending, HeadOnly
<1>6. \/ /\ switchProvider(ended, rest) /\ UNCHANGED <<phase, microphone, attempts>>
         /\ between.finishingPausedAttempt \/ phase \in {"Starting", "Listening"}
      \/ /\ resumeAttempt(ended, attempts, rest) /\ UNCHANGED <<phase, microphone>>
         /\ phase = "Listening"
      \/ /\ endedWhileStopping(ended, rest) /\ UNCHANGED <<phase, microphone, attempts>>
         /\ phase = "Stopping" /\ between.finishingPausedAttempt
      \/ between' = ended /\ calls' = rest /\ UNCHANGED <<phase, microphone, attempts>>
      \/ /\ left > 0 /\ UNCHANGED <<phase, microphone>> /\ phase = "Listening"
         /\ resumeAttempt(ended, WithReconnects(left - 1), rest)
      \/ EndByFailure(ended, rest) /\ UNCHANGED attempts
  BY Zenon DEF handleFailure, passesOver
<1> HIDE DEF ended, left
<1>7. CASE /\ switchProvider(ended, rest) /\ UNCHANGED <<phase, microphone, attempts>>
           /\ between.finishingPausedAttempt \/ phase \in {"Starting", "Listening"}
  BY <1>2, <1>3, <1>5, <1>7, SwitchesRuns
<1>8. CASE /\ resumeAttempt(ended, attempts, rest) /\ UNCHANGED <<phase, microphone>>
           /\ phase = "Listening"
  BY <1>1, <1>2, <1>3, <1>8, ResumesRuns
<1>9. CASE /\ endedWhileStopping(ended, rest) /\ UNCHANGED <<phase, microphone, attempts>>
           /\ phase = "Stopping" /\ between.finishingPausedAttempt
  BY <1>2, <1>3, <1>9, StopsRuns
<1>10. CASE /\ between' = ended /\ calls' = rest
            /\ UNCHANGED <<phase, microphone, attempts>>
  BY <1>2, <1>3, <1>10, GoesOnRuns
<1>11. CASE /\ left > 0 /\ UNCHANGED <<phase, microphone>> /\ phase = "Listening"
            /\ resumeAttempt(ended, WithReconnects(left - 1), rest)
  BY <1>2, <1>3, <1>4, <1>11, ResumesRuns
<1>12. CASE EndByFailure(ended, rest) /\ UNCHANGED attempts
  BY <1>2, <1>3, <1>12, FailsRuns
<1> QED  BY <1>6, <1>7, <1>8, <1>9, <1>10, <1>11, <1>12

\* handleCompleted(): nothing that ends the input waits below.
LEMMA CompletedRuns ==
    ASSUME NEW rest, Clear(rest), Inv', Live, NEW offline \in BOOLEAN, NEW stable \in BOOLEAN,
           handleCompleted(offline, stable, rest), \A g \in On(rest) : g.at \notin Ending
    PROVE  StateFits' /\ StackFits'
<1> DEFINE ended == [between EXCEPT !.finishingPausedAttempt = FALSE]
<1>1. /\ Runs /\ Inv /\ between \in Betweens /\ attempts \in Attempts
      /\ attempts.id \in Nat /\ openOwed \in BOOLEAN /\ openOwed' \in BOOLEAN
  <2>1. openOwed' \in BOOLEAN  BY DEF Inv, Typed, TypeOK
  <2> QED  BY <2>1, Types DEF Clear, Runs
<1>2. /\ attempts.transcriber /\ settings /\ ~Over /\ ~between.awaitingProvider
      /\ ~between.endedDuringStop /\ ~openOwed'
  BY <1>1 DEF Runs, StateFits, LiveFits, Clear
<1>3. /\ ended \in Betweens /\ ~ended.finishingPausedAttempt
      /\ ~ended.awaitingProvider /\ ~ended.endedDuringStop
      /\ ended.endedDuringStop = between.endedDuringStop
  BY <1>1, <1>2 DEF Betweens
<1>4. /\ WithReconnects(Reconnects) \in Attempts
      /\ WithReconnects(Reconnects).id = attempts.id
      /\ WithReconnects(Reconnects).transcriber
  BY <1>1, <1>2, ReconnectsAssumption DEF Attempts, WithReconnects
<1>5. \/ /\ endedWhileStopping(ended, rest) /\ UNCHANGED <<phase, microphone, attempts>>
         /\ phase = "Stopping"
      \/ /\ resumeAttempt(ended, attempts, rest) /\ UNCHANGED <<phase, microphone>>
         /\ phase = "Listening"
      \/ /\ resumeAttempt(ended, WithReconnects(Reconnects), rest)
         /\ UNCHANGED <<phase, microphone>> /\ phase = "Listening"
      \/ handleFailure("dropped", offline, FALSE, rest)
      \/ between' = ended /\ calls' = rest /\ UNCHANGED <<phase, microphone, attempts>>
  BY Zenon DEF handleCompleted
<1> HIDE DEF ended
<1>6. CASE /\ endedWhileStopping(ended, rest) /\ UNCHANGED <<phase, microphone, attempts>>
           /\ phase = "Stopping"
  BY <1>2, <1>3, <1>6, StopsRuns
<1>7. CASE /\ resumeAttempt(ended, attempts, rest) /\ UNCHANGED <<phase, microphone>>
           /\ phase = "Listening"
  BY <1>1, <1>2, <1>3, <1>7, ResumesRuns
<1>8. CASE /\ resumeAttempt(ended, WithReconnects(Reconnects), rest)
           /\ UNCHANGED <<phase, microphone>> /\ phase = "Listening"
  BY <1>2, <1>3, <1>4, <1>8, ResumesRuns
<1>9. CASE handleFailure("dropped", offline, FALSE, rest)
  <2>1. "dropped" \in Failures  BY DEF Failures
  <2> QED  BY <1>9, <2>1, FailureRuns
<1>10. CASE /\ between' = ended /\ calls' = rest
            /\ UNCHANGED <<phase, microphone, attempts>>
  BY <1>2, <1>3, <1>10, GoesOnRuns
<1> QED  BY <1>5, <1>6, <1>7, <1>8, <1>9, <1>10

\* takeReadyProvider(), which finds the session still waiting for it.
LEMMA TakesRuns ==
    ASSUME NEW rest, Clear(rest), Inv', takeReadyProvider(rest),
           between.awaitingProvider, settings, phase # "Idle", ~Running("retire"),
           \A g \in On(rest) : g.at \notin Ending
    PROVE  StateFits' /\ StackFits'
<1> DEFINE ready == [between EXCEPT !.awaitingProvider = FALSE]
           refilled == [attempts EXCEPT !.transcriber = TRUE, !.reconnects = Reconnects]
<1>1. /\ Runs /\ Inv /\ between \in Betweens /\ attempts \in Attempts /\ phase \in Phases
      /\ attempts.id \in Nat /\ openOwed \in BOOLEAN /\ openOwed' \in BOOLEAN
  <2>1. openOwed' \in BOOLEAN  BY DEF Inv, Typed, TypeOK
  <2> QED  BY <2>1, Types DEF Clear, Runs
<1>2. /\ ~Over /\ ~openOwed' /\ ~between.finishingPausedAttempt /\ ~partial
      /\ phase # "Stopping" => ~between.endedDuringStop
  BY <1>1 DEF Runs, StateFits, OwedFits, HoldsFits, Clear, Over
<1>3. /\ ready \in Betweens /\ ~ready.finishingPausedAttempt /\ ~ready.awaitingProvider
      /\ ready.endedDuringStop = between.endedDuringStop
  BY <1>1, <1>2 DEF Betweens
<1>4. refilled \in Attempts /\ refilled.id = attempts.id /\ refilled.transcriber
  BY <1>1, ReconnectsAssumption DEF Attempts
<1>5. UNCHANGED <<phase, microphone>>  BY DEF takeReadyProvider
<1>6. \/ /\ openFirstAttempt(ready, refilled, rest)
         /\ phase = "Starting" /\ ~microphoneStarting
      \/ resumeAttempt(ready, refilled, rest) /\ phase \in {"Starting", "Listening"}
      \/ /\ resumeAttempt(ready, refilled, <<Call("finishPaused")>> \o rest)
         /\ phase = "Paused"
      \/ between' = ready /\ attempts' = refilled /\ calls' = rest
      \/ endedWhileStopping(ready, rest) /\ attempts' = refilled /\ phase = "Stopping"
  BY Zenon DEF takeReadyProvider
<1> HIDE DEF ready, refilled
<1>7. CASE /\ openFirstAttempt(ready, refilled, rest)
           /\ phase = "Starting" /\ ~microphoneStarting
  <2>0. PICK f \in Frames : f = CallWith("openedFirst", attempts.id + 1)
    <3>1. CallWith("openedFirst", attempts.id + 1) \in Frames
      BY <1>1 DEF CallWith, Frames, Labels
    <3> QED  BY <3>1
  <2>1. f \in Frames /\ f.at = "openedFirst" /\ f.arg = attempts.id + 1
    BY <1>1, <2>0 DEF CallWith
  <2>2. OpenAttempt(ready, refilled, <<f>> \o rest)
    BY <1>4, <1>7, <2>0 DEF openFirstAttempt
  <2>3. attempts'.id = attempts.id + 1
    BY <1>4, <2>2 DEF OpenAttempt, Attempts
  <2>4. Finds(f)'
    <3>1. /\ f.arg = attempts'.id /\ f.arg <= attempts'.id
          /\ ~microphoneStarting' /\ settings'
      BY <1>1, <1>7, <2>1, <2>3 DEF Clear
    <3> QED  BY <2>1, <3>1 DEF Finds, First
  <2>5. ASSUME NEW g \in On(rest)  PROVE  Lies(f, g, Stops')
    <3>1. g \in Frames /\ Finds(g) /\ Calm(g, Stops)  BY DEF Clear
    <3>2. g.arg \in Nat /\ (g.at \in First => g.arg <= attempts.id)
      BY <3>1 DEF Frames, Finds
    <3>3. g.at \in First => g.arg < f.arg  BY <1>1, <2>1, <3>2
    <3> QED  BY <2>1, <3>1, <3>3 DEF Calm, Lies, Ending, Asks, Way
  <2>6. f.at \in {"markEmpty", "endHeld", "finishPaused", "openedFirst"}  BY <2>1
  <2>7. /\ phase = "Starting" /\ UNCHANGED <<phase, microphone>>
        /\ ~ready.awaitingProvider /\ ~ready.endedDuringStop
    BY <1>2, <1>3, <1>5, <1>7
  <2>8. phase # "Paused" /\ phase # "Stopping"  BY <2>7
  <2> QED  BY <1>2, <1>3, <1>4, <2>1, <2>2, <2>4, <2>5, <2>6, <2>7, <2>8, OpensOver
<1>8. CASE resumeAttempt(ready, refilled, rest) /\ phase \in {"Starting", "Listening"}
  BY <1>2, <1>3, <1>4, <1>5, <1>8, ResumesRuns
<1>9. CASE /\ resumeAttempt(ready, refilled, <<Call("finishPaused")>> \o rest)
           /\ phase = "Paused"
  <2> DEFINE f == Call("finishPaused")
  <2>1. f \in Frames /\ f.at = "finishPaused"  BY DEF Call, Frames, Labels
  <2>2. resumeAttempt(ready, refilled, <<f>> \o rest)  BY <1>9
  <2> HIDE DEF f
  <2>3. attempts'.transcriber
    BY <1>4, <2>2 DEF resumeAttempt, OpenAttempt, Attempts
  <2>4. Finds(f)'
    BY <1>2, <1>5, <1>9, <2>1, <2>3 DEF Finds, First, Clear
  <2>5. \A g \in On(rest) : Lies(f, g, Stops')
    BY <2>1 DEF Clear, Calm, Lies, Ending, Asks, Way, First
  <2>6. f.at \in {"markEmpty", "endHeld", "finishPaused", "openedFirst"}  BY <2>1
  <2> QED  BY <1>2, <1>3, <1>4, <1>5, <1>9, <2>1, <2>2, <2>4, <2>5, <2>6, OpensOver
<1>10. CASE between' = ready /\ attempts' = refilled /\ calls' = rest
  BY <1>3, <1>4, <1>5, <1>10, GoesOnRuns
<1>11. CASE endedWhileStopping(ready, rest) /\ attempts' = refilled /\ phase = "Stopping"
  BY <1>3, <1>4, <1>5, <1>11, StopsRuns
<1> QED  BY <1>6, <1>7, <1>8, <1>9, <1>10, <1>11

-----------------------------------------------------------------------------
(* Code that runs on and leaves the session, its attempt and its flags.      *)

Same ==
    /\ UNCHANGED <<phase, settings, microphoneStarting, microphoneStopped,
                   noAttemptToFinish, retiredAttempt, attempts, chain, microphone>>
    /\ provider'.open = provider.open
    /\ between'.awaitingProvider = between.awaitingProvider
    /\ between'.endedDuringStop = between.endedDuringStop
    /\ between'.finishingPausedAttempt = between.finishingPausedAttempt
    /\ between.held = <<>> /\ phase = "Idle" => between'.held = <<>>
    /\ openOwed' => openOwed
    /\ partial' => partial

LEMMA SameFits ==
    ASSUME Runs, Same, ~Running("startAttempt"), ~Running("startAttempt")',
           Running("retire") => ~partial',
           Live /\ (\E f \in On(calls) : f.at = "finishPaused") =>
              \E f \in On(calls') : f.at = "finishPaused"
    PROVE  StateFits' /\ (Live' <=> Live)
<1>1. /\ openOwed \in BOOLEAN /\ partial \in BOOLEAN /\ StateFits
      /\ UNCHANGED <<phase, settings, microphoneStarting, microphoneStopped,
                     noAttemptToFinish, retiredAttempt, attempts, chain, microphone>>
  BY Types DEF Runs, Same
<1>2. Live' <=> Live  BY DEF Live, Same
<1>3. LiveFits'  BY <1>1, <1>2 DEF StateFits, LiveFits, Same, Over
<1>4. OwedFits'  BY <1>1 DEF StateFits, OwedFits, Same
<1>5. OpenFits'  BY <1>1 DEF StateFits, OpenFits, Same
<1>6. HoldsFits'  BY <1>1 DEF StateFits, HoldsFits, Same
<1>7. MicrophoneFits'  BY <1>1 DEF StateFits, MicrophoneFits
<1> QED  BY <1>2, <1>3, <1>4, <1>5, <1>6, <1>7 DEF StateFits

LEMMA SameFinds ==
    ASSUME Same, Live' => Live, NEW g, Finds(g)
    PROVE  Finds(g)'
<1>1. /\ UNCHANGED <<phase, settings, microphoneStarting, microphoneStopped,
                     noAttemptToFinish, retiredAttempt, attempts, chain, microphone>>
      /\ between'.awaitingProvider = between.awaitingProvider
      /\ between'.finishingPausedAttempt = between.finishingPausedAttempt
      /\ partial' => partial
  BY DEF Same
<1>2. Stops' <=> Stops  BY <1>1 DEF Stops, Over
<1> QED  BY <1>1, <1>2 DEF Finds

\* What the running call returns to, when nothing it relies on changed.
LEMMA SameKept ==
    ASSUME Runs, Same, NEW label, Running(label), label # "startAttempt",
           ~Running("startAttempt")'
    PROVE  /\ Kept(Tail(calls)) /\ (Stops' <=> Stops)
           /\ \A g \in On(Tail(calls)) : g \in Frames /\ Lies(Head(calls), g, Stops) /\ Finds(g)
<1>1. /\ Tail(calls) \in Seq(Frames) /\ Ordered(Tail(calls), Stops)
      /\ \A g \in On(Tail(calls)) : /\ g \in Frames /\ Finds(g)
                                    /\ Lies(Head(calls), g, Stops)
  BY AtHead
<1>2. ~Running("startAttempt")  BY DEF Running
<1>3. Live' <=> Live  BY <1>2 DEF Live, Same
<1>4. Stops' <=> Stops  BY DEF Stops, Over, Same
<1>5. \A g \in On(Tail(calls)) : Finds(g)'  BY <1>1, <1>3, SameFinds
<1>6. Ordered(Tail(calls), Stops')  BY <1>1, <1>4, TruthValues, OrderedStops
<1> QED  BY <1>1, <1>4, <1>5, <1>6 DEF Kept

\* The running call returns.
LEMMA ReturnsRuns ==
    ASSUME Runs, Same, NEW label, Running(label), calls' = Tail(calls),
           label # "startAttempt", label = "retire" => ~partial',
           label = "finishPaused" => ~Live
    PROVE  StateFits' /\ StackFits'
<1>1. /\ \A g \in On(Tail(calls)) : g \in Frames /\ Lies(Head(calls), g, Stops)
      /\ On(calls) = {Head(calls)} \cup On(Tail(calls)) /\ Head(calls).at = label
      /\ Tail(calls) # <<>> => Head(Tail(calls)) \in On(Tail(calls))
  BY AtHead
<1>2. \A g \in On(calls') : g.at \notin HeadOnly  BY <1>1 DEF Lies
<1>3. ~Running("startAttempt")'  BY <1>1, <1>2 DEF Running, HeadOnly
<1>4. Kept(calls')  BY <1>3, SameKept
<1>5. StackFits'  BY <1>2, <1>4, AdjacentCalm, StackFitsKept
<1>6. ~Running("startAttempt") /\ (Running("retire") => ~partial')
  BY DEF Running
<1>7. Live /\ (\E f \in On(calls) : f.at = "finishPaused") =>
         \E f \in On(calls') : f.at = "finishPaused"
  BY <1>1
<1>8. StateFits'  BY <1>3, <1>6, <1>7, SameFits
<1> QED  BY <1>5, <1>8

\* It goes on as a stack laid over what it returns to.
LEMMA GoesRuns ==
    ASSUME Runs, Same, NEW label, Running(label), Kept(calls'),
           label \notin {"startAttempt", "finishPaused"}, label = "retire" => ~partial',
           calls' # <<>>, Head(calls').at \notin {"startAttempt", "retire", "sessionEnds"},
           On(Tail(calls)) \subseteq On(calls')
    PROVE  StateFits' /\ StackFits'
<1>1. On(calls) = {Head(calls)} \cup On(Tail(calls)) /\ Head(calls).at = label
  BY AtHead
<1>2. ~Running("startAttempt") /\ ~Running("startAttempt")' /\ (Running("retire") => ~partial')
  BY DEF Running
<1>3. StackFits'  BY AdjacentElse, StackFitsKept
<1>4. (\E f \in On(calls) : f.at = "finishPaused") =>
         \E f \in On(calls') : f.at = "finishPaused"
  BY <1>1
<1>5. StateFits'  BY <1>2, <1>4, SameFits
<1> QED  BY <1>3, <1>5

\* A frame the code pushes.
LEMMA Pushes ==
    ASSUME NEW label \in Labels
    PROVE  Call(label) \in Frames /\ Call(label).at = label
BY DEF Call, Frames

\* It goes on as one call, f, that may lie over all it returns to.
LEMMA GoesOnceRuns ==
    ASSUME Runs, Same, NEW label, Running(label), NEW f \in Frames,
           calls' = <<f>> \o Tail(calls), Finds(f)',
           label \notin {"startAttempt", "finishPaused"}, label = "retire" => ~partial',
           f.at \notin {"startAttempt", "retire", "sessionEnds"},
           \A g \in On(Tail(calls)) :
              Lies(Head(calls), g, Stops) /\ Finds(g) => Lies(f, g, Stops)
    PROVE  StateFits' /\ StackFits'
<1>1. Tail(calls) \in Seq(Frames)  BY AtHead
<1>2. calls' # <<>> /\ Head(calls') = f  BY <1>1
<1>3. ~Running("startAttempt")'  BY <1>2 DEF Running
<1>4. /\ Kept(Tail(calls)) /\ (Stops' <=> Stops)
      /\ \A g \in On(Tail(calls)) : Lies(Head(calls), g, Stops) /\ Finds(g)
  BY <1>3, SameKept
<1>5. \A g \in On(Tail(calls)) : Lies(f, g, Stops')
  BY <1>4 DEF Lies
<1>6. Kept(calls') /\ On(calls') = {f} \cup On(Tail(calls))
  BY <1>4, <1>5, KeptLaid
<1> QED  BY <1>2, <1>6, GoesRuns

\* Code that only returns.
LEMMA ReturnersRun ==
    ASSUME Runs, MarkEmpty \/ HandlersReturn \/ ReturnOvertaken
    PROVE  StateFits' /\ StackFits'
<1> USE DEF speechVars, flagVars, resumeVars, providerVars, heardVars
<1>1. CASE MarkEmpty
  <2>1. Same /\ Running("markEmpty") /\ calls' = Tail(calls)
    BY <1>1 DEF Same, MarkEmpty, Return
  <2> QED  BY <2>1, ReturnsRuns
<1>2. CASE HandlersReturn
  <2>1. Same /\ Running("handlers") /\ calls' = Tail(calls)
    BY <1>2 DEF Same, HandlersReturn, Return
  <2> QED  BY <2>1, ReturnsRuns
<1>3. CASE ReturnOvertaken
  <2>1. Same /\ Running("overtaken") /\ calls' = Tail(calls)
    BY <1>3 DEF Same, ReturnOvertaken, Return
  <2> QED  BY <2>1, ReturnsRuns
<1> QED  BY <1>1, <1>2, <1>3

\* startAttempt() commits the last attempt's partial, which no finish of a
\* paused attempt waits for.
LEMMA CommitPartialRuns ==
    ASSUME Runs, CommitPartial
    PROVE  StateFits' /\ StackFits'
<1> USE DEF speechVars, flagVars, resumeVars, providerVars, heardVars
<1>1. Running("committed") /\ Same  BY DEF CommitPartial, Same
<1>2. CASE Return
  <2>1. calls' = Tail(calls)  BY <1>2 DEF Return
  <2> QED  BY <1>1, <2>1, ReturnsRuns
<1>3. CASE partial /\ GoOn(<<Call("handlers")>>)
  <2> DEFINE f == Call("handlers")
  <2>1. f \in Frames /\ f.at = "handlers"  BY Pushes DEF Labels
  <2>2. calls' = <<f>> \o Tail(calls)  BY <1>3 DEF GoOn
  <2> HIDE DEF f
  <2>3. Head(calls).at = "committed"  BY <1>1, AtHead
  <2>4. ASSUME NEW g \in On(Tail(calls)), Lies(Head(calls), g, Stops), Finds(g)
        PROVE  Lies(f, g, Stops)
    <3>1. g.at # "finishPaused"  BY <1>3, <2>4 DEF Finds
    <3> QED  BY <2>1, <2>3, <2>4, <3>1 DEF Lies, Ending, Asks, Way, First
  <2>5. Finds(f)'  BY <2>1 DEF Finds, First
  <2>6. f.at \notin {"startAttempt", "retire", "sessionEnds"}  BY <2>1
  <2> QED  BY <1>1, <2>1, <2>2, <2>4, <2>5, <2>6, GoesOnceRuns
<1> QED  BY <1>2, <1>3 DEF CommitPartial

\* retireAttempt() commits what the retired attempt leaves; no handler acts on
\* it.
LEMMA RetireAttemptRuns ==
    ASSUME Runs, RetireAttempt, Ordinarily
    PROVE  StateFits' /\ StackFits'
<1> USE DEF speechVars, flagVars, resumeVars, providerVars, heardVars
<1>1. Running("retire") /\ Same /\ ~partial'  BY DEF RetireAttempt, Same
<1>2. GoOn(<<>>)  BY DEF RetireAttempt, Ordinarily
<1>3. Tail(calls) \in Seq(Frames)  BY <1>1, AtHead
<1>4. calls' = Tail(calls)  BY <1>2, <1>3 DEF GoOn
<1> QED  BY <1>1, <1>4, ReturnsRuns

\* A held chunk goes to the transcriber the speech holds.
LEMMA SendHeldAudioRuns ==
    ASSUME Runs, sendHeldAudio
    PROVE  StateFits' /\ StackFits'
<1> USE DEF speechVars, flagVars, resumeVars, providerVars, heardVars
<1>0. Running("sendHeldAudio") /\ between \in Betweens /\ between.held \in Seq(Nat)
  BY Types DEF Runs, sendHeldAudio
<1>1. /\ between'.awaitingProvider = between.awaitingProvider
      /\ between'.endedDuringStop = between.endedDuringStop
      /\ between'.finishingPausedAttempt = between.finishingPausedAttempt
      /\ between.held = <<>> => between'.held = <<>>
  BY <1>0 DEF sendHeldAudio, Betweens
<1>2. Same  BY <1>1 DEF sendHeldAudio, Same
<1>3. CASE Return
  <2>1. calls' = Tail(calls)  BY <1>3 DEF Return
  <2> QED  BY <1>0, <1>2, <2>1, ReturnsRuns
<1>4. CASE /\ ~between.awaitingProvider /\ between.held # <<>>
           /\ calls' = <<CallWith("sendAudio", Head(between.held))>> \o calls
  <2>1. Head(between.held) \in Nat  BY <1>0, <1>4
  <2>2. PICK f \in Frames : f = CallWith("sendAudio", Head(between.held))
    <3>1. CallWith("sendAudio", Head(between.held)) \in Frames
      BY <2>1 DEF CallWith, Frames, Labels
    <3> QED  BY <3>1
  <2>3. f.at = "sendAudio" /\ calls' = <<f>> \o calls  BY <1>4, <2>2 DEF CallWith
  <2>4. /\ calls \in Seq(Frames) /\ calls # <<>> /\ Ordered(calls, Stops)
        /\ Head(calls).at = "sendHeldAudio"
        /\ On(calls) = {Head(calls)} \cup On(Tail(calls))
        /\ \A g \in On(Tail(calls)) : Lies(Head(calls), g, Stops)
        /\ \A g \in On(calls) : g \in Frames /\ Finds(g)
    BY <1>0, AtHead DEF Runs, StackFits
  <2>5. calls' # <<>> /\ Head(calls') = f  BY <2>3, <2>4
  <2>6. ~Running("startAttempt")' /\ ~Running("startAttempt")
    BY <2>3, <2>4, <2>5 DEF Running
  <2>7. Live' <=> Live  BY <2>6, <1>2 DEF Live, Same
  <2>8. Stops' <=> Stops  BY <1>2 DEF Stops, Over, Same
  <2>9. Kept(calls)
    <3>1. \A g \in On(calls) : Finds(g)'  BY <1>2, <2>4, <2>7, SameFinds
    <3>2. Ordered(calls, Stops')  BY <2>4, <2>8, TruthValues, OrderedStops
    <3> QED  BY <2>4, <3>1, <3>2 DEF Kept
  <2>10. attempts'.transcriber
    BY <1>2, <1>4 DEF Runs, StateFits, HoldsFits, Same
  <2>11. Finds(f)'  BY <2>3, <2>10 DEF Finds, First
  <2>12. \A g \in On(calls) : Lies(f, g, Stops')
    <3>1. Lies(f, Head(calls), Stops')
      BY <2>3, <2>4 DEF Lies, HeadOnly, Ending, Asks, First
    <3>2. \A g \in On(Tail(calls)) : Lies(f, g, Stops')
      BY <2>3, <2>4, <2>8 DEF Lies, Ending, Asks, Way, First
    <3> QED  BY <2>4, <3>1, <3>2
  <2>13. Kept(calls') /\ On(calls') = {f} \cup On(calls)
    BY <2>3, <2>9, <2>11, <2>12, KeptLaid
  <2>14. On(Tail(calls)) \subseteq On(calls')
         /\ Head(calls').at \notin {"startAttempt", "retire", "sessionEnds"}
    BY <2>3, <2>4, <2>5, <2>13
  <2> QED  BY <1>0, <1>2, <2>5, <2>13, <2>14, GoesRuns
<1> QED  BY <1>3, <1>4 DEF sendHeldAudio

\* endInput() ends the input of the transcriber the speech holds.
LEMMA EndInputRuns ==
    ASSUME Runs, EndInput
    PROVE  StateFits' /\ StackFits'
<1> USE DEF speechVars, flagVars, resumeVars, providerVars, heardVars
<1>0. Running("endInput") /\ between \in Betweens  BY Types DEF Runs, EndInput
<1>1. /\ between'.awaitingProvider = between.awaitingProvider
      /\ between'.endedDuringStop = between.endedDuringStop
      /\ between'.finishingPausedAttempt = between.finishingPausedAttempt
      /\ between'.held = between.held
  BY <1>0 DEF EndInput, Betweens
<1>2. Same  BY <1>1 DEF EndInput, Same
<1>3. CASE Return
  <2>1. calls' = Tail(calls)  BY <1>3 DEF Return
  <2> QED  BY <1>0, <1>2, <2>1, ReturnsRuns
<1>4. CASE GoOn(<<Call("finishInput")>>)
  <2> DEFINE f == Call("finishInput")
  <2>1. f \in Frames /\ f.at = "finishInput"  BY Pushes DEF Labels
  <2>2. calls' = <<f>> \o Tail(calls)  BY <1>4 DEF GoOn
  <2> HIDE DEF f
  <2>3. Head(calls).at = "endInput" /\ Finds(Head(calls))  BY <1>0, AtHead
  <2>4. \A g \in On(Tail(calls)) : Lies(Head(calls), g, Stops) => Lies(f, g, Stops)
    BY <2>1, <2>3 DEF Lies, Ending, Asks, Way, First
  <2>5. attempts'.transcriber  BY <1>2, <2>3 DEF Finds, Same
  <2>6. Finds(f)'  BY <2>1, <2>5 DEF Finds, First
  <2>7. f.at \notin {"startAttempt", "retire", "sessionEnds"}  BY <2>1
  <2> QED  BY <1>0, <1>2, <2>1, <2>2, <2>4, <2>6, <2>7, GoesOnceRuns
<1> QED  BY <1>3, <1>4 DEF EndInput

\* stopMicrophone(): a microphone already off goes on to proceed().
LEMMA StopMicrophoneRuns ==
    ASSUME Runs, StopMicrophone
    PROVE  StateFits' /\ StackFits'
<1> USE DEF speechVars, flagVars, resumeVars, providerVars, heardVars
<1>1. Running("stopMicrophone") /\ Same  BY DEF StopMicrophone, Same
<1>2. CASE Return
  <2>1. calls' = Tail(calls)  BY <1>2 DEF Return
  <2> QED  BY <1>1, <2>1, ReturnsRuns
<1>3. CASE phase = "Stopping" /\ ~microphone /\ GoOn(<<Call("proceed")>>)
  <2> DEFINE f == Call("proceed")
  <2>1. f \in Frames /\ f.at = "proceed"  BY Pushes DEF Labels
  <2>2. calls' = <<f>> \o Tail(calls)  BY <1>3 DEF GoOn
  <2> HIDE DEF f
  <2>3. Head(calls).at = "stopMicrophone"  BY <1>1, AtHead
  <2>4. \A g \in On(Tail(calls)) : Lies(Head(calls), g, Stops) => Lies(f, g, Stops)
    BY <2>1, <2>3 DEF Lies, Ending, Asks, Way, First
  <2>5. phase' = "Stopping" /\ ~microphone'  BY <1>1, <1>3 DEF Same
  <2>6. Finds(f)'  BY <2>1, <2>5 DEF Finds, First
  <2>7. f.at \notin {"startAttempt", "retire", "sessionEnds"}  BY <2>1
  <2> QED  BY <1>1, <2>1, <2>2, <2>4, <2>6, <2>7, GoesOnceRuns
<1> QED  BY <1>2, <1>3 DEF StopMicrophone

\* endInput() is pushed over calls that end neither the input nor the speech.
LEMMA InputEndsKept ==
    ASSUME NEW rest, Kept(rest), attempts'.transcriber,
           Stops' \/ between'.finishingPausedAttempt,
           \A g \in On(rest) : g.at \notin HeadOnly \cup Ending \cup Asks \cup {"switch"}
    PROVE  /\ Kept(endInput \o rest) /\ endInput \o rest # <<>>
           /\ On(endInput \o rest) = {Call("sendHeldAudio"), Call("endInput")} \cup On(rest)
           /\ Head(endInput \o rest) = Call("sendHeldAudio")
<1> DEFINE f == Call("sendHeldAudio")
           h == Call("endInput")
<1>1. f \in Frames /\ f.at = "sendHeldAudio" /\ h \in Frames /\ h.at = "endInput"
  BY Pushes DEF Labels
<1>2. rest \in Seq(Frames)  BY DEF Kept
<1> HIDE DEF f, h
<1>3. <<f, h>> \o rest = <<f>> \o (<<h>> \o rest)  BY <1>1, <1>2, TwoLaid
<1>4. Finds(f)' /\ Finds(h)'
  <2>1. Finds(f)'  BY <1>1 DEF Finds, First
  <2>2. Finds(h)'  BY <1>1 DEF Finds, First
  <2> QED  BY <2>1, <2>2
<1>5. \A g \in On(rest) : Lies(f, g, Stops') /\ Lies(h, g, Stops')
  BY <1>1 DEF Lies, Ending, Asks, Way, First
<1>6. Lies(f, h, Stops')
  BY <1>1 DEF Lies, HeadOnly, Ending, Asks, Way, First
<1>7. Kept(<<h>> \o rest) /\ On(<<h>> \o rest) = {h} \cup On(rest)
  BY <1>1, <1>4, <1>5, KeptLaid
<1>8. \A g \in On(<<h>> \o rest) : Lies(f, g, Stops')
  BY <1>5, <1>6, <1>7
<1>9. /\ Kept(<<f, h>> \o rest) /\ <<f, h>> \o rest # <<>>
      /\ On(<<f, h>> \o rest) = {f, h} \cup On(rest) /\ Head(<<f, h>> \o rest) = f
  BY <1>1, <1>3, <1>4, <1>7, <1>8, KeptLaid
<1> QED  BY <1>9 DEF endInput, f, h

\* The first attempt opened: what was held goes to it, then the session is told.
LEMMA OpenedFirstRuns ==
    ASSUME Runs, OpenedFirst
    PROVE  StateFits' /\ StackFits'
<1> USE DEF speechVars, flagVars, resumeVars, providerVars, heardVars
<1>1. Running("openedFirst") /\ Same  BY DEF OpenedFirst, Same
<1>2. CASE Return
  <2>1. calls' = Tail(calls)  BY <1>2 DEF Return
  <2> QED  BY <1>1, <2>1, ReturnsRuns
<1>3. CASE /\ Head(calls).arg = attempts.id
           /\ GoOn(<<Call("sendHeldAudio"), CallWith("readyFirst", attempts.id)>>)
  <2> DEFINE f == Call("sendHeldAudio")
  <2>0. attempts.id \in Nat  BY Types DEF Runs
  <2>1. PICK h \in Frames : h = CallWith("readyFirst", attempts.id)
    <3>1. CallWith("readyFirst", attempts.id) \in Frames
      BY <2>0 DEF CallWith, Frames, Labels
    <3> QED  BY <3>1
  <2>2. /\ h.at = "readyFirst" /\ h.arg = attempts.id
        /\ f \in Frames /\ f.at = "sendHeldAudio"
    BY <2>1, Pushes DEF CallWith, Labels
  <2>3. /\ Tail(calls) \in Seq(Frames) /\ Head(calls).at = "openedFirst"
        /\ Finds(Head(calls))
    BY <1>1, AtHead
  <2>4. calls' = <<f>> \o (<<h>> \o Tail(calls))
    <3>1. calls' = <<f, h>> \o Tail(calls)  BY <1>3, <2>1 DEF GoOn
    <3> HIDE DEF f
    <3> QED  BY <2>2, <2>3, <3>1, TwoLaid
  <2> HIDE DEF f
  <2>5. calls' # <<>> /\ Head(calls') = f
    <3>1. <<h>> \o Tail(calls) \in Seq(Frames)  BY <2>3
    <3> QED  BY <2>2, <2>4, <3>1
  <2>6. ~Running("startAttempt")'  BY <2>2, <2>5 DEF Running
  <2>7. /\ Kept(Tail(calls)) /\ (Stops' <=> Stops)
        /\ \A g \in On(Tail(calls)) : Lies(Head(calls), g, Stops)
    BY <1>1, <2>6, SameKept
  <2>8. Finds(f)' /\ Finds(h)'
    <3>1. Finds(f)'  BY <2>2 DEF Finds, First
    <3>2. ~microphoneStarting' /\ ~(phase' = "Starting" /\ ~settings')
      BY <1>1, <1>3, <2>3 DEF Finds, First, Same
    <3>3. h.arg <= attempts'.id  BY <1>1, <2>0, <2>2 DEF Same
    <3> QED  BY <2>2, <3>1, <3>2, <3>3 DEF Finds, First
  <2>9. ASSUME NEW g \in On(Tail(calls))
        PROVE  Lies(f, g, Stops') /\ Lies(h, g, Stops')
    <3>1. Lies(Head(calls), g, Stops)  BY <2>7
    <3>2. Lies(f, g, Stops')
      BY <2>2, <2>3, <2>7, <3>1 DEF Lies, Ending, Asks, Way, First
    <3>3. Lies(h, g, Stops')
      BY <1>3, <2>2, <2>3, <2>7, <3>1 DEF Lies, Ending, Asks, Way, First
    <3> QED  BY <3>2, <3>3
  <2>10. Lies(f, h, Stops')
    BY <2>2 DEF Lies, HeadOnly, Ending, Asks, Way, First
  <2>11. Kept(<<h>> \o Tail(calls)) /\ On(<<h>> \o Tail(calls)) = {h} \cup On(Tail(calls))
    BY <2>7, <2>8, <2>9, KeptLaid
  <2>12. \A g \in On(<<h>> \o Tail(calls)) : Lies(f, g, Stops')
    BY <2>9, <2>10, <2>11
  <2>13. Kept(calls') /\ On(calls') = {f, h} \cup On(Tail(calls))
    <3> DEFINE s == <<h>> \o Tail(calls)
    <3>1. Kept(s) /\ On(s) = {h} \cup On(Tail(calls)) /\ calls' = <<f>> \o s
      BY <2>4, <2>11
    <3>2. \A g \in On(s) : Lies(f, g, Stops')  BY <2>12
    <3> HIDE DEF s
    <3>3. Kept(<<f>> \o s) /\ On(<<f>> \o s) = {f} \cup On(s)
      BY <2>2, <2>8, <3>1, <3>2, KeptLaid
    <3> QED  BY <3>1, <3>3
  <2>14. /\ Head(calls').at \notin {"startAttempt", "retire", "sessionEnds"}
         /\ On(Tail(calls)) \subseteq On(calls')
    BY <2>2, <2>5, <2>13
  <2> QED  BY <1>1, <2>5, <2>13, <2>14, GoesRuns
<1> QED  BY <1>2, <1>3 DEF OpenedFirst

\* end()'s attempt has the held audio, and its input ends.
LEMMA EndHeldRuns ==
    ASSUME Runs, EndHeld
    PROVE  StateFits' /\ StackFits'
<1> USE DEF speechVars, flagVars, resumeVars, providerVars, heardVars
<1>1. Running("endHeld") /\ Same  BY DEF EndHeld, Same
<1>2. CASE Return
  <2>1. calls' = Tail(calls)  BY <1>2 DEF Return
  <2> QED  BY <1>1, <2>1, ReturnsRuns
<1>3. CASE GoOn(endInput)
  <2>1. calls' = endInput \o Tail(calls)  BY <1>3 DEF GoOn
  <2>2. /\ Tail(calls) \in Seq(Frames) /\ Head(calls).at = "endHeld" /\ Finds(Head(calls))
        /\ \A g \in On(Tail(calls)) : Lies(Head(calls), g, Stops)
    BY <1>1, AtHead
  <2>3. ~Running("startAttempt")'
    <3>1. calls' # <<>> /\ Head(calls') = Call("sendHeldAudio")
      BY <2>1, <2>2 DEF endInput
    <3> QED  BY <3>1 DEF Running, Call
  <2>4. Kept(Tail(calls)) /\ (Stops' <=> Stops)
    BY <1>1, <2>3, SameKept
  <2>5. \A g \in On(Tail(calls)) : g.at \notin HeadOnly \cup Ending \cup Asks \cup {"switch"}
    BY <2>2 DEF Lies, Ending, Asks, Way
  <2>6. attempts'.transcriber /\ Stops'  BY <1>1, <2>2, <2>4 DEF Finds, Same
  <2>7. /\ Kept(calls') /\ calls' # <<>> /\ Head(calls') = Call("sendHeldAudio")
        /\ On(Tail(calls)) \subseteq On(calls')
    BY <2>1, <2>4, <2>5, <2>6, InputEndsKept
  <2>8. Call("sendHeldAudio").at = "sendHeldAudio"  BY DEF Call
  <2> QED  BY <1>1, <2>7, <2>8, GoesRuns
<1> QED  BY <1>2, <1>3 DEF EndHeld

\* proceed() goes on as the state announced asks for.
LEMMA ProceedRuns ==
    ASSUME Runs, proceed
    PROVE  StateFits' /\ StackFits'
<1> USE DEF speechVars, flagVars, resumeVars, providerVars, heardVars
<1> DEFINE first == IF finishOwed /\ between.finishingPausedAttempt THEN endInput ELSE <<>>
           then == CASE phase = "Listening" -> <<Call("proceedListening")>>
                     [] phase = "Stopping" -> <<Call("proceedStopping")>>
                     [] OTHER -> <<>>
<1>1. Running("proceed") /\ Same  BY DEF proceed, Same
<1>2. /\ Tail(calls) \in Seq(Frames) /\ Head(calls).at = "proceed" /\ Finds(Head(calls))
      /\ \A g \in On(Tail(calls)) : Lies(Head(calls), g, Stops)
      /\ Tail(calls) # <<>> => Head(Tail(calls)) \in On(Tail(calls))
  BY <1>1, AtHead
<1>3. \A g \in On(Tail(calls)) : g.at \notin HeadOnly \cup Ending \cup Asks \cup {"switch"}
  BY <1>2 DEF Lies, Ending, Asks, Way
<1>4. /\ \A label \in Labels : Call(label) \in Frames /\ Call(label).at = label
      /\ Call("sendHeldAudio") \in Frames /\ Call("endInput") \in Frames
      /\ Call("proceedListening") \in Frames /\ Call("proceedStopping") \in Frames
      /\ <<>> \in Seq(Frames)
  <2>1. \A label \in Labels : Call(label) \in Frames /\ Call(label).at = label
    BY Pushes
  <2> QED  BY <2>1 DEF Labels
<1>5. first \in Seq(Frames) /\ then \in Seq(Frames)
  BY <1>4 DEF endInput
<1>6. calls' = first \o (then \o Tail(calls))
  <2>1. calls' = (first \o then) \o Tail(calls)  BY DEF proceed, GoOn
  <2> DEFINE below == Tail(calls)
  <2>2. below \in Seq(Frames)  BY <1>2
  <2> HIDE DEF first, then, below
  <2>3. (first \o then) \o below = first \o (then \o below)
    BY <1>5, <2>2, ConcatAssociative
  <2> QED  BY <2>1, <2>3 DEF below
<1> DEFINE rest == then \o Tail(calls)
<1>7. /\ rest \in Seq(Frames)
      /\ \/ rest = Tail(calls)
         \/ rest = <<Call("proceedListening")>> \o Tail(calls)
         \/ rest = <<Call("proceedStopping")>> \o Tail(calls) /\ phase = "Stopping"
  BY <1>2, <1>4, <1>5
<1>8. calls' = rest \/ (calls' = endInput \o rest /\ between.finishingPausedAttempt)
  <2>1. first = <<>> \/ (first = endInput /\ between.finishingPausedAttempt)
    <3>1. CASE finishOwed /\ between.finishingPausedAttempt  BY <3>1
    <3>2. CASE ~(finishOwed /\ between.finishingPausedAttempt)  BY <3>2
    <3> QED  BY <3>1, <3>2
  <2> HIDE DEF first, rest
  <2>2. calls' = first \o rest  BY <1>6 DEF rest
  <2>3. first = <<>> => calls' = rest  BY <1>7, <2>2
  <2> QED  BY <2>1, <2>2, <2>3
<1> HIDE DEF rest, first, then
<1>9. ~Running("startAttempt")'
  <2>1. CASE calls' = endInput \o rest
    <3>1. calls' # <<>> /\ Head(calls') = Call("sendHeldAudio")
      BY <1>4, <1>7, <2>1 DEF endInput
    <3> QED  BY <3>1 DEF Running, Call
  <2>2. CASE calls' = rest
    <3>1. CASE calls' = Tail(calls)
      BY <1>2, <1>3, <3>1 DEF Running, HeadOnly
    <3>2. ASSUME NEW f \in Frames, calls' = <<f>> \o Tail(calls), f.at # "startAttempt"
          PROVE  ~Running("startAttempt")'
      <4>1. calls' # <<>> /\ Head(calls') = f  BY <1>2, <3>2
      <4> QED  BY <3>2, <4>1 DEF Running
    <3>3. Call("proceedListening").at # "startAttempt" /\ Call("proceedStopping").at # "startAttempt"
      BY DEF Call
    <3> QED  BY <1>4, <1>7, <2>2, <3>1, <3>2, <3>3
  <2> QED  BY <1>8, <2>1, <2>2
<1>10. Kept(Tail(calls)) /\ (Stops' <=> Stops)
  BY <1>1, <1>9, SameKept
<1>11. ASSUME NEW label \in {"proceedListening", "proceedStopping"},
              label = "proceedStopping" => phase = "Stopping",
              rest = <<Call(label)>> \o Tail(calls)
       PROVE  /\ Kept(rest) /\ rest # <<>> /\ Head(rest) = Call(label)
              /\ On(rest) = {Call(label)} \cup On(Tail(calls)) /\ Call(label).at = label
  <2>1. PICK f \in Frames : f = Call(label) /\ f.at = label
    BY <1>4 DEF Labels
  <2>2. \A g \in On(Tail(calls)) : Lies(f, g, Stops')
    BY <1>3, <2>1 DEF Lies, Ending, Asks, First
  <2>3. label = "proceedStopping" => ~microphone' /\ Stops'
    BY <1>1, <1>2, <1>10, <1>11 DEF Finds, Same, Stops
  <2>4. Finds(f)'  BY <2>1, <2>3 DEF Finds, First
  <2>5. Kept(<<f>> \o Tail(calls)) /\ Head(<<f>> \o Tail(calls)) = f
        /\ On(<<f>> \o Tail(calls)) = {f} \cup On(Tail(calls)) /\ <<f>> \o Tail(calls) # <<>>
    BY <1>10, <2>2, <2>4, KeptLaid
  <2> QED  BY <1>11, <2>1, <2>5
<1>12. /\ Kept(rest) /\ On(Tail(calls)) \subseteq On(rest)
       /\ \A g \in On(rest) : g.at \notin HeadOnly \cup Ending \cup Asks \cup {"switch"}
       /\ rest # <<>> => Head(rest) \in On(rest)
  <2>1. CASE rest = Tail(calls)  BY <1>2, <1>3, <1>10, <2>1
  <2>2. CASE rest = <<Call("proceedListening")>> \o Tail(calls)
    <3>1. /\ Kept(rest) /\ Head(rest) = Call("proceedListening")
          /\ On(rest) = {Call("proceedListening")} \cup On(Tail(calls))
          /\ Call("proceedListening").at = "proceedListening"
      BY <1>11, <2>2
    <3> QED  BY <1>3, <3>1 DEF HeadOnly, Ending, Asks
  <2>3. CASE rest = <<Call("proceedStopping")>> \o Tail(calls) /\ phase = "Stopping"
    <3>1. /\ Kept(rest) /\ Head(rest) = Call("proceedStopping")
          /\ On(rest) = {Call("proceedStopping")} \cup On(Tail(calls))
          /\ Call("proceedStopping").at = "proceedStopping"
      BY <1>11, <2>3
    <3> QED  BY <1>3, <3>1 DEF HeadOnly, Ending, Asks
  <2> QED  BY <1>7, <2>1, <2>2, <2>3
<1>13. CASE calls' = rest
  <2>1. StackFits'
    <3>1. \A g \in On(calls') : g.at \notin HeadOnly  BY <1>12, <1>13
    <3> QED  BY <1>12, <1>13, <3>1, AdjacentCalm, StackFitsKept
  <2>2. ~Running("startAttempt") /\ ~Running("retire")  BY <1>1 DEF Running
  <2>3. (\E f \in On(calls) : f.at = "finishPaused") =>
           \E f \in On(calls') : f.at = "finishPaused"
    <3>1. On(calls) = {Head(calls)} \cup On(Tail(calls))  BY <1>1, AtHead
    <3> QED  BY <1>2, <1>12, <1>13, <3>1
  <2>4. StateFits'  BY <1>1, <1>9, <2>2, <2>3, SameFits
  <2> QED  BY <2>1, <2>4
<1>14. CASE calls' = endInput \o rest /\ between.finishingPausedAttempt
  <2>1. attempts'.transcriber /\ between'.finishingPausedAttempt
    BY <1>1, <1>14 DEF Runs, StateFits, HoldsFits, Same
  <2>2. /\ Kept(calls') /\ calls' # <<>> /\ Head(calls') = Call("sendHeldAudio")
        /\ On(rest) \subseteq On(calls')
    BY <1>12, <1>14, <2>1, InputEndsKept
  <2>3. Head(calls').at \notin {"startAttempt", "retire", "sessionEnds"}
    BY <2>2 DEF Call
  <2>4. On(Tail(calls)) \subseteq On(calls')  BY <1>12, <2>2
  <2> QED  BY <1>1, <2>2, <2>3, <2>4, GoesRuns
<1> QED  BY <1>8, <1>13, <1>14

-----------------------------------------------------------------------------
(* While a provider is awaited no attempt runs, and what ends the speech.     *)

LEMMA Awaited ==
    ASSUME Runs, between.awaitingProvider, ~Running("retire")
    PROVE  /\ ~Live /\ provider.open = {} /\ ~partial
           /\ ~between.finishingPausedAttempt
<1>1. StateFits  BY DEF Runs
<1>2. ~Live  BY <1>1 DEF StateFits, LiveFits
<1>3. ~between.finishingPausedAttempt /\ ~partial
  BY <1>1, Types DEF Runs, StateFits, HoldsFits
<1>4. provider.open = {}
  BY <1>1, <1>2 DEF StateFits, OpenFits, Live
<1> QED  BY <1>2, <1>3, <1>4

\* Calls that lead to such an end return only to calm ones.
LEMMA CalmBelow ==
    ASSUME Runs, NEW label \in Way, label # "retire", Running(label)
    PROVE  \A g \in On(Tail(calls)) : /\ g \in Frames /\ Finds(g) /\ Calm(g, Stops)
                                      /\ g.at \notin Ending \cup Asks
<1>1. /\ Head(calls).at = label
      /\ \A g \in On(Tail(calls)) : /\ g \in Frames /\ Finds(g)
                                    /\ Lies(Head(calls), g, Stops)
  BY AtHead
<1> QED  BY <1>1 DEF Lies, Calm, Ending

\* The state while a provider is still awaited.
LEMMA AwaitsFits ==
    ASSUME Runs, between.awaitingProvider, ~Running("retire"), settings, phase # "Idle",
           UNCHANGED <<phase, settings, microphoneStarting, microphoneStopped,
                       noAttemptToFinish, openOwed, retiredAttempt, between, microphone,
                       partial>>,
           attempts'.id >= attempts.id, attempts'.id \in Nat,
           provider'.open = {}, ~Running("startAttempt")'
    PROVE  StateFits'
<1>1. /\ ~partial /\ ~between.finishingPausedAttempt /\ attempts.id \in Nat
      /\ retiredAttempt \in Nat /\ StateFits
  BY Awaited, Types DEF Runs
<1>2. LiveFits'  BY DEF Live, LiveFits
<1>3. OwedFits' /\ MicrophoneFits'  BY <1>1 DEF StateFits, OwedFits, MicrophoneFits
<1>4. OpenFits'  BY <1>1 DEF StateFits, OpenFits
<1>5. HoldsFits'  BY <1>1 DEF StateFits, HoldsFits
<1> QED  BY <1>2, <1>3, <1>4, <1>5 DEF StateFits

\* A paused attempt a provider took only for what was held finishes.
LEMMA FinishPausedRuns ==
    ASSUME Runs, FinishPaused
    PROVE  StateFits' /\ StackFits'
<1> USE DEF speechVars, flagVars, resumeVars, providerVars, heardVars
<1>0. Running("finishPaused") /\ between \in Betweens /\ StateFits /\ Tail(calls) \in Seq(Frames)
  BY Types, AtHead DEF Runs, FinishPaused
<1>1. CASE between.awaitingProvider
  <2>1. Same /\ calls' = Tail(calls)  BY <1>1 DEF FinishPaused, Same, Return
  <2>2. ~Running("retire")  BY <1>0 DEF Running
  <2>3. ~Live  BY <1>1, <2>2, Awaited
  <2> QED  BY <1>0, <2>1, <2>3, ReturnsRuns
<1>2. CASE ~between.awaitingProvider
  <2>1. /\ calls' = endInput \o Tail(calls)
        /\ UNCHANGED <<phase, settings, microphoneStarting, microphoneStopped,
                       noAttemptToFinish, finishOwed, openOwed, retiredAttempt, attempts,
                       chain, provider, microphone, partial>>
        /\ between' = [between EXCEPT !.finishingPausedAttempt = TRUE]
    BY <1>2 DEF FinishPaused, GoOn
  <2>2. /\ between'.finishingPausedAttempt = TRUE
        /\ between'.awaitingProvider = FALSE
        /\ between'.endedDuringStop = between.endedDuringStop
        /\ between'.held = between.held
    BY <1>0, <1>2, <2>1 DEF Betweens
  <2>3. attempts.transcriber /\ phase = "Paused" /\ ~partial
    BY <1>0, AtHead DEF Finds
  <2>4. \A g \in On(Tail(calls)) : /\ g \in Frames /\ Finds(g) /\ Calm(g, Stops)
                                   /\ g.at \notin Ending \cup Asks
    BY <1>0, CalmBelow DEF Way, Ending
  <2>5. Onward /\ \A g \in On(Tail(calls)) : Lasts(g)
    <3>1. attempts.id \in Nat  BY Types DEF Runs
    <3> QED  BY <2>1, <3>1 DEF Onward, Lasts, Stops, Over
  <2>6. Kept(Tail(calls))
    BY <1>0, <2>4, <2>5, AtHead, CalmKept
  <2>7. \A g \in On(Tail(calls)) : g.at \notin HeadOnly \cup Ending \cup Asks \cup {"switch"}
    BY <2>4 DEF Calm
  <2>8. /\ Kept(calls') /\ calls' # <<>> /\ Head(calls') = Call("sendHeldAudio")
        /\ On(Tail(calls)) \subseteq On(calls')
    BY <2>1, <2>2, <2>3, <2>6, <2>7, InputEndsKept
  <2>9. Head(calls').at = "sendHeldAudio"  BY <2>8 DEF Call
  <2>10. StackFits'  BY <2>8, <2>9, AdjacentElse, StackFitsKept
  <2>11. ~Running("startAttempt") /\ ~Running("startAttempt")'  BY <1>0, <2>9 DEF Running
  <2>12. Live' <=> Live  BY <2>1, <2>11 DEF Live
  <2>13. LiveFits'  BY <1>0, <2>1, <2>2, <2>3, <2>12 DEF StateFits, LiveFits, Over
  <2>14. OwedFits' /\ MicrophoneFits'
    BY <1>0, <2>1, <2>2, <2>3 DEF StateFits, OwedFits, MicrophoneFits
  <2>15. OpenFits'  BY <1>0, <2>1, <2>2 DEF StateFits, OpenFits
  <2>16. HoldsFits'  BY <1>0, <2>1, <2>2, <2>3 DEF StateFits, HoldsFits
  <2> QED  BY <2>10, <2>13, <2>14, <2>15, <2>16 DEF StateFits
<1> QED  BY <1>1, <1>2

\* readyToListen(): the microphone starts for the attempt that just opened.
LEMMA ReadyToListenRuns ==
    ASSUME Runs, ReadyToListen
    PROVE  StateFits' /\ StackFits'
<1> USE DEF speechVars, flagVars, resumeVars, providerVars, heardVars
<1>0. /\ Running("readyFirst") /\ calls' = Tail(calls)
      /\ UNCHANGED <<phase, settings, microphoneStopped, noAttemptToFinish, openOwed,
                     retiredAttempt, between, attempts, chain, provider, partial>>
  BY DEF ReadyToListen, Return
<1>1. CASE UNCHANGED <<microphoneStarting, microphone>>
  <2>1. Same  BY <1>0, <1>1 DEF Same
  <2> QED  BY <1>0, <2>1, ReturnsRuns
<1>2. CASE /\ phase = "Starting" /\ Head(calls).arg = attempts.id
           /\ microphoneStarting' = TRUE /\ microphone' = TRUE
  <2>1. /\ Head(calls).at = "readyFirst" /\ Finds(Head(calls)) /\ Tail(calls) \in Seq(Frames)
        /\ Ordered(Tail(calls), Stops)
        /\ On(calls) = {Head(calls)} \cup On(Tail(calls))
        /\ \A g \in On(Tail(calls)) : /\ g \in Frames /\ Finds(g)
                                      /\ Lies(Head(calls), g, Stops)
    BY <1>0, AtHead
  <2>2. settings /\ attempts.id \in Nat
    <3>1. ~(phase = "Starting" /\ ~settings)  BY <1>2, <2>1 DEF Finds, First
    <3> QED  BY <1>2, <3>1, Types DEF Runs
  <2>3. ~Stops /\ ~Stops'  BY <1>0, <1>2, <2>2 DEF Stops, Over
  <2>4. ASSUME NEW g \in On(Tail(calls))  PROVE  Finds(g)'
    <3>1. g \in Frames /\ Finds(g) /\ Lies(Head(calls), g, Stops)  BY <2>1
    <3>2. g.at \notin HeadOnly \cup Asks \cup {"switch", "proceedStopping", "startMicrophone",
                                               "endHeld", "finishPaused"}
      BY <1>2, <2>1, <2>3, <3>1 DEF Lies, Finds, Asks
    <3>3. g.arg \in Nat /\ (g.at \in First => g.arg < attempts.id)
      BY <1>2, <2>1, <3>1 DEF Lies, First, Frames
    <3>4. g.at \in First => /\ g.arg <= attempts'.id
                            /\ ~(g.arg = attempts'.id)
      BY <1>0, <2>2, <3>3
    <3>5. g.at = "endInput" => /\ attempts'.transcriber
                               /\ Stops' \/ between'.finishingPausedAttempt
      BY <1>0, <2>3, <3>1 DEF Finds
    <3> QED  BY <3>2, <3>4, <3>5 DEF Finds, HeadOnly, Asks
  <2>5. Kept(calls')
    <3>1. Ordered(Tail(calls), Stops')  BY <2>1, <2>3, TruthValues, OrderedStops
    <3> QED  BY <1>0, <2>1, <2>4, <3>1 DEF Kept
  <2>6. \A g \in On(calls') : g.at \notin HeadOnly  BY <1>0, <2>1 DEF Lies
  <2>7. Adjacent' /\ ~Running("startAttempt")' /\ ~Running("startAttempt") /\ ~Running("retire")
    BY <1>0, <2>5, <2>6, AdjacentCalm DEF Running
  <2>8. StackFits'  BY <2>5, <2>7, StackFitsKept
  <2>9. Live' <=> Live  BY <1>0, <2>7 DEF Live
  <2>10. StateFits  BY DEF Runs
  <2>11. LiveFits'  BY <1>0, <1>2, <2>9, <2>10 DEF StateFits, LiveFits, Over
  <2>12. OwedFits' /\ MicrophoneFits'
    BY <1>0, <1>2, <2>2, <2>10 DEF StateFits, OwedFits, MicrophoneFits
  <2>13. OpenFits'  BY <1>0, <2>10 DEF StateFits, OpenFits
  <2>14. HoldsFits'  BY <1>0, <2>7, <2>10 DEF StateFits, HoldsFits
  <2> QED  BY <2>8, <2>11, <2>12, <2>13, <2>14 DEF StateFits
<1> QED  BY <1>1, <1>2 DEF ReadyToListen

\* end(): held audio gets an attempt of its own, or the speech is over.
LEMMA EndRuns ==
    ASSUME Runs, End, Inv'
    PROVE  StateFits' /\ StackFits'
<1> USE DEF speechVars, flagVars, resumeVars, providerVars, heardVars
<1> DEFINE rest == Tail(calls)
<1>0. /\ Running("end") /\ between \in Betweens /\ attempts \in Attempts /\ StateFits
      /\ attempts.id \in Nat /\ openOwed \in BOOLEAN
      /\ UNCHANGED <<settings, microphoneStarting, microphoneStopped, noAttemptToFinish,
                     finishOwed, openOwed, retiredAttempt, chain, provider, microphone,
                     partial>>
  BY Types DEF Runs, End
<1>1. CASE between.awaitingProvider /\ Return /\ UNCHANGED <<phase, between, attempts>>
  <2>1. Same /\ calls' = Tail(calls)  BY <1>0, <1>1 DEF Same, Return
  <2> QED  BY <1>0, <2>1, ReturnsRuns
<1>2. /\ phase = "Stopping" /\ microphoneStopped /\ ~Live /\ ~openOwed /\ settings
      /\ ~between.endedDuringStop /\ ~microphone /\ provider.open = {}
  <2>1. phase = "Stopping" /\ microphoneStopped /\ ~Live
    BY <1>0, AtHead DEF Finds
  <2>2. ~openOwed /\ settings /\ ~between.endedDuringStop /\ ~microphone
    BY <1>0, <2>1 DEF StateFits, OwedFits, HoldsFits, MicrophoneFits
  <2>3. provider.open = {}
    BY <1>0, <2>1 DEF StateFits, OpenFits, Live
  <2> QED  BY <2>1, <2>2, <2>3
<1>3. /\ rest \in Seq(Frames) /\ Ordered(rest, Stops)
      /\ \A g \in On(rest) : /\ g \in Frames /\ Finds(g) /\ Calm(g, Stops)
                             /\ g.at \notin Ending \cup Asks
  BY <1>0, AtHead, CalmBelow DEF Way, Ending
<1>4. ~chain.preparing \/ between.awaitingProvider
  BY <1>0 DEF StateFits, HoldsFits
<1>5. CASE /\ ~between.awaitingProvider /\ between.held # <<>>
           /\ resumeAttempt(between, attempts, <<Call("endHeld")>> \o rest)
           /\ UNCHANGED phase
  <2> DEFINE f == Call("endHeld")
  <2>1. f \in Frames /\ f.at = "endHeld"  BY Pushes DEF Labels
  <2>2. resumeAttempt(between, attempts, <<f>> \o rest)  BY <1>5
  <2> HIDE DEF f, rest
  <2>3. Clear(rest)  BY <1>0, <1>2, <1>3, <1>4, <1>5 DEF Clear
  <2>4. attempts.transcriber
    BY <1>0, <1>2, <1>5 DEF StateFits, HoldsFits
  <2>5. attempts'.transcriber /\ Stops'
    BY <1>0, <1>2, <1>5, <2>2, <2>4 DEF resumeAttempt, OpenAttempt, Attempts, Stops
  <2>6. Finds(f)'  BY <2>1, <2>5 DEF Finds, First
  <2>7. \A g \in On(rest) : Lies(f, g, Stops')
    BY <1>3, <2>1 DEF Calm, Lies, Ending, Asks, Way, First
  <2>8. ~Over /\ ~openOwed' /\ phase # "Paused" /\ UNCHANGED <<phase, microphone>>
    BY <1>0, <1>2, <1>5 DEF Over
  <2>9. f.at \in {"markEmpty", "endHeld", "finishPaused", "openedFirst"}  BY <2>1
  <2> QED  BY <1>0, <1>2, <1>5, <2>1, <2>2, <2>3, <2>4, <2>6, <2>7, <2>8, <2>9, OpensOver
<1>6. CASE /\ ~between.awaitingProvider /\ between.held = <<>> /\ phase' = "Idle"
           /\ calls' = <<Call("handlers")>> \o Overtaken(rest)
           /\ UNCHANGED <<between, attempts>>
  <2> DEFINE f == Call("handlers")
             below == Overtaken(rest)
  <2>1. f \in Frames /\ f.at = "handlers"  BY Pushes DEF Labels
  <2>2. Onward /\ Stops'
    BY <1>0, <1>6 DEF Onward, Stops, Over
  <2>3. /\ Kept(below)
        /\ \A g \in On(below) : Calm(g, Stops)
    <3> HIDE DEF rest
    <3>1. \A g \in On(rest) : /\ g \in Frames /\ Finds(g)
                              /\ Calm(g, Stops) \/ g.at \in Asks
                              /\ g.at \in {"endInput", "endHeld"} =>
                                    (attempts.transcriber => attempts'.transcriber)
      BY <1>3, <1>6
    <3> QED  BY <1>3, <2>2, <3>1, OvertakenKept
  <2>4. calls' = <<f>> \o below  BY <1>6
  <2> HIDE DEF f, below, rest
  <2>5. Finds(f)'  BY <2>1 DEF Finds, First
  <2>6. \A g \in On(below) : Lies(f, g, Stops')
    BY <2>1, <2>2, <2>3 DEF Calm, Lies, Ending, Asks, Way, First
  <2>7. Kept(calls') /\ calls' # <<>> /\ Head(calls') = f
    BY <2>1, <2>3, <2>4, <2>5, <2>6, KeptLaid
  <2>8. Adjacent' /\ ~Running("startAttempt")'
    BY <2>1, <2>7, AdjacentElse DEF Running
  <2>9. StackFits'  BY <2>7, <2>8, StackFitsKept
  <2>10. ~Live'  BY <1>0, <1>2, <2>8 DEF Live
  <2>11. LiveFits'  BY <2>10 DEF LiveFits
  <2>12. OwedFits' /\ MicrophoneFits'
    BY <1>0, <1>2, <1>6 DEF StateFits, OwedFits, MicrophoneFits
  <2>13. OpenFits'  BY <1>0, <1>2, <1>6 DEF StateFits, OpenFits
  <2>14. HoldsFits'  BY <1>0, <1>2, <1>4, <1>6 DEF StateFits, HoldsFits
  <2> QED  BY <2>9, <2>11, <2>12, <2>13, <2>14 DEF StateFits
<1> QED  BY <1>1, <1>5, <1>6 DEF End

\* release() and the walk from the next provider on.
LEMMA SwitchRuns ==
    ASSUME Runs, Switch, Inv'
    PROVE  StateFits' /\ StackFits'
<1> USE DEF speechVars, flagVars, resumeVars, providerVars, heardVars
<1> DEFINE f == Call("walk")
           rest == Tail(calls)
<1>0. /\ Running("switch") /\ attempts \in Attempts /\ provider.open \in SUBSET Nat
      /\ provider \in [open: SUBSET Nat, told: SUBSET Nat]
      /\ attempts.id \in Nat
      /\ UNCHANGED <<phase, settings, between, microphoneStarting, microphoneStopped,
                     noAttemptToFinish, openOwed, retiredAttempt, microphone, partial>>
      /\ chain' = [index |-> chain.index + 1, preparing |-> FALSE]
      /\ calls' = <<f>> \o rest
  BY Types DEF Runs, Switch, GoOn
<1>1. /\ Finds(Head(calls)) /\ Head(calls).at = "switch"
      /\ rest \in Seq(Frames) /\ Ordered(rest, Stops)
      /\ \A g \in On(rest) : /\ g \in Frames /\ Finds(g) /\ Calm(g, Stops)
                             /\ g.at \notin Ending \cup Asks
  BY <1>0, AtHead, CalmBelow DEF Way
<1>2. between.awaitingProvider /\ settings /\ phase # "Idle" /\ ~Running("retire")
  BY <1>0, <1>1 DEF Finds, Running
<1>3. ~Live /\ provider.open = {}  BY <1>2, Awaited
<1>4. attempts'.id >= attempts.id /\ attempts'.id \in Nat /\ provider'.open = {}
  <2>1. CASE attempts.transcriber
    <3>1. attempts'.id = attempts.id + 1 /\ provider'.open = provider.open \ {attempts.id}
      BY <1>0, <2>1 DEF Switch, Attempts
    <3> QED  BY <1>0, <1>3, <3>1
  <2>2. CASE ~attempts.transcriber
    <3>1. UNCHANGED <<attempts, provider>>  BY <2>2 DEF Switch
    <3> QED  BY <1>0, <1>3, <3>1
  <2> QED  BY <2>1, <2>2
<1>5. f \in Frames /\ f.at = "walk"  BY Pushes DEF Labels
<1>6. Kept(rest)
  <2>1. Onward  BY <1>0, <1>4 DEF Onward, Stops, Over
  <2>2. \A g \in On(rest) : Lasts(g)  BY <1>0, <1>1 DEF Lasts, Ending
  <2> HIDE DEF rest
  <2> QED  BY <1>1, <2>1, <2>2, CalmKept
<1> HIDE DEF f, rest
<1>7. Finds(f)'
  <2>1. ~chain'.preparing  BY <1>0
  <2> QED  BY <1>0, <1>2, <1>5, <2>1 DEF Finds, First
<1>8. \A g \in On(rest) : Lies(f, g, Stops')
  <2>1. Stops' <=> Stops  BY <1>0 DEF Stops, Over
  <2> QED  BY <1>1, <1>5, <2>1 DEF Calm, Lies, Ending, Asks, Way, First
<1>9. Kept(calls') /\ calls' # <<>> /\ Head(calls') = f
  BY <1>0, <1>5, <1>6, <1>7, <1>8, KeptLaid
<1>10. Adjacent' /\ ~Running("startAttempt")'
  BY <1>5, <1>9, AdjacentElse DEF Running
<1>11. StackFits'  BY <1>9, <1>10, StackFitsKept
<1>12. StateFits'  BY <1>0, <1>2, <1>4, <1>10, AwaitsFits
<1> QED  BY <1>11, <1>12

\* SpeechChain::walk(), at any provider.
LEMMA WalkRuns ==
    ASSUME Runs, Walk, Inv'
    PROVE  StateFits' /\ StackFits'
<1> USE DEF speechVars, flagVars, resumeVars, providerVars, heardVars
<1> DEFINE rest == Tail(calls)
           given == [between EXCEPT !.awaitingProvider = FALSE, !.held = <<>>]
<1>0. /\ Running("walk") /\ attempts \in Attempts /\ between \in Betweens
      /\ attempts.id \in Nat /\ calls \in Seq(Frames) /\ chain.preparing \in BOOLEAN
      /\ chain \in [index: Nat \ {0}, preparing: BOOLEAN]
      /\ UNCHANGED <<settings, microphoneStarting, microphoneStopped, noAttemptToFinish,
                     openOwed, retiredAttempt, provider, partial>>
  BY Types DEF Runs, Walk
<1>1. /\ Finds(Head(calls)) /\ Head(calls).at = "walk" /\ Head(calls) \in Frames
      /\ rest \in Seq(Frames) /\ Ordered(rest, Stops) /\ calls # <<>>
      /\ \A g \in On(rest) : /\ g \in Frames /\ Finds(g) /\ Calm(g, Stops)
                             /\ g.at \notin Ending \cup Asks
      /\ \A g \in On(rest) : Lies(Head(calls), g, Stops)
  BY <1>0, AtHead, CalmBelow DEF Way
<1>2. /\ between.awaitingProvider /\ settings /\ phase # "Idle" /\ ~Running("retire")
      /\ ~chain.preparing
  BY <1>0, <1>1 DEF Finds, Running
<1>3. ~Live /\ provider.open = {} /\ ~partial /\ ~between.finishingPausedAttempt
  BY <1>2, Awaited
<1>4. given \in Betweens /\ ~given.awaitingProvider /\ ~given.finishingPausedAttempt
      /\ given.held = <<>>
  BY <1>0, <1>3, EmptySeq DEF Betweens
<1>5. \A g \in On(rest) : g.at \notin Ending  BY <1>1
<1> HIDE DEF rest, given
<1>6. ASSUME ~chain'.preparing  PROVE  Clear(rest)
  BY <1>0, <1>1, <1>3, <1>6 DEF Clear
<1>7. CASE EndByFailure(given, rest) /\ UNCHANGED <<attempts, chain>>
  <2>1. Clear(rest)  BY <1>2, <1>6, <1>7
  <2> QED  BY <1>4, <1>7, <2>1, FailsRuns
<1>8. CASE /\ chain' = [chain EXCEPT !.index = @ + 1]
           /\ \E acquired \in BOOLEAN :
                 attempts' = [attempts EXCEPT !.transcriber = acquired]
           /\ UNCHANGED <<phase, between, microphone, calls>>
  <2>1. attempts'.id = attempts.id /\ ~chain'.preparing
    BY <1>0, <1>2, <1>8 DEF Attempts
  <2>2. Clear(rest)  BY <1>6, <2>1
  <2>3. Kept(rest) /\ (Stops' <=> Stops)
    BY <1>0, <1>5, <1>8, <2>1, <2>2, ClearKept
  <2> DEFINE f == Head(calls)
  <2>4. f \in Frames /\ f.at = "walk" /\ calls' = <<f>> \o rest
    BY <1>0, <1>1, <1>8 DEF rest
  <2>5. \A g \in On(rest) : Lies(f, g, Stops')
    BY <1>1, <2>3 DEF Lies
  <2>6. ~Running("startAttempt")' /\ calls' # <<>> /\ Head(calls').at = "walk"
    BY <1>1, <1>8 DEF Running
  <2>7. PICK h \in Frames : h = f  BY <2>4
  <2>8. Finds(h)'
    <3>1. h.at = "walk"  BY <2>4, <2>7
    <3> QED  BY <1>0, <1>2, <1>8, <2>1, <3>1 DEF Finds, First
  <2>9. Kept(calls')
    <3>1. calls' = <<h>> \o rest /\ \A g \in On(rest) : Lies(h, g, Stops')
      BY <2>4, <2>5, <2>7
    <3> QED  BY <2>3, <2>8, <3>1, KeptLaid
  <2>10. StackFits'  BY <2>6, <2>9, AdjacentElse, StackFitsKept
  <2>11. StateFits'
    <3>1. attempts'.id >= attempts.id /\ attempts'.id \in Nat /\ provider'.open = {}
      BY <1>0, <1>3, <2>1
    <3> QED  BY <1>0, <1>2, <1>8, <2>6, <3>1, AwaitsFits
  <2> QED  BY <2>10, <2>11
<1>9. CASE /\ chain' = [chain EXCEPT !.preparing = TRUE]
           /\ attempts' = [attempts EXCEPT !.transcriber = TRUE]
           /\ Return
           /\ UNCHANGED <<phase, between, microphone>>
  <2>1. attempts'.id = attempts.id /\ calls' = rest
    BY <1>0, <1>9 DEF Attempts, Return, rest
  <2>2. Kept(rest)
    <3>1. Onward  BY <1>0, <1>9, <2>1 DEF Onward, Stops, Over
    <3>2. \A g \in On(rest) : Lasts(g)  BY <1>1, <1>9 DEF Lasts, Ending
    <3> QED  BY <1>1, <3>1, <3>2, CalmKept
  <2>3. \A g \in On(calls') : g.at \notin HeadOnly  BY <1>1, <2>1 DEF Calm
  <2>4. Adjacent' /\ ~Running("startAttempt")'  BY <2>1, <2>2, <2>3, AdjacentCalm
  <2>5. StackFits'  BY <2>1, <2>2, <2>4, StackFitsKept
  <2>6. StateFits'
    <3>1. attempts'.id >= attempts.id /\ attempts'.id \in Nat /\ provider'.open = {}
      BY <1>0, <1>3, <2>1
    <3> QED  BY <1>0, <1>2, <1>9, <2>4, <3>1, AwaitsFits
  <2> QED  BY <2>5, <2>6
<1>10. CASE takeReadyProvider(rest) /\ UNCHANGED chain
  <2>1. Clear(rest)  BY <1>2, <1>6, <1>10
  <2> QED  BY <1>2, <1>5, <1>10, <2>1, TakesRuns
<1> QED  BY <1>7, <1>8, <1>9, <1>10 DEF Walk, exhaust, rest, given

\* The preparation of the provider that is awaited ends.
LEMMA FinishPreparationRuns ==
    ASSUME Runs, finishPreparation, Inv'
    PROVE  StateFits' /\ StackFits'
<1> USE DEF speechVars, flagVars, resumeVars, providerVars, heardVars
<1>0. /\ Free /\ chain.preparing /\ StateFits /\ attempts.id \in Nat
      /\ chain \in [index: Nat \ {0}, preparing: BOOLEAN]
      /\ UNCHANGED <<settings, microphoneStarting, microphoneStopped, noAttemptToFinish,
                     openOwed, retiredAttempt, provider, partial>>
  BY Types DEF Runs, finishPreparation
<1>1. /\ between.awaitingProvider /\ settings /\ phase # "Idle" /\ ~Running("retire")
  BY <1>0 DEF StateFits, HoldsFits, Free, Running
<1>2. provider.open = {}  BY <1>1, Awaited
<1>3. CASE chain' = [chain EXCEPT !.preparing = FALSE] /\ takeReadyProvider(<<>>)
  <2>1. Clear(<<>>)
    <3>1. ~chain'.preparing  BY <1>0, <1>3
    <3> QED  BY <1>0, <1>2, <3>1 DEF Clear, Ordered, On
  <2>2. \A g \in On(<<>>) : g.at \notin Ending  BY DEF On
  <2> QED  BY <1>1, <1>3, <2>1, <2>2, TakesRuns
<1>4. CASE /\ chain' = [index |-> chain.index + 1, preparing |-> FALSE]
           /\ calls' = <<Call("walk")>>
           /\ UNCHANGED <<phase, between, microphone, attempts>>
  <2> DEFINE f == Call("walk")
             s == <<>>
  <2>1. f \in Frames /\ f.at = "walk"  BY Pushes DEF Labels
  <2>2. calls' = <<f>> \o s /\ Kept(s) /\ On(s) = {}
    BY <1>4, <2>1, KeptEmpty DEF On
  <2> HIDE DEF f, s
  <2>3. Finds(f)'
    <3>1. ~chain'.preparing  BY <1>4
    <3> QED  BY <1>0, <1>1, <1>4, <2>1, <3>1 DEF Finds, First
  <2>4. Kept(calls') /\ calls' # <<>> /\ Head(calls') = f
    BY <2>1, <2>2, <2>3, KeptLaid
  <2>5. Adjacent' /\ ~Running("startAttempt")'
    BY <2>1, <2>4, AdjacentElse DEF Running
  <2>6. StackFits'  BY <2>4, <2>5, StackFitsKept
  <2>7. StateFits'
    <3>1. attempts'.id >= attempts.id /\ attempts'.id \in Nat /\ provider'.open = {}
      BY <1>0, <1>2, <1>4
    <3> QED  BY <1>0, <1>1, <1>4, <2>5, <3>1, AwaitsFits
  <2> QED  BY <2>6, <2>7
<1> QED  BY <1>3, <1>4 DEF finishPreparation

\* proceed() while listening: the attempt a resume() owes opens.
LEMMA ProceedListeningRuns ==
    ASSUME Runs, ProceedListening, Inv'
    PROVE  StateFits' /\ StackFits'
<1> USE DEF speechVars, flagVars, resumeVars, providerVars, heardVars
<1> DEFINE rest == Tail(calls)
<1>0. /\ Running("proceedListening") /\ StateFits /\ between \in Betweens /\ attempts \in Attempts
      /\ attempts.id \in Nat /\ openOwed \in BOOLEAN
      /\ UNCHANGED <<phase, settings, microphoneStarting, microphoneStopped, noAttemptToFinish,
                     retiredAttempt, chain, provider, microphone, partial>>
      /\ openOwed' = (openOwed /\ phase # "Listening")
  BY Types DEF Runs, ProceedListening
<1>1. CASE Return /\ UNCHANGED <<between, attempts>>
  <2>1. Same /\ calls' = Tail(calls)  BY <1>0, <1>1 DEF Same, Return
  <2> QED  BY <1>0, <2>1, ReturnsRuns
<1>2. CASE /\ phase = "Listening" /\ openOwed
           /\ ~between.finishingPausedAttempt /\ ~between.awaitingProvider
           /\ resumeAttempt(between, attempts,
                            (IF between.held = <<>> THEN <<Call("markEmpty")>> ELSE <<>>)
                            \o rest)
  <2>1. /\ ~Live /\ ~openOwed' /\ settings /\ ~Over /\ ~between.endedDuringStop
        /\ attempts.transcriber /\ ~chain.preparing
    BY <1>0, <1>2 DEF StateFits, LiveFits, OwedFits, HoldsFits, Over
  <2>2. provider.open = {}
    BY <1>0, <1>2, <2>1 DEF StateFits, OpenFits, Live
  <2>3. /\ rest \in Seq(Frames) /\ Ordered(rest, Stops)
        /\ \A g \in On(rest) : /\ g \in Frames /\ Finds(g) /\ Calm(g, Stops)
                               /\ g.at \notin Ending \cup Asks
    BY <1>0, AtHead, CalmBelow DEF Way
  <2> HIDE DEF rest
  <2>4. Clear(rest)  BY <1>0, <2>1, <2>2, <2>3 DEF Clear
  <2>5. phase # "Paused" /\ phase # "Stopping" /\ UNCHANGED <<phase, microphone>>
    BY <1>0, <1>2
  <2>6. CASE between.held = <<>>
    <3> DEFINE f == Call("markEmpty")
    <3>1. f \in Frames /\ f.at = "markEmpty"  BY Pushes DEF Labels
    <3>2. resumeAttempt(between, attempts, <<f>> \o rest)  BY <1>2, <2>6
    <3> HIDE DEF f
    <3>3. Finds(f)'  BY <3>1 DEF Finds, First
    <3>4. \A g \in On(rest) : Lies(f, g, Stops')
      <4>1. Stops' <=> Stops  BY <1>0 DEF Stops, Over
      <4> QED  BY <2>3, <3>1, <4>1 DEF Calm, Lies, Ending, Asks, Way, First
    <3>5. f.at \in {"markEmpty", "endHeld", "finishPaused", "openedFirst"}  BY <3>1
    <3> QED  BY <1>0, <1>2, <2>1, <2>4, <2>5, <3>1, <3>2, <3>3, <3>4, <3>5, OpensOver
  <2>7. CASE between.held # <<>>
    <3>1. <<>> \o rest = rest  BY <2>3
    <3>2. resumeAttempt(between, attempts, rest)  BY <1>2, <2>7, <3>1
    <3> QED  BY <1>0, <1>2, <2>1, <2>4, <2>5, <3>2, ResumesRuns
  <2> QED  BY <2>6, <2>7
<1> QED  BY <1>1, <1>2 DEF ProceedListening

\* finishStop(): the retired attempt is cancelled, and the input or the speech
\* ends.
LEMMA FinishStopRuns ==
    ASSUME Runs, finishStop
    PROVE  StateFits' /\ StackFits'
<1> USE DEF speechVars, flagVars, resumeVars, providerVars, heardVars
<1> DEFINE rest == Tail(calls)
<1>0. /\ Running("proceedStopping") /\ StateFits /\ between \in Betweens
      /\ provider \in [open: SUBSET Nat, told: SUBSET Nat]
      /\ attempts.id \in Nat /\ microphoneStopped \in BOOLEAN /\ retiredAttempt \in Nat
      /\ UNCHANGED <<phase, settings, microphoneStarting, noAttemptToFinish, openOwed,
                     attempts, chain, microphone, partial>>
  BY Types DEF Runs, finishStop
<1>1. CASE /\ Return
           /\ UNCHANGED <<between, microphoneStopped, retiredAttempt, provider>>
  <2>1. Same /\ calls' = Tail(calls)  BY <1>0, <1>1 DEF Same, Return
  <2> QED  BY <1>0, <2>1, ReturnsRuns
<1>2. CASE phase = "Stopping" /\ ~microphoneStopped
  <2>1. /\ microphoneStopped' = TRUE /\ retiredAttempt' = 0
        /\ provider' = WithoutRetired
        /\ between' = [between EXCEPT !.endedDuringStop = FALSE]
        /\ \/ /\ calls' = <<Call("end")>> \o rest
              /\ \/ between.endedDuringStop
                 \/ noAttemptToFinish /\ ~between.finishingPausedAttempt
           \/ calls' = <<>> \o rest
           \/ calls' = endInput \o rest /\ attempts.transcriber
    BY <1>2 DEF finishStop, GoOn
  <2>2. /\ between'.endedDuringStop = FALSE
        /\ between'.awaitingProvider = between.awaitingProvider
        /\ between'.finishingPausedAttempt = between.finishingPausedAttempt
        /\ between'.held = between.held
    BY <1>0, <2>1 DEF Betweens
  <2>3. ~microphone /\ Stops /\ Stops'
    BY <1>0, <1>2, AtHead DEF Finds, Stops
  <2>4. /\ rest \in Seq(Frames) /\ Ordered(rest, Stops)
        /\ \A g \in On(rest) : /\ g \in Frames /\ Finds(g) /\ Calm(g, Stops)
                               /\ g.at \notin Ending \cup Asks
    BY <1>0, AtHead, CalmBelow DEF Way
  <2> HIDE DEF rest
  <2>5. Kept(rest)
    <3>1. Onward  BY <1>0, <2>3 DEF Onward, Stops, Over
    <3>2. \A g \in On(rest) : Lasts(g)  BY <1>0 DEF Lasts
    <3> QED  BY <2>4, <3>1, <3>2, CalmKept
  <2>6. provider'.open \subseteq {attempts.id} /\ 0 \notin provider'.open
        /\ (attempts.id \in provider'.open => attempts.id \in provider.open)
    <3>1. CASE attempts.transcriber /\ retiredAttempt # 0
      <4>1. provider'.open = provider.open \ {retiredAttempt}
        BY <1>0, <2>1, <3>1 DEF WithoutRetired
      <4> QED  BY <1>0, <4>1 DEF StateFits, OpenFits
    <3>2. CASE ~(attempts.transcriber /\ retiredAttempt # 0)
      <4>1. provider'.open = provider.open  BY <2>1, <3>2 DEF WithoutRetired
      <4>2. retiredAttempt \notin provider.open
        BY <1>0, <3>2 DEF StateFits, OpenFits
      <4> QED  BY <1>0, <4>1, <4>2 DEF StateFits, OpenFits
    <3> QED  BY <3>1, <3>2
  <2>7. ASSUME ~Running("startAttempt")'  PROVE  StateFits' /\ (Live' => Live)
    <3>1. Live' => Live  BY <1>0, <2>6, <2>7 DEF Live
    <3>2. LiveFits'  BY <1>0, <1>2, <2>1, <2>2, <3>1 DEF StateFits, LiveFits, Over
    <3>3. OwedFits' /\ MicrophoneFits'
      BY <1>0, <2>1, <2>2, <2>3 DEF StateFits, OwedFits, MicrophoneFits
    <3>4. OpenFits'  BY <1>0, <2>1, <2>6 DEF StateFits, OpenFits
    <3>5. HoldsFits'
      <4>1. ~Running("retire")  BY <1>0 DEF Running
      <4> QED  BY <1>0, <2>2, <4>1 DEF StateFits, HoldsFits
    <3> QED  BY <3>1, <3>2, <3>3, <3>4, <3>5 DEF StateFits
  <2>8. CASE /\ calls' = <<Call("end")>> \o rest
             /\ \/ between.endedDuringStop
                \/ noAttemptToFinish /\ ~between.finishingPausedAttempt
    <3> DEFINE f == Call("end")
    <3>1. f \in Frames /\ f.at = "end" /\ calls' = <<f>> \o rest
      BY <2>8, Pushes DEF Labels
    <3> HIDE DEF f
    <3>2. calls' # <<>> /\ Head(calls') = f  BY <2>4, <3>1
    <3>3. ~Running("startAttempt")' /\ Adjacent'
      BY <3>1, <3>2, AdjacentElse DEF Running
    <3>4. ~Live  BY <1>0, <1>2, <2>8 DEF StateFits, LiveFits
    <3>5. ~Live' /\ StateFits'  BY <2>7, <3>3, <3>4
    <3>6. phase' = "Stopping" /\ microphoneStopped'  BY <1>0, <1>2, <2>1
    <3>7. Finds(f)'  BY <3>1, <3>5, <3>6 DEF Finds, First
    <3>8. \A g \in On(rest) : Lies(f, g, Stops')
      BY <2>3, <2>4, <3>1 DEF Calm, Lies, Ending, Asks, Way, First
    <3>9. Kept(calls')  BY <2>5, <3>1, <3>7, <3>8, KeptLaid
    <3> QED  BY <3>3, <3>5, <3>9, StackFitsKept
  <2>9. CASE calls' = <<>> \o rest
    <3>1. calls' = rest  BY <2>4, <2>9
    <3>2. \A g \in On(calls') : g.at \notin HeadOnly  BY <2>4, <3>1 DEF Calm
    <3>3. Kept(calls')  BY <2>5, <3>1
    <3>4. Adjacent' /\ ~Running("startAttempt")'  BY <3>2, <3>3, AdjacentCalm
    <3> QED  BY <2>7, <3>3, <3>4, StackFitsKept
  <2>10. CASE calls' = endInput \o rest /\ attempts.transcriber
    <3>1. \A g \in On(rest) : g.at \notin HeadOnly \cup Ending \cup Asks \cup {"switch"}
      BY <2>4 DEF Calm
    <3>2. attempts'.transcriber  BY <1>0, <2>10
    <3>3. /\ Kept(calls') /\ calls' # <<>> /\ Head(calls') = Call("sendHeldAudio")
      BY <2>3, <2>5, <2>10, <3>1, <3>2, InputEndsKept
    <3>4. Head(calls').at = "sendHeldAudio"  BY <3>3 DEF Call
    <3>5. Adjacent' /\ ~Running("startAttempt")'  BY <3>4, AdjacentElse DEF Running
    <3> QED  BY <2>7, <3>3, <3>5, StackFitsKept
  <2> QED  BY <2>1, <2>8, <2>9, <2>10
<1> QED  BY <1>1, <1>2 DEF finishStop

\* The session's microphone starts once a resume() is announced.
LEMMA StartMicrophoneRuns ==
    ASSUME Runs, StartMicrophone
    PROVE  StateFits' /\ StackFits'
<1> USE DEF speechVars, flagVars, resumeVars, providerVars, heardVars
<1>0. /\ Running("startMicrophone") /\ calls' = Tail(calls) /\ microphone' = TRUE /\ StateFits
      /\ UNCHANGED <<phase, settings, microphoneStarting, microphoneStopped,
                     noAttemptToFinish, openOwed, retiredAttempt, between, attempts, chain,
                     provider, partial>>
  BY DEF Runs, StartMicrophone, Return
<1>1. phase = "Listening"  BY <1>0, AtHead DEF Finds
<1>2. /\ Tail(calls) \in Seq(Frames) /\ Ordered(Tail(calls), Stops)
      /\ \A g \in On(Tail(calls)) : /\ g \in Frames /\ Finds(g) /\ Calm(g, Stops)
                                    /\ g.at \notin Ending \cup Asks
  BY <1>0, AtHead, CalmBelow DEF Way
<1>3. ~Stops /\ (Stops => Stops')  BY <1>1 DEF Stops, Over
<1>4. ASSUME NEW g \in On(Tail(calls))  PROVE  Finds(g)'
  <2>1. /\ g \in Frames /\ Finds(g)
        /\ g.at \notin HeadOnly \cup Ending \cup Asks \cup {"switch", "proceedStopping"}
    BY <1>2, <1>3 DEF Calm, Finds
  <2> QED  BY <1>0, <2>1 DEF Finds, HeadOnly, Ending, Asks
<1>5. Kept(calls')
  <2>1. Ordered(Tail(calls), Stops')  BY <1>2, <1>3, TruthValues, OrderedStops
  <2> QED  BY <1>0, <1>2, <1>4, <2>1 DEF Kept
<1>6. \A g \in On(calls') : g.at \notin HeadOnly  BY <1>0, <1>2 DEF Calm
<1>7. Adjacent' /\ ~Running("startAttempt")' /\ ~Running("startAttempt") /\ ~Running("retire")
  BY <1>0, <1>5, <1>6, AdjacentCalm DEF Running
<1>8. StackFits'  BY <1>5, <1>7, StackFitsKept
<1>9. Live' <=> Live  BY <1>0, <1>7 DEF Live
<1>10. LiveFits'  BY <1>0, <1>1, <1>9 DEF StateFits, LiveFits, Over
<1>11. OwedFits' /\ MicrophoneFits'
  BY <1>0, <1>1 DEF StateFits, OwedFits, MicrophoneFits, HoldsFits
<1>12. OpenFits'  BY <1>0 DEF StateFits, OpenFits
<1>13. HoldsFits'  BY <1>0, <1>7 DEF StateFits, HoldsFits
<1> QED  BY <1>8, <1>10, <1>11, <1>12, <1>13 DEF StateFits

\* cancel(), over calls that are calm or wait for an announcement.
LEMMA CancelledRuns ==
    ASSUME Runs, NEW stack \in Seq(Frames), Ordered(stack, Stops), Cancelled(stack), Inv',
           \A g \in On(stack) : g \in Frames /\ Finds(g) /\ (Calm(g, Stops) \/ g.at \in Asks)
    PROVE  StateFits' /\ StackFits'
<1>0. /\ StateFits /\ attempts \in Attempts /\ attempts.id \in Nat /\ attempts'.id \in Nat
      /\ provider \in [open: SUBSET Nat, told: SUBSET Nat]
      /\ chain \in [index: Nat \ {0}, preparing: BOOLEAN]
  <2>1. attempts' \in Attempts  BY DEF Inv, Typed, TypeOK
  <2> QED  BY <2>1, Types DEF Runs, Attempts
<1>1. /\ phase' = "Idle" /\ between' = NoBetween /\ microphoneStarting' = FALSE
      /\ openOwed' = FALSE /\ retiredAttempt' = 0 /\ microphone' = FALSE
      /\ calls' = Overtaken(stack)
  BY DEF Cancelled
<1>2. attempts'.id >= attempts.id /\ attempts'.transcriber = attempts.transcriber
      /\ ~chain'.preparing
  BY <1>0 DEF Cancelled, Attempts
<1>3. provider'.open = {}
  <2>1. CASE attempts.transcriber
    <3>1. provider'.open = provider.open \ {attempts.id, retiredAttempt}
      BY <1>0, <2>1 DEF Cancelled
    <3> QED  BY <1>0, <3>1 DEF StateFits, OpenFits
  <2>2. CASE ~attempts.transcriber
    <3>1. provider'.open = provider.open  BY <1>0, <2>2 DEF Cancelled
    <3>2. attempts.id \notin provider.open
      BY <1>0, <2>2 DEF StateFits, LiveFits, Live
    <3>3. retiredAttempt \notin provider.open
      BY <1>0, <2>2 DEF StateFits, OpenFits
    <3> QED  BY <1>0, <3>1, <3>2, <3>3 DEF StateFits, OpenFits
  <2> QED  BY <2>1, <2>2
<1>4. Onward  BY <1>0, <1>1, <1>2 DEF Onward, Stops, Over
<1>5. /\ Kept(calls')
      /\ \A g \in On(calls') : Calm(g, Stops)
  <2>1. /\ Kept(Overtaken(stack))
        /\ \A g \in On(Overtaken(stack)) : Calm(g, Stops)
    BY <1>2, <1>4, OvertakenKept
  <2> QED  BY <1>1, <2>1
<1>6. Adjacent' /\ ~Running("startAttempt")'  BY <1>5, AdjacentCalm DEF Calm
<1>7. StackFits'  BY <1>5, <1>6, StackFitsKept
<1>8. LiveFits'
  <2>1. ~Live'  BY <1>3, <1>6 DEF Live
  <2> QED  BY <2>1 DEF LiveFits
<1>9. OwedFits' /\ MicrophoneFits' /\ HoldsFits'
  BY <1>1, <1>2 DEF OwedFits, MicrophoneFits, HoldsFits, NoBetween
<1>10. OpenFits'  BY <1>1, <1>3 DEF OpenFits
<1> QED  BY <1>7, <1>8, <1>9, <1>10 DEF StateFits

\* cancel(), and what the session does of a speech a failure ended.
LEMMA CancelRuns ==
    ASSUME Runs, cancel \/ SessionEnds, Inv'
    PROVE  StateFits' /\ StackFits'
<1> USE DEF speechVars, flagVars, resumeVars, providerVars, heardVars
<1>1. CASE cancel
  <2>1. /\ calls \in Seq(Frames) /\ Ordered(calls, Stops) /\ Cancelled(calls)
        /\ \A g \in On(calls) : /\ g \in Frames /\ Finds(g)
                                /\ Calm(g, Stops) \/ g.at \in Asks
    BY <1>1, HandlersCalm DEF cancel
  <2> QED  BY <2>1, CancelledRuns
<1>2. CASE SessionEnds
  <2>0. Running("sessionEnds")  BY <1>2 DEF SessionEnds
  <2>1. CASE Cancelled(Tail(calls))
    <3>1. /\ Head(calls).at = "sessionEnds" /\ Tail(calls) \in Seq(Frames)
          /\ Ordered(Tail(calls), Stops)
          /\ \A g \in On(Tail(calls)) : /\ g \in Frames /\ Finds(g)
                                        /\ Lies(Head(calls), g, Stops)
      BY <2>0, AtHead
    <3>2. \A g \in On(Tail(calls)) : Calm(g, Stops)
      BY <3>1 DEF Lies, Calm, Asks
    <3> QED  BY <2>1, <3>1, <3>2, CancelledRuns
  <2>2. CASE Return /\ UNCHANGED <<speechVars, flagVars, resumeVars, providerVars,
                                   microphone, heardVars>>
    <3>1. Same /\ calls' = Tail(calls)  BY <2>2 DEF Same, Return
    <3> QED  BY <2>0, <3>1, ReturnsRuns
  <2> QED  BY <1>2, <2>1, <2>2 DEF SessionEnds
<1> QED  BY <1>1, <1>2

-----------------------------------------------------------------------------
(* Calls to the provider, and what it reports.                               *)

\* A provider runs the current attempt, or is asked to: none other, and no
\* preparation.
LEMMA LiveAlone ==
    ASSUME Runs, Live
    PROVE  /\ provider.open \subseteq {attempts.id} /\ attempts.id > 0
           /\ ~chain.preparing /\ ~between.awaitingProvider /\ ~between.endedDuringStop
           /\ retiredAttempt \notin provider.open
<1>1. StateFits  BY DEF Runs
<1>2. /\ ~between.awaitingProvider /\ ~between.endedDuringStop /\ attempts.id > 0
  BY <1>1 DEF StateFits, LiveFits
<1> QED  BY <1>1, <1>2 DEF StateFits, OpenFits, HoldsFits

\* The call returns.
LEMMA ProviderReturnsRuns ==
    ASSUME Runs, NEW label \in {"startAttempt", "sendAudio", "finishInput"}, NEW took, NEW told,
           Running(label), label = "startAttempt" => took = {attempts.id},
           label # "startAttempt" => took = {},
           provider' = [open |-> provider.open \cup took, told |-> provider.told \cup told],
           Return,
           UNCHANGED <<phase, between, attempts, microphone, settings, flagVars, resumeVars,
                       chain, partial>>
    PROVE  StateFits' /\ StackFits'
<1> USE DEF flagVars, resumeVars
<1>1. CASE label # "startAttempt"
  <2>1. Same  BY <1>1 DEF Same
  <2> QED  BY <1>1, <2>1, ReturnsRuns DEF Return
<1>2. CASE label = "startAttempt"
  <2>1. /\ Running("startAttempt") /\ provider'.open = provider.open \cup {attempts.id}
        /\ UNCHANGED <<phase, settings, between, microphoneStarting, microphoneStopped,
                       noAttemptToFinish, openOwed, retiredAttempt, attempts, chain,
                       microphone, partial>>
        /\ calls' = Tail(calls)
    BY <1>2 DEF Return
  <2>2. StateFits /\ Live /\ attempts.id \in Nat /\ retiredAttempt \in Nat
    BY <2>1, Types DEF Runs, Live
  <2>3. /\ Tail(calls) \in Seq(Frames) /\ Ordered(Tail(calls), Stops)
        /\ Head(calls).at = "startAttempt"
        /\ On(calls) = {Head(calls)} \cup On(Tail(calls))
        /\ \A g \in On(Tail(calls)) : /\ g \in Frames /\ Finds(g)
                                      /\ Lies(Head(calls), g, Stops)
    BY <2>1, AtHead
  <2>4. Stops' <=> Stops  BY <2>1 DEF Stops, Over
  <2>5. \A g \in On(Tail(calls)) : g.at \notin HeadOnly  BY <2>3 DEF Lies
  <2>6. Kept(calls')
    <3>1. Ordered(Tail(calls), Stops')  BY <2>3, <2>4, TruthValues, OrderedStops
    <3>2. \A g \in On(Tail(calls)) : Finds(g)'
      BY <2>1, <2>3, <2>4, <2>5 DEF Finds, HeadOnly
    <3> QED  BY <2>1, <2>3, <3>1, <3>2 DEF Kept
  <2>7. Adjacent' /\ ~Running("startAttempt")' /\ ~Running("retire") /\ ~Running("retire")'
    BY <2>1, <2>5, <2>6, AdjacentCalm DEF Running
  <2>8. StackFits'  BY <2>6, <2>7, StackFitsKept
  <2>9. LiveFits'
    <3>1. (\E f \in On(calls) : f.at = "finishPaused") =>
             \E f \in On(calls') : f.at = "finishPaused"
      BY <2>1, <2>3
    <3> QED  BY <2>1, <2>2, <3>1 DEF StateFits, LiveFits, Over
  <2>10. OwedFits' /\ MicrophoneFits'
    BY <2>1, <2>2 DEF StateFits, OwedFits, MicrophoneFits
  <2>11. OpenFits'
    <3>1. attempts.id > 0  BY <2>2, LiveAlone
    <3> QED  BY <2>1, <2>2, <3>1 DEF StateFits, OpenFits
  <2>12. HoldsFits'  BY <2>1, <2>2, <2>7 DEF StateFits, HoldsFits
  <2> QED  BY <2>8, <2>9, <2>10, <2>11, <2>12 DEF StateFits
<1> QED  BY <1>1, <1>2

\* The provider reports the attempt's end from inside the call.
LEMMA ProviderFailsRuns ==
    ASSUME Runs, Ordinarily, Inv',
           NEW label \in {"startAttempt", "sendAudio", "finishInput"}, NEW took, NEW told,
           Running(label), label = "startAttempt" => took = {attempts.id},
           label # "startAttempt" => took = {},
           attempts.id \in provider.open \cup took, Ordinary(label),
           provider' = [open |-> (provider.open \cup took) \ {attempts.id},
                        told |-> provider.told \cup told],
           Failing(Tail(calls)) \/ (label = "finishInput" /\ Completing(Tail(calls))),
           UNCHANGED <<settings, flagVars, resumeVars, chain, partial>>
    PROVE  StateFits' /\ StackFits'
<1> USE DEF flagVars, resumeVars
<1> DEFINE rest == Tail(calls)
<1>1. Live  BY DEF Live
<1>2. /\ provider.open \subseteq {attempts.id} /\ ~chain.preparing
  BY <1>1, LiveAlone
<1>3. provider'.open = {}
  BY <1>2
<1>4. /\ rest \in Seq(Frames) /\ Ordered(rest, Stops) /\ Head(calls).at = label
      /\ \A g \in On(rest) : g \in Frames /\ Finds(g) /\ Lies(Head(calls), g, Stops)
  BY AtHead
<1>5. label # "finishInput" => phase # "Paused" /\ ~between.finishingPausedAttempt
  BY DEF Ordinary, Ordinarily
<1>6. \A g \in On(rest) : Calm(g, Stops)
  <2>1. CASE label = "finishInput"
    BY <2>1, CalmBelow DEF Way, Ending
  <2>2. CASE label # "finishInput"
    <3> SUFFICES ASSUME NEW g \in On(rest)  PROVE  Calm(g, Stops)
      OBVIOUS
    <3>1. Finds(g) /\ Lies(Head(calls), g, Stops)  BY <1>4
    <3>2. g.at # "finishPaused"  BY <1>5, <2>2, <3>1 DEF Finds
    <3>3. g.at = "endInput" => Stops
      BY <1>5, <2>2, <3>1 DEF Finds
    <3> QED  BY <1>4, <2>2, <3>1, <3>2, <3>3 DEF Lies, Calm, Asks
  <2> QED  BY <2>1, <2>2
<1>7. between.finishingPausedAttempt \/ label = "finishInput" =>
         \A g \in On(rest) : g.at \notin Ending
  <2>1. label = "finishInput" => \A g \in On(rest) : g.at \notin Ending
    BY CalmBelow DEF Way, Ending
  <2> QED  BY <1>5, <2>1
<1> HIDE DEF rest
<1>8. Clear(rest)
  <2>1. /\ UNCHANGED <<settings, microphoneStarting, microphoneStopped, noAttemptToFinish,
                       openOwed, retiredAttempt, partial, chain>>
    OBVIOUS
  <2> QED  BY <1>2, <1>3, <1>4, <1>6, <2>1 DEF Clear
<1>9. CASE Failing(rest)
  <2>1. PICK failure \in Failures, offline \in BOOLEAN, stable \in BOOLEAN :
           handleFailure(failure, offline, stable, rest)
    BY <1>9 DEF Failing
  <2> QED  BY <1>1, <1>7, <1>8, <2>1, FailureRuns
<1>10. CASE label = "finishInput" /\ Completing(rest)
  <2>1. PICK offline \in BOOLEAN, stable \in BOOLEAN :
           handleCompleted(offline, stable, rest)
    BY <1>10 DEF Completing
  <2> QED  BY <1>1, <1>7, <1>8, <1>10, <2>1, CompletedRuns
<1> QED  BY <1>9, <1>10 DEF rest

LEMMA ProviderCallsRun ==
    ASSUME Runs, Ordinarily, Inv', StartAttempt \/ SendAudio \/ FinishInput
    PROVE  StateFits' /\ StackFits'
<1> USE DEF heardVars
<1>1. ASSUME NEW label \in {"startAttempt", "sendAudio", "finishInput"}, NEW took, NEW told,
             ProviderCalled(label, took, told), UNCHANGED partial,
             label = "startAttempt" => took = {attempts.id},
             label # "startAttempt" => took = {}
      PROVE  StateFits' /\ StackFits'
  <2>1. CASE /\ provider' = [open |-> provider.open \cup took,
                             told |-> provider.told \cup told]
             /\ Return /\ UNCHANGED <<phase, between, attempts, microphone>>
    BY <1>1, <2>1, ProviderReturnsRuns DEF ProviderCalled
  <2>2. CASE /\ attempts.id \in provider.open \cup took /\ Ordinary(label)
             /\ provider' = [open |-> (provider.open \cup took) \ {attempts.id},
                             told |-> provider.told \cup told]
             /\ Failing(Tail(calls)) \/ (label = "finishInput" /\ Completing(Tail(calls)))
    BY <1>1, <2>2, ProviderFailsRuns DEF ProviderCalled
  <2> QED  BY <1>1, <2>1, <2>2 DEF ProviderCalled
<1>2. CASE StartAttempt  BY <1>1, <1>2 DEF StartAttempt
<1>3. CASE SendAudio  BY <1>1, <1>3 DEF SendAudio
<1>4. CASE FinishInput  BY <1>1, <1>4 DEF FinishInput
<1> QED  BY <1>2, <1>3, <1>4

\* The event loop is free again.
LEMMA FreeFits ==
    ASSUME calls' = <<>>
    PROVE  StackFits' /\ ~Running("startAttempt")' /\ ~Running("retire")'
<1>1. Kept(calls')  BY KeptEmpty
<1>2. Adjacent'  BY AdjacentElse
<1> QED  BY <1>1, <1>2, StackFitsKept DEF Running

\* Nothing waits below a call the event loop makes.
LEMMA NothingBelow ==
    ASSUME Runs, provider'.open = {}, ~chain'.preparing, openOwed' => openOwed,
           UNCHANGED <<settings, microphoneStarting, microphoneStopped, noAttemptToFinish,
                       retiredAttempt, partial>>
    PROVE  Clear(<<>>) /\ \A g \in On(<<>>) : g.at \notin Ending
BY DEF Clear, Ordered, On

\* An attempt ends; the one a stop let go changes nothing else.
LEMMA AttemptEndsRuns ==
    ASSUME Runs, Inv', ProviderEnds
    PROVE  StateFits' /\ StackFits'
<1> USE DEF flagVars, resumeVars, heardVars
<1>1. PICK a \in provider.open : AttemptEnds(a)  BY DEF ProviderEnds
<1>2. /\ Free /\ StateFits /\ provider'.open = provider.open \ {a}
      /\ UNCHANGED <<settings, microphoneStarting, microphoneStopped, noAttemptToFinish,
                     openOwed, retiredAttempt, chain, partial>>
      /\ provider \in [open: SUBSET Nat, told: SUBSET Nat]
  BY <1>1, Types DEF Runs, AttemptEnds
<1>3. CASE a = attempts.id
  <2>1. Live  BY <1>3 DEF Live
  <2>2. provider.open \subseteq {attempts.id} /\ ~chain.preparing
    BY <2>1, LiveAlone
  <2>3. provider'.open = {} /\ ~chain'.preparing  BY <1>2, <1>3, <2>2
  <2>4. Clear(<<>>) /\ \A g \in On(<<>>) : g.at \notin Ending
    BY <1>2, <2>3, NothingBelow
  <2>5. CASE Failing(<<>>)
    <3>1. PICK failure \in Failures, offline \in BOOLEAN, stable \in BOOLEAN :
             handleFailure(failure, offline, stable, <<>>)
      BY <2>5 DEF Failing
    <3> QED  BY <2>1, <2>4, <3>1, FailureRuns
  <2>6. CASE Completing(<<>>)
    <3>1. PICK offline \in BOOLEAN, stable \in BOOLEAN :
             handleCompleted(offline, stable, <<>>)
      BY <2>6 DEF Completing
    <3> QED  BY <2>1, <2>4, <3>1, CompletedRuns
  <2> QED  BY <1>1, <1>3, <2>5, <2>6 DEF AttemptEnds
<1>4. CASE a # attempts.id
  <2>1. UNCHANGED <<phase, between, attempts, calls, microphone>>
    BY <1>1, <1>4 DEF AttemptEnds
  <2>2. calls' = <<>> /\ calls = <<>>  BY <1>2, <2>1 DEF Free
  <2>3. StackFits' /\ ~Running("startAttempt")'  BY <2>2, FreeFits
  <2>4. Live' => Live  BY <1>2, <2>1, <2>3 DEF Live
  <2>5. LiveFits'
    BY <1>2, <2>1, <2>4 DEF StateFits, LiveFits, Over, On
  <2>6. OwedFits' /\ MicrophoneFits'
    BY <1>2, <2>1 DEF StateFits, OwedFits, MicrophoneFits
  <2>7. OpenFits'  BY <1>2, <2>1 DEF StateFits, OpenFits
  <2>8. HoldsFits'
    <3>1. ~Running("retire")  BY <2>2 DEF Running
    <3> QED  BY <1>2, <2>1, <3>1 DEF StateFits, HoldsFits
  <2> QED  BY <2>3, <2>5, <2>6, <2>7, <2>8 DEF StateFits
<1> QED  BY <1>3, <1>4

\* Text comes only of the attempt a provider runs.
LEMMA TextArrivesRuns ==
    ASSUME Runs, TextArrives
    PROVE  StateFits' /\ StackFits'
<1> USE DEF speechVars, flagVars, resumeVars, providerVars, heardVars
<1>1. /\ Free /\ StateFits
      /\ UNCHANGED <<phase, settings, between, microphoneStarting, microphoneStopped,
                     noAttemptToFinish, openOwed, retiredAttempt, attempts, chain, calls,
                     microphone, provider>>
  BY DEF Runs, TextArrives
<1>2. ~between.awaitingProvider
  <2>1. Live  BY DEF TextArrives, Live
  <2> QED  BY <2>1, LiveAlone
<1>3. calls' = <<>> /\ calls = <<>>  BY <1>1 DEF Free
<1>4. StackFits' /\ ~Running("startAttempt")'  BY <1>3, FreeFits
<1>5. Live' => Live  BY <1>1, <1>4 DEF Live
<1>6. LiveFits'  BY <1>1, <1>5 DEF StateFits, LiveFits, Over, On
<1>7. OwedFits' /\ MicrophoneFits'
  BY <1>1 DEF StateFits, OwedFits, MicrophoneFits
<1>8. OpenFits'  BY <1>1 DEF StateFits, OpenFits
<1>9. HoldsFits'  BY <1>1, <1>2 DEF StateFits, HoldsFits
<1> QED  BY <1>4, <1>6, <1>7, <1>8, <1>9 DEF StateFits

-----------------------------------------------------------------------------
(* The session's commands.                                                   *)

\* begin(): a new speech, once the last is over.
LEMMA BeginRuns ==
    ASSUME Runs, Inv', Begin
    PROVE  StateFits' /\ StackFits'
<1>1. /\ MayCall /\ Over /\ StateFits /\ attempts \in Attempts /\ attempts.id \in Nat
      /\ settings' = FALSE /\ microphoneStarting' = FALSE /\ retiredAttempt' = 0
      /\ openOwed' = FALSE /\ phase' = "Starting" /\ partial' = FALSE
      /\ calls' = Overtaken(calls)
      /\ between' = [NoBetween EXCEPT !.awaitingProvider = TRUE]
      /\ attempts' = [attempts EXCEPT !.id = @ + 1]
      /\ UNCHANGED <<microphoneStopped, noAttemptToFinish, chain, microphone, provider>>
  BY Types DEF Runs, Begin, Over
<1>2. attempts'.id = attempts.id + 1 /\ attempts'.transcriber = attempts.transcriber
  BY <1>1 DEF Attempts
<1>3. /\ between'.awaitingProvider = TRUE /\ between'.finishingPausedAttempt = FALSE
      /\ between'.endedDuringStop = FALSE
  BY <1>1 DEF NoBetween
<1>4. ~chain.preparing /\ ~microphone /\ provider.open = {}
  <2>1. ~chain.preparing /\ ~microphone
    BY <1>1 DEF StateFits, HoldsFits, MicrophoneFits, Over
  <2>2. provider.open = {}
    BY <1>1 DEF StateFits, LiveFits, OpenFits, Live, Over
  <2> QED  BY <2>1, <2>2
<1>5. Onward  BY <1>1, <1>2 DEF Onward, Stops, Over
<1>6. Kept(calls') /\ \A g \in On(calls') : Calm(g, Stops)
  <2>1. /\ calls \in Seq(Frames) /\ Ordered(calls, Stops)
        /\ \A g \in On(calls) : /\ g \in Frames /\ Finds(g)
                                /\ Calm(g, Stops) \/ g.at \in Asks
    BY <1>1, HandlersCalm
  <2>2. /\ Kept(Overtaken(calls))
        /\ \A g \in On(Overtaken(calls)) : Calm(g, Stops)
    BY <1>2, <1>5, <2>1, OvertakenKept
  <2> QED  BY <1>1, <2>2
<1>7. Adjacent' /\ ~Running("startAttempt")'  BY <1>6, AdjacentCalm DEF Calm
<1>8. StackFits'  BY <1>6, <1>7, StackFitsKept
<1>9. LiveFits'
  <2>1. ~Live'  BY <1>1, <1>4, <1>7 DEF Live
  <2> QED  BY <2>1 DEF LiveFits
<1>10. OwedFits' /\ MicrophoneFits' /\ HoldsFits'
  BY <1>1, <1>3, <1>4 DEF OwedFits, MicrophoneFits, HoldsFits
<1>11. OpenFits'  BY <1>1, <1>4 DEF OpenFits
<1> QED  BY <1>8, <1>9, <1>10, <1>11 DEF StateFits

\* start(): the chain is walked from its first provider.
LEMMA StartRuns ==
    ASSUME Runs, Start
    PROVE  StateFits' /\ StackFits'
<1> USE DEF flagVars, resumeVars, heardVars
<1> DEFINE f == Call("walk")
           s == <<>>
<1>1. /\ Free /\ StateFits /\ phase = "Starting" /\ ~settings /\ settings' = TRUE
      /\ attempts \in Attempts /\ attempts.id \in Nat
      /\ attempts' = [attempts EXCEPT !.transcriber = TRUE]
      /\ chain' = [index |-> 1, preparing |-> FALSE] /\ calls' = <<f>>
      /\ UNCHANGED <<phase, between, microphoneStarting, microphoneStopped,
                     noAttemptToFinish, openOwed, retiredAttempt, microphone, provider,
                     partial>>
  BY Types DEF Runs, Start
<1>2. attempts'.id = attempts.id /\ attempts'.transcriber /\ ~chain'.preparing
  BY <1>1 DEF Attempts
<1>3. between.awaitingProvider /\ ~Running("retire")
  BY <1>1 DEF StateFits, HoldsFits, Free, Running
<1>4. provider.open = {} /\ ~partial /\ ~between.finishingPausedAttempt
  BY <1>3, Awaited
<1>5. f \in Frames /\ f.at = "walk"  BY Pushes DEF Labels
<1>6. calls' = <<f>> \o s /\ Kept(s) /\ On(s) = {}
  BY <1>1, <1>5, KeptEmpty DEF On
<1> HIDE DEF f, s
<1>7. Finds(f)'  BY <1>1, <1>2, <1>3, <1>5 DEF Finds, First
<1>8. Kept(calls') /\ calls' # <<>> /\ Head(calls') = f
  BY <1>5, <1>6, <1>7, KeptLaid
<1>9. Adjacent' /\ ~Running("startAttempt")'
  BY <1>5, <1>8, AdjacentElse DEF Running
<1>10. StackFits'  BY <1>8, <1>9, StackFitsKept
<1>11. LiveFits'
  <2>1. ~Live'  BY <1>1, <1>4, <1>9 DEF Live
  <2> QED  BY <2>1 DEF LiveFits
<1>12. OwedFits' /\ MicrophoneFits'
  BY <1>1 DEF StateFits, OwedFits, MicrophoneFits
<1>13. OpenFits'  BY <1>1, <1>2, <1>4 DEF StateFits, OpenFits
<1>14. HoldsFits'  BY <1>1, <1>2, <1>3, <1>4 DEF HoldsFits
<1> QED  BY <1>10, <1>11, <1>12, <1>13, <1>14 DEF StateFits

\* listen(): the microphone that was starting delivers.
LEMMA ListenRuns ==
    ASSUME Runs, listen
    PROVE  StateFits' /\ StackFits'
<1> USE DEF resumeVars, providerVars, heardVars
<1>1. /\ Free /\ StateFits /\ microphoneStarting /\ microphone
      /\ microphoneStarting' = FALSE
      /\ UNCHANGED <<settings, between, microphoneStopped, noAttemptToFinish, openOwed,
                     retiredAttempt, attempts, chain, calls, microphone, provider, partial>>
  BY DEF Runs, listen
<1>2. phase = "Starting" /\ settings /\ phase' = "Listening"
  <2>1. phase = "Starting" /\ settings  BY <1>1 DEF StateFits, MicrophoneFits
  <2> QED  BY <2>1 DEF listen
<1>3. calls' = <<>> /\ calls = <<>>  BY <1>1 DEF Free
<1>4. StackFits' /\ ~Running("startAttempt")'  BY <1>3, FreeFits
<1>5. Live' => Live  BY <1>1, <1>4 DEF Live
<1>6. LiveFits'  BY <1>1, <1>2, <1>5 DEF StateFits, LiveFits, Over
<1>7. OwedFits' /\ MicrophoneFits'
  BY <1>1, <1>2 DEF StateFits, OwedFits, MicrophoneFits
<1>8. OpenFits'  BY <1>1, <1>2 DEF StateFits, OpenFits
<1>9. HoldsFits'
  <2>1. ~Running("retire")  BY <1>3 DEF Running
  <2> QED  BY <1>1, <1>2, <2>1 DEF StateFits, HoldsFits
<1> QED  BY <1>4, <1>6, <1>7, <1>8, <1>9 DEF StateFits

\* What is below a command's announcement while the speech listens or pauses.
LEMMA OvertakenBelow ==
    ASSUME Runs, MayCall, ~Stops, Onward, attempts.transcriber => attempts'.transcriber
    PROVE  /\ Kept(Overtaken(calls))
           /\ \A g \in On(Overtaken(calls)) :
                 g.at \notin HeadOnly \cup Ending \cup Asks \cup {"switch"}
<1>1. /\ calls \in Seq(Frames) /\ Ordered(calls, Stops)
      /\ \A g \in On(calls) : /\ g \in Frames /\ Finds(g)
                              /\ Calm(g, Stops) \/ g.at \in Asks
  BY HandlersCalm
<1>2. /\ Kept(Overtaken(calls))
      /\ \A g \in On(Overtaken(calls)) :
            Calm(g, Stops) /\ (g = Call("overtaken") \/ g \in On(calls))
  BY <1>1, OvertakenKept
<1>3. Call("overtaken").at = "overtaken"  BY DEF Call
<1>4. ASSUME NEW g \in On(Overtaken(calls))
      PROVE  g.at \notin HeadOnly \cup Ending \cup Asks \cup {"switch"}
  <2>1. Calm(g, Stops)  BY <1>2
  <2>2. g.at # "endHeld"
    <3>1. CASE g = Call("overtaken")  BY <1>3, <3>1
    <3>2. CASE g \in On(calls)  BY <1>1, <3>2 DEF Finds
    <3> QED  BY <1>2, <3>1, <3>2
  <2> QED  BY <2>1, <2>2 DEF Calm, HeadOnly, Ending, Asks
<1> QED  BY <1>2, <1>4

\* The announcement of a command, over what follows it.
LEMMA AskedRuns ==
    ASSUME NEW s, Kept(s), NEW f \in Frames, f.at \in Asks, Finds(f)',
           \A g \in On(s) : g.at \notin HeadOnly \cup Ending \cup Asks \cup {"switch"},
           calls' = <<Call("handlers")>> \o (<<f>> \o s)
    PROVE  StackFits' /\ ~Running("startAttempt")' /\ ~Running("retire")'
<1> DEFINE h == Call("handlers")
<1>1. h \in Frames /\ h.at = "handlers"  BY Pushes DEF Labels
<1>2. calls' = <<h>> \o (<<f>> \o s)  OBVIOUS
<1> HIDE DEF h
<1>3. \A g \in On(s) : Lies(f, g, Stops') /\ Lies(h, g, Stops')
  BY <1>1 DEF Lies, HeadOnly, Ending, Asks, First
<1>4. Kept(<<f>> \o s) /\ On(<<f>> \o s) = {f} \cup On(s)
  BY <1>3, KeptLaid
<1>5. Finds(h)' /\ Lies(h, f, Stops')
  <2>1. Finds(h)'  BY <1>1 DEF Finds, First
  <2>2. Lies(h, f, Stops')
    BY <1>1 DEF Lies, HeadOnly, Ending, Asks, Way, First
  <2> QED  BY <2>1, <2>2
<1>6. \A g \in On(<<f>> \o s) : Lies(h, g, Stops')  BY <1>3, <1>4, <1>5
<1>7. Kept(calls') /\ calls' # <<>> /\ Head(calls') = h
  BY <1>1, <1>2, <1>4, <1>5, <1>6, KeptLaid
<1>8. Adjacent' /\ ~Running("startAttempt")' /\ ~Running("retire")'
  BY <1>1, <1>7, AdjacentElse DEF Running
<1> QED  BY <1>7, <1>8, StackFitsKept

\* A live attempt a pause let finish does: no command comes before it is told.
LEMMA PausedFinishes ==
    ASSUME Runs, MayCall, Live, phase = "Paused"
    PROVE  between.finishingPausedAttempt
<1>1. \A g \in On(calls) : g.at # "finishPaused"
  BY HandlersCalm DEF Calm, Asks
<1> QED  BY <1>1 DEF Runs, StateFits, LiveFits

\* The running call is not the attempt's start when a command is called.
LEMMA CommandFrom ==
    ASSUME MayCall
    PROVE  ~Running("startAttempt") /\ ~Running("retire")
BY DEF MayCall, Free, Handling, Running

\* pause(): the attempt finishes, if one runs.
LEMMA PauseRuns ==
    ASSUME Runs, pause
    PROVE  StateFits' /\ StackFits'
<1> USE DEF resumeVars, providerVars, heardVars
<1> DEFINE f == Call("proceed")
           s == Overtaken(calls)
<1>1. /\ MayCall /\ StateFits /\ between \in Betweens /\ attempts.id \in Nat
      /\ calls \in Seq(Frames) /\ openOwed \in BOOLEAN
      /\ phase = "Listening" /\ phase' = "Paused" /\ microphone' = FALSE /\ openOwed' = FALSE
      /\ UNCHANGED <<settings, microphoneStarting, microphoneStopped, noAttemptToFinish,
                     retiredAttempt, attempts, chain, provider, partial>>
  BY Types DEF Runs, pause, MayCall
<1>2. /\ between'.awaitingProvider = between.awaitingProvider
      /\ between'.endedDuringStop = between.endedDuringStop
      /\ between'.finishingPausedAttempt =
            (between.finishingPausedAttempt \/ (~openOwed /\ ~between.awaitingProvider))
  BY <1>1 DEF pause, Betweens
<1>3. ~Stops /\ Onward  BY <1>1 DEF Onward, Stops, Over
<1>4. /\ Kept(s)
      /\ \A g \in On(s) : g.at \notin HeadOnly \cup Ending \cup Asks \cup {"switch"}
  BY <1>1, <1>3, OvertakenBelow
<1>5. f \in Frames /\ f.at = "proceed" /\ f.at \in Asks  BY Pushes DEF Labels, Asks
<1>6. calls' = <<Call("handlers")>> \o (<<f>> \o s)
  <2>1. Call("handlers") \in Frames /\ s \in Seq(Frames)
    BY <1>4, Pushes DEF Labels, Kept
  <2>2. calls' = <<Call("handlers")>> \o <<f>> \o s  BY DEF pause, Announce
  <2> DEFINE one == <<Call("handlers")>>
             two == <<f>>
  <2>3. one \in Seq(Frames) /\ two \in Seq(Frames)  BY <1>5, <2>1
  <2> HIDE DEF f, s, one, two
  <2>4. (one \o two) \o s = one \o (two \o s)  BY <2>1, <2>3, ConcatAssociative
  <2> QED  BY <2>2, <2>4 DEF one, two
<1> HIDE DEF f, s
<1>7. Finds(f)'  BY <1>1, <1>5 DEF Finds, First
<1>8. StackFits' /\ ~Running("startAttempt")'
  BY <1>4, <1>5, <1>6, <1>7, AskedRuns
<1>9. ~Running("startAttempt") /\ ~Running("retire")  BY <1>1, CommandFrom
<1>10. Live' => Live  BY <1>1, <1>8 DEF Live
<1>11. LiveFits'  BY <1>1, <1>2, <1>10 DEF StateFits, LiveFits, Over
<1>12. OwedFits' /\ MicrophoneFits'
  BY <1>1, <1>2 DEF StateFits, OwedFits, MicrophoneFits
<1>13. OpenFits'  BY <1>1, <1>2 DEF StateFits, OpenFits
<1>14. HoldsFits'  BY <1>1, <1>2, <1>9 DEF StateFits, HoldsFits
<1> QED  BY <1>8, <1>11, <1>12, <1>13, <1>14 DEF StateFits

\* resume(): the attempt is owed until the state is announced, unless one runs.
LEMMA ResumeRuns ==
    ASSUME Runs, resume
    PROVE  StateFits' /\ StackFits'
<1> USE DEF resumeVars, providerVars, heardVars
<1> DEFINE f == Call("proceed")
           m == Call("startMicrophone")
           s == Overtaken(calls)
<1>1. /\ MayCall /\ StateFits /\ attempts.id \in Nat /\ openOwed \in BOOLEAN
      /\ phase = "Paused" /\ phase' = "Listening" /\ settings
      /\ openOwed' = (~between.finishingPausedAttempt /\ ~between.awaitingProvider)
      /\ UNCHANGED <<settings, between, microphoneStarting, microphoneStopped,
                     noAttemptToFinish, retiredAttempt, attempts, chain, microphone,
                     provider, partial>>
  BY Types DEF Runs, resume
<1>2. ~Stops /\ Onward  BY <1>1 DEF Onward, Stops, Over
<1>3. /\ Kept(s)
      /\ \A g \in On(s) : g.at \notin HeadOnly \cup Ending \cup Asks \cup {"switch"}
  BY <1>1, <1>2, OvertakenBelow
<1>4. /\ f \in Frames /\ f.at = "proceed" /\ f.at \in Asks
      /\ m \in Frames /\ m.at = "startMicrophone" /\ Call("handlers") \in Frames
  BY Pushes DEF Labels, Asks
<1> DEFINE t == <<m>> \o s
<1>5. calls' = <<Call("handlers")>> \o (<<f>> \o t)
  <2> DEFINE one == <<Call("handlers")>>
             two == <<f, m>>
  <2>1. calls' = one \o two \o s  BY DEF resume, Announce
  <2>2. one \in Seq(Frames) /\ two \in Seq(Frames) /\ s \in Seq(Frames)
    BY <1>3, <1>4 DEF Kept
  <2> HIDE DEF f, m, s, one, two
  <2>3. (one \o two) \o s = one \o (two \o s)  BY <2>2, ConcatAssociative
  <2>4. two \o s = <<f>> \o (<<m>> \o s)  BY <1>4, <2>2, TwoLaid DEF two
  <2> QED  BY <2>1, <2>3, <2>4 DEF one
<1> HIDE DEF f, m, s
<1>6. Finds(m)' /\ \A g \in On(s) : Lies(m, g, Stops')
  <2>1. Finds(m)'  BY <1>1, <1>4 DEF Finds, First
  <2>2. \A g \in On(s) : Lies(m, g, Stops')
    BY <1>3, <1>4 DEF Lies, HeadOnly, Ending, Asks, First
  <2> QED  BY <2>1, <2>2
<1>7. Kept(t) /\ On(t) = {m} \cup On(s)
  BY <1>3, <1>4, <1>6, KeptLaid
<1>8. Finds(f)'  BY <1>1, <1>4 DEF Finds, First
<1> HIDE DEF t
<1>9. \A g \in On(t) : g.at \notin HeadOnly \cup Ending \cup Asks \cup {"switch"}
  BY <1>3, <1>4, <1>7 DEF HeadOnly, Ending, Asks
<1>10. StackFits' /\ ~Running("startAttempt")'
  BY <1>4, <1>5, <1>7, <1>8, <1>9, AskedRuns
<1>11. ~Running("startAttempt") /\ ~Running("retire")  BY <1>1, CommandFrom
<1>12. Live' => Live  BY <1>1, <1>10 DEF Live
<1>13. Live => between.finishingPausedAttempt  BY <1>1, PausedFinishes
<1>14. LiveFits'  BY <1>1, <1>12, <1>13 DEF StateFits, LiveFits, Over
<1>15. OwedFits' /\ MicrophoneFits'
  BY <1>1 DEF StateFits, OwedFits, MicrophoneFits
<1>16. OpenFits'  BY <1>1 DEF StateFits, OpenFits
<1>17. HoldsFits'  BY <1>1, <1>11 DEF StateFits, HoldsFits
<1> QED  BY <1>10, <1>14, <1>15, <1>16, <1>17 DEF StateFits

\* stop(): an attempt nothing was said to is let go for the transcriber to
\* cancel.
LEMMA StopSpeechRuns ==
    ASSUME Runs, MayCall, phase \in {"Listening", "Paused"}, NEW b \in Betweens,
           b.awaitingProvider = between.awaitingProvider,
           b.endedDuringStop = between.endedDuringStop,
           b.finishingPausedAttempt = between.finishingPausedAttempt,
           b.held = between.held,
           StopSpeech(b), microphone' => microphone, microphone' \in BOOLEAN,
           UNCHANGED partial
    PROVE  StateFits' /\ StackFits'
<1> DEFINE letGo == phase = "Listening" /\ emptyResumedAttempt = attempts.id
           s == Overtaken(calls)
<1>1. /\ StateFits /\ attempts \in Attempts /\ attempts.id \in Nat /\ openOwed \in BOOLEAN
      /\ calls \in Seq(Frames) /\ microphone \in BOOLEAN /\ retiredAttempt \in Nat
      /\ between.endedDuringStop \in BOOLEAN
      /\ phase' = "Stopping" /\ microphoneStopped' = FALSE
      /\ noAttemptToFinish' = (phase = "Paused" \/ openOwed)
      /\ openOwed' = (openOwed /\ phase = "Paused")
      /\ UNCHANGED <<settings, microphoneStarting, chain, provider, partial>>
  BY Types DEF Runs, StopSpeech
<1>2. /\ settings /\ ~between.endedDuringStop /\ openOwed' = FALSE
      /\ attempts.transcriber \/ between.awaitingProvider
      /\ phase = "Paused" => ~microphone
      /\ ~microphoneStarting /\ retiredAttempt \notin provider.open
  BY <1>1 DEF StateFits, OwedFits, HoldsFits, MicrophoneFits, OpenFits
<1>3. /\ between'.awaitingProvider = between.awaitingProvider
      /\ between'.finishingPausedAttempt = between.finishingPausedAttempt
      /\ between'.endedDuringStop = letGo
      /\ between'.held = between.held
  BY <1>1, <1>2 DEF StopSpeech, Betweens
<1>4. /\ attempts'.transcriber = attempts.transcriber
      /\ letGo => attempts'.id = attempts.id + 1 /\ retiredAttempt' = attempts.id
      /\ ~letGo => attempts'.id = attempts.id /\ retiredAttempt' = retiredAttempt
  BY <1>1 DEF StopSpeech, Attempts
<1> HIDE DEF letGo
<1>5. attempts'.id \in Nat /\ attempts'.id >= attempts.id  BY <1>1, <1>4
<1>6. ~Stops /\ Onward /\ Stops'
  BY <1>1, <1>2, <1>5 DEF Onward, Stops, Over
<1>7. /\ Kept(s)
      /\ \A g \in On(s) : g.at \notin HeadOnly \cup Ending \cup Asks \cup {"switch"}
  BY <1>4, <1>6, OvertakenBelow
<1>8. PICK f \in Frames : /\ f.at \in Asks
                          /\ f.at = "proceed" => phase = "Paused"
                          /\ calls' = <<Call("handlers")>> \o <<f>> \o s
  <2>1. /\ Call("proceed") \in Frames /\ Call("proceed").at = "proceed"
        /\ Call("stopMicrophone") \in Frames /\ Call("stopMicrophone").at = "stopMicrophone"
    BY Pushes DEF Labels
  <2>2. CASE phase = "Paused"
    <3>1. calls' = <<Call("handlers")>> \o <<Call("proceed")>> \o s
      BY <2>2 DEF StopSpeech, Announce
    <3> QED  BY <2>1, <2>2, <3>1 DEF Asks
  <2>3. CASE phase # "Paused"
    <3>1. calls' = <<Call("handlers")>> \o <<Call("stopMicrophone")>> \o s
      BY <2>3 DEF StopSpeech, Announce
    <3> QED  BY <2>1, <3>1 DEF Asks
  <2> QED  BY <2>2, <2>3
<1>9. calls' = <<Call("handlers")>> \o (<<f>> \o s)
  <2>1. Call("handlers") \in Frames /\ s \in Seq(Frames)
    BY <1>7, Pushes DEF Labels, Kept
  <2> DEFINE one == <<Call("handlers")>>
             two == <<f>>
  <2>2. one \in Seq(Frames) /\ two \in Seq(Frames)  BY <2>1
  <2>3. calls' = one \o two \o s  BY <1>8
  <2> HIDE DEF s, one, two
  <2>4. (one \o two) \o s = one \o (two \o s)  BY <2>1, <2>2, ConcatAssociative
  <2> QED  BY <2>3, <2>4 DEF one, two
<1> HIDE DEF s
<1>10. Finds(f)'
  <2>1. f.at = "proceed" => ~microphone'  BY <1>1, <1>2, <1>8
  <2> QED  BY <1>1, <1>8, <2>1 DEF Finds, Asks, First
<1>11. StackFits' /\ ~Running("startAttempt")' /\ ~Running("retire")'
  BY <1>7, <1>8, <1>9, <1>10, AskedRuns
<1>12. ~Running("startAttempt") /\ ~Running("retire")  BY CommandFrom
<1>13. CASE letGo
  <2>1. Live <=> attempts.id \in provider.open  BY <1>12 DEF Live
  <2>2. ~Live'
    <3>1. attempts.id + 1 \notin provider.open
      BY <1>1, <1>2 DEF StateFits, OpenFits
    <3> QED  BY <1>1, <1>4, <1>11, <1>13, <3>1 DEF Live
  <2>3. LiveFits'  BY <2>2 DEF LiveFits
  <2>4. OpenFits'
    <3>1. provider.open \subseteq {attempts.id} /\ 0 \notin provider.open
      BY <1>1, <1>2 DEF StateFits, OpenFits
    <3>2. attempts.id \in provider.open => attempts.transcriber /\ ~between.awaitingProvider
      BY <1>1, <2>1 DEF StateFits, LiveFits
    <3> QED  BY <1>1, <1>3, <1>4, <1>13, <3>1, <3>2 DEF OpenFits
  <2>5. OwedFits' /\ MicrophoneFits'
    BY <1>1, <1>2, <1>3 DEF StateFits, OwedFits, MicrophoneFits
  <2>6. HoldsFits'  BY <1>1, <1>2, <1>3, <1>4, <1>12 DEF StateFits, HoldsFits
  <2> QED  BY <1>11, <2>3, <2>4, <2>5, <2>6 DEF StateFits
<1>14. CASE ~letGo
  <2>1. Live' => Live  BY <1>1, <1>4, <1>11, <1>14 DEF Live
  <2>2. Live /\ phase = "Paused" => between.finishingPausedAttempt
    BY PausedFinishes
  <2>3. LiveFits'
    BY <1>1, <1>2, <1>3, <1>4, <1>14, <2>1, <2>2 DEF StateFits, LiveFits, Over
  <2>4. OpenFits'
    BY <1>1, <1>2, <1>4, <1>14 DEF StateFits, OpenFits
  <2>5. OwedFits' /\ MicrophoneFits'
    BY <1>1, <1>2, <1>3, <1>14 DEF StateFits, OwedFits, MicrophoneFits
  <2>6. HoldsFits'  BY <1>1, <1>2, <1>3, <1>4, <1>12 DEF StateFits, HoldsFits
  <2> QED  BY <1>11, <2>3, <2>4, <2>5, <2>6 DEF StateFits
<1> QED  BY <1>13, <1>14

LEMMA StopRuns ==
    ASSUME Runs, stop \/ MicrophoneFailed
    PROVE  StateFits' /\ StackFits'
<1>1. between \in Betweens /\ microphone \in BOOLEAN  BY Types DEF Runs
<1>2. CASE stop
  <2>1. /\ MayCall /\ phase \in {"Listening", "Paused"} /\ StopSpeech(between)
        /\ microphone' = microphone /\ UNCHANGED partial
    BY <1>2 DEF stop, heardVars
  <2> QED  BY <1>1, <2>1, StopSpeechRuns
<1>3. CASE MicrophoneFailed
  <2>1. /\ MayCall /\ phase \in {"Listening", "Paused"} /\ StopSpeech(between)
        /\ microphone' = FALSE /\ UNCHANGED partial
    BY <1>3 DEF MicrophoneFailed, heardVars, MayCall
  <2> QED  BY <1>1, <2>1, StopSpeechRuns
<1> QED  BY <1>2, <1>3

\* The microphone a stop waits for stops.
LEMMA MicrophoneStoppedRuns ==
    ASSUME Runs, MicrophoneStopped
    PROVE  StateFits' /\ StackFits'
<1> USE DEF speechVars, flagVars, resumeVars, providerVars, heardVars
<1> DEFINE f == Call("proceed")
           s == <<>>
<1>1. /\ Free /\ StateFits /\ phase = "Stopping" /\ microphone' = FALSE /\ calls' = <<f>>
      /\ UNCHANGED <<phase, settings, between, microphoneStarting, microphoneStopped,
                     noAttemptToFinish, openOwed, retiredAttempt, attempts, chain, provider,
                     partial>>
  BY DEF Runs, MicrophoneStopped
<1>2. f \in Frames /\ f.at = "proceed"  BY Pushes DEF Labels
<1>3. calls' = <<f>> \o s /\ Kept(s) /\ On(s) = {}
  BY <1>1, <1>2, KeptEmpty DEF On
<1> HIDE DEF f, s
<1>4. Finds(f)'  BY <1>1, <1>2 DEF Finds, First
<1>5. Kept(calls') /\ calls' # <<>> /\ Head(calls') = f
  BY <1>2, <1>3, <1>4, KeptLaid
<1>6. Adjacent' /\ ~Running("startAttempt")'
  BY <1>2, <1>5, AdjacentElse DEF Running
<1>7. StackFits'  BY <1>5, <1>6, StackFitsKept
<1>8. ~Running("retire")  BY <1>1 DEF Free, Running
<1>9. Live' => Live  BY <1>1, <1>6 DEF Live
<1>10. LiveFits'  BY <1>1, <1>9 DEF StateFits, LiveFits, Over
<1>11. OwedFits' /\ MicrophoneFits'
  BY <1>1 DEF StateFits, OwedFits, MicrophoneFits
<1>12. OpenFits'  BY <1>1 DEF StateFits, OpenFits
<1>13. HoldsFits'  BY <1>1, <1>8 DEF StateFits, HoldsFits
<1> QED  BY <1>7, <1>10, <1>11, <1>12, <1>13 DEF StateFits

\* hear(): a chunk is handed over, held, or one too many.
LEMMA HearRuns ==
    ASSUME Runs, hear, Inv'
    PROVE  StateFits' /\ StackFits'
<1> USE DEF speechVars, flagVars, resumeVars, providerVars, heardVars
<1> DEFINE chunk == audio.heard + 1
<1>1. /\ Free /\ StateFits /\ between \in Betweens /\ settings /\ calls = <<>>
      /\ between.held \in Seq(Nat) /\ chunk \in Nat
      /\ chain \in [index: Nat \ {0}, preparing: BOOLEAN]
      /\ phase \in {"Starting", "Listening", "Stopping"} /\ UNCHANGED partial
      /\ ~Running("startAttempt") /\ ~Running("retire")
  BY Types DEF Runs, hear, Free, Running
<1> HIDE DEF chunk
<1>2. CASE /\ attempts.transcriber
           /\ calls' = <<CallWith("sendAudio", chunk)>> \o calls
           /\ UNCHANGED <<phase, settings, between, flagVars, retiredAttempt, providerVars,
                          microphone>>
  <2> DEFINE s == <<>>
  <2>1. PICK f \in Frames : f = CallWith("sendAudio", chunk)
    <3>1. CallWith("sendAudio", chunk) \in Frames
      BY <1>1 DEF CallWith, Frames, Labels
    <3> QED  BY <3>1
  <2>2. f.at = "sendAudio" /\ calls' = <<f>> \o s /\ Kept(s) /\ On(s) = {}
    BY <1>1, <1>2, <2>1, KeptEmpty DEF CallWith, On
  <2> HIDE DEF s
  <2>3. attempts'.transcriber  BY <1>2
  <2>4. Finds(f)'  BY <2>2, <2>3 DEF Finds, First
  <2>5. Kept(calls') /\ calls' # <<>> /\ Head(calls') = f
    BY <2>2, <2>4, KeptLaid
  <2>6. Adjacent' /\ ~Running("startAttempt")'
    BY <2>2, <2>5, AdjacentElse DEF Running
  <2>7. Same  BY <1>1, <1>2 DEF Same
  <2>8. ~\E g \in On(calls) : g.at = "finishPaused"  BY <1>1 DEF On
  <2>9. StateFits'  BY <1>1, <2>6, <2>7, <2>8, SameFits
  <2> QED  BY <2>5, <2>6, <2>9, StackFitsKept
<1>3. CASE /\ \/ between' = [between EXCEPT !.held = Append(@, chunk)]
              \/ between' = [between EXCEPT !.heldPastTheBudget = TRUE]
           /\ UNCHANGED <<phase, settings, flagVars, resumeVars, providerVars, microphone,
                          calls>>
  <2>1. /\ between'.awaitingProvider = between.awaitingProvider
        /\ between'.endedDuringStop = between.endedDuringStop
        /\ between'.finishingPausedAttempt = between.finishingPausedAttempt
    BY <1>1, <1>3 DEF Betweens
  <2>2. Same  BY <1>1, <1>3, <2>1 DEF Same
  <2>3. StackFits' /\ ~Running("startAttempt")'  BY <1>1, <1>3, FreeFits
  <2>4. ~\E g \in On(calls) : g.at = "finishPaused"  BY <1>1 DEF On
  <2>5. StateFits'  BY <1>1, <2>2, <2>3, <2>4, SameFits
  <2> QED  BY <2>3, <2>5
<1>4. CASE /\ between.awaitingProvider /\ exhaust(calls)
           /\ chain' = [chain EXCEPT !.preparing = FALSE]
           /\ UNCHANGED <<settings, flagVars, resumeVars, attempts, provider>>
  <2> DEFINE given == [between EXCEPT !.awaitingProvider = FALSE, !.held = <<>>]
  <2>1. provider.open = {} /\ ~between.finishingPausedAttempt
    BY <1>1, <1>4, Awaited
  <2>2. given \in Betweens /\ ~given.awaitingProvider /\ ~given.finishingPausedAttempt
        /\ given.held = <<>>
    BY <1>1, <2>1, EmptySeq DEF Betweens
  <2>3. provider'.open = {} /\ ~chain'.preparing /\ UNCHANGED attempts
    BY <1>1, <1>4, <2>1
  <2>4. Clear(<<>>)
    <3>1. UNCHANGED <<settings, microphoneStarting, microphoneStopped, noAttemptToFinish,
                      openOwed, retiredAttempt, partial>>
      BY <1>1, <1>4
    <3> QED  BY <2>3, <3>1, NothingBelow
  <2>5. EndByFailure(given, <<>>)  BY <1>1, <1>4 DEF exhaust
  <2> HIDE DEF given
  <2> QED  BY <2>2, <2>3, <2>4, <2>5, FailsRuns
<1>5. CASE /\ phase = "Listening" /\ UNCHANGED <<microphone, heardVars>>
           /\ StopSpeech([between EXCEPT !.heldPastTheBudget = TRUE])
  <2> DEFINE b == [between EXCEPT !.heldPastTheBudget = TRUE]
  <2>1. /\ b \in Betweens /\ b.awaitingProvider = between.awaitingProvider
        /\ b.endedDuringStop = between.endedDuringStop
        /\ b.finishingPausedAttempt = between.finishingPausedAttempt
        /\ b.held = between.held
    BY <1>1 DEF Betweens
  <2>2. MayCall /\ StopSpeech(b) /\ microphone' = microphone /\ microphone \in BOOLEAN
    BY <1>1, <1>5, Types DEF MayCall, Runs
  <2> HIDE DEF b
  <2> QED  BY <1>1, <1>5, <2>1, <2>2, StopSpeechRuns
<1> QED  BY <1>2, <1>3, <1>4, <1>5 DEF hear, chunk

-----------------------------------------------------------------------------
(* The invariant holds.                                                      *)

LEMMA RunsInit == Init => Runs
<1> SUFFICES ASSUME Init  PROVE  Runs
  OBVIOUS
<1>1. Inv  BY InvInit
<1>2. /\ phase = "Idle" /\ ~microphone /\ ~microphoneStarting /\ ~openOwed
      /\ retiredAttempt = 0 /\ attempts.id = 0 /\ between = NoBetween
      /\ ~chain.preparing /\ calls = <<>> /\ provider.open = {} /\ ~partial
  BY DEF Init
<1>3. ~Live  BY <1>2 DEF Live, Running
<1>4. LiveFits  BY <1>3 DEF LiveFits
<1>5. OwedFits /\ MicrophoneFits /\ HoldsFits /\ OpenFits
  BY <1>2 DEF OwedFits, MicrophoneFits, HoldsFits, OpenFits, NoBetween
<1>6. StackFits
  BY <1>2 DEF StackFits, Ordered, Found, Adjacent, On, Running
<1> QED  BY <1>1, <1>4, <1>5, <1>6 DEF Runs, StateFits

\* A step that changes nothing keeps it.
LEMMA RunsStutters ==
    ASSUME Runs, UNCHANGED vars, Inv'
    PROVE  StateFits' /\ StackFits'
<1>1. UNCHANGED <<phase, settings, between, microphoneStarting, microphoneStopped,
                  noAttemptToFinish, finishOwed, openOwed, emptyResumedAttempt,
                  retiredAttempt, attempts, chain, calls, microphone, provider, audio,
                  partial>>
  BY DEF vars
<1>2. (Live' <=> Live) /\ (Stops' <=> Stops) /\ Stops' = Stops
  BY <1>1 DEF Live, Running, Stops, Over
<1>3. StateFits'
  BY <1>1, <1>2 DEF Runs, StateFits, LiveFits, OwedFits, OpenFits, HoldsFits, MicrophoneFits,
                    Over, Running
<1>4. Adjacent' /\ Ordered(calls', Stops')
  BY <1>1, <1>2 DEF Runs, StackFits, Adjacent, Running
<1>5. Same  BY <1>1 DEF Same
<1>6. Found'
  <2>1. \A f \in On(calls) : Finds(f)'
    BY <1>2, <1>5, SameFinds DEF Runs, StackFits, Found
  <2> QED  BY <1>1, <2>1 DEF Found
<1> QED  BY <1>3, <1>4, <1>6 DEF StackFits

\* Every step keeps it, where providers and handlers do the ordinary.
LEMMA RunsNext ==
    ASSUME Ordinarily, Runs, [Next]_vars
    PROVE  Runs'
<1>1. Inv'  BY InvNext DEF Runs
<1>2. CASE UNCHANGED vars
  <2>1. StateFits' /\ StackFits'  BY <1>1, <1>2, RunsStutters
  <2> QED  BY <1>1, <2>1 DEF Runs
<1>3. CASE Next
  <2>1. \/ StartAttempt \/ SendAudio \/ FinishInput
        \/ CommitPartial \/ RetireAttempt \/ sendHeldAudio \/ EndInput \/ FinishPaused
        \/ OpenedFirst \/ ReadyToListen \/ MarkEmpty \/ End \/ EndHeld
        \/ Switch \/ Walk \/ proceed \/ ProceedListening \/ finishStop
        \/ StartMicrophone \/ StopMicrophone
        \/ SessionEnds \/ HandlersReturn \/ ReturnOvertaken
        \/ Begin \/ Start \/ listen \/ pause \/ resume \/ stop \/ cancel \/ hear
        \/ MicrophoneFailed \/ MicrophoneStopped
        \/ ProviderEnds \/ TextArrives \/ finishPreparation
    BY <1>3, Zenon DEF Next, Code, Session
  <2>2. CASE StartAttempt \/ SendAudio \/ FinishInput
    <3>1. StateFits' /\ StackFits'  BY <1>1, <2>2, ProviderCallsRun
    <3> QED  BY <1>1, <3>1 DEF Runs
  <2>3. CASE \/ CommitPartial \/ RetireAttempt \/ sendHeldAudio \/ EndInput \/ FinishPaused
             \/ OpenedFirst \/ ReadyToListen \/ EndHeld
             \/ MarkEmpty \/ HandlersReturn \/ ReturnOvertaken
    <3>1. StateFits' /\ StackFits'
      BY <2>3, CommitPartialRuns, RetireAttemptRuns, SendHeldAudioRuns, EndInputRuns,
         FinishPausedRuns, OpenedFirstRuns, ReadyToListenRuns, EndHeldRuns, ReturnersRun
    <3> QED  BY <1>1, <3>1 DEF Runs
  <2>4. CASE \/ End \/ Switch \/ Walk \/ proceed \/ ProceedListening \/ finishStop
             \/ StartMicrophone \/ StopMicrophone \/ finishPreparation
    <3>1. StateFits' /\ StackFits'
      BY <1>1, <2>4, EndRuns, SwitchRuns, WalkRuns, ProceedRuns, ProceedListeningRuns,
         FinishStopRuns, StartMicrophoneRuns, StopMicrophoneRuns, FinishPreparationRuns
    <3> QED  BY <1>1, <3>1 DEF Runs
  <2>5. CASE \/ Begin \/ Start \/ listen \/ pause \/ resume \/ stop \/ MicrophoneFailed
             \/ cancel \/ SessionEnds \/ hear \/ MicrophoneStopped
             \/ ProviderEnds \/ TextArrives
    <3>1. StateFits' /\ StackFits'
      BY <1>1, <2>5, BeginRuns, StartRuns, ListenRuns, PauseRuns, ResumeRuns, StopRuns,
         CancelRuns, HearRuns, MicrophoneStoppedRuns, AttemptEndsRuns, TextArrivesRuns
    <3> QED  BY <1>1, <3>1 DEF Runs
  <2> QED  BY <2>1, <2>2, <2>3, <2>4, <2>5
<1> QED  BY <1>2, <1>3

LEMMA AlwaysRuns ==
    ASSUME Ordinarily
    PROVE  Spec => []Runs
<1>1. Runs /\ [Next]_vars => Runs'  BY RunsNext
<1> QED  BY <1>1, RunsInit, PTL DEF Spec

-----------------------------------------------------------------------------
(* What waits once the speech is over.                                       *)

\* A failure may leave held audio to go out after it: then, too, what waits
\* was heard, and waits in the order it was heard.
InLine ==
    /\ \A i \in 1..Len(Waiting) : Waiting[i] = audio.given + i
    /\ audio.given + Len(Waiting) <= audio.heard

\* In a session nothing but what waits is left to hand over.
LEMMA InLineInSession ==
    ASSUME Inv', InSession'
    PROVE  InLine'
<1>1. /\ audio'.heard = audio'.given + Len(Waiting')
      /\ \A i \in 1..Len(Waiting') : Waiting'[i] = audio'.given + i
  BY DEF Inv, HeldAudioInOrder
<1>2. audio'.heard \in Nat  BY DEF Inv, Typed, TypeOK
<1> QED  BY <1>1, <1>2 DEF InLine

\* A step that hands nothing over leaves the line as it is, or drops it.
LEMMA SettledInLine ==
    ASSUME Inv, InLine, between'.held \in {between.held, <<>>},
           ~Running("sendAudio"), ~Running("sendAudio")', UNCHANGED audio
    PROVE  InLine'
<1>1. between.held \in Seq(Nat) /\ audio.given \in Nat /\ audio.heard \in Nat
  BY DEF Inv, Typed, TypeOK, Betweens
<1>2. Waiting = between.held /\ Waiting' = between'.held
  <2>1. <<>> \in Seq(Nat)  OBVIOUS
  <2>2. between'.held \in Seq(Nat)  BY <1>1, <2>1
  <2> QED  BY <1>1, <2>2 DEF Waiting
<1>3. CASE between'.held = between.held
  BY <1>2, <1>3 DEF InLine
<1>4. CASE between'.held = <<>>
  <2>1. Len(Waiting') = 0 /\ audio.given <= audio.heard
    <3>1. Len(Waiting) \in Nat  BY <1>1, <1>2
    <3> QED  BY <1>1, <1>2, <1>4, <3>1 DEF InLine
  <2> QED  BY <1>1, <2>1 DEF InLine
<1> QED  BY <1>3, <1>4

\* The chunk on its way is the next after those handed over, and was heard.
LEMMA NextInLine ==
    ASSUME Inv, InLine, Running("sendAudio")
    PROVE  /\ Head(calls).arg = audio.given + 1 /\ audio.given < audio.heard
           /\ Len(Waiting) = Len(between.held) + 1
           /\ \A i \in 1..Len(between.held) : Waiting[i + 1] = between.held[i]
<1>1. /\ Head(calls).arg \in Nat /\ between.held \in Seq(Nat)
      /\ audio.given \in Nat /\ audio.heard \in Nat
  <2>1. Head(calls) \in Frames  BY DEF Inv, Typed, TypeOK, Running
  <2> QED  BY <2>1 DEF Inv, Typed, TypeOK, Betweens, Frames
<1>2. Waiting = <<Head(calls).arg>> \o between.held  BY DEF Waiting
<1>3. /\ Len(Waiting) = Len(between.held) + 1 /\ Waiting[1] = Head(calls).arg
      /\ Len(between.held) \in Nat
      /\ \A i \in 1..Len(between.held) : Waiting[i + 1] = between.held[i]
  <2>1. Len(Waiting) = Len(between.held) + 1 /\ Waiting[1] = Head(calls).arg
    BY <1>1, <1>2
  <2>2. ASSUME NEW i \in 1..Len(between.held)
        PROVE  Waiting[i + 1] = between.held[i]
    BY <1>1, <1>2, <2>2
  <2> QED  BY <1>1, <2>1, <2>2
<1>4. 1 \in 1..Len(Waiting)  BY <1>3
<1>5. Waiting[1] = audio.given + 1  BY <1>4 DEF InLine
<1>6. audio.given + (Len(between.held) + 1) <= audio.heard  BY <1>3 DEF InLine
<1> QED  BY <1>1, <1>3, <1>5, <1>6

LEMMA SendAudioInLine ==
    ASSUME Inv, InLine, SendAudio
    PROVE  InLine'
<1>1. /\ Typed /\ ProviderCalled("sendAudio", {}, {}) /\ UNCHANGED partial
      /\ Running("sendAudio") /\ audio' = [audio EXCEPT !.given = Head(calls).arg]
  BY DEF Inv, SendAudio, ProviderCalled
<1>2. /\ between.held \in Seq(Nat) /\ audio \in [heard: Nat, given: Nat]
  BY <1>1 DEF Typed, TypeOK, Betweens
<1>3. /\ Head(calls).arg = audio.given + 1 /\ audio.given < audio.heard
      /\ Len(Waiting) = Len(between.held) + 1
      /\ \A i \in 1..Len(between.held) : Waiting[i + 1] = between.held[i]
  BY <1>1, NextInLine
<1>4. /\ audio' \in [heard: Nat, given: Nat]
      /\ audio'.heard = audio.heard /\ audio'.given = audio.given + 1
  BY <1>1, <1>2, <1>3
<1>5. Settled
  <2>1. {} \in SUBSET Nat /\ "sendAudio" \in ProviderCalls  BY DEF ProviderCalls
  <2> QED  BY <1>1, <1>4, <2>1, ProviderCalledSettles
<1>6. ~Running("sendAudio")' /\ between'.held \in {between.held, <<>>}
  BY <1>5 DEF Settled, Running
<1>7. Waiting' = between'.held
  <2>1. <<>> \in Seq(Nat)  OBVIOUS
  <2>2. between'.held \in Seq(Nat)  BY <1>2, <1>6, <2>1
  <2> QED  BY <1>6, <2>2 DEF Waiting
<1>8. CASE between'.held = between.held
  <2>1. ASSUME NEW i \in 1..Len(Waiting')
        PROVE  Waiting'[i] = audio'.given + i
    <3>1. i \in 1..Len(between.held) /\ i + 1 \in 1..Len(Waiting) /\ i \in Nat
      BY <1>2, <1>3, <1>7, <1>8
    <3>2. Waiting[i + 1] = audio.given + (i + 1)  BY <3>1 DEF InLine
    <3>3. Waiting'[i] = Waiting[i + 1]  BY <1>3, <1>7, <1>8, <3>1
    <3> QED  BY <1>2, <1>4, <3>1, <3>2, <3>3
  <2>2. audio'.given + Len(Waiting') <= audio'.heard
    <3>1. audio.given + (Len(between.held) + 1) <= audio.heard  BY <1>3 DEF InLine
    <3>2. Len(between.held) \in Nat /\ audio.given \in Nat /\ audio.heard \in Nat
      BY <1>2
    <3> QED  BY <1>4, <1>7, <1>8, <3>1, <3>2
  <2> QED  BY <2>1, <2>2 DEF InLine
<1>9. CASE between'.held = <<>>
  <2>1. Len(Waiting') = 0  BY <1>7, <1>9
  <2>2. audio.given \in Nat /\ audio.heard \in Nat  BY <1>2
  <2> QED  BY <1>3, <1>4, <2>1, <2>2 DEF InLine
<1> QED  BY <1>6, <1>8, <1>9

LEMMA InLineNext ==
    ASSUME Inv, InLine, Inv', [Next]_vars
    PROVE  InLine'
<1>1. CASE UNCHANGED vars
  <2>1. Waiting' = Waiting /\ UNCHANGED audio  BY <1>1 DEF vars, Waiting, Running
  <2> QED  BY <2>1 DEF InLine
<1>2. Typed  BY DEF Inv
<1>3. CASE Settling
  <2>1. Settled
    BY <1>2, <1>3, QuietCodeSettles, SpeechCodeSettles, SessionSettles, Zenon DEF Settling
  <2>2. ~Running("sendAudio") /\ UNCHANGED audio
    BY <1>2, <1>3, SettlingTellsNothing
  <2>3. ~Running("sendAudio")' /\ between'.held \in {between.held, <<>>}
    BY <2>1 DEF Settled, Running
  <2> QED  BY <2>2, <2>3, SettledInLine
<1>4. CASE StartAttempt \/ FinishInput
  <2>1. attempts.id \in Nat /\ audio \in [heard: Nat, given: Nat]
    BY <1>2 DEF Typed, TypeOK, Attempts
  <2>2. /\ {attempts.id} \in SUBSET Nat /\ {} \in SUBSET Nat
        /\ "startAttempt" \in ProviderCalls /\ "finishInput" \in ProviderCalls
    BY <2>1 DEF ProviderCalls
  <2>3. /\ UNCHANGED <<audio, partial>>
        /\ \/ ProviderCalled("startAttempt", {attempts.id}, {})
           \/ ProviderCalled("finishInput", {}, {attempts.id})
    BY <1>4 DEF StartAttempt, FinishInput, heardVars
  <2>4. Settled  BY <1>2, <2>1, <2>2, <2>3, ProviderCalledSettles
  <2>5. ~Running("sendAudio")  BY <2>3 DEF ProviderCalled, Running
  <2>6. ~Running("sendAudio")' /\ between'.held \in {between.held, <<>>}
    BY <2>4 DEF Settled, Running
  <2> QED  BY <2>3, <2>5, <2>6, SettledInLine
<1>5. CASE ProviderEnds
  <2>1. Settled /\ UNCHANGED audio  BY <1>2, <1>5, ProviderEndsSettles
  <2>2. ~Running("sendAudio")
    BY <1>5 DEF ProviderEnds, AttemptEnds, Free, Running
  <2>3. ~Running("sendAudio")' /\ between'.held \in {between.held, <<>>}
    BY <2>1 DEF Settled, Running
  <2> QED  BY <2>1, <2>2, <2>3, SettledInLine
<1>6. CASE SendAudio  BY <1>6, SendAudioInLine
<1>7. CASE sendHeldAudio
  <2>1. UNCHANGED audio /\ ~Running("sendAudio") /\ between.held \in Seq(Nat)
        /\ calls \in Seq(Frames) /\ between \in Betweens
    BY <1>2, <1>7 DEF sendHeldAudio, heardVars, Running, Typed, TypeOK, Betweens
  <2>2. CASE Return /\ UNCHANGED between
    <3>1. Settled
      <4>1. microphone' \in BOOLEAN /\ Running("sendHeldAudio") /\ UNCHANGED <<phase, attempts>>
        BY <1>2, <1>7 DEF sendHeldAudio, providerVars, Typed, TypeOK
      <4> QED  BY <1>2, <2>1, <2>2, <4>1, ReturnSettles
    <3>2. ~Running("sendAudio")' /\ between'.held \in {between.held, <<>>}
      BY <3>1 DEF Settled, Running
    <3> QED  BY <2>1, <3>2, SettledInLine
  <2>3. CASE /\ between.held # <<>> /\ between' = [between EXCEPT !.held = Tail(@)]
             /\ calls' = <<CallWith("sendAudio", Head(between.held))>> \o calls
    <3> DEFINE frame == CallWith("sendAudio", Head(between.held))
    <3>1. between'.held = Tail(between.held) /\ Head(between.held) \in Nat
      BY <2>1, <2>3 DEF Betweens
    <3>2. frame \in Frames /\ frame.at = "sendAudio" /\ frame.arg = Head(between.held)
      BY <3>1 DEF CallWith, Frames, Labels
    <3>3. calls' # <<>> /\ Head(calls') = frame
      <4>1. calls' = <<frame>> \o calls  BY <2>3
      <4> HIDE DEF frame
      <4> QED  BY <2>1, <3>2, <4>1
    <3>4. Running("sendAudio")'  BY <3>2, <3>3 DEF Running
    <3>5. Waiting' = <<Head(between.held)>> \o Tail(between.held)
      BY <3>1, <3>2, <3>3, <3>4 DEF Waiting
    <3>6. Waiting' = Waiting
      <4>1. Waiting = between.held  BY <2>1 DEF Waiting
      <4> QED  BY <2>1, <2>3, <3>5, <4>1
    <3> QED  BY <2>1, <3>6 DEF InLine
  <2> QED  BY <1>7, <2>2, <2>3 DEF sendHeldAudio
<1>8. CASE EndInput
  <2>1. UNCHANGED audio /\ ~Running("sendAudio") /\ between'.held = between.held
    BY <1>2, <1>8 DEF EndInput, heardVars, Running, Typed, TypeOK, Betweens
  <2>2. ~Running("sendAudio")'
    <3>1. CASE Return
      <4>1. Tail(calls) \in Seq(QuietFrames)
        BY <1>2, <1>8, TailQuiet DEF EndInput
      <4> QED  BY <3>1, <4>1, QuietStack DEF Return, Running, ProviderCalls
    <3>2. CASE GoOn(<<Call("finishInput")>>)
      <4>1. Tail(calls) \in Seq(Frames)  BY <1>2, <1>8, TailQuiet DEF EndInput
      <4>2. PICK f \in Frames : f = Call("finishInput") /\ f.at = "finishInput"
        BY Pushes DEF Labels
      <4>3. calls' = <<f>> \o Tail(calls)  BY <3>2, <4>2 DEF GoOn
      <4>4. Head(calls') = f  BY <4>1, <4>3
      <4> QED  BY <4>2, <4>4 DEF Running
    <3> QED  BY <1>8, <3>1, <3>2 DEF EndInput
  <2> QED  BY <2>1, <2>2, SettledInLine
<1>9. CASE Begin
  BY <1>9, InLineInSession DEF Begin, InSession
<1>10. CASE hear
  <2>1. phase # "Idle"  BY <1>10 DEF hear
  <2>2. CASE phase' # "Idle"  BY <2>2, InLineInSession DEF InSession
  <2>3. CASE phase' = "Idle"
    <3>1. exhaust(calls) /\ audio' = [audio EXCEPT !.heard = audio.heard + 1] /\ Free
      BY <1>10, <2>1, <2>3 DEF hear, StopSpeech, speechVars
    <3>2. /\ between \in Betweens /\ audio \in [heard: Nat, given: Nat]
          /\ between.held \in Seq(Nat) /\ ~Running("sendAudio")
      BY <1>2, <3>1 DEF Typed, TypeOK, Betweens, Free, Running
    <3>3. between'.held = <<>>
      BY <3>1, <3>2 DEF exhaust, EndByFailure, Betweens
    <3>4. ~Running("sendAudio")'
      <4>1. <<>> \in Seq(QuietFrames) /\ calls = <<>>  BY <3>1 DEF Free
      <4>2. Overtaken(calls) \in Seq(QuietFrames)  BY <4>1, OvertakenQuiet
      <4>3. Call("sessionEnds") \in QuietFrames /\ Call("handlers") \in QuietFrames
        BY CallTyped DEF Labels, ProviderCalls
      <4>4. calls' \in Seq(QuietFrames)
        BY <3>1, <4>2, <4>3 DEF exhaust, EndByFailure
      <4> QED  BY <4>4, QuietStack DEF Running, ProviderCalls
    <3>5. Len(Waiting') = 0  BY <3>3, <3>4 DEF Waiting
    <3>6. audio.given <= audio.heard
      <4>1. Waiting = between.held  BY <3>2 DEF Waiting
      <4> QED  BY <3>2, <4>1 DEF InLine
    <3>7. audio'.given = audio.given /\ audio'.heard = audio.heard + 1  BY <3>1, <3>2
    <3> QED  BY <3>2, <3>5, <3>6, <3>7 DEF InLine
  <2> QED  BY <2>2, <2>3
<1> QED
  <2>1. Next => \/ Settling \/ StartAttempt \/ ProviderEnds \/ SendAudio \/ FinishInput
                \/ sendHeldAudio \/ EndInput \/ hear \/ Begin
    BY Zenon DEF Next, Code, Session, Settling
  <2> QED  BY <1>1, <1>3, <1>4, <1>5, <1>6, <1>7, <1>8, <1>9, <1>10, <2>1

-----------------------------------------------------------------------------
(* The announcement of a failure, and what the contract sees of the rest.    *)

\* Every call but the announcement of a failure to the session.
OtherFrames == {f \in Frames : f.at # "sessionEnds"}

\* What the contract sees nothing of.
Unseen == UNCHANGED <<phase, settings, microphone, microphoneStarting, audio>>

\* A step goes on without announcing a failure, or is an end by failure.
Announces ==
    \/ UNCHANGED <<phase, microphone>> /\ calls' \in Seq(OtherFrames)
    \/ /\ phase # "Idle" /\ phase' = "Idle" /\ microphone' = FALSE
       /\ Running("sessionEnds")'

LEMMA OtherCalls ==
    /\ \A label \in Labels \ {"sessionEnds"} : Call(label) \in OtherFrames
    /\ \A label \in Labels \ {"sessionEnds"}, n \in Nat : CallWith(label, n) \in OtherFrames
BY DEF OtherFrames, Frames, Call, CallWith

\* A stack of other calls announces no failure, and puts none at the head.
LEMMA OtherHead ==
    ASSUME NEW s \in Seq(OtherFrames)
    PROVE  s \in Seq(Frames) /\ (s # <<>> => Head(s).at # "sessionEnds")
<1>1. OtherFrames \subseteq Frames  BY DEF OtherFrames
<1>2. s # <<>> => Head(s) \in OtherFrames  OBVIOUS
<1> QED  BY <1>1, <1>2, SeqMonotonic DEF OtherFrames

LEMMA OthersRun ==
    ASSUME calls' \in Seq(OtherFrames)
    PROVE  ~Running("sessionEnds")'
BY OtherHead DEF Running

LEMMA OvertakenOthers ==
    ASSUME NEW s \in Seq(OtherFrames)
    PROVE  Overtaken(s) \in Seq(OtherFrames)
<1>1. \A i \in 1..Len(s) : s[i] \in OtherFrames  OBVIOUS
<1>2. Call("overtaken") \in OtherFrames  BY OtherCalls DEF Labels
<1>3. Overtaken(s) \in [1..Len(s) -> OtherFrames]
  BY <1>1, <1>2 DEF Overtaken
<1> QED  BY <1>3, SeqDef

\* A stack of calls none of which announces a failure is a stack of others.
LEMMA OthersOn ==
    ASSUME NEW s \in Seq(Frames), \A g \in On(s) : g.at # "sessionEnds"
    PROVE  s \in Seq(OtherFrames)
<1>1. \A i \in 1..Len(s) : s[i] \in Frames /\ s[i] \in On(s)  BY DEF On
<1>2. \A i \in 1..Len(s) : s[i] \in OtherFrames  BY <1>1 DEF OtherFrames
<1>3. s \in [1..Len(s) -> OtherFrames] /\ Len(s) \in Nat  BY <1>2
<1> QED  BY <1>3, SeqDef

\* No announcement of a failure waits below another call.
LEMMA OthersBelow ==
    ASSUME Runs, NEW label, Running(label)
    PROVE  Tail(calls) \in Seq(OtherFrames)
<1>1. /\ Tail(calls) \in Seq(Frames)
      /\ \A g \in On(Tail(calls)) : Lies(Head(calls), g, Stops)
  BY AtHead
<1>2. \A g \in On(Tail(calls)) : g.at # "sessionEnds"
  BY <1>1 DEF Lies, HeadOnly
<1> QED  BY <1>1, <1>2, OthersOn

LEMMA OthersAtHead ==
    ASSUME Runs, NEW label, Running(label), label # "sessionEnds"
    PROVE  calls \in Seq(OtherFrames)
<1>1. Tail(calls) \in Seq(OtherFrames)  BY OthersBelow
<1>2. calls \in Seq(Frames) /\ calls # <<>> /\ Head(calls) \in OtherFrames
  BY AtHead DEF OtherFrames
<1>3. calls = <<Head(calls)>> \o Tail(calls)  BY <1>2
<1> QED  BY <1>1, <1>2, <1>3

\* The session calls no command from within the announcement of a failure.
LEMMA OthersMayCall ==
    ASSUME Runs, MayCall
    PROVE  /\ calls \in Seq(OtherFrames) /\ Overtaken(calls) \in Seq(OtherFrames)
           /\ ~Running("sessionEnds")
<1>1. calls \in Seq(OtherFrames)
  <2>1. CASE Free
    <3>1. <<>> \in Seq(OtherFrames)  OBVIOUS
    <3> QED  BY <2>1, <3>1 DEF Free
  <2>2. CASE Handling
    <3>1. Running("handlers")  BY <2>2 DEF Handling, Running
    <3> QED  BY <3>1, OthersAtHead
  <2> QED  BY <2>1, <2>2 DEF MayCall
<1>2. ~Running("sessionEnds")  BY <1>1, OtherHead DEF Running
<1> QED  BY <1>1, <1>2, OvertakenOthers

LEMMA OthersAnnounce ==
    ASSUME Runs, MayCall, NEW frames \in Seq(OtherFrames), Announce(frames)
    PROVE  calls' \in Seq(OtherFrames)
<1>1. <<Call("handlers")>> \in Seq(OtherFrames)
  BY OtherCalls DEF Labels
<1>2. Overtaken(calls) \in Seq(OtherFrames)  BY OthersMayCall
<1> QED  BY <1>1, <1>2 DEF Announce

-----------------------------------------------------------------------------
(* What a report does to the session: nothing, or it ends by failure.        *)

LEMMA OpensUnseen ==
    ASSUME NEW b, NEW a, a.id \in Nat, NEW rest \in Seq(OtherFrames),
           UNCHANGED <<phase, microphone>>,
           \/ OpenAttempt(b, a, rest) \/ resumeAttempt(b, a, rest)
           \/ openFirstAttempt(b, a, rest)
           \/ resumeAttempt(b, a, <<Call("finishPaused")>> \o rest)
           \/ resumeAttempt(b, a, <<Call("endHeld")>> \o rest)
           \/ resumeAttempt(b, a, <<Call("markEmpty")>> \o rest)
    PROVE  Announces
<1>1. /\ <<Call("sendHeldAudio")>> \in Seq(OtherFrames)
      /\ <<Call("finishPaused")>> \in Seq(OtherFrames)
      /\ <<Call("endHeld")>> \in Seq(OtherFrames)
      /\ <<Call("markEmpty")>> \in Seq(OtherFrames)
  BY OtherCalls DEF Labels
<1>2. a.id + 1 \in Nat  OBVIOUS
<1>3. /\ <<CallWith("openedFirst", a.id + 1)>> \in Seq(OtherFrames)
      /\ <<Call("startAttempt"), CallWith("committed", a.id + 1)>> \in Seq(OtherFrames)
  BY <1>2, OtherCalls DEF Labels
<1>4. PICK s \in Seq(OtherFrames) : OpenAttempt(b, a, s)
  <2>1. CASE OpenAttempt(b, a, rest)  BY <2>1
  <2>2. CASE resumeAttempt(b, a, rest)
    <3>1. <<Call("sendHeldAudio")>> \o rest \in Seq(OtherFrames)  BY <1>1
    <3> QED  BY <2>2, <3>1 DEF resumeAttempt
  <2>3. CASE openFirstAttempt(b, a, rest)
    <3>1. <<CallWith("openedFirst", a.id + 1)>> \o rest \in Seq(OtherFrames)  BY <1>3
    <3> QED  BY <2>3, <3>1 DEF openFirstAttempt
  <2>4. ASSUME NEW label \in {"finishPaused", "endHeld", "markEmpty"},
               resumeAttempt(b, a, <<Call(label)>> \o rest)
        PROVE  \E s \in Seq(OtherFrames) : OpenAttempt(b, a, s)
    <3>1. <<Call(label)>> \o rest \in Seq(OtherFrames)  BY <1>1
    <3>2. <<Call("sendHeldAudio")>> \o (<<Call(label)>> \o rest) \in Seq(OtherFrames)
      BY <1>1, <3>1
    <3> QED  BY <2>4, <3>2 DEF resumeAttempt
  <2> QED  BY <2>1, <2>2, <2>3, <2>4
<1>5. calls' = <<Call("startAttempt"), CallWith("committed", a.id + 1)>> \o s
  BY <1>4 DEF OpenAttempt
<1>6. calls' \in Seq(OtherFrames)  BY <1>3, <1>5
<1> QED  BY <1>6 DEF Announces

LEMMA SwitchesUnseen ==
    ASSUME NEW b, NEW rest \in Seq(OtherFrames), UNCHANGED <<phase, microphone>>,
           switchProvider(b, rest)
    PROVE  Announces
<1>1. <<Call("retire"), Call("switch")>> \in Seq(OtherFrames)  BY OtherCalls DEF Labels
<1> QED  BY <1>1 DEF switchProvider, Announces

LEMMA StopsUnseen ==
    ASSUME NEW b, NEW rest \in Seq(OtherFrames), UNCHANGED <<phase, microphone>>,
           endedWhileStopping(b, rest)
    PROVE  Announces
<1>1. <<Call("end")>> \in Seq(OtherFrames)  BY OtherCalls DEF Labels
<1>2. <<Call("end")>> \o rest \in Seq(OtherFrames)  BY <1>1
<1>3. calls' = <<Call("end")>> \o rest \/ calls' = rest
  BY Zenon DEF endedWhileStopping
<1> QED  BY <1>2, <1>3 DEF Announces

LEMMA FailsSeen ==
    ASSUME NEW b, NEW rest \in Seq(OtherFrames), EndByFailure(b, rest), phase # "Idle"
    PROVE  Announces
<1>1. Overtaken(rest) \in Seq(Frames)  BY OvertakenOthers, OtherHead
<1>2. PICK f \in Frames, h \in Frames :
          f = Call("sessionEnds") /\ f.at = "sessionEnds" /\ h = Call("handlers")
  BY Pushes DEF Labels
<1>3. calls' = <<f, h>> \o Overtaken(rest)  BY <1>2 DEF EndByFailure
<1>4. calls' # <<>> /\ Head(calls') = f
  <2> DEFINE s == Overtaken(rest)
  <2>1. <<h>> \o s \in Seq(Frames)  BY <1>1
  <2>2. calls' = <<f>> \o (<<h>> \o s)  BY <1>1, <1>3, TwoLaid
  <2> HIDE DEF s
  <2> QED  BY <2>1, <2>2
<1> QED  BY <1>2, <1>4 DEF EndByFailure, Announces, Running

LEMMA FailureSeen ==
    ASSUME Typed, NEW failure \in Failures, NEW offline \in BOOLEAN, NEW stable \in BOOLEAN,
           NEW rest \in Seq(OtherFrames), handleFailure(failure, offline, stable, rest)
    PROVE  Announces
<1> DEFINE ended == [between EXCEPT !.finishingPausedAttempt = FALSE]
           left == IF stable THEN Reconnects ELSE attempts.reconnects
<1>1. attempts.id \in Nat /\ WithReconnects(left - 1).id = attempts.id
  BY DEF Typed, TypeOK, Attempts, WithReconnects
<1>2. \/ switchProvider(ended, rest) /\ UNCHANGED <<phase, microphone>>
      \/ resumeAttempt(ended, attempts, rest) /\ UNCHANGED <<phase, microphone>>
      \/ endedWhileStopping(ended, rest) /\ UNCHANGED <<phase, microphone>>
      \/ calls' = rest /\ UNCHANGED <<phase, microphone>>
      \/ /\ resumeAttempt(ended, WithReconnects(left - 1), rest)
         /\ UNCHANGED <<phase, microphone>>
      \/ /\ EndByFailure(ended, rest)
         /\ phase \in {"Starting", "Listening", "Stopping"}
  BY Zenon DEF handleFailure
<1> HIDE DEF ended, left
<1>3. CASE switchProvider(ended, rest) /\ UNCHANGED <<phase, microphone>>
  BY <1>3, SwitchesUnseen
<1>4. CASE /\ UNCHANGED <<phase, microphone>>
           /\ \/ resumeAttempt(ended, attempts, rest)
              \/ resumeAttempt(ended, WithReconnects(left - 1), rest)
  BY <1>1, <1>4, OpensUnseen
<1>5. CASE endedWhileStopping(ended, rest) /\ UNCHANGED <<phase, microphone>>
  BY <1>5, StopsUnseen
<1>6. CASE calls' = rest /\ UNCHANGED <<phase, microphone>>
  BY <1>6 DEF Announces
<1>7. CASE /\ EndByFailure(ended, rest)
           /\ phase \in {"Starting", "Listening", "Stopping"}
  BY <1>7, FailsSeen
<1> QED  BY <1>2, <1>3, <1>4, <1>5, <1>6, <1>7

LEMMA CompletedSeen ==
    ASSUME Typed, NEW offline \in BOOLEAN, NEW stable \in BOOLEAN,
           NEW rest \in Seq(OtherFrames), handleCompleted(offline, stable, rest)
    PROVE  Announces
<1> DEFINE ended == [between EXCEPT !.finishingPausedAttempt = FALSE]
<1>1. attempts.id \in Nat /\ WithReconnects(Reconnects).id = attempts.id
  BY DEF Typed, TypeOK, Attempts, WithReconnects
<1>2. \/ endedWhileStopping(ended, rest) /\ UNCHANGED <<phase, microphone>>
      \/ resumeAttempt(ended, attempts, rest) /\ UNCHANGED <<phase, microphone>>
      \/ /\ resumeAttempt(ended, WithReconnects(Reconnects), rest)
         /\ UNCHANGED <<phase, microphone>>
      \/ handleFailure("dropped", offline, FALSE, rest)
      \/ calls' = rest /\ UNCHANGED <<phase, microphone>>
  BY Zenon DEF handleCompleted
<1> HIDE DEF ended
<1>3. CASE endedWhileStopping(ended, rest) /\ UNCHANGED <<phase, microphone>>
  BY <1>3, StopsUnseen
<1>4. CASE /\ UNCHANGED <<phase, microphone>>
           /\ \/ resumeAttempt(ended, attempts, rest)
              \/ resumeAttempt(ended, WithReconnects(Reconnects), rest)
  BY <1>1, <1>4, OpensUnseen
<1>5. CASE handleFailure("dropped", offline, FALSE, rest)
  <2>1. "dropped" \in Failures /\ FALSE \in BOOLEAN  BY DEF Failures
  <2> QED  BY <1>5, <2>1, FailureSeen
<1>6. CASE calls' = rest /\ UNCHANGED <<phase, microphone>>
  BY <1>6 DEF Announces
<1> QED  BY <1>2, <1>3, <1>4, <1>5, <1>6

LEMMA TakesSeen ==
    ASSUME Typed, NEW rest \in Seq(OtherFrames), takeReadyProvider(rest)
    PROVE  Announces
<1> DEFINE ready == [between EXCEPT !.awaitingProvider = FALSE]
           refilled == [attempts EXCEPT !.transcriber = TRUE, !.reconnects = Reconnects]
<1>1. refilled.id \in Nat
  BY DEF Typed, TypeOK, Attempts
<1>2. /\ UNCHANGED <<phase, microphone>>
      /\ \/ calls' = rest
         \/ openFirstAttempt(ready, refilled, rest)
         \/ resumeAttempt(ready, refilled, rest)
         \/ resumeAttempt(ready, refilled, <<Call("finishPaused")>> \o rest)
         \/ endedWhileStopping(ready, rest)
  BY Zenon DEF takeReadyProvider
<1> HIDE DEF ready, refilled
<1>3. CASE calls' = rest  BY <1>2, <1>3 DEF Announces
<1>4. CASE \/ openFirstAttempt(ready, refilled, rest)
           \/ resumeAttempt(ready, refilled, rest)
           \/ resumeAttempt(ready, refilled, <<Call("finishPaused")>> \o rest)
  BY <1>1, <1>2, <1>4, OpensUnseen
<1>5. CASE endedWhileStopping(ready, rest)
  BY <1>2, <1>5, StopsUnseen
<1> QED  BY <1>2, <1>3, <1>4, <1>5

-----------------------------------------------------------------------------
(* Each step is a step of the contract, or nothing to it.                    *)

\* A step the contract sees nothing of stutters, where it announces no failure.
LEMMA UnseenKeeps ==
    ASSUME Unseen, ~Running("sessionEnds"), calls' \in Seq(OtherFrames)
    PROVE  UNCHANGED Promise!vars
<1>1. ~Running("sessionEnds")'  BY OthersRun
<1>2. Running("sessionEnds")' = Running("sessionEnds")  BY <1>1 DEF Running
<1> QED  BY <1>2 DEF Unseen, Promise!vars

\* An end by failure, with the audio the failing provider took or the budget
\* had no room for.
LEMMA FailsAsPromised ==
    ASSUME phase # "Idle", settings, phase' = "Idle", microphone' = FALSE,
           Running("sessionEnds")', UNCHANGED <<settings, microphoneStarting>>,
           audio'.given \in {audio.given, audio.given + 1},
           audio'.heard \in {audio.heard, audio.heard + 1}
    PROVE  Promise!failed
<1>1. Running("sessionEnds")' = TRUE  BY DEF Running
<1> QED  BY <1>1 DEF Promise!failed

\* The failing flag goes from down to down.
LEMMA NoneFails ==
    ASSUME ~Running("sessionEnds"), calls' \in Seq(OtherFrames)
    PROVE  /\ Running("sessionEnds")' = Running("sessionEnds")
           /\ Running("sessionEnds")' = FALSE
<1>1. ~Running("sessionEnds")'  BY OthersRun
<1> QED  BY <1>1 DEF Running

\* What the speech does for itself.
LEMMA CodeUnseen ==
    ASSUME Runs,
           \/ CommitPartial \/ RetireAttempt \/ FinishPaused \/ OpenedFirst \/ MarkEmpty
           \/ EndHeld \/ proceed \/ HandlersReturn \/ ReturnOvertaken \/ sendHeldAudio
           \/ EndInput \/ StopMicrophone \/ finishStop \/ Switch
    PROVE  UNCHANGED Promise!vars
<1> USE DEF speechVars, flagVars, resumeVars, providerVars, heardVars, Return, GoOn
<1> DEFINE label == Head(calls).at
           rest == Tail(calls)
<1>1. Unseen /\ Running(label) /\ label # "sessionEnds"
  BY DEF CommitPartial, RetireAttempt, FinishPaused, OpenedFirst, MarkEmpty, EndHeld,
         proceed, HandlersReturn, ReturnOvertaken, sendHeldAudio, EndInput,
         StopMicrophone, finishStop, Switch, Running, Unseen
<1>2. rest \in Seq(OtherFrames) /\ calls \in Seq(OtherFrames) /\ ~Running("sessionEnds")
  <2> HIDE DEF label
  <2>1. rest \in Seq(OtherFrames) /\ calls \in Seq(OtherFrames)
    BY <1>1, OthersBelow, OthersAtHead
  <2> QED  BY <1>1, <2>1, OtherHead DEF Running
<1>3. attempts.id \in Nat /\ between.held \in Seq(Nat)  BY Types DEF Runs
<1>4. /\ \A l \in Labels \ {"sessionEnds"} : <<Call(l)>> \in Seq(OtherFrames)
      /\ endInput \in Seq(OtherFrames) /\ <<>> \in Seq(OtherFrames)
      /\ <<Call("sendHeldAudio"), CallWith("readyFirst", attempts.id)>> \in Seq(OtherFrames)
  BY <1>3, OtherCalls DEF endInput, Labels
<1>5. \A s \in Seq(OtherFrames) : s \o rest \in Seq(OtherFrames)  BY <1>2
<1> HIDE DEF rest
<1>6. calls' \in Seq(OtherFrames)
  <2>1. CASE CommitPartial
    <3>1. calls' = rest \/ calls' = <<Call("handlers")>> \o rest
      BY <2>1 DEF CommitPartial, rest
    <3> QED  BY <1>2, <1>4, <1>5, <3>1 DEF Labels
  <2>2. CASE RetireAttempt
    <3>1. calls' = <<>> \o rest \/ calls' = <<Call("handlers")>> \o rest
      BY <2>2 DEF RetireAttempt, rest
    <3> QED  BY <1>2, <1>4, <1>5, <3>1 DEF Labels
  <2>3. CASE FinishPaused \/ EndHeld
    <3>1. calls' = rest \/ calls' = endInput \o rest
      BY <2>3 DEF FinishPaused, EndHeld, rest
    <3> QED  BY <1>2, <1>4, <1>5, <3>1
  <2>4. CASE OpenedFirst
    <3>1. \/ calls' = rest
          \/ calls' = <<Call("sendHeldAudio"), CallWith("readyFirst", attempts.id)>> \o rest
      BY <2>4 DEF OpenedFirst, rest
    <3> QED  BY <1>2, <1>4, <1>5, <3>1
  <2>5. CASE MarkEmpty \/ HandlersReturn \/ ReturnOvertaken
    <3>1. calls' = rest
      BY <2>5 DEF MarkEmpty, HandlersReturn, ReturnOvertaken, rest
    <3> QED  BY <1>2, <3>1
  <2>6. CASE proceed
    <3> DEFINE ends == IF finishOwed /\ between.finishingPausedAttempt THEN endInput ELSE <<>>
               then == CASE phase = "Listening" -> <<Call("proceedListening")>>
                         [] phase = "Stopping" -> <<Call("proceedStopping")>>
                         [] OTHER -> <<>>
    <3>1. ends \in Seq(OtherFrames) /\ then \in Seq(OtherFrames)
      BY <1>4 DEF Labels
    <3>2. calls' = (ends \o then) \o rest  BY <2>6 DEF proceed, rest
    <3> HIDE DEF ends, then
    <3>3. ends \o then \in Seq(OtherFrames)  BY <3>1
    <3> QED  BY <1>5, <3>2, <3>3
  <2>7. CASE sendHeldAudio
    <3>1. CASE calls' = rest  BY <1>2, <3>1
    <3>2. CASE /\ between.held # <<>>
               /\ calls' = <<CallWith("sendAudio", Head(between.held))>> \o calls
      <4>1. Head(between.held) \in Nat  BY <1>3, <3>2
      <4>2. <<CallWith("sendAudio", Head(between.held))>> \in Seq(OtherFrames)
        BY <4>1, OtherCalls DEF Labels
      <4> QED  BY <1>2, <3>2, <4>2
    <3> QED  BY <2>7, <3>1, <3>2 DEF sendHeldAudio, rest
  <2>8. CASE EndInput
    <3>1. calls' = rest \/ calls' = <<Call("finishInput")>> \o rest
      BY <2>8 DEF EndInput, rest
    <3> QED  BY <1>2, <1>4, <1>5, <3>1 DEF Labels
  <2>9. CASE StopMicrophone
    <3>1. calls' = rest \/ calls' = <<Call("proceed")>> \o rest
      BY <2>9 DEF StopMicrophone, rest
    <3> QED  BY <1>2, <1>4, <1>5, <3>1 DEF Labels
  <2>10. CASE finishStop
    <3>1. \/ calls' = rest \/ calls' = <<Call("end")>> \o rest
          \/ calls' = <<>> \o rest \/ calls' = endInput \o rest
      BY <2>10 DEF finishStop, rest
    <3> QED  BY <1>2, <1>4, <1>5, <3>1 DEF Labels
  <2>11. CASE Switch
    <3>1. calls' = <<Call("walk")>> \o rest
      BY <2>11 DEF Switch, rest
    <3> QED  BY <1>4, <1>5, <3>1 DEF Labels
  <2> QED
    BY <2>1, <2>2, <2>3, <2>4, <2>5, <2>6, <2>7, <2>8, <2>9, <2>10, <2>11
<1> QED  BY <1>1, <1>2, <1>6, UnseenKeeps

\* The speech asks for the microphone, and the session turns it on after a resume.
LEMMA MicrophoneAsPromised ==
    ASSUME Runs, ReadyToListen \/ StartMicrophone
    PROVE  Promise!Next \/ UNCHANGED Promise!vars
<1> USE DEF speechVars, flagVars, resumeVars, providerVars, heardVars, Return
<1> DEFINE label == Head(calls).at
<1>1. Running(label) /\ label \in {"readyFirst", "startMicrophone"} /\ calls' = Tail(calls)
  BY DEF ReadyToListen, StartMicrophone, Running
<1>2. /\ calls' \in Seq(OtherFrames) /\ ~Running("sessionEnds")
      /\ Finds(Head(calls)) /\ phase \in Phases
  BY <1>1, OthersBelow, AtHead, Types DEF Running, Runs
<1>3. Running("sessionEnds")' = Running("sessionEnds")  BY <1>2, NoneFails
<1>4. CASE StartMicrophone
  <2>1. phase = "Listening"  BY <1>1, <1>2, <1>4 DEF Finds, StartMicrophone, Running
  <2>2. Promise!StartMicrophone
    BY <1>3, <1>4, <2>1 DEF StartMicrophone, Promise!StartMicrophone
  <2> QED  BY <2>2 DEF Promise!Next
<1>5. CASE ReadyToListen /\ phase = "Starting" /\ Head(calls).arg = attempts.id
  <2>1. settings /\ ~microphoneStarting
    BY <1>2, <1>5 DEF Finds, First, ReadyToListen, Running
  <2>2. Promise!readyToListen
    BY <1>3, <1>5, <2>1 DEF ReadyToListen, Promise!readyToListen
  <2> QED  BY <2>2 DEF Promise!Next
<1>6. CASE ReadyToListen /\ ~(phase = "Starting" /\ Head(calls).arg = attempts.id)
  <2>1. Unseen  BY <1>6 DEF ReadyToListen, Unseen
  <2> QED  BY <1>2, <2>1, UnseenKeeps
<1> QED  BY <1>4, <1>5, <1>6

\* The speech ends only from a stop with the microphone off and all handed over.
LEMMA EndAsPromised ==
    ASSUME Runs, InLine, End
    PROVE  Promise!Next \/ UNCHANGED Promise!vars
<1> USE DEF speechVars, flagVars, resumeVars, heardVars, Return
<1> DEFINE rest == Tail(calls)
<1>1. /\ Running("end") /\ rest \in Seq(OtherFrames) /\ ~Running("sessionEnds")
      /\ Finds(Head(calls)) /\ Head(calls).at = "end" /\ attempts.id \in Nat
      /\ UNCHANGED <<settings, microphone, microphoneStarting, audio>>
  BY OthersBelow, AtHead, Types DEF End, Running, Runs
<1>2. phase = "Stopping" /\ microphoneStopped /\ ~microphone
  BY <1>1 DEF Finds, Runs, StateFits, MicrophoneFits
<1>3. CASE calls' = rest /\ UNCHANGED phase
  BY <1>1, <1>3, UnseenKeeps DEF Unseen
<1>4. CASE resumeAttempt(between, attempts, <<Call("endHeld")>> \o rest) /\ UNCHANGED phase
  <2> HIDE DEF rest
  <2>1. Announces  BY <1>1, <1>4, OpensUnseen
  <2>2. calls' \in Seq(OtherFrames)  BY <1>2, <1>4, <2>1 DEF Announces
  <2> QED  BY <1>1, <1>4, <2>2, UnseenKeeps DEF Unseen
<1>5. CASE /\ between.held = <<>> /\ phase' = "Idle"
           /\ calls' = <<Call("handlers")>> \o Overtaken(rest)
  <2>1. calls' \in Seq(OtherFrames)
    <3>1. Overtaken(rest) \in Seq(OtherFrames)  BY <1>1, OvertakenOthers
    <3>2. <<Call("handlers")>> \in Seq(OtherFrames)  BY OtherCalls DEF Labels
    <3> QED  BY <1>5, <3>1, <3>2
  <2>2. Running("sessionEnds")' = Running("sessionEnds")  BY <1>1, <2>1, NoneFails
  <2>3. audio.given = audio.heard
    <3>1. ~Running("sendAudio")  BY <1>1 DEF Running
    <3>2. Len(Waiting) = 0  BY <1>5, <3>1 DEF Waiting
    <3>3. audio.heard = audio.given + Len(Waiting)
      BY <1>2 DEF Runs, Inv, HeldAudioInOrder, InSession
    <3>4. audio.given \in Nat  BY DEF Runs, Inv, Typed, TypeOK
    <3> QED  BY <3>2, <3>3, <3>4
  <2>4. Promise!ended
    BY <1>1, <1>2, <1>5, <2>2, <2>3 DEF Promise!ended
  <2> QED  BY <2>4 DEF Promise!Next
<1> QED  BY <1>3, <1>4, <1>5 DEF End

LEMMA ProceedListeningUnseen ==
    ASSUME Runs, ProceedListening
    PROVE  UNCHANGED Promise!vars
<1> USE DEF heardVars, resumeVars
<1> DEFINE rest == Tail(calls)
           empty == IF between.held = <<>> THEN <<Call("markEmpty")>> ELSE <<>>
<1>1. /\ Running("proceedListening") /\ rest \in Seq(OtherFrames) /\ rest \in Seq(Frames)
      /\ ~Running("sessionEnds") /\ attempts.id \in Nat /\ Unseen /\ UNCHANGED <<phase, microphone>>
  BY OthersBelow, AtHead, Types DEF ProceedListening, Running, Runs, Unseen
<1>2. CASE calls' = rest  BY <1>1, <1>2, UnseenKeeps
<1>3. CASE resumeAttempt(between, attempts, empty \o rest)
  <2>1. \/ resumeAttempt(between, attempts, rest)
        \/ resumeAttempt(between, attempts, <<Call("markEmpty")>> \o rest)
    <3> HIDE DEF rest
    <3>1. <<>> \o rest = rest  BY <1>1
    <3> QED  BY <1>3, <3>1
  <2> HIDE DEF rest
  <2>2. Announces  BY <1>1, <2>1, OpensUnseen
  <2>3. calls' # <<>> /\ Head(calls').at = "startAttempt"
    <3>1. PICK s \in Seq(Frames) : OpenAttempt(between, attempts, s)
      <4>1. <<Call("sendHeldAudio")>> \o rest \in Seq(Frames)
        BY <1>1, CallTyped DEF Labels
      <4>2. <<Call("sendHeldAudio")>> \o (<<Call("markEmpty")>> \o rest) \in Seq(Frames)
        BY <1>1, CallTyped DEF Labels
      <4> QED  BY <2>1, <4>1, <4>2 DEF resumeAttempt
    <3>2. PICK f \in Frames, h \in Frames :
              /\ f = Call("startAttempt") /\ f.at = "startAttempt"
              /\ h = CallWith("committed", attempts.id + 1)
      BY <1>1, Pushes, CallTyped DEF Labels
    <3>3. calls' = <<f, h>> \o s  BY <3>1, <3>2 DEF OpenAttempt
    <3>4. calls' = <<f>> \o (<<h>> \o s) /\ <<h>> \o s \in Seq(Frames)  BY <3>3, TwoLaid
    <3> QED  BY <3>2, <3>4
  <2>4. ~Running("sessionEnds")'  BY <2>3 DEF Running
  <2>5. calls' \in Seq(OtherFrames)  BY <2>2, <2>4 DEF Announces
  <2> QED  BY <1>1, <2>5, UnseenKeeps
<1> QED  BY <1>2, <1>3 DEF ProceedListening, Return

\* What a report or a ready provider leads to.
LEMMA AnnouncesAsPromised ==
    ASSUME Announces, ~Running("sessionEnds"), phase' # phase => settings,
           UNCHANGED <<settings, microphoneStarting, audio>>
    PROVE  Promise!Next \/ UNCHANGED Promise!vars
<1>1. CASE UNCHANGED <<phase, microphone>> /\ calls' \in Seq(OtherFrames)
  BY <1>1, UnseenKeeps DEF Unseen
<1>2. CASE /\ phase # "Idle" /\ phase' = "Idle" /\ microphone' = FALSE
           /\ Running("sessionEnds")'
  <2>1. Promise!failed  BY <1>2, FailsAsPromised
  <2> QED  BY <2>1 DEF Promise!Next
<1> QED  BY <1>1, <1>2 DEF Announces

LEMMA WalkAsPromised ==
    ASSUME Runs, Walk \/ finishPreparation
    PROVE  Promise!Next \/ UNCHANGED Promise!vars
<1> USE DEF flagVars, heardVars
<1>1. Typed /\ UNCHANGED <<settings, microphoneStarting, audio>> /\ phase \in Phases
  BY Types DEF Runs, Inv, Walk, finishPreparation
<1>2. CASE Walk
  <2> DEFINE rest == Tail(calls)
             b == [between EXCEPT !.awaitingProvider = FALSE, !.held = <<>>]
  <2>1. /\ Running("walk") /\ rest \in Seq(OtherFrames) /\ calls \in Seq(OtherFrames)
        /\ ~Running("sessionEnds") /\ settings /\ phase # "Idle"
    <3>1. Running("walk")  BY <1>2 DEF Walk
    <3>2. Finds(Head(calls)) /\ Head(calls).at = "walk"  BY <3>1, AtHead
    <3> QED  BY <3>1, <3>2, OthersBelow, OthersAtHead DEF Finds, Running
  <2>2. \/ EndByFailure(b, rest)
        \/ UNCHANGED <<phase, microphone, calls>>
        \/ UNCHANGED <<phase, microphone>> /\ calls' = rest
        \/ takeReadyProvider(rest)
    BY <1>2 DEF Walk, exhaust, Return
  <2> HIDE DEF rest, b
  <2>3. Announces
    <3>1. CASE EndByFailure(b, rest)  BY <2>1, <3>1, FailsSeen
    <3>2. CASE \/ UNCHANGED <<phase, microphone, calls>>
               \/ UNCHANGED <<phase, microphone>> /\ calls' = rest
      BY <2>1, <3>2 DEF Announces
    <3>3. CASE takeReadyProvider(rest)  BY <1>1, <2>1, <3>3, TakesSeen
    <3> QED  BY <2>2, <3>1, <3>2, <3>3
  <2> QED  BY <1>1, <2>1, <2>3, AnnouncesAsPromised
<1>3. CASE finishPreparation
  <2>1. ~Running("sessionEnds") /\ <<>> \in Seq(OtherFrames)
        /\ (chain.preparing => settings)
    BY <1>3 DEF finishPreparation, Free, Running, Runs, StateFits, HoldsFits
  <2>2. settings  BY <1>3, <2>1 DEF finishPreparation
  <2>3. Announces
    <3>1. CASE takeReadyProvider(<<>>)  BY <1>1, <2>1, <3>1, TakesSeen
    <3>2. CASE calls' = <<Call("walk")>> /\ UNCHANGED <<phase, microphone>>
      <4>1. <<Call("walk")>> \in Seq(OtherFrames)  BY OtherCalls DEF Labels
      <4> QED  BY <3>2, <4>1 DEF Announces
    <3> QED  BY <1>3, <3>1, <3>2 DEF finishPreparation
  <2> QED  BY <1>1, <2>1, <2>2, <2>3, AnnouncesAsPromised
<1> QED  BY <1>2, <1>3

\* A call to a provider, whether it reports the attempt's end or not.
LEMMA CalledSeen ==
    ASSUME Runs, NEW label \in {"startAttempt", "sendAudio", "finishInput"},
           NEW took, NEW told, ProviderCalled(label, took, told),
           took = {} \/ label = "startAttempt"
    PROVE  /\ Announces /\ ~Running("sessionEnds") /\ (phase' # phase => settings)
           /\ UNCHANGED <<settings, microphoneStarting>>
<1>1. /\ Running(label) /\ Typed
      /\ UNCHANGED <<settings, microphoneStarting>>
  BY DEF ProviderCalled, flagVars, Runs, Inv
<1>2. Tail(calls) \in Seq(OtherFrames) /\ ~Running("sessionEnds")
  BY <1>1, OthersBelow DEF Running
<1>3. CASE Return /\ UNCHANGED <<phase, between, attempts, microphone>>
  <2>1. Announces  BY <1>2, <1>3 DEF Return, Announces
  <2> QED  BY <1>1, <1>2, <1>3, <2>1
<1>4. CASE /\ attempts.id \in provider.open \cup took
           /\ Failing(Tail(calls)) \/ Completing(Tail(calls))
  <2>1. Announces
    BY <1>1, <1>2, <1>4, FailureSeen, CompletedSeen DEF Failing, Completing
  <2>2. Live  BY <1>1, <1>4 DEF Live
  <2>3. settings  BY <2>2 DEF Runs, StateFits, LiveFits
  <2> QED  BY <1>1, <1>2, <2>1, <2>3
<1> QED  BY <1>3, <1>4 DEF ProviderCalled

LEMMA ProviderAsPromised ==
    ASSUME Runs, InLine, StartAttempt \/ SendAudio \/ FinishInput
    PROVE  Promise!Next \/ UNCHANGED Promise!vars
<1>1. CASE StartAttempt \/ FinishInput
  <2>1. /\ UNCHANGED audio
        /\ \/ ProviderCalled("startAttempt", {attempts.id}, {})
           \/ ProviderCalled("finishInput", {}, {attempts.id})
    BY <1>1 DEF StartAttempt, FinishInput, heardVars
  <2>2. /\ Announces /\ ~Running("sessionEnds") /\ (phase' # phase => settings)
        /\ UNCHANGED <<settings, microphoneStarting>>
    BY <2>1, CalledSeen
  <2> QED  BY <2>1, <2>2, AnnouncesAsPromised
<1>2. CASE SendAudio
  <2>1. /\ ProviderCalled("sendAudio", {}, {}) /\ Running("sendAudio")
        /\ audio' = [audio EXCEPT !.given = Head(calls).arg]
    BY <1>2 DEF SendAudio, ProviderCalled
  <2>2. /\ Announces /\ ~Running("sessionEnds") /\ (phase' # phase => settings)
        /\ UNCHANGED <<settings, microphoneStarting>>
    BY <2>1, CalledSeen
  <2>3. Head(calls).arg = audio.given + 1 /\ audio.given < audio.heard
    BY <2>1, NextInLine DEF Runs
  <2>4. audio'.given = audio.given + 1 /\ audio'.heard = audio.heard
    <3>1. audio \in [heard: Nat, given: Nat]  BY DEF Runs, Inv, Typed, TypeOK
    <3> QED  BY <2>1, <2>3, <3>1
  <2>5. CASE UNCHANGED <<phase, microphone>> /\ calls' \in Seq(OtherFrames)
    <3>1. Running("sessionEnds")' = Running("sessionEnds")  BY <2>2, <2>5, NoneFails
    <3>2. Promise!Give  BY <2>2, <2>3, <2>4, <2>5, <3>1 DEF Promise!Give
    <3> QED  BY <3>2 DEF Promise!Next
  <2>6. CASE /\ phase # "Idle" /\ phase' = "Idle" /\ microphone' = FALSE
             /\ Running("sessionEnds")'
    <3>1. Promise!failed  BY <2>2, <2>4, <2>6, FailsAsPromised
    <3> QED  BY <3>1 DEF Promise!Next
  <2> QED  BY <2>2, <2>5, <2>6 DEF Announces
<1> QED  BY <1>1, <1>2

LEMMA ProviderEndsAsPromised ==
    ASSUME Runs, ProviderEnds
    PROVE  Promise!Next \/ UNCHANGED Promise!vars
<1>1. PICK a \in provider.open : AttemptEnds(a)  BY DEF ProviderEnds
<1>2. /\ Typed /\ calls = <<>> /\ ~Running("sessionEnds") /\ <<>> \in Seq(OtherFrames)
      /\ UNCHANGED <<settings, microphoneStarting, audio>>
  BY <1>1 DEF AttemptEnds, Free, Running, flagVars, heardVars, Runs, Inv
<1>3. CASE UNCHANGED <<phase, between, attempts, calls, microphone>>
  BY <1>2, <1>3, UnseenKeeps DEF Unseen
<1>4. CASE a = attempts.id /\ (Failing(<<>>) \/ Completing(<<>>))
  <2>1. Announces
    BY <1>2, <1>4, FailureSeen, CompletedSeen DEF Failing, Completing
  <2>2. settings  BY <1>4 DEF Live, Runs, StateFits, LiveFits
  <2> QED  BY <1>2, <2>1, <2>2, AnnouncesAsPromised
<1> QED  BY <1>1, <1>3, <1>4 DEF AttemptEnds

-----------------------------------------------------------------------------
(* The session's side.                                                       *)

LEMMA CancelAsPromised ==
    ASSUME Runs, cancel \/ SessionEnds
    PROVE  Promise!Next \/ UNCHANGED Promise!vars
<1> USE DEF speechVars, flagVars, heardVars
<1>1. ASSUME NEW stack \in Seq(OtherFrames), Cancelled(stack)
      PROVE  Promise!cancel
  <2>1. calls' \in Seq(OtherFrames)  BY <1>1, OvertakenOthers DEF Cancelled
  <2>2. Running("sessionEnds")' = FALSE  BY <2>1, OthersRun DEF Running
  <2> QED  BY <1>1, <2>2 DEF Cancelled, Promise!cancel
<1>2. CASE cancel
  <2>1. calls \in Seq(OtherFrames) /\ Cancelled(calls)
    BY <1>2, OthersMayCall DEF cancel
  <2> QED  BY <1>1, <2>1 DEF Promise!Next
<1>3. CASE SessionEnds
  <2>1. Running("sessionEnds") /\ Tail(calls) \in Seq(OtherFrames)
    BY <1>3, OthersBelow DEF SessionEnds
  <2>2. CASE Cancelled(Tail(calls))
    BY <1>1, <2>1, <2>2 DEF Promise!Next
  <2>3. CASE /\ calls' = Tail(calls)
             /\ UNCHANGED <<phase, settings, microphone, microphoneStarting, audio>>
    <3>1. Running("sessionEnds")' = FALSE  BY <2>1, <2>3, OthersRun DEF Running
    <3>2. Promise!Salvage  BY <2>1, <2>3, <3>1 DEF Promise!Salvage
    <3> QED  BY <3>2 DEF Promise!Next
  <2> QED  BY <1>3, <2>2, <2>3 DEF SessionEnds, Return
<1> QED  BY <1>2, <1>3

\* A stop, by a command, a lost microphone or the budget.
LEMMA StopAsPromised ==
    ASSUME Runs, MayCall, NEW b, StopSpeech(b), phase \in {"Listening", "Paused"},
           microphone' \in {microphone, FALSE}, UNCHANGED audio
    PROVE  Promise!Next
<1>1. /\ <<Call("proceed")>> \in Seq(OtherFrames)
      /\ <<Call("stopMicrophone")>> \in Seq(OtherFrames)
  BY OtherCalls DEF Labels
<1>2. Announce(<<Call("proceed")>>) \/ Announce(<<Call("stopMicrophone")>>)
  BY Zenon DEF StopSpeech
<1>3. calls' \in Seq(OtherFrames)  BY <1>1, <1>2, OthersAnnounce
<1>4. Running("sessionEnds")' = Running("sessionEnds")
  BY <1>3, OthersMayCall, NoneFails
<1>5. Promise!stop  BY <1>4 DEF StopSpeech, Promise!stop
<1> QED  BY <1>5 DEF Promise!Next

LEMMA CommandsAsPromised ==
    ASSUME Runs,
           \/ Begin \/ Start \/ listen \/ pause \/ resume \/ stop
           \/ MicrophoneFailed \/ MicrophoneStopped \/ TextArrives
    PROVE  Promise!Next \/ UNCHANGED Promise!vars
<1> USE DEF speechVars, flagVars, heardVars
<1>1. MayCall
  BY DEF MayCall, Begin, Start, listen, pause, resume, stop, MicrophoneFailed,
         MicrophoneStopped, TextArrives
<1>2. /\ calls \in Seq(OtherFrames) /\ Overtaken(calls) \in Seq(OtherFrames)
      /\ ~Running("sessionEnds")
  BY <1>1, OthersMayCall
<1>3. \A label \in Labels \ {"sessionEnds"} : <<Call(label)>> \in Seq(OtherFrames)
  BY OtherCalls
<1>4. calls' \in Seq(OtherFrames) =>
          /\ Running("sessionEnds")' = Running("sessionEnds")
          /\ Running("sessionEnds")' = FALSE
  BY <1>2, NoneFails
<1>5. MicrophoneFits  BY DEF Runs, StateFits
<1>6. CASE Begin
  <2>1. calls' \in Seq(OtherFrames)  BY <1>2, <1>6 DEF Begin
  <2>2. phase \in {"Idle", "Starting"} /\ ~microphone
    BY <1>5, <1>6 DEF Begin, MicrophoneFits
  <2>3. Promise!begin  BY <1>2, <1>4, <1>6, <2>1, <2>2 DEF Begin, Promise!begin
  <2> QED  BY <2>3 DEF Promise!Next
<1>7. CASE Start
  <2>1. calls' \in Seq(OtherFrames)  BY <1>3, <1>7 DEF Start, Labels
  <2>2. Promise!start  BY <1>4, <1>7, <2>1 DEF Start, Promise!start
  <2> QED  BY <2>2 DEF Promise!Next
<1>8. CASE listen
  <2>1. calls' \in Seq(OtherFrames)  BY <1>2, <1>8 DEF listen
  <2>2. phase = "Starting"  BY <1>5, <1>8 DEF listen, MicrophoneFits
  <2>3. Promise!listen  BY <1>4, <1>8, <2>1, <2>2 DEF listen, Promise!listen
  <2> QED  BY <2>3 DEF Promise!Next
<1>9. CASE pause
  <2>1. calls' \in Seq(OtherFrames)
    BY <1>1, <1>3, <1>9, OthersAnnounce DEF pause, Labels
  <2>2. Promise!pause  BY <1>4, <1>9, <2>1 DEF pause, Promise!pause
  <2> QED  BY <2>2 DEF Promise!Next
<1>10. CASE resume
  <2>1. <<Call("proceed"), Call("startMicrophone")>> \in Seq(OtherFrames)
    BY OtherCalls DEF Labels
  <2>2. calls' \in Seq(OtherFrames)
    BY <1>1, <1>10, <2>1, OthersAnnounce DEF resume
  <2>3. Promise!resume  BY <1>4, <1>10, <2>2 DEF resume, Promise!resume
  <2> QED  BY <2>3 DEF Promise!Next
<1>11. CASE stop \/ MicrophoneFailed
  <2>1. /\ StopSpeech(between) /\ phase \in {"Listening", "Paused"}
        /\ microphone' \in {microphone, FALSE} /\ UNCHANGED audio
    BY <1>11 DEF stop, MicrophoneFailed
  <2> QED  BY <1>1, <2>1, StopAsPromised
<1>12. CASE MicrophoneStopped
  <2>1. calls' \in Seq(OtherFrames)  BY <1>3, <1>12 DEF MicrophoneStopped, Labels
  <2>2. Promise!StopMicrophone
    BY <1>4, <1>12, <2>1 DEF MicrophoneStopped, Promise!StopMicrophone
  <2> QED  BY <2>2 DEF Promise!Next
<1>13. CASE TextArrives
  <2>1. Unseen /\ calls' \in Seq(OtherFrames)  BY <1>2, <1>13 DEF TextArrives, Unseen
  <2> QED  BY <1>2, <2>1, UnseenKeeps
<1> QED
  BY <1>6, <1>7, <1>8, <1>9, <1>10, <1>11, <1>12, <1>13

LEMMA HearAsPromised ==
    ASSUME Runs, hear
    PROVE  Promise!Next \/ UNCHANGED Promise!vars
<1> USE DEF speechVars, flagVars, resumeVars, heardVars
<1> DEFINE chunk == audio.heard + 1
           past == [between EXCEPT !.heldPastTheBudget = TRUE]
<1>1. /\ MayCall /\ microphone /\ settings /\ phase # "Idle"
      /\ audio \in [heard: Nat, given: Nat]
  BY DEF hear, MayCall, Runs, Inv, Typed, TypeOK
<1>2. calls \in Seq(OtherFrames) /\ ~Running("sessionEnds")
  BY <1>1, OthersMayCall
<1>3. audio' = [audio EXCEPT !.heard = chunk] =>
          audio'.heard = audio.heard + 1 /\ audio'.given = audio.given
  BY <1>1
<1>4. ASSUME audio' = [audio EXCEPT !.heard = chunk], calls' \in Seq(OtherFrames),
             UNCHANGED <<phase, settings, microphone, microphoneStarting>>
      PROVE  Promise!Next
  <2>1. Running("sessionEnds")' = Running("sessionEnds")  BY <1>2, <1>4, NoneFails
  <2>2. Promise!hear  BY <1>1, <1>3, <1>4, <2>1 DEF Promise!hear
  <2> QED  BY <2>2 DEF Promise!Next
<1>5. CASE /\ calls' = <<CallWith("sendAudio", chunk)>> \o calls
           /\ audio' = [audio EXCEPT !.heard = chunk]
           /\ UNCHANGED <<phase, settings, microphone, microphoneStarting>>
  <2>1. chunk \in Nat  BY <1>1
  <2>2. <<CallWith("sendAudio", chunk)>> \in Seq(OtherFrames)
    <3> HIDE DEF chunk
    <3> QED  BY <2>1, OtherCalls DEF Labels
  <2>3. calls' \in Seq(OtherFrames)
    <3> HIDE DEF chunk
    <3> QED  BY <1>2, <1>5, <2>2
  <2> QED  BY <1>4, <1>5, <2>3
<1>6. CASE /\ audio' = [audio EXCEPT !.heard = chunk]
           /\ UNCHANGED <<phase, settings, microphone, microphoneStarting, calls>>
  <2>1. calls' \in Seq(OtherFrames)  BY <1>2, <1>6
  <2> QED  BY <1>4, <1>6, <2>1
<1>7. CASE /\ exhaust(calls) /\ audio' = [audio EXCEPT !.heard = chunk]
           /\ UNCHANGED <<settings, microphoneStarting>>
  <2> DEFINE b == [between EXCEPT !.awaitingProvider = FALSE, !.held = <<>>]
  <2>1. EndByFailure(b, calls)  BY <1>7 DEF exhaust
  <2>2. phase' = "Idle" /\ microphone' = FALSE  BY <2>1 DEF EndByFailure
  <2>3. Running("sessionEnds")'
    <3> HIDE DEF b
    <3>1. Announces  BY <1>1, <1>2, <2>1, FailsSeen
    <3> QED  BY <1>1, <2>2, <3>1 DEF Announces
  <2>4. Promise!failed  BY <1>1, <1>3, <1>7, <2>2, <2>3, FailsAsPromised
  <2> QED  BY <2>4 DEF Promise!Next
<1>8. CASE /\ phase = "Listening" /\ StopSpeech(past)
           /\ UNCHANGED <<microphone, heardVars>>
  <2> HIDE DEF past
  <2>1. Promise!Next  BY <1>1, <1>8, StopAsPromised
  <2> QED  BY <2>1
<1>9. CASE UNCHANGED <<phase, settings, microphone, microphoneStarting, audio, calls>>
  <2>1. Unseen /\ calls' \in Seq(OtherFrames)  BY <1>2, <1>9 DEF Unseen
  <2> QED  BY <1>2, <2>1, UnseenKeeps
<1>10. \/ /\ calls' = <<CallWith("sendAudio", chunk)>> \o calls
          /\ audio' = [audio EXCEPT !.heard = chunk]
          /\ UNCHANGED <<phase, settings, microphone, microphoneStarting>>
       \/ /\ audio' = [audio EXCEPT !.heard = chunk]
          /\ UNCHANGED <<phase, settings, microphone, microphoneStarting, calls>>
       \/ /\ exhaust(calls) /\ audio' = [audio EXCEPT !.heard = chunk]
          /\ UNCHANGED <<settings, microphoneStarting>>
       \/ /\ phase = "Listening" /\ StopSpeech(past)
          /\ UNCHANGED <<microphone, heardVars>>
       \/ UNCHANGED <<phase, settings, microphone, microphoneStarting, audio, calls>>
  <2> HIDE DEF past, chunk
  <2> QED  BY DEF hear, chunk, past
<1> QED  BY <1>5, <1>6, <1>7, <1>8, <1>9, <1>10

LEMMA PromisedInit ==
    ASSUME Init
    PROVE  Promise!Init
<1>1. /\ phase = "Idle" /\ ~settings /\ ~microphone /\ ~microphoneStarting
      /\ audio.heard = 0 /\ audio.given = 0 /\ ~Running("sessionEnds")
  BY DEF Init, Running
<1> QED  BY <1>1 DEF Promise!Init

LEMMA PromisedNext ==
    ASSUME Runs, InLine, [Next]_vars
    PROVE  Promise!Next \/ UNCHANGED Promise!vars
<1>1. CASE UNCHANGED vars
  BY <1>1 DEF vars, Promise!vars, Running
<1>2. CASE Next
  <2>1. \/ StartAttempt \/ SendAudio \/ FinishInput
        \/ CommitPartial \/ RetireAttempt \/ sendHeldAudio \/ EndInput \/ FinishPaused
        \/ OpenedFirst \/ ReadyToListen \/ MarkEmpty \/ End \/ EndHeld
        \/ Switch \/ Walk \/ proceed \/ ProceedListening \/ finishStop
        \/ StartMicrophone \/ StopMicrophone
        \/ SessionEnds \/ HandlersReturn \/ ReturnOvertaken
        \/ Begin \/ Start \/ listen \/ pause \/ resume \/ stop \/ cancel \/ hear
        \/ MicrophoneFailed \/ MicrophoneStopped
        \/ ProviderEnds \/ TextArrives \/ finishPreparation
    BY <1>2, Zenon DEF Next, Code, Session
  <2>2. CASE \/ CommitPartial \/ RetireAttempt \/ FinishPaused \/ OpenedFirst \/ MarkEmpty
             \/ EndHeld \/ proceed \/ HandlersReturn \/ ReturnOvertaken \/ sendHeldAudio
             \/ EndInput \/ StopMicrophone \/ finishStop \/ Switch
    BY <2>2, CodeUnseen
  <2>3. CASE \/ StartAttempt \/ SendAudio \/ FinishInput \/ ProviderEnds
             \/ Walk \/ finishPreparation \/ ProceedListening
    BY <2>3, ProviderAsPromised, ProviderEndsAsPromised, WalkAsPromised,
       ProceedListeningUnseen
  <2>4. CASE ReadyToListen \/ StartMicrophone \/ End
    BY <2>4, MicrophoneAsPromised, EndAsPromised
  <2>5. CASE SessionEnds \/ cancel \/ hear
    BY <2>5, CancelAsPromised, HearAsPromised
  <2>6. CASE \/ Begin \/ Start \/ listen \/ pause \/ resume \/ stop
             \/ MicrophoneFailed \/ MicrophoneStopped \/ TextArrives
    BY <2>6, CommandsAsPromised
  <2> QED  BY <2>1, <2>2, <2>3, <2>4, <2>5, <2>6
<1> QED  BY <1>1, <1>2

-----------------------------------------------------------------------------

(* startAttempt(), sendAudio() and finishInput() always find a transcriber the
   speech holds: no handler, failure, switch or stop that runs above a call
   that uses one lets it go before the stack comes back there. *)
THEOREM TranscriberIsHeld == Ordinarily => (Spec => []TranscriberHeld)
<1> SUFFICES ASSUME Ordinarily  PROVE  Spec => []TranscriberHeld
  OBVIOUS
<1>1. ASSUME Runs  PROVE  TranscriberHeld
  <2>1. ASSUME NEW label \in {"startAttempt", "sendAudio", "finishInput"}, Running(label)
        PROVE  attempts.transcriber
    <3>1. Finds(Head(calls)) /\ Head(calls).at = label  BY <1>1, <2>1, AtHead
    <3> QED  BY <3>1 DEF Finds
  <2> QED  BY <2>1 DEF TranscriberHeld
<1> QED  BY <1>1, AlwaysRuns, PTL

(* What still runs is the speech's to end: only the current attempt and the one
   a stop let go are open, and a speech that is over has no microphone, no
   preparation and no attempt running. *)
THEOREM NothingIsUnseen == Ordinarily => (Spec => []NothingRunsUnseen)
<1> SUFFICES ASSUME Ordinarily  PROVE  Spec => []NothingRunsUnseen
  OBVIOUS
<1>1. ASSUME Runs  PROVE  NothingRunsUnseen
  BY <1>1 DEF Runs, StateFits, OpenFits, MicrophoneFits, HoldsFits, LiveFits, Live, Over,
              NothingRunsUnseen
<1> QED  BY <1>1, AlwaysRuns, PTL

(* The speech implements what it promises its session: through pauses,
   reconnects, switches and whatever handlers call, it asks for the microphone
   once, hands over what it heard once, ends only from a stop with the
   microphone off and nothing left to hand over, and fails once a session. *)
THEOREM PromiseIsKept == Ordinarily => (Spec => KeepsPromise)
<1> SUFFICES ASSUME Ordinarily  PROVE  Spec => KeepsPromise
  OBVIOUS
<1>1. Init => InLine
  <2> SUFFICES ASSUME Init  PROVE  InLine
    OBVIOUS
  <2>1. Len(Waiting) = 0 /\ audio.given = 0 /\ audio.heard = 0
    BY DEF Init, NoBetween, Waiting, Running
  <2> QED  BY <2>1 DEF InLine
<1>2. Runs /\ InLine /\ Runs' /\ [Next]_vars => InLine'
  BY InLineNext DEF Runs
<1>3. Init => Promise!Init  BY PromisedInit
<1>4. Runs /\ InLine /\ [Next]_vars => [Promise!Next]_(Promise!vars)
  BY PromisedNext
<1> QED
  BY <1>1, <1>2, <1>3, <1>4, AlwaysRuns, PTL DEF Spec, KeepsPromise, Promise!Spec
=============================================================================
