--------------------------- MODULE DictationSpeech ---------------------------
(***************************************************************************)
(* A Dictation Session's speech: DictationSpeech with the BetweenAttempts  *)
(* it keeps, the SpeechAttempts it opens and the SpeechChain it walks.     *)
(*                                                                         *)
(* The program is one event loop, so the hard part is not parallelism but  *)
(* re-entry: a provider may report an attempt's end from inside            *)
(* startAttempt(), sendAudio() or finishInput(), and a handler of one of   *)
(* the session's announcements may call the next command before the code   *)
(* that announced has gone on.  calls is the call stack: its head is the   *)
(* call that runs next, the rest what returns to it, and the event loop    *)
(* delivers something new only when it is empty.                           *)
(*                                                                         *)
(* The session is the caller: it owns the microphone, and calls pause(),   *)
(* resume() and stop(), announces the new state, then calls proceed().     *)
(* The transcribers and the preparation worker are the environment.        *)
(***************************************************************************)
EXTENDS Naturals, Sequences, FiniteSets

CONSTANTS
    Providers,      \* how many speech providers the chain has
    Reconnects,     \* kReconnectsPerProvider
    HoldBudget,     \* kMaxPendingAudioBytes, in audio chunks
    MaxAttempts,    \* bound: the attempt ids a behaviour may use up
    MaxChunks,      \* bound: the audio chunks a session hears
    MaxNesting,     \* bound: how deep handlers may call the session
    Quirks          \* what providers and handlers may do beyond the ordinary

\* failsPaused: a provider fails from inside startAttempt() or sendAudio()
\*   while the session is paused, or while a paused attempt still counts as
\*   finishing.
\* completesStarting: a provider ends its stream cleanly while the
\*   microphone still starts.
\* actsRetiring: a handler of the partial a switch commits calls the session.
\* The code breaks under each; the runs that pass leave all three out.
AllQuirks == {"failsPaused", "completesStarting", "actsRetiring"}

ASSUME ProvidersAssumption == Providers \in Nat \ {0}
ASSUME ReconnectsAssumption == Reconnects \in Nat
ASSUME HoldBudgetAssumption == HoldBudget \in Nat
ASSUME BoundsAssumption == /\ MaxAttempts \in Nat
                           /\ MaxChunks \in Nat
                           /\ MaxNesting \in Nat
ASSUME QuirksAssumption == Quirks \subseteq AllQuirks

VARIABLES
    phase,               \* m_phase
    settings,            \* whether m_settings holds the session's settings
    between,             \* m_between
    microphoneStarting,
    microphoneStopped,
    noAttemptToFinish,
    finishOwed,
    openOwed,
    emptyResumedAttempt,
    retiredAttempt,
    attempts,            \* m_attempts: its id, transcriber and reconnects
    chain,               \* the chain: provider index, preparation running
    calls,               \* the call stack
    microphone,          \* the session's microphone may deliver audio
    provider,            \* attempts the providers still run, and those told
    audio,               \* chunks the speech took, and the last handed over
    partial              \* whether the transcript shows words not yet final

speechVars == <<phase, settings, between>>
flagVars == <<microphoneStarting, microphoneStopped, noAttemptToFinish,
              finishOwed, openOwed>>
resumeVars == <<emptyResumedAttempt, retiredAttempt>>
providerVars == <<attempts, chain, provider>>
heardVars == <<audio, partial>>
vars == <<phase, settings, between, microphoneStarting, microphoneStopped,
          noAttemptToFinish, finishOwed, openOwed, emptyResumedAttempt,
          retiredAttempt, attempts, chain, calls, microphone, provider, audio,
          partial>>

Phases == {"Idle", "Starting", "Listening", "Paused", "Stopping"}

\* Why an attempt failed, as far as the speech tells failures apart: a stream
\* that dropped (retryable, while streaming), a failure another provider may
\* make up for, and one none may.
Failures == {"dropped", "refused", "broken"}

permitsProviderFallback(failure) == failure # "broken"

\* What is on the call stack: calls to the provider, the loops and tails of
\* the speech's own functions, and what the session does around them.
Labels == {"startAttempt", "sendAudio", "finishInput",
           "committed", "retire", "switch", "walk",
           "sendHeldAudio", "endInput", "finishPaused", "endHeld", "markEmpty",
           "openedFirst", "readyFirst", "proceedListening", "proceedStopping",
           "end", "proceed", "startMicrophone", "stopMicrophone",
           "handlers", "sessionEnds", "overtaken"}

Frames == [at: Labels, arg: Nat]
Call(label) == [at |-> label, arg |-> 0]
CallWith(label, n) == [at |-> label, arg |-> n]

-----------------------------------------------------------------------------
(* The call stack.                                                         *)

Running(label) == calls # <<>> /\ Head(calls).at = label

\* The running call returns, or goes on as the calls in frames.
Return == calls' = Tail(calls)
GoOn(frames) == calls' = frames \o Tail(calls)

\* A handler runs, or the event loop is free.
Free == calls = <<>>
Handling == /\ calls # <<>>
            /\ Head(calls).at = "handlers"
            /\ Len(calls) <= MaxNesting

\* Announcing a state moves m_step on: the code that announced an earlier one
\* and waits below finds its step is past, and returns.
Overtaken(stack) ==
    [i \in DOMAIN stack |->
        IF stack[i].at \in {"proceed", "startMicrophone", "stopMicrophone"}
        THEN Call("overtaken") ELSE stack[i]]

ReturnOvertaken ==
    /\ Running("overtaken")
    /\ Return
    /\ UNCHANGED <<speechVars, flagVars, resumeVars, attempts, chain,
                   microphone, provider, heardVars>>

-----------------------------------------------------------------------------
(* BetweenAttempts.                                                        *)

Betweens == [finishingPausedAttempt: BOOLEAN, endedDuringStop: BOOLEAN,
             awaitingProvider: BOOLEAN, heldPastTheBudget: BOOLEAN,
             inputEnded: BOOLEAN, held: Seq(Nat)]

NoBetween == [finishingPausedAttempt |-> FALSE, endedDuringStop |-> FALSE,
              awaitingProvider |-> FALSE, heldPastTheBudget |-> FALSE,
              inputEnded |-> FALSE, held |-> <<>>]

\* Mutant: audio heard while a paused attempt finishes is not held.
HoldsAudioButFinishing ==
    \/ between.endedDuringStop
    \/ between.awaitingProvider
    \/ between.held # <<>>

holdsAudio ==
    \/ between.finishingPausedAttempt
    \/ between.endedDuringStop
    \/ between.awaitingProvider
    \/ between.inputEnded
    \/ between.held # <<>>

Attempts == [id: Nat, transcriber: BOOLEAN, reconnects: Nat]

Init ==
    /\ phase = "Idle"
    /\ settings = FALSE
    /\ between = NoBetween
    /\ microphoneStarting = FALSE
    /\ microphoneStopped = FALSE
    /\ noAttemptToFinish = FALSE
    /\ finishOwed = FALSE
    /\ openOwed = FALSE
    /\ emptyResumedAttempt = 0
    /\ retiredAttempt = 0
    /\ attempts = [id |-> 0, transcriber |-> FALSE, reconnects |-> 0]
    /\ chain = [index |-> 1, preparing |-> FALSE]
    /\ calls = <<>>
    /\ microphone = FALSE
    /\ provider = [open |-> {}, told |-> {}]
    /\ audio = [heard |-> 0, given |-> 0]
    /\ partial = FALSE
-----------------------------------------------------------------------------
(* Opening an attempt, ending the speech.                                  *)

\* Mutant: opening an attempt resets all of m_between.
OpenAttemptForgetting(b, a, rest) ==
    /\ between' = NoBetween
    /\ attempts' = [a EXCEPT !.id = @ + 1]
    /\ calls' = <<Call("startAttempt"), CallWith("committed", a.id + 1)>> \o rest

\* SpeechAttempts::startAttempt: the next id is current before the provider
\* hears of it; the partial the last attempt left is committed after.
OpenAttempt(b, a, rest) ==
    /\ between' = [b EXCEPT !.inputEnded = FALSE]
    /\ attempts' = [a EXCEPT !.id = @ + 1]
    /\ calls' = <<Call("startAttempt"), CallWith("committed", a.id + 1)>> \o rest

resumeAttempt(b, a, rest) ==
    OpenAttempt(b, a, <<Call("sendHeldAudio")>> \o rest)

openFirstAttempt(b, a, rest) ==
    OpenAttempt(b, a, <<CallWith("openedFirst", a.id + 1)>> \o rest)

endInput == <<Call("sendHeldAudio"), Call("endInput")>>

\* A signal that ends the speech: the session shuts its microphone, may cancel
\* the speech, and announces the state that follows.
EndByFailure(b, rest) ==
    /\ phase' = "Idle"
    /\ between' = b
    /\ microphone' = FALSE
    /\ calls' = <<Call("sessionEnds"), Call("handlers")>> \o Overtaken(rest)

exhaust(rest) ==
    EndByFailure([between EXCEPT !.awaitingProvider = FALSE, !.held = <<>>], rest)

endedWhileStopping(b, rest) ==
    IF microphoneStopped
    THEN between' = b /\ calls' = <<Call("end")>> \o rest
    ELSE between' = [b EXCEPT !.endedDuringStop = TRUE] /\ calls' = rest

\* retireAttempt() commits the partial before the transcriber is let go.
switchProvider(b, rest) ==
    /\ between' = [b EXCEPT !.awaitingProvider = TRUE]
    /\ calls' = <<Call("retire"), Call("switch")>> \o rest

-----------------------------------------------------------------------------
(* What the attempts and the chain report.  rest is what is still to run   *)
(* of the code the report came from.                                       *)

WithReconnects(n) == [attempts EXCEPT !.reconnects = n]

fallbackRemains(failure) ==
    permitsProviderFallback(failure) /\ chain.index < Providers

\* Mutant: a stopping session, too, goes on with another provider.
PassesOverStopping(failure) ==
    phase \in {"Starting", "Listening", "Stopping"} /\ fallbackRemains(failure)

passesOver(failure) ==
    phase \in {"Starting", "Listening"} /\ fallbackRemains(failure)

handleFailure(failure, offline, stable, rest) ==
    LET paused == between.finishingPausedAttempt
        ended == [between EXCEPT !.finishingPausedAttempt = FALSE]
        attemptNeeded == phase # "Stopping" \/ between.held # <<>>
        turnedAway == /\ paused /\ attemptNeeded /\ fallbackRemains(failure)
                      /\ (failure # "dropped" \/ offline)
        \* A paused attempt's end settles most cases; offline while listening
        \* it goes on as any other failure.
        settled == /\ paused /\ ~turnedAway
                   /\ \/ phase \in {"Paused", "Stopping"}
                      \/ phase = "Listening" /\ ~offline
        reconnectsLeft == IF stable THEN Reconnects ELSE attempts.reconnects
        reconnects == /\ phase = "Listening" /\ settings /\ ~offline
                      /\ failure = "dropped" /\ reconnectsLeft > 0
        counts == phase \in {"Starting", "Listening", "Stopping"}
        passedOver == passesOver(failure)
    IN
    \/ /\ turnedAway
       /\ switchProvider(ended, rest)
       /\ UNCHANGED <<phase, microphone, attempts>>
    \/ /\ settled
       /\ CASE phase = "Listening" -> resumeAttempt(ended, attempts, rest)
            [] phase = "Stopping"  -> endedWhileStopping(ended, rest)
                                      /\ UNCHANGED attempts
            [] phase = "Paused"    -> between' = ended /\ calls' = rest
                                      /\ UNCHANGED attempts
       /\ UNCHANGED <<phase, microphone>>
    \/ /\ ~turnedAway /\ ~settled /\ ~counts
       /\ between' = ended /\ calls' = rest
       /\ UNCHANGED <<phase, microphone, attempts>>
    \/ /\ ~turnedAway /\ ~settled /\ reconnects
       /\ resumeAttempt(ended, WithReconnects(reconnectsLeft - 1), rest)
       /\ UNCHANGED <<phase, microphone>>
    \/ /\ ~turnedAway /\ ~settled /\ ~reconnects /\ passedOver
       /\ switchProvider(ended, rest)
       /\ UNCHANGED <<phase, microphone, attempts>>
    \/ /\ ~turnedAway /\ ~settled /\ ~reconnects /\ counts /\ ~passedOver
       /\ EndByFailure(ended, rest)
       /\ UNCHANGED attempts

handleCompleted(offline, stable, rest) ==
    LET paused == between.finishingPausedAttempt
        ended == [between EXCEPT !.finishingPausedAttempt = FALSE]
    IN
    \/ /\ phase = "Stopping"
       /\ endedWhileStopping(ended, rest)
       /\ UNCHANGED <<phase, microphone, attempts>>
    \/ /\ phase = "Listening" /\ paused
       /\ resumeAttempt(ended, attempts, rest)
       /\ UNCHANGED <<phase, microphone>>
    \/ /\ phase = "Listening" /\ ~paused /\ stable    \* rollOver
       /\ resumeAttempt(ended, WithReconnects(Reconnects), rest)
       /\ UNCHANGED <<phase, microphone>>
    \/ /\ phase = "Listening" /\ ~paused /\ ~stable   \* endedTooSoon
       /\ handleFailure("dropped", offline, FALSE, rest)
    \/ /\ phase \notin {"Stopping", "Listening"}
       /\ between' = ended /\ calls' = rest
       /\ UNCHANGED <<phase, microphone, attempts>>

\* The chain's provider is ready: it has its reconnects, then takes over where
\* the session is.
takeReadyProvider(rest) ==
    LET taken == between.awaitingProvider /\ settings
        ready == [between EXCEPT !.awaitingProvider = FALSE]
        refilled == [attempts EXCEPT !.transcriber = TRUE, !.reconnects = Reconnects]
        first == phase = "Starting" /\ ~microphoneStarting
        heldForPause == phase = "Paused" /\ between.held # <<>>
    IN
    /\ UNCHANGED <<phase, microphone>>
    /\ \/ /\ ~taken
          /\ UNCHANGED between
          /\ attempts' = refilled /\ calls' = rest
       \/ /\ taken /\ first
          /\ openFirstAttempt(ready, refilled, rest)
       \/ /\ taken /\ ~first /\ phase \in {"Starting", "Listening"}
          /\ resumeAttempt(ready, refilled, rest)
       \/ /\ taken /\ heldForPause
          /\ resumeAttempt(ready, refilled, <<Call("finishPaused")>> \o rest)
       \/ /\ taken /\ ~heldForPause /\ phase \in {"Paused", "Idle"}
          /\ between' = ready /\ attempts' = refilled /\ calls' = rest
       \/ /\ taken /\ phase = "Stopping"
          /\ endedWhileStopping(ready, rest)
          /\ attempts' = refilled

-----------------------------------------------------------------------------
(* Calls to the provider.  It may report the attempt's end from inside one, *)
(* once; a report for any but the current attempt says nothing.             *)

Failing(rest) ==
    \E failure \in Failures, offline \in BOOLEAN, stable \in BOOLEAN :
        handleFailure(failure, offline, stable, rest)
Completing(rest) ==
    \E offline \in BOOLEAN, stable \in BOOLEAN :
        handleCompleted(offline, stable, rest)

\* What providers do not do, unless the quirk says they may.
Ordinary(label) ==
    /\ /\ label \in {"startAttempt", "sendAudio"}
       /\ phase = "Paused" \/ between.finishingPausedAttempt
       => "failsPaused" \in Quirks
    /\ (phase = "Listening") => (attempts.id < MaxAttempts)

\* The call is made: the provider runs the attempts in took, told those in
\* told.  It returns, or reports the attempt's end first; startAttempt() and
\* sendAudio() only ever fail.
ProviderCalled(label, took, told) ==
    /\ Running(label)
    /\ \/ /\ provider' = [open |-> provider.open \cup took,
                          told |-> provider.told \cup told]
          /\ Return
          /\ UNCHANGED <<phase, between, attempts, microphone>>
       \/ /\ attempts.id \in provider.open \cup took
          /\ Ordinary(label)
          /\ provider' = [open |-> (provider.open \cup took) \ {attempts.id},
                          told |-> provider.told \cup told]
          /\ Failing(Tail(calls))
             \/ (label = "finishInput" /\ Completing(Tail(calls)))
    /\ UNCHANGED <<settings, flagVars, resumeVars, chain>>

StartAttempt == /\ ProviderCalled("startAttempt", {attempts.id}, {})
                /\ UNCHANGED heardVars
SendAudio == /\ ProviderCalled("sendAudio", {}, {})
             /\ audio' = [audio EXCEPT !.given = Head(calls).arg]
             /\ UNCHANGED partial
FinishInput == /\ ProviderCalled("finishInput", {}, {attempts.id})
               /\ UNCHANGED heardVars

\* An attempt ends by itself or because its input ended.
AttemptEnds(a) ==
    /\ Free
    /\ a \in provider.open
    /\ provider' = [provider EXCEPT !.open = @ \ {a}]
    /\ IF a = attempts.id
       THEN /\ Ordinary("itself")
            /\ \/ Failing(<<>>)
               \/ /\ phase = "Starting" => "completesStarting" \in Quirks
                  /\ Completing(<<>>)
       ELSE UNCHANGED <<phase, between, attempts, calls, microphone>>
    /\ UNCHANGED <<settings, flagVars, resumeVars, chain, heardVars>>

ProviderEnds == \E a \in provider.open : AttemptEnds(a)

\* The current attempt's text: words not yet final, or the final text that
\* takes their place.
TextArrives ==
    /\ Free
    /\ attempts.id \in provider.open /\ phase # "Idle"
    /\ partial' = ~partial
    /\ UNCHANGED <<speechVars, flagVars, resumeVars, providerVars, calls, microphone, audio>>

-----------------------------------------------------------------------------
(* The speech's own calls, as they come to the head of the stack.          *)

\* startAttempt() commits the partial the last attempt left only while the new
\* attempt is current; a handler of the text runs inside.
CommitPartial ==
    /\ Running("committed")
    /\ IF partial /\ Head(calls).arg = attempts.id
       THEN partial' = FALSE /\ GoOn(<<Call("handlers")>>)
       ELSE Return /\ UNCHANGED partial
    /\ UNCHANGED <<speechVars, flagVars, resumeVars, providerVars, microphone, audio>>

\* retireAttempt() commits what the retired attempt will never finalise.
RetireAttempt ==
    /\ Running("retire")
    /\ partial' = FALSE
    /\ GoOn(IF partial /\ "actsRetiring" \in Quirks THEN <<Call("handlers")>> ELSE <<>>)
    /\ UNCHANGED <<speechVars, flagVars, resumeVars, providerVars, microphone, audio>>

sendHeldAudio ==
    /\ Running("sendHeldAudio")
    /\ IF between.awaitingProvider \/ between.inputEnded \/ between.held = <<>>
       THEN Return /\ UNCHANGED between
       ELSE /\ between' = [between EXCEPT !.held = Tail(@)]
            /\ calls' = <<CallWith("sendAudio", Head(between.held))>> \o calls
    /\ UNCHANGED <<phase, settings, flagVars, resumeVars, providerVars, microphone, heardVars>>

EndInput ==
    /\ Running("endInput")
    /\ IF between.awaitingProvider \/ between.inputEnded
       THEN Return /\ UNCHANGED between
       ELSE /\ between' = [between EXCEPT !.inputEnded = TRUE]
            /\ GoOn(<<Call("finishInput")>>)
    /\ UNCHANGED <<phase, settings, flagVars, resumeVars, providerVars, microphone, heardVars>>

\* takeReadyProvider() while paused, once the held audio went out.
FinishPaused ==
    /\ Running("finishPaused")
    /\ IF between.awaitingProvider
       THEN Return /\ UNCHANGED between
       ELSE /\ between' = [between EXCEPT !.finishingPausedAttempt = TRUE]
            /\ GoOn(endInput)
    /\ UNCHANGED <<phase, settings, flagVars, resumeVars, providerVars, microphone, heardVars>>

OpenedFirst ==
    /\ Running("openedFirst")
    /\ IF Head(calls).arg # attempts.id THEN Return
       ELSE GoOn(<<Call("sendHeldAudio"), CallWith("readyFirst", attempts.id)>>)
    /\ UNCHANGED <<speechVars, flagVars, resumeVars, providerVars, microphone, heardVars>>

\* readyToListen(): the session starts its microphone.
ReadyToListen ==
    /\ Running("readyFirst")
    /\ IF phase # "Starting" \/ Head(calls).arg # attempts.id
       THEN UNCHANGED <<microphoneStarting, microphone>>
       ELSE microphoneStarting' = TRUE /\ microphone' = TRUE
    /\ Return
    /\ UNCHANGED <<speechVars, microphoneStopped, noAttemptToFinish, finishOwed,
                   openOwed, resumeVars, providerVars, heardVars>>

MarkEmpty ==
    /\ Running("markEmpty")
    /\ emptyResumedAttempt' = attempts.id
    /\ Return
    /\ UNCHANGED <<speechVars, flagVars, retiredAttempt, providerVars, microphone, heardVars>>

\* Mutant: the speech ends with audio still held.
EndWithAudioHeld ==
    /\ Running("end")
    /\ IF between.awaitingProvider
       THEN Return /\ UNCHANGED phase
       ELSE phase' = "Idle" /\ calls' = <<Call("handlers")>> \o Overtaken(Tail(calls))
    /\ UNCHANGED <<settings, between, flagVars, resumeVars, providerVars, microphone, heardVars>>

\* end(): held audio gets an attempt of its own, then ended().
End ==
    /\ Running("end")
    /\ \/ /\ between.awaitingProvider
          /\ Return
          /\ UNCHANGED <<phase, between, attempts>>
       \/ /\ ~between.awaitingProvider /\ between.held # <<>>
          /\ resumeAttempt(between, attempts, <<Call("endHeld")>> \o Tail(calls))
          /\ UNCHANGED phase
       \/ /\ ~between.awaitingProvider /\ between.held = <<>>
          /\ phase' = "Idle"
          /\ calls' = <<Call("handlers")>> \o Overtaken(Tail(calls))
          /\ UNCHANGED <<between, attempts>>
    /\ UNCHANGED <<settings, flagVars, resumeVars, chain, provider, microphone, heardVars>>

EndHeld ==
    /\ Running("endHeld")
    /\ IF between.awaitingProvider THEN Return ELSE GoOn(endInput)
    /\ UNCHANGED <<speechVars, flagVars, resumeVars, providerVars, microphone, heardVars>>

\* switchProvider() after the partial is committed: release() lets the
\* transcriber go, and the chain prepares from the next provider.
Switch ==
    /\ Running("switch")
    /\ IF attempts.transcriber
       THEN /\ attempts' = [attempts EXCEPT !.id = @ + 1, !.transcriber = FALSE]
            /\ provider' = [provider EXCEPT !.open = @ \ {attempts.id}]
       ELSE UNCHANGED <<attempts, provider>>
    /\ chain' = [index |-> chain.index + 1, preparing |-> FALSE]
    /\ GoOn(<<Call("walk")>>)
    /\ UNCHANGED <<speechVars, flagVars, resumeVars, microphone, heardVars>>

\* SpeechChain::walk() at the provider it is on: none left, one passed over
\* before or after its transcriber was taken, one that prepares off the
\* thread, one ready at once.
Walk ==
    /\ Running("walk")
    /\ \/ /\ chain.index > Providers
          /\ exhaust(Tail(calls))
          /\ UNCHANGED <<attempts, chain>>
       \/ /\ chain.index <= Providers
          /\ chain' = [chain EXCEPT !.index = @ + 1]
          /\ \E acquired \in BOOLEAN :
                attempts' = [attempts EXCEPT !.transcriber = acquired]
          /\ UNCHANGED <<phase, between, microphone, calls>>
       \/ /\ chain.index <= Providers
          /\ chain' = [chain EXCEPT !.preparing = TRUE]
          /\ attempts' = [attempts EXCEPT !.transcriber = TRUE]
          /\ Return
          /\ UNCHANGED <<phase, between, microphone>>
       \/ /\ chain.index <= Providers
          /\ takeReadyProvider(Tail(calls))
          /\ UNCHANGED chain
    /\ UNCHANGED <<settings, flagVars, resumeVars, provider, heardVars>>

\* The worker's preparation ends: the provider is ready or passed over.
finishPreparation ==
    /\ Free
    /\ chain.preparing
    /\ \/ /\ chain' = [chain EXCEPT !.preparing = FALSE]
          /\ takeReadyProvider(<<>>)
       \/ /\ chain' = [index |-> chain.index + 1, preparing |-> FALSE]
          /\ calls' = <<Call("walk")>>
          /\ UNCHANGED <<phase, between, microphone, attempts>>
    /\ UNCHANGED <<settings, flagVars, resumeVars, provider, heardVars>>

-----------------------------------------------------------------------------
(* proceed(), after the session announced the state the last command        *)
(* stands for.                                                              *)

proceed ==
    /\ Running("proceed")
    /\ finishOwed' = FALSE
    /\ GoOn((IF finishOwed /\ between.finishingPausedAttempt THEN endInput ELSE <<>>)
            \o (CASE phase = "Listening" -> <<Call("proceedListening")>>
                  [] phase = "Stopping" -> <<Call("proceedStopping")>>
                  [] OTHER -> <<>>))
    /\ UNCHANGED <<speechVars, microphoneStarting, microphoneStopped, noAttemptToFinish,
                   openOwed, resumeVars, providerVars, microphone, heardVars>>

ProceedListening ==
    /\ Running("proceedListening")
    /\ openOwed' = (openOwed /\ phase # "Listening")
    /\ IF /\ phase = "Listening" /\ openOwed
          /\ ~between.finishingPausedAttempt /\ ~between.awaitingProvider
       THEN resumeAttempt(between, attempts,
                          (IF between.held = <<>> THEN <<Call("markEmpty")>> ELSE <<>>)
                          \o Tail(calls))
       ELSE Return /\ UNCHANGED <<between, attempts>>
    /\ UNCHANGED <<phase, settings, microphoneStarting, microphoneStopped, noAttemptToFinish,
                   finishOwed, resumeVars, chain, provider, microphone, heardVars>>

\* Mutant: the retired attempt is forgotten, not cancelled.
WithoutRetiredForgotten == provider

\* The transcriber is told of the retired attempt, if the speech holds one.
WithoutRetired == IF attempts.transcriber /\ retiredAttempt # 0
                  THEN [provider EXCEPT !.open = @ \ {retiredAttempt}]
                  ELSE provider

finishStop ==
    /\ Running("proceedStopping")
    /\ IF phase # "Stopping" \/ microphoneStopped
       THEN /\ Return
            /\ UNCHANGED <<between, microphoneStopped, retiredAttempt, provider>>
       ELSE /\ microphoneStopped' = TRUE
            /\ retiredAttempt' = 0
            /\ provider' = WithoutRetired
            /\ between' = [between EXCEPT !.endedDuringStop = FALSE]
            /\ GoOn(IF between.endedDuringStop THEN <<Call("end")>>
                    ELSE IF between.finishingPausedAttempt \/ between.awaitingProvider
                         THEN <<>>
                    ELSE IF noAttemptToFinish THEN <<Call("end")>>
                    ELSE IF attempts.transcriber THEN endInput ELSE <<>>)
    /\ UNCHANGED <<phase, settings, microphoneStarting, noAttemptToFinish, finishOwed,
                   openOwed, emptyResumedAttempt, attempts, chain, microphone, heardVars>>

-----------------------------------------------------------------------------
(* The session's commands.  It calls them from the event loop, or from a    *)
(* handler of what the code below has just announced.                       *)

MayCall == Free \/ Handling
\* Each command announces the state it leads to, then proceeds.
Announce(frames) == calls' = <<Call("handlers")>> \o frames \o Overtaken(calls)

Begin ==
    /\ MayCall
    /\ phase = "Idle" \/ (phase = "Starting" /\ ~settings)
    /\ attempts.id < MaxAttempts
    /\ attempts' = [attempts EXCEPT !.id = @ + 1]
    /\ settings' = FALSE
    /\ between' = [NoBetween EXCEPT !.awaitingProvider = TRUE]
    /\ microphoneStarting' = FALSE
    /\ emptyResumedAttempt' = 0
    /\ retiredAttempt' = 0
    /\ finishOwed' = FALSE
    /\ openOwed' = FALSE
    /\ phase' = "Starting"
    /\ calls' = Overtaken(calls)
    /\ audio' = [heard |-> 0, given |-> 0]
    /\ partial' = FALSE
    /\ UNCHANGED <<microphoneStopped, noAttemptToFinish, chain, microphone, provider>>

\* selectProviders() and start(), once the popup showed and the target is known.
Start ==
    /\ Free
    /\ phase = "Starting" /\ ~settings
    /\ settings' = TRUE
    /\ attempts' = [attempts EXCEPT !.transcriber = TRUE]
    /\ chain' = [index |-> 1, preparing |-> FALSE]
    /\ calls' = <<Call("walk")>>
    /\ UNCHANGED <<phase, between, flagVars, resumeVars, microphone, provider, heardVars>>

listen ==
    /\ Free
    /\ microphone /\ microphoneStarting
    /\ microphoneStarting' = FALSE
    /\ phase' = IF phase = "Starting" THEN "Listening" ELSE phase
    /\ UNCHANGED <<settings, between, microphoneStopped, noAttemptToFinish, finishOwed,
                   openOwed, resumeVars, providerVars, calls, microphone, heardVars>>

\* The microphone has stopped for the pause, or never started.
pause ==
    /\ Free \/ (Handling /\ ~microphone)
    /\ phase = "Listening"
    /\ phase' = "Paused"
    /\ microphone' = FALSE
    /\ openOwed' = FALSE
    /\ IF openOwed \/ between.finishingPausedAttempt \/ between.awaitingProvider
       THEN UNCHANGED <<between, finishOwed>>
       ELSE /\ between' = [between EXCEPT !.finishingPausedAttempt = TRUE]
            /\ finishOwed' = TRUE
    /\ Announce(<<Call("proceed")>>)
    /\ UNCHANGED <<settings, microphoneStarting, microphoneStopped, noAttemptToFinish,
                   resumeVars, providerVars, heardVars>>

resume ==
    /\ MayCall
    /\ phase = "Paused" /\ settings
    /\ attempts.id < MaxAttempts
    /\ phase' = "Listening"
    /\ openOwed' = (~between.finishingPausedAttempt /\ ~between.awaitingProvider)
    /\ Announce(<<Call("proceed"), Call("startMicrophone")>>)
    /\ UNCHANGED <<settings, between, microphoneStarting, microphoneStopped,
                   noAttemptToFinish, finishOwed, resumeVars, providerVars, microphone, heardVars>>

StartMicrophone ==
    /\ Running("startMicrophone")
    /\ microphone' = TRUE
    /\ Return
    /\ UNCHANGED <<speechVars, flagVars, resumeVars, providerVars, heardVars>>

\* stop(): what the session does next depends on whether its microphone is on.
StopSpeech(b) ==
    LET letGo == phase = "Listening" /\ emptyResumedAttempt = attempts.id
    IN
    /\ phase' = "Stopping"
    /\ microphoneStopped' = FALSE
    /\ noAttemptToFinish' = (phase = "Paused" \/ openOwed)
    /\ openOwed' = (openOwed /\ phase = "Paused")
    /\ between' = [b EXCEPT !.endedDuringStop = @ \/ letGo]
    /\ retiredAttempt' = IF letGo THEN emptyResumedAttempt ELSE retiredAttempt
    /\ emptyResumedAttempt' = IF letGo THEN 0 ELSE emptyResumedAttempt
    /\ attempts' = [attempts EXCEPT !.id = IF letGo THEN @ + 1 ELSE @]
    /\ Announce(IF phase = "Paused" THEN <<Call("proceed")>>
                ELSE <<Call("stopMicrophone")>>)
    /\ UNCHANGED <<settings, microphoneStarting, finishOwed, chain, provider>>

stop ==
    /\ MayCall
    /\ phase \in {"Listening", "Paused"}
    /\ StopSpeech(between)
    /\ UNCHANGED <<microphone, heardVars>>

\* While it listens, the microphone is lost: the session stops.
MicrophoneFailed ==
    /\ Free
    /\ microphone /\ phase = "Listening"
    /\ microphone' = FALSE
    /\ StopSpeech(between)
    /\ UNCHANGED heardVars

\* Mutant: a microphone already off is waited for.
StopMicrophoneAwaited ==
    /\ Running("stopMicrophone")
    /\ Return
    /\ UNCHANGED <<speechVars, flagVars, resumeVars, providerVars, microphone, heardVars>>

\* stopMicrophone(Stopping): one already off has stopped.
StopMicrophone ==
    /\ Running("stopMicrophone")
    /\ IF phase = "Stopping" /\ ~microphone THEN GoOn(<<Call("proceed")>>) ELSE Return
    /\ UNCHANGED <<speechVars, flagVars, resumeVars, providerVars, microphone, heardVars>>

MicrophoneStopped ==
    /\ Free
    /\ phase = "Stopping" /\ microphone
    /\ microphone' = FALSE
    /\ calls' = <<Call("proceed")>>
    /\ UNCHANGED <<speechVars, flagVars, resumeVars, providerVars, heardVars>>

\* cancel(), with the session's microphone aborted.
Cancelled(stack) ==
    /\ phase' = "Idle"
    /\ settings' = FALSE
    /\ between' = NoBetween
    /\ microphoneStarting' = FALSE
    /\ finishOwed' = FALSE
    /\ openOwed' = FALSE
    /\ emptyResumedAttempt' = 0
    /\ retiredAttempt' = 0
    /\ chain' = [chain EXCEPT !.preparing = FALSE]
    /\ provider' = [provider EXCEPT !.open =
                       IF attempts.transcriber THEN @ \ {attempts.id, retiredAttempt} ELSE @]
    /\ attempts' = [attempts EXCEPT !.id = IF attempts.transcriber THEN @ + 1 ELSE @]
    /\ microphone' = FALSE
    /\ calls' = Overtaken(stack)
    /\ UNCHANGED <<microphoneStopped, noAttemptToFinish, heardVars>>

cancel ==
    /\ MayCall
    /\ phase # "Idle"
    /\ Cancelled(calls)

\* The session cancels the speech a failure ended, unless it was stopping and
\* has words.
SessionEnds ==
    /\ Running("sessionEnds")
    /\ \/ Cancelled(Tail(calls))
       \/ /\ Return
          /\ UNCHANGED <<speechVars, flagVars, resumeVars, providerVars, microphone, heardVars>>

HandlersReturn ==
    /\ Running("handlers")
    /\ Return
    /\ UNCHANGED <<speechVars, flagVars, resumeVars, providerVars, microphone, heardVars>>

\* hear(): audio goes to the open attempt, or is held for the next.  Past the
\* budget it is dropped, and the session stops; a provider still preparing
\* then is given up.
hear ==
    /\ Free
    /\ microphone /\ settings /\ phase \in {"Starting", "Listening", "Stopping"}
    /\ audio.heard < MaxChunks
    /\ UNCHANGED partial
    /\ LET chunk == audio.heard + 1
           overBudget == Len(between.held) + 1 > HoldBudget
           hold == [between EXCEPT !.held = Append(@, chunk)]
       IN
       \/ /\ ~holdsAudio /\ attempts.transcriber
          /\ emptyResumedAttempt' = 0
          /\ calls' = <<CallWith("sendAudio", chunk)>> \o calls
          /\ audio' = [audio EXCEPT !.heard = chunk]
          /\ UNCHANGED <<phase, settings, between, flagVars, retiredAttempt, providerVars,
                         microphone>>
       \/ /\ holdsAudio /\ ~between.heldPastTheBudget /\ ~overBudget
          /\ between' = hold
          /\ audio' = [audio EXCEPT !.heard = chunk]
          /\ UNCHANGED <<phase, settings, flagVars, resumeVars, providerVars, microphone, calls>>
       \/ /\ holdsAudio /\ ~between.heldPastTheBudget /\ overBudget
          /\ between.awaitingProvider
          /\ exhaust(calls)
          /\ chain' = [chain EXCEPT !.preparing = FALSE]
          /\ audio' = [audio EXCEPT !.heard = chunk]
          /\ UNCHANGED <<settings, flagVars, resumeVars, attempts, provider>>
       \/ /\ holdsAudio /\ ~between.heldPastTheBudget /\ overBudget
          /\ ~between.awaitingProvider
          /\ UNCHANGED <<microphone, heardVars>>
          /\ IF phase = "Listening"
             THEN StopSpeech([between EXCEPT !.heldPastTheBudget = TRUE])
             ELSE /\ between' = [between EXCEPT !.heldPastTheBudget = TRUE]
                  /\ UNCHANGED <<phase, settings, flagVars, resumeVars, providerVars, calls>>

-----------------------------------------------------------------------------

\* The code runs on until the event loop is free again.
Code ==
    \/ StartAttempt \/ SendAudio \/ FinishInput
    \/ CommitPartial \/ RetireAttempt \/ sendHeldAudio \/ EndInput \/ FinishPaused
    \/ OpenedFirst \/ ReadyToListen \/ MarkEmpty \/ End \/ EndHeld
    \/ Switch \/ Walk
    \/ proceed \/ ProceedListening \/ finishStop
    \/ StartMicrophone \/ StopMicrophone
    \/ SessionEnds \/ HandlersReturn \/ ReturnOvertaken

Session ==
    \/ Begin \/ Start \/ listen \/ pause \/ resume \/ stop \/ cancel \/ hear
    \/ MicrophoneFailed \/ MicrophoneStopped

Next == Code \/ Session \/ ProviderEnds \/ TextArrives \/ finishPreparation

\* The code runs; a preparation ends, a microphone asked to stop stops, and an
\* attempt told its input ended ends, for each has a timeout of its own.
AnswerTold ==
    /\ attempts.id \in provider.told
    /\ AttemptEnds(attempts.id)

Fairness ==
    /\ WF_vars(Code)
    /\ WF_vars(finishPreparation)
    /\ WF_vars(MicrophoneStopped)
    /\ WF_vars(AnswerTold)

Spec == Init /\ [][Next]_vars /\ Fairness

-----------------------------------------------------------------------------

(* The types of the variables. *)
TypeOK ==
    /\ phase \in Phases
    /\ settings \in BOOLEAN
    /\ between \in Betweens
    /\ microphoneStarting \in BOOLEAN
    /\ microphoneStopped \in BOOLEAN
    /\ noAttemptToFinish \in BOOLEAN
    /\ finishOwed \in BOOLEAN
    /\ openOwed \in BOOLEAN
    /\ emptyResumedAttempt \in Nat
    /\ retiredAttempt \in Nat
    /\ attempts \in Attempts
    /\ chain \in [index: Nat \ {0}, preparing: BOOLEAN]
    /\ calls \in Seq(Frames)
    /\ microphone \in BOOLEAN
    /\ provider \in [open: SUBSET Nat, told: SUBSET Nat]
    /\ audio \in [heard: Nat, given: Nat]
    /\ partial \in BOOLEAN

InSession == phase # "Idle"

\* The chunks taken and not yet handed over, the one on its way first.
Waiting == (IF Running("sendAudio") THEN <<Head(calls).arg>> ELSE <<>>) \o between.held

(* Through pauses, reconnects and switches, what was heard and not yet handed
   to a provider waits, all of it, in the order it was heard: hear(), hold()
   and sendHeldAudio() lose no chunk, send none twice and let none overtake
   one that waits. *)
HeldAudioInOrder ==
    InSession =>
        /\ audio.heard = audio.given + Len(Waiting)
        /\ \A i \in 1..Len(Waiting) : Waiting[i] = audio.given + i

(* endInput() is the last a provider hears of an attempt: no audio follows it
   and no attempt is told twice, whichever handler or callback told it. *)
NothingAfterInputEnded ==
    (Running("sendAudio") \/ Running("finishInput")) /\ InSession =>
        attempts.id \notin provider.told

(* startAttempt(), sendAudio() and finishInput() call a transcriber the speech
   holds: retireAttempt() let go of none that a caller below still uses. *)
TranscriberHeld ==
    Running("startAttempt") \/ Running("sendAudio") \/ Running("finishInput") =>
        attempts.transcriber

(* Nothing runs on unseen.  Every attempt a provider still runs is the current
   one, or the empty one a stop let go and will cancel; and once the speech has
   ended, failed or been cancelled, its microphone is off, no preparation runs
   and no attempt is open. *)
NothingRunsUnseen ==
    Free => /\ provider.open \subseteq {attempts.id, retiredAttempt}
            /\ phase = "Idle" => /\ ~microphone /\ ~chain.preparing
                                 /\ attempts.id \notin provider.open

(* ended() follows a stop once the words are in, unless a failure or a cancel
   ends the speech first. *)
StopEnds == (phase = "Stopping") ~> (phase # "Stopping")

(* What the speech promises its session. *)
Promise == INSTANCE SpeechContract
               WITH asked <- microphoneStarting, failing <- Running("sessionEnds"),
                    heard <- audio.heard, given <- audio.given
KeepsPromise == Promise!Spec
=============================================================================
