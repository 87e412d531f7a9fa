--------------------------- MODULE RecordingStream ---------------------------
(***************************************************************************)
(* One input of a recording: RecordingStream with the SpeechStream that    *)
(* keeps its audio, the SpeechAttempts it opens and the SpeechChain it     *)
(* walks, and the utterances the RecordingSession marks in it.             *)
(*                                                                         *)
(* Audio is counted in units from the start of the input, so a position is *)
(* a number and what is kept lies between two of them.  The hard part is   *)
(* which audio and which marks each attempt gets, when attempts drop,      *)
(* reconnect, roll over, wait for a sign-in and hand over to another       *)
(* provider, while the input runs, stops or fails.                         *)
(*                                                                         *)
(* calls is the call stack, as in DictationSpeech: a provider may end an   *)
(* attempt from inside startAttempt(), sendAudio() or finishInput().       *)
(* Whether an attempt is still the current one is all its id is asked, so  *)
(* the calls that ask it are overtaken when the id moves on: they return.  *)
(***************************************************************************)
EXTENDS Naturals, Sequences, SequencesExt, FiniteSets

CONSTANTS
    Providers,      \* how many speech providers the chain has
    Renewers,       \* the ones whose sign-in can be renewed
    Reconnects,     \* kReconnectsPerProvider
    Chunk,          \* kSpeechChunkBytes, in units of audio
    MostKept,       \* kMostKeptBytes, in units of audio
    Pauses,         \* how many kReconnectDelaysMs there are
    MaxHeard,       \* bound: the audio a recording hears
    MaxMarks,       \* bound: utterance marks waiting at once
    MaxAttempts     \* bound: the attempts a recording opens

ASSUME StreamProvidersAssumption ==
    Providers \in Nat \ {0} /\ Renewers \subseteq 1..Providers /\ Reconnects \in Nat
ASSUME StreamSizesAssumption == /\ Chunk \in Nat \ {0}
                                /\ MostKept \in Nat \ {0}
                                /\ Pauses \in Nat \ {0}
ASSUME StreamBoundsAssumption ==
    MaxHeard \in Nat /\ MaxMarks \in Nat /\ MaxAttempts \in Nat

VARIABLES
    running,         \* m_running
    input,           \* m_inputState
    reconnectTimer,  \* m_reconnectTimer runs
    delay,           \* m_reconnectDelayIndex
    signInRefused,   \* m_signInRefused
    utterance,       \* the RecordingSession has an utterance open
    stream,          \* the SpeechStream: its audio, marks and flags
    attempts,        \* the SpeechAttempts, and whether the provider runs one
    chain,           \* the SpeechChain: provider index and worker job
    calls,           \* the call stack
    seen             \* for the properties: the audio a service has, and
                     \* whether a pause came after the last attempt

waitVars == <<reconnectTimer, delay, signInRefused>>
vars == <<running, input, reconnectTimer, delay, signInRefused, utterance,
          stream, attempts, chain, calls, seen>>

Larger(a, b) == IF a >= b THEN a ELSE b
Smaller(a, b) == IF a <= b THEN a ELSE b

-----------------------------------------------------------------------------
(* The audio and its marks.                                                  *)

Marks == [position: Nat, begins: BOOLEAN]

NoAudio == [heard |-> 0, dropped |-> 0, sent |-> 0, attemptStart |-> 0,
            marks |-> <<>>, nextMark |-> 1, inputEnded |-> FALSE,
            inputFinished |-> FALSE, streaming |-> FALSE, sending |-> FALSE]

\* Marks are in order of position.
marksBefore(s, position) ==
    Cardinality({i \in DOMAIN s.marks : s.marks[i].position < position})

\* Each mark goes once the audio before it was sent.
markUtterancesOnceSent(s) ==
    IF s.streaming
    THEN [s EXCEPT !.nextMark = Larger(@, 1 + marksBefore(s, s.sent + 1))]
    ELSE s

rewindTo(s, position) ==
    [s EXCEPT !.sent = position, !.nextMark = 1 + marksBefore(s, position)]

\* Mutant: audio past the most that is kept goes without its marks.
ForgetAudioOnly(s, position) ==
    [s EXCEPT !.dropped = position, !.sent = Larger(@, position)]

forgetAudioBefore(s, position) ==
    LET passed == marksBefore(s, position) IN
    [s EXCEPT !.dropped = position,
              !.sent = Larger(@, position),
              !.marks = SubSeq(@, passed + 1, Len(@)),
              !.nextMark = IF @ > passed THEN @ - passed ELSE 1]

keepAudioBounded(s) ==
    IF s.heard - s.dropped > MostKept
    THEN forgetAudioBefore(s, s.heard - MostKept)
    ELSE s

append(s) ==
    LET kept == keepAudioBounded([s EXCEPT !.heard = @ + 1])
    IN  [kept EXCEPT !.sending = @ \/ s.streaming]

\* A begin never goes before the mark ahead of it.
beginUtterance(s) ==
    LET lead == s.heard - 1
        position == IF s.marks = <<>> THEN lead ELSE Larger(lead, Last(s.marks).position)
    IN  markUtterancesOnceSent(
            [s EXCEPT !.marks = Append(@, [position |-> position, begins |-> TRUE])])

\* Mutant: an utterance ends after its provider was told the input ended.
EndUtteranceAnyway(s) ==
    markUtterancesOnceSent(
        [s EXCEPT !.marks = Append(@, [position |-> s.heard, begins |-> FALSE])])

endUtterance(s) ==
    IF s.inputFinished THEN s
    ELSE markUtterancesOnceSent(
             [s EXCEPT !.marks = Append(@, [position |-> s.heard, begins |-> FALSE])])

hold(s) == [s EXCEPT !.streaming = FALSE, !.sending = FALSE]

\* Mutant: what a connected attempt was sent is sent again.
DropAttemptAgain(s) == rewindTo(hold(s), Larger(s.attemptStart, s.dropped))

\* dropAttempt(): audio it was sent before it connected is sent again.
dropAttempt(s) ==
    IF attempts.connected THEN hold(s)
    ELSE rewindTo(hold(s), Larger(s.attemptStart, s.dropped))

\* Mutant: audio is let go before the attempt has connected.
LetGoSent(s) == forgetAudioBefore(s, s.sent)

\* Once an attempt has connected, what it was sent is never needed again.
letGo(s) == IF attempts.connected THEN forgetAudioBefore(s, s.sent) ELSE s

\* Mutant: the input ends without the send timer hearing of it.
EndInputQuietly(s) == [s EXCEPT !.inputEnded = TRUE]

endInput(s) == [s EXCEPT !.inputEnded = TRUE, !.sending = @ \/ s.streaming]

-----------------------------------------------------------------------------
(* The call stack.                                                           *)

ProviderCalls == {"startAttempt", "sendAudio", "finishInput"}
Frames == ProviderCalls \cup
          {"beginStreamed", "resumed", "chunkSent", "listeningFinished", "overtaken"}

\* What asks whether its attempt is still the current one.
AttemptGuarded == {"beginStreamed", "chunkSent"}

Overtaken(stack) ==
    [i \in DOMAIN stack |-> IF stack[i] \in AttemptGuarded THEN "overtaken" ELSE stack[i]]

Running(f) == calls # <<>> /\ Head(calls) = f
Return == calls' = Tail(calls)
Free == calls = <<>>

-----------------------------------------------------------------------------
(* Attempts.                                                                 *)

NoAttempt == [live |-> FALSE, opened |-> 0, made |-> 0,
              providerConnected |-> FALSE, connected |-> FALSE, sentAudio |-> FALSE,
              stable |-> FALSE, reconnects |-> 0]

\* What providers fail with: no connection, a stream refused before or after
\* it opened, a sign-in turned down, a stream that drops, anything else.
Unreachable == [phase |-> "Connect", retryable |-> TRUE, kind |-> "Network"]
Declined == [phase |-> "Connect", retryable |-> FALSE, kind |-> "RateLimited"]
Unauthorized == [phase |-> "Authentication", retryable |-> FALSE, kind |-> "Authentication"]
Dropped == [phase |-> "Streaming", retryable |-> TRUE, kind |-> "Network"]
Broken == [phase |-> "Protocol", retryable |-> FALSE, kind |-> "Other"]
Failures == {Unreachable, Declined, Unauthorized, Dropped, Broken}

permitsProviderFallback(kind) == kind # "Other"

\* The caller goes on with the frames in then, once the provider returned.
OpenAttempt(s, a, then, stack) ==
    /\ stream' = [s EXCEPT !.attemptStart = s.sent]
    /\ attempts' = [a EXCEPT !.live = TRUE, !.opened = @ + 1, !.made = Smaller(@ + 1, 2),
                             !.connected = FALSE, !.sentAudio = FALSE, !.stable = FALSE]
    /\ calls' = <<"startAttempt">> \o then \o Overtaken(stack)
    /\ seen' = [seen EXCEPT !.waited = FALSE]

\* finish() and cancel(): everything running stops and the audio is let go.
finishAt(i, stack) ==
    /\ running' = FALSE
    /\ input' = "Off"
    /\ reconnectTimer' = FALSE
    /\ signInRefused' = FALSE
    /\ utterance' = FALSE
    /\ stream' = [hold(stream) EXCEPT !.heard = 0, !.dropped = 0]
    /\ attempts' = [attempts EXCEPT !.live = FALSE]
    /\ chain' = [index |-> i, job |-> "none"]
    /\ calls' = Overtaken(stack)
    /\ UNCHANGED <<delay, seen>>

finish(stack) == finishAt(chain.index, stack)

\* walk(): the first provider from i on that can take the audio prepares on
\* the worker; without one the stream has failed.
walk(i, state, s, stack) ==
    \/ \E j \in i..Providers :
          /\ chain' = [index |-> j, job |-> "preparing"]
          /\ attempts' = [attempts EXCEPT !.live = FALSE]
          /\ stream' = s
          /\ input' = state
          /\ calls' = Overtaken(stack)
          /\ UNCHANGED <<running, utterance, waitVars, seen>>
    \/ finishAt(Providers + 1, stack)

\* The next attempt on the same transcriber takes the audio from here on.
startNextAttempt(s, a, then, stack) ==
    /\ OpenAttempt(s, a, then, stack)
    /\ UNCHANGED <<running, utterance, chain>>

resume(s, a, stack) ==
    startNextAttempt([s EXCEPT !.streaming = TRUE], a, <<"resumed">>, stack)

\* reconnect(): the next attempt, once a sign-in that is due or was turned
\* down is renewed.
reconnect(s, a, stack) ==
    \/ /\ chain.index \in Renewers
       /\ chain' = [chain EXCEPT !.job = "renewing"]
       /\ stream' = hold(s)
       /\ attempts' = a
       /\ calls' = stack
       /\ UNCHANGED <<running, utterance, seen>>
    \/ /\ ~signInRefused
       /\ resume(s, a, stack)

-----------------------------------------------------------------------------
(* Failures and completions.                                                 *)

attemptWasHealthy == attempts.connected /\ attempts.stable

\* The last pause repeats.
nextDelay(i) == Smaller(i + 1, Pauses - 1)

waitToReconnect(stack) ==
    /\ stream' = dropAttempt(stream)
    /\ attempts' = [attempts EXCEPT !.live = FALSE]
    /\ delay' = nextDelay(IF attemptWasHealthy THEN 0 ELSE delay)
    /\ reconnectTimer' = TRUE
    /\ seen' = [seen EXCEPT !.waited = TRUE]
    /\ calls' = Overtaken(stack)
    /\ UNCHANGED <<running, input, utterance>>

\* A sign-in that may only have expired is renewed once.
firstRefusal(f) ==
    f.kind = "Authentication" /\ chain.index \in Renewers /\ ~signInRefused

reconnectsLater(f) ==
    /\ attempts.providerConnected
    /\ input = "Listening"
    /\ f.retryable \/ firstRefusal(f)

nothingReachedService(f) ==
    /\ attempts.made = 1
    /\ ~attempts.connected
    /\ ~attempts.sentAudio \/ f.phase = "Connect"

fallbackRemains(f) == permitsProviderFallback(f.kind) /\ chain.index < Providers

\* refillIfAttemptWasStable()
reconnectsLeft == IF attempts.stable THEN Reconnects ELSE attempts.reconnects

takesReconnect(f) == f.retryable /\ f.phase = "Streaming" /\ reconnectsLeft > 0

handleFailure(f, stack) ==
    IF reconnectsLater(f) THEN
        /\ waitToReconnect(stack)
        /\ signInRefused' = (signInRefused \/ firstRefusal(f))
        /\ chain' = [chain EXCEPT !.job = "none"]
    ELSE IF nothingReachedService(f) /\ fallbackRemains(f) THEN
        walk(chain.index + 1, input, hold(stream), stack)
    ELSE IF ~stream.inputFinished /\ takesReconnect(f) THEN
        /\ startNextAttempt(stream, [attempts EXCEPT !.reconnects = reconnectsLeft - 1], <<>>, stack)
        /\ UNCHANGED <<waitVars, input>>
    ELSE finish(stack)

\* A provider may end an attempt while the event loop runs, or inside a call
\* to it.
MayReport == attempts.live /\ (Free \/ \E f \in ProviderCalls : Running(f))

MayEnd ==
    /\ MayReport
    /\ attempts.opened < MaxAttempts \/ stream.inputFinished

\* Only an attempt that has not connected fails to, and only one that has
\* drops.
Fails(f) ==
    /\ MayEnd
    /\ f.phase = "Connect" \/ Running("startAttempt") => ~attempts.connected
    /\ f.phase = "Streaming" => attempts.connected
    /\ handleFailure(f, calls)

AttemptFails == \E f \in Failures : Fails(f)

\* One that ends before its input rolls over when it was healthy.
AttemptCompletes ==
    /\ MayEnd
    /\ stream.inputFinished \/ (attempts.connected /\ ~Running("startAttempt"))
    /\ IF stream.inputFinished THEN finish(calls)
       ELSE IF attempts.stable THEN
           /\ reconnect(stream, [attempts EXCEPT !.live = FALSE, !.reconnects = Reconnects], calls)
           /\ UNCHANGED <<waitVars, input>>
       ELSE handleFailure(Dropped, calls)

\* markConnected(): the service accepted the attempt, with what it was sent.
AttemptConnects ==
    /\ MayReport /\ ~attempts.connected
    /\ attempts' = [attempts EXCEPT !.connected = TRUE, !.providerConnected = TRUE]
    /\ signInRefused' = FALSE
    /\ seen' = [seen EXCEPT !.reached = stream.sent]
    /\ UNCHANGED <<running, input, reconnectTimer, delay, utterance, stream, chain, calls>>

\* The clock of the last attempt runs on, whatever became of it.
AttemptAges ==
    /\ Free /\ running /\ attempts.opened > 0 /\ ~attempts.stable
    /\ attempts' = [attempts EXCEPT !.stable = TRUE]
    /\ UNCHANGED <<running, input, waitVars, utterance, stream, chain, calls, seen>>

-----------------------------------------------------------------------------
(* The worker's reports.                                                     *)

\* finishPreparation(): ready() begins the streaming from the oldest audio
\* kept; a failure goes on to the next provider.
beginStreaming ==
    /\ OpenAttempt([rewindTo(stream, stream.dropped) EXCEPT !.inputFinished = FALSE],
                   [attempts EXCEPT !.reconnects = Reconnects, !.made = 0,
                                    !.providerConnected = FALSE],
                   <<"beginStreamed">>, <<>>)
    /\ chain' = [chain EXCEPT !.job = "none"]
    /\ delay' = 0
    /\ UNCHANGED <<running, input, reconnectTimer, signInRefused, utterance>>

PreparationEnds ==
    /\ Free
    /\ chain.job = "preparing"
    /\ beginStreaming \/ walk(chain.index + 1, input, stream, <<>>)

\* handleSignInRenewed(): a renewal that failed fails the stream it was for.
RenewalFailures == {Unreachable, [Unauthorized EXCEPT !.phase = "Connect"]}

SignInRenewed ==
    /\ Free
    /\ chain.job = "renewing"
    /\ \/ /\ OpenAttempt([stream EXCEPT !.streaming = TRUE], attempts, <<"resumed">>, <<>>)
          /\ chain' = [chain EXCEPT !.job = "none"]
          /\ UNCHANGED <<running, input, utterance, waitVars>>
       \/ \E f \in RenewalFailures : handleFailure(f, <<>>)

-----------------------------------------------------------------------------
(* The timers.                                                               *)

ReconnectPauseEnds ==
    /\ Free
    /\ reconnectTimer
    /\ reconnectTimer' = FALSE
    /\ reconnect(stream, attempts, <<>>)
    /\ UNCHANGED <<input, delay, signInRefused>>

\* A send stops at the next utterance mark, which follows it at once.
chunkOf(s) ==
    LET toHeard == Smaller(Chunk, s.heard - s.sent)
    IN  IF s.nextMark <= Len(s.marks)
        THEN Smaller(toHeard, s.marks[s.nextMark].position - s.sent)
        ELSE toHeard

sendNextChunk ==
    LET s == markUtterancesOnceSent(stream) IN
    /\ Free
    /\ stream.sending
    /\ IF s.sent < s.heard
       THEN /\ stream' = [s EXCEPT !.sent = @ + chunkOf(s)]
            /\ attempts' = [attempts EXCEPT !.sentAudio = TRUE]
            /\ seen' = [seen EXCEPT !.reached = IF attempts.connected THEN stream'.sent ELSE @]
            /\ calls' = <<"sendAudio", "chunkSent">>
       ELSE /\ stream' = [s EXCEPT !.sending = FALSE, !.inputFinished = s.inputEnded]
            /\ calls' = IF s.inputEnded THEN <<"finishInput">> ELSE <<>>
            /\ UNCHANGED <<attempts, seen>>
    /\ UNCHANGED <<running, input, waitVars, utterance, chain>>

\* A pause in the speech, or an utterance too long, ends it.
EndUtterance ==
    /\ Free
    /\ utterance
    /\ utterance' = FALSE
    /\ stream' = endUtterance(stream)
    /\ UNCHANGED <<running, input, waitVars, attempts, chain, calls, seen>>

-----------------------------------------------------------------------------
(* Calls that return.                                                        *)

returns ==
    /\ calls # <<>> /\ Head(calls) \in ProviderCalls \cup {"overtaken"}
    /\ Return
    /\ UNCHANGED <<running, input, waitVars, utterance, stream, attempts, chain, seen>>

beginStreamed ==
    /\ Running("beginStreamed")
    /\ stream' = [stream EXCEPT !.streaming = TRUE, !.sending = TRUE]
    /\ Return
    /\ UNCHANGED <<running, input, waitVars, utterance, attempts, chain, seen>>

resumed ==
    /\ Running("resumed")
    /\ stream' = [stream EXCEPT !.sending = @ \/ stream.streaming]
    /\ Return
    /\ UNCHANGED <<running, input, waitVars, utterance, attempts, chain, seen>>

chunkSent ==
    /\ Running("chunkSent")
    /\ stream' = letGo(markUtterancesOnceSent(stream))
    /\ Return
    /\ UNCHANGED <<running, input, waitVars, utterance, attempts, chain, seen>>

\* The utterance being spoken ends where the input did.
listeningFinished ==
    /\ Running("listeningFinished")
    /\ utterance' = FALSE
    /\ stream' = IF utterance THEN endUtterance(stream) ELSE stream
    /\ Return
    /\ UNCHANGED <<running, input, waitVars, attempts, chain, seen>>

CallReturns ==
    returns \/ beginStreamed \/ resumed \/ chunkSent \/ listeningFinished

-----------------------------------------------------------------------------
(* The input and the recording.                                              *)

Start ==
    /\ Free /\ ~running
    /\ running' = TRUE
    /\ input' = "Starting"
    /\ utterance' = FALSE
    /\ stream' = NoAudio
    /\ attempts' = [attempts EXCEPT !.opened = 0]
    /\ seen' = [reached |-> 0, waited |-> FALSE]
    /\ UNCHANGED <<waitVars, chain, calls>>

\* The primary may turn out not to listen for the Spoken Language.
InputStarts ==
    /\ Free
    /\ input = "Starting"
    /\ walk(1, "Listening", stream, <<>>)

\* A chunk is kept for the provider, then looked at for an utterance: voice
\* begins one, and one too long ends.
InputHears ==
    /\ Free
    /\ input # "Off" /\ stream.heard < MaxHeard
    /\ \/ /\ stream' = append(stream)
          /\ UNCHANGED utterance
       \/ /\ ~utterance /\ Len(stream.marks) + 2 <= MaxMarks
          /\ stream' = beginUtterance(append(stream))
          /\ utterance' = TRUE
       \/ /\ utterance
          /\ stream' = endUtterance(append(stream))
          /\ utterance' = FALSE
    /\ UNCHANGED <<running, input, waitVars, attempts, chain, calls, seen>>

finishListening ==
    /\ Free
    /\ \/ /\ input = "Listening"
          /\ input' = "Stopping"
          /\ UNCHANGED <<running, waitVars, utterance, stream, attempts, chain, calls, seen>>
       \/ /\ input = "Starting"
          /\ finish(<<>>)

\* A stream that waits to reconnect tries once more, now, for the audio that
\* waits.
inputEnds(stack) ==
    /\ input' = "Off"
    /\ UNCHANGED <<delay, signInRefused>>
    /\ IF reconnectTimer
       THEN /\ reconnectTimer' = FALSE
            /\ reconnect(endInput(stream), attempts, stack)
       ELSE /\ stream' = endInput(stream)
            /\ calls' = stack
            /\ UNCHANGED <<running, reconnectTimer, utterance, attempts, chain, seen>>

InputStops ==
    /\ Free
    /\ input = "Stopping"
    /\ inputEnds(<<"listeningFinished">>)

\* An input that drops after it heard something still has that sent.
InputFails ==
    /\ Free
    /\ \/ /\ input = "Starting" \/ (input = "Listening" /\ stream.heard = 0)
          /\ finish(<<>>)
       \/ /\ input = "Listening" /\ stream.heard > 0
          /\ inputEnds(<<>>)

cancel ==
    /\ Free
    /\ running
    /\ finish(<<>>)

-----------------------------------------------------------------------------
Init ==
    /\ running = FALSE
    /\ input = "Off"
    /\ reconnectTimer = FALSE
    /\ delay = 0
    /\ signInRefused = FALSE
    /\ utterance = FALSE
    /\ stream = NoAudio
    /\ attempts = NoAttempt
    /\ chain = [index |-> 1, job |-> "none"]
    /\ calls = <<>>
    /\ seen = [reached |-> 0, waited |-> FALSE]

Next ==
    \/ Start \/ InputStarts \/ InputHears \/ finishListening \/ InputStops
    \/ InputFails \/ cancel
    \/ PreparationEnds \/ SignInRenewed \/ ReconnectPauseEnds \/ sendNextChunk
    \/ EndUtterance \/ CallReturns
    \/ AttemptConnects \/ AttemptAges \/ AttemptFails \/ AttemptCompletes

\* The event loop runs what is due, calls return, the worker and the input
\* report, and a provider told the input ended answers for it.
Fairness ==
    /\ WF_vars(CallReturns)
    /\ WF_vars(PreparationEnds)
    /\ WF_vars(SignInRenewed)
    /\ WF_vars(ReconnectPauseEnds)
    /\ WF_vars(sendNextChunk)
    /\ WF_vars(InputStops)
    /\ WF_vars(Free /\ stream.inputFinished /\ (AttemptFails \/ AttemptCompletes))

Spec == Init /\ [][Next]_vars /\ Fairness

-----------------------------------------------------------------------------
(* Properties.                                                               *)

\* Every variable has its type; the pause is one of kReconnectDelaysMs.
TypeOK ==
    /\ running \in BOOLEAN
    /\ input \in {"Off", "Starting", "Listening", "Stopping"}
    /\ reconnectTimer \in BOOLEAN
    /\ delay \in 0..(Pauses - 1)
    /\ signInRefused \in BOOLEAN
    /\ utterance \in BOOLEAN
    /\ stream \in [heard: 0..MaxHeard, dropped: 0..MaxHeard, sent: 0..MaxHeard,
                   attemptStart: 0..MaxHeard, marks: Seq(Marks), nextMark: Nat \ {0},
                   inputEnded: BOOLEAN, inputFinished: BOOLEAN,
                   streaming: BOOLEAN, sending: BOOLEAN]
    /\ attempts \in [live: BOOLEAN, opened: Nat, made: 0..2,
                     providerConnected: BOOLEAN, connected: BOOLEAN, sentAudio: BOOLEAN,
                     stable: BOOLEAN, reconnects: 0..Reconnects]
    /\ chain \in [index: 1..(Providers + 1), job: {"none", "preparing", "renewing"}]
    /\ calls \in Seq(Frames)
    /\ seen \in [reached: 0..MaxHeard, waited: BOOLEAN]

\* The audio goes to one service after another without a gap or a repeat:
\* what one accepted is not sent again, through every drop, rollover and
\* hand-over (handleFailure(): "what was sent is not sent again"), and each
\* attempt takes it from no later than where the last service's ended, unless
\* the limit on what is kept pushed the rest out (dropAttempt(),
\* beginStreaming(), startNextAttempt()).
GoesOnWhereLeft ==
    /\ running => stream.sent >= seen.reached
    /\ attempts.live => stream.attemptStart <= Larger(seen.reached, stream.dropped)

\* What no service has is kept, up to kMostKeptBytes of it: a chunk is let go
\* only once its attempt connected.
KeepsUnreached ==
    running => /\ stream.heard <= stream.dropped + MostKept
               /\ stream.dropped <= seen.reached \/ stream.dropped + MostKept <= stream.heard

\* Each utterance mark goes between the audio before it and the audio after
\* it, whatever was dropped, rewound or let go meanwhile; marks stay in order.
MarksInPlace ==
    /\ \A i, j \in DOMAIN stream.marks :
          i < j => stream.marks[i].position <= stream.marks[j].position
    /\ running /\ stream.streaming =>
          \A i \in DOMAIN stream.marks :
             IF i < stream.nextMark THEN stream.marks[i].position <= stream.sent
             ELSE stream.marks[i].position >= stream.sent

\* A provider told the input ended was sent all of it and every mark, the end
\* of the last utterance too, and that attempt is told nothing more, though
\* the speech may pause once its input is gone (endUtterance()'s early return).
toldInputEnded == attempts.live /\ stream.inputFinished

ToldWhole ==
    /\ [](toldInputEnded => /\ stream.inputEnded
                            /\ stream.sent = stream.heard
                            /\ stream.nextMark > Len(stream.marks))
    /\ [][ toldInputEnded /\ toldInputEnded' =>
              UNCHANGED <<stream.sent, stream.marks>> ]_vars

\* Once the input ends, the stream finishes without a cancel: what waits is
\* sent, by another attempt or provider if need be, and answered.
StopEnds == running /\ (input = "Stopping" \/ stream.inputEnded) ~> ~running

\* "A dropped stream waits a pause, growing while it keeps failing, before it
\* reconnects" (RecordingStream.cpp:180): a pause that follows another with no
\* attempt between them is the longer one.
PauseGrows ==
    [][ reconnectTimer' /\ ~reconnectTimer /\ seen.waited
            => delay' = nextDelay(delay) ]_vars

=============================================================================
