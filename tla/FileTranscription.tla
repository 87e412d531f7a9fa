-------------------------- MODULE FileTranscription --------------------------
(***************************************************************************)
(* Transcribing files: the TranscribeQueue behind the page, and the        *)
(* FileTranscriptionSession that takes its batches, decodes each file      *)
(* twice, streams it to the speech providers and refines it.  The session  *)
(* also transcribes a microphone, for the command line.                    *)
(*                                                                         *)
(* Everything runs on one thread, yet "a handler of any signal the batch   *)
(* emits, directly or through a call, may" cancel the batch or begin       *)
(* another: each signal is a frame pushed on calls, the operations are     *)
(* possible with frames waiting, and Resume goes on below the signal.      *)
(* What comes from outside (decoder, providers, microphone) needs the      *)
(* event loop, so no frame.  SpeechStream is here by what the session      *)
(* sees of it; RecordingStream models its reconnects.                      *)
(***************************************************************************)
EXTENDS Naturals, FiniteSets, Sequences, SequencesExt

CONSTANTS
    Files,        \* the audio files there are
    Speakers,     \* how many speech providers the chain has
    Refiners,     \* how many refiners the chain has
    MostUnsent,   \* kMostUnsentBytes, in decoded buffers
    MaxBuffers,   \* bound: the buffers a file decodes to, the audio heard
    MaxBatches    \* bound: the batches begun

ASSUME ChainsAssumption == Speakers \in Nat \ {0} /\ Refiners \in Nat \ {0}
ASSUME BuffersAssumption == MostUnsent \in Nat \ {0} /\ MaxBuffers \in Nat /\ MaxBatches \in Nat

VARIABLES
    front,      \* what the session works for: the page, or the command line
    queue,      \* TranscribeQueue
    session,    \* FileTranscriptionSession
    stream,     \* its SpeechStream, and the provider the chain is on
    decoder,    \* m_decoder: the pass it runs, what it has left
    refiner,    \* the refinement chain and m_refiner
    mic,        \* m_microphone, and whether the listening was told to finish
    calls,      \* the signals being handled, innermost first
    dictating   \* a dictation runs, or waits for the microphone's grant

vars == <<front, queue, session, stream, decoder, refiner, mic, calls, dictating>>
parts == <<stream, decoder, refiner, mic>>

-----------------------------------------------------------------------------
(* Records of the state.                                                   *)

NoStream == [provider |-> "off", which |-> 1, heard |-> 0, sent |-> 0,
             ended |-> FALSE, finished |-> FALSE]
NoDecoder == [pass |-> "none", left |-> 0, ready |-> FALSE]
NoRefiner == [step |-> "none", which |-> 1]
NoSession == [running |-> FALSE, batch |-> 0, paths |-> <<>>, index |-> 0, results |-> <<>>,
              measured |-> 0, streamed |-> 0, decoded |-> FALSE, ok |-> FALSE]
NoQueue == [step |-> "Configure", files |-> <<>>, batch |-> <<>>, results |-> <<>>,
            current |-> 0, phase |-> "Reading", cancelled |-> FALSE, retrying |-> 0]
\* Nothing reads what an ended batch leaves of itself.
ended(batch) == [NoSession EXCEPT !.batch = batch]
listens == front = "listening"

current == session.paths[session.index]
unsent == stream.heard - stream.sent

\* A signal went out: its handlers, then what follows it for this batch.
frameOf(then, batch) == <<[then |-> then, batch |-> batch]>>
emits(then, below) == calls' = frameOf(then, session.batch) \o below

-----------------------------------------------------------------------------
(* The queue's slots, as they leave the queue q.                           *)

followsBatch(q) == q.step = "Transcribe" /\ q.retrying = 0

entered(q, phase) == IF followsBatch(q) THEN [q EXCEPT !.phase = phase] ELSE q
fileStarted(q, index) ==
    IF followsBatch(q) THEN [q EXCEPT !.current = index, !.phase = "Reading"] ELSE q
fileFinished(q, result) ==
    IF followsBatch(q) THEN [q EXCEPT !.results = Append(@, result)] ELSE q
batchFinished(q, results, cancelled) ==
    IF q.retrying > 0
    THEN [q EXCEPT !.retrying = 0,
                   !.results = IF results # <<>> /\ q.retrying <= Len(@)
                               THEN [@ EXCEPT ![q.retrying] = Head(results)] ELSE @]
    ELSE IF q.step # "Transcribe" THEN q
    ELSE [q EXCEPT !.current = 0, !.cancelled = cancelled,
                   !.step = IF q.results = <<>> THEN "Configure" ELSE "Export"]

-----------------------------------------------------------------------------
(* The session's own steps; below is the stack they were called from.      *)

releaseFileResources ==
    /\ stream' = NoStream
    /\ decoder' = NoDecoder
    /\ refiner' = NoRefiner
    /\ mic' = [mic EXCEPT !.state = "Off"]

finishFile(s, below) ==
    /\ session' = s
    /\ releaseFileResources
    /\ emits("released", below)

beginBatch(paths, q, below) ==
    /\ session.batch < MaxBatches
    /\ queue' = q
    /\ session' = [NoSession EXCEPT !.running = TRUE, !.batch = session.batch + 1, !.paths = paths]
    /\ stream' = NoStream /\ decoder' = NoDecoder /\ refiner' = NoRefiner
    /\ mic' = [state |-> "Off", finishFirst |-> FALSE, told |-> FALSE]
    /\ calls' = frameOf("released", session.batch + 1) \o below

cancelled(q) == batchFinished(q, session.results, TRUE)

\* cancel(), which leaves the queue as q.
cancelSession(q) ==
    /\ queue' = q
    /\ session' = ended(session.batch + 1)
    /\ releaseFileResources

\* Committing the partial reports it, before anything of the failure is kept.
failFile(below) ==
    /\ emits("partial", below)
    /\ UNCHANGED <<session, queue>>

\* The stream prepares the first provider, which may not know the language.
prepare(s, below) ==
    /\ UNCHANGED session
    /\ \/ stream' = [s EXCEPT !.provider = "preparing", !.which = 1] /\ calls' = below
       \/ stream' = s /\ emits("partial", below)

listenToNothing(below) == prepare([stream EXCEPT !.ended = TRUE], below)

\* A pass over the file: what it decodes to differs from one to the next.
decodes(pass) == \E left \in 0..MaxBuffers :
    decoder' = [pass |-> pass, left |-> left, ready |-> FALSE]

completeFile(below) == finishFile([session EXCEPT !.ok = TRUE], below)
completeUnrefined(below) == completeFile(below)

refine(below) ==
    \/ completeFile(below) /\ UNCHANGED queue
    \/ /\ stream' = [stream EXCEPT !.provider = "answered"]
       /\ UNCHANGED <<session, decoder, refiner, mic>>
       /\ queue' = entered(queue, "Refining")
       /\ emits("refining", below)

\* The share sent: 1 only once the second pass decoded the whole file.  What
\* it yielded counts when that is more than the first pass measured.
reportProgress(s, sent) == queue' =
    LET fileBytes == IF s.streamed > s.measured THEN s.streamed ELSE s.measured
    IN  IF s.decoded /\ sent >= fileBytes /\ queue.phase = "Transcribing"
        THEN entered(queue, "Finishing") ELSE queue

-----------------------------------------------------------------------------
(* What goes on below a signal.                                            *)

\* Mutant: a batch that runs goes on, though a handler began it anew.
GoesOnRunning(frame) == session.running

goesOn(frame) == frame.batch = session.batch

nextFile(below) ==
    IF session.index < Len(session.paths)
    THEN /\ session' = [session EXCEPT !.index = @ + 1, !.ok = FALSE]
         /\ stream' = NoStream
         /\ emits("cleared", below)
         /\ UNCHANGED <<queue, decoder, refiner, mic>>
    ELSE /\ session' = ended(session.batch)
         /\ queue' = batchFinished(queue, session.results, FALSE)
         /\ calls' = below
         /\ UNCHANGED parts

afterReleased(below) ==
    IF session.index = 0 THEN nextFile(below)
    ELSE LET result == [path |-> current, ok |-> session.ok]
         IN  /\ session' = [session EXCEPT !.results = Append(@, result)]
             /\ queue' = fileFinished(queue, result)
             /\ emits("recorded", below)
             /\ UNCHANGED parts

\* startFile(), with the transcript cleared.
afterCleared(below) ==
    /\ queue' = fileStarted(queue, session.index)
    /\ emits("started", below)
    /\ UNCHANGED <<session, parts>>

afterStarted(below) ==
    \/ /\ listens /\ mic.finishFirst
       /\ listenToNothing(below)
       /\ UNCHANGED <<queue, decoder, refiner, mic>>
    \/ /\ listens /\ ~mic.finishFirst
       /\ mic' = [mic EXCEPT !.state = "Starting"]
       /\ calls' = below
       /\ UNCHANGED <<queue, session, stream, decoder, refiner>>
    \/ /\ ~listens
       /\ \/ decodes("measure") /\ session' = [session EXCEPT !.measured = 0]
             /\ calls' = below /\ UNCHANGED queue
          \/ decoder' = NoDecoder /\ failFile(below)      \* fails at once
       /\ UNCHANGED <<stream, refiner, mic>>

\* streamFile()
afterDecoded(below) ==
    /\ session' = [session EXCEPT !.streamed = 0, !.decoded = FALSE]
    /\ \/ decodes("stream") /\ stream' = [stream EXCEPT !.provider = "preparing", !.which = 1]
          /\ calls' = below
       \/ decodes("stream") /\ stream' = stream /\ emits("partial", below)   \* no such language
       \/ decoder' = NoDecoder /\ stream' = stream /\ emits("partial", below)
    /\ UNCHANGED <<queue, refiner, mic>>

afterWholeSent(below) ==
    /\ stream' = [stream EXCEPT !.ended = TRUE]
    /\ calls' = below
    /\ UNCHANGED <<queue, session, decoder, refiner, mic>>

\* The buffer that waits is read once little of the audio waits to be sent;
\* until then the decoder pauses.
readDecodedAudio(d, below) ==
    IF ~d.ready \/ unsent >= MostUnsent
    THEN decoder' = d /\ calls' = below /\ UNCHANGED <<session, stream>>
    ELSE /\ decoder' = [d EXCEPT !.ready = FALSE]
         /\ \/ /\ d.pass = "measure"
               /\ session' = [session EXCEPT !.measured = @ + 1]
               /\ calls' = below /\ UNCHANGED stream
            \/ /\ d.pass = "stream"
               /\ session' = [session EXCEPT !.streamed = @ + 1]
               /\ stream' = [stream EXCEPT !.heard = @ + 1]
               /\ calls' = below
            \/ UNCHANGED <<session, stream>> /\ emits("partial", below)   \* no such audio

afterProgress(below) == readDecodedAudio(decoder, below)

\* The frame on top: dropped when the batch moved on meanwhile, otherwise what
\* comes after the signal.
Resume ==
    /\ calls # <<>> /\ Head(calls).then # "setUp"
    /\ LET frame == Head(calls)  below == Tail(calls)  is(then) == goesOn(frame) /\ frame.then = then
       IN  \/ ~goesOn(frame) /\ calls' = below /\ UNCHANGED <<queue, session, parts>>
           \/ is("released") /\ afterReleased(below)
           \/ is("recorded") /\ nextFile(below)
           \/ is("cleared") /\ afterCleared(below)
           \/ is("started") /\ afterStarted(below)
           \/ is("decoded") /\ afterDecoded(below)
           \/ is("wholeSent") /\ afterWholeSent(below)
           \/ is("progress") /\ afterProgress(below) /\ UNCHANGED <<queue, refiner, mic>>
           \/ is("begun") /\ calls' = below
              /\ stream' = [stream EXCEPT !.provider = "open", !.sent = 0, !.finished = FALSE]
              /\ UNCHANGED <<queue, session, decoder, refiner, mic>>
           \/ is("partial") /\ finishFile([session EXCEPT !.ok = FALSE], below) /\ UNCHANGED queue
           \/ is("refining") /\ calls' = below
              /\ refiner' = [step |-> "preparing", which |-> 1]
              /\ UNCHANGED <<queue, session, stream, decoder, mic>>
    /\ UNCHANGED <<front, dictating>>

-----------------------------------------------------------------------------
(* The decoder.                                                            *)

eventLoop == calls = <<>> /\ UNCHANGED <<front, dictating>>

bufferReady ==
    /\ eventLoop
    /\ decoder.pass # "none" /\ ~decoder.ready /\ decoder.left > 0
    /\ readDecodedAudio([decoder EXCEPT !.ready = TRUE, !.left = @ - 1], <<>>)
    /\ UNCHANGED <<queue, refiner, mic>>

\* Once every buffer was read.
decoderFinished ==
    /\ eventLoop
    /\ decoder.pass # "none" /\ ~decoder.ready /\ decoder.left = 0
    /\ IF (IF decoder.pass = "measure" THEN session.measured ELSE session.streamed) = 0
       THEN failFile(<<>>) /\ UNCHANGED parts
       ELSE IF decoder.pass = "measure"
       THEN /\ decoder' = NoDecoder
            /\ queue' = entered(queue, "Transcribing")
            /\ emits("decoded", <<>>)
            /\ UNCHANGED <<session, stream, refiner, mic>>
       ELSE /\ decoder' = [decoder EXCEPT !.pass = "none"]
            /\ session' = [session EXCEPT !.decoded = TRUE, !.measured = session.streamed]
            /\ IF unsent = 0
               THEN /\ reportProgress(session', stream.sent)
                    /\ emits("wholeSent", <<>>)
                    /\ UNCHANGED stream
               ELSE /\ stream' = [stream EXCEPT !.ended = TRUE]
                    /\ UNCHANGED <<queue, calls>>
            /\ UNCHANGED <<refiner, mic>>

decoderFails ==
    /\ eventLoop
    /\ decoder.pass # "none"
    /\ failFile(<<>>)
    /\ UNCHANGED parts

-----------------------------------------------------------------------------
(* The speech stream and its provider.                                     *)

\* The next provider takes the input from its start, if there is one.
makesWay == /\ stream.which < Speakers
            /\ stream' = [stream EXCEPT !.provider = "preparing", !.which = @ + 1]
            /\ UNCHANGED <<session, queue, calls>>
exhausted == stream.which = Speakers /\ failFile(<<>>) /\ UNCHANGED stream

\* beginStreaming() clears the transcript first, which reports it.
speakerPrepared ==
    /\ eventLoop
    /\ stream.provider = "preparing"
    /\ \/ emits("begun", <<>>) /\ UNCHANGED <<session, queue, stream>>
       \/ makesWay
       \/ exhausted
    /\ UNCHANGED <<decoder, refiner, mic>>

sends == stream.provider \in {"open", "connected"}

sendNextChunk ==
    /\ eventLoop
    /\ sends /\ ~stream.finished
    /\ \/ /\ stream.sent < stream.heard
          /\ stream' = [stream EXCEPT !.sent = @ + 1]
          /\ session' = session
          /\ IF listens THEN UNCHANGED queue ELSE reportProgress(session, stream'.sent)
          /\ emits("progress", <<>>)
       \/ /\ stream.sent = stream.heard /\ stream.ended
          /\ stream' = [stream EXCEPT !.finished = TRUE]
          /\ UNCHANGED <<session, queue, calls>>
    /\ UNCHANGED <<decoder, refiner, mic>>

speakerConnects ==
    /\ eventLoop
    /\ stream.provider = "open"
    /\ stream' = [stream EXCEPT !.provider = "connected"]
    /\ UNCHANGED <<session, queue, calls, decoder, refiner, mic>>

\* Once a service took audio, no other provider does.
speakerFails ==
    /\ eventLoop
    /\ \/ stream.provider = "open" /\ (makesWay \/ exhausted)
       \/ stream.provider = "connected" /\ failFile(<<>>) /\ UNCHANGED stream
    /\ UNCHANGED <<decoder, refiner, mic>>

\* The provider answered all of the input, in words or in none.
finishTranscription ==
    /\ eventLoop
    /\ stream.provider = "connected" /\ stream.finished
    /\ \/ refine(<<>>)
       \/ failFile(<<>>) /\ UNCHANGED parts

-----------------------------------------------------------------------------
(* The refiners.                                                           *)

prepareNext ==
    IF refiner.which < Refiners
    THEN /\ refiner' = [step |-> "preparing", which |-> refiner.which + 1]
         /\ UNCHANGED <<session, stream, decoder, mic, calls>>
    ELSE completeUnrefined(<<>>)

refinerPrepared ==
    /\ eventLoop
    /\ refiner.step = "preparing"
    /\ \/ /\ refiner' = [refiner EXCEPT !.step = "asked"]
          /\ UNCHANGED <<session, stream, decoder, mic, calls>>
       \/ prepareNext
    /\ UNCHANGED queue

refinerAnswers ==
    /\ eventLoop
    /\ refiner.step = "asked"
    /\ completeFile(<<>>) \/ prepareNext
    /\ UNCHANGED queue

-----------------------------------------------------------------------------
(* The microphone.                                                         *)

micStarted ==
    /\ eventLoop
    /\ mic.state = "Starting"
    /\ mic' = [mic EXCEPT !.state = "Listening"]
    /\ prepare(stream, <<>>)
    /\ UNCHANGED <<queue, decoder, refiner>>

audioChunk ==
    /\ eventLoop
    /\ mic.state # "Off" /\ stream.heard < MaxBuffers
    /\ stream' = [stream EXCEPT !.heard = @ + 1]
    /\ UNCHANGED <<queue, session, decoder, refiner, mic, calls>>

micStopped ==
    /\ eventLoop
    /\ mic.state = "Stopping"
    /\ mic' = [mic EXCEPT !.state = "Off"]
    /\ stream' = [stream EXCEPT !.ended = TRUE]
    /\ UNCHANGED <<queue, session, decoder, refiner, calls>>

micFails ==
    /\ eventLoop
    /\ mic.state # "Off"
    /\ mic' = [mic EXCEPT !.state = "Off"]
    /\ IF mic.state = "Starting" \/ stream.heard = 0
       THEN failFile(<<>>) /\ UNCHANGED stream
       ELSE /\ stream' = [stream EXCEPT !.ended = TRUE]
            /\ UNCHANGED <<queue, session, calls>>
    /\ UNCHANGED <<decoder, refiner>>

\* Mutant: a finish before the microphone opened is not kept.
FinishesOpenOnly ==
    /\ mic.state = "Off" /\ mic' = [mic EXCEPT !.told = TRUE]
    /\ UNCHANGED <<session, stream, calls>>

finishBeforeListening ==
    /\ mic.state = "Off"
    /\ mic' = [mic EXCEPT !.told = TRUE, !.finishFirst = TRUE]
    /\ UNCHANGED <<session, stream, calls>>

finishListening ==
    /\ listens /\ session.running
    /\ \/ finishBeforeListening
       \/ /\ mic.state = "Starting"
          /\ mic' = [mic EXCEPT !.state = "Off", !.told = TRUE]
          /\ listenToNothing(calls)
       \/ /\ mic.state = "Listening"
          /\ mic' = [mic EXCEPT !.state = "Stopping", !.told = TRUE]
          /\ UNCHANGED <<session, stream, calls>>
    /\ UNCHANGED <<front, dictating, queue, decoder, refiner>>

startListening ==
    /\ listens /\ ~session.running
    /\ beginBatch(<<"heard">>, queue, calls)
    /\ UNCHANGED <<front, dictating>>

-----------------------------------------------------------------------------
(* The page's operations, from the event loop or from a signal's handler:  *)
(* it starts at the setup and goes back from the results.                  *)

page == front = "page" /\ UNCHANGED <<front, dictating>>

refusal == session.running \/ dictating

start ==
    /\ page
    /\ queue.step = "Configure" /\ queue.files # <<>> /\ ~refusal
    /\ queue' = [queue EXCEPT !.batch = queue.files, !.results = <<>>, !.cancelled = FALSE,
                              !.current = 0, !.phase = "Reading", !.step = "Transcribe"]
    /\ emits("setUp", calls)
    /\ UNCHANGED <<session, parts>>

\* Mutant: the refusal is not asked again.
StartsWhatWasAllowed ==
    /\ page
    /\ calls # <<>> /\ Head(calls).then = "setUp"
    /\ beginBatch(queue.batch, queue, Tail(calls))

\* What the signals of start() reach may have started a dictation.
startSetUp ==
    /\ page
    /\ calls # <<>> /\ Head(calls).then = "setUp"
    /\ IF refusal
       THEN /\ queue' = [queue EXCEPT !.step = "Configure"]
            /\ calls' = Tail(calls)
            /\ UNCHANGED <<session, parts>>
       ELSE beginBatch(queue.batch, queue, Tail(calls))

cancel ==
    /\ UNCHANGED <<front, dictating, calls>>
    /\ session.running
    /\ cancelSession(cancelled(queue))

\* The files, which are all different, once those done were removed.
without(files, done) ==
    LET left == {i \in DOMAIN files : files[i] \notin done}
        place(i) == Cardinality({j \in left : j <= i})
    IN  [k \in 1..Cardinality(left) |-> files[CHOOSE i \in left : place(i) = k]]

\* A retry that runs is cancelled; the finished files leave the list.
backToSetup(q) ==
    LET done == {q.results[i].path : i \in DOMAIN q.results}
    IN  [q EXCEPT !.files = without(@, done), !.step = "Configure"]

leaveResults(add(_)) ==
    /\ page
    /\ queue.step = "Export"
    /\ IF queue.retrying > 0
       THEN cancelSession(add(backToSetup(cancelled(queue))))
       ELSE queue' = add(backToSetup(queue)) /\ UNCHANGED <<session, parts>>
    /\ UNCHANGED calls

reset == leaveResults(LAMBDA q : q)

addFiles ==
    \E file \in Files :
        LET added(q) == IF Contains(q.files, file) THEN q ELSE [q EXCEPT !.files = Append(@, file)]
        IN  \/ leaveResults(added)
            \/ /\ page /\ queue.step # "Export"
               /\ queue' = added(queue)
               /\ UNCHANGED <<session, parts, calls>>

removeFile ==
    /\ page
    /\ \E file \in Files : queue' = [queue EXCEPT !.files = without(@, {file})]
    /\ UNCHANGED <<session, parts, calls>>

retry ==
    /\ page
    /\ queue.retrying = 0 /\ ~refusal
    /\ \E i \in DOMAIN queue.results :
         /\ queue.step = "Export" /\ ~queue.results[i].ok
         /\ beginBatch(<<queue.results[i].path>>, [queue EXCEPT !.retrying = i], calls)

\* A dictation asks whether files are being transcribed, too.
dictate ==
    /\ front = "page"
    /\ dictating' = ~dictating
    /\ dictating \/ ~session.running
    /\ UNCHANGED <<front, queue, session, parts, calls>>

-----------------------------------------------------------------------------
Init ==
    /\ front \in {"page", "listening"}
    /\ queue = NoQueue /\ session = NoSession /\ stream = NoStream
    /\ decoder = NoDecoder /\ refiner = NoRefiner
    /\ mic = [state |-> "Off", finishFirst |-> FALSE, told |-> FALSE]
    /\ calls = <<>> /\ dictating = FALSE

Decodes == bufferReady \/ decoderFinished \/ decoderFails
Speaks == speakerPrepared \/ finishTranscription \/ speakerFails
Refines == refinerPrepared \/ refinerAnswers
Listens == micStarted \/ micStopped \/ micFails

Next ==
    \/ Resume \/ startSetUp
    \/ Decodes \/ sendNextChunk \/ speakerConnects \/ Speaks \/ Refines
    \/ Listens \/ audioChunk
    \/ finishListening \/ startListening
    \/ start \/ cancel \/ reset \/ addFiles \/ removeFile \/ retry \/ dictate

\* Handlers return, the send timer runs, and whatever was asked answers or
\* fails: the decoder, the provider, the refiner, and the microphone while it
\* starts or stops.
Fairness ==
    /\ WF_vars(Resume \/ startSetUp)
    /\ WF_vars(bufferReady \/ decoderFinished)
    /\ WF_vars(sendNextChunk)
    /\ WF_vars(speakerPrepared)
    /\ WF_vars(stream.provider = "open" /\ (speakerConnects \/ speakerFails))
    /\ WF_vars(finishTranscription)
    /\ WF_vars(Refines)
    /\ WF_vars(Listens /\ mic.state # "Listening")

Spec == Init /\ [][Next]_vars /\ Fairness

-----------------------------------------------------------------------------
(* Properties.                                                             *)

TypeOK ==
    /\ front \in {"page", "listening"} /\ dictating \in BOOLEAN
    /\ queue.step \in {"Configure", "Transcribe", "Export"}
    /\ queue.phase \in {"Reading", "Transcribing", "Finishing", "Refining"}
    /\ queue.files \in Seq(Files) /\ queue.batch \in Seq(Files)
    /\ queue.retrying \in 0..Len(queue.results)
    /\ stream.sent \in 0..stream.heard
    /\ decoder.pass \in {"none", "measure", "stream"}
    /\ refiner.step \in {"none", "preparing", "asked"}
    /\ mic.state \in {"Off", "Starting", "Listening", "Stopping"}

\* Each result shown is its own file's, and the session keeps the same ones:
\* results follow the batch in order, and a retry's takes the failed one's
\* place, whatever handlers cancelled, began or retried between two signals
\* (fileFinished(), batchFinished()).
ResultsAreOwn ==
    queue.step # "Configure" =>
        /\ \A i \in DOMAIN queue.results : queue.results[i].path = queue.batch[i]
        /\ queue.step = "Transcribe" /\ session.running => session.results = queue.results

\* And a batch that was not cancelled shows every file (TranscribeQueue.h,
\* "Each file that finished or failed, in batch order").
ResultsFitBatch ==
    /\ queue.step # "Configure" => Len(queue.results) <= Len(queue.batch)
    /\ queue.step = "Export" /\ ~queue.cancelled => Len(queue.results) = Len(queue.batch)
    /\ ResultsAreOwn

\* No batch runs beside a dictation (start(), "what the signals above reach
\* may have started a dictation").
NeverBesideDictation == ~(session.running /\ dictating)

\* Every batch ends, and every listening that was told to finish: the decoder
\* that waits for the stream always gets going again, whichever pass, stop
\* or provider comes first.
BatchEnds == session.running /\ (listens => mic.told) ~> ~session.running
=============================================================================
