----------------------- MODULE FileTranscriptionProofs -----------------------
(***************************************************************************)
(* That no batch runs beside a dictation, that each result is its own      *)
(* file's, and that they are as many as the files of the batch, for any    *)
(* files, any chains of providers and refiners, and any number of batches  *)
(* and handlers.                                                           *)
(***************************************************************************)
EXTENDS FileTranscription, SequenceTheorems, FiniteSetTheorems, TLAPS

(* The command line has no dictation; what is known of the session is only
   that it says whether it runs. *)
Inv ==
    /\ "running" \in DOMAIN session
    /\ NeverBesideDictation
    /\ listens => ~dictating

(* What every step but a beginning does: the session does not come to run. *)
GoesOn == "running" \in DOMAIN session' /\ (session'.running => session.running)

(* What a beginning does: the session runs, and no dictation does. *)
Begins == "running" \in DOMAIN session' /\ ~dictating

KeepsAlone == (GoesOn \/ Begins) /\ UNCHANGED <<front, dictating>>

LEMMA AloneKept == ASSUME Inv, KeepsAlone PROVE Inv'
  BY DEF Inv, KeepsAlone, GoesOn, Begins, NeverBesideDictation, listens

-----------------------------------------------------------------------------
(* The session's own steps begin no batch. *)

LEMMA EndedRests ==
    ASSUME NEW batch PROVE "running" \in DOMAIN ended(batch) /\ ~ended(batch).running
  BY DEF ended, NoSession

LEMMA FinishGoesOn ==
    ASSUME Inv, NEW ok, NEW below, finishFile([session EXCEPT !.ok = ok], below)
    PROVE  GoesOn
  BY DEF Inv, finishFile, GoesOn

LEMMA NextFileGoesOn ==
    ASSUME Inv, NEW below, nextFile(below)
    PROVE  GoesOn
  BY EndedRests DEF Inv, nextFile, GoesOn

LEMMA ReadGoesOn ==
    ASSUME Inv, NEW d, NEW below, readDecodedAudio(d, below)
    PROVE  GoesOn
  BY DEF Inv, readDecodedAudio, GoesOn

LEMMA FailGoesOn ==
    ASSUME Inv, NEW below, failFile(below)
    PROVE  GoesOn
  BY DEF Inv, failFile, GoesOn

LEMMA CancelGoesOn ==
    ASSUME NEW q, cancelSession(q)
    PROVE  GoesOn
  BY EndedRests DEF cancelSession, GoesOn

LEMMA BeginBegins ==
    ASSUME ~dictating, NEW paths, NEW q, NEW below, beginBatch(paths, q, below)
    PROVE  Begins
  BY DEF beginBatch, Begins, NoSession

LEMMA ResumeKeeps == ASSUME Inv, Resume PROVE KeepsAlone
  <1> DEFINE below == Tail(calls)
  <1>1. UNCHANGED <<front, dictating>>
    BY DEF Resume
  <1>2. CASE UNCHANGED session
    BY <1>1, <1>2 DEF Inv, KeepsAlone, GoesOn
  <1>3. CASE afterReleased(below)
    <2>1. CASE session.index = 0
      BY <1>1, <1>3, <2>1, NextFileGoesOn DEF afterReleased, KeepsAlone
    <2>2. CASE session.index # 0
      BY <1>1, <1>3, <2>2 DEF afterReleased, KeepsAlone, Inv, GoesOn
    <2> QED
      BY <2>1, <2>2
  <1>4. CASE nextFile(below)
    BY <1>1, <1>4, NextFileGoesOn DEF KeepsAlone
  <1>5. CASE afterStarted(below)
    BY <1>1, <1>5 DEF afterStarted, listenToNothing, prepare, failFile, KeepsAlone, Inv, GoesOn
  <1>6. CASE afterDecoded(below)
    BY <1>1, <1>6 DEF afterDecoded, KeepsAlone, Inv, GoesOn
  <1>7. CASE afterProgress(below)
    BY <1>1, <1>7, ReadGoesOn DEF afterProgress, KeepsAlone
  <1>8. CASE finishFile([session EXCEPT !.ok = FALSE], below)
    BY <1>1, <1>8, FinishGoesOn DEF KeepsAlone
  <1> QED
    BY <1>2, <1>3, <1>4, <1>5, <1>6, <1>7, <1>8
    DEF Resume, afterCleared, afterWholeSent

LEMMA DecodesKeeps == ASSUME Inv, Decodes PROVE KeepsAlone
  <1>1. CASE bufferReady
    BY <1>1, ReadGoesOn DEF bufferReady, eventLoop, KeepsAlone
  <1>2. CASE decoderFinished
    <2>1. "running" \in DOMAIN session' /\ session'.running = session.running
      BY <1>2 DEF decoderFinished, failFile, Inv
    <2> QED
      BY <1>2, <2>1 DEF decoderFinished, eventLoop, KeepsAlone, GoesOn
  <1>3. CASE decoderFails
    BY <1>3, FailGoesOn DEF decoderFails, eventLoop, KeepsAlone
  <1> QED
    BY <1>1, <1>2, <1>3 DEF Decodes

LEMMA SpeaksKeeps ==
    ASSUME Inv, Speaks \/ sendNextChunk \/ speakerConnects
    PROVE  KeepsAlone
  <1>1. CASE speakerPrepared \/ speakerFails \/ sendNextChunk \/ speakerConnects
    BY <1>1 DEF speakerPrepared, speakerFails, sendNextChunk, speakerConnects, eventLoop,
                makesWay, exhausted, failFile, Inv, KeepsAlone, GoesOn
  <1>2. CASE finishTranscription
    BY <1>2, FinishGoesOn, FailGoesOn
    DEF finishTranscription, refine, completeFile, eventLoop, KeepsAlone, GoesOn, Inv
  <1> QED
    BY <1>1, <1>2 DEF Speaks

LEMMA RefinesKeeps == ASSUME Inv, Refines PROVE KeepsAlone
  <1>1. ASSUME prepareNext PROVE GoesOn
    BY <1>1, FinishGoesOn DEF prepareNext, completeUnrefined, completeFile, Inv, GoesOn
  <1>2. CASE refinerPrepared
    BY <1>1, <1>2 DEF refinerPrepared, eventLoop, KeepsAlone, GoesOn, Inv
  <1>3. CASE refinerAnswers
    BY <1>1, <1>3, FinishGoesOn DEF refinerAnswers, completeFile, eventLoop, KeepsAlone
  <1> QED
    BY <1>2, <1>3 DEF Refines

LEMMA ListensKeeps ==
    ASSUME Inv, Listens \/ audioChunk \/ finishListening \/ startListening
    PROVE  KeepsAlone
  <1>1. CASE Listens \/ audioChunk
    BY <1>1 DEF Listens, micStarted, micStopped, micFails, audioChunk, eventLoop, prepare,
                failFile, Inv, KeepsAlone, GoesOn
  <1>2. CASE finishListening
    BY <1>2 DEF finishListening, finishBeforeListening, listenToNothing, prepare,
                Inv, KeepsAlone, GoesOn
  <1>3. CASE startListening
    BY <1>3, BeginBegins DEF startListening, KeepsAlone, Inv
  <1> QED
    BY <1>1, <1>2, <1>3

LEMMA PageKeeps ==
    ASSUME Inv, start \/ startSetUp \/ cancel \/ reset \/ addFiles \/ removeFile \/ retry
    PROVE  KeepsAlone
  <1>1. CASE start \/ removeFile
    BY <1>1 DEF start, removeFile, page, Inv, KeepsAlone, GoesOn
  <1>2. CASE startSetUp
    <2>1. CASE refusal
      BY <1>2, <2>1 DEF startSetUp, page, Inv, KeepsAlone, GoesOn
    <2>2. CASE ~refusal
      BY <1>2, <2>2, BeginBegins DEF startSetUp, refusal, page, KeepsAlone
    <2> QED
      BY <2>1, <2>2
  <1>3. CASE cancel
    BY <1>3, CancelGoesOn DEF cancel, KeepsAlone
  <1>4. CASE reset
    BY <1>4, CancelGoesOn DEF reset, leaveResults, page, Inv, KeepsAlone, GoesOn
  <1>5. CASE addFiles
    BY <1>5, CancelGoesOn DEF addFiles, leaveResults, page, Inv, KeepsAlone, GoesOn
  <1>6. CASE retry
    BY <1>6, BeginBegins DEF retry, refusal, page, KeepsAlone
  <1> QED
    BY <1>1, <1>2, <1>3, <1>4, <1>5, <1>6

LEMMA DictateKeeps == ASSUME Inv, dictate PROVE Inv'
  BY DEF dictate, Inv, NeverBesideDictation, listens

-----------------------------------------------------------------------------
(* A batch runs only while no dictation does, though the signals of start()
   may start one before the batch begins. *)
THEOREM BatchesRunAlone == Spec => []NeverBesideDictation
  <1>1. Init => Inv
    BY DEF Init, Inv, NoSession, NeverBesideDictation
  <1>2. ASSUME Inv, [Next]_vars PROVE Inv'
    <2>1. CASE dictate
      BY <1>2, <2>1, DictateKeeps
    <2>2. CASE UNCHANGED vars
      BY <1>2, <2>2 DEF vars, Inv, NeverBesideDictation, listens
    <2> QED
      BY <1>2, <2>1, <2>2, AloneKept, ResumeKeeps, DecodesKeeps, SpeaksKeeps, RefinesKeeps,
         ListensKeeps, PageKeeps
      DEF Next
  <1>3. Inv => NeverBesideDictation
    BY DEF Inv
  <1> QED
    BY <1>1, <1>2, <1>3, PTL DEF Spec

-----------------------------------------------------------------------------
(* Of lists: a list is a sequence of whatever it holds.                    *)

List(s) == \E S : s \in Seq(S)

LEMMA Appended ==
    ASSUME NEW s, List(s), NEW e
    PROVE  /\ List(Append(s, e)) /\ Len(s) \in Nat
           /\ Len(Append(s, e)) = Len(s) + 1
           /\ DOMAIN s = 1..Len(s) /\ DOMAIN Append(s, e) = 1..Len(s) + 1
           /\ \A i \in 1..Len(s) : Append(s, e)[i] = s[i]
           /\ Append(s, e)[Len(s) + 1] = e
  <1>1. PICK S : s \in Seq(S)
    BY DEF List
  <1> DEFINE T == S \cup {e}
  <1>2. s \in Seq(T)
    BY <1>1, SeqMonotonic
  <1>3. e \in T
    OBVIOUS
  <1> HIDE DEF T
  <1>4. Append(s, e) \in Seq(T)
    BY <1>2, <1>3
  <1> QED
    BY <1>2, <1>3, <1>4 DEF List

LEMMA Replaced ==
    ASSUME NEW s, List(s), NEW i \in DOMAIN s, NEW e
    PROVE  /\ List([s EXCEPT ![i] = e])
           /\ DOMAIN [s EXCEPT ![i] = e] = DOMAIN s
  <1>1. PICK S : s \in Seq(S)
    BY DEF List
  <1> DEFINE T == S \cup {e}
  <1>2. s \in Seq(T) /\ e \in T
    BY <1>1, SeqMonotonic
  <1> HIDE DEF T
  <1>3. [s EXCEPT ![i] = e] \in Seq(T)
    BY <1>2, ExceptSeq, LenProperties
  <1> QED
    BY <1>2, <1>3 DEF List

LEMMA ListLen == ASSUME NEW s, List(s) PROVE Len(s) \in Nat /\ DOMAIN s = 1..Len(s)
  BY DEF List

LEMMA FirstOf == ASSUME NEW s, List(s), s # <<>> PROVE 1 \in DOMAIN s /\ Head(s) = s[1]
  BY DEF List

LEMMA NoList == List(<<>>) /\ Len(<<>>) = 0 /\ DOMAIN <<>> = {}
  <1>1. <<>> \in Seq({})
    OBVIOUS
  <1> QED
    BY <1>1 DEF List

Signals == {"setUp", "released", "recorded", "cleared", "started", "decoded", "wholeSent",
            "progress", "begun", "partial", "refining"}
Frames == [then : Signals, batch : Nat]

LEMMA FrameOf ==
    ASSUME NEW stack \in Seq(Frames)
    PROVE  /\ Len(stack) \in Nat /\ DOMAIN stack = 1..Len(stack)
           /\ \A i \in DOMAIN stack : stack[i].batch \in Nat
  <1>1. \A i \in 1..Len(stack) : stack[i] \in Frames
    BY ElementOfSeq
  <1> QED
    BY <1>1, LenProperties DEF Frames

LEMMA Framed ==
    ASSUME NEW then \in Signals, NEW batch \in Nat
    PROVE  frameOf(then, batch) \in Seq(Frames)
  BY DEF frameOf, Frames

LEMMA Popped ==
    ASSUME NEW stack \in Seq(Frames), stack # <<>>
    PROVE  /\ Tail(stack) \in Seq(Frames)
           /\ Head(stack) = stack[1] /\ 1 \in DOMAIN stack
           /\ \A i \in DOMAIN Tail(stack) :
                i \in Nat \ {0} /\ i + 1 \in DOMAIN stack /\ Tail(stack)[i] = stack[i + 1]
  OBVIOUS

-----------------------------------------------------------------------------
(* The inductive invariant of ResultsAreOwn: where a batch stands, at every
   signal and between them. *)

QueueFields == {"step", "files", "batch", "results", "current", "phase", "cancelled", "retrying"}
SessionFields == {"running", "batch", "paths", "index", "results", "measured", "streamed",
                  "decoded", "ok"}

Typed ==
    /\ DOMAIN queue = QueueFields /\ List(queue.results) /\ queue.retrying \in Nat
    /\ DOMAIN session = SessionFields /\ List(session.results)
    /\ session.batch \in Nat /\ session.index \in Nat
    /\ "state" \in DOMAIN mic
    /\ calls \in Seq(Frames)

atHead(then) == calls # <<>> /\ Head(calls).then = then
live == calls # <<>> /\ goesOn(Head(calls))

(* Only the innermost signal can be the batch's that runs, and start()'s waits
   while none does. *)
FramesFit ==
    \A i \in DOMAIN calls :
        /\ calls[i].batch <= session.batch
        /\ calls[i].batch = session.batch => i = 1 /\ (session.running \/ calls[i].then = "setUp")
        /\ calls[i].then = "setUp" => i = 1 /\ ~session.running

(* Nothing of a file is at work. *)
Released == decoder.pass = "none" /\ stream.provider = "off" /\ refiner.step = "none"

Rests ==
    /\ queue.retrying = 0 /\ Released
    /\ queue.step = "Transcribe" => atHead("setUp")

RunsFor ==
    \/ /\ queue.step = "Transcribe" /\ queue.retrying = 0
       /\ session.paths = queue.batch /\ session.results = queue.results
    \/ /\ queue.step = "Export" /\ queue.retrying \in DOMAIN queue.results
       /\ session.paths = <<queue.results[queue.retrying].path>>

InPlace ==
    /\ session.index = 0 => live /\ atHead("released")
    /\ live /\ (atHead("released") \/ atHead("recorded")) => Released
    /\ Len(session.results) = IF session.index = 0 \/ (live /\ atHead("recorded"))
                              THEN session.index ELSE session.index - 1
    /\ \A i \in DOMAIN session.results : session.results[i].path = session.paths[i]

(* The page's batches. *)
OwnInv ==
    /\ Typed
    /\ listens => queue.step = "Configure" /\ queue.retrying = 0
    /\ ~listens =>
         /\ FramesFit
         /\ mic.state = "Off"
         /\ atHead("setUp") => queue.step = "Transcribe" /\ queue.results = <<>>
         /\ IF session.running THEN RunsFor /\ InPlace ELSE Rests
         /\ ResultsAreOwn

(* A step within a file: it was reached from the event loop, or below a signal
   of the batch that runs. *)
Within(below) ==
    \/ calls = <<>> /\ below = <<>>
    \/ /\ live /\ below = Tail(calls)
       /\ Head(calls).then \notin {"setUp", "released", "recorded"}

SameQueue ==
    /\ DOMAIN queue' = QueueFields
    /\ queue'.step = queue.step /\ queue'.batch = queue.batch
    /\ queue'.results = queue.results /\ queue'.retrying = queue.retrying
SameSession ==
    /\ DOMAIN session' = SessionFields
    /\ session'.running = session.running /\ session'.batch = session.batch
    /\ session'.paths = session.paths /\ session'.index = session.index
    /\ session'.results = session.results

Quiet(below) ==
    /\ SameQueue /\ SameSession /\ "state" \in DOMAIN mic'
    /\ mic'.state = mic.state \/ listens
    /\ \/ calls' = below
       \/ \E then \in Signals \ {"setUp", "released", "recorded"} : emits(then, below)
    /\ UNCHANGED front

LEMMA BelowFits ==
    ASSUME OwnInv, NEW below, Within(below)
    PROVE  /\ below \in Seq(Frames)
           /\ ~listens => \A i \in DOMAIN below :
                  below[i].batch < session.batch /\ below[i].then # "setUp"
  <1>1. CASE calls = <<>> /\ below = <<>>
    BY <1>1
  <1>2. CASE live /\ below = Tail(calls)
    <2>1. calls \in Seq(Frames) /\ calls # <<>>
      BY <1>2 DEF OwnInv, Typed, live
    <2>2. \A i \in DOMAIN below : i \in Nat \ {0} /\ i + 1 \in DOMAIN calls /\ below[i] = calls[i + 1]
      BY <1>2, <2>1, Popped
    <2>3. \A i \in DOMAIN calls : calls[i].batch \in Nat
      BY <2>1, FrameOf
    <2> QED
      BY <1>2, <2>1, <2>2, <2>3, Popped DEF OwnInv, FramesFit, Typed
  <1> QED
    BY <1>1, <1>2 DEF Within

(* What is pushed on the stack is the innermost signal, and fits. *)
LEMMA PushFits ==
    ASSUME NEW below \in Seq(Frames), NEW then \in Signals, NEW batch \in Nat,
           calls' = frameOf(then, batch) \o below, batch = session'.batch,
           \A i \in DOMAIN below : below[i].batch < batch /\ below[i].then # "setUp",
           session'.running <=> then # "setUp"
    PROVE  FramesFit' /\ live' /\ \A name : atHead(name)' <=> name = then
  <1>1. /\ calls' \in Seq(Frames) /\ calls' # <<>>
        /\ Head(calls').then = then /\ Head(calls').batch = batch
        /\ DOMAIN calls' = 1..Len(below) + 1
        /\ calls'[1].then = then /\ calls'[1].batch = batch
        /\ Len(below) \in Nat
        /\ \A i \in 2..Len(below) + 1 : i - 1 \in DOMAIN below /\ calls'[i] = below[i - 1]
    <2>1. frameOf(then, batch) \in Seq(Frames)
      BY Framed
    <2> QED
      BY <2>1 DEF frameOf, Frames
  <1>2. \A i \in DOMAIN below : below[i].batch \in Nat
    BY FrameOf
  <1>3. \A i \in DOMAIN calls' : i = 1 \/ i \in 2..Len(below) + 1
    BY <1>1
  <1>4. FramesFit'
    <2>1. ASSUME NEW i \in DOMAIN calls'
          PROVE  /\ calls'[i].batch <= session'.batch
                 /\ calls'[i].batch = session'.batch =>
                      i = 1 /\ (session'.running \/ calls'[i].then = "setUp")
                 /\ calls'[i].then = "setUp" => i = 1 /\ ~session'.running
      <3>1. CASE i = 1
        BY <1>1, <3>1
      <3>2. CASE i \in 2..Len(below) + 1
        <4>1. i - 1 \in DOMAIN below /\ calls'[i] = below[i - 1]
          BY <1>1, <3>2
        <4>2. below[i - 1].batch < batch /\ below[i - 1].batch \in Nat /\ below[i - 1].then # "setUp"
          BY <1>2, <4>1
        <4> QED
          BY <4>1, <4>2
      <3> QED
        BY <1>3, <3>1, <3>2
    <2> QED
      BY <2>1 DEF FramesFit
  <1> QED
    BY <1>1, <1>4 DEF live, goesOn, atHead

LEMMA QuietKeeps ==
    ASSUME OwnInv, NEW below, Within(below), Quiet(below),
           listens \/ session.running
    PROVE  OwnInv'
  <1>0. below \in Seq(Frames)
    BY BelowFits
  <1>1. calls' \in Seq(Frames)
    <2>1. ASSUME NEW then \in Signals, emits(then, below) PROVE calls' \in Seq(Frames)
      <3>1. frameOf(then, session.batch) \in Seq(Frames)
        BY Framed DEF OwnInv, Typed
      <3> QED
        BY <1>0, <2>1, <3>1 DEF emits
    <2> QED
      BY <1>0, <2>1 DEF Quiet
  <1>2. Typed'
    BY <1>1 DEF OwnInv, Typed, Quiet, SameQueue, SameSession
  <1>3. CASE listens
    BY <1>2, <1>3 DEF OwnInv, Quiet, SameQueue, listens
  <1>4. CASE ~listens
    <2>1. session.running /\ session.index # 0 /\ ~(live /\ atHead("recorded"))
      BY <1>4 DEF OwnInv, Within, InPlace, live, atHead
    <2>2. /\ FramesFit' /\ ~atHead("setUp")'
          /\ ~(live' /\ (atHead("recorded")' \/ atHead("released")'))
      <3>1. CASE calls' = below
        <4>1. \A i \in DOMAIN below : below[i].batch < session.batch /\ below[i].then # "setUp"
          BY <1>4, BelowFits
        <4>2. \A i \in DOMAIN below : below[i].batch \in Nat
          BY <1>0, FrameOf
        <4>3. below # <<>> => 1 \in DOMAIN below /\ Head(below) = below[1]
          BY <1>0, Popped
        <4> QED
          BY <3>1, <4>1, <4>2, <4>3
          DEF FramesFit, live, goesOn, atHead, Quiet, SameSession, OwnInv, Typed
      <3>2. ASSUME NEW then \in Signals \ {"setUp", "released", "recorded"}, emits(then, below)
            PROVE  FramesFit' /\ live' /\ \A name : atHead(name)' <=> name = then
        BY <1>0, <1>4, <2>1, <3>2, BelowFits, PushFits
        DEF emits, Quiet, SameSession, OwnInv, Typed
      <3> QED
        BY <3>1, <3>2 DEF Quiet
    <2>3. RunsFor' /\ InPlace'
      BY <1>4, <2>1, <2>2 DEF OwnInv, RunsFor, InPlace, Quiet, SameQueue, SameSession
    <2>4. ResultsAreOwn'
      BY <1>4 DEF OwnInv, ResultsAreOwn, Quiet, SameQueue, SameSession
    <2> QED
      BY <1>2, <1>4, <2>1, <2>2, <2>3, <2>4 DEF OwnInv, Quiet, SameSession, listens
  <1> QED
    BY <1>3, <1>4

(* A file that ends leaves nothing at work, and its result is still to come. *)
LEMMA FinishKeeps ==
    ASSUME OwnInv, NEW below, Within(below), NEW ok,
           finishFile([session EXCEPT !.ok = ok], below),
           SameQueue, UNCHANGED front, listens \/ session.running
    PROVE  OwnInv'
  <1>1. SameSession /\ "state" \in DOMAIN mic' /\ mic'.state = "Off" /\ Released'
    BY DEF finishFile, releaseFileResources, SameSession, SessionFields, OwnInv, Typed,
           Released, NoStream, NoDecoder, NoRefiner
  <1>2. below \in Seq(Frames) /\ calls' = frameOf("released", session.batch) \o below
    BY BelowFits DEF finishFile, emits
  <1>3. frameOf("released", session.batch) \in Seq(Frames)
    BY Framed DEF OwnInv, Typed, Signals
  <1>4. Typed'
    BY <1>1, <1>2, <1>3 DEF OwnInv, Typed, SameQueue, SameSession
  <1>5. CASE listens
    BY <1>4, <1>5 DEF OwnInv, SameQueue, listens
  <1>6. CASE ~listens
    <2>1. session.running /\ session.index # 0 /\ ~(live /\ atHead("recorded"))
      BY <1>6 DEF OwnInv, Within, InPlace, live, atHead
    <2>2. FramesFit' /\ live' /\ \A name : atHead(name)' <=> name = "released"
      <3>1. /\ "released" \in Signals /\ session.batch \in Nat /\ session.batch = session'.batch
            /\ (session'.running <=> "released" # "setUp")
        BY <1>1, <2>1 DEF SameSession, OwnInv, Typed, Signals
      <3>2. \A i \in DOMAIN below : below[i].batch < session.batch /\ below[i].then # "setUp"
        BY <1>6, BelowFits
      <3> QED
        BY <1>2, <3>1, <3>2, PushFits
    <2>3. RunsFor' /\ InPlace'
      BY <1>1, <1>6, <2>1, <2>2 DEF OwnInv, RunsFor, InPlace, SameQueue, SameSession
    <2>4. ResultsAreOwn'
      BY <1>1, <1>6 DEF OwnInv, ResultsAreOwn, SameQueue, SameSession
    <2> QED
      BY <1>1, <1>4, <1>6, <2>1, <2>2, <2>3, <2>4 DEF OwnInv, SameSession, listens
  <1> QED
    BY <1>5, <1>6

(* What a batch that ended left in the queue: its own results, and a retry's
   in place of the failed one. *)
LEMMA FinishedFits ==
    ASSUME OwnInv, NEW wasCancelled, NEW q,
           q = batchFinished(queue, session.results, wasCancelled),
           listens \/ session.running
    PROVE  /\ DOMAIN q = QueueFields /\ List(q.results) /\ q.retrying = 0
           /\ listens => q.step = "Configure"
           /\ ~listens =>
                /\ q.step # "Transcribe"
                /\ q.step # "Configure" =>
                     \A i \in DOMAIN q.results : q.results[i].path = q.batch[i]
  <1>1. CASE listens
    BY <1>1 DEF OwnInv, Typed, batchFinished
  <1>2. CASE ~listens /\ queue.retrying > 0
    <2>1. /\ queue.step = "Export" /\ queue.retrying \in DOMAIN queue.results
          /\ session.paths = <<queue.results[queue.retrying].path>>
      BY <1>2 DEF OwnInv, RunsFor
    <2>2. session.results # <<>> => Head(session.results).path = queue.results[queue.retrying].path
      <3>1. session.results # <<>> =>
              1 \in DOMAIN session.results /\ Head(session.results) = session.results[1]
        BY FirstOf DEF OwnInv, Typed
      <3> QED
        BY <1>2, <2>1, <3>1 DEF OwnInv, InPlace
    <2>3. /\ DOMAIN q = QueueFields /\ q.retrying = 0 /\ q.step = "Export" /\ q.batch = queue.batch
          /\ \/ q.results = queue.results
             \/ /\ session.results # <<>>
                /\ q.results = [queue.results EXCEPT ![queue.retrying] = Head(session.results)]
      BY <1>2, <2>1 DEF OwnInv, Typed, QueueFields, batchFinished
    <2>4. \A i \in DOMAIN queue.results : queue.results[i].path = queue.batch[i]
      BY <1>2, <2>1 DEF OwnInv, ResultsAreOwn
    <2>5. CASE q.results = queue.results
      BY <1>2, <2>3, <2>4, <2>5 DEF OwnInv, Typed
    <2>6. CASE /\ session.results # <<>>
               /\ q.results = [queue.results EXCEPT ![queue.retrying] = Head(session.results)]
      <3>1. List(q.results) /\ DOMAIN q.results = DOMAIN queue.results
        BY <2>1, <2>6, Replaced DEF OwnInv, Typed
      <3>2. \A i \in DOMAIN queue.results : q.results[i].path = queue.results[i].path
        BY <2>1, <2>2, <2>6
      <3> QED
        BY <1>2, <2>3, <2>4, <3>1, <3>2
    <2> QED
      BY <2>3, <2>5, <2>6
  <1>3. CASE ~listens /\ ~(queue.retrying > 0)
    <2>1. /\ queue.step = "Transcribe" /\ queue.retrying = 0
          /\ \A i \in DOMAIN queue.results : queue.results[i].path = queue.batch[i]
      <3>1. \A i \in DOMAIN queue.results : i \in Nat \ {0}
        BY ListLen DEF OwnInv, Typed
      <3> QED
        BY <1>3, <3>1 DEF OwnInv, Typed, RunsFor, ResultsAreOwn
    <2>2. /\ DOMAIN q = QueueFields /\ q.results = queue.results /\ q.batch = queue.batch
          /\ q.retrying = 0 /\ q.step \in {"Configure", "Export"}
      BY <2>1 DEF OwnInv, Typed, QueueFields, batchFinished
    <2> QED
      BY <1>3, <2>1, <2>2 DEF OwnInv, Typed
  <1> QED
    BY <1>1, <1>2, <1>3

(* A batch that ended left the queue at rest, below no signal of its own. *)
LEMMA EndedKeeps ==
    ASSUME OwnInv, listens \/ session.running, NEW wasCancelled,
           queue' = batchFinished(queue, session.results, wasCancelled),
           NEW batch \in Nat, session' = ended(batch),
           Released', "state" \in DOMAIN mic', ~listens => mic'.state = "Off",
           calls' \in Seq(Frames),
           ~listens => \A i \in DOMAIN calls' :
                          calls'[i].batch < batch /\ calls'[i].then # "setUp",
           UNCHANGED front
    PROVE  OwnInv'
  <1>1. /\ DOMAIN queue' = QueueFields /\ List(queue'.results) /\ queue'.retrying = 0
        /\ listens => queue'.step = "Configure"
        /\ ~listens =>
             /\ queue'.step # "Transcribe"
             /\ queue'.step # "Configure" =>
                  \A i \in DOMAIN queue'.results : queue'.results[i].path = queue'.batch[i]
    BY FinishedFits
  <1>2. /\ DOMAIN session' = SessionFields /\ session'.results = <<>> /\ session'.index = 0
        /\ session'.batch = batch /\ session'.running = FALSE
    BY DEF ended, NoSession, SessionFields
  <1>3. Typed'
    BY <1>1, <1>2, NoList DEF Typed
  <1>4. ~listens => FramesFit' /\ ~atHead("setUp")'
    <2>1. \A i \in DOMAIN calls' : calls'[i].batch \in Nat
      BY FrameOf
    <2>2. calls' # <<>> => 1 \in DOMAIN calls' /\ Head(calls') = calls'[1]
      BY Popped
    <2> QED
      BY <1>2, <2>1, <2>2 DEF FramesFit, atHead
  <1> QED
    BY <1>1, <1>2, <1>3, <1>4 DEF OwnInv, Rests, ResultsAreOwn, listens

LEMMA NextFileKeeps ==
    ASSUME OwnInv, live, nextFile(Tail(calls)), UNCHANGED front,
           atHead("recorded") \/ (atHead("released") /\ session.index = 0)
    PROVE  OwnInv'
  <1> DEFINE below == Tail(calls)
  <1>0. calls \in Seq(Frames) /\ calls # <<>> /\ session.batch \in Nat
    BY DEF live, OwnInv, Typed
  <1>1. below \in Seq(Frames)
    BY <1>0, Popped
  <1>2. ~listens => \A i \in DOMAIN below :
                       below[i].batch < session.batch /\ below[i].then # "setUp"
    <2>1. \A i \in DOMAIN below : i \in Nat \ {0} /\ i + 1 \in DOMAIN calls /\ below[i] = calls[i + 1]
      BY <1>0, Popped
    <2>2. \A i \in DOMAIN calls : calls[i].batch \in Nat
      BY <1>0, FrameOf
    <2> QED
      BY <1>0, <2>1, <2>2 DEF OwnInv, FramesFit
  <1>3. ~listens => session.running
    <2>1. ~listens => 1 \in DOMAIN calls /\ Head(calls) = calls[1]
      BY <1>0, Popped
    <2> QED
      BY <2>1 DEF OwnInv, FramesFit, live, goesOn, atHead
  <1>4. ~listens => Released /\ mic.state = "Off" /\ Len(session.results) = session.index
    BY <1>3 DEF OwnInv, InPlace
  <1>5. CASE session.index < Len(session.paths)
    <2>1. /\ DOMAIN session' = SessionFields /\ session'.index = session.index + 1
          /\ session'.running = session.running /\ session'.batch = session.batch
          /\ session'.paths = session.paths /\ session'.results = session.results
          /\ UNCHANGED <<queue, mic>> /\ calls' = frameOf("cleared", session.batch) \o below
      BY <1>5 DEF nextFile, emits, OwnInv, Typed, SessionFields
    <2>2. frameOf("cleared", session.batch) \in Seq(Frames)
      BY <1>0, Framed DEF Signals
    <2>3. Typed'
      BY <1>1, <2>1, <2>2 DEF OwnInv, Typed
    <2>4. CASE listens
      BY <2>1, <2>3, <2>4 DEF OwnInv, listens
    <2>5. CASE ~listens
      <3>1. FramesFit' /\ live' /\ \A name : atHead(name)' <=> name = "cleared"
        <4>1. /\ "cleared" \in Signals /\ session.batch = session'.batch
              /\ (session'.running <=> "cleared" # "setUp")
          BY <1>3, <2>1, <2>5 DEF Signals
        <4> HIDE DEF below
        <4> QED
          BY <1>0, <1>1, <1>2, <2>1, <2>5, <4>1, PushFits
      <3>2. InPlace'
        BY <1>4, <2>1, <2>5, <1>3, <3>1 DEF OwnInv, InPlace, Typed
      <3>3. RunsFor' /\ ResultsAreOwn'
        BY <1>3, <2>1, <2>5 DEF OwnInv, RunsFor, ResultsAreOwn
      <3> QED
        BY <1>3, <1>4, <2>1, <2>3, <2>5, <3>1, <3>2, <3>3 DEF OwnInv, listens
    <2> QED
      BY <2>4, <2>5
  <1>6. CASE ~(session.index < Len(session.paths))
    <2>1. /\ queue' = batchFinished(queue, session.results, FALSE)
          /\ session' = ended(session.batch) /\ calls' = below
          /\ UNCHANGED <<stream, decoder, refiner, mic>>
      BY <1>6 DEF nextFile, parts
    <2>2. "state" \in DOMAIN mic
      BY DEF OwnInv, Typed
    <2>3. CASE ~listens
      <3>1. Released' /\ mic'.state = "Off"
        BY <1>4, <2>1, <2>3 DEF Released
      <3> HIDE DEF below
      <3> QED
        BY <1>0, <1>1, <1>2, <1>3, <2>1, <2>2, <2>3, <3>1, EndedKeeps
    <2>4. CASE listens
      <3>1. queue'.step = "Configure" /\ queue'.retrying = 0 /\ Typed'
        BY <1>0, <1>1, <2>1, <2>4, FinishedFits, NoList
        DEF Typed, OwnInv, ended, NoSession, SessionFields
      <3> QED
        BY <2>4, <3>1 DEF OwnInv, listens
    <2> QED
      BY <2>3, <2>4
  <1> QED
    BY <1>5, <1>6

(* The result is recorded behind those of the files before it. *)
LEMMA ReleasedKeeps ==
    ASSUME OwnInv, live, atHead("released"), afterReleased(Tail(calls)), UNCHANGED front
    PROVE  OwnInv'
  <1> DEFINE below == Tail(calls)
             result == [path |-> current, ok |-> session.ok]
  <1>1. CASE session.index = 0
    BY <1>1, NextFileKeeps DEF afterReleased
  <1>2. CASE session.index # 0
    <2>0. calls \in Seq(Frames) /\ calls # <<>> /\ session.batch \in Nat
      BY DEF live, OwnInv, Typed
    <2>1. below \in Seq(Frames)
      BY <2>0, Popped
    <2>2. ~listens => \A i \in DOMAIN below :
                         below[i].batch < session.batch /\ below[i].then # "setUp"
      <3>1. \A i \in DOMAIN below : i \in Nat \ {0} /\ i + 1 \in DOMAIN calls /\ below[i] = calls[i + 1]
        BY <2>0, Popped
      <3>2. \A i \in DOMAIN calls : calls[i].batch \in Nat
        BY <2>0, FrameOf
      <3> QED
        BY <2>0, <3>1, <3>2 DEF OwnInv, FramesFit
    <2>3. /\ queue' = fileFinished(queue, result)
          /\ DOMAIN session' = SessionFields /\ session'.index = session.index
          /\ session'.running = session.running /\ session'.batch = session.batch
          /\ session'.paths = session.paths
          /\ session'.results = Append(session.results, result)
          /\ UNCHANGED <<stream, decoder, refiner, mic>>
          /\ calls' = frameOf("recorded", session.batch) \o below
      BY <1>2 DEF afterReleased, emits, parts, OwnInv, Typed, SessionFields
    <2>4. frameOf("recorded", session.batch) \in Seq(Frames)
      BY <2>0, Framed DEF Signals
    <2>5. List(session.results) /\ List(session'.results)
      BY <2>3, Appended DEF OwnInv, Typed
    <2>6. CASE listens
      <3>1. queue' = queue
        BY <2>3, <2>6 DEF OwnInv, fileFinished, followsBatch
      <3>2. Typed'
        BY <2>1, <2>3, <2>4, <2>5, <3>1 DEF OwnInv, Typed
      <3> QED
        BY <2>6, <3>1, <3>2 DEF OwnInv, listens
    <2>7. CASE ~listens
      <3>1. session.running
        <4>1. 1 \in DOMAIN calls /\ Head(calls) = calls[1]
          BY <2>0, Popped
        <4> QED
          BY <2>7, <4>1 DEF OwnInv, FramesFit, live, goesOn, atHead
      <3>2. Released /\ mic.state = "Off" /\ Len(session.results) = session.index - 1
        BY <1>2, <2>7, <3>1 DEF OwnInv, InPlace, live, atHead
      <3>3. FramesFit' /\ live' /\ \A name : atHead(name)' <=> name = "recorded"
        <4>1. /\ "recorded" \in Signals /\ session.batch = session'.batch
              /\ (session'.running <=> "recorded" # "setUp")
          BY <2>3, <3>1 DEF Signals
        <4> HIDE DEF below
        <4> QED
          BY <2>0, <2>1, <2>2, <2>3, <2>7, <4>1, PushFits
      <3>4. InPlace'
        <4>1. result.path = session.paths[session.index]
          BY DEF current
        <4>2. /\ Len(session'.results) = session.index
              /\ DOMAIN session'.results = 1..session.index
              /\ \A i \in 1..session.index - 1 :
                    i \in DOMAIN session.results /\ session'.results[i] = session.results[i]
              /\ session'.results[session.index] = result
          <5> HIDE DEF result
          <5>1. session.index \in Nat
            BY DEF OwnInv, Typed
          <5> QED
            BY <2>3, <2>5, <3>2, <5>1, Appended
        <4>3. \A i \in DOMAIN session'.results : session'.results[i].path = session.paths[i]
          <5>1. \A i \in DOMAIN session'.results : i = session.index \/ i \in 1..session.index - 1
            BY <4>2 DEF OwnInv, Typed
          <5> QED
            BY <2>7, <3>1, <4>1, <4>2, <5>1 DEF OwnInv, InPlace
        <4> QED
          BY <1>2, <2>3, <3>2, <3>3, <4>2, <4>3 DEF InPlace, Released
      <3>5. RunsFor' /\ List(queue'.results) /\ DOMAIN queue' = QueueFields /\ queue'.retrying \in Nat
        <4>1. CASE queue.step = "Transcribe" /\ queue.retrying = 0
          <5>1. /\ DOMAIN queue' = QueueFields /\ queue'.step = "Transcribe" /\ queue'.retrying = 0
                /\ queue'.batch = queue.batch
                /\ queue'.results = Append(queue.results, result)
            BY <2>3, <4>1 DEF fileFinished, followsBatch, OwnInv, Typed, QueueFields
          <5>2. session.paths = queue.batch /\ session.results = queue.results
            BY <2>7, <3>1, <4>1 DEF OwnInv, RunsFor
          <5> QED
            <6>1. session'.paths = queue'.batch /\ session'.results = queue'.results
              BY <2>3, <5>1, <5>2
            <6> QED
              BY <2>5, <5>1, <6>1 DEF RunsFor
        <4>2. CASE ~(queue.step = "Transcribe" /\ queue.retrying = 0)
          <5>1. queue' = queue
            BY <2>3, <4>2 DEF fileFinished, followsBatch
          <5> QED
            BY <2>3, <2>7, <3>1, <4>2, <5>1 DEF OwnInv, RunsFor, Typed
        <4> QED
          BY <4>1, <4>2
      <3>6. ResultsAreOwn'
        <4>1. CASE queue'.step = "Transcribe"
          <5>1. session'.paths = queue'.batch /\ session'.results = queue'.results
            BY <3>5, <4>1 DEF RunsFor
          <5> QED
            BY <3>4, <4>1, <5>1 DEF InPlace, ResultsAreOwn
        <4>2. CASE queue'.step # "Transcribe"
          <5>1. queue' = queue
            <6>1. queue.step # "Transcribe"
              BY <2>3, <4>2 DEF fileFinished, followsBatch, OwnInv, Typed, QueueFields
            <6> QED
              BY <2>3, <6>1 DEF fileFinished, followsBatch
          <5> QED
            BY <2>7, <4>2, <5>1 DEF OwnInv, ResultsAreOwn
        <4> QED
          BY <4>1, <4>2
      <3>7. Typed'
        BY <2>1, <2>3, <2>4, <2>5, <3>5 DEF OwnInv, Typed
      <3> QED
        BY <2>3, <2>7, <3>1, <3>2, <3>3, <3>4, <3>5, <3>6, <3>7 DEF OwnInv, listens
    <2> QED
      BY <2>6, <2>7
  <1> QED
    BY <1>1, <1>2

(* A batch that begins runs for what the queue q says. *)
LEMMA BeginKeeps ==
    ASSUME OwnInv, NEW paths, NEW q, NEW below \in Seq(Frames), beginBatch(paths, q, below),
           \A i \in DOMAIN below : below[i].batch <= session.batch /\ below[i].then # "setUp",
           DOMAIN q = QueueFields, List(q.results), q.retrying \in Nat,
           listens => q.step = "Configure" /\ q.retrying = 0,
           ~listens =>
             \/ q.step = "Transcribe" /\ q.retrying = 0 /\ paths = q.batch /\ q.results = <<>>
             \/ /\ q.step = "Export" /\ q.retrying \in DOMAIN q.results
                /\ paths = <<q.results[q.retrying].path>>
                /\ \A i \in DOMAIN q.results : q.results[i].path = q.batch[i],
           UNCHANGED front
    PROVE  OwnInv'
  <1> DEFINE batch == session.batch + 1
  <1>0. batch \in Nat /\ session.batch \in Nat
    BY DEF OwnInv, Typed
  <1>1. /\ queue' = q /\ calls' = frameOf("released", batch) \o below
        /\ DOMAIN session' = SessionFields /\ session'.running = TRUE /\ session'.batch = batch
        /\ session'.paths = paths /\ session'.index = 0 /\ session'.results = <<>>
        /\ Released' /\ "state" \in DOMAIN mic' /\ mic'.state = "Off"
    BY DEF beginBatch, NoSession, SessionFields, Released, NoStream, NoDecoder, NoRefiner
  <1>2. frameOf("released", batch) \in Seq(Frames)
    BY <1>0, Framed DEF Signals
  <1>3. FramesFit' /\ live' /\ \A name : atHead(name)' <=> name = "released"
    <2>1. \A i \in DOMAIN below : below[i].batch < batch /\ below[i].then # "setUp"
      <3>1. \A i \in DOMAIN below : below[i].batch \in Nat
        BY FrameOf
      <3> QED
        BY <1>0, <3>1
    <2>2. "released" \in Signals /\ batch = session'.batch /\ (session'.running <=> "released" # "setUp")
      BY <1>1 DEF Signals
    <2> HIDE DEF batch
    <2> QED
      BY <1>0, <1>1, <2>1, <2>2, PushFits
  <1> HIDE DEF batch
  <1>4. Typed'
    BY <1>0, <1>1, <1>2, NoList DEF Typed
  <1>5. InPlace'
    BY <1>1, <1>3, NoList DEF InPlace
  <1>6. ~listens => RunsFor' /\ ResultsAreOwn'
    BY <1>1, NoList DEF RunsFor, ResultsAreOwn
  <1> QED
    BY <1>1, <1>3, <1>4, <1>5, <1>6 DEF OwnInv, listens

LEMMA CancelSessionKeeps ==
    ASSUME OwnInv, session.running, cancelSession(cancelled(queue)), UNCHANGED <<front, calls>>
    PROVE  OwnInv'
  <1>1. /\ queue' = batchFinished(queue, session.results, TRUE)
        /\ session' = ended(session.batch + 1)
        /\ Released' /\ "state" \in DOMAIN mic' /\ mic'.state = "Off"
    BY DEF cancelSession, cancelled, releaseFileResources, Released, NoStream, NoDecoder,
           NoRefiner, OwnInv, Typed
  <1>2. session.batch + 1 \in Nat /\ calls' \in Seq(Frames)
    BY DEF OwnInv, Typed
  <1>3. ~listens => \A i \in DOMAIN calls' :
                      calls'[i].batch < session.batch + 1 /\ calls'[i].then # "setUp"
    <2>1. \A i \in DOMAIN calls : calls[i].batch \in Nat
      BY FrameOf DEF OwnInv, Typed
    <2> QED
      BY <2>1 DEF OwnInv, FramesFit, Typed
  <1> QED
    BY <1>1, <1>2, <1>3, EndedKeeps

-----------------------------------------------------------------------------
(* The actions. *)

USE DEF Signals

LEMMA OwnResume == ASSUME OwnInv, Resume PROVE OwnInv'
  <1> DEFINE below == Tail(calls)
             frame == Head(calls)
  <1>0. calls # <<>> /\ calls \in Seq(Frames) /\ frame.then # "setUp" /\ UNCHANGED front
    BY DEF Resume, OwnInv, Typed
  <1>1. CASE ~goesOn(frame) /\ calls' = below /\ UNCHANGED <<queue, session, parts>>
    <2>1. Typed'
      BY <1>0, <1>1, Popped DEF OwnInv, Typed, parts
    <2>2. CASE listens
      BY <1>0, <1>1, <2>1, <2>2 DEF OwnInv, listens
    <2>3. CASE ~listens
      <3>1. \A i \in DOMAIN below : i \in Nat \ {0} /\ i + 1 \in DOMAIN calls /\ below[i] = calls[i + 1]
        BY <1>0, Popped
      <3>2. \A i \in DOMAIN calls : calls[i].batch \in Nat
        BY <1>0, FrameOf
      <3>3. \A i \in DOMAIN below : below[i].batch < session.batch /\ below[i].then # "setUp"
        BY <2>3, <3>1, <3>2 DEF OwnInv, FramesFit, Typed
      <3>4. below # <<>> => 1 \in DOMAIN below /\ Head(below) = below[1]
        BY <1>0, Popped
      <3>5. FramesFit' /\ ~live' /\ ~atHead("setUp")'
        <4>1. \A i \in DOMAIN below : below[i].batch \in Nat
          BY <3>1, <3>2
        <4> HIDE DEF below
        <4> QED
          BY <1>1, <3>3, <3>4, <4>1 DEF FramesFit, live, goesOn, atHead, OwnInv, Typed
      <3>6. ~live /\ ~atHead("setUp")
        BY <1>0, <1>1 DEF live, atHead
      <3> QED
        BY <1>0, <1>1, <2>1, <2>3, <3>5, <3>6
        DEF OwnInv, parts, RunsFor, InPlace, Rests, Released, ResultsAreOwn, listens
    <2> QED
      BY <2>2, <2>3
  <1>2. CASE goesOn(frame)
    <2>1. live
      BY <1>0, <1>2 DEF live
    <2>2. CASE frame.then = "released"
      BY <1>0, <1>2, <2>1, <2>2, ReleasedKeeps DEF Resume, atHead
    <2>3. CASE frame.then = "recorded"
      BY <1>0, <1>2, <2>1, <2>3, NextFileKeeps DEF Resume, atHead
    <2>4. CASE frame.then \notin {"released", "recorded"}
      <3>1. Within(below) /\ (listens \/ session.running)
        <4>1. 1 \in DOMAIN calls /\ frame = calls[1]
          BY <1>0, Popped
        <4> QED
          BY <1>0, <1>2, <2>1, <2>4, <4>1 DEF Within, OwnInv, FramesFit, goesOn
      <3>2. CASE frame.then = "partial"
        <4>1. finishFile([session EXCEPT !.ok = FALSE], below) /\ UNCHANGED queue
          BY <1>2, <3>2 DEF Resume
        <4> QED
          BY <1>0, <3>1, <4>1, FinishKeeps DEF SameQueue, OwnInv, Typed
      <3>3. CASE frame.then # "partial"
        <4>1. Quiet(below)
          <5>1. \/ afterCleared(below) \/ afterStarted(below) \/ afterDecoded(below)
                \/ afterWholeSent(below)
                \/ afterProgress(below) /\ UNCHANGED <<queue, refiner, mic>>
                \/ calls' = below /\ UNCHANGED <<queue, session, mic>>
            BY <1>2, <2>4, <3>3 DEF Resume
          <5>2. CASE afterCleared(below)
            BY <1>0, <5>2 DEF afterCleared, fileStarted, followsBatch, parts, Quiet, SameQueue,
                              SameSession, OwnInv, Typed, QueueFields
          <5>3. CASE afterStarted(below)
            BY <1>0, <5>3 DEF afterStarted, listenToNothing, prepare, decodes, failFile, emits,
                 Quiet, SameQueue, SameSession, OwnInv, Typed, SessionFields, QueueFields
          <5>4. CASE afterDecoded(below)
            BY <1>0, <5>4 DEF afterDecoded, decodes, Quiet, SameQueue, SameSession, OwnInv, Typed,
                              SessionFields, emits
          <5>5. CASE afterWholeSent(below)
            BY <1>0, <5>5 DEF afterWholeSent, Quiet, SameQueue, SameSession, OwnInv, Typed
          <5>6. CASE afterProgress(below) /\ UNCHANGED <<queue, refiner, mic>>
            BY <1>0, <5>6 DEF afterProgress, readDecodedAudio, emits, Quiet, SameQueue, SameSession,
                              OwnInv, Typed, SessionFields
          <5>7. CASE calls' = below /\ UNCHANGED <<queue, session, mic>>
            BY <1>0, <5>7 DEF Quiet, SameQueue, SameSession, OwnInv, Typed
          <5> QED
            BY <5>1, <5>2, <5>3, <5>4, <5>5, <5>6, <5>7
        <4> QED
          BY <3>1, <4>1, QuietKeeps
      <3> QED
        BY <3>2, <3>3
    <2> QED
      BY <2>2, <2>3, <2>4
  <1> QED
    BY <1>1, <1>2 DEF Resume

(* On the page, only a batch that runs has a file at work. *)
LEMMA AtWork ==
    ASSUME OwnInv, calls = <<>>,
           \/ decoder.pass # "none" \/ stream.provider # "off" \/ refiner.step # "none"
           \/ mic.state # "Off"
    PROVE  Within(<<>>) /\ (listens \/ session.running)
  BY DEF OwnInv, Rests, Released, Within

LEMMA LoopKeeps ==
    ASSUME OwnInv, eventLoop, Quiet(<<>>),
           \/ decoder.pass # "none" \/ stream.provider # "off" \/ refiner.step # "none"
           \/ mic.state # "Off"
    PROVE  OwnInv'
  BY AtWork, QuietKeeps DEF eventLoop

LEMMA CompleteKeeps ==
    ASSUME OwnInv, eventLoop, completeFile(<<>>), UNCHANGED queue,
           stream.provider # "off" \/ refiner.step # "none"
    PROVE  OwnInv'
  BY AtWork, FinishKeeps DEF completeFile, eventLoop, SameQueue, OwnInv, Typed

(* entered() and reportProgress() tell the page the phase, no more. *)
LEMMA PhaseOnly ==
    ASSUME Typed, NEW phase
    PROVE  LET q == entered(queue, phase) IN
           /\ DOMAIN q = QueueFields /\ q.step = queue.step /\ q.batch = queue.batch
           /\ q.results = queue.results /\ q.retrying = queue.retrying
  BY DEF Typed, QueueFields, entered, followsBatch

LEMMA ReportsPhase ==
    ASSUME Typed, NEW s, NEW sent, reportProgress(s, sent)
    PROVE  SameQueue
  BY PhaseOnly DEF reportProgress, SameQueue, Typed

LEMMA OwnDecodes == ASSUME OwnInv, Decodes PROVE OwnInv'
  <1>1. CASE bufferReady
    <2>1. Quiet(<<>>)
      BY <1>1 DEF bufferReady, eventLoop, readDecodedAudio, emits, Quiet, SameQueue, SameSession,
                  OwnInv, Typed, SessionFields
    <2> QED
      BY <1>1, <2>1, LoopKeeps DEF bufferReady
  <1>2. CASE decoderFinished
    <2>1. SameQueue
      BY <1>2, PhaseOnly, ReportsPhase
      DEF decoderFinished, failFile, SameQueue, OwnInv, Typed
    <2>2. SameSession
      BY <1>2 DEF decoderFinished, failFile, SameSession, OwnInv, Typed, SessionFields
    <2>3. /\ calls' = <<>> \/ \E then \in {"partial", "decoded", "wholeSent"} : emits(then, <<>>)
          /\ UNCHANGED mic
      BY <1>2 DEF decoderFinished, failFile, parts, eventLoop
    <2>4. Quiet(<<>>)
      BY <1>2, <2>1, <2>2, <2>3 DEF decoderFinished, eventLoop, Quiet, OwnInv, Typed
    <2> QED
      BY <1>2, <2>4, LoopKeeps DEF decoderFinished
  <1>3. CASE decoderFails
    <2>1. Quiet(<<>>)
      BY <1>3 DEF decoderFails, eventLoop, failFile, parts, emits, Quiet, SameQueue, SameSession,
                  OwnInv, Typed
    <2> QED
      BY <1>3, <2>1, LoopKeeps DEF decoderFails
  <1> QED
    BY <1>1, <1>2, <1>3 DEF Decodes

LEMMA OwnSpeaks ==
    ASSUME OwnInv, Speaks \/ sendNextChunk \/ speakerConnects
    PROVE  OwnInv'
  <1>1. CASE speakerPrepared \/ speakerFails \/ speakerConnects
    <2>1. Quiet(<<>>)
      BY <1>1 DEF speakerPrepared, speakerFails, speakerConnects, eventLoop, makesWay, exhausted,
                  failFile, emits, Quiet, SameQueue, SameSession, OwnInv, Typed
    <2> QED
      BY <1>1, <2>1, LoopKeeps DEF speakerPrepared, speakerFails, speakerConnects
  <1>2. CASE sendNextChunk
    <2>1. SameQueue
      BY <1>2, ReportsPhase DEF sendNextChunk, SameQueue, OwnInv, Typed
    <2>2. SameSession /\ UNCHANGED mic
          /\ (calls' = <<>> \/ emits("progress", <<>>))
      BY <1>2 DEF sendNextChunk, eventLoop, SameSession, OwnInv, Typed
    <2>3. Quiet(<<>>)
      BY <1>2, <2>1, <2>2 DEF sendNextChunk, eventLoop, Quiet, OwnInv, Typed
    <2> QED
      BY <1>2, <2>3, LoopKeeps DEF sendNextChunk, sends
  <1>3. CASE finishTranscription
    <2>1. CASE completeFile(<<>>) /\ UNCHANGED queue
      BY <1>3, <2>1, CompleteKeeps DEF finishTranscription
    <2>2. CASE \/ /\ UNCHANGED <<session, decoder, refiner, mic>>
                  /\ queue' = entered(queue, "Refining")
                  /\ emits("refining", <<>>)
               \/ failFile(<<>>) /\ UNCHANGED parts
      <3>1. SameQueue
        BY <2>2, PhaseOnly DEF failFile, SameQueue, OwnInv, Typed
      <3>2. Quiet(<<>>)
        BY <1>3, <2>2, <3>1 DEF finishTranscription, eventLoop, failFile, parts, emits, Quiet,
                                SameSession, OwnInv, Typed
      <3> QED
        BY <1>3, <3>2, LoopKeeps DEF finishTranscription
    <2> QED
      BY <1>3, <2>1, <2>2 DEF finishTranscription, refine
  <1> QED
    BY <1>1, <1>2, <1>3 DEF Speaks

LEMMA OwnRefines == ASSUME OwnInv, Refines PROVE OwnInv'
  <1>1. eventLoop /\ UNCHANGED queue /\ refiner.step # "none"
    BY DEF Refines, refinerPrepared, refinerAnswers
  <1>2. CASE completeFile(<<>>)
    BY <1>1, <1>2, CompleteKeeps
  <1>3. CASE UNCHANGED <<session, stream, decoder, mic, calls>>
    <2>1. Quiet(<<>>)
      BY <1>1, <1>3 DEF eventLoop, Quiet, SameQueue, SameSession, OwnInv, Typed
    <2> QED
      BY <1>1, <2>1, LoopKeeps
  <1> QED
    BY <1>2, <1>3
    DEF Refines, refinerPrepared, refinerAnswers, prepareNext, completeUnrefined

(* Only the command line listens, and its queue has nothing. *)
LEMMA OwnListens ==
    ASSUME OwnInv, Listens \/ audioChunk \/ finishListening
    PROVE  OwnInv'
  <1>1. listens
    BY DEF Listens, micStarted, micStopped, micFails, audioChunk, finishListening, OwnInv
  <1>2. /\ UNCHANGED <<queue, session, front>> /\ "state" \in DOMAIN mic'
        /\ \/ calls' = calls
           \/ calls' = <<>>
           \/ \E below \in {calls, <<>>} : emits("partial", below)
    BY DEF Listens, micStarted, micStopped, micFails, audioChunk, finishListening,
           finishBeforeListening, listenToNothing, prepare, failFile, eventLoop, OwnInv, Typed
  <1>3. frameOf("partial", session.batch) \in Seq(Frames)
    BY Framed DEF OwnInv, Typed
  <1>4. Typed'
    <2>1. calls \in Seq(Frames) /\ <<>> \in Seq(Frames)
      BY DEF OwnInv, Typed
    <2>2. calls' \in Seq(Frames)
      <3>1. ASSUME NEW below \in {calls, <<>>}, emits("partial", below) PROVE calls' \in Seq(Frames)
        <4>1. below \in Seq(Frames)
          BY <2>1
        <4> QED
          BY <1>3, <3>1, <4>1 DEF emits
      <3> QED
        BY <1>2, <2>1, <3>1
    <2> QED
      BY <1>2, <2>2 DEF OwnInv, Typed
  <1> QED
    BY <1>1, <1>2, <1>4 DEF OwnInv, listens

-----------------------------------------------------------------------------
(* The page's operations, which any handler may call. *)

(* While no batch runs, no signal on the stack is live. *)
LEMMA NoneLive ==
    ASSUME OwnInv, ~listens, ~session.running, queue.step # "Transcribe"
    PROVE  \A i \in DOMAIN calls : calls[i].batch < session.batch /\ calls[i].then # "setUp"
  <1>1. calls # <<>> => 1 \in DOMAIN calls /\ Head(calls) = calls[1]
    BY Popped DEF OwnInv, Typed
  <1>2. \A i \in DOMAIN calls : calls[i].then # "setUp"
    BY <1>1 DEF OwnInv, FramesFit, atHead
  <1>3. \A i \in DOMAIN calls : calls[i].batch \in Nat
    BY FrameOf DEF OwnInv, Typed
  <1> QED
    BY <1>2, <1>3 DEF OwnInv, FramesFit, Typed

LEMMA OwnStart == ASSUME OwnInv, start PROVE OwnInv'
  <1>1. ~listens /\ ~session.running /\ UNCHANGED <<front, session, parts>>
    BY DEF start, page, refusal, listens
  <1>2. /\ DOMAIN queue' = QueueFields /\ queue'.step = "Transcribe" /\ queue'.results = <<>>
        /\ queue'.retrying = queue.retrying
    BY DEF start, OwnInv, Typed, QueueFields
  <1>3. calls' = frameOf("setUp", session.batch) \o calls
    BY DEF start, emits
  <1>4. FramesFit' /\ live' /\ \A name : atHead(name)' <=> name = "setUp"
    <2>1. \A i \in DOMAIN calls : calls[i].batch < session.batch /\ calls[i].then # "setUp"
      BY <1>1, NoneLive DEF start
    <2> QED
      BY <1>1, <1>3, <2>1, PushFits DEF OwnInv, Typed
  <1>5. Typed'
    <2>1. frameOf("setUp", session.batch) \in Seq(Frames)
      BY Framed DEF OwnInv, Typed
    <2>2. calls' \in Seq(Frames)
      BY <1>3, <2>1 DEF OwnInv, Typed
    <2> QED
      BY <1>1, <1>2, <2>2, NoList DEF OwnInv, Typed, parts
  <1> QED
    BY <1>1, <1>2, <1>4, <1>5, NoList DEF OwnInv, Rests, Released, ResultsAreOwn, parts, listens

LEMMA OwnStartSetUp == ASSUME OwnInv, startSetUp PROVE OwnInv'
  <1> DEFINE below == Tail(calls)
  <1>1. ~listens /\ UNCHANGED front /\ calls # <<>> /\ atHead("setUp") /\ calls \in Seq(Frames)
    BY DEF startSetUp, page, listens, atHead, OwnInv, Typed
  <1>2. ~session.running
    <2>1. 1 \in DOMAIN calls /\ Head(calls) = calls[1]
      BY <1>1, Popped
    <2> QED
      BY <1>1, <2>1 DEF OwnInv, FramesFit, atHead
  <1>3. queue.step = "Transcribe" /\ queue.results = <<>> /\ queue.retrying = 0 /\ Released
        /\ mic.state = "Off"
    BY <1>1, <1>2 DEF OwnInv, Rests
  <1>4. below \in Seq(Frames)
        /\ \A i \in DOMAIN below : below[i].batch < session.batch /\ below[i].then # "setUp"
    <2>1. \A i \in DOMAIN below : i \in Nat \ {0} /\ i + 1 \in DOMAIN calls /\ below[i] = calls[i + 1]
      BY <1>1, Popped
    <2>2. \A i \in DOMAIN calls : calls[i].batch \in Nat
      BY <1>1, FrameOf
    <2> QED
      BY <1>1, <2>1, <2>2, Popped DEF OwnInv, FramesFit, Typed
  <1>5. CASE refusal
    <2>1. /\ DOMAIN queue' = QueueFields /\ queue'.step = "Configure" /\ queue'.retrying = 0
          /\ queue'.results = <<>> /\ calls' = below /\ UNCHANGED <<session, parts>>
      BY <1>3, <1>5 DEF startSetUp, OwnInv, Typed, QueueFields
    <2>2. Typed'
      BY <1>4, <2>1, NoList DEF OwnInv, Typed, parts
    <2>3. FramesFit' /\ ~atHead("setUp")'
      <3>1. below # <<>> => 1 \in DOMAIN below /\ Head(below) = below[1]
        BY <1>4, Popped
      <3>2. \A i \in DOMAIN below : below[i].batch \in Nat
        BY <1>4, FrameOf
      <3> HIDE DEF below
      <3> QED
        BY <1>4, <2>1, <3>1, <3>2 DEF FramesFit, atHead, OwnInv, Typed
    <2> QED
      BY <1>1, <1>2, <1>3, <2>1, <2>2, <2>3
      DEF OwnInv, Rests, Released, ResultsAreOwn, parts, listens
  <1>6. CASE ~refusal
    <2>1. beginBatch(queue.batch, queue, below)
      BY <1>6 DEF startSetUp
    <2>2. \A i \in DOMAIN below : below[i].batch <= session.batch /\ below[i].then # "setUp"
      <3>1. \A i \in DOMAIN below : below[i].batch \in Nat
        BY <1>4, FrameOf
      <3> QED
        BY <1>4, <3>1 DEF OwnInv, Typed
    <2>3. DOMAIN queue = QueueFields /\ List(queue.results) /\ queue.retrying \in Nat
      BY DEF OwnInv, Typed
    <2> HIDE DEF below
    <2> QED
      BY <1>1, <1>3, <1>4, <2>1, <2>2, <2>3, BeginKeeps
  <1> QED
    BY <1>5, <1>6

LEMMA OwnRetry == ASSUME OwnInv, retry PROVE OwnInv'
  <1>1. PICK i \in DOMAIN queue.results :
          /\ queue.step = "Export"
          /\ beginBatch(<<queue.results[i].path>>, [queue EXCEPT !.retrying = i], calls)
    BY DEF retry
  <1> DEFINE q == [queue EXCEPT !.retrying = i]
  <1>2. ~listens /\ ~session.running /\ UNCHANGED front
    BY DEF retry, page, refusal, listens
  <1>3. /\ DOMAIN q = QueueFields /\ List(q.results) /\ q.results = queue.results
        /\ q.retrying = i /\ i \in Nat /\ q.step = "Export" /\ q.batch = queue.batch
    <2>1. i \in Nat
      BY ListLen DEF OwnInv, Typed
    <2> QED
      BY <1>1, <2>1 DEF OwnInv, Typed, QueueFields
  <1>4. \A k \in DOMAIN calls : calls[k].batch <= session.batch /\ calls[k].then # "setUp"
    <2>1. \A k \in DOMAIN calls : calls[k].batch \in Nat
      BY FrameOf DEF OwnInv, Typed
    <2> QED
      BY <1>1, <1>2, <2>1, NoneLive DEF OwnInv, Typed
  <1>5. \A k \in DOMAIN queue.results : queue.results[k].path = queue.batch[k]
    BY <1>1, <1>2 DEF OwnInv, ResultsAreOwn
  <1>6. beginBatch(<<queue.results[i].path>>, q, calls) /\ calls \in Seq(Frames)
    BY <1>1 DEF OwnInv, Typed
  <1> HIDE DEF q
  <1> QED
    BY <1>2, <1>3, <1>4, <1>5, <1>6, BeginKeeps

(* A batch that is left for the setup, with the files of the list changed. *)
LEMMA LeftKeeps ==
    ASSUME OwnInv, ~listens, queue.step = "Export", UNCHANGED <<front, calls>>,
           NEW q, DOMAIN q = QueueFields, q.step = "Configure", q.retrying = 0, List(q.results),
           IF queue.retrying > 0 THEN cancelSession(q)
           ELSE queue' = q /\ UNCHANGED <<session, parts>>
    PROVE  OwnInv'
  <1>0. queue' = q
    BY DEF cancelSession
  <1>1. CASE queue.retrying > 0
    <2>1. /\ session' = ended(session.batch + 1) /\ Released'
          /\ "state" \in DOMAIN mic' /\ mic'.state = "Off"
      BY <1>1 DEF cancelSession, releaseFileResources, Released, NoStream, NoDecoder, NoRefiner,
                  OwnInv, Typed
    <2>2. /\ DOMAIN session' = SessionFields /\ session'.results = <<>> /\ session'.index = 0
          /\ session'.batch = session.batch + 1 /\ session'.running = FALSE
      BY <2>1 DEF ended, NoSession, SessionFields
    <2>3. Typed'
      BY <1>0, <2>1, <2>2, NoList DEF OwnInv, Typed
    <2>4. session.running
      BY <1>1 DEF OwnInv, Rests
    <2>5. \A i \in DOMAIN calls : calls[i].batch \in Nat
      BY FrameOf DEF OwnInv, Typed
    <2>6. FramesFit' /\ ~atHead("setUp")'
      BY <2>2, <2>4, <2>5 DEF OwnInv, FramesFit, Typed, atHead
    <2> QED
      BY <1>0, <2>1, <2>2, <2>3, <2>6 DEF OwnInv, Rests, ResultsAreOwn, listens
  <1>2. CASE ~(queue.retrying > 0)
    <2>1. UNCHANGED <<session, parts>>
      BY <1>2
    <2>2. ~session.running
      <3>1. \A i \in DOMAIN queue.results : i \in Nat \ {0}
        BY ListLen DEF OwnInv, Typed
      <3> QED
        BY <1>2, <3>1 DEF OwnInv, RunsFor, Typed
    <2>3. Typed'
      BY <1>0, <2>1 DEF OwnInv, Typed, parts
    <2> QED
      BY <1>0, <2>1, <2>2, <2>3
      DEF OwnInv, FramesFit, Rests, Released, ResultsAreOwn, atHead, parts, listens
  <1> QED
    BY <1>1, <1>2

LEMMA LeavesTyped ==
    ASSUME OwnInv, ~listens, queue.step = "Export"
    PROVE  LET q == backToSetup(IF queue.retrying > 0 THEN cancelled(queue) ELSE queue) IN
           DOMAIN q = QueueFields /\ q.step = "Configure" /\ q.retrying = 0 /\ List(q.results)
  <1>1. CASE queue.retrying > 0
    <2>1. session.running
      BY <1>1 DEF OwnInv, Rests
    <2>2. /\ DOMAIN cancelled(queue) = QueueFields /\ List(cancelled(queue).results)
          /\ cancelled(queue).retrying = 0
      BY <2>1, FinishedFits DEF cancelled
    <2> QED
      BY <1>1, <2>2 DEF backToSetup, QueueFields
  <1>2. CASE ~(queue.retrying > 0)
    BY <1>2 DEF backToSetup, QueueFields, OwnInv, Typed
  <1> QED
    BY <1>1, <1>2

LEMMA OwnLeaves == ASSUME OwnInv, reset \/ addFiles \/ removeFile PROVE OwnInv'
  <1> DEFINE back == backToSetup(IF queue.retrying > 0 THEN cancelled(queue) ELSE queue)
             added(q, file) == IF Contains(q.files, file) THEN q
                               ELSE [q EXCEPT !.files = Append(@, file)]
  <1>1. ~listens /\ UNCHANGED <<front, calls>>
    BY DEF reset, addFiles, removeFile, leaveResults, page, listens
  <1>2. CASE queue.step = "Export" /\ (reset \/ \E file \in Files : leaveResults(LAMBDA q : added(q, file)))
    <2>1. DOMAIN back = QueueFields /\ back.step = "Configure" /\ back.retrying = 0 /\ List(back.results)
      BY <1>1, <1>2, LeavesTyped
    <2>2. CASE reset
      <3>1. IF queue.retrying > 0 THEN cancelSession(back)
            ELSE queue' = back /\ UNCHANGED <<session, parts>>
        BY <2>2 DEF reset, leaveResults
      <3> HIDE DEF back
      <3> QED
        BY <1>1, <1>2, <2>1, <3>1, LeftKeeps
    <2>3. ASSUME NEW file \in Files, leaveResults(LAMBDA q : added(q, file))
          PROVE  OwnInv'
      <3>1. IF queue.retrying > 0 THEN cancelSession(added(back, file))
            ELSE queue' = added(back, file) /\ UNCHANGED <<session, parts>>
        BY <2>3 DEF leaveResults
      <3> HIDE DEF back
      <3>2. /\ DOMAIN added(back, file) = QueueFields /\ added(back, file).step = "Configure"
            /\ added(back, file).retrying = 0 /\ List(added(back, file).results)
        BY <2>1 DEF QueueFields
      <3> HIDE DEF added
      <3> QED
        BY <1>1, <1>2, <3>1, <3>2, LeftKeeps
    <2> QED
      BY <1>2, <2>2, <2>3
  <1>3. CASE SameQueue /\ UNCHANGED <<session, parts>>
    <2>1. Typed'
      BY <1>1, <1>3 DEF OwnInv, Typed, SameQueue, parts
    <2>2. FramesFit' /\ ResultsAreOwn'
      BY <1>1, <1>3 DEF OwnInv, FramesFit, ResultsAreOwn, SameQueue
    <2>3. /\ session.running => (RunsFor /\ InPlace)'
          /\ ~session.running => Rests'
      BY <1>1, <1>3
      DEF OwnInv, RunsFor, InPlace, Rests, Released, SameQueue, live, goesOn, atHead, parts
    <2> QED
      BY <1>1, <1>3, <2>1, <2>2, <2>3 DEF OwnInv, SameQueue, atHead, parts, listens
  <1>4. CASE removeFile \/ (addFiles /\ queue.step # "Export")
    <2>1. SameQueue /\ UNCHANGED <<session, parts>>
      BY <1>4 DEF removeFile, addFiles, leaveResults, SameQueue, OwnInv, Typed, QueueFields
    <2> QED
      BY <1>3, <2>1
  <1> QED
    BY <1>2, <1>4 DEF reset, addFiles, leaveResults

LEMMA OwnStartListening == ASSUME OwnInv, startListening PROVE OwnInv'
  <1>1. listens /\ UNCHANGED front /\ beginBatch(<<"heard">>, queue, calls)
    BY DEF startListening
  <1>2. /\ DOMAIN queue = QueueFields /\ List(queue.results) /\ queue.retrying \in Nat
        /\ queue.step = "Configure" /\ queue.retrying = 0 /\ calls \in Seq(Frames)
    BY <1>1 DEF OwnInv, Typed
  <1>3. Typed'
    <2>1. /\ queue' = queue /\ calls' = frameOf("released", session.batch + 1) \o calls
          /\ DOMAIN session' = SessionFields /\ session'.batch = session.batch + 1
          /\ session'.index = 0 /\ session'.results = <<>> /\ "state" \in DOMAIN mic'
      BY <1>1 DEF beginBatch, NoSession, SessionFields
    <2>2. session.batch + 1 \in Nat
      BY DEF OwnInv, Typed
    <2>3. frameOf("released", session.batch + 1) \in Seq(Frames)
      BY <2>2, Framed
    <2> QED
      BY <1>2, <2>1, <2>2, <2>3, NoList DEF Typed
  <1> QED
    BY <1>1, <1>2, <1>3 DEF OwnInv, beginBatch, listens

LEMMA OwnUntouched ==
    ASSUME OwnInv, dictate \/ UNCHANGED vars
    PROVE  OwnInv'
  <1>1. UNCHANGED <<front, queue, session, stream, decoder, refiner, mic, calls>>
    BY DEF dictate, vars, parts
  <1> QED
    BY <1>1 DEF OwnInv, Typed, FramesFit, RunsFor, InPlace, Rests, Released, ResultsAreOwn,
                live, goesOn, atHead, listens

LEMMA InitOwn == Init => OwnInv
  <1> SUFFICES ASSUME Init PROVE OwnInv
    OBVIOUS
  <1>1. Typed
    BY NoList DEF Init, NoQueue, NoSession, QueueFields, SessionFields, Typed
  <1> QED
    BY <1>1 DEF Init, OwnInv, NoQueue, NoSession, NoStream, NoDecoder, NoRefiner, FramesFit,
                Rests, Released, ResultsAreOwn, atHead

LEMMA NextOwn == ASSUME OwnInv, [Next]_vars PROVE OwnInv'
  <1>1. CASE cancel
    BY <1>1, CancelSessionKeeps DEF cancel
  <1> QED
    BY <1>1, OwnResume, OwnDecodes, OwnSpeaks, OwnRefines, OwnListens, OwnStart,
       OwnStartSetUp, OwnRetry, OwnLeaves, OwnStartListening, OwnUntouched
    DEF Next

(* Each result of the queue is that of the file in its place, through every
   cancel, retry and beginning that a handler may put between two signals. *)
THEOREM ResultsOfOwnFiles == Spec => []ResultsAreOwn
  <1>1. OwnInv => ResultsAreOwn
    BY DEF OwnInv, ResultsAreOwn, listens
  <1> QED
    BY <1>1, InitOwn, NextOwn, PTL DEF Spec

-----------------------------------------------------------------------------
(* That the queue has as many results as the batch has files, on top of
   OwnInv. *)

LEMMA ReplacedLen ==
    ASSUME NEW s, List(s), NEW i \in DOMAIN s, NEW e
    PROVE  Len([s EXCEPT ![i] = e]) = Len(s)
  <1>1. PICK S : s \in Seq(S)
    BY DEF List
  <1> DEFINE T == S \cup {e}
  <1>2. s \in Seq(T) /\ e \in T
    BY <1>1, SeqMonotonic
  <1> HIDE DEF T
  <1> QED
    BY <1>2, ExceptSeq, LenProperties

(* The files left of a list are a list. *)
LEMMA WithoutList ==
    ASSUME NEW files, List(files), NEW done
    PROVE  List(without(files, done))
  <1> DEFINE left == {i \in DOMAIN files : files[i] \notin done}
             place(i) == Cardinality({j \in left : j <= i})
             at(k) == files[CHOOSE i \in left : place(i) = k]
             n == Cardinality(left)
  <1>1. n \in Nat
    <2>1. DOMAIN files = 1..Len(files) /\ Len(files) \in Nat
      BY ListLen
    <2>2. IsFiniteSet(1..Len(files)) /\ left \in SUBSET (1..Len(files))
      BY <2>1, FS_Interval
    <2>3. IsFiniteSet(left)
      BY <2>2, FS_Subset
    <2> QED
      BY <2>3, FS_CardinalityType
  <1>2. without(files, done) = [k \in 1..n |-> at(k)]
    BY DEF without
  <1> HIDE DEF n, at
  <1> DEFINE S == {at(k) : k \in 1..n}
  <1>3. [k \in 1..n |-> at(k)] \in [1..n -> S]
    OBVIOUS
  <1> HIDE DEF S
  <1>4. [k \in 1..n |-> at(k)] \in Seq(S)
    BY <1>1, <1>3, SeqDef
  <1> QED
    BY <1>2, <1>4 DEF List

(* A batch never has more results than files; one that was not cancelled has
   as many when it is over. *)
Shown(q) ==
    q.step = "Export" =>
        /\ Len(q.results) <= Len(q.batch)
        /\ ~q.cancelled => Len(q.results) = Len(q.batch)

FitInv ==
    /\ List(queue.files) /\ List(queue.batch)
    /\ queue.step \in {"Configure", "Transcribe", "Export"}
    /\ ~listens =>
         /\ session.running /\ queue.step = "Transcribe" => session.index <= Len(queue.batch)
         /\ Shown(queue)

(* What most steps do: neither the queue's lists nor the session's place in
   its own change. *)
Steady ==
    /\ queue'.files = queue.files /\ queue'.batch = queue.batch
    /\ queue'.step = queue.step /\ queue'.results = queue.results
    /\ queue'.cancelled = queue.cancelled
    /\ session'.running = session.running /\ session'.index = session.index
    /\ UNCHANGED front

LEMMA SteadyFits == ASSUME FitInv, Steady PROVE FitInv'
  BY DEF FitInv, Steady, Shown, listens

LEMMA EnteredSteady ==
    ASSUME Typed, NEW phase
    PROVE  LET q == entered(queue, phase) IN
           /\ q.files = queue.files /\ q.batch = queue.batch /\ q.step = queue.step
           /\ q.results = queue.results /\ q.cancelled = queue.cancelled
  BY DEF Typed, QueueFields, entered, followsBatch

LEMMA FinishSteady ==
    ASSUME Typed, NEW ok, NEW below, finishFile([session EXCEPT !.ok = ok], below),
           UNCHANGED <<queue, front>>
    PROVE  Steady
  BY DEF finishFile, Steady, Typed, SessionFields

LEMMA CompleteSteady ==
    ASSUME Typed, NEW below, completeFile(below), UNCHANGED <<queue, front>>
    PROVE  Steady
  BY FinishSteady DEF completeFile

LEMMA ReportSteady ==
    ASSUME Typed, NEW s, NEW sent, reportProgress(s, sent)
    PROVE  /\ queue'.files = queue.files /\ queue'.batch = queue.batch
           /\ queue'.step = queue.step /\ queue'.results = queue.results
           /\ queue'.cancelled = queue.cancelled
  BY EnteredSteady DEF reportProgress

(* A batch that ended with every file, or was cancelled. *)
LEMMA EndedFits ==
    ASSUME OwnInv, FitInv, ~listens, session.running, NEW wasCancelled \in BOOLEAN, NEW q,
           q = batchFinished(queue, session.results, wasCancelled),
           ~wasCancelled => Len(session.results) = session.index
                            /\ ~(session.index < Len(session.paths))
    PROVE  /\ q.files = queue.files /\ q.batch = queue.batch
           /\ q.step \in {"Configure", "Export"} /\ Shown(q)
  <1>1. RunsFor /\ InPlace /\ Typed
    BY DEF OwnInv
  <1>2. CASE queue.step = "Transcribe" /\ queue.retrying = 0
    <2>1. session.paths = queue.batch /\ session.results = queue.results
      BY <1>1, <1>2 DEF RunsFor
    <2>2. session.index \in Nat /\ Len(queue.batch) \in Nat /\ session.index <= Len(queue.batch)
      BY <1>1, <1>2, ListLen DEF Typed, FitInv
    <2>3. Len(queue.results) <= Len(queue.batch)
      BY <1>1, <2>1, <2>2 DEF InPlace
    <2>4. ~wasCancelled => Len(queue.results) = Len(queue.batch)
      BY <2>1, <2>2
    <2>5. /\ q.files = queue.files /\ q.batch = queue.batch /\ q.results = queue.results
          /\ q.cancelled = wasCancelled /\ q.step \in {"Configure", "Export"}
      BY <1>1, <1>2 DEF Typed, QueueFields, batchFinished
    <2> QED
      BY <2>3, <2>4, <2>5 DEF Shown
  <1>3. CASE queue.step = "Export" /\ queue.retrying \in DOMAIN queue.results
    <2>1. queue.retrying > 0
      BY <1>1, <1>3, ListLen DEF Typed
    <2>2. /\ q.files = queue.files /\ q.batch = queue.batch /\ q.step = "Export"
          /\ q.cancelled = queue.cancelled
          /\ \/ q.results = queue.results
             \/ q.results = [queue.results EXCEPT ![queue.retrying] = Head(session.results)]
      BY <1>1, <1>3, <2>1 DEF Typed, QueueFields, batchFinished
    <2>3. Len(q.results) = Len(queue.results)
      BY <1>1, <1>3, <2>2, ReplacedLen DEF Typed
    <2>4. Shown(queue) /\ queue.step = "Export"
      BY <1>3 DEF FitInv
    <2> QED
      BY <2>2, <2>3, <2>4 DEF Shown
  <1> QED
    BY <1>1, <1>2, <1>3 DEF RunsFor

LEMMA EndingFits ==
    ASSUME OwnInv, FitInv, listens \/ session.running, NEW wasCancelled \in BOOLEAN,
           queue' = batchFinished(queue, session.results, wasCancelled), UNCHANGED front,
           ~listens /\ ~wasCancelled => Len(session.results) = session.index
                                        /\ ~(session.index < Len(session.paths))
    PROVE  FitInv'
  <1>1. CASE listens
    <2>1. queue' = queue
      BY <1>1 DEF OwnInv, batchFinished
    <2> QED
      BY <1>1, <2>1 DEF FitInv, listens
  <1>2. CASE ~listens
    <2>1. /\ queue'.files = queue.files /\ queue'.batch = queue.batch
          /\ queue'.step \in {"Configure", "Export"} /\ Shown(queue')
      BY <1>2, EndedFits
    <2> QED
      BY <1>2, <2>1 DEF FitInv, Shown, listens
  <1> QED
    BY <1>1, <1>2

LEMMA NextFileFits ==
    ASSUME OwnInv, FitInv, live, nextFile(Tail(calls)), UNCHANGED front,
           atHead("recorded") \/ (atHead("released") /\ session.index = 0)
    PROVE  FitInv'
  <1>1. ~listens => session.running /\ Len(session.results) = session.index
    <2>1. ~listens => 1 \in DOMAIN calls /\ Head(calls) = calls[1]
      BY Popped DEF OwnInv, Typed, live
    <2>2. ~listens => session.running
      BY <2>1 DEF OwnInv, FramesFit, live, goesOn, atHead
    <2> QED
      BY <2>2 DEF OwnInv, InPlace
  <1>2. CASE session.index < Len(session.paths)
    <2>1. /\ session'.running = session.running /\ session'.index = session.index + 1
          /\ queue' = queue
      BY <1>2 DEF nextFile, OwnInv, Typed, SessionFields
    <2>2. ~listens /\ queue.step = "Transcribe" => session.index + 1 <= Len(queue.batch)
      <3>1. ~listens /\ queue.step = "Transcribe" => session.paths = queue.batch
        BY <1>1 DEF OwnInv, RunsFor
      <3>2. session.index \in Nat /\ Len(queue.batch) \in Nat
        BY ListLen DEF OwnInv, Typed, FitInv
      <3> QED
        BY <1>2, <3>1, <3>2
    <2> QED
      BY <2>1, <2>2 DEF FitInv, listens
  <1>3. CASE ~(session.index < Len(session.paths))
    <2>1. queue' = batchFinished(queue, session.results, FALSE)
      BY <1>3 DEF nextFile
    <2> QED
      BY <1>1, <1>3, <2>1, EndingFits
  <1> QED
    BY <1>2, <1>3

LEMMA ReleasedFits ==
    ASSUME OwnInv, FitInv, live, atHead("released"), afterReleased(Tail(calls)), UNCHANGED front
    PROVE  FitInv'
  <1>1. CASE session.index = 0
    BY <1>1, NextFileFits DEF afterReleased
  <1>2. CASE session.index # 0
    <2>1. /\ session'.running = session.running /\ session'.index = session.index
          /\ queue'.files = queue.files /\ queue'.batch = queue.batch
          /\ queue'.step = queue.step /\ queue'.cancelled = queue.cancelled
          /\ queue.step = "Export" => queue' = queue
      BY <1>2 DEF afterReleased, fileFinished, followsBatch, OwnInv, Typed, SessionFields,
                  QueueFields
    <2> QED
      BY <2>1 DEF FitInv, Shown, listens
  <1> QED
    BY <1>1, <1>2

LEMMA ResumeFits == ASSUME OwnInv, FitInv, Resume PROVE FitInv'
  <1> DEFINE below == Tail(calls)
             frame == Head(calls)
  <1>0. calls # <<>> /\ UNCHANGED front /\ Typed
    BY DEF Resume, OwnInv
  <1>1. CASE UNCHANGED <<queue, session>>
    BY <1>0, <1>1, SteadyFits DEF Steady
  <1>2. CASE goesOn(frame) /\ frame.then = "released" /\ afterReleased(below)
    BY <1>0, <1>2, ReleasedFits DEF live, atHead
  <1>3. CASE goesOn(frame) /\ frame.then = "recorded" /\ nextFile(below)
    BY <1>0, <1>3, NextFileFits DEF live, atHead
  <1>4. CASE afterCleared(below)
    <2>1. Steady
      BY <1>0, <1>4 DEF afterCleared, fileStarted, followsBatch, Steady, Typed, QueueFields
    <2> QED
      BY <2>1, SteadyFits
  <1>5. CASE afterStarted(below)
    <2>1. Steady
      BY <1>0, <1>5 DEF afterStarted, listenToNothing, prepare, failFile, Steady, Typed,
                        SessionFields
    <2> QED
      BY <2>1, SteadyFits
  <1>6. CASE afterDecoded(below)
    <2>1. Steady
      BY <1>0, <1>6 DEF afterDecoded, Steady, Typed, SessionFields
    <2> QED
      BY <2>1, SteadyFits
  <1>7. CASE afterProgress(below) /\ UNCHANGED queue
    <2>1. Steady
      BY <1>0, <1>7 DEF afterProgress, readDecodedAudio, Steady, Typed, SessionFields
    <2> QED
      BY <2>1, SteadyFits
  <1>8. CASE finishFile([session EXCEPT !.ok = FALSE], below) /\ UNCHANGED queue
    BY <1>0, <1>8, FinishSteady, SteadyFits
  <1> QED
    BY <1>1, <1>2, <1>3, <1>4, <1>5, <1>6, <1>7, <1>8 DEF Resume, afterWholeSent

LEMMA WorkFits ==
    ASSUME OwnInv, FitInv, Decodes \/ Speaks \/ sendNextChunk \/ speakerConnects \/ Refines
    PROVE  FitInv'
  <1>0. Typed
    BY DEF OwnInv
  <1>1. CASE bufferReady \/ decoderFails
    <2>1. Steady
      BY <1>0, <1>1 DEF bufferReady, decoderFails, failFile, eventLoop, readDecodedAudio, Steady,
                        Typed, SessionFields
    <2> QED
      BY <2>1, SteadyFits
  <1>2. CASE decoderFinished
    <2>1. session'.running = session.running /\ session'.index = session.index /\ UNCHANGED front
      BY <1>0, <1>2 DEF decoderFinished, failFile, eventLoop, Typed, SessionFields
    <2>2. \/ queue' = queue \/ queue' = entered(queue, "Transcribing")
          \/ reportProgress(session', stream.sent)
      BY <1>2 DEF decoderFinished, failFile
    <2>3. Steady
      BY <1>0, <2>1, <2>2, EnteredSteady, ReportSteady DEF Steady
    <2> QED
      BY <2>3, SteadyFits
  <1>3. CASE speakerPrepared \/ speakerFails \/ speakerConnects
    <2>1. Steady
      BY <1>3 DEF speakerPrepared, speakerFails, speakerConnects, eventLoop, makesWay, exhausted,
                  failFile, Steady
    <2> QED
      BY <2>1, SteadyFits
  <1>4. CASE sendNextChunk
    <2>1. UNCHANGED <<session, front>>
          /\ (queue' = queue \/ reportProgress(session, stream'.sent))
      BY <1>4 DEF sendNextChunk, eventLoop
    <2>2. Steady
      BY <1>0, <2>1, ReportSteady DEF Steady
    <2> QED
      BY <2>2, SteadyFits
  <1>5. CASE finishTranscription
    <2>1. UNCHANGED front
      BY <1>5 DEF finishTranscription, eventLoop
    <2>2. CASE completeFile(<<>>) /\ UNCHANGED queue
      BY <1>0, <2>1, <2>2, CompleteSteady, SteadyFits
    <2>3. CASE UNCHANGED session /\ (queue' = queue \/ queue' = entered(queue, "Refining"))
      <3>1. Steady
        BY <1>0, <2>1, <2>3, EnteredSteady DEF Steady
      <3> QED
        BY <3>1, SteadyFits
    <2> QED
      BY <1>5, <2>2, <2>3 DEF finishTranscription, refine, failFile
  <1>6. CASE Refines
    <2>1. UNCHANGED <<front, queue>>
      BY <1>6 DEF Refines, refinerPrepared, refinerAnswers, eventLoop
    <2>2. completeFile(<<>>) \/ UNCHANGED session
      BY <1>6 DEF Refines, refinerPrepared, refinerAnswers, prepareNext, completeUnrefined
    <2>3. CASE completeFile(<<>>)
      BY <1>0, <2>1, <2>3, CompleteSteady, SteadyFits
    <2>4. CASE UNCHANGED session
      BY <2>1, <2>4, SteadyFits DEF Steady
    <2> QED
      BY <2>2, <2>3, <2>4
  <1> QED
    BY <1>1, <1>2, <1>3, <1>4, <1>5, <1>6 DEF Decodes, Speaks

LEMMA ListensFits ==
    ASSUME OwnInv, FitInv, Listens \/ audioChunk \/ finishListening \/ startListening
    PROVE  FitInv'
  <1>1. CASE Listens \/ audioChunk \/ finishListening
    <2>1. Steady
      BY <1>1 DEF Listens, micStarted, micStopped, micFails, audioChunk, finishListening,
                  finishBeforeListening, listenToNothing, prepare, failFile, eventLoop, Steady
    <2> QED
      BY <2>1, SteadyFits
  <1>2. CASE startListening
    <2>1. listens /\ UNCHANGED <<queue, front>>
      BY <1>2 DEF startListening, beginBatch
    <2> QED
      BY <2>1 DEF FitInv, listens
  <1> QED
    BY <1>1, <1>2

LEMMA BeginFits ==
    ASSUME FitInv, NEW paths, NEW q, NEW below, beginBatch(paths, q, below), UNCHANGED front,
           q.files = queue.files, q.batch = queue.batch, q.step = queue.step, Shown(q)
    PROVE  FitInv'
  <1>1. queue' = q /\ session'.index = 0
    BY DEF beginBatch, NoSession
  <1>2. Len(queue.batch) \in Nat
    BY ListLen DEF FitInv
  <1> QED
    BY <1>1, <1>2 DEF FitInv, listens

LEMMA StartFits == ASSUME OwnInv, FitInv, start \/ startSetUp \/ retry \/ cancel PROVE FitInv'
  <1>0. Typed
    BY DEF OwnInv
  <1>1. CASE start
    <2>1. /\ queue'.files = queue.files /\ queue'.batch = queue.files
          /\ queue'.step = "Transcribe" /\ ~session.running /\ UNCHANGED <<front, session>>
      BY <1>0, <1>1 DEF start, page, refusal, Typed, QueueFields
    <2> QED
      BY <2>1 DEF FitInv, Shown, listens
  <1>2. CASE startSetUp
    <2>1. UNCHANGED front /\ ~listens /\ atHead("setUp")
      BY <1>2 DEF startSetUp, page, listens, atHead
    <2>2. queue.step = "Transcribe"
      BY <2>1 DEF OwnInv
    <2>3. CASE refusal
      <3>1. /\ queue'.files = queue.files /\ queue'.batch = queue.batch
            /\ queue'.step = "Configure"
        BY <1>0, <1>2, <2>3 DEF startSetUp, Typed, QueueFields
      <3> QED
        BY <2>1, <3>1 DEF FitInv, Shown, listens
    <2>4. CASE ~refusal
      <3>1. beginBatch(queue.batch, queue, Tail(calls))
        BY <1>2, <2>4 DEF startSetUp
      <3> QED
        BY <2>1, <2>2, <3>1, BeginFits DEF Shown
    <2> QED
      BY <2>3, <2>4
  <1>3. CASE retry
    <2>1. PICK i \in DOMAIN queue.results :
            /\ queue.step = "Export"
            /\ beginBatch(<<queue.results[i].path>>, [queue EXCEPT !.retrying = i], calls)
      BY <1>3 DEF retry
    <2> DEFINE q == [queue EXCEPT !.retrying = i]
    <2>2. UNCHANGED front /\ ~listens
      BY <1>3 DEF retry, page, listens
    <2>3. q.files = queue.files /\ q.batch = queue.batch /\ q.step = queue.step /\ Shown(q)
      BY <1>0, <2>2 DEF Typed, QueueFields, FitInv, Shown
    <2>4. beginBatch(<<queue.results[i].path>>, q, calls)
      BY <2>1
    <2> HIDE DEF q
    <2> QED
      BY <2>2, <2>3, <2>4, BeginFits
  <1>4. CASE cancel
    <2>1. /\ session.running /\ UNCHANGED front
          /\ queue' = batchFinished(queue, session.results, TRUE)
      BY <1>4 DEF cancel, cancelSession, cancelled
    <2> QED
      BY <2>1, EndingFits
  <1> QED
    BY <1>1, <1>2, <1>3, <1>4

(* Leaving the results changes the list of files, to another list. *)
LEMMA LeavesFits == ASSUME OwnInv, FitInv, reset \/ addFiles \/ removeFile PROVE FitInv'
  <1> DEFINE left == IF queue.retrying > 0 THEN cancelled(queue) ELSE queue
             back == backToSetup(left)
             added(q, file) == IF Contains(q.files, file) THEN q
                               ELSE [q EXCEPT !.files = Append(@, file)]
  <1>0. Typed /\ UNCHANGED front /\ ~listens
    BY DEF OwnInv, reset, addFiles, removeFile, leaveResults, page, listens
  <1>1. CASE queue.step = "Export" /\ (reset \/ \E file \in Files : leaveResults(LAMBDA q : added(q, file)))
    <2>1. DOMAIN left = QueueFields /\ List(left.files) /\ List(left.batch)
      <3>1. CASE queue.retrying > 0
        <4>1. session.running
          BY <1>0, <3>1 DEF OwnInv, Rests
        <4>2. DOMAIN cancelled(queue) = QueueFields
          BY <4>1, FinishedFits DEF cancelled
        <4>3. cancelled(queue).files = queue.files /\ cancelled(queue).batch = queue.batch
          BY <1>0, <4>1, EndedFits DEF cancelled
        <4> QED
          BY <3>1, <4>2, <4>3 DEF FitInv
      <3>2. CASE ~(queue.retrying > 0)
        BY <1>0, <3>2 DEF Typed, FitInv
      <3> QED
        BY <3>1, <3>2
    <2> HIDE DEF left
    <2>2. /\ DOMAIN back = QueueFields /\ back.step = "Configure"
          /\ List(back.files) /\ List(back.batch)
      <3>1. /\ DOMAIN back = QueueFields /\ back.step = "Configure" /\ back.batch = left.batch
            /\ back.files = without(left.files, {left.results[i].path : i \in DOMAIN left.results})
        BY <2>1 DEF backToSetup, QueueFields
      <3>2. List(back.files)
        BY <2>1, <3>1, WithoutList
      <3> QED
        BY <2>1, <3>1, <3>2
    <2>3. CASE reset
      <3>1. queue' = back
        BY <2>3 DEF reset, leaveResults, cancelSession, left
      <3> QED
        BY <1>0, <2>2, <3>1 DEF FitInv, Shown, listens
    <2>4. ASSUME NEW file \in Files, leaveResults(LAMBDA q : added(q, file))
          PROVE  FitInv'
      <3>1. queue' = added(back, file)
        BY <2>4 DEF leaveResults, cancelSession, left
      <3> HIDE DEF back
      <3>2. /\ added(back, file).step = "Configure"
            /\ List(added(back, file).files) /\ List(added(back, file).batch)
        BY <2>2, Appended DEF QueueFields
      <3> HIDE DEF added
      <3> QED
        BY <1>0, <3>1, <3>2 DEF FitInv, Shown, listens
    <2> QED
      BY <1>1, <2>3, <2>4
  <1>2. CASE (removeFile \/ (addFiles /\ queue.step # "Export")) /\ queue' # queue
    <2>1. PICK files : queue' = [queue EXCEPT !.files = files] /\ List(files)
      <3>1. CASE removeFile
        <4>1. PICK file \in Files : queue' = [queue EXCEPT !.files = without(queue.files, {file})]
          BY <3>1 DEF removeFile
        <4>2. List(without(queue.files, {file}))
          BY WithoutList DEF FitInv
        <4> QED
          BY <4>1, <4>2
      <3>2. CASE addFiles /\ queue.step # "Export"
        <4>1. PICK file \in Files : queue' = added(queue, file)
          BY <3>2 DEF addFiles, leaveResults
        <4>2. queue' = [queue EXCEPT !.files = Append(queue.files, file)]
          BY <1>2, <4>1
        <4> QED
          BY <4>2, Appended DEF FitInv
      <3> QED
        BY <1>2, <3>1, <3>2
    <2>2. /\ queue'.files = files /\ queue'.batch = queue.batch /\ queue'.step = queue.step
          /\ queue'.results = queue.results /\ queue'.cancelled = queue.cancelled
          /\ UNCHANGED session
      BY <1>0, <1>2, <2>1 DEF Typed, QueueFields, removeFile, addFiles, leaveResults
    <2> QED
      BY <1>0, <2>1, <2>2 DEF FitInv, Shown, listens
  <1>3. CASE UNCHANGED <<queue, session>>
    BY <1>0, <1>3, SteadyFits DEF Steady
  <1> QED
    BY <1>1, <1>2, <1>3 DEF reset, addFiles, removeFile, leaveResults

(* What FitInv and OwnInv say together. *)
LEMMA FitShows == ASSUME OwnInv, FitInv PROVE ResultsFitBatch
  <1>1. ResultsAreOwn
    BY DEF OwnInv, ResultsAreOwn, listens
  <1>2. CASE listens
    BY <1>1, <1>2 DEF OwnInv, ResultsFitBatch
  <1>3. CASE ~listens /\ queue.step = "Transcribe"
    <2>0. Len(queue.batch) \in Nat /\ session.index \in Nat
      BY ListLen DEF FitInv, OwnInv, Typed
    <2>1. CASE session.running
      <3>1. session.results = queue.results
        BY <1>3, <2>1 DEF OwnInv, RunsFor
      <3>2. session.index <= Len(queue.batch)
        BY <1>3, <2>1 DEF FitInv
      <3>3. Len(queue.results) <= Len(queue.batch)
        BY <1>3, <2>0, <2>1, <3>1, <3>2 DEF OwnInv, InPlace
      <3> QED
        BY <1>1, <1>3, <3>3 DEF ResultsFitBatch
    <2>2. CASE ~session.running
      <3>1. queue.results = <<>>
        BY <1>3, <2>2 DEF OwnInv, Rests
      <3>2. Len(queue.results) <= Len(queue.batch)
        BY <2>0, <3>1, NoList
      <3> QED
        BY <1>1, <1>3, <3>2 DEF ResultsFitBatch
    <2> QED
      BY <2>1, <2>2
  <1>4. CASE ~listens /\ queue.step # "Transcribe"
    <2>1. queue.step # "Configure" => queue.step = "Export"
      BY <1>4 DEF FitInv
    <2> QED
      BY <1>1, <1>4, <2>1 DEF FitInv, Shown, ResultsFitBatch
  <1> QED
    BY <1>2, <1>3, <1>4

(* A batch that was not cancelled shows a result for every file, no batch
   shows more, and each is its own file's. *)
THEOREM ResultsFit == Spec => []ResultsFitBatch
  <1>1. Init => OwnInv /\ FitInv
    <2> SUFFICES ASSUME Init PROVE FitInv
      BY InitOwn
    <2> QED
      BY NoList DEF Init, NoQueue, FitInv, Shown, NoSession
  <1>2. ASSUME OwnInv /\ FitInv, [Next]_vars PROVE (OwnInv /\ FitInv)'
    <2>1. CASE dictate \/ UNCHANGED vars
      <3>1. Steady
        BY <2>1 DEF dictate, vars, parts, Steady
      <3> QED
        BY <1>2, <3>1, SteadyFits, NextOwn
    <2> QED
      BY <1>2, <2>1, NextOwn, ResumeFits, WorkFits, ListensFits, StartFits, LeavesFits
      DEF Next
  <1> QED
    BY <1>1, <1>2, FitShows, PTL DEF Spec
=============================================================================
