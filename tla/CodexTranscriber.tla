-------------------------- MODULE CodexTranscriber --------------------------
(***************************************************************************)
(* CodexSpeechTranscriber and its CodexDictationClient: audio and the      *)
(* flushes between utterances wait for session.started, a finish waits     *)
(* with them, and the attempt ends with the session the service closes.    *)
(* Then, when the settings ask for it, all of the audio is transcribed     *)
(* once more in one piece.                                                 *)
(*                                                                         *)
(* As with Claude, each attempt has a client of its own and only the       *)
(* newest is kept, and the service is external: it takes what is sent at   *)
(* once, in order, and its events wait in a queue.                         *)
(***************************************************************************)
EXTENDS TranscriberContract, Sequences, FiniteSets, Functions

CONSTANTS
    MostHeld,    \* maxRetranscribeBytes, in chunks
    MaxEvents,   \* bound: events of the service on their way
    Crossing     \* services whose events may cross the client's close

VARIABLES
    client,   \* the CodexDictationClient, and what the transcriber keeps of its attempt
    socket,   \* its WebSocket; "broken" has had its error and not its disconnected()
    timers,   \* timers that run
    server    \* the service: what it got, what it answered, its events

codexVars == <<attempt, client, socket, timers, server>>

Flush == 0   \* audio.flush among the chunks

\* asked: what the calls handed over; heard: the finals passed on.
NewClient(retranscribe) ==
    [started |-> FALSE, finish |-> FALSE, finalizing |-> FALSE, closed |-> FALSE,
     cancelled |-> FALSE, failed |-> FALSE, connecting |-> FALSE, pending |-> << >>,
     finals |-> {}, heard |-> << >>, asked |-> << >>,
     retranscribe |-> retranscribe, held |-> 0, posted |-> 0]
NewServer == [greeted |-> FALSE, got |-> << >>, closing |-> FALSE, late |-> FALSE,
              said |-> 0, events |-> << >>]

takes(s, items) == [s EXCEPT !.got = @ \o items, !.late = @ \/ s.closing]
Deaf(c) == c.finish \/ c.finalizing \/ c.closed \/ c.cancelled \/ c.failed
Calm == ~client.connecting

\* fail(), for an attempt left as a.
fail(c, a) ==
    IF c.cancelled \/ c.failed \/ c.closed
    THEN client' = c /\ attempt' = a
    ELSE client' = [c EXCEPT !.failed = TRUE] /\ attempt' = Ended(a, "failed")

\* completed(), as the transcriber takes it: audio is held only while the
\* whole of it may be transcribed again.
completed(c) ==
    IF c.retranscribe /\ c.finish /\ c.held > 0
    THEN client' = [c EXCEPT !.posted = c.held, !.held = 0] /\ attempt' = attempt
    ELSE client' = [c EXCEPT !.held = 0] /\ attempt' = Ended(attempt, "completed")

flushPendingAudio(c, s) == IF c.pending = << >> THEN s ELSE takes(s, c.pending)

requestFinalization(c) ==
    IF ~c.started \/ c.finalizing \/ c.closed \/ c.failed
    THEN client' = c /\ UNCHANGED <<server, timers>>
    ELSE /\ client' = [c EXCEPT !.finalizing = TRUE, !.pending = << >>]
         /\ server' = [takes(flushPendingAudio(c, server), <<Flush>>) EXCEPT !.closing = TRUE]
         /\ timers' = timers \cup {"close"}

-----------------------------------------------------------------------------
(* The calls, which may come while the client tells of its connection.     *)

startAttempt ==
    /\ MayOpen
    /\ attempt' = Opened
    /\ \E retranscribe \in BOOLEAN : client' = NewClient(retranscribe)
    /\ socket' = "connecting" /\ timers' = {"connect"} /\ server' = NewServer

\* Audio past the limit takes all that was held with it.
hold(c) ==
    IF ~c.retranscribe THEN c
    ELSE IF c.held + 1 > MostHeld THEN [c EXCEPT !.retranscribe = FALSE, !.held = 0]
    ELSE [c EXCEPT !.held = @ + 1]

\* A chunk or a flush goes out, or waits for the session.
Pass(c, item) ==
    IF Deaf(c) THEN client' = c /\ UNCHANGED server
    ELSE IF c.started
    THEN client' = [c EXCEPT !.asked = Append(@, item)] /\ server' = takes(server, <<item>>)
    ELSE client' = [c EXCEPT !.asked = Append(@, item), !.pending = Append(@, item)] /\ UNCHANGED server

sendAudio ==
    /\ MaySend
    /\ attempt' = Handed(attempt, TRUE)
    /\ Pass(hold(client), attempt'.sent)
    /\ UNCHANGED <<socket, timers>>

\* Utterances end only where there is audio.
endUtterance ==
    /\ attempt.phase = "open" /\ client.asked # << >> /\ client.asked[Len(client.asked)] # Flush
    /\ Pass(client, Flush)
    /\ UNCHANGED <<attempt, socket, timers>>

finishInput ==
    /\ MayFinish
    /\ attempt' = Told
    /\ IF Deaf([client EXCEPT !.failed = FALSE])
       THEN UNCHANGED <<client, server, timers>>
       ELSE requestFinalization([client EXCEPT !.finish = TRUE])
    /\ UNCHANGED socket

cancelAttempt ==
    /\ MayCancel
    /\ attempt' = LetGo
    /\ client' = [client EXCEPT !.cancelled = TRUE, !.pending = << >>, !.held = 0, !.posted = 0]
    /\ socket' = "closed" /\ timers' = timers \ {"close"}
    /\ UNCHANGED server

-----------------------------------------------------------------------------
(* The socket and the timers.                                              *)

\* session.start goes out; the audio waits for its answer.
Connected ==
    /\ Calm /\ socket = "connecting" /\ socket' = "open"
    /\ UNCHANGED <<attempt, client, timers, server>>

\* A live stream that nobody finished was ended by the service.
Live == client.started /\ ~client.finish /\ ~client.finalizing

Disconnected ==
    /\ Calm /\ socket # "closed" /\ socket' = "closed"
    /\ IF client.cancelled \/ client.closed \/ client.failed THEN UNCHANGED <<client, attempt>>
       ELSE IF Live THEN completed([client EXCEPT !.closed = TRUE])
       ELSE fail(client, attempt)
    /\ UNCHANGED <<timers, server>>

\* The error of a remote end says nothing yet while the stream is live.
ErrorOccurred ==
    /\ Calm /\ socket \in {"connecting", "open"}
    /\ \/ Live /\ socket' = "broken" /\ UNCHANGED <<client, attempt>>
       \/ /\ fail(client, attempt)
          /\ socket' \in IF socket = "connecting" THEN {"broken", "closed"} ELSE {"broken"}
    /\ UNCHANGED <<timers, server>>

Due(timer) ==
    CASE timer = "connect" -> ~client.started /\ ~client.cancelled
      [] timer = "close" -> client.finalizing /\ ~client.closed

\* Every piece of text starts the wait for the close anew.
Timeout ==
    /\ Calm
    /\ \E timer \in timers :
         /\ timers' = timers \ {timer}
         /\ IF Due(timer) /\ ~client.failed
            THEN fail(client, attempt) /\ socket' = "closed"
            ELSE UNCHANGED <<client, attempt, socket>>
    /\ UNCHANGED server

\* Silence keeps an idle session, and is no audio of the dictation.
KeepAlive ==
    /\ Calm /\ client.started /\ socket = "open"
    /\ ~client.finalizing /\ ~client.closed /\ ~client.cancelled /\ ~client.failed
    /\ server' = takes(server, << >>)
    /\ UNCHANGED <<attempt, client, socket, timers>>

-----------------------------------------------------------------------------
(* The service's events, and what handleTextMessage() does with each.      *)

\* Mutant: the finish that waited is forgotten.
ConnectedToldOnly ==
    /\ client.connecting
    /\ client' = [client EXCEPT !.connecting = FALSE]
    /\ UNCHANGED <<attempt, socket, timers, server>>

\* What waited goes first; connected() is told before a finish that waited
\* is seen to.
SessionStarted ==
    /\ IF client.started THEN UNCHANGED <<client, server>>
       ELSE /\ client' = [client EXCEPT !.started = TRUE, !.connecting = TRUE, !.pending = << >>]
            /\ server' = flushPendingAudio(client, server)
    /\ UNCHANGED <<attempt, socket, timers>>

ConnectedTold ==
    /\ client.connecting
    /\ LET c == [client EXCEPT !.connecting = FALSE] IN
       IF c.finish THEN requestFinalization(c) ELSE client' = c /\ UNCHANGED <<server, timers>>
    /\ UNCHANGED <<attempt, socket>>

\* The session closed, as asked or by the service itself.
SessionClosed ==
    /\ IF client.closed THEN UNCHANGED <<client, attempt, socket>>
       ELSE completed([client EXCEPT !.closed = TRUE]) /\ socket' = "closing"
    /\ UNCHANGED timers

FinalTranscript(upTo) ==
    /\ IF upTo \in client.finals THEN UNCHANGED <<client, attempt>>
       ELSE /\ client' = [client EXCEPT !.finals = @ \cup {upTo}, !.heard = Append(@, upTo)]
            /\ attempt' = Accounted(attempt, attempt.words \cup 1..upTo)
    /\ UNCHANGED <<socket, timers>>

\* An utterance that failed, a session error or no event at all.
ErrorEvent == fail(client, attempt) /\ socket' = "closing" /\ UNCHANGED timers

Receive ==
    /\ Calm /\ socket \in {"open", "closing"} /\ server.events # << >>
    /\ LET event == Head(server.events)
           rest == [server EXCEPT !.events = Tail(@)]
       IN  \/ event.type = "final" /\ FinalTranscript(event.upTo) /\ server' = rest
           \/ event.type = "closed" /\ SessionClosed /\ server' = rest
           \/ event.type = "error" /\ ErrorEvent /\ server' = rest

\* Every utterance has a final with a number of its own, which may come again.
Heard == Cardinality(Range(server.got) \ {Flush})

ServerSays(s, event) ==
    /\ Calm /\ socket = "open" /\ Len(server.events) < MaxEvents
    /\ server' = [s EXCEPT !.events = Append(@, event)]
    /\ UNCHANGED <<attempt, client, socket, timers>>

\* The service closes a session once it has said all, or by itself, and its
\* event may then cross the client's own close.
MayClose ==
    \/ server.closing /\ server.said = Heard
    \/ ~server.closing /\ client.started /\ "codex" \in Crossing

Serve ==
    \/ Calm /\ socket = "open" /\ SessionStarted
    \/ ServerSays(server, [type |-> "error"])
    \/ \E upTo \in {Heard, server.said} \ {0} :
          client.started /\ ServerSays([server EXCEPT !.said = upTo], [type |-> "final", upTo |-> upTo])
    \/ MayClose /\ ServerSays(server, [type |-> "closed"])
    \* The service closes a session itself, which is read before the client closes it.
    \/ /\ Calm /\ client.started /\ ~server.closing /\ socket = "open" /\ server.events = << >>
       /\ SessionClosed
       /\ UNCHANGED server

\* The second transcription: it failed or lost words, or replaces the first;
\* the deadline aborts one that does not answer.
Retranscribed ==
    /\ Calm /\ client.posted > 0
    /\ client' = [client EXCEPT !.posted = 0]
    /\ \E words \in {attempt.words, 1..attempt.sent} :
          attempt' = Ended(Accounted(attempt, words), "completed")
    /\ UNCHANGED <<socket, timers, server>>

-----------------------------------------------------------------------------
CodexInit ==
    /\ ContractInit
    /\ client = NewClient(FALSE) /\ socket = "closed" /\ timers = {} /\ server = NewServer

CodexNext ==
    \/ startAttempt \/ sendAudio \/ endUtterance \/ finishInput \/ cancelAttempt
    \/ Connected \/ Disconnected \/ ErrorOccurred \/ Timeout \/ KeepAlive
    \/ ConnectedTold \/ Receive \/ Serve \/ Retranscribed

\* The timers, the code's own returns and the reply's deadline are sure to come.
CodexCode == Timeout \/ ConnectedTold \/ Retranscribed

\* The service gets audio and flushes in order and whole, nothing after
\* session.close, each utterance is passed on once, and only a recording held
\* whole is transcribed again.
CodexInOrder ==
    /\ ~server.late
    /\ Current /\ ~client.closed /\ ~client.failed =>
          server.got \o client.pending =
              client.asked \o (IF client.finalizing THEN <<Flush>> ELSE << >>)
    /\ IsInjective(client.heard)
    /\ client.posted > 0 => client.posted = attempt.sent
=============================================================================
