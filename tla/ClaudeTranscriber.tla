-------------------------- MODULE ClaudeTranscriber --------------------------
(***************************************************************************)
(* ClaudeSpeechTranscriber and its ClaudeVoiceClient: audio waits for the  *)
(* WebSocket, a finish for the connection, and the end of the attempt for  *)
(* the endpoint that comes after CloseStream.                              *)
(*                                                                         *)
(* Each attempt has a client of its own; startAttempt() cancels the one    *)
(* before, whose timers and socket then do nothing, so the newest is kept. *)
(* The service is external.  It takes what is sent at once, in order, and  *)
(* its events wait in a queue.                                             *)
(***************************************************************************)
EXTENDS TranscriberContract, Sequences

CONSTANTS
    MostPending,   \* kMaximumPendingAudioBytes, in chunks
    MaxEvents,     \* bound: events of the service on their way
    Crossing       \* services whose events may cross the client's close

VARIABLES
    client,   \* the ClaudeVoiceClient
    socket,   \* its WebSocket; "broken" has had its error and not its disconnected()
    timers,   \* timers that run
    server    \* the service: the audio it got, whether CloseStream came, its events

claudeVars == <<attempt, client, socket, timers, server>>

NewClient == [connected |-> FALSE, finish |-> FALSE, finalizing |-> FALSE, completed |-> FALSE,
              cancelled |-> FALSE, failed |-> FALSE, pending |-> << >>, interim |-> 0]
NewServer == [got |-> << >>, closing |-> FALSE, late |-> FALSE, events |-> << >>]

takes(s, audio) == [s EXCEPT !.got = @ \o audio, !.late = @ \/ (s.closing /\ audio # << >>)]

\* An end of the socket, from either side.
gone(c) == [c EXCEPT !.connected = FALSE, !.finalizing = FALSE, !.pending = << >>]

\* fail(), by a client left as c, for an attempt left as a.
fail(c, a) ==
    IF c.cancelled \/ c.failed \/ c.completed
    THEN client' = c /\ attempt' = a
    ELSE client' = [c EXCEPT !.failed = TRUE, !.pending = << >>] /\ attempt' = Ended(a, "failed")

\* requestFinalization(): the audio that waits goes first.
requestFinalization(c, s) ==
    IF ~c.connected \/ c.finalizing \/ c.completed \/ c.failed
    THEN client' = c /\ server' = s /\ timers' = timers \ {"connect"}
    ELSE /\ client' = [c EXCEPT !.pending = << >>, !.finalizing = TRUE]
         /\ server' = [takes(s, c.pending) EXCEPT !.closing = TRUE]
         /\ timers' = (timers \ {"connect"}) \cup {"final"}

-----------------------------------------------------------------------------
(* The calls.                                                              *)

startAttempt ==
    /\ MayOpen
    /\ attempt' = Opened
    /\ client' = NewClient /\ socket' = "connecting" /\ timers' = {"connect"} /\ server' = NewServer

\* The socket is not open yet.
queueAudio(a) ==
    IF Len(client.pending) + 1 > MostPending
    THEN /\ fail(client, a)
         /\ socket' = "closed" /\ timers' = timers \ {"connect"}
    ELSE /\ client' = [client EXCEPT !.pending = Append(@, a.sent)]
         /\ attempt' = a
         /\ UNCHANGED <<socket, timers>>

sendAudio ==
    /\ MaySend
    /\ LET a == Handed(attempt, TRUE) IN
       \/ /\ client.cancelled \/ client.failed \/ client.completed \/ client.finish
          /\ attempt' = a
          /\ UNCHANGED <<client, socket, timers, server>>
       \/ /\ ~(client.cancelled \/ client.failed \/ client.completed \/ client.finish)
          /\ IF client.connected
             THEN /\ server' = takes(server, <<a.sent>>)
                  /\ attempt' = a
                  /\ UNCHANGED <<client, socket, timers>>
             ELSE queueAudio(a) /\ UNCHANGED server

finishInput ==
    /\ MayFinish
    /\ LET c == [client EXCEPT !.finish = TRUE] IN
       IF client.connected
       THEN requestFinalization(c, server) /\ attempt' = Told
       ELSE /\ IF socket = "closed" THEN fail(c, Told) ELSE client' = c /\ attempt' = Told
            /\ timers' = timers \cup {"ready"}
            /\ UNCHANGED server
    /\ UNCHANGED socket

cancelAttempt ==
    /\ MayCancel
    /\ attempt' = LetGo
    /\ client' = [gone(client) EXCEPT !.cancelled = TRUE, !.finish = FALSE]
    /\ socket' = "closed" /\ timers' = timers \ {"connect"}
    /\ UNCHANGED server

-----------------------------------------------------------------------------
(* The socket.                                                             *)

Connected ==
    /\ socket = "connecting" /\ socket' = "open"
    /\ LET c == [client EXCEPT !.connected = TRUE, !.pending = << >>]
           s == takes(server, client.pending)
       IN  IF client.finish
           THEN requestFinalization(c, s)
           ELSE client' = c /\ server' = s /\ timers' = timers \ {"connect"}
    /\ UNCHANGED attempt

\* A live stream that nobody finished was ended by the server, and rolls over.
Disconnected ==
    /\ socket # "closed" /\ socket' = "closed"
    /\ LET unexpected == ~client.completed /\ ~client.cancelled /\ ~client.failed
       IN  IF unexpected /\ client.connected /\ ~client.finish
           THEN /\ client' = [gone(client) EXCEPT !.completed = TRUE]
                /\ attempt' = Ended(attempt, "completed")
           ELSE fail(gone(client), attempt)
    /\ timers' = timers \ {"connect"}
    /\ UNCHANGED server

\* The error of a remote end says nothing yet while the stream is live:
\* disconnected() follows it.
ErrorOccurred ==
    /\ socket \in {"connecting", "open"}
    /\ \/ /\ client.connected /\ ~client.finish
          /\ socket' = "broken"
          /\ UNCHANGED <<client, attempt, timers>>
       \/ /\ fail(client, attempt)
          /\ socket' \in IF socket = "connecting" THEN {"broken", "closed"} ELSE {"broken"}
          /\ timers' = timers \ {"connect"}
    /\ UNCHANGED server

\* A timer whose condition still holds fails the attempt and ends the socket.
Due(timer) ==
    CASE timer = "connect" -> ~client.connected /\ ~client.cancelled
      [] timer = "ready" -> client.finish /\ ~client.finalizing /\ ~client.completed
      [] timer = "final" -> client.finalizing /\ ~client.completed

Timeout ==
    /\ \E timer \in timers :
         /\ timers' = timers \ {timer}
         /\ IF Due(timer) /\ ~client.failed
            THEN fail(gone(client), attempt) /\ socket' = "closed"
            ELSE UNCHANGED <<client, attempt, socket>>
    /\ UNCHANGED server

-----------------------------------------------------------------------------
(* The service's events, and what handleTextMessage() does with each.      *)

\* The endpoint promotes the interim when it has no text of its own (0), and
\* ends a stream that is finalizing.
Endpoint(upTo) ==
    LET words == IF upTo = 0 THEN client.interim ELSE upTo
        a == IF words > 0 THEN Accounted(attempt, 1..words) ELSE attempt
    IN  /\ client' = [client EXCEPT !.interim = 0, !.completed = @ \/ client.finalizing]
        /\ IF client.finalizing
           THEN attempt' = Ended(a, "completed") /\ socket' = "closing"
           ELSE attempt' = a /\ UNCHANGED socket
        /\ UNCHANGED timers

Receive ==
    /\ socket \in {"open", "closing"} /\ server.events # << >>
    /\ server' = [server EXCEPT !.events = Tail(@)]
    /\ LET event == Head(server.events) IN
       \/ /\ event.type = "interim"
          /\ client' = [client EXCEPT !.interim = event.upTo]
          /\ UNCHANGED <<attempt, socket, timers>>
       \/ event.type = "endpoint" /\ Endpoint(event.upTo)
       \/ event.type = "error" /\ fail(client, attempt) /\ UNCHANGED <<socket, timers>>

\* The service answers all it got; the text of an endpoint may be the interim
\* before it.
ServerSays(events) ==
    /\ socket = "open" /\ Len(server.events) + Len(events) <= MaxEvents
    /\ server' = [server EXCEPT !.events = @ \o events]
    /\ UNCHANGED <<attempt, client, socket, timers>>

Serve ==
    LET upTo == Len(server.got) IN
    \/ ServerSays(<<[type |-> "error"]>>)
    \/ upTo > 0 /\ ServerSays(<<[type |-> "interim", upTo |-> upTo]>>)
    \/ /\ upTo > 0 /\ (server.closing \/ "claude" \in Crossing)
       /\ \/ ServerSays(<<[type |-> "endpoint", upTo |-> upTo]>>)
          \/ ServerSays(<<[type |-> "interim", upTo |-> upTo], [type |-> "endpoint", upTo |-> 0]>>)
    \/ upTo = 0 /\ server.closing /\ ServerSays(<<[type |-> "endpoint", upTo |-> 0]>>)
    \* An endpoint at a pause is read before the close is sent.
    \/ /\ upTo > 0 /\ ~server.closing /\ socket = "open" /\ server.events = << >>
       /\ Endpoint(upTo)
       /\ UNCHANGED server

-----------------------------------------------------------------------------
ClaudeInit ==
    /\ ContractInit
    /\ client = NewClient /\ socket = "closed" /\ timers = {} /\ server = NewServer

ClaudeNext ==
    \/ startAttempt \/ sendAudio \/ finishInput \/ cancelAttempt
    \/ Connected \/ Disconnected \/ ErrorOccurred \/ Timeout \/ Receive \/ Serve

\* Only the timers are sure to come.
ClaudeCode == Timeout

\* The service gets the audio in order and whole, none after CloseStream.
ClaudeInOrder ==
    /\ ~server.late
    /\ Current /\ socket # "closed" => server.got \o client.pending = [i \in 1..attempt.sent |-> i]
=============================================================================
