------------------------- MODULE EndpointTranscriber -------------------------
(***************************************************************************)
(* EndpointSpeechTranscriber: the whole attempt is uploaded once its input *)
(* ends, or, for a recording, each utterance on its own, one upload at a   *)
(* time.  Audio outside an utterance is kept as a short lead-in.           *)
(*                                                                         *)
(* The server is external: it answers an upload with text, with something  *)
(* else or not in time, and the timers abort the one that does not answer. *)
(***************************************************************************)
EXTENDS TranscriberContract, Sequences, Functions

CONSTANTS
    LeadIn,       \* leadInBytes, in chunks
    MostWaiting   \* mostWaitingBytes, in chunks

VARIABLES
    client,   \* the EndpointSpeechTranscriber; reply holds the audio it has under way
    server    \* all that was ever uploaded for the attempt

endpointVars == <<attempt, client, server>>

\* then: what finishReply() does once the handlers of a final have returned.
NewClient(cut) ==
    [cut |-> cut, inputFinished |-> FALSE, open |-> FALSE, pcm |-> << >>,
     waiting |-> << >>, reply |-> << >>, then |-> "none"]
NewServer == << >>

Size(utterances) == SumFunction([i \in DOMAIN utterances |-> Len(utterances[i])])
Chunks(utterances) == UNION {Range(pcm) : pcm \in Range(utterances)}
Calm == client.then = "none"

postAudio(c, pcm) == client' = [c EXCEPT !.reply = pcm] /\ server' = server \o pcm

\* uploadNextUtterance(), for an attempt left as a.
uploadNextUtterance(c, a) ==
    IF c.waiting = << >>
    THEN /\ client' = c
         /\ attempt' = IF c.inputFinished THEN Ended(a, "completed") ELSE a
         /\ UNCHANGED server
    ELSE /\ postAudio([c EXCEPT !.waiting = Tail(@)], Head(c.waiting))
         /\ attempt' = a

\* How many of the oldest must go; the newest always stays.
Excess(waiting) ==
    LET Fits(k) == k = Len(waiting) - 1
                   \/ Size(SubSeq(waiting, k + 1, Len(waiting))) <= MostWaiting
    IN  CHOOSE k \in 0..(Len(waiting) - 1) : Fits(k) /\ \A j \in 0..(k - 1) : ~Fits(j)

\* closeUtterance(): what is dropped is told of as utterances that failed.
Queued(c) == Append(c.waiting, c.pcm)

\* Mutant: what is dropped is not told of.
DroppedUntold(c) == {}

Dropped(c) ==
    IF ~c.open \/ c.pcm = << >> THEN {} ELSE Chunks(SubSeq(Queued(c), 1, Excess(Queued(c))))
closeUtterance(c) ==
    IF ~c.open \/ c.pcm = << >>
    THEN [c EXCEPT !.open = FALSE]
    ELSE [c EXCEPT !.open = FALSE, !.pcm = << >>,
                   !.waiting = SubSeq(Queued(c), Excess(Queued(c)) + 1, Len(Queued(c)))]

Heard(a, chunks) == Accounted(a, a.words \cup chunks)

-----------------------------------------------------------------------------
(* The calls.                                                              *)

startAttempt ==
    /\ Calm /\ MayOpen
    /\ attempt' = Opened
    /\ \E cut \in BOOLEAN : client' = NewClient(cut)
    /\ server' = NewServer

\* What comes outside an utterance is quiet.
sendAudio ==
    /\ Calm /\ MaySend
    /\ attempt' = Handed(attempt, ~client.cut \/ client.open)
    /\ LET pcm == Append(client.pcm, attempt'.sent)
           quiet == client.cut /\ ~client.open /\ Len(pcm) > LeadIn
       IN  client' = [client EXCEPT !.pcm =
                         IF quiet THEN SubSeq(pcm, Len(pcm) - LeadIn + 1, Len(pcm)) ELSE pcm]
    /\ UNCHANGED server

beginUtterance ==
    /\ Calm /\ attempt.phase = "open"
    /\ client.cut /\ ~client.inputFinished
    /\ client' = [client EXCEPT !.open = TRUE]
    /\ UNCHANGED <<attempt, server>>

\* One upload at a time.
CloseAndUpload(c, a) ==
    IF client.reply = << >>
    THEN uploadNextUtterance(c, a)
    ELSE client' = c /\ attempt' = a /\ UNCHANGED server

endUtterance ==
    /\ Calm /\ attempt.phase = "open" /\ client.open
    /\ CloseAndUpload(closeUtterance(client), Heard(attempt, Dropped(client)))

finishInput ==
    /\ Calm /\ MayFinish
    /\ LET c == [client EXCEPT !.inputFinished = TRUE] IN
       IF c.cut
       THEN CloseAndUpload([closeUtterance(c) EXCEPT !.pcm = << >>], Heard(Told, Dropped(c)))
       ELSE IF c.pcm = << >>
       THEN client' = c /\ attempt' = Ended(Told, "completed") /\ UNCHANGED server
       ELSE postAudio([c EXCEPT !.pcm = << >>], c.pcm) /\ attempt' = Told

\* A recording that cannot write the words of a final lets its attempt go
\* inside the handler.
cancelAttempt ==
    /\ MayCancel
    /\ attempt' = LetGo
    /\ client' = [client EXCEPT !.pcm = << >>, !.waiting = << >>, !.reply = << >>]
    /\ UNCHANGED server

-----------------------------------------------------------------------------
(* The answers: finishReply(), of a reply that has not been let go.        *)

answered == [client EXCEPT !.reply = << >>]
Uploaded == Range(client.reply)

\* An utterance's words are a final; what follows waits for its handlers.
finishUtterance(next) ==
    /\ client' = [answered EXCEPT !.then = next]
    /\ attempt' = Heard(attempt, Uploaded)
    /\ UNCHANGED server

WholeAnswered(end) ==
    client' = answered /\ attempt' = Ended(Heard(attempt, Uploaded), end) /\ UNCHANGED server

Text ==
    \/ client.cut /\ finishUtterance("upload")
    \/ ~client.cut /\ WholeAnswered("completed")

NoTranscript ==
    client' = answered /\ attempt' = Ended(attempt, "failed") /\ UNCHANGED server

\* What had streamed before the failure is kept; only a failure that may
\* pass leaves the attempt open to its next utterance.
Failure(transient, kept) ==
    \/ ~client.cut /\ kept /\ WholeAnswered("failed")
    \/ ~client.cut /\ ~kept /\ NoTranscript
    \/ client.cut /\ kept /\ finishUtterance(IF transient THEN "upload" ELSE "fail")
    \/ client.cut /\ ~kept /\ transient /\ uploadNextUtterance(answered, Heard(attempt, Uploaded))
    \/ client.cut /\ ~kept /\ ~transient /\ NoTranscript

finishReply ==
    /\ Calm /\ client.reply # << >>
    /\ \/ Text
       \/ NoTranscript
       \/ \E transient, kept \in BOOLEAN : Failure(transient, kept)

FinalTold ==
    /\ ~Calm
    /\ LET c == [client EXCEPT !.then = "none"] IN
       \/ client.then = "upload" /\ uploadNextUtterance(c, attempt)
       \/ client.then = "fail" /\ client' = c /\ attempt' = Ended(attempt, "failed") /\ UNCHANGED server

-----------------------------------------------------------------------------
EndpointInit == ContractInit /\ client = NewClient(FALSE) /\ server = NewServer

EndpointNext ==
    \/ startAttempt \/ sendAudio \/ beginUtterance \/ endUtterance \/ finishInput \/ cancelAttempt
    \/ finishReply \/ FinalTold

\* Both timers bound the wait for an answer.
EndpointCode == finishReply \/ FinalTold

Rising(pcm) == \A i, j \in DOMAIN pcm : i < j => pcm[i] < pcm[j]
Precede(early, late) == \A a \in early, b \in late : a < b

\* No audio goes up twice or out of order, none spoken is lost while the
\* attempt goes on, and an utterance waits only for the one under way.
EndpointInOrder ==
    /\ Rising(server) /\ Rising(client.pcm)
    /\ \A i \in DOMAIN client.waiting :
          /\ Rising(client.waiting[i])
          /\ \A j \in DOMAIN client.waiting : i < j => Precede(Range(client.waiting[i]), Range(client.waiting[j]))
    /\ Precede(Range(server), Chunks(client.waiting))
    /\ Precede(Range(server) \cup Chunks(client.waiting), Range(client.pcm))
    /\ Current =>
          /\ attempt.owed \subseteq
                attempt.words \cup Uploaded \cup Chunks(client.waiting) \cup Range(client.pcm)
          /\ client.waiting # << >> => client.reply # << >> \/ client.then = "upload" \/ client.then = "fail"
=============================================================================
