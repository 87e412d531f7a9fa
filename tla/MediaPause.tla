------------------------------ MODULE MediaPause ------------------------------
(***************************************************************************)
(* MediaPauseController: what it asks of the media players over D-Bus, and *)
(* the answers, which come when the player has taken the call, or as an    *)
(* error after 300 ms although the player may take it still.  D-Bus keeps  *)
(* the order of the calls to one player, and of its answers.               *)
(*                                                                         *)
(* m_generation is not kept as a number: a call and its answer say whether *)
(* they are the current one's.  An answer of ListNames that it would only  *)
(* make ignored leaves when it moves.                                      *)
(***************************************************************************)
EXTENDS MediaPromises, Naturals, Sequences, SequencesExt

CONSTANTS
    PausesUnanswered, \* a player may take Pause and answer too late
    MaxAsked          \* bound: pauses and resumes asked for

ASSUME MediaFlagsAssumption == PausesUnanswered \in BOOLEAN /\ MaxAsked \in Nat

VARIABLE asked   \* how often a dictation paused and resumed the media

vars == <<listed, pauseRequested, listing, calls, replies, asked, player, stopped, missed>>

-----------------------------------------------------------------------------
Call == [kind : {"Status", "Pause", "Play"}, watched : BOOLEAN, current : BOOLEAN]
Reply == [kind : {"Status", "Pause", "Play"}, current : BOOLEAN,
          answer : {"Playing", "Paused", "taken", "refused", "gone"}]
ACall(kind) == [kind |-> kind, watched |-> TRUE, current |-> TRUE]
Unwatched(call) == [call EXCEPT !.watched = FALSE]

\* What ++m_generation makes of the calls and answers under way.
Older(messages) == [i \in DOMAIN messages |-> [messages[i] EXCEPT !.current = FALSE]]
olderBus == [p \in Players |-> Older(calls[p])]
NextGeneration == replies' = [p \in Players |-> Older(replies[p])]

pausePlaying ==
    /\ asked < MaxAsked /\ asked' = asked + 1
    /\ pauseRequested' = TRUE /\ listing' = TRUE
    /\ NextGeneration /\ calls' = olderBus
    /\ UNCHANGED <<listed, player, stopped, missed>>

resumePaused ==
    /\ asked < MaxAsked /\ asked' = asked + 1
    /\ pauseRequested' = FALSE /\ listing' = FALSE
    /\ NextGeneration
    /\ calls' = [p \in Players |-> IF p \in listed THEN Append(olderBus[p], ACall("Play"))
                                                   ELSE olderBus[p]]
    /\ missed' = [p \in Players |-> IF missed[p] = "asked" THEN "no" ELSE missed[p]]
    /\ UNCHANGED <<listed, player, stopped>>

\* The bus names the players there are, or does not answer in time.
namesAnswered ==
    /\ listing /\ listing' = FALSE
    /\ \/ calls' = [p \in Players |-> IF player[p] = "Gone" THEN calls[p]
                                      ELSE Append(calls[p], ACall("Status"))]
       \/ calls' = calls
    /\ UNCHANGED <<listed, pauseRequested, asked, replies, player, stopped, missed>>

\* Mutant: a player is listed as soon as it is asked to pause, whoever asked.
AnsweredListing(p, reply) ==
    /\ listed' = IF reply.kind = "Pause" /\ reply.answer = "taken" THEN listed \cup {p}
                 ELSE IF reply.kind = "Play" /\ reply.current /\ reply.answer \in {"taken", "gone"}
                 THEN listed \ {p} ELSE listed
    /\ calls' = [calls EXCEPT ![p] =
         @ \o IF reply.kind = "Status" /\ reply.current /\ reply.answer = "Playing"
              THEN <<ACall("Pause")>> ELSE << >>]

\* What the controller does when a player answered.
answered(p, reply) ==
    /\ listed' = IF reply.kind = "Pause" /\ reply.answer = "taken" /\ pauseRequested
                 THEN listed \cup {p}
                 ELSE IF reply.kind = "Play" /\ reply.current /\ reply.answer \in {"taken", "gone"}
                 THEN listed \ {p} ELSE listed
    /\ calls' = [calls EXCEPT ![p] = @ \o
         CASE reply.kind = "Status" /\ reply.current /\ reply.answer = "Playing" ->
                <<ACall("Pause")>>
           [] reply.kind = "Pause" /\ reply.answer = "taken" /\ ~pauseRequested ->
                <<Unwatched(ACall("Play"))>>
           [] OTHER -> << >>]

playerAnswered(p) ==
    /\ replies[p] # << >>
    /\ replies' = [replies EXCEPT ![p] = Tail(@)]
    /\ answered(p, Head(replies[p]))
    /\ UNCHANGED <<pauseRequested, asked, listing, player, stopped, missed>>

\* An answer is an error after 300 ms, which every one of them passes over; the
\* player takes the call, or its own answer comes, in vain.
timedOut(p) ==
    LET late(kind) == kind # "Pause" \/ PausesUnanswered
    IN  /\ \/ \E i \in DOMAIN calls[p] :
                /\ calls[p][i].watched /\ late(calls[p][i].kind)
                /\ calls' = [calls EXCEPT ![p] =
                     IF calls[p][i].kind = "Status" THEN RemoveAt(@, i)
                     ELSE [@ EXCEPT ![i] = Unwatched(calls[p][i])]]
                /\ UNCHANGED replies
           \/ \E i \in DOMAIN replies[p] :
                /\ late(replies[p][i].kind)
                /\ replies' = [replies EXCEPT ![p] = RemoveAt(@, i)]
                /\ UNCHANGED calls
        /\ UNCHANGED <<listed, pauseRequested, asked, listing, player, stopped, missed>>

-----------------------------------------------------------------------------
(* The players.                                                            *)

\* A player takes the next call, in its order, or refuses it.
PlayerTakes(p) ==
    /\ calls[p] # << >>
    /\ LET call == Head(calls[p])
           answers(answer) == replies' = [replies EXCEPT ![p] =
               IF call.watched THEN Append(@, [kind |-> call.kind, current |-> call.current,
                                               answer |-> answer]) ELSE @]
       IN  /\ calls' = [calls EXCEPT ![p] = Tail(@)]
           /\ \/ /\ player[p] = "Gone" /\ answers("gone")
                 /\ UNCHANGED <<player, stopped, missed>>
              \/ /\ player[p] # "Gone" /\ call.kind = "Status" /\ answers(player[p])
                 /\ UNCHANGED <<player, stopped, missed>>
              \/ /\ player[p] # "Gone" /\ call.kind # "Status" /\ answers("taken")
                 /\ player' = [player EXCEPT ![p] = IF call.kind = "Pause" THEN "Paused" ELSE "Playing"]
                 /\ stopped' = [stopped EXCEPT ![p] =
                      call.kind = "Pause" /\ (@ \/ player[p] = "Playing")]
                 /\ missed' = [missed EXCEPT ![p] = IF stopped'[p] THEN @ ELSE "no"]
              \/ /\ player[p] # "Gone" /\ call.kind # "Status" /\ answers("refused")
                 /\ missed' = IF call.kind = "Pause" \/ ~stopped[p] THEN missed
                              ELSE [missed EXCEPT ![p] = IF call.watched THEN "asked" ELSE "once"]
                 /\ UNCHANGED <<player, stopped>>
    /\ UNCHANGED <<listed, pauseRequested, asked, listing>>

\* The person plays or pauses it, quits it or starts it.
PersonSets(p) ==
    /\ \E state \in {"Playing", "Paused", "Gone"} \ {player[p]} :
         player' = [player EXCEPT ![p] = state]
    /\ stopped' = [stopped EXCEPT ![p] = FALSE]
    /\ missed' = [missed EXCEPT ![p] = "no"]
    /\ UNCHANGED <<listed, pauseRequested, asked, listing, calls, replies>>

Init ==
    /\ asked = 0 /\ listed = {} /\ pauseRequested = FALSE /\ listing = FALSE
    /\ calls = [p \in Players |-> << >>] /\ replies = [p \in Players |-> << >>]
    /\ player \in [Players -> {"Playing", "Paused"}]
    /\ stopped = [p \in Players |-> FALSE] /\ missed = [p \in Players |-> "no"]

\* A dictation pauses and resumes at will: it resumes also what it never paused.
Next ==
    \/ pausePlaying \/ resumePaused \/ namesAnswered
    \/ \E p \in Players : playerAnswered(p) \/ timedOut(p) \/ PlayerTakes(p) \/ PersonSets(p)

Spec == Init /\ [][Next]_vars

-----------------------------------------------------------------------------
(* Properties.                                                             *)

TypeOK ==
    /\ asked \in 0..MaxAsked /\ listed \subseteq Players /\ pauseRequested \in BOOLEAN /\ listing \in BOOLEAN
    /\ calls \in [Players -> Seq(Call)] /\ replies \in [Players -> Seq(Reply)]
    /\ player \in [Players -> {"Playing", "Paused", "Gone"}]
    /\ stopped \in [Players -> BOOLEAN] /\ missed \in [Players -> {"no", "asked", "once"}]
=============================================================================
