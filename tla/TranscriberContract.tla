------------------------- MODULE TranscriberContract -------------------------
(***************************************************************************)
(* What SpeechTranscriber asks of every speech service, for the newest     *)
(* attempt that SpeechAttempts opened: audio while it is open, one end,    *)
(* and, once it was told that its input ended, no clean end before all     *)
(* that was spoken is accounted for, by words or as a failed utterance.    *)
(* SpeechAttempts drops what comes for an attempt that ended or was let    *)
(* go, so what a service tells of one has no effect here.                  *)
(***************************************************************************)
EXTENDS Naturals

CONSTANTS
    MaxAttempts,   \* bound: attempts opened
    MaxChunks      \* bound: chunks of audio handed to an attempt

ASSUME TranscriberBoundsAssumption == MaxAttempts \in Nat /\ MaxChunks \in Nat

VARIABLE attempt   \* the newest attempt: its number and phase, the chunks handed over, those
                   \* spoken in an utterance, and those its words account for

NoAttempt == [id |-> 0, phase |-> "none", sent |-> 0, owed |-> {}, words |-> {}]
Current == attempt.phase \in {"open", "told"}

-----------------------------------------------------------------------------
(* What the calls and the signals make of the attempt.                     *)

Opened == [id |-> attempt.id + 1, phase |-> "open", sent |-> 0, owed |-> {}, words |-> {}]
Handed(a, spoken) ==
    [a EXCEPT !.sent = @ + 1, !.owed = IF spoken THEN @ \cup {a.sent + 1} ELSE @]
Told == [attempt EXCEPT !.phase = "told"]
LetGo == [NoAttempt EXCEPT !.id = attempt.id]
Accounted(a, chunks) == IF Current THEN [a EXCEPT !.words = chunks] ELSE a
Ended(a, end) == IF Current THEN [a EXCEPT !.phase = end] ELSE a

\* When SpeechAttempts and its owners make each call.
MayOpen == ~Current /\ attempt.id < MaxAttempts
MaySend == attempt.phase = "open" /\ attempt.sent < MaxChunks
MayFinish == attempt.phase = "open"
MayCancel == attempt.id > 0 /\ attempt.phase # "none"

-----------------------------------------------------------------------------
ContractInit == attempt = NoAttempt

Start == MayOpen /\ attempt' = Opened
Send == MaySend /\ \E spoken \in BOOLEAN : attempt' = Handed(attempt, spoken)
\* The call may give up an utterance that waited too long.
Finish ==
    /\ MayFinish
    /\ \E chunks \in SUBSET (1..attempt.sent) :
          /\ attempt.words \subseteq chunks
          /\ attempt' = Accounted(Told, chunks)
Cancel == MayCancel /\ attempt' = LetGo

\* Words only come to be more, and only of what was handed over.
Hear ==
    /\ Current
    /\ \E chunks \in SUBSET (1..attempt.sent) :
          /\ attempt.words \subseteq chunks
          /\ attempt' = Accounted(attempt, chunks)

\* A service may end an attempt cleanly before its input ends; then its
\* words need not be complete.
Complete ==
    /\ Current
    /\ \E chunks \in SUBSET (1..attempt.sent) :
          /\ attempt.words \subseteq chunks
          /\ attempt.phase = "told" => attempt.owed \subseteq chunks
          /\ attempt' = Ended(Accounted(attempt, chunks), "completed")

\* A failure may come from inside the call that hands over the audio.
Fail ==
    /\ Current
    /\ \E chunks \in SUBSET (1..attempt.sent) :
          /\ attempt.words \subseteq chunks
          /\ \/ attempt' = Ended(Accounted(attempt, chunks), "failed")
             \/ attempt.phase = "open" /\ attempt' = Ended(Handed(attempt, TRUE), "failed")

ContractNext == Start \/ Send \/ Finish \/ Cancel \/ Hear \/ Complete \/ Fail
Contract == ContractInit /\ [][ContractNext]_attempt
=============================================================================
