------------------------- MODULE RecordingStreamProofs -------------------------
(***************************************************************************)
(* That a recording's audio goes to the services without a gap or a repeat *)
(* and its utterance marks in their places, for any number of providers,   *)
(* reconnects and attempts, and any sizes of what is sent and kept; and    *)
(* that the recording around its streams keeps whole lines, its canceller  *)
(* its reference, and ends once with nothing left on.                      *)
(***************************************************************************)
EXTENDS RecordingStream, RecordingPromises, SequenceTheorems, FiniteSetTheorems, TLAPS

Streams == [heard: 0..MaxHeard, dropped: 0..MaxHeard, sent: 0..MaxHeard,
            attemptStart: 0..MaxHeard, marks: Seq(Marks), nextMark: Nat \ {0},
            inputEnded: BOOLEAN, inputFinished: BOOLEAN,
            streaming: BOOLEAN, sending: BOOLEAN]

Attempts == [live: BOOLEAN, opened: Nat, made: 0..2,
             providerConnected: BOOLEAN, connected: BOOLEAN, sentAudio: BOOLEAN,
             stable: BOOLEAN, reconnects: 0..Reconnects]
Inputs == {"Off", "Starting", "Listening", "Stopping"}
Chains == [index: 1..(Providers + 1), job: {"none", "preparing", "renewing"}]

(* The types, by name. *)
Typed ==
    /\ running \in BOOLEAN /\ input \in Inputs
    /\ reconnectTimer \in BOOLEAN /\ delay \in 0..(Pauses - 1) /\ signInRefused \in BOOLEAN
    /\ utterance \in BOOLEAN
    /\ stream \in Streams /\ attempts \in Attempts /\ chain \in Chains
    /\ calls \in Seq(Frames)
    /\ seen \in [reached: 0..MaxHeard, waited: BOOLEAN]

(* The marks are in order. *)
InOrder(s) ==
    \A i, j \in DOMAIN s.marks : i < j => s.marks[i].position <= s.marks[j].position

(* The marks before the next one are for audio that was sent, the others for
   audio that was not. *)
Placed(s) ==
    \A i \in DOMAIN s.marks :
        IF i < s.nextMark THEN s.marks[i].position <= s.sent ELSE s.marks[i].position >= s.sent

(* What is kept lies between what was dropped and what was heard. *)
Fit(s) ==
    /\ s.dropped <= s.sent /\ s.sent <= s.heard /\ s.attemptStart <= s.heard
    /\ \A i \in DOMAIN s.marks : s.marks[i].position <= s.heard
    /\ Placed(s) /\ s.nextMark <= Len(s.marks) + 1

(* The stream waits for the next attempt on the same provider. *)
waits == reconnectTimer \/ chain.job = "renewing"

(* A stream that is over does nothing. *)
Rests == ~running => input = "Off" /\ ~attempts.live /\ chain.job = "none" /\ ~utterance

(* One attempt, or what leads to the next one. *)
OneWay ==
    /\ attempts.live \/ waits => attempts.made # 0 /\ input # "Starting"
    /\ attempts.live => chain.job = "none" /\ ~reconnectTimer
    /\ chain.job # "none" => ~reconnectTimer /\ input # "Starting"
    /\ reconnectTimer => input \in {"Listening", "Stopping"}
    /\ stream.streaming => attempts.live
    /\ stream.sending => stream.streaming

(* The end of the input. *)
EndSound ==
    /\ stream.inputEnded => input = "Off"
    /\ stream.inputFinished => stream.inputEnded /\ ~waits
    /\ toldInputEnded => stream.sent = stream.heard /\ stream.nextMark > Len(stream.marks)

(* Where the attempts took the audio from, and what the services have. *)
Reached ==
    /\ seen.reached <= stream.sent
    /\ ~attempts.connected => seen.reached <= stream.attemptStart
    /\ attempts.connected \/ waits => stream.sent <= Larger(seen.reached, stream.dropped)
    /\ attempts.live \/ waits => stream.attemptStart <= Larger(seen.reached, stream.dropped)
    /\ attempts.made = 1 /\ ~attempts.connected => seen.reached = 0
    /\ input = "Starting" \/ chain.job = "preparing" => seen.reached = 0

KeptSound ==
    /\ stream.heard <= stream.dropped + MostKept
    /\ stream.dropped <= seen.reached \/ stream.dropped + MostKept <= stream.heard

(* What waits on the call stack for its attempt. *)
StackFits ==
    \A i \in DOMAIN calls :
        /\ calls[i] = "beginStreamed" =>
             attempts.live /\ (i = 1 \/ (i = 2 /\ calls[1] = "startAttempt"))
        /\ calls[i] = "chunkSent" => running /\ ~stream.inputFinished

Inv ==
    /\ Typed
    /\ Rests /\ OneWay /\ EndSound /\ StackFits
    /\ InOrder(stream)
    /\ running => Fit(stream) /\ Reached /\ KeptSound
-----------------------------------------------------------------------------
(* The audio and its marks. *)

LEMMA Sizes == /\ MostKept \in Nat \ {0} /\ Chunk \in Nat \ {0}
               /\ MaxHeard \in Nat
               /\ Providers \in Nat \ {0} /\ Reconnects \in Nat /\ Pauses \in Nat \ {0}
  BY StreamSizesAssumption, StreamBoundsAssumption, StreamProvidersAssumption

LEMMA MarksOf ==
    ASSUME NEW s \in Streams
    PROVE  /\ Len(s.marks) \in Nat /\ DOMAIN s.marks = 1..Len(s.marks)
           /\ s.marks \in Seq(Marks)
           /\ \A i \in DOMAIN s.marks : s.marks[i] \in Marks /\ s.marks[i].position \in Nat
  <1>1. s.marks \in Seq(Marks)
    BY DEF Streams
  <1>2. Len(s.marks) \in Nat /\ DOMAIN s.marks = 1..Len(s.marks)
    BY <1>1, LenProperties
  <1>3. \A i \in DOMAIN s.marks : s.marks[i] \in Marks
    BY <1>1, <1>2, ElementOfSeq
  <1> QED
    BY <1>1, <1>2, <1>3 DEF Marks

(* The marks before a position are the first ones. *)
LEMMA BeforeIsFirst ==
    ASSUME NEW s \in Streams, InOrder(s), NEW position \in Nat
    PROVE  /\ marksBefore(s, position) \in 0..Len(s.marks)
           /\ \A i \in DOMAIN s.marks :
                s.marks[i].position < position <=> i <= marksBefore(s, position)
  <1> DEFINE before == {i \in DOMAIN s.marks : s.marks[i].position < position}
             c == Cardinality(before)
             n == Len(s.marks)
  <1>1. n \in Nat /\ DOMAIN s.marks = 1..n /\ \A i \in 1..n : s.marks[i].position \in Nat
    BY MarksOf
  <1>2. IsFiniteSet(1..n) /\ Cardinality(1..n) = n
    BY <1>1, FS_Interval
  <1>3. before \in SUBSET (1..n)
    BY <1>1
  <1>4. IsFiniteSet(before) /\ c \in Nat /\ c <= n
    BY <1>2, <1>3, FS_Subset, FS_CardinalityType
  <1>5. \A i \in before : \A j \in 1..i : j \in before
    <2> TAKE i \in before
    <2> TAKE j \in 1..i
    <2>1. i \in 1..n /\ j \in 1..n /\ s.marks[i].position < position
      BY <1>1
    <2>2. s.marks[j].position <= s.marks[i].position
      BY <1>1, <2>1 DEF InOrder
    <2> QED
      BY <1>1, <2>1, <2>2
  <1>6. \A i \in before : i <= c
    <2> SUFFICES ASSUME NEW i \in before, ~(i <= c) PROVE FALSE
      OBVIOUS
    <2>1. i \in 1..n /\ c + 1 \in 1..i
      BY <1>3, <1>4
    <2>2. 1..c + 1 \in SUBSET before
      BY <1>4, <1>5, <2>1
    <2>3. Cardinality(1..c + 1) = c + 1
      BY <1>4, FS_Interval
    <2>4. Cardinality(1..c + 1) <= c
      BY <1>4, <2>2, FS_Subset
    <2> QED
      BY <1>4, <2>3, <2>4
  <1>7. before = 1..c
    <2>1. before \in SUBSET (1..c)
      BY <1>3, <1>4, <1>6
    <2>2. IsFiniteSet(1..c) /\ Cardinality(1..c) = c
      BY <1>4, FS_Interval
    <2> QED
      BY <2>1, <2>2, FS_Subset
  <1>8. marksBefore(s, position) = c
    BY DEF marksBefore
  <1> HIDE DEF c
  <1>9. \A i \in 1..n : s.marks[i].position < position <=> i \in 1..c
    BY <1>1, <1>7
  <1> QED
    BY <1>1, <1>4, <1>8, <1>9

(* Going on after the audio that was sent. *)
LEMMA OnceSentFits ==
    ASSUME NEW s \in Streams, InOrder(s), Fit(s)
    PROVE  LET t == markUtterancesOnceSent(s) IN
           /\ t \in Streams /\ InOrder(t) /\ Fit(t)
           /\ t = [s EXCEPT !.nextMark = t.nextMark] /\ t.nextMark >= s.nextMark
           /\ s.streaming => \A i \in DOMAIN t.marks :
                               i >= t.nextMark => t.marks[i].position > t.sent
  <1> DEFINE passed == marksBefore(s, s.sent + 1)
             next == Larger(s.nextMark, 1 + passed)
             t == [s EXCEPT !.nextMark = next]
  <1>1. s.sent + 1 \in Nat /\ s.nextMark \in Nat \ {0} /\ s.sent \in Nat
    BY Sizes DEF Streams
  <1>2. /\ passed \in Nat /\ passed <= Len(s.marks) /\ Len(s.marks) \in Nat
        /\ \A i \in DOMAIN s.marks : s.marks[i].position < s.sent + 1 <=> i <= passed
    <2> DEFINE after == s.sent + 1
    <2>1. after \in Nat /\ Len(s.marks) \in Nat /\ passed = marksBefore(s, after)
      BY <1>1, MarksOf
    <2> HIDE DEF passed, after
    <2>2. /\ passed \in 0..Len(s.marks)
          /\ \A i \in DOMAIN s.marks : s.marks[i].position < after <=> i <= passed
      BY <2>1, BeforeIsFirst
    <2> QED
      BY <2>1, <2>2 DEF after
  <1> HIDE DEF passed
  <1>3. next \in Nat \ {0} /\ next >= s.nextMark /\ next >= 1 + passed
        /\ next \in {s.nextMark, 1 + passed}
    BY <1>1, <1>2 DEF Larger
  <1>3a. next <= Len(s.marks) + 1
    BY <1>2, <1>3 DEF Fit
  <1>4. t \in Streams /\ t.nextMark = next /\ t.marks = s.marks /\ t.sent = s.sent
        /\ t.dropped = s.dropped /\ t.heard = s.heard /\ t.attemptStart = s.attemptStart
    BY <1>3 DEF Streams
  <1>5. \A i \in DOMAIN s.marks : i \in Nat /\ s.marks[i].position \in Nat
    BY MarksOf
  <1> HIDE DEF next
  <1>6. \A i \in DOMAIN s.marks : IF i < next THEN s.marks[i].position <= s.sent
                                   ELSE s.marks[i].position > s.sent
    BY <1>1, <1>2, <1>3, <1>5 DEF Fit, Placed
  <1>7. InOrder(t) /\ Fit(t)
    BY <1>1, <1>3a, <1>4, <1>5, <1>6 DEF InOrder, Fit, Placed
  <1>8. CASE s.streaming
    <2>1. markUtterancesOnceSent(s) = t
      BY <1>8 DEF markUtterancesOnceSent, next, passed
    <2>2. t.nextMark >= s.nextMark
      BY <1>3, <1>4
    <2> HIDE DEF t
    <2>3. \A i \in DOMAIN t.marks : i >= t.nextMark => t.marks[i].position > t.sent
      BY <1>3, <1>4, <1>5, <1>6
    <2> QED
      BY <1>4, <1>7, <2>1, <2>2, <2>3 DEF t
  <1>9. CASE ~s.streaming
    <2>1. markUtterancesOnceSent(s) = s
      BY <1>9 DEF markUtterancesOnceSent
    <2>2. s = [s EXCEPT !.nextMark = s.nextMark]
      BY DEF Streams
    <2> QED
      BY <1>1, <1>9, <2>1, <2>2
  <1> QED
    BY <1>8, <1>9

LEMMA RewindFits ==
    ASSUME NEW s \in Streams, InOrder(s), Fit(s), NEW position \in 0..MaxHeard,
           s.dropped <= position, position <= s.heard
    PROVE  LET t == rewindTo(s, position) IN
           t \in Streams /\ InOrder(t) /\ Fit(t)
  <1> DEFINE passed == marksBefore(s, position)
             t == [s EXCEPT !.sent = position, !.nextMark = 1 + passed]
  <1>1. position \in Nat
    BY Sizes
  <1>2. /\ passed \in Nat /\ passed <= Len(s.marks) /\ Len(s.marks) \in Nat
        /\ \A i \in DOMAIN s.marks : s.marks[i].position < position <=> i <= passed
    BY <1>1, BeforeIsFirst, MarksOf
  <1>3. rewindTo(s, position) = t
    BY DEF rewindTo
  <1> HIDE DEF passed
  <1>4. t \in Streams /\ t.nextMark = 1 + passed /\ t.marks = s.marks /\ t.sent = position
        /\ t.dropped = s.dropped /\ t.heard = s.heard /\ t.attemptStart = s.attemptStart
    <2>1. 1 + passed \in Nat \ {0}
      BY <1>2
    <2> DEFINE next == 1 + passed
    <2> HIDE DEF next
    <2>2. t = [s EXCEPT !.sent = position, !.nextMark = next] /\ next \in Nat \ {0}
      BY <2>1 DEF next
    <2>3. /\ t \in Streams /\ t.nextMark = next /\ t.marks = s.marks /\ t.sent = position
          /\ t.dropped = s.dropped /\ t.heard = s.heard /\ t.attemptStart = s.attemptStart
      BY <2>2 DEF Streams
    <2> QED
      BY <2>3 DEF next
  <1>5. \A i \in DOMAIN s.marks : i \in Nat /\ s.marks[i].position \in Nat
    BY MarksOf
  <1> HIDE DEF t
  <1>6. \A i \in DOMAIN s.marks : IF i < 1 + passed THEN s.marks[i].position <= position
                                   ELSE s.marks[i].position >= position
    BY <1>1, <1>2, <1>5
  <1>7. 1 + passed <= Len(s.marks) + 1
    BY <1>2
  <1> QED
    BY <1>3, <1>4, <1>6, <1>7 DEF InOrder, Fit, Placed

LEMMA ForgetFits ==
    ASSUME NEW s \in Streams, InOrder(s), Fit(s), NEW position \in 0..MaxHeard,
           s.dropped <= position, position <= s.heard
    PROVE  LET t == forgetAudioBefore(s, position) IN
           /\ t \in Streams /\ InOrder(t) /\ Fit(t)
           /\ t = [s EXCEPT !.dropped = position, !.sent = Larger(s.sent, position),
                            !.marks = t.marks, !.nextMark = t.nextMark]
           /\ s.nextMark > Len(s.marks) => t.nextMark > Len(t.marks)
  <1> DEFINE passed == marksBefore(s, position)
             n == Len(s.marks)
             left == SubSeq(s.marks, passed + 1, n)
             sent == Larger(s.sent, position)
             next == IF s.nextMark > passed THEN s.nextMark - passed ELSE 1
             t == [s EXCEPT !.dropped = position, !.sent = sent, !.marks = left, !.nextMark = next]
  <1>1. position \in Nat /\ s.sent \in Nat /\ s.nextMark \in Nat \ {0} /\ s.sent \in 0..MaxHeard
    BY Sizes DEF Streams
  <1>2. /\ passed \in Nat /\ passed <= n /\ n \in Nat
        /\ \A i \in 1..n : s.marks[i].position < position <=> i <= passed
    <2>1. n \in Nat /\ DOMAIN s.marks = 1..n
      BY MarksOf
    <2>2. /\ passed \in 0..n
          /\ \A i \in DOMAIN s.marks : s.marks[i].position < position <=> i <= passed
      BY <1>1, BeforeIsFirst
    <2> HIDE DEF passed, n
    <2> QED
      BY <2>1, <2>2
  <1>3. forgetAudioBefore(s, position) = t
    BY DEF forgetAudioBefore
  <1>4. \A i \in 1..n : s.marks[i] \in Marks /\ s.marks[i].position \in Nat
    BY MarksOf
  <1> HIDE DEF passed, n
  <1>5. /\ left \in Seq(Marks) /\ Len(left) = n - passed
        /\ \A i \in 1..n - passed : left[i] = s.marks[passed + i]
    <2>1. \A i \in passed + 1..n : s.marks[i] \in Marks
      BY <1>2, <1>4
    <2>2. /\ left \in Seq(Marks)
          /\ Len(left) = IF passed + 1 <= n THEN n - (passed + 1) + 1 ELSE 0
          /\ \A i \in 1..n - (passed + 1) + 1 : left[i] = s.marks[passed + 1 + i - 1]
      BY <1>2, <2>1, SubSeqProperties
    <2> QED
      BY <1>2, <2>2
  <1> HIDE DEF left
  <1>6. sent \in 0..MaxHeard /\ sent \in Nat /\ sent >= s.sent /\ sent >= position
        /\ sent \in {s.sent, position} /\ next \in Nat \ {0}
    BY <1>1, <1>2 DEF Larger
  <1>7. DOMAIN left = 1..n - passed
    BY <1>5, LenProperties
  <1>8. \A i \in 1..n - passed :
          /\ i \in Nat /\ passed + i \in 1..n /\ left[i] = s.marks[passed + i]
          /\ left[i].position \in Nat /\ left[i].position >= position
    BY <1>1, <1>2, <1>4, <1>5
  <1>9. DOMAIN s.marks = 1..n
    BY MarksOf DEF n
  <1>10. t \in Streams /\ t.nextMark = next /\ t.marks = left /\ t.sent = sent
         /\ t.dropped = position /\ t.heard = s.heard /\ t.attemptStart = s.attemptStart
    BY <1>5, <1>6 DEF Streams
  <1>11. InOrder(t)
    <2>1. ASSUME NEW i \in 1..n - passed, NEW j \in 1..n - passed, i < j
          PROVE  left[i].position <= left[j].position
      <3>1. /\ passed + i \in DOMAIN s.marks /\ passed + j \in DOMAIN s.marks
            /\ passed + i < passed + j
        BY <1>2, <1>8, <1>9, <2>1
      <3> QED
        BY <1>8, <3>1 DEF InOrder
    <2> HIDE DEF t
    <2> QED
      BY <1>7, <1>10, <2>1 DEF InOrder
  <1>12. \A i \in 1..n - passed : IF i < next THEN left[i].position <= sent
                                   ELSE left[i].position >= sent
    <2> TAKE i \in 1..n - passed
    <2>1. passed + i \in DOMAIN s.marks /\ left[i] = s.marks[passed + i] /\ i \in Nat /\ i >= 1
          /\ left[i].position \in Nat /\ left[i].position >= position
      BY <1>8, <1>9
    <2>2. i < next <=> passed + i < s.nextMark
      BY <1>1, <1>2, <2>1
    <2>3. IF passed + i < s.nextMark THEN left[i].position <= s.sent ELSE left[i].position >= s.sent
      BY <2>1 DEF Fit, Placed
    <2> HIDE DEF next, sent
    <2> QED
      BY <1>1, <1>6, <2>1, <2>2, <2>3
  <1>13. \A i \in 1..n - passed : left[i].position <= s.heard
    BY <1>8, <1>9 DEF Fit
  <1>14. s.heard \in Nat
    BY Sizes DEF Streams
  <1>15. sent <= s.heard
    BY <1>6 DEF Fit
  <1>16. Fit(t)
    <2>1. s.attemptStart <= s.heard
      BY DEF Fit
    <2>2. next <= Len(left) + 1
      BY <1>1, <1>2, <1>5 DEF Fit, n
    <2> HIDE DEF t, next, sent
    <2> QED
      BY <1>1, <1>6, <1>7, <1>10, <1>12, <1>13, <1>15, <2>1, <2>2 DEF Fit, Placed
  <1>17. s.nextMark > n => next > Len(left)
    BY <1>1, <1>2, <1>5
  <1>18. s.nextMark > n => t.nextMark > Len(t.marks)
    BY <1>10, <1>17
  <1> QED
    BY <1>3, <1>10, <1>11, <1>16, <1>18 DEF n

LEMMA AppendFits ==
    ASSUME NEW s \in Streams, InOrder(s), Fit(s), s.heard < MaxHeard,
           s.heard <= s.dropped + MostKept
    PROVE  LET t == append(s) IN
           /\ t \in Streams /\ InOrder(t) /\ Fit(t)
           /\ t.heard = s.heard + 1 /\ t.sent = Larger(s.sent, t.dropped) /\ t.sent < t.heard
           /\ s.dropped <= t.dropped /\ t.heard <= t.dropped + MostKept
           /\ t.dropped = s.dropped \/ t.dropped + MostKept = t.heard
           /\ t.attemptStart = s.attemptStart /\ t.streaming = s.streaming
           /\ t.inputEnded = s.inputEnded /\ t.inputFinished = s.inputFinished
           /\ t.sending => s.sending \/ s.streaming
  <1> DEFINE u == [s EXCEPT !.heard = s.heard + 1]
             v == keepAudioBounded(u)
             t == [v EXCEPT !.sending = v.sending \/ s.streaming]
  <1>1. s.heard \in Nat /\ s.heard + 1 \in 0..MaxHeard /\ s.dropped \in Nat /\ s.sent \in Nat
        /\ s.attemptStart \in Nat /\ MostKept \in Nat \ {0} /\ MaxHeard \in Nat
    BY Sizes DEF Streams
  <1>2. /\ u \in Streams /\ u.heard = s.heard + 1 /\ u.dropped = s.dropped /\ u.sent = s.sent
        /\ u.marks = s.marks /\ u.nextMark = s.nextMark /\ u.attemptStart = s.attemptStart
        /\ u.streaming = s.streaming /\ u.inputEnded = s.inputEnded
        /\ u.inputFinished = s.inputFinished /\ u.sending = s.sending
    BY <1>1 DEF Streams
  <1>3. \A i \in DOMAIN s.marks : s.marks[i].position \in Nat
    BY MarksOf
  <1>4. append(s) = t
    BY DEF append
  <1> HIDE DEF u
  <1>5. InOrder(u) /\ Fit(u)
    BY <1>1, <1>2, <1>3 DEF InOrder, Fit, Placed
  <1>6. /\ v \in Streams /\ InOrder(v) /\ Fit(v)
        /\ v.heard = u.heard /\ v.sent = Larger(u.sent, v.dropped)
        /\ v.attemptStart = u.attemptStart /\ v.streaming = u.streaming
        /\ v.inputEnded = u.inputEnded /\ v.inputFinished = u.inputFinished
        /\ v.sending = u.sending
        /\ v.dropped = IF u.heard - u.dropped > MostKept THEN u.heard - MostKept ELSE u.dropped
    <2>1. CASE u.heard - u.dropped > MostKept
      <3> DEFINE position == u.heard - MostKept
      <3>1. position \in 0..MaxHeard /\ u.dropped <= position /\ position <= u.heard
        BY <1>1, <1>2, <2>1
      <3>2. v = forgetAudioBefore(u, position)
        BY <2>1 DEF keepAudioBounded
      <3> HIDE DEF position, v
      <3>3. /\ v \in Streams /\ InOrder(v) /\ Fit(v)
            /\ v = [u EXCEPT !.dropped = position, !.sent = Larger(u.sent, position),
                             !.marks = v.marks, !.nextMark = v.nextMark]
        BY <1>2, <1>5, <3>1, <3>2, ForgetFits
      <3>4. /\ v.heard = u.heard /\ v.sent = Larger(u.sent, position) /\ v.dropped = position
            /\ v.attemptStart = u.attemptStart /\ v.streaming = u.streaming
            /\ v.inputEnded = u.inputEnded /\ v.inputFinished = u.inputFinished
            /\ v.sending = u.sending
        BY <1>2, <3>3 DEF Streams
      <3> QED
        BY <2>1, <3>3, <3>4 DEF position
    <2>2. CASE ~(u.heard - u.dropped > MostKept)
      <3>1. v = u
        BY <2>2 DEF keepAudioBounded
      <3>2. u.sent = Larger(u.sent, u.dropped)
        BY <1>1, <1>2, <1>5 DEF Fit, Larger
      <3> QED
        BY <1>2, <1>5, <2>2, <3>1, <3>2
    <2> QED
      BY <2>1, <2>2
  <1> HIDE DEF v
  <1>7. /\ t \in Streams /\ t.heard = v.heard /\ t.dropped = v.dropped /\ t.sent = v.sent
        /\ t.marks = v.marks /\ t.nextMark = v.nextMark /\ t.attemptStart = v.attemptStart
        /\ t.streaming = v.streaming /\ t.inputEnded = v.inputEnded
        /\ t.inputFinished = v.inputFinished /\ (t.sending => v.sending \/ s.streaming)
    <2>1. (v.sending \/ s.streaming) \in BOOLEAN
      OBVIOUS
    <2> QED
      BY <1>6, <2>1 DEF Streams
  <1> HIDE DEF t
  <1>8. InOrder(t) /\ Fit(t)
    BY <1>6, <1>7 DEF InOrder, Fit, Placed
  <1>9. /\ s.dropped <= v.dropped /\ v.heard <= v.dropped + MostKept
        /\ v.dropped = s.dropped \/ v.dropped + MostKept = v.heard
        /\ v.sent < v.heard /\ v.sent = Larger(s.sent, v.dropped)
    <2>1. s.sent <= s.heard /\ s.dropped <= s.sent
      BY DEF Fit
    <2>1a. v.sent = Larger(s.sent, v.dropped)
      BY <1>2, <1>6, Zenon
    <2>1b. /\ v.dropped = IF u.heard - u.dropped > MostKept THEN u.heard - MostKept ELSE u.dropped
           /\ v.heard = u.heard
      BY <1>6
    <2>1c. u.heard = s.heard + 1 /\ u.dropped = s.dropped
      BY <1>2
    <2>2. /\ v.heard = s.heard + 1
          /\ v.dropped = IF (s.heard + 1) - s.dropped > MostKept THEN (s.heard + 1) - MostKept
                         ELSE s.dropped
      BY <2>1b, <2>1c
    <2>3. v.sent \in {s.sent, v.dropped}
      BY <2>1a DEF Larger
    <2>4. CASE (s.heard + 1) - s.dropped > MostKept
      <3>1. v.dropped = (s.heard + 1) - MostKept
        BY <2>2, <2>4
      <3>2. /\ s.dropped <= v.dropped /\ v.heard <= v.dropped + MostKept
            /\ v.dropped + MostKept = v.heard /\ v.sent < v.heard
        BY <1>1, <2>1, <2>2, <2>3, <2>4, <3>1
      <3> QED
        BY <2>1a, <3>2
    <2>5. CASE ~((s.heard + 1) - s.dropped > MostKept)
      <3>1. v.dropped = s.dropped
        BY <2>2, <2>5
      <3>2. v.heard <= v.dropped + MostKept /\ v.sent < v.heard
        BY <1>1, <2>1, <2>2, <2>3, <2>5, <3>1
      <3> QED
        BY <1>1, <2>1a, <3>1, <3>2
    <2> QED
      BY <2>4, <2>5
  <1> QED
    BY <1>2, <1>4, <1>6, <1>7, <1>8, <1>9

(* One mark more, after the others and for audio that was not sent. *)
LEMMA MarkFits ==
    ASSUME NEW s \in Streams, InOrder(s), Fit(s), NEW position \in Nat, NEW begins \in BOOLEAN,
           s.sent <= position, position <= s.heard,
           \A i \in DOMAIN s.marks : s.marks[i].position <= position
    PROVE  LET mark == [position |-> position, begins |-> begins]
               t == markUtterancesOnceSent([s EXCEPT !.marks = Append(s.marks, mark)]) IN
           /\ t \in Streams /\ InOrder(t) /\ Fit(t)
           /\ t = [s EXCEPT !.marks = t.marks, !.nextMark = t.nextMark]
  <1> DEFINE mark == [position |-> position, begins |-> begins]
             n == Len(s.marks)
             more == Append(s.marks, mark)
             u == [s EXCEPT !.marks = more]
             t == markUtterancesOnceSent(u)
  <1>1. mark \in Marks /\ mark.position = position
    BY DEF Marks
  <1>2. /\ n \in Nat /\ DOMAIN s.marks = 1..n /\ s.marks \in Seq(Marks)
        /\ \A i \in 1..n : s.marks[i].position \in Nat
    BY MarksOf
  <1> HIDE DEF mark
  <1>3. /\ more \in Seq(Marks) /\ Len(more) = n + 1
        /\ \A i \in 1..n : more[i] = s.marks[i]
        /\ more[n + 1] = mark
    BY <1>1, <1>2, AppendProperties
  <1> HIDE DEF n, more
  <1>4. DOMAIN more = 1..n + 1
    BY <1>3, LenProperties
  <1>5. /\ u \in Streams /\ u.heard = s.heard /\ u.dropped = s.dropped /\ u.sent = s.sent
        /\ u.marks = more /\ u.nextMark = s.nextMark /\ u.attemptStart = s.attemptStart
    BY <1>3 DEF Streams
  <1>6. \A i \in 1..n + 1 : i \in 1..n \/ i = n + 1
    BY <1>2
  <1>7. /\ s.nextMark \in Nat /\ s.nextMark <= n + 1 /\ s.sent \in Nat /\ s.heard \in Nat
    BY Sizes DEF Streams, Fit, n
  <1> HIDE DEF u
  <1>8. InOrder(u)
    <2>1. ASSUME NEW i \in 1..n + 1, NEW j \in 1..n + 1, i < j
          PROVE  more[i].position <= more[j].position
      <3>1. i \in 1..n
        BY <1>2, <2>1
      <3>2. CASE j = n + 1
        BY <1>1, <1>2, <1>3, <3>1, <3>2
      <3>3. CASE j \in 1..n
        BY <1>2, <1>3, <2>1, <3>1, <3>3 DEF InOrder
      <3> QED
        BY <1>6, <3>2, <3>3
    <2> QED
      BY <1>4, <1>5, <2>1 DEF InOrder
  <1>9. Fit(u)
    <2>1. \A i \in 1..n + 1 : more[i].position <= s.heard
      <3>1. \A i \in 1..n : s.marks[i].position <= s.heard
        BY <1>2 DEF Fit
      <3> QED
        BY <1>1, <1>3, <1>6, <3>1
    <2>2. \A i \in 1..n + 1 : IF i < s.nextMark THEN more[i].position <= s.sent
                               ELSE more[i].position >= s.sent
      <3> TAKE i \in 1..n + 1
      <3>1. CASE i \in 1..n
        BY <1>2, <1>3, <3>1 DEF Fit, Placed
      <3>2. CASE i = n + 1
        BY <1>1, <1>2, <1>3, <1>7, <3>2
      <3> QED
        BY <1>6, <3>1, <3>2
    <2>3. s.nextMark <= Len(more) + 1
      BY <1>2, <1>3, <1>7
    <2> QED
      BY <1>4, <1>5, <2>1, <2>2, <2>3 DEF Fit, Placed
  <1>10. /\ t \in Streams /\ InOrder(t) /\ Fit(t)
         /\ t = [u EXCEPT !.nextMark = t.nextMark]
    BY <1>5, <1>8, <1>9, OnceSentFits
  <1> HIDE DEF t
  <1>11. t = [s EXCEPT !.marks = t.marks, !.nextMark = t.nextMark]
    <2>1. t.marks = more
      BY <1>5, <1>10 DEF Streams
    <2> QED
      BY <1>10, <2>1 DEF u, Streams
  <1> QED
    BY <1>10, <1>11 DEF t, u, more, mark

(* What marking an utterance leaves alone. *)
Unmoved(s, t) ==
    /\ t.heard = s.heard /\ t.dropped = s.dropped /\ t.sent = s.sent
    /\ t.attemptStart = s.attemptStart /\ t.inputEnded = s.inputEnded
    /\ t.inputFinished = s.inputFinished /\ t.streaming = s.streaming /\ t.sending = s.sending

LEMMA BeginFits ==
    ASSUME NEW s \in Streams, InOrder(s), Fit(s), s.sent < s.heard
    PROVE  LET t == beginUtterance(s) IN
           t \in Streams /\ InOrder(t) /\ Fit(t) /\ Unmoved(s, t)
  <1> DEFINE position == IF s.marks = <<>> THEN s.heard - 1
                         ELSE Larger(s.heard - 1, Last(s.marks).position)
             mark == [position |-> position, begins |-> TRUE]
             t == markUtterancesOnceSent([s EXCEPT !.marks = Append(s.marks, mark)])
  <1>1. s.heard \in Nat /\ s.sent \in Nat
    BY Sizes DEF Streams
  <1>2. /\ Len(s.marks) \in Nat /\ DOMAIN s.marks = 1..Len(s.marks) /\ s.marks \in Seq(Marks)
        /\ \A i \in DOMAIN s.marks : s.marks[i].position \in Nat
    BY MarksOf
  <1>3. position \in Nat /\ s.sent <= position /\ position <= s.heard
        /\ \A i \in DOMAIN s.marks : s.marks[i].position <= position
    <2>1. CASE s.marks = <<>>
      BY <1>1, <2>1
    <2>2. CASE s.marks # <<>>
      <3>1. Len(s.marks) \in DOMAIN s.marks
        BY <1>2, <2>2
      <3> DEFINE last == s.marks[Len(s.marks)].position
      <3>2. position = Larger(s.heard - 1, last) /\ last \in Nat /\ last <= s.heard
        BY <1>2, <2>2, <3>1 DEF Last, Fit
      <3>3. \A i \in DOMAIN s.marks : s.marks[i].position <= last
        <4> TAKE i \in DOMAIN s.marks
        <4>1. i = Len(s.marks) \/ i < Len(s.marks)
          BY <1>2
        <4> QED
          BY <1>2, <3>1, <4>1 DEF InOrder
      <3> HIDE DEF last, position
      <3> QED
        BY <1>1, <1>2, <3>2, <3>3 DEF Larger
    <2> QED
      BY <2>1, <2>2
  <1>4. beginUtterance(s) = t
    BY DEF beginUtterance
  <1> HIDE DEF position
  <1>5. /\ t \in Streams /\ InOrder(t) /\ Fit(t)
        /\ t = [s EXCEPT !.marks = t.marks, !.nextMark = t.nextMark]
    BY <1>3, MarkFits
  <1> HIDE DEF t
  <1>6. Unmoved(s, t)
    BY <1>5 DEF Unmoved, Streams
  <1> QED
    BY <1>4, <1>5, <1>6

LEMMA EndFits ==
    ASSUME NEW s \in Streams, InOrder(s), Fit(s)
    PROVE  LET t == endUtterance(s) IN
           /\ t \in Streams /\ InOrder(t) /\ Fit(t) /\ Unmoved(s, t)
           /\ s.inputFinished => t = s
  <1> DEFINE mark == [position |-> s.heard, begins |-> FALSE]
             t == markUtterancesOnceSent([s EXCEPT !.marks = Append(s.marks, mark)])
  <1>1. CASE s.inputFinished
    <2>1. endUtterance(s) = s
      BY <1>1 DEF endUtterance
    <2> QED
      BY <2>1 DEF Unmoved
  <1>2. CASE ~s.inputFinished
    <2>1. s.heard \in Nat /\ s.sent <= s.heard /\ s.heard <= s.heard
          /\ \A i \in DOMAIN s.marks : s.marks[i].position <= s.heard
      BY Sizes DEF Streams, Fit
    <2>2. endUtterance(s) = t
      BY <1>2 DEF endUtterance
    <2>3. /\ t \in Streams /\ InOrder(t) /\ Fit(t)
          /\ t = [s EXCEPT !.marks = t.marks, !.nextMark = t.nextMark]
      BY <2>1, MarkFits
    <2> HIDE DEF t
    <2>4. Unmoved(s, t)
      BY <2>3 DEF Unmoved, Streams
    <2> QED
      BY <1>2, <2>2, <2>3, <2>4
  <1> QED
    BY <1>1, <1>2

(* Holding, dropping and letting go. *)
LEMMA HoldFits ==
    ASSUME NEW s \in Streams
    PROVE  LET t == hold(s) IN
           /\ t \in Streams /\ ~t.streaming /\ ~t.sending
           /\ t.heard = s.heard /\ t.dropped = s.dropped /\ t.sent = s.sent
           /\ t.attemptStart = s.attemptStart /\ t.inputEnded = s.inputEnded
           /\ t.inputFinished = s.inputFinished /\ t.marks = s.marks /\ t.nextMark = s.nextMark
           /\ InOrder(s) => InOrder(t)
           /\ Fit(s) => Fit(t)
  <1> DEFINE t == [s EXCEPT !.streaming = FALSE, !.sending = FALSE]
  <1>1. hold(s) = t
    BY DEF hold
  <1>2. /\ t \in Streams /\ ~t.streaming /\ ~t.sending
        /\ t.heard = s.heard /\ t.dropped = s.dropped /\ t.sent = s.sent
        /\ t.attemptStart = s.attemptStart /\ t.inputEnded = s.inputEnded
        /\ t.inputFinished = s.inputFinished /\ t.marks = s.marks /\ t.nextMark = s.nextMark
    BY DEF Streams
  <1> HIDE DEF t
  <1> QED
    BY <1>1, <1>2 DEF InOrder, Fit, Placed

LEMMA DropFits ==
    ASSUME NEW s \in Streams, InOrder(s), Fit(s), NEW connected \in BOOLEAN,
           connected <=> attempts.connected
    PROVE  LET t == dropAttempt(s) IN
           /\ t \in Streams /\ InOrder(t) /\ Fit(t) /\ ~t.streaming /\ ~t.sending
           /\ t.heard = s.heard /\ t.dropped = s.dropped /\ t.attemptStart = s.attemptStart
           /\ t.inputEnded = s.inputEnded /\ t.inputFinished = s.inputFinished
           /\ t.sent = IF connected THEN s.sent ELSE Larger(s.attemptStart, s.dropped)
  <1> DEFINE h == hold(s)
             position == Larger(s.attemptStart, s.dropped)
  <1>1. /\ h \in Streams /\ InOrder(h) /\ Fit(h) /\ ~h.streaming /\ ~h.sending
        /\ h.heard = s.heard /\ h.dropped = s.dropped /\ h.sent = s.sent
        /\ h.attemptStart = s.attemptStart /\ h.inputEnded = s.inputEnded
        /\ h.inputFinished = s.inputFinished
    BY HoldFits
  <1>2. CASE connected
    <2>1. dropAttempt(s) = h
      BY <1>2 DEF dropAttempt
    <2> HIDE DEF h
    <2> QED
      BY <1>1, <1>2, <2>1
  <1>3. CASE ~connected
    <2>1. dropAttempt(s) = rewindTo(h, position)
      BY <1>3 DEF dropAttempt
    <2>2. position \in 0..MaxHeard /\ s.dropped <= position /\ position <= s.heard
      <3>1. /\ s.attemptStart \in 0..MaxHeard /\ s.dropped \in 0..MaxHeard
            /\ s.attemptStart \in Nat /\ s.dropped \in Nat
        BY Sizes DEF Streams
      <3>2. s.attemptStart <= s.heard /\ s.dropped <= s.heard
        BY <3>1, Sizes DEF Fit, Streams
      <3> QED
        BY <3>1, <3>2 DEF Larger
    <2> HIDE DEF h, position
    <2>3. /\ rewindTo(h, position) \in Streams /\ InOrder(rewindTo(h, position))
          /\ Fit(rewindTo(h, position))
      BY <1>1, <2>2, RewindFits
    <2>4. LET t == rewindTo(h, position) IN
          /\ t.streaming = h.streaming /\ t.sending = h.sending
          /\ t.heard = h.heard /\ t.dropped = h.dropped /\ t.attemptStart = h.attemptStart
          /\ t.inputEnded = h.inputEnded /\ t.inputFinished = h.inputFinished
          /\ t.sent = position
      BY <1>1 DEF rewindTo, Streams
    <2> QED
      BY <1>1, <1>3, <2>1, <2>3, <2>4 DEF position
  <1> QED
    BY <1>2, <1>3

(* A chunk that was sent goes once the attempt has connected. *)
LEMMA LetGoFits ==
    ASSUME NEW s \in Streams, InOrder(s), Fit(s)
    PROVE  LET t == letGo(s) IN
           /\ t \in Streams /\ InOrder(t) /\ Fit(t)
           /\ t.heard = s.heard /\ t.sent = s.sent /\ t.attemptStart = s.attemptStart
           /\ t.inputEnded = s.inputEnded /\ t.inputFinished = s.inputFinished
           /\ t.streaming = s.streaming /\ t.sending = s.sending
           /\ t.dropped = IF attempts.connected THEN s.sent ELSE s.dropped
  <1> DEFINE t == forgetAudioBefore(s, s.sent)
  <1>1. CASE attempts.connected
    <2>1. letGo(s) = t
      BY <1>1 DEF letGo
    <2>2. s.sent \in 0..MaxHeard /\ s.dropped <= s.sent /\ s.sent <= s.heard /\ s.sent \in Nat
      BY Sizes DEF Streams, Fit
    <2>3. /\ t \in Streams /\ InOrder(t) /\ Fit(t)
          /\ t = [s EXCEPT !.dropped = s.sent, !.sent = Larger(s.sent, s.sent),
                           !.marks = t.marks, !.nextMark = t.nextMark]
      BY <2>2, ForgetFits
    <2>4. Larger(s.sent, s.sent) = s.sent
      BY DEF Larger
    <2> HIDE DEF t
    <2>5. /\ t.heard = s.heard /\ t.sent = s.sent /\ t.attemptStart = s.attemptStart
          /\ t.inputEnded = s.inputEnded /\ t.inputFinished = s.inputFinished
          /\ t.streaming = s.streaming /\ t.sending = s.sending /\ t.dropped = s.sent
      BY <2>3, <2>4 DEF Streams
    <2> QED
      BY <1>1, <2>1, <2>3, <2>5
  <1>2. CASE ~attempts.connected
    BY <1>2 DEF letGo
  <1> QED
    BY <1>1, <1>2

-----------------------------------------------------------------------------
(* The call stack. *)

LEMMA StackOf ==
    ASSUME NEW stack \in Seq(Frames)
    PROVE  /\ Len(stack) \in Nat /\ DOMAIN stack = 1..Len(stack)
           /\ \A i \in DOMAIN stack : stack[i] \in Frames
  <1>1. Len(stack) \in Nat /\ DOMAIN stack = 1..Len(stack)
    BY LenProperties
  <1> QED
    BY <1>1, ElementOfSeq

LEMMA OvertakenFits ==
    ASSUME NEW stack \in Seq(Frames)
    PROVE  /\ Overtaken(stack) \in Seq(Frames) /\ DOMAIN Overtaken(stack) = DOMAIN stack
           /\ \A i \in DOMAIN stack : Overtaken(stack)[i] \notin AttemptGuarded
  <1> DEFINE over == [i \in DOMAIN stack |->
                        IF stack[i] \in AttemptGuarded THEN "overtaken" ELSE stack[i]]
  <1>1. /\ Len(stack) \in Nat /\ DOMAIN stack = 1..Len(stack)
        /\ \A i \in DOMAIN stack : stack[i] \in Frames
    BY StackOf
  <1>2. \A i \in DOMAIN stack : over[i] \in Frames /\ over[i] \notin AttemptGuarded
    BY <1>1 DEF Frames, AttemptGuarded
  <1>3. over \in [1..Len(stack) -> Frames]
    BY <1>1, <1>2
  <1>4. over \in Seq(Frames)
    BY <1>1, <1>3
  <1> QED
    BY <1>2, <1>4 DEF Overtaken

(* Frames that no attempt's end overtakes, or that wait below an opening. *)
Opening == {<<>>, <<"resumed">>, <<"beginStreamed">>}

LEMMA OpenedFits ==
    ASSUME NEW then \in Opening, NEW stack \in Seq(Frames)
    PROVE  LET all == <<"startAttempt">> \o then \o Overtaken(stack) IN
           /\ all \in Seq(Frames)
           /\ \A i \in DOMAIN all :
                /\ all[i] = "beginStreamed" => i = 2 /\ all[1] = "startAttempt"
                /\ all[i] # "chunkSent"
  <1> DEFINE over == Overtaken(stack)
             first == <<"startAttempt">> \o then
             all == first \o over
  <1>1. /\ over \in Seq(Frames) /\ Len(over) \in Nat
        /\ \A i \in 1..Len(over) : over[i] \notin AttemptGuarded
    BY OvertakenFits, LenProperties
  <1>2. /\ first \in Seq(Frames) /\ Len(first) \in {1, 2} /\ first[1] = "startAttempt"
        /\ \A i \in 1..Len(first) : i = 1 \/ i = 2
        /\ Len(first) = 2 => first[2] # "chunkSent"
    <2>1. /\ then \in Seq(Frames) /\ Len(then) \in {0, 1}
          /\ \A i \in 1..Len(then) : then[i] # "chunkSent"
      <3>1. CASE then = <<>>
        BY <3>1
      <3>2. CASE then = <<"resumed">>
        BY <3>2 DEF Frames
      <3>3. CASE then = <<"beginStreamed">>
        BY <3>3 DEF Frames
      <3> QED
        BY <3>1, <3>2, <3>3 DEF Opening
    <2> DEFINE start == <<"startAttempt">>
    <2>2. start \in Seq(Frames) /\ Len(start) = 1 /\ start[1] = "startAttempt"
      BY DEF Frames, ProviderCalls
    <2> HIDE DEF start
    <2>3. /\ start \o then \in Seq(Frames) /\ Len(start \o then) = Len(start) + Len(then)
          /\ \A i \in 1..Len(start) + Len(then) :
               (start \o then)[i] = IF i <= Len(start) THEN start[i] ELSE then[i - Len(start)]
      BY <2>1, <2>2, ConcatProperties
    <2>4. first = start \o then
      BY DEF start
    <2> HIDE DEF first
    <2>5. /\ first \in Seq(Frames) /\ Len(first) \in {1, 2} /\ first[1] = "startAttempt"
          /\ Len(first) = 2 => first[2] # "chunkSent"
      BY <2>1, <2>2, <2>3, <2>4
    <2> DEFINE n == Len(first)
    <2>6. n \in {1, 2}
      BY <2>5
    <2> HIDE DEF n
    <2>7. \A i \in 1..n : i = 1 \/ i = 2
      BY <2>6
    <2> QED
      BY <2>5, <2>7 DEF n
  <1> HIDE DEF over, first
  <1>3. /\ all \in Seq(Frames) /\ Len(all) = Len(first) + Len(over)
        /\ \A i \in 1..Len(first) + Len(over) :
             all[i] = IF i <= Len(first) THEN first[i] ELSE over[i - Len(first)]
    BY <1>1, <1>2, ConcatProperties
  <1> HIDE DEF all
  <1>4. DOMAIN all = 1..Len(first) + Len(over)
    BY <1>3, LenProperties
  <1>5. \A i \in DOMAIN all :
          \/ i = 1 /\ all[i] = "startAttempt"
          \/ i = 2 /\ all[i] # "chunkSent"
          \/ all[i] \notin AttemptGuarded
    <2> TAKE i \in DOMAIN all
    <2>1. CASE i <= Len(first)
      BY <1>1, <1>2, <1>3, <1>4, <2>1
    <2>2. CASE ~(i <= Len(first))
      <3>1. i - Len(first) \in 1..Len(over) /\ all[i] = over[i - Len(first)]
        BY <1>1, <1>2, <1>3, <1>4, <2>2
      <3> QED
        BY <1>1, <3>1
    <2> QED
      BY <2>1, <2>2
  <1>6. all[1] = "startAttempt"
    BY <1>1, <1>2, <1>3
  <1>7. <<"startAttempt">> \o then \o Overtaken(stack) = all
    BY DEF all, first, over
  <1> QED
    BY <1>3, <1>5, <1>6, <1>7 DEF AttemptGuarded

(* A call that returns, and those it leaves. *)
LEMMA ReturnFits ==
    ASSUME NEW stack \in Seq(Frames), stack # <<>>
    PROVE  /\ Tail(stack) \in Seq(Frames) /\ Head(stack) = stack[1] /\ 1 \in DOMAIN stack
           /\ \A i \in DOMAIN Tail(stack) :
                i \in Nat \ {0} /\ i + 1 \in DOMAIN stack /\ Tail(stack)[i] = stack[i + 1]
  OBVIOUS

-----------------------------------------------------------------------------
(* How an attempt, or a wait for one, goes on. *)

(* The stack without what was overtaken. *)
LEMMA OvertakenStack ==
    ASSUME Typed, calls' = Overtaken(calls)
    PROVE  calls' \in Seq(Frames) /\ StackFits'
  <1>1. /\ calls' \in Seq(Frames) /\ DOMAIN calls' = DOMAIN calls
        /\ \A i \in DOMAIN calls : calls'[i] \notin AttemptGuarded
    BY OvertakenFits DEF Typed
  <1> QED
    BY <1>1 DEF StackFits, AttemptGuarded

LEMMA FinishKeeps ==
    ASSUME Inv, NEW i \in 1..(Providers + 1), finishAt(i, calls)
    PROVE  Inv'
  <1>1. Typed
    BY DEF Inv
  <1>2. /\ ~running' /\ input' = "Off" /\ ~reconnectTimer' /\ ~signInRefused' /\ ~utterance'
        /\ running' \in BOOLEAN /\ reconnectTimer' \in BOOLEAN /\ signInRefused' \in BOOLEAN
        /\ utterance' \in BOOLEAN
        /\ stream' = [hold(stream) EXCEPT !.heard = 0, !.dropped = 0]
        /\ attempts' = [attempts EXCEPT !.live = FALSE]
        /\ chain' = [index |-> i, job |-> "none"] /\ calls' = Overtaken(calls)
        /\ delay' = delay /\ seen' = seen
    BY DEF finishAt
  <1>3. calls' \in Seq(Frames) /\ StackFits'
    BY <1>1, <1>2, OvertakenStack
  <1>4. /\ stream' \in Streams /\ ~stream'.streaming /\ ~stream'.sending
        /\ stream'.marks = stream.marks
        /\ stream'.inputFinished = stream.inputFinished /\ stream'.inputEnded = stream.inputEnded
    <2>1. /\ hold(stream) \in Streams /\ ~hold(stream).streaming /\ ~hold(stream).sending
          /\ hold(stream).marks = stream.marks
          /\ hold(stream).inputFinished = stream.inputFinished
          /\ hold(stream).inputEnded = stream.inputEnded
      BY <1>1, HoldFits DEF Typed
    <2>2. 0 \in 0..MaxHeard
      BY Sizes
    <2> QED
      BY <1>2, <2>1, <2>2 DEF Streams
  <1>5. attempts' \in Attempts /\ ~attempts'.live /\ chain' \in Chains /\ chain'.job = "none"
    BY <1>1, <1>2 DEF Typed, Attempts, Chains
  <1>6. Typed'
    BY <1>1, <1>2, <1>3, <1>4, <1>5 DEF Typed, Inputs
  <1>7. InOrder(stream)'
    BY <1>4 DEF Inv, InOrder
  <1>8. Rests' /\ OneWay' /\ EndSound'
    BY <1>2, <1>4, <1>5 DEF Rests, OneWay, EndSound, waits, toldInputEnded, Inv
  <1> QED
    BY <1>2, <1>3, <1>6, <1>7, <1>8 DEF Inv

(* The worker prepares the next provider that can take the audio. *)
LEMMA WalkKeeps ==
    ASSUME Inv, running, NEW i \in 1..(Providers + 1), NEW state \in Inputs, NEW s \in Streams,
           s = stream \/ s = hold(stream), ~s.streaming, ~s.sending,
           state # "Starting", stream.inputEnded => state = "Off",
           ~reconnectTimer, seen.reached = 0, walk(i, state, s, calls)
    PROVE  Inv'
  <1>1. Typed
    BY DEF Inv
  <1>2. CASE finishAt(Providers + 1, calls)
    <2>1. Providers + 1 \in 1..(Providers + 1)
      BY Sizes
    <2> QED
      BY <1>2, <2>1, FinishKeeps
  <1>3. CASE ~finishAt(Providers + 1, calls)
    <2>1. PICK j \in i..Providers :
            /\ chain' = [index |-> j, job |-> "preparing"]
            /\ attempts' = [attempts EXCEPT !.live = FALSE]
            /\ stream' = s /\ input' = state
            /\ calls' = Overtaken(calls)
            /\ UNCHANGED <<running, utterance, waitVars, seen>>
      BY <1>3 DEF walk
    <2>2. j \in 1..(Providers + 1)
      BY Sizes
    <2>3. calls' \in Seq(Frames) /\ StackFits'
      BY <1>1, <2>1, OvertakenStack
    <2>4. /\ attempts' \in Attempts /\ ~attempts'.live /\ attempts'.made = attempts.made
          /\ (attempts'.connected <=> attempts.connected)
          /\ chain' \in Chains /\ chain'.job = "preparing"
      BY <1>1, <2>1, <2>2 DEF Typed, Attempts, Chains
    <2>5. /\ s.heard = stream.heard /\ s.dropped = stream.dropped /\ s.sent = stream.sent
          /\ s.attemptStart = stream.attemptStart /\ s.inputEnded = stream.inputEnded
          /\ s.inputFinished = stream.inputFinished
          /\ InOrder(s) /\ Fit(s)
      BY <1>1, HoldFits DEF Inv, Typed
    <2>6. Typed'
      BY <1>1, <2>1, <2>3, <2>4 DEF Typed, waitVars
    <2>7. Rests' /\ OneWay'
      BY <2>1, <2>4 DEF Rests, OneWay, waits, waitVars
    <2>8. EndSound'
      BY <2>1, <2>4, <2>5 DEF Inv, EndSound, waits, toldInputEnded, waitVars
    <2>9. Reached'
      BY <2>1, <2>4, <2>5 DEF Inv, Reached, waits, waitVars
    <2>10. KeptSound'
      BY <2>1, <2>5 DEF Inv, KeptSound
    <2>11. InOrder(stream)' /\ Fit(stream)'
      BY <2>1, <2>5
    <2> QED
      BY <2>3, <2>6, <2>7, <2>8, <2>9, <2>10, <2>11 DEF Inv
  <1> QED
    BY <1>2, <1>3

(* The next attempt takes the audio from where it stands. *)
LEMMA OpenKeeps ==
    ASSUME Inv, running, NEW s \in Streams, NEW a \in Attempts, NEW then \in Opening,
           NEW stack \in Seq(Frames), OpenAttempt(s, a, then, stack),
           InOrder(s), Fit(s), s.heard = stream.heard, s.dropped = stream.dropped,
           seen.reached <= s.sent, s.sent <= Larger(seen.reached, s.dropped),
           ~s.inputFinished, s.inputEnded => input' = "Off", a.made = 0 => seen.reached = 0,
           s.sending => s.streaming,
           running' = running, utterance' = utterance, input' \in Inputs \ {"Starting"},
           ~reconnectTimer', reconnectTimer' \in BOOLEAN,
           delay' \in 0..(Pauses - 1), signInRefused' \in BOOLEAN,
           chain' \in Chains, chain'.job = "none"
    PROVE  Inv'
  <1>1. Typed
    BY DEF Inv
  <1>2. /\ stream' = [s EXCEPT !.attemptStart = s.sent]
        /\ attempts' = [a EXCEPT !.live = TRUE, !.opened = a.opened + 1,
                                 !.made = Smaller(a.made + 1, 2),
                                 !.connected = FALSE, !.sentAudio = FALSE, !.stable = FALSE]
        /\ calls' = <<"startAttempt">> \o then \o Overtaken(stack)
        /\ seen' = [seen EXCEPT !.waited = FALSE]
    BY DEF OpenAttempt
  <1>3. /\ stream' \in Streams /\ stream'.attemptStart = s.sent /\ stream'.sent = s.sent
        /\ stream'.heard = s.heard /\ stream'.dropped = s.dropped /\ stream'.marks = s.marks
        /\ stream'.nextMark = s.nextMark /\ stream'.inputEnded = s.inputEnded
        /\ stream'.inputFinished = s.inputFinished /\ stream'.streaming = s.streaming
        /\ stream'.sending = s.sending
    BY <1>2 DEF Streams
  <1>4. /\ a.made \in 0..2 /\ a.opened + 1 \in Nat
        /\ Smaller(a.made + 1, 2) \in 1..2
        /\ Smaller(a.made + 1, 2) = 1 => a.made = 0
    BY DEF Attempts, Smaller
  <1>5. /\ attempts' \in Attempts /\ attempts'.live /\ ~attempts'.connected
        /\ attempts'.made # 0 /\ (attempts'.made = 1 => a.made = 0)
    <2> DEFINE made == Smaller(a.made + 1, 2)
               opened == a.opened + 1
    <2> HIDE DEF made, opened
    <2>1. attempts' = [a EXCEPT !.live = TRUE, !.opened = opened, !.made = made,
                               !.connected = FALSE, !.sentAudio = FALSE, !.stable = FALSE]
      BY <1>2 DEF made, opened
    <2>2. made \in 0..2 /\ made # 0 /\ (made = 1 => a.made = 0) /\ opened \in Nat
      BY <1>4 DEF made, opened
    <2> QED
      BY <2>1, <2>2 DEF Attempts
  <1>6. /\ calls' \in Seq(Frames)
        /\ \A i \in DOMAIN calls' :
             /\ calls'[i] = "beginStreamed" => i = 2 /\ calls'[1] = "startAttempt"
             /\ calls'[i] # "chunkSent"
    BY <1>2, OpenedFits, Zenon
  <1>7. StackFits'
    BY <1>5, <1>6 DEF StackFits
  <1>8. seen' \in [reached: 0..MaxHeard, waited: BOOLEAN] /\ seen'.reached = seen.reached
    BY <1>1, <1>2 DEF Typed
  <1>9. Typed'
    BY <1>1, <1>3, <1>5, <1>6, <1>8 DEF Typed
  <1>10. Rests'
    BY DEF Rests
  <1>11. OneWay'
    BY <1>3, <1>5 DEF OneWay, waits
  <1>12. EndSound'
    BY <1>3 DEF EndSound, toldInputEnded
  <1>13. Reached'
    BY <1>3, <1>5, <1>8, Sizes DEF Reached, waits, Typed
  <1>14. KeptSound'
    BY <1>3, <1>8 DEF Inv, KeptSound
  <1>15. InOrder(stream)'
    BY <1>3 DEF InOrder
  <1>16. Fit(stream)'
    BY <1>3 DEF Fit, Placed
  <1> QED
    BY <1>7, <1>9, <1>10, <1>11, <1>12, <1>13, <1>14, <1>15, <1>16 DEF Inv

(* A reconnect renews the sign-in first, or opens the next attempt at once. *)
LEMMA ReconnectKeeps ==
    ASSUME Inv, running, NEW s \in Streams, NEW a \in Attempts, NEW stack \in Seq(Frames),
           reconnect(s, a, stack), \A i \in DOMAIN stack : stack[i] # "beginStreamed",
           InOrder(s), Fit(s), s.heard = stream.heard, s.dropped = stream.dropped,
           seen.reached <= s.sent, s.sent <= Larger(seen.reached, s.dropped),
           s.attemptStart <= Larger(seen.reached, s.dropped),
           ~s.inputFinished, s.inputEnded => input' = "Off",
           ~a.live, a.made # 0, ~a.connected => seen.reached <= s.attemptStart,
           a.made = 1 /\ ~a.connected => seen.reached = 0,
           input' \in Inputs \ {"Starting"}, chain.job = "none",
           ~reconnectTimer', reconnectTimer' \in BOOLEAN,
           delay' \in 0..(Pauses - 1), signInRefused' \in BOOLEAN
    PROVE  Inv'
  <1>1. Typed
    BY DEF Inv
  <1>2. CASE resume(s, a, stack)
    <2> DEFINE t == [s EXCEPT !.streaming = TRUE]
    <2>1. /\ OpenAttempt(t, a, <<"resumed">>, stack) /\ UNCHANGED <<running, utterance, chain>>
      BY <1>2 DEF resume, startNextAttempt
    <2>2. /\ t \in Streams /\ t.heard = s.heard /\ t.dropped = s.dropped /\ t.sent = s.sent
          /\ t.attemptStart = s.attemptStart /\ t.inputEnded = s.inputEnded
          /\ t.inputFinished = s.inputFinished /\ t.marks = s.marks /\ t.nextMark = s.nextMark
          /\ t.streaming
      BY DEF Streams
    <2> HIDE DEF t
    <2>3. InOrder(t) /\ Fit(t)
      BY <2>2 DEF InOrder, Fit, Placed
    <2>4. <<"resumed">> \in Opening
      BY DEF Opening
    <2>5. chain' \in Chains /\ chain'.job = "none"
      BY <1>1, <2>1 DEF Typed
    <2>6. /\ seen.reached <= t.sent /\ t.sent <= Larger(seen.reached, t.dropped)
          /\ ~t.inputFinished /\ (t.inputEnded => input' = "Off")
          /\ t.heard = stream.heard /\ t.dropped = stream.dropped
      BY <2>2
    <2>7. /\ running' = running /\ utterance' = utterance
          /\ (t.sending => t.streaming) /\ (a.made = 0 => seen.reached = 0)
      BY <2>1, <2>2
    <2> HIDE DEF OpenAttempt
    <2> QED
      BY <2>1, <2>2, <2>3, <2>4, <2>5, <2>6, <2>7, OpenKeeps
  <1>3. CASE ~resume(s, a, stack)
    <2>1. /\ chain' = [chain EXCEPT !.job = "renewing"] /\ stream' = hold(s)
          /\ attempts' = a /\ calls' = stack
          /\ UNCHANGED <<running, utterance, seen>>
      BY <1>3 DEF reconnect
    <2>2. /\ stream' \in Streams /\ ~stream'.streaming /\ ~stream'.sending
          /\ stream'.heard = s.heard /\ stream'.dropped = s.dropped /\ stream'.sent = s.sent
          /\ stream'.attemptStart = s.attemptStart /\ stream'.inputEnded = s.inputEnded
          /\ stream'.inputFinished = s.inputFinished
          /\ InOrder(stream') /\ Fit(stream')
      BY <2>1, HoldFits
    <2>3. chain' \in Chains /\ chain'.job = "renewing"
      BY <1>1, <2>1 DEF Typed, Chains
    <2>4. Typed'
      BY <1>1, <2>1, <2>2, <2>3 DEF Typed
    <2>5. StackFits'
      BY <2>1, <2>2 DEF StackFits
    <2>6. Rests' /\ OneWay'
      BY <2>1, <2>2, <2>3 DEF Rests, OneWay, waits
    <2>7. EndSound'
      BY <2>1, <2>2 DEF EndSound, toldInputEnded
    <2>8. Reached'
      BY <2>1, <2>2, <2>3 DEF Reached, waits
    <2>9. KeptSound'
      BY <2>1, <2>2 DEF Inv, KeptSound
    <2> QED
      BY <2>2, <2>4, <2>5, <2>6, <2>7, <2>8, <2>9 DEF Inv
  <1> QED
    BY <1>2, <1>3

(* A stream that dropped waits, and what was sent in vain waits to be sent again. *)
LEMMA WaitKeeps ==
    ASSUME Inv, running, waitToReconnect(calls), input = "Listening",
           attempts.live \/ chain.job = "renewing",
           signInRefused' \in BOOLEAN, chain' = [chain EXCEPT !.job = "none"]
    PROVE  Inv'
  <1>1. Typed /\ Fit(stream) /\ InOrder(stream) /\ Reached /\ KeptSound /\ OneWay /\ EndSound
    BY DEF Inv
  <1>2. /\ stream' = dropAttempt(stream) /\ attempts' = [attempts EXCEPT !.live = FALSE]
        /\ delay' = nextDelay(IF attemptWasHealthy THEN 0 ELSE delay)
        /\ reconnectTimer' = TRUE /\ seen' = [seen EXCEPT !.waited = TRUE]
        /\ calls' = Overtaken(calls) /\ UNCHANGED <<running, input, utterance>>
    BY DEF waitToReconnect
  <1>3. attempts.connected \in BOOLEAN /\ stream \in Streams
    BY <1>1 DEF Typed, Attempts
  <1>4. /\ stream' \in Streams /\ InOrder(stream') /\ Fit(stream')
        /\ ~stream'.streaming /\ ~stream'.sending
        /\ stream'.heard = stream.heard /\ stream'.dropped = stream.dropped
        /\ stream'.attemptStart = stream.attemptStart
        /\ stream'.inputEnded = stream.inputEnded
        /\ stream'.inputFinished = stream.inputFinished
        /\ stream'.sent = IF attempts.connected THEN stream.sent
                          ELSE Larger(stream.attemptStart, stream.dropped)
    BY <1>1, <1>2, <1>3, DropFits
  <1>5. /\ attempts' \in Attempts /\ ~attempts'.live /\ attempts'.made = attempts.made
        /\ (attempts'.connected <=> attempts.connected)
        /\ chain' \in Chains /\ chain'.job = "none"
        /\ seen' \in [reached: 0..MaxHeard, waited: BOOLEAN] /\ seen'.reached = seen.reached
    BY <1>1, <1>2 DEF Typed, Attempts, Chains
  <1>6. delay' \in 0..(Pauses - 1)
    BY <1>1, <1>2, Sizes DEF Typed, nextDelay, Smaller
  <1>7. calls' \in Seq(Frames) /\ StackFits'
    BY <1>1, <1>2, OvertakenStack
  <1>8. Typed'
    BY <1>1, <1>2, <1>4, <1>5, <1>6, <1>7 DEF Typed
  <1>9. ~stream.inputEnded /\ ~stream.inputFinished /\ attempts.made # 0
    BY <1>1 DEF EndSound, OneWay, waits
  <1>10. Rests' /\ OneWay' /\ EndSound'
    BY <1>2, <1>4, <1>5, <1>9 DEF Rests, OneWay, EndSound, waits, toldInputEnded
  <1>11. Reached'
    <2>1. /\ seen.reached \in Nat /\ stream.sent \in Nat /\ stream.attemptStart \in Nat
          /\ stream.dropped \in Nat
      BY <1>1, Sizes DEF Typed, Streams
    <2>2. stream.attemptStart <= Larger(seen.reached, stream.dropped)
      BY <1>1 DEF Reached, waits
    <2>3. seen.reached <= stream'.sent /\ stream'.sent <= Larger(seen.reached, stream.dropped)
      <3>1. CASE attempts.connected
        BY <1>1, <1>4, <3>1 DEF Reached
      <3>2. CASE ~attempts.connected
        BY <1>1, <1>4, <2>1, <2>2, <3>2 DEF Reached, Larger
      <3> QED
        BY <3>1, <3>2
    <2> QED
      BY <1>1, <1>2, <1>4, <1>5, <2>2, <2>3 DEF Reached, waits
  <1>12. KeptSound'
    BY <1>1, <1>4, <1>5 DEF KeptSound
  <1> QED
    BY <1>4, <1>7, <1>8, <1>10, <1>11, <1>12 DEF Inv

(* A failure is waited out, handed over, tried again at once, or ends the stream. *)
LEMMA HandleFailureKeeps ==
    ASSUME Inv, NEW f \in Failures \cup RenewalFailures, handleFailure(f, calls),
           attempts.live \/ (chain.job = "renewing" /\ f.phase = "Connect"),
           f.phase = "Streaming" => attempts.connected
    PROVE  Inv'
  <1>1. Typed /\ Rests /\ OneWay /\ EndSound
    BY DEF Inv
  <1>2. running /\ attempts.made # 0 /\ input # "Starting" /\ ~reconnectTimer
    BY <1>1 DEF Rests, OneWay, waits
  <1>3. Fit(stream) /\ InOrder(stream) /\ Reached /\ KeptSound
    BY <1>2 DEF Inv
  <1>4. CASE reconnectsLater(f)
    <2>1. /\ waitToReconnect(calls)
          /\ signInRefused' = (signInRefused \/ firstRefusal(f))
          /\ chain' = [chain EXCEPT !.job = "none"] /\ input = "Listening"
      BY <1>4 DEF handleFailure, reconnectsLater
    <2>2. signInRefused' \in BOOLEAN
      BY <1>1, <2>1 DEF Typed
    <2> QED
      BY <1>2, <2>1, <2>2, WaitKeeps
  <1>5. CASE ~reconnectsLater(f) /\ nothingReachedService(f) /\ fallbackRemains(f)
    <2>1. walk(chain.index + 1, input, hold(stream), calls)
      BY <1>5 DEF handleFailure
    <2>2. chain.index + 1 \in 1..(Providers + 1)
      BY <1>1, <1>5, Sizes DEF fallbackRemains, Typed, Chains
    <2>3. seen.reached = 0
      BY <1>3, <1>5 DEF Reached, nothingReachedService
    <2>4. hold(stream) \in Streams /\ ~hold(stream).streaming /\ ~hold(stream).sending
      BY <1>1, HoldFits DEF Typed
    <2>5. input \in Inputs /\ (stream.inputEnded => input = "Off")
      BY <1>1 DEF Typed, EndSound
    <2> QED
      BY <1>2, <2>1, <2>2, <2>3, <2>4, <2>5, WalkKeeps
  <1>6. CASE /\ ~reconnectsLater(f) /\ ~(nothingReachedService(f) /\ fallbackRemains(f))
             /\ ~stream.inputFinished /\ takesReconnect(f)
    <2> DEFINE a == [attempts EXCEPT !.reconnects = reconnectsLeft - 1]
    <2>1. startNextAttempt(stream, a, <<>>, calls) /\ UNCHANGED <<waitVars, input>>
      BY <1>6 DEF handleFailure
    <2>2. OpenAttempt(stream, a, <<>>, calls) /\ UNCHANGED <<running, utterance, chain>>
      BY <2>1 DEF startNextAttempt
    <2>3. a \in Attempts /\ a.made = attempts.made
      <3>1. reconnectsLeft \in 0..Reconnects /\ reconnectsLeft > 0
        BY <1>1, <1>6, Sizes DEF reconnectsLeft, takesReconnect, Typed, Attempts
      <3>2. reconnectsLeft - 1 \in 0..Reconnects
        BY <3>1, Sizes
      <3> QED
        BY <1>1, <3>2 DEF Typed, Attempts
    <2>4. attempts.connected /\ attempts.live
      BY <1>6 DEF takesReconnect
    <2>5. chain \in Chains /\ chain.job = "none"
      BY <1>1, <2>4 DEF Typed, OneWay
    <2>6. seen.reached <= stream.sent /\ stream.sent <= Larger(seen.reached, stream.dropped)
      BY <1>3, <2>4 DEF Reached
    <2>7. <<>> \in Opening
      BY DEF Opening
    <2>8. /\ stream \in Streams /\ calls \in Seq(Frames) /\ input \in Inputs
          /\ delay \in 0..(Pauses - 1) /\ signInRefused \in BOOLEAN /\ reconnectTimer \in BOOLEAN
      BY <1>1 DEF Typed
    <2>9. (stream.sending => stream.streaming) /\ (stream.inputEnded => input = "Off")
      BY <1>1 DEF OneWay, EndSound
    <2>10. /\ input' = input /\ delay' = delay /\ signInRefused' = signInRefused
           /\ reconnectTimer' = reconnectTimer
      BY <2>1 DEF waitVars
    <2> HIDE DEF a
    <2> QED
      BY <1>2, <1>3, <1>6, <2>2, <2>3, <2>5, <2>6, <2>7, <2>8, <2>9, <2>10, OpenKeeps
  <1>7. CASE /\ ~reconnectsLater(f) /\ ~(nothingReachedService(f) /\ fallbackRemains(f))
             /\ ~(~stream.inputFinished /\ takesReconnect(f))
    <2>1. finishAt(chain.index, calls)
      BY <1>7 DEF handleFailure, finish
    <2>2. chain.index \in 1..(Providers + 1)
      BY <1>1 DEF Typed, Chains
    <2> QED
      BY <2>1, <2>2, FinishKeeps
  <1> QED
    BY <1>4, <1>5, <1>6, <1>7

-----------------------------------------------------------------------------
(* The provider's reports and the worker's. *)

LEMMA FailsKeeps == ASSUME Inv, AttemptFails PROVE Inv'
  <1>1. PICK f \in Failures : Fails(f)
    BY DEF AttemptFails
  <1>2. attempts.live /\ handleFailure(f, calls) /\ (f.phase = "Streaming" => attempts.connected)
    BY <1>1 DEF Fails, MayEnd, MayReport
  <1> QED
    BY <1>2, HandleFailureKeeps

LEMMA CompletesKeeps == ASSUME Inv, AttemptCompletes PROVE Inv'
  <1>1. Typed /\ Rests /\ OneWay /\ EndSound /\ StackFits
    BY DEF Inv
  <1>2. attempts.live /\ (stream.inputFinished \/ (attempts.connected /\ ~Running("startAttempt")))
        /\ (calls = <<>> \/ Head(calls) \in ProviderCalls)
    BY DEF AttemptCompletes, MayEnd, MayReport, Free, Running
  <1>3. running /\ chain.job = "none" /\ ~reconnectTimer /\ attempts.made # 0
        /\ input # "Starting"
    BY <1>1, <1>2 DEF Rests, OneWay
  <1>4. Fit(stream) /\ InOrder(stream) /\ Reached
    BY <1>3 DEF Inv
  <1>5. CASE stream.inputFinished
    <2>1. finishAt(chain.index, calls)
      BY <1>5 DEF AttemptCompletes, finish
    <2>2. chain.index \in 1..(Providers + 1)
      BY <1>1 DEF Typed, Chains
    <2> QED
      BY <2>1, <2>2, FinishKeeps
  <1>6. CASE ~stream.inputFinished /\ attempts.stable
    <2> DEFINE a == [attempts EXCEPT !.live = FALSE, !.reconnects = Reconnects]
    <2>1. reconnect(stream, a, calls) /\ UNCHANGED <<waitVars, input>>
      BY <1>6 DEF AttemptCompletes
    <2>2. /\ a \in Attempts /\ ~a.live /\ a.made = attempts.made /\ a.connected
      <3>1. Reconnects \in 0..Reconnects
        BY Sizes
      <3>2. attempts.connected
        BY <1>2, <1>6
      <3> QED
        BY <1>1, <3>1, <3>2 DEF Typed, Attempts
    <2>3. \A i \in DOMAIN calls : calls[i] # "beginStreamed"
      <3>1. CASE calls = <<>>
        BY <3>1
      <3>2. CASE calls # <<>>
        <4>1. Head(calls) = calls[1] /\ calls[1] \in ProviderCalls /\ calls[1] # "startAttempt"
          BY <1>1, <1>2, <1>6, <3>2, ReturnFits DEF Typed, Running
        <4> QED
          BY <1>1, <4>1 DEF StackFits, ProviderCalls
      <3> QED
        BY <3>1, <3>2
    <2>4. /\ seen.reached <= stream.sent /\ stream.sent <= Larger(seen.reached, stream.dropped)
          /\ stream.attemptStart <= Larger(seen.reached, stream.dropped)
      BY <1>2, <1>4, <1>6 DEF Reached
    <2>5. /\ stream \in Streams /\ calls \in Seq(Frames) /\ input \in Inputs
          /\ delay \in 0..(Pauses - 1) /\ signInRefused \in BOOLEAN /\ reconnectTimer \in BOOLEAN
      BY <1>1 DEF Typed
    <2>6. stream.inputEnded => input = "Off"
      BY <1>1 DEF EndSound
    <2>7. /\ input' = input /\ delay' = delay /\ signInRefused' = signInRefused
          /\ reconnectTimer' = reconnectTimer
      BY <2>1 DEF waitVars
    <2> HIDE DEF a
    <2> QED
      BY <1>3, <1>4, <1>6, <2>1, <2>2, <2>3, <2>4, <2>5, <2>6, <2>7, ReconnectKeeps
  <1>7. CASE ~stream.inputFinished /\ ~attempts.stable
    <2>1. handleFailure(Dropped, calls)
      BY <1>7 DEF AttemptCompletes
    <2>2. Dropped \in Failures
      BY DEF Failures
    <2> QED
      BY <1>2, <1>7, <2>1, <2>2, HandleFailureKeeps
  <1> QED
    BY <1>5, <1>6, <1>7

LEMMA ConnectsKeeps == ASSUME Inv, AttemptConnects \/ AttemptAges PROVE Inv'
  <1>1. Typed
    BY DEF Inv
  <1>2. CASE AttemptConnects
    <2>1. /\ attempts.live
          /\ attempts' = [attempts EXCEPT !.connected = TRUE, !.providerConnected = TRUE]
          /\ signInRefused' = FALSE /\ seen' = [seen EXCEPT !.reached = stream.sent]
          /\ UNCHANGED <<running, input, reconnectTimer, delay, utterance, stream, chain, calls>>
      BY <1>2 DEF AttemptConnects, MayReport
    <2>2. /\ attempts' \in Attempts /\ attempts'.live /\ attempts'.connected
          /\ attempts'.made = attempts.made
      BY <1>1, <2>1 DEF Typed, Attempts
    <2>3. seen' \in [reached: 0..MaxHeard, waited: BOOLEAN] /\ seen'.reached = stream.sent
      BY <1>1, <2>1 DEF Typed, Streams
    <2>4. Typed'
      BY <1>1, <2>1, <2>2, <2>3 DEF Typed
    <2>5. Rests' /\ OneWay' /\ EndSound' /\ StackFits'
      BY <2>1, <2>2 DEF Inv, Rests, OneWay, EndSound, StackFits, waits, toldInputEnded
    <2>6. running /\ Fit(stream) /\ Reached /\ KeptSound
      BY <2>1 DEF Inv, Rests
    <2>7. /\ stream.sent \in Nat /\ seen.reached \in Nat /\ stream.dropped \in Nat
          /\ stream.attemptStart \in Nat
      BY <1>1, Sizes DEF Typed, Streams
    <2>8. /\ stream.sent <= Larger(stream.sent, stream.dropped)
          /\ stream.attemptStart <= Larger(stream.sent, stream.dropped)
      <3>1. stream.attemptStart <= Larger(seen.reached, stream.dropped)
            /\ seen.reached <= stream.sent /\ stream.dropped <= stream.sent
        BY <2>1, <2>6 DEF Reached, Fit
      <3> QED
        BY <2>7, <3>1 DEF Larger
    <2>9. Reached'
      <3>1. ~(input = "Starting") /\ chain.job = "none"
        BY <2>1 DEF Inv, OneWay
      <3> QED
        BY <2>1, <2>2, <2>3, <2>7, <2>8, <3>1 DEF Reached, waits
    <2>10. KeptSound'
      BY <2>1, <2>3, <2>6 DEF KeptSound, Fit
    <2> QED
      BY <2>1, <2>4, <2>5, <2>6, <2>9, <2>10 DEF Inv
  <1>3. CASE AttemptAges
    <2>1. /\ attempts' = [attempts EXCEPT !.stable = TRUE]
          /\ UNCHANGED <<running, input, waitVars, utterance, stream, chain, calls, seen>>
      BY <1>3 DEF AttemptAges
    <2>2. /\ attempts' \in Attempts /\ (attempts'.live <=> attempts.live)
          /\ (attempts'.connected <=> attempts.connected) /\ attempts'.made = attempts.made
      BY <1>1, <2>1 DEF Typed, Attempts
    <2>3. Typed'
      BY <1>1, <2>1, <2>2 DEF Typed, waitVars
    <2>4. Rests' /\ OneWay' /\ EndSound' /\ StackFits'
      BY <2>1, <2>2 DEF Inv, Rests, OneWay, EndSound, StackFits, waits, toldInputEnded, waitVars
    <2>5. running => Reached' /\ KeptSound'
      BY <2>1, <2>2 DEF Inv, Reached, KeptSound, waits, waitVars
    <2> QED
      BY <2>1, <2>3, <2>4, <2>5 DEF Inv
  <1> QED
    BY <1>2, <1>3

LEMMA PreparationKeeps == ASSUME Inv, PreparationEnds PROVE Inv'
  <1>1. Typed /\ Rests /\ OneWay /\ EndSound
    BY DEF Inv
  <1>2. chain.job = "preparing" /\ calls = <<>>
    BY DEF PreparationEnds, Free
  <1>3. running /\ ~reconnectTimer /\ ~attempts.live /\ ~stream.streaming /\ ~stream.sending
        /\ input # "Starting"
    BY <1>1, <1>2 DEF Rests, OneWay
  <1>4. Fit(stream) /\ InOrder(stream) /\ Reached /\ seen.reached = 0
    BY <1>2, <1>3 DEF Inv, Reached
  <1>5. CASE beginStreaming
    <2> DEFINE r == rewindTo(stream, stream.dropped)
               s == [r EXCEPT !.inputFinished = FALSE]
               a == [attempts EXCEPT !.reconnects = Reconnects, !.made = 0,
                                     !.providerConnected = FALSE]
    <2>1. /\ OpenAttempt(s, a, <<"beginStreamed">>, calls) /\ chain' = [chain EXCEPT !.job = "none"]
          /\ delay' = 0
          /\ UNCHANGED <<running, input, reconnectTimer, signInRefused, utterance>>
      BY <1>2, <1>5 DEF beginStreaming
    <2>2. stream.dropped \in 0..MaxHeard /\ stream.dropped <= stream.dropped
          /\ stream.dropped <= stream.heard /\ stream.dropped \in Nat
      BY <1>1, <1>4, Sizes DEF Typed, Streams, Fit
    <2>3. r \in Streams /\ InOrder(r) /\ Fit(r)
      BY <1>1, <1>4, <2>2, RewindFits DEF Typed
    <2>4. /\ r.heard = stream.heard /\ r.dropped = stream.dropped /\ r.sent = stream.dropped
          /\ r.inputEnded = stream.inputEnded /\ r.streaming = stream.streaming
          /\ r.sending = stream.sending
      BY <1>1 DEF rewindTo, Typed, Streams
    <2> HIDE DEF r
    <2>5. /\ s \in Streams /\ s.heard = r.heard /\ s.dropped = r.dropped /\ s.sent = r.sent
          /\ s.attemptStart = r.attemptStart /\ s.inputEnded = r.inputEnded
          /\ ~s.inputFinished /\ s.marks = r.marks /\ s.nextMark = r.nextMark
          /\ s.streaming = r.streaming /\ s.sending = r.sending
      BY <2>3 DEF Streams
    <2>6. a \in Attempts
      <3>1. Reconnects \in 0..Reconnects /\ 0 \in 0..2
        BY Sizes
      <3> QED
        BY <1>1, <3>1 DEF Typed, Attempts
    <2> HIDE DEF s, a
    <2>7. InOrder(s) /\ Fit(s)
      BY <2>3, <2>5 DEF InOrder, Fit, Placed
    <2>8. seen.reached <= s.sent /\ s.sent <= Larger(seen.reached, s.dropped)
      BY <1>4, <2>2, <2>4, <2>5 DEF Larger
    <2>9. chain' \in Chains /\ chain'.job = "none"
      BY <1>1, <2>1 DEF Typed, Chains
    <2>10. <<"beginStreamed">> \in Opening /\ 0 \in 0..(Pauses - 1)
      BY Sizes DEF Opening
    <2>11. /\ calls \in Seq(Frames) /\ input \in Inputs
           /\ signInRefused \in BOOLEAN /\ reconnectTimer \in BOOLEAN
      BY <1>1 DEF Typed
    <2>12. (s.sending => s.streaming) /\ (s.inputEnded => input' = "Off")
      BY <1>1, <1>3, <2>1, <2>4, <2>5 DEF EndSound
    <2>13. /\ input' = input /\ delay' = 0 /\ signInRefused' = signInRefused
           /\ reconnectTimer' = reconnectTimer /\ running' = running /\ utterance' = utterance
           /\ s.heard = stream.heard /\ s.dropped = stream.dropped
      BY <2>1, <2>4, <2>5
    <2> QED
      BY <1>3, <1>4, <2>1, <2>5, <2>6, <2>7, <2>8, <2>9, <2>10, <2>11, <2>12, <2>13, OpenKeeps
  <1>6. CASE walk(chain.index + 1, input, stream, <<>>)
    <2>1. CASE chain.index <= Providers
      <3>1. chain.index + 1 \in 1..(Providers + 1) /\ input \in Inputs /\ stream \in Streams
            /\ (stream.inputEnded => input = "Off")
        BY <1>1, <2>1, Sizes DEF Typed, Chains, EndSound
      <3>2. walk(chain.index + 1, input, stream, calls)
        BY <1>2, <1>6
      <3> QED
        BY <1>3, <1>4, <3>1, <3>2, WalkKeeps
    <2>2. CASE ~(chain.index <= Providers)
      <3>1. ~\E j \in (chain.index + 1)..Providers : TRUE
        BY <1>1, <2>2, Sizes DEF Typed, Chains
      <3>2. finishAt(Providers + 1, calls)
        BY <1>2, <1>6, <3>1 DEF walk
      <3>3. Providers + 1 \in 1..(Providers + 1)
        BY Sizes
      <3> QED
        BY <3>2, <3>3, FinishKeeps
    <2> QED
      BY <2>1, <2>2
  <1> QED
    BY <1>5, <1>6 DEF PreparationEnds

LEMMA RenewedKeeps == ASSUME Inv, SignInRenewed PROVE Inv'
  <1>1. Typed /\ Rests /\ OneWay /\ EndSound
    BY DEF Inv
  <1>2. chain.job = "renewing" /\ calls = <<>> /\ waits
    BY DEF SignInRenewed, Free, waits
  <1>3. running /\ ~reconnectTimer /\ input # "Starting" /\ attempts.made # 0
        /\ ~stream.inputFinished
    BY <1>1, <1>2 DEF Rests, OneWay, EndSound
  <1>4. Fit(stream) /\ InOrder(stream) /\ Reached
    BY <1>3 DEF Inv
  <1> DEFINE t == [stream EXCEPT !.streaming = TRUE]
  <1>5. CASE /\ OpenAttempt(t, attempts, <<"resumed">>, <<>>)
             /\ chain' = [chain EXCEPT !.job = "none"]
             /\ UNCHANGED <<running, input, utterance, waitVars>>
    <2>1. /\ t \in Streams /\ t.heard = stream.heard /\ t.dropped = stream.dropped
          /\ t.sent = stream.sent /\ t.attemptStart = stream.attemptStart
          /\ t.inputEnded = stream.inputEnded /\ t.inputFinished = stream.inputFinished
          /\ t.marks = stream.marks /\ t.nextMark = stream.nextMark /\ t.streaming
      BY <1>1 DEF Typed, Streams
    <2> HIDE DEF t
    <2>2. InOrder(t) /\ Fit(t)
      BY <1>4, <2>1 DEF InOrder, Fit, Placed
    <2>3. seen.reached <= t.sent /\ t.sent <= Larger(seen.reached, t.dropped)
      BY <1>2, <1>4, <2>1 DEF Reached
    <2>4. chain' \in Chains /\ chain'.job = "none"
      BY <1>1, <1>5 DEF Typed, Chains
    <2>5. <<"resumed">> \in Opening
      BY DEF Opening
    <2>6. /\ calls \in Seq(Frames) /\ input \in Inputs /\ attempts \in Attempts
          /\ signInRefused \in BOOLEAN /\ reconnectTimer \in BOOLEAN /\ delay \in 0..(Pauses - 1)
      BY <1>1 DEF Typed
    <2>7. /\ input' = input /\ delay' = delay /\ signInRefused' = signInRefused
          /\ reconnectTimer' = reconnectTimer /\ running' = running /\ utterance' = utterance
      BY <1>5 DEF waitVars
    <2>8. OpenAttempt(t, attempts, <<"resumed">>, calls)
      BY <1>2, <1>5
    <2>9. (t.inputEnded => input' = "Off") /\ ~t.inputFinished
      BY <1>1, <1>3, <2>1, <2>7 DEF EndSound
    <2> QED
      BY <1>3, <2>1, <2>2, <2>3, <2>4, <2>5, <2>6, <2>7, <2>8, <2>9, OpenKeeps
  <1>6. CASE \E f \in RenewalFailures : handleFailure(f, <<>>)
    <2>1. PICK f \in RenewalFailures : handleFailure(f, calls)
      BY <1>2, <1>6
    <2>2. f.phase = "Connect"
      BY DEF RenewalFailures, Unreachable, Unauthorized
    <2> QED
      BY <1>2, <2>1, <2>2, HandleFailureKeeps
  <1> QED
    BY <1>5, <1>6 DEF SignInRenewed

-----------------------------------------------------------------------------
(* The pause, and the end of the input. *)

(* What waits goes on, for the audio that waits. *)
LEMMA WaitingGoesOn ==
    ASSUME Inv, reconnectTimer, calls = <<>>, NEW s \in Streams, NEW stack \in Seq(Frames),
           reconnect(s, attempts, stack), \A i \in DOMAIN stack : stack[i] # "beginStreamed",
           s.heard = stream.heard, s.dropped = stream.dropped, s.sent = stream.sent,
           s.attemptStart = stream.attemptStart, s.marks = stream.marks,
           s.nextMark = stream.nextMark, s.inputFinished = stream.inputFinished,
           s.inputEnded => input' = "Off", input' \in Inputs \ {"Starting"},
           reconnectTimer' = FALSE, UNCHANGED <<delay, signInRefused>>
    PROVE  Inv'
  <1>1. Typed /\ Rests /\ OneWay /\ EndSound
    BY DEF Inv
  <1>2. /\ running /\ ~attempts.live /\ chain.job = "none" /\ attempts.made # 0 /\ waits
        /\ ~stream.inputFinished
    BY <1>1 DEF Rests, OneWay, EndSound, waits
  <1>3. Fit(stream) /\ InOrder(stream) /\ Reached
    BY <1>2 DEF Inv
  <1>4. InOrder(s) /\ Fit(s)
    BY <1>3 DEF InOrder, Fit, Placed
  <1>5. /\ seen.reached <= s.sent /\ s.sent <= Larger(seen.reached, s.dropped)
        /\ s.attemptStart <= Larger(seen.reached, s.dropped)
        /\ ~attempts.connected => seen.reached <= s.attemptStart
        /\ attempts.made = 1 /\ ~attempts.connected => seen.reached = 0
    BY <1>2, <1>3 DEF Reached
  <1>6. /\ attempts \in Attempts /\ delay' \in 0..(Pauses - 1) /\ signInRefused' \in BOOLEAN
        /\ reconnectTimer' \in BOOLEAN
    BY <1>1 DEF Typed
  <1> QED
    BY <1>2, <1>4, <1>5, <1>6, ReconnectKeeps

LEMMA PauseKeeps == ASSUME Inv, ReconnectPauseEnds PROVE Inv'
  <1>1. /\ calls = <<>> /\ reconnectTimer /\ reconnectTimer' = FALSE
        /\ reconnect(stream, attempts, calls) /\ UNCHANGED <<input, delay, signInRefused>>
    BY DEF ReconnectPauseEnds, Free
  <1>2. /\ stream \in Streams /\ calls \in Seq(Frames) /\ input \in Inputs \ {"Starting"}
        /\ (stream.inputEnded => input = "Off")
    BY <1>1 DEF Inv, Typed, OneWay, EndSound
  <1>3. \A i \in DOMAIN calls : calls[i] # "beginStreamed"
    BY <1>1
  <1>4. input' \in Inputs \ {"Starting"} /\ (stream.inputEnded => input' = "Off")
        /\ UNCHANGED <<delay, signInRefused>>
    BY <1>1, <1>2
  <1> QED
    BY <1>1, <1>2, <1>3, <1>4, WaitingGoesOn

LEMMA InputEndsKeeps ==
    ASSUME Inv, calls = <<>>, input \in {"Listening", "Stopping"},
           NEW stack \in {<<>>, <<"listeningFinished">>}, inputEnds(stack)
    PROVE  Inv'
  <1> DEFINE s == endInput(stream)
  <1>1. Typed /\ Rests /\ OneWay /\ EndSound
    BY DEF Inv
  <1>2. running
    BY <1>1 DEF Rests
  <1>3. Fit(stream) /\ InOrder(stream) /\ Reached /\ KeptSound
    BY <1>2 DEF Inv
  <1>4. /\ stack \in Seq(Frames)
        /\ \A i \in DOMAIN stack : stack[i] # "beginStreamed" /\ stack[i] # "chunkSent"
    <2>1. CASE stack = <<>>
      BY <2>1
    <2>2. CASE stack = <<"listeningFinished">>
      BY <2>2 DEF Frames
    <2> QED
      BY <2>1, <2>2
  <1>5. /\ s \in Streams /\ s.heard = stream.heard /\ s.dropped = stream.dropped
        /\ s.sent = stream.sent /\ s.attemptStart = stream.attemptStart /\ s.marks = stream.marks
        /\ s.nextMark = stream.nextMark /\ s.inputFinished = stream.inputFinished
        /\ (s.streaming <=> stream.streaming) /\ (s.sending => stream.sending \/ stream.streaming)
    <2> DEFINE sends == stream.sending \/ stream.streaming
    <2>1. s = [stream EXCEPT !.inputEnded = TRUE, !.sending = sends] /\ sends \in BOOLEAN
      BY DEF endInput
    <2> HIDE DEF sends, s
    <2>2. /\ s \in Streams /\ s.heard = stream.heard /\ s.dropped = stream.dropped
          /\ s.sent = stream.sent /\ s.attemptStart = stream.attemptStart
          /\ s.marks = stream.marks
          /\ s.nextMark = stream.nextMark /\ s.inputFinished = stream.inputFinished
          /\ s.streaming = stream.streaming /\ s.sending = sends
      BY <1>1, <2>1 DEF Typed, Streams
    <2> QED
      BY <2>2 DEF sends
  <1> HIDE DEF s
  <1>6. input' = "Off" /\ UNCHANGED <<delay, signInRefused>> /\ input' \in Inputs \ {"Starting"}
    BY DEF inputEnds, Inputs
  <1>7. CASE reconnectTimer
    <2>1. reconnectTimer' = FALSE /\ reconnect(s, attempts, stack)
      BY <1>7 DEF inputEnds, s
    <2> QED
      BY <1>4, <1>5, <1>6, <1>7, <2>1, WaitingGoesOn
  <1>8. CASE ~reconnectTimer
    <2>1. /\ stream' = s /\ calls' = stack
          /\ UNCHANGED <<running, reconnectTimer, utterance, attempts, chain, seen>>
      BY <1>8 DEF inputEnds, s
    <2>2. ~stream.inputFinished
      BY <1>1 DEF EndSound
    <2>3. Typed'
      BY <1>1, <1>4, <1>5, <1>6, <2>1 DEF Typed
    <2>4. Rests' /\ OneWay' /\ EndSound'
      BY <1>1, <1>2, <1>5, <1>6, <1>8, <2>1, <2>2 DEF Rests, OneWay, EndSound, waits, toldInputEnded
    <2>5. StackFits'
      BY <1>4, <2>1 DEF StackFits
    <2>6. InOrder(stream)' /\ Fit(stream)'
      BY <1>3, <1>5, <2>1 DEF InOrder, Fit, Placed
    <2>7. Reached' /\ KeptSound'
      BY <1>3, <1>5, <1>6, <1>8, <2>1 DEF Reached, KeptSound, waits
    <2> QED
      BY <2>3, <2>4, <2>5, <2>6, <2>7 DEF Inv
  <1> QED
    BY <1>7, <1>8

(* The steps of the input: it starts, is told to finish, stops or fails. *)
LEMMA InputKeeps ==
    ASSUME Inv, InputStarts \/ finishListening \/ InputStops \/ InputFails \/ cancel
    PROVE  Inv'
  <1>1. Typed /\ Rests /\ OneWay /\ EndSound /\ calls = <<>>
    BY DEF Inv, InputStarts, finishListening, InputStops, InputFails, cancel, Free
  <1>2. chain.index \in 1..(Providers + 1) /\ calls \in Seq(Frames) /\ stream \in Streams
    BY <1>1 DEF Typed, Chains
  <1>3. CASE finish(<<>>)
    <2>1. finishAt(chain.index, calls)
      BY <1>1, <1>3 DEF finish
    <2> QED
      BY <1>2, <2>1, FinishKeeps
  <1>4. CASE InputStarts
    <2>1. input = "Starting" /\ walk(1, "Listening", stream, calls)
      BY <1>1, <1>4 DEF InputStarts
    <2>2. /\ running /\ ~attempts.live /\ ~stream.streaming /\ ~stream.sending
          /\ ~reconnectTimer /\ ~stream.inputEnded
      BY <1>1, <2>1 DEF Rests, OneWay, EndSound
    <2>3. seen.reached = 0
      BY <2>1, <2>2 DEF Inv, Reached
    <2>4. 1 \in 1..(Providers + 1) /\ "Listening" \in Inputs
      BY Sizes DEF Inputs
    <2> QED
      BY <1>2, <2>1, <2>2, <2>3, <2>4, WalkKeeps
  <1>5. CASE finishListening /\ ~finish(<<>>)
    <2>1. /\ input = "Listening" /\ input' = "Stopping"
          /\ UNCHANGED <<running, waitVars, utterance, stream, attempts, chain, calls, seen>>
      BY <1>5 DEF finishListening
    <2>2. running
      BY <1>1, <2>1 DEF Rests
    <2>3. Typed'
      BY <1>1, <2>1 DEF Typed, waitVars, Inputs
    <2>4. Rests' /\ OneWay' /\ EndSound' /\ StackFits'
      BY <2>1, <2>2 DEF Inv, Rests, OneWay, EndSound, StackFits, waits, toldInputEnded, waitVars
    <2>5. Reached' /\ KeptSound'
      BY <2>1, <2>2 DEF Inv, Reached, KeptSound, waits, waitVars
    <2> QED
      BY <2>1, <2>2, <2>3, <2>4, <2>5 DEF Inv
  <1>6. CASE InputStops
    <2>1. input = "Stopping" /\ inputEnds(<<"listeningFinished">>)
      BY <1>6 DEF InputStops
    <2> QED
      BY <1>1, <2>1, InputEndsKeeps
  <1>7. CASE InputFails /\ ~finish(<<>>)
    <2>1. input = "Listening" /\ inputEnds(<<>>)
      BY <1>7 DEF InputFails
    <2> QED
      BY <1>1, <2>1, InputEndsKeeps
  <1> QED
    BY <1>3, <1>4, <1>5, <1>6, <1>7 DEF cancel

-----------------------------------------------------------------------------
(* What is heard, sent and marked. *)

(* The first mark that is still to come is ahead of what was sent. *)
LEMMA ChunkFits ==
    ASSUME NEW s \in Streams, InOrder(s), Fit(s), s.sent < s.heard,
           \A i \in DOMAIN s.marks : i >= s.nextMark => s.marks[i].position > s.sent
    PROVE  LET t == [s EXCEPT !.sent = s.sent + chunkOf(s)] IN
           /\ t \in Streams /\ Fit(t) /\ t.sent >= s.sent
           /\ t.heard = s.heard /\ t.dropped = s.dropped /\ t.attemptStart = s.attemptStart
           /\ t.marks = s.marks /\ t.nextMark = s.nextMark /\ t.inputEnded = s.inputEnded
           /\ t.inputFinished = s.inputFinished /\ t.streaming = s.streaming
           /\ t.sending = s.sending
  <1> DEFINE sent == s.sent + chunkOf(s)
             t == [s EXCEPT !.sent = sent]
             n == Len(s.marks)
  <1>1. /\ s.sent \in Nat /\ s.heard \in Nat /\ s.heard <= MaxHeard /\ MaxHeard \in Nat
        /\ s.nextMark \in Nat \ {0} /\ s.dropped \in Nat /\ Chunk \in Nat \ {0}
    BY Sizes DEF Streams
  <1>2. n \in Nat /\ DOMAIN s.marks = 1..n /\ \A i \in 1..n : s.marks[i].position \in Nat
    BY MarksOf
  <1> HIDE DEF n
  <1> DEFINE toHeard == Smaller(Chunk, s.heard - s.sent)
  <1>3. toHeard \in Nat /\ s.sent + toHeard <= s.heard
    BY <1>1 DEF Smaller
  <1>4. /\ sent \in Nat /\ s.sent <= sent /\ sent <= s.heard
        /\ s.nextMark <= n => sent <= s.marks[s.nextMark].position
    <2>1. CASE s.nextMark <= n
      <3> DEFINE at == s.marks[s.nextMark].position
      <3>1. at \in Nat /\ at > s.sent
        BY <1>1, <1>2, <2>1
      <3>2. chunkOf(s) = Smaller(toHeard, at - s.sent)
        BY <2>1 DEF chunkOf, n
      <3> HIDE DEF toHeard, at
      <3>3. chunkOf(s) \in Nat /\ chunkOf(s) <= toHeard /\ chunkOf(s) <= at - s.sent
        BY <1>1, <1>3, <3>1, <3>2 DEF Smaller
      <3>4. sent \in Nat /\ s.sent <= sent /\ sent <= s.heard /\ sent <= at
        BY <1>1, <1>3, <3>1, <3>3
      <3> QED
        BY <3>4 DEF at
    <2>2. CASE ~(s.nextMark <= n)
      <3>1. chunkOf(s) = toHeard
        BY <2>2 DEF chunkOf, n
      <3> HIDE DEF toHeard
      <3> QED
        BY <1>1, <1>3, <2>2, <3>1
    <2> QED
      BY <2>1, <2>2
  <1> HIDE DEF sent
  <1>5. sent \in 0..MaxHeard
    BY <1>1, <1>4
  <1>6. /\ t \in Streams /\ t.sent = sent
        /\ t.heard = s.heard /\ t.dropped = s.dropped /\ t.attemptStart = s.attemptStart
        /\ t.marks = s.marks /\ t.nextMark = s.nextMark /\ t.inputEnded = s.inputEnded
        /\ t.inputFinished = s.inputFinished /\ t.streaming = s.streaming
        /\ t.sending = s.sending
    BY <1>5 DEF Streams
  <1> HIDE DEF t
  <1>7. \A i \in 1..n : IF i < s.nextMark THEN s.marks[i].position <= sent
                         ELSE s.marks[i].position >= sent
    <2> TAKE i \in 1..n
    <2>1. CASE i < s.nextMark
      <3>1. s.marks[i].position <= s.sent
        BY <1>2, <2>1 DEF Fit, Placed
      <3> QED
        BY <1>1, <1>2, <1>4, <2>1, <3>1
    <2>2. CASE ~(i < s.nextMark)
      <3>1. s.nextMark \in 1..n /\ (s.nextMark = i \/ s.nextMark < i)
        BY <1>1, <1>2, <2>2
      <3>2. s.marks[s.nextMark].position <= s.marks[i].position
        BY <1>2, <3>1 DEF InOrder
      <3> QED
        BY <1>1, <1>2, <1>4, <2>2, <3>1, <3>2
    <2> QED
      BY <2>1, <2>2
  <1>8. s.dropped <= sent
    BY <1>1, <1>4 DEF Fit
  <1>9. Fit(t)
    BY <1>2, <1>4, <1>6, <1>7, <1>8 DEF Fit, Placed, n
  <1>10. [s EXCEPT !.sent = s.sent + chunkOf(s)] = t
    BY DEF t, sent
  <1> QED
    BY <1>4, <1>6, <1>9, <1>10

LEMMA SendKeeps == ASSUME Inv, sendNextChunk PROVE Inv'
  <1> DEFINE s == markUtterancesOnceSent(stream)
  <1>1. Typed /\ Rests /\ OneWay /\ EndSound
    BY DEF Inv
  <1>2. /\ calls = <<>> /\ stream.sending
        /\ UNCHANGED <<running, input, waitVars, utterance, chain>>
    BY DEF sendNextChunk, Free
  <1>3. /\ stream.streaming /\ attempts.live /\ running /\ ~waits /\ chain.job = "none"
        /\ attempts.made # 0 /\ input # "Starting"
    BY <1>1, <1>2 DEF OneWay, Rests, waits
  <1>4. Fit(stream) /\ InOrder(stream) /\ Reached /\ KeptSound
    BY <1>3 DEF Inv
  <1>5. /\ s \in Streams /\ InOrder(s) /\ Fit(s)
        /\ s = [stream EXCEPT !.nextMark = s.nextMark] /\ s.nextMark >= stream.nextMark
        /\ \A i \in DOMAIN s.marks : i >= s.nextMark => s.marks[i].position > s.sent
    BY <1>1, <1>3, <1>4, OnceSentFits DEF Typed
  <1> HIDE DEF s
  <1>6. /\ s.heard = stream.heard /\ s.dropped = stream.dropped /\ s.sent = stream.sent
        /\ s.attemptStart = stream.attemptStart /\ s.marks = stream.marks
        /\ s.inputEnded = stream.inputEnded /\ s.inputFinished = stream.inputFinished
        /\ s.streaming = stream.streaming /\ s.sending = stream.sending
    BY <1>1, <1>5 DEF Typed, Streams
  <1>7. /\ s.sent \in Nat /\ s.heard \in Nat /\ s.sent <= s.heard /\ s.nextMark \in Nat \ {0}
        /\ seen.reached \in Nat /\ s.dropped \in Nat /\ s.attemptStart \in Nat
    BY <1>1, <1>5, Sizes DEF Fit, Typed, Streams
  <1>8. CASE s.sent < s.heard
    <2>1. /\ stream' = [s EXCEPT !.sent = s.sent + chunkOf(s)]
          /\ attempts' = [attempts EXCEPT !.sentAudio = TRUE]
          /\ seen' = [seen EXCEPT !.reached = IF attempts.connected THEN stream'.sent
                                              ELSE seen.reached]
          /\ calls' = <<"sendAudio", "chunkSent">>
      BY <1>8 DEF sendNextChunk, s
    <2>2. /\ stream' \in Streams /\ Fit(stream') /\ stream'.sent >= s.sent
          /\ stream'.heard = s.heard /\ stream'.dropped = s.dropped
          /\ stream'.attemptStart = s.attemptStart
          /\ stream'.marks = s.marks /\ stream'.nextMark = s.nextMark
          /\ stream'.inputEnded = s.inputEnded
          /\ stream'.inputFinished = s.inputFinished /\ stream'.streaming = s.streaming
          /\ stream'.sending = s.sending
      BY <1>5, <1>8, <2>1, ChunkFits
    <2>3. InOrder(stream')
      BY <1>5, <2>2 DEF InOrder
    <2>4. /\ attempts' \in Attempts /\ attempts'.live /\ attempts'.made = attempts.made
          /\ (attempts'.connected <=> attempts.connected)
      BY <1>1, <1>3, <2>1 DEF Typed, Attempts
    <2>5. /\ seen' \in [reached: 0..MaxHeard, waited: BOOLEAN]
          /\ seen'.reached = IF attempts.connected THEN stream'.sent ELSE seen.reached
      BY <1>1, <2>1, <2>2 DEF Typed, Streams
    <2>6. calls' \in Seq(Frames) /\ DOMAIN calls' = {1, 2} /\ calls'[1] = "sendAudio"
          /\ calls'[2] = "chunkSent"
      BY <2>1 DEF Frames, ProviderCalls
    <2>7. Typed'
      BY <1>1, <1>2, <2>2, <2>4, <2>5, <2>6 DEF Typed, waitVars
    <2>8. ~stream.inputFinished
      BY <1>1, <1>3, <1>6, <1>7, <1>8 DEF EndSound, toldInputEnded
    <2>9. StackFits'
      BY <1>2, <1>3, <1>6, <2>2, <2>6, <2>8 DEF StackFits
    <2>10. Rests' /\ OneWay' /\ EndSound'
      BY <1>1, <1>2, <1>3, <1>6, <2>2, <2>4, <2>8
         DEF Rests, OneWay, EndSound, waits, toldInputEnded, waitVars
    <2>11. stream'.sent \in Nat
      BY <2>2, Sizes DEF Streams
    <2>12. Reached'
      <3>1. ~waits' /\ ~(input' = "Starting" \/ chain'.job = "preparing")
        BY <1>2, <1>3 DEF waits, waitVars
      <3>2. CASE attempts.connected
        <4>1. /\ seen'.reached = stream'.sent /\ attempts'.connected
              /\ stream'.sent <= Larger(stream'.sent, stream'.dropped)
          BY <1>6, <1>7, <2>2, <2>4, <2>5, <2>11, <3>2 DEF Larger
        <4>2. stream'.attemptStart <= Larger(stream'.sent, stream'.dropped)
          <5>1. stream.attemptStart <= Larger(seen.reached, stream.dropped)
                /\ seen.reached <= stream.sent
            BY <1>3, <1>4 DEF Reached
          <5> QED
            BY <1>6, <1>7, <2>2, <2>11, <5>1 DEF Larger
        <4> QED
          BY <2>11, <3>1, <4>1, <4>2 DEF Reached
      <3>3. CASE ~attempts.connected
        <4>1. seen'.reached = seen.reached /\ ~attempts'.connected
          BY <2>4, <2>5, <3>3
        <4>2. seen.reached <= stream'.sent
          BY <1>4, <1>6, <1>7, <2>2, <2>11 DEF Reached
        <4> QED
          BY <1>3, <1>4, <1>6, <2>2, <2>4, <3>1, <3>3, <4>1, <4>2 DEF Reached
      <3> QED
        BY <3>2, <3>3
    <2>13. KeptSound'
      <3>1. stream.dropped <= stream'.sent
        BY <1>6, <2>2 DEF Fit
      <3> QED
        BY <1>4, <1>6, <2>2, <2>5, <3>1 DEF KeptSound
    <2> QED
      BY <1>2, <2>2, <2>3, <2>7, <2>9, <2>10, <2>12, <2>13 DEF Inv
  <1>9. CASE ~(s.sent < s.heard)
    <2>1. /\ stream' = [s EXCEPT !.sending = FALSE, !.inputFinished = s.inputEnded]
          /\ calls' = IF s.inputEnded THEN <<"finishInput">> ELSE <<>>
          /\ UNCHANGED <<attempts, seen>>
      BY <1>9 DEF sendNextChunk, s
    <2>2. /\ stream' \in Streams /\ stream'.sent = s.sent
          /\ stream'.heard = s.heard /\ stream'.dropped = s.dropped
          /\ stream'.attemptStart = s.attemptStart
          /\ stream'.marks = s.marks /\ stream'.nextMark = s.nextMark
          /\ stream'.inputEnded = s.inputEnded
          /\ stream'.inputFinished = s.inputEnded /\ stream'.streaming = s.streaming
          /\ ~stream'.sending
      BY <1>5, <2>1 DEF Streams
    <2>3. InOrder(stream') /\ Fit(stream')
      BY <1>5, <2>2 DEF InOrder, Fit, Placed
    <2>4. calls' \in Seq(Frames) /\ StackFits'
      <3>1. CASE s.inputEnded
        BY <2>1, <3>1 DEF StackFits, Frames, ProviderCalls
      <3>2. CASE ~s.inputEnded
        BY <2>1, <3>2 DEF StackFits
      <3> QED
        BY <3>1, <3>2
    <2>5. Typed'
      BY <1>1, <1>2, <2>1, <2>2, <2>4 DEF Typed, waitVars
    <2>6. s.sent = s.heard
      BY <1>7, <1>9
    <2>7. s.nextMark > Len(s.marks)
      <3>1. /\ Len(s.marks) \in Nat /\ DOMAIN s.marks = 1..Len(s.marks)
            /\ \A i \in DOMAIN s.marks : s.marks[i].position \in Nat
        BY <1>5, MarksOf
      <3>2. s.nextMark \notin DOMAIN s.marks
        BY <1>5, <1>7, <2>6, <3>1 DEF Fit
      <3> QED
        BY <1>7, <3>1, <3>2
    <2>8. Rests' /\ OneWay' /\ EndSound'
      BY <1>1, <1>2, <1>3, <1>6, <2>1, <2>2, <2>6, <2>7
         DEF Rests, OneWay, EndSound, waits, toldInputEnded, waitVars
    <2>9. Reached' /\ KeptSound'
      BY <1>2, <1>4, <1>6, <2>1, <2>2 DEF Reached, KeptSound, waits, waitVars
    <2> QED
      BY <2>3, <2>4, <2>5, <2>8, <2>9 DEF Inv
  <1> QED
    BY <1>8, <1>9

(* A frame that returns leaves a stack that fits. *)
LEMMA TailKeeps ==
    ASSUME Typed, StackFits, calls # <<>>, calls' = Tail(calls),
           attempts' = attempts, running' = running,
           stream'.inputFinished = stream.inputFinished
    PROVE  calls' \in Seq(Frames) /\ StackFits'
  <1>1. /\ calls' \in Seq(Frames) /\ 1 \in DOMAIN calls
        /\ \A i \in DOMAIN calls' :
             i \in Nat \ {0} /\ i + 1 \in DOMAIN calls /\ calls'[i] = calls[i + 1]
    BY ReturnFits DEF Typed
  <1>2. ASSUME NEW i \in DOMAIN calls'
        PROVE  /\ calls'[i] = "beginStreamed" => attempts.live /\ i = 1
               /\ calls'[i] = "chunkSent" => running /\ ~stream.inputFinished
    <2>1. i \in Nat \ {0} /\ i + 1 \in DOMAIN calls /\ calls'[i] = calls[i + 1]
      BY <1>1
    <2>2. i + 1 # 1 /\ (i + 1 = 2 => i = 1)
      BY <2>1
    <2> QED
      BY <2>1, <2>2 DEF StackFits
  <1> QED
    BY <1>1, <1>2 DEF StackFits

(* What is marked, or begun to be sent, moves nothing. *)
LEMMA MarkedKeeps ==
    ASSUME Inv, NEW s \in Streams, stream' = s, Unmoved(stream, s), InOrder(s),
           running => Fit(s), stream.inputFinished => s = stream,
           calls' \in Seq(Frames), StackFits', utterance' \in BOOLEAN, ~running => ~utterance',
           UNCHANGED <<running, input, waitVars, attempts, chain, seen>>
    PROVE  Inv'
  <1>1. Typed'
    BY DEF Inv, Typed, waitVars
  <1>2. Rests' /\ OneWay' /\ EndSound'
    BY DEF Inv, Unmoved, Rests, OneWay, EndSound, waits, toldInputEnded, waitVars
  <1>3. running => Reached' /\ KeptSound'
    BY DEF Inv, Unmoved, Reached, KeptSound, waits, waitVars
  <1> QED
    BY <1>1, <1>2, <1>3 DEF Inv

LEMMA EndUtteranceKeeps == ASSUME Inv, EndUtterance PROVE Inv'
  <1>1. /\ utterance /\ utterance' = FALSE /\ stream' = endUtterance(stream) /\ calls' = calls
        /\ UNCHANGED <<running, input, waitVars, attempts, chain, seen>>
    BY DEF EndUtterance
  <1>2. Typed /\ running /\ Fit(stream) /\ InOrder(stream)
    BY <1>1 DEF Inv, Rests
  <1>3. /\ stream' \in Streams /\ InOrder(stream') /\ Fit(stream') /\ Unmoved(stream, stream')
        /\ (stream.inputFinished => stream' = stream)
    BY <1>1, <1>2, EndFits DEF Typed
  <1>4. calls' \in Seq(Frames) /\ StackFits'
    BY <1>1, <1>3 DEF Inv, Typed, StackFits, Unmoved
  <1> QED
    BY <1>1, <1>2, <1>3, <1>4, MarkedKeeps

LEMMA ListenedKeeps == ASSUME Inv, listeningFinished PROVE Inv'
  <1>1. /\ calls # <<>> /\ calls' = Tail(calls) /\ utterance' = FALSE
        /\ stream' = IF utterance THEN endUtterance(stream) ELSE stream
        /\ UNCHANGED <<running, input, waitVars, attempts, chain, seen>>
    BY DEF listeningFinished, Running, Return
  <1>2. Typed /\ StackFits /\ InOrder(stream) /\ (running => Fit(stream))
    BY DEF Inv
  <1>3. /\ stream' \in Streams /\ InOrder(stream') /\ (running => Fit(stream'))
        /\ Unmoved(stream, stream') /\ (stream.inputFinished => stream' = stream)
    <2>1. CASE utterance
      <3>1. running /\ stream' = endUtterance(stream)
        BY <1>1, <2>1 DEF Inv, Rests
      <3> QED
        BY <1>2, <3>1, EndFits DEF Typed
    <2>2. CASE ~utterance
      BY <1>1, <1>2, <2>2 DEF Unmoved, Typed
    <2> QED
      BY <2>1, <2>2
  <1>4. calls' \in Seq(Frames) /\ StackFits'
    BY <1>1, <1>2, <1>3, TailKeeps DEF Unmoved
  <1> QED
    BY <1>1, <1>3, <1>4, MarkedKeeps

LEMMA ReturnsKeeps == ASSUME Inv, returns \/ beginStreamed \/ resumed PROVE Inv'
  <1>1. /\ calls # <<>> /\ calls' = Tail(calls)
        /\ UNCHANGED <<running, input, waitVars, utterance, attempts, chain, seen>>
    BY DEF returns, beginStreamed, resumed, Running, Return
  <1>2. Typed /\ StackFits /\ InOrder(stream) /\ (running => Fit(stream)) /\ OneWay /\ EndSound
        /\ Rests
    BY DEF Inv
  <1>3. /\ stream' \in Streams /\ stream'.marks = stream.marks /\ stream'.nextMark = stream.nextMark
        /\ stream'.heard = stream.heard /\ stream'.dropped = stream.dropped
        /\ stream'.sent = stream.sent /\ stream'.attemptStart = stream.attemptStart
        /\ stream'.inputEnded = stream.inputEnded /\ stream'.inputFinished = stream.inputFinished
        /\ (stream'.streaming => attempts.live) /\ (stream'.sending => stream'.streaming)
    <2>1. CASE returns
      BY <1>2, <2>1 DEF returns, Typed, OneWay
    <2>2. CASE beginStreamed
      <3>1. stream' = [stream EXCEPT !.streaming = TRUE, !.sending = TRUE]
            /\ Head(calls) = "beginStreamed"
        BY <2>2 DEF beginStreamed, Running
      <3>2. attempts.live
        BY <1>1, <1>2, <3>1, ReturnFits DEF StackFits, Typed
      <3> QED
        BY <1>2, <3>1, <3>2 DEF Typed, Streams
    <2>3. CASE resumed
      <3> DEFINE sends == stream.sending \/ stream.streaming
      <3>1. stream' = [stream EXCEPT !.sending = sends] /\ sends \in BOOLEAN
            /\ (sends => stream.streaming)
        BY <1>2, <2>3 DEF resumed, OneWay
      <3> HIDE DEF sends
      <3> QED
        BY <1>2, <3>1 DEF Typed, Streams, OneWay
    <2> QED
      BY <2>1, <2>2, <2>3
  <1>4. calls' \in Seq(Frames) /\ StackFits'
    BY <1>1, <1>2, <1>3, TailKeeps
  <1>5. Typed'
    BY <1>1, <1>2, <1>3, <1>4 DEF Typed, waitVars
  <1>6. Rests' /\ OneWay' /\ EndSound'
    BY <1>1, <1>2, <1>3 DEF Rests, OneWay, EndSound, waits, toldInputEnded, waitVars
  <1>7. InOrder(stream)' /\ (running => Fit(stream)')
    BY <1>2, <1>3 DEF InOrder, Fit, Placed
  <1>8. running => Reached' /\ KeptSound'
    BY <1>1, <1>3 DEF Inv, Reached, KeptSound, waits, waitVars
  <1> QED
    BY <1>1, <1>4, <1>5, <1>6, <1>7, <1>8 DEF Inv

(* The chunk that was sent is let go by an attempt that has connected. *)
LEMMA ChunkSentKeeps == ASSUME Inv, chunkSent PROVE Inv'
  <1> DEFINE s == markUtterancesOnceSent(stream)
  <1>1. /\ calls # <<>> /\ Head(calls) = "chunkSent" /\ calls' = Tail(calls)
        /\ stream' = letGo(s)
        /\ UNCHANGED <<running, input, waitVars, utterance, attempts, chain, seen>>
    BY DEF chunkSent, Running, Return
  <1>2. Typed /\ StackFits /\ OneWay /\ EndSound /\ Rests
    BY DEF Inv
  <1>3. running /\ ~stream.inputFinished
    BY <1>1, <1>2, ReturnFits DEF StackFits, Typed
  <1>4. Fit(stream) /\ InOrder(stream) /\ Reached /\ KeptSound
    BY <1>3 DEF Inv
  <1>5. s \in Streams /\ InOrder(s) /\ Fit(s) /\ s = [stream EXCEPT !.nextMark = s.nextMark]
    BY <1>2, <1>4, OnceSentFits DEF Typed
  <1> HIDE DEF s
  <1>6. /\ s.heard = stream.heard /\ s.dropped = stream.dropped /\ s.sent = stream.sent
        /\ s.attemptStart = stream.attemptStart
        /\ s.inputEnded = stream.inputEnded /\ s.inputFinished = stream.inputFinished
        /\ s.streaming = stream.streaming /\ s.sending = stream.sending
    BY <1>2, <1>5 DEF Typed, Streams
  <1>7. /\ stream' \in Streams /\ InOrder(stream') /\ Fit(stream')
        /\ stream'.heard = s.heard /\ stream'.sent = s.sent
        /\ stream'.attemptStart = s.attemptStart
        /\ stream'.inputEnded = s.inputEnded /\ stream'.inputFinished = s.inputFinished
        /\ stream'.streaming = s.streaming /\ stream'.sending = s.sending
        /\ stream'.dropped = IF attempts.connected THEN s.sent ELSE s.dropped
    BY <1>1, <1>5, LetGoFits
  <1>8. calls' \in Seq(Frames) /\ StackFits'
    BY <1>1, <1>2, <1>6, <1>7, TailKeeps
  <1>9. Typed'
    BY <1>1, <1>2, <1>7, <1>8 DEF Typed, waitVars
  <1>10. Rests' /\ OneWay' /\ EndSound'
    BY <1>1, <1>2, <1>3, <1>6, <1>7 DEF Rests, OneWay, EndSound, waits, toldInputEnded, waitVars
  <1>11. /\ stream.dropped \in Nat /\ stream.sent \in Nat /\ seen.reached \in Nat
         /\ stream.attemptStart \in Nat /\ stream.heard \in Nat /\ MostKept \in Nat
    BY <1>2, Sizes DEF Typed, Streams
  <1>12. /\ stream'.dropped \in Nat /\ stream.dropped <= stream'.dropped
         /\ stream'.dropped # stream.dropped => stream'.dropped <= seen.reached
    <2>1. CASE attempts.connected
      <3>1. stream.sent <= Larger(seen.reached, stream.dropped) /\ stream.dropped <= stream.sent
        BY <1>4, <2>1 DEF Reached, Fit
      <3> QED
        BY <1>6, <1>7, <1>11, <2>1, <3>1 DEF Larger
    <2>2. CASE ~attempts.connected
      BY <1>6, <1>7, <1>11, <2>2
    <2> QED
      BY <2>1, <2>2
  <1>13. Larger(seen.reached, stream.dropped) <= Larger(seen.reached, stream'.dropped)
         /\ Larger(seen.reached, stream.dropped) \in Nat
         /\ Larger(seen.reached, stream'.dropped) \in Nat
    BY <1>11, <1>12 DEF Larger
  <1>14. Reached'
    <2>1. /\ attempts.connected \/ waits => stream.sent <= Larger(seen.reached, stream'.dropped)
          /\ attempts.live \/ waits =>
               stream.attemptStart <= Larger(seen.reached, stream'.dropped)
      BY <1>4, <1>11, <1>13 DEF Reached
    <2> QED
      BY <1>1, <1>4, <1>6, <1>7, <2>1 DEF Reached, waits, waitVars
  <1>15. KeptSound'
    <2>1. stream.heard <= stream'.dropped + MostKept
      BY <1>4, <1>11, <1>12 DEF KeptSound
    <2> QED
      BY <1>1, <1>4, <1>6, <1>7, <1>12, <2>1 DEF KeptSound
  <1> QED
    BY <1>7, <1>8, <1>9, <1>10, <1>14, <1>15 DEF Inv

(* A chunk more is kept, for the attempt that runs or the one to come. *)
LEMMA HearsKeeps == ASSUME Inv, InputHears PROVE Inv'
  <1> DEFINE t == append(stream)
  <1>1. /\ calls = <<>> /\ input # "Off" /\ stream.heard < MaxHeard
        /\ UNCHANGED <<running, input, waitVars, attempts, chain, calls, seen>>
        /\ \/ stream' = t /\ utterance' = utterance
           \/ stream' = beginUtterance(t) /\ utterance' = TRUE
           \/ stream' = endUtterance(t) /\ utterance' = FALSE
    BY DEF InputHears, Free
  <1>2. Typed /\ OneWay /\ EndSound /\ Rests
    BY DEF Inv
  <1>3. running /\ ~stream.inputEnded /\ ~stream.inputFinished
    BY <1>1, <1>2 DEF Rests, EndSound
  <1>4. Fit(stream) /\ InOrder(stream) /\ Reached /\ KeptSound
    BY <1>3 DEF Inv
  <1>5. /\ t \in Streams /\ InOrder(t) /\ Fit(t)
        /\ t.heard = stream.heard + 1 /\ t.sent = Larger(stream.sent, t.dropped) /\ t.sent < t.heard
        /\ stream.dropped <= t.dropped /\ t.heard <= t.dropped + MostKept
        /\ t.dropped = stream.dropped \/ t.dropped + MostKept = t.heard
        /\ t.attemptStart = stream.attemptStart /\ t.streaming = stream.streaming
        /\ t.inputEnded = stream.inputEnded /\ t.inputFinished = stream.inputFinished
        /\ t.sending => stream.sending \/ stream.streaming
    BY <1>1, <1>2, <1>4, AppendFits DEF Typed, KeptSound
  <1> HIDE DEF t
  <1>6. /\ stream' \in Streams /\ InOrder(stream') /\ Fit(stream') /\ Unmoved(t, stream')
        /\ utterance' \in BOOLEAN
    <2>1. CASE stream' = t /\ utterance' = utterance
      BY <1>2, <1>5, <2>1 DEF Unmoved, Typed
    <2>2. CASE stream' = beginUtterance(t) /\ utterance' = TRUE
      BY <1>5, <2>2, BeginFits
    <2>3. CASE stream' = endUtterance(t) /\ utterance' = FALSE
      BY <1>5, <2>3, EndFits
    <2> QED
      BY <1>1, <2>1, <2>2, <2>3
  <1>7. calls' \in Seq(Frames) /\ StackFits'
    BY <1>1, <1>2 DEF StackFits, Typed
  <1>8. Typed'
    BY <1>1, <1>2, <1>6 DEF Typed, waitVars
  <1>9. Rests' /\ OneWay' /\ EndSound'
    BY <1>1, <1>2, <1>3, <1>5, <1>6
       DEF Rests, OneWay, EndSound, waits, toldInputEnded, waitVars, Unmoved
  <1>10. /\ stream.dropped \in Nat /\ stream.sent \in Nat /\ seen.reached \in Nat
         /\ stream.attemptStart \in Nat /\ t.dropped \in Nat /\ stream.heard \in Nat
         /\ MostKept \in Nat /\ t.sent \in Nat
    BY <1>2, <1>5, Sizes DEF Typed, Streams
  <1>11. /\ Larger(seen.reached, stream.dropped) <= Larger(seen.reached, t.dropped)
         /\ Larger(seen.reached, stream.dropped) \in Nat
         /\ Larger(seen.reached, t.dropped) \in Nat /\ t.dropped <= Larger(seen.reached, t.dropped)
    BY <1>5, <1>10 DEF Larger
  <1>12. t.sent \in {stream.sent, t.dropped} /\ stream.sent <= t.sent
    BY <1>5, <1>10 DEF Larger
  <1>13. Reached'
    <2>1. /\ seen.reached <= t.sent
          /\ attempts.connected \/ waits => t.sent <= Larger(seen.reached, t.dropped)
          /\ attempts.live \/ waits => stream.attemptStart <= Larger(seen.reached, t.dropped)
      BY <1>4, <1>10, <1>11, <1>12 DEF Reached
    <2> QED
      BY <1>1, <1>4, <1>5, <1>6, <2>1 DEF Reached, waits, waitVars, Unmoved
  <1>14. KeptSound'
    <2>1. t.dropped <= seen.reached \/ t.dropped + MostKept <= t.heard
      BY <1>4, <1>5, <1>10 DEF KeptSound
    <2> QED
      BY <1>1, <1>5, <1>6, <2>1 DEF KeptSound, Unmoved
  <1> QED
    BY <1>6, <1>7, <1>8, <1>9, <1>13, <1>14 DEF Inv

-----------------------------------------------------------------------------
(* Every step keeps the invariant. *)

LEMMA StartKeeps == ASSUME Inv, Start PROVE Inv'
  <1>1. /\ ~running /\ running' = TRUE /\ input' = "Starting" /\ utterance' = FALSE
        /\ stream' = NoAudio /\ attempts' = [attempts EXCEPT !.opened = 0]
        /\ seen' = [reached |-> 0, waited |-> FALSE] /\ calls = <<>> /\ calls' = <<>>
        /\ UNCHANGED <<waitVars, chain>>
    BY DEF Start, Free
  <1>2. Typed /\ ~attempts.live /\ chain.job = "none" /\ ~reconnectTimer
    BY <1>1 DEF Inv, Rests, OneWay
  <1>3. 0 \in 0..MaxHeard /\ 0 \in Nat /\ 1 \in Nat \ {0} /\ MostKept \in Nat \ {0}
    BY Sizes
  <1>4. <<>> \in Seq(Marks) /\ Len(NoAudio.marks) = 0 /\ DOMAIN NoAudio.marks = {}
    BY DEF NoAudio
  <1>5. NoAudio \in Streams
    BY <1>3, <1>4 DEF NoAudio, Streams
  <1>6. /\ attempts' \in Attempts /\ ~attempts'.live /\ attempts'.made = attempts.made
        /\ (attempts'.connected <=> attempts.connected)
    BY <1>1, <1>2, <1>3 DEF Typed, Attempts
  <1>7. Typed'
    BY <1>1, <1>2, <1>3, <1>5, <1>6 DEF Typed, waitVars, Inputs
  <1>8. InOrder(NoAudio) /\ Fit(NoAudio)
    BY <1>3, <1>4 DEF InOrder, Fit, Placed, NoAudio
  <1>9. Rests' /\ OneWay' /\ EndSound'
    BY <1>1, <1>2, <1>6 DEF Rests, OneWay, EndSound, waits, toldInputEnded, waitVars, NoAudio
  <1>10. StackFits'
    BY <1>1 DEF Inv, StackFits
  <1>11. Reached' /\ KeptSound'
    BY <1>1, <1>2, <1>3, <1>6 DEF Reached, KeptSound, waits, waitVars, NoAudio, Larger
  <1> QED
    BY <1>1, <1>7, <1>8, <1>9, <1>10, <1>11 DEF Inv

LEMMA InvInit == Init => Inv
  <1> SUFFICES ASSUME Init PROVE Inv
    OBVIOUS
  <1>1. /\ ~running /\ running \in BOOLEAN /\ input = "Off" /\ ~reconnectTimer
        /\ reconnectTimer \in BOOLEAN /\ delay = 0 /\ signInRefused \in BOOLEAN
        /\ ~utterance /\ utterance \in BOOLEAN /\ stream = NoAudio /\ attempts = NoAttempt
        /\ chain = [index |-> 1, job |-> "none"] /\ calls = <<>>
        /\ seen = [reached |-> 0, waited |-> FALSE]
    BY DEF Init
  <1>2. /\ 0 \in 0..MaxHeard /\ 0 \in 0..(Pauses - 1) /\ 0 \in 0..2 /\ 0 \in 0..Reconnects
        /\ 1 \in 1..(Providers + 1) /\ 1 \in Nat \ {0} /\ 0 \in Nat
    BY Sizes
  <1>3. <<>> \in Seq(Marks) /\ <<>> \in Seq(Frames) /\ DOMAIN NoAudio.marks = {}
    BY DEF NoAudio
  <1>4. NoAudio \in Streams
    BY <1>2, <1>3 DEF NoAudio, Streams
  <1>5. NoAttempt \in Attempts
    BY <1>2 DEF NoAttempt, Attempts
  <1>6. Typed
    BY <1>1, <1>2, <1>3, <1>4, <1>5 DEF Typed, Inputs, Chains
  <1>7. InOrder(stream)
    BY <1>1, <1>3 DEF InOrder
  <1>8. Rests /\ OneWay /\ EndSound
    BY <1>1 DEF Rests, OneWay, EndSound, waits, toldInputEnded, NoAudio, NoAttempt
  <1>9. StackFits
    BY <1>1 DEF StackFits
  <1> QED
    BY <1>1, <1>6, <1>7, <1>8, <1>9 DEF Inv

LEMMA InvNext == Inv /\ [Next]_vars => Inv'
  <1> SUFFICES ASSUME Inv, [Next]_vars PROVE Inv'
    OBVIOUS
  <1>1. CASE Next
    <2>1. CASE CallReturns
      BY <2>1, ReturnsKeeps, ChunkSentKeeps, ListenedKeeps DEF CallReturns
    <2> QED
      BY <1>1, <2>1, StartKeeps, InputKeeps, HearsKeeps, PreparationKeeps, RenewedKeeps,
         PauseKeeps, SendKeeps, EndUtteranceKeeps, ConnectsKeeps, FailsKeeps, CompletesKeeps
      DEF Next
  <1>2. CASE UNCHANGED vars
    <2>1. UNCHANGED <<running, input, reconnectTimer, delay, signInRefused, utterance,
                      stream, attempts, chain, calls, seen>>
      BY <1>2 DEF vars
    <2>2. Typed' /\ Rests' /\ OneWay' /\ EndSound' /\ StackFits'
      BY <2>1 DEF Inv, Typed, Rests, OneWay, EndSound, StackFits, waits, toldInputEnded
    <2>3. running => Reached' /\ KeptSound'
      BY <2>1 DEF Inv, Reached, KeptSound, waits
    <2> QED
      BY <2>1, <2>2, <2>3 DEF Inv
  <1> QED
    BY <1>1, <1>2

LEMMA InvHolds == Spec => []Inv
  BY InvInit, InvNext, PTL DEF Spec

(* What a step may still do to the audio of an attempt told the input ended:
   nothing, unless the step ends the attempt. *)
LEMMA ToldStays ==
    ASSUME Inv, Next, toldInputEnded, toldInputEnded'
    PROVE  stream'.sent = stream.sent /\ stream'.marks = stream.marks
  <1>1. /\ attempts.live /\ stream.inputFinished /\ stream.inputEnded /\ input = "Off"
        /\ running /\ ~reconnectTimer /\ chain.job = "none" /\ attempts'.live
        /\ stream.sent = stream.heard /\ attempts \in Attempts /\ stream \in Streams
    BY DEF Inv, Typed, Rests, OneWay, EndSound, toldInputEnded
  <1>2. /\ ~Start /\ ~InputStarts /\ ~InputHears /\ ~finishListening /\ ~InputStops
        /\ ~PreparationEnds /\ ~SignInRenewed /\ ~ReconnectPauseEnds /\ ~InputFails
    BY <1>1 DEF Start, InputStarts, InputHears, finishListening, InputStops, InputFails,
                PreparationEnds, SignInRenewed, ReconnectPauseEnds
  <1>3. ASSUME NEW i, NEW stack, finishAt(i, stack) PROVE FALSE
    <2>1. attempts' = [attempts EXCEPT !.live = FALSE]
      BY <1>3 DEF finishAt
    <2> QED
      BY <1>1, <2>1 DEF Attempts
  <1>4. ASSUME NEW i, NEW state, NEW s, NEW stack, walk(i, state, s, stack) PROVE FALSE
    <2>1. attempts' = [attempts EXCEPT !.live = FALSE]
      BY <1>3, <1>4 DEF walk
    <2> QED
      BY <1>1, <2>1 DEF Attempts
  <1>5. ~cancel /\ ~AttemptCompletes
    BY <1>1, <1>3 DEF cancel, AttemptCompletes, finish
  <1>6. ~AttemptFails
    <2> SUFFICES ASSUME NEW f \in Failures, handleFailure(f, calls) PROVE FALSE
      BY DEF AttemptFails, Fails
    <2>1. ~reconnectsLater(f)
      BY <1>1 DEF reconnectsLater
    <2>2. ~finish(calls) /\ ~walk(chain.index + 1, input, hold(stream), calls)
      BY <1>3, <1>4 DEF finish
    <2> QED
      BY <1>1, <2>1, <2>2 DEF handleFailure
  <1>7. CASE sendNextChunk
    <2> DEFINE s == markUtterancesOnceSent(stream)
    <2>1. Fit(stream) /\ InOrder(stream)
      BY <1>1 DEF Inv
    <2>2. s.sent = stream.sent /\ s.heard = stream.heard /\ s.marks = stream.marks
      <3>1. s \in Streams /\ s = [stream EXCEPT !.nextMark = s.nextMark]
        BY <1>1, <2>1, OnceSentFits
      <3> HIDE DEF s
      <3> QED
        BY <1>1, <3>1 DEF Streams
    <2>3. ~(s.sent < s.heard)
      <3>1. stream.heard \in Nat
        BY <1>1, Sizes DEF Streams
      <3> HIDE DEF s
      <3> QED
        BY <1>1, <2>2, <3>1
    <2>4. stream' = [s EXCEPT !.sending = FALSE, !.inputFinished = s.inputEnded]
      BY <1>7, <2>3 DEF sendNextChunk
    <2>5. s \in Streams
      BY <1>1, <2>1, OnceSentFits
    <2> HIDE DEF s
    <2> QED
      BY <2>2, <2>4, <2>5 DEF Streams
  <1>8. CASE EndUtterance \/ listeningFinished
    BY <1>1, <1>8 DEF EndUtterance, listeningFinished, endUtterance
  <1>9. CASE returns \/ AttemptConnects \/ AttemptAges
    BY <1>9 DEF returns, AttemptConnects, AttemptAges
  <1>10. CASE beginStreamed \/ resumed
    BY <1>1, <1>10 DEF beginStreamed, resumed, Streams
  <1>11. ~chunkSent
    BY <1>1, ReturnFits DEF chunkSent, Running, Inv, Typed, StackFits
  <1> QED
    BY <1>2, <1>5, <1>6, <1>7, <1>8, <1>9, <1>10, <1>11 DEF Next, CallReturns

-----------------------------------------------------------------------------
(* The recording's stream. *)

(* Every variable keeps its type: positions stay within what was heard, and a
   mark is never asked for past the one after the last (RecordingStream's and
   SpeechStream's members). *)
THEOREM StreamTypeCorrect == Spec => []TypeOK
  <1>1. Inv => TypeOK
    BY DEF Inv, Typed, TypeOK, Streams, Attempts, Chains, Inputs
  <1> QED
    BY <1>1, InvHolds, PTL

(* The audio goes to one service after another without a gap or a repeat,
   through every drop, rollover, renewal and hand-over (handleFailure(),
   dropAttempt(), beginStreaming(), startNextAttempt()). *)
THEOREM AudioGoesOn == Spec => []GoesOnWhereLeft
  <1>1. Inv => GoesOnWhereLeft
    BY DEF Inv, Rests, Reached, GoesOnWhereLeft
  <1> QED
    BY <1>1, InvHolds, PTL

(* Audio no service has is let go only past kMostKeptBytes
   (keepAudioBounded(), chunkSent's forgetAudioBefore()). *)
THEOREM UnreachedAudioKept == Spec => []KeepsUnreached
  <1>1. Inv => KeepsUnreached
    BY DEF Inv, KeptSound, KeepsUnreached
  <1> QED
    BY <1>1, InvHolds, PTL

(* The utterance marks stay in order and in their places, whatever is dropped,
   rewound or let go (rewindTo(), forgetAudioBefore(),
   markUtterancesOnceSent()). *)
THEOREM MarksStayInPlace == Spec => []MarksInPlace
  <1>1. Inv => MarksInPlace
    BY DEF Inv, InOrder, Fit, Placed, MarksInPlace
  <1> QED
    BY <1>1, InvHolds, PTL

(* A provider told the input ended was sent all of it and every mark, and its
   attempt is told nothing more (sendNextChunk(), endUtterance()). *)
THEOREM InputToldWhole == Spec => ToldWhole
  <1>1. Inv => (toldInputEnded => /\ stream.inputEnded
                                  /\ stream.sent = stream.heard
                                  /\ stream.nextMark > Len(stream.marks))
    BY DEF Inv, EndSound, toldInputEnded
  <1>2. Inv /\ [Next]_vars =>
           [ toldInputEnded /\ toldInputEnded' => UNCHANGED <<stream.sent, stream.marks>> ]_vars
    BY ToldStays
  <1> QED
    BY <1>1, <1>2, InvHolds, PTL DEF Spec, ToldWhole
-----------------------------------------------------------------------------
(***************************************************************************)
(* The recording that these streams are of.  RecordingSession has them     *)
(* only by what they announce, so what follows is about the instance       *)
(* alone: a recording keeps its lines whole, keeps the echo canceller's    *)
(* reference for as long as the canceller works, and ends once with        *)
(* nothing left on, with or without system audio and an echo canceller.    *)
(***************************************************************************)
CONSTANTS SystemAudio, Cancels
VARIABLE dictation

Session == INSTANCE RecordingSession

\* What RecordingSession takes its constants to be.
SessionConstants == SystemAudio \in BOOLEAN /\ Cancels \in BOOLEAN

-----------------------------------------------------------------------------
(* The transcript: a file that ends in part of a line takes no more.       *)

FileType == [open : BOOLEAN, ends : {"none", "whole", "part", "runOn"}]
FileSound(f) == f \in FileType /\ f.ends # "runOn" /\ (f.ends = "part" => ~f.open)

LEMMA AppendKeeps ==
    ASSUME NEW f, FileSound(f), NEW g \in Session!append(f)
    PROVE  FileSound(g) /\ (~f.open => g = f)
  BY DEF FileSound, FileType, Session!append

LEMMA ClosedKeeps ==
    ASSUME NEW f, FileSound(f), NEW r
    PROVE  FileSound(Session!closed(f, r)) /\ (r.phase = "Off" => ~Session!closed(f, r).open)
  <1>1. FileSound(Session!NoFile) /\ FileSound([f EXCEPT !.open = FALSE])
    BY DEF FileSound, FileType, Session!NoFile
  <1>2. Session!closed(f, r) \in {f, Session!NoFile, [f EXCEPT !.open = FALSE]}
    BY DEF Session!closed
  <1>3. r.phase = "Off" => Session!closed(f, r) \in {Session!NoFile, [f EXCEPT !.open = FALSE]}
    BY DEF Session!closed
  <1> QED
    BY <1>1, <1>2, <1>3 DEF FileSound, FileType, Session!NoFile

LEMMA BecomesKeepsFile ==
    ASSUME NEW r, NEW f, NEW d, FileSound(f), Session!becomes(r, f, d)
    PROVE  FileSound(file') /\ (r.phase = "Off" => ~file'.open)
  <1>1. CASE Session!marks(dictation, r) /\ rec.phase = "Starting"
    BY <1>1, AppendKeeps DEF Session!becomes, Session!marks
  <1>2. CASE ~(Session!marks(dictation, r) /\ rec.phase = "Starting")
    BY <1>2, ClosedKeeps DEF Session!becomes
  <1> QED
    BY <1>1, <1>2

LEMMA FileKept == FileSound(file) /\ [Session!Next]_(Session!vars) => FileSound(file)'
  <1> SUFFICES ASSUME FileSound(file), [Session!Next]_(Session!vars) PROVE FileSound(file')
    OBVIOUS
  <1>1. CASE Session!start
    BY <1>1 DEF Session!start, FileSound, FileType
  <1>2. CASE Session!discard
    BY <1>2 DEF Session!discard, FileSound, FileType, Session!NoFile
  <1>3. CASE Session!setDictationListening
    BY <1>3, AppendKeeps DEF Session!setDictationListening
  <1>4. CASE Session!textFinalized
    BY <1>4, AppendKeeps DEF Session!textFinalized
  <1>5. ASSUME NEW who \in {"me", "them"}, Session!finished(who)
        PROVE  FileSound(file')
    BY <1>5, AppendKeeps, BecomesKeepsFile DEF Session!finished
  <1>6. ASSUME NEW r, NEW d, Session!becomes(r, file, d)
        PROVE  FileSound(file')
    BY <1>6, BecomesKeepsFile
  <1>7. CASE UNCHANGED file
    BY <1>7
  <1>8. CASE Session!stop \/ Session!DeadlineFires \/ Session!micFailed \/ Session!micStopped \/ Session!sysFailed \/ Session!sysStopped
    BY <1>6, <1>8 DEF Session!stop, Session!DeadlineFires, Session!micFailed, Session!micStopped,
       Session!sysFailed, Session!sysStopped
  <1>9. ASSUME NEW who \in {"me", "them"}, Session!connected(who)
        PROVE  FileSound(file')
    BY <1>6, <1>9 DEF Session!connected
  <1> QED
    BY <1>1, <1>2, <1>3, <1>4, <1>5, <1>7, <1>8, <1>9
    DEF Session!Next, Session!Inputs, Session!Streams, Session!TimePasses, Session!LimitPasses,
    Session!setDictating, Session!micStarted, Session!sysStarted,
        Session!trackUtterance, Session!pauseEnds, Session!utteranceFailed, Session!reconnecting, Session!vars

(* No line of the transcript runs on from part of another
   (RecordingTranscript::append()). *)
THEOREM LinesStayWhole == Session!Spec => []LinesWhole
  <1>1. Session!Init => FileSound(file)
    BY DEF Session!Init, Session!NoFile, FileSound, FileType
  <1>2. FileSound(file) => LinesWhole
    BY DEF FileSound, LinesWhole
  <1> QED
    BY <1>1, <1>2, FileKept, PTL DEF Session!Spec

-----------------------------------------------------------------------------
(* The recording between two steps of a call. *)

RecType == [phase : {"Off", "Starting", "Recording", "Stopping"}, me : Session!StreamType,
            them : Session!StreamType, mic : {"off", "starting", "on", "stopping"},
            sys : {"off", "starting", "on", "stopping"}, cancelling : BOOLEAN,
            pending : BOOLEAN, astray : BOOLEAN]

(* A stream whose input starts is still connecting, and a start settles only
   once neither stream is. *)
Connecting(r) ==
    /\ r.me.running /\ r.me.input = "Starting" => r.me.connecting
    /\ r.them.running /\ r.them.input = "Starting" => r.them.connecting
    /\ r.phase \in {"Recording", "Stopping"} => ~r.me.connecting /\ ~r.them.connecting

(* The canceller works only on a microphone whose stream has it, and only
   while its reference comes. *)
Referenced(r) == r.cancelling => Session!capturing(r) /\ r.me.running /\ r.me.input # "Off"

(* Under way: a start that has not been answered, or one that was. *)
Under(r) ==
    /\ r \in RecType /\ r.phase # "Off"
    /\ ~r.astray /\ (r.pending <=> r.phase = "Starting")
    /\ Connecting(r) /\ Referenced(r)

(* Over, with nothing left on. *)
Over(r) ==
    /\ r \in RecType /\ r.phase = "Off"
    /\ ~r.astray /\ ~r.pending /\ ~r.cancelling
    /\ r.mic = "off" /\ r.sys = "off" /\ ~Session!isRunning(r)

SessionFit(r) == Under(r) \/ Over(r)

LEMMA StreamSteps ==
    ASSUME NEW t \in Session!StreamType
    PROVE  /\ Session!stopped(t) \in Session!StreamType /\ ~Session!stopped(t).running
           /\ Session!stopped(t).connecting = t.connecting
           /\ \A state \in {"Recording", "Paused", "Reconnecting", "Stopped"} :
                 /\ Session!shows(t, state) \in Session!StreamType
                 /\ Session!shows(t, state).running = t.running /\ Session!shows(t, state).input = t.input
                 /\ Session!shows(t, state).connecting = t.connecting
  BY DEF Session!stopped, Session!shows, Session!StreamType

LEMMA ThemBecomes ==
    ASSUME NEW r, Under(r), NEW t \in Session!StreamType,
           t.running /\ t.input = "Starting" => t.connecting,
           r.phase \in {"Recording", "Stopping"} => ~t.connecting,
           NEW v, v = [r EXCEPT !.them = t]
    PROVE  /\ Under(v) /\ v.phase = r.phase /\ v.me = r.me /\ v.them = t
           /\ v.mic = r.mic /\ v.sys = r.sys /\ v.cancelling = r.cancelling
  <1>1. v \in RecType
    BY DEF Under, RecType
  <1>2. /\ v.phase = r.phase /\ v.me = r.me /\ v.them = t /\ v.mic = r.mic /\ v.sys = r.sys
        /\ v.cancelling = r.cancelling /\ v.pending = r.pending /\ v.astray = r.astray
    BY DEF Under, RecType
  <1> QED
    BY <1>1, <1>2 DEF Under, Connecting, Referenced, Session!capturing

(* finishStartOnceSettled() answers the start, once. *)
LEMMA StartSettles ==
    ASSUME NEW r, Under(r)
    PROVE  /\ Under(Session!finishStartOnceSettled(r))
           /\ Session!finishStartOnceSettled(r).me = r.me /\ Session!finishStartOnceSettled(r).them = r.them
           /\ Session!finishStartOnceSettled(r).phase \in {r.phase, "Recording"}
  <1>1. CASE r.phase = "Starting" /\ ~r.me.connecting /\ ~r.them.connecting
    <2> DEFINE s == [r EXCEPT !.phase = "Recording", !.pending = FALSE]
    <2>1. Session!finishStartOnceSettled(r) = s
      BY <1>1 DEF Session!finishStartOnceSettled, Session!answer, Under, RecType
    <2>2. /\ s \in RecType /\ s.phase = "Recording" /\ ~s.pending /\ s.astray = r.astray
          /\ s.me = r.me /\ s.them = r.them /\ s.sys = r.sys /\ s.cancelling = r.cancelling
      BY DEF Under, RecType
    <2> HIDE DEF s
    <2> QED
      BY <1>1, <2>1, <2>2 DEF Under, Connecting, Referenced, Session!capturing
  <1>2. CASE ~(r.phase = "Starting" /\ ~r.me.connecting /\ ~r.them.connecting)
    BY <1>2 DEF Session!finishStartOnceSettled
  <1> QED
    BY <1>1, <1>2

(* Its stream may end whenever the rest is sound: themFinished() then ends the
   recording, settles its start, or lets it go on. *)
LEMMA ThemFinishes ==
    ASSUME NEW r, Under(r)
    PROVE  /\ SessionFit(Session!themFinished(r)) /\ ~Session!themFinished(r).them.running
           /\ r.me.running => Under(Session!themFinished(r))
           /\ Session!themFinished(r).me = r.me
           /\ r.phase = "Stopping" => Session!themFinished(r).phase \in {"Stopping", "Off"}
  <1> DEFINE s == [r EXCEPT !.them = Session!stopped(@)]
             v == [s EXCEPT !.them = Session!shows(@, "Stopped")]
             u == IF Session!capturing(v) THEN v ELSE Session!stopCancellingEcho(v)
  <1>0. /\ Session!stopped(r.them) \in Session!StreamType /\ ~Session!stopped(r.them).running
        /\ Session!stopped(r.them).connecting = r.them.connecting
    BY StreamSteps DEF Under, RecType
  <1>1. /\ Under(v) /\ ~v.them.running /\ v.me = r.me /\ v.phase = r.phase
    <2> DEFINE one == Session!shows(s.them, "Stopped")
    <2>0. s = [r EXCEPT !.them = Session!stopped(r.them)] /\ v = [s EXCEPT !.them = one]
      OBVIOUS
    <2> HIDE DEF s, v
    <2>1. /\ Under(s) /\ s.them = Session!stopped(r.them) /\ s.me = r.me /\ s.phase = r.phase
      <3>1. r.phase \in {"Recording", "Stopping"} => ~Session!stopped(r.them).connecting
        BY <1>0 DEF Under, Connecting
      <3> QED
        BY <1>0, <2>0, <3>1, ThemBecomes
    <2>2. /\ one \in Session!StreamType /\ ~one.running
          /\ one.connecting = s.them.connecting
      BY <1>0, <2>1, StreamSteps
    <2> HIDE DEF one
    <2>3. s.phase \in {"Recording", "Stopping"} => ~one.connecting
      BY <2>1, <2>2 DEF Under, Connecting
    <2>4. Under(v) /\ v.phase = s.phase /\ v.me = s.me /\ v.them = one
      <3>1. Under(s) /\ one \in Session!StreamType
        BY <2>1, <2>2
      <3>2. one.running /\ one.input = "Starting" => one.connecting
        BY <2>2
      <3>3. v = [s EXCEPT !.them = one]
        BY <2>0
      <3> QED
        BY <3>1, <3>2, <3>3, <2>3, ThemBecomes
    <2> QED
      BY <2>1, <2>2, <2>4
  <1>2. Under(u) /\ ~u.them.running /\ u.me = r.me /\ u.phase = r.phase
    <2> HIDE DEF s, v
    <2> QED
      BY <1>1 DEF Under, RecType, Connecting, Referenced, Session!capturing, Session!stopCancellingEcho
  <1> HIDE DEF s, v, u
  <1>3. CASE r.phase = "Stopping"
    <2>1. Session!themFinished(r) = IF Session!isRunning(v) THEN v ELSE Session!finish(v)
      BY <1>3 DEF Session!themFinished, s, v, u
    <2>2. CASE Session!isRunning(v)
      BY <1>1, <1>3, <2>1, <2>2 DEF SessionFit
    <2>3. CASE ~Session!isRunning(v)
      <3>1. Over(Session!finish(v)) /\ Session!finish(v).me = v.me /\ Session!finish(v).them = v.them
        BY <1>1, <1>3, <2>3 DEF Session!finish, Session!releaseInputs, Over, Under, RecType, Session!isRunning
      <3> QED
        BY <1>1, <2>1, <2>3, <3>1 DEF SessionFit, Session!isRunning, Over
    <2> QED
      BY <2>2, <2>3
  <1>4. CASE r.phase = "Starting"
    <2> DEFINE w == [u EXCEPT !.them.connecting = FALSE]
    <2>1. Session!themFinished(r) = Session!finishStartOnceSettled(w)
      BY <1>4 DEF Session!themFinished, s, v, u
    <2>2. Under(w) /\ w.phase = "Starting" /\ ~w.them.running /\ w.me = r.me
      <3> DEFINE one == [u.them EXCEPT !.connecting = FALSE]
      <3>1. u.them \in Session!StreamType
        BY <1>2 DEF Under, RecType
      <3>2. one \in Session!StreamType /\ ~one.running /\ ~one.connecting
        BY <1>2, <3>1 DEF Session!StreamType
      <3>3. w = [u EXCEPT !.them = one]
        OBVIOUS
      <3> HIDE DEF one, w
      <3>4. Under(w)
        BY <1>2, <3>2, <3>3, ThemBecomes
      <3> QED
        BY <1>2, <1>4, <3>2, <3>3, <3>4, ThemBecomes
    <2> HIDE DEF w
    <2>3. /\ Under(Session!finishStartOnceSettled(w)) /\ Session!finishStartOnceSettled(w).me = w.me
          /\ Session!finishStartOnceSettled(w).them = w.them
      BY <2>2, StartSettles
    <2> QED
      BY <1>4, <2>1, <2>2, <2>3 DEF SessionFit
  <1>5. CASE r.phase = "Recording"
    <2>1. Session!themFinished(r) = u
      BY <1>5 DEF Session!themFinished, s, v, u
    <2> QED
      BY <1>2, <1>5, <2>1 DEF SessionFit
  <1> QED
    BY <1>3, <1>4, <1>5 DEF Under, RecType

LEMMA CancelsThem ==
    ASSUME NEW r, SessionFit(r)
    PROVE  SessionFit(Session!cancelThem(r)) /\ ~Session!cancelThem(r).them.running
  BY ThemFinishes DEF Session!cancelThem, SessionFit, Over, Session!isRunning

(* As ThemBecomes, for the microphone's stream, which the canceller needs. *)
LEMMA MeBecomes ==
    ASSUME NEW r, Under(r), NEW t \in Session!StreamType,
           t.running /\ t.input = "Starting" => t.connecting,
           r.phase \in {"Recording", "Stopping"} => ~t.connecting,
           r.cancelling => t.running /\ t.input # "Off",
           NEW v, v = [r EXCEPT !.me = t]
    PROVE  /\ Under(v) /\ v.phase = r.phase /\ v.me = t /\ v.them = r.them
           /\ v.mic = r.mic /\ v.sys = r.sys /\ v.cancelling = r.cancelling
  <1>1. v \in RecType
    BY DEF Under, RecType
  <1>2. /\ v.phase = r.phase /\ v.me = t /\ v.them = r.them /\ v.mic = r.mic /\ v.sys = r.sys
        /\ v.cancelling = r.cancelling /\ v.pending = r.pending /\ v.astray = r.astray
    BY DEF Under, RecType
  <1> QED
    BY <1>1, <1>2 DEF Under, Connecting, Referenced, Session!capturing

(* A stop that no longer needs the reference stops system audio, and ends
   nothing by it: neither stream is still connecting. *)
LEMMA SystemAudioStops ==
    ASSUME NEW r, Under(r), r.phase = "Stopping", ~r.cancelling
    PROVE  LET u == Session!stopSystemAudio(r)
           IN  Under(u) /\ u.phase = "Stopping" /\ ~u.cancelling /\ u.me = r.me
  <1>1. CASE ~r.them.running
    <2> DEFINE v == [r EXCEPT !.sys = "off"]
    <2>1. Session!stopSystemAudio(r) = v
      BY <1>1 DEF Session!stopSystemAudio
    <2>2. /\ v \in RecType /\ v.phase = r.phase /\ v.pending = r.pending /\ v.astray = r.astray
          /\ v.me = r.me /\ v.them = r.them /\ v.cancelling = r.cancelling
      BY DEF Under, RecType
    <2> HIDE DEF v
    <2> QED
      BY <2>1, <2>2 DEF Under, Connecting, Referenced
  <1>2. CASE r.them.running /\ r.them.input = "Listening"
    <2> DEFINE v == [r EXCEPT !.them.input = "Stopping",
                              !.sys = IF Session!capturing(r) THEN "stopping" ELSE @]
    <2>1. Session!stopSystemAudio(r) = v
      BY <1>2 DEF Session!stopSystemAudio, Session!themFinishListening
    <2>2. r.them \in Session!StreamType
      BY DEF Under, RecType
    <2>3. /\ v \in RecType /\ v.phase = r.phase /\ v.pending = r.pending /\ v.astray = r.astray
          /\ v.me = r.me /\ v.cancelling = r.cancelling
          /\ v.them.input = "Stopping" /\ v.them.connecting = r.them.connecting
      BY <2>2 DEF Under, RecType, Session!StreamType
    <2> HIDE DEF v
    <2> QED
      BY <2>1, <2>3 DEF Under, Connecting, Referenced
  <1>3. CASE r.them.running /\ r.them.input = "Off"
    <2> DEFINE t == [r.them EXCEPT !.utterance = FALSE]
               v == [r EXCEPT !.them = t]
    <2>1. Session!stopSystemAudio(r) = v
      BY <1>3 DEF Session!stopSystemAudio, Session!themFinishListening
    <2>2. r.them \in Session!StreamType
      BY DEF Under, RecType
    <2>3. t \in Session!StreamType /\ t.input = "Off" /\ t.connecting = r.them.connecting
      BY <1>3, <2>2 DEF Session!StreamType
    <2> HIDE DEF t
    <2>4. v = [r EXCEPT !.them = t]
      OBVIOUS
    <2> HIDE DEF v
    <2>5. ~t.connecting
      BY <2>3 DEF Under, Connecting
    <2>6. Under(v) /\ v.phase = r.phase /\ v.me = r.me /\ v.cancelling = r.cancelling
      BY <2>3, <2>4, <2>5, ThemBecomes
    <2> QED
      BY <2>1, <2>6
  <1>4. CASE r.them.running /\ r.them.input = "Starting"
    BY <1>4 DEF Under, Connecting
  <1>5. CASE r.them.running /\ r.them.input = "Stopping"
    BY <1>5 DEF Session!stopSystemAudio, Session!themFinishListening
  <1>6. r.them \in Session!StreamType
    BY DEF Under, RecType
  <1> QED
    BY <1>1, <1>2, <1>3, <1>4, <1>5, <1>6 DEF Session!StreamType

LEMMA MeListens ==
    ASSUME NEW r, Under(r), r.phase = "Stopping" => ~r.cancelling
    PROVE  Under(Session!meListened(r)) /\ Session!meListened(r).phase = r.phase
  <1> DEFINE t == [r.me EXCEPT !.utterance = FALSE]
             s == [r EXCEPT !.me = t]
  <1>1. Session!meListened(r) = IF r.phase = "Stopping" THEN Session!stopSystemAudio(s) ELSE s
    BY DEF Session!meListened
  <1>2. r.me \in Session!StreamType
    BY DEF Under, RecType
  <1>3. /\ t \in Session!StreamType /\ t.input = r.me.input /\ t.running = r.me.running
        /\ t.connecting = r.me.connecting
    BY <1>2 DEF Session!StreamType
  <1>4. s = [r EXCEPT !.me = t]
    OBVIOUS
  <1> HIDE DEF t, s
  <1>5. /\ t.running /\ t.input = "Starting" => t.connecting
        /\ r.phase \in {"Recording", "Stopping"} => ~t.connecting
        /\ r.cancelling => t.running /\ t.input # "Off"
    BY <1>3 DEF Under, Connecting, Referenced
  <1>6. Under(s) /\ s.phase = r.phase /\ s.cancelling = r.cancelling
    BY <1>3, <1>4, <1>5, MeBecomes
  <1> QED
    BY <1>1, <1>6, SystemAudioStops

(* A start whose microphone's stream ended is given up, and answered once. *)
LEMMA Abandons ==
    ASSUME NEW r, Under(r), r.phase = "Starting", ~r.me.running, ~r.cancelling
    PROVE  Over(Session!abandon(r))
  <1> DEFINE o == [r EXCEPT !.phase = "Off"]
             c == Session!cancelThem(o)
             e == Session!releaseInputs(c)
  <1>1. /\ o \in RecType /\ o.phase = "Off" /\ o.me = r.me /\ o.them = r.them
        /\ o.pending = r.pending /\ o.astray = r.astray
    BY DEF Under, RecType
  <1>2. Session!abandon(r) = Session!answer(e)
    BY DEF Session!abandon
  <1> HIDE DEF o
  <1>3. /\ c \in RecType /\ c.phase = "Off" /\ c.me = o.me /\ ~c.them.running
        /\ c.pending = o.pending /\ c.astray = o.astray
    <2>1. CASE ~o.them.running
      BY <1>1, <2>1 DEF Session!cancelThem
    <2>2. CASE o.them.running
      <3>1. c = [o EXCEPT !.them = Session!stopped(@)]
        BY <1>1, <2>2 DEF Session!cancelThem, Session!themFinished
      <3>2. Session!stopped(o.them) \in Session!StreamType /\ ~Session!stopped(o.them).running
        BY <1>1, StreamSteps DEF RecType
      <3> HIDE DEF c
      <3> QED
        BY <1>1, <3>1, <3>2 DEF RecType
    <2> QED
      BY <2>1, <2>2
  <1> HIDE DEF c
  <1>4. /\ e \in RecType /\ e.phase = "Off" /\ e.me = c.me /\ e.them = c.them
        /\ e.mic = "off" /\ e.sys = "off" /\ ~e.cancelling
        /\ e.pending = c.pending /\ e.astray = c.astray
    BY <1>3 DEF Session!releaseInputs, RecType
  <1> HIDE DEF e
  <1>5. e.pending /\ ~e.astray /\ ~e.me.running /\ ~e.them.running
    BY <1>1, <1>3, <1>4 DEF Under
  <1> QED
    BY <1>2, <1>4, <1>5 DEF Session!answer, Over, RecType, Session!isRunning

(* The microphone's stream may end whenever the rest is sound: it gives its
   start up, ends a stop with system audio's, or leaves that to go on. *)
LEMMA MeFinishes ==
    ASSUME NEW r, Under(r)
    PROVE  SessionFit(Session!meFinished(r))
  <1> DEFINE s == [r EXCEPT !.me = Session!stopped(@), !.mic = "off",
                            !.cancelling = IF r.me.input = "Off" THEN @ ELSE FALSE]
             v == [s EXCEPT !.me = Session!shows(@, "Stopped")]
             u == Session!stopSystemAudio(v)
  <1>1. /\ Session!stopped(r.me) \in Session!StreamType /\ ~Session!stopped(r.me).running
        /\ Session!stopped(r.me).connecting = r.me.connecting
    BY StreamSteps DEF Under, RecType
  <1>2. /\ s \in RecType /\ s.phase = r.phase /\ s.me = Session!stopped(r.me) /\ s.them = r.them
        /\ s.sys = r.sys /\ s.mic = "off" /\ s.pending = r.pending /\ s.astray = r.astray
        /\ ~s.cancelling
    <2>1. s \in RecType /\ s.cancelling = (IF r.me.input = "Off" THEN r.cancelling ELSE FALSE)
      BY <1>1 DEF Under, RecType
    <2>2. ~s.cancelling
      BY <2>1 DEF Under, Referenced
    <2> QED
      BY <1>1, <2>1, <2>2 DEF Under, RecType
  <1>3. Session!meFinished(r) = CASE r.phase = "Off" -> s
                          [] r.phase = "Starting" -> Session!abandon(s)
                          [] r.phase = "Stopping" -> IF Session!isRunning(u) THEN u ELSE Session!finish(u)
                          [] r.phase = "Recording" -> v
    BY DEF Session!meFinished
  <1> HIDE DEF s
  <1>4. Under(s)
    BY <1>1, <1>2 DEF Under, Connecting, Referenced
  <1>5. Under(v) /\ v.phase = r.phase /\ ~v.cancelling
    <2> DEFINE one == Session!shows(s.me, "Stopped")
    <2>1. /\ one \in Session!StreamType /\ ~one.running /\ one.connecting = s.me.connecting
      BY <1>1, <1>2, StreamSteps
    <2>2. v = [s EXCEPT !.me = one]
      OBVIOUS
    <2> HIDE DEF one, v
    <2>3. s.phase \in {"Recording", "Stopping"} => ~one.connecting
      BY <1>4, <2>1 DEF Under, Connecting
    <2> QED
      BY <1>2, <1>4, <2>1, <2>2, <2>3, MeBecomes
  <1> HIDE DEF v
  <1>6. CASE r.phase = "Starting"
    BY <1>1, <1>2, <1>3, <1>4, <1>6, Abandons DEF SessionFit
  <1>7. CASE r.phase = "Recording"
    BY <1>3, <1>5, <1>7 DEF SessionFit
  <1>8. CASE r.phase = "Stopping"
    <2>1. Under(u) /\ u.phase = "Stopping"
      BY <1>5, <1>8, SystemAudioStops
    <2>2. Session!meFinished(r) = IF Session!isRunning(u) THEN u ELSE Session!finish(u)
      BY <1>3, <1>8
    <2> HIDE DEF u
    <2>3. ~Session!isRunning(u) => Over(Session!finish(u))
      BY <2>1 DEF Session!finish, Session!releaseInputs, Over, Under, RecType, Session!isRunning
    <2> QED
      BY <2>1, <2>2, <2>3 DEF SessionFit
  <1> QED
    BY <1>6, <1>7, <1>8 DEF Under, RecType

LEMMA CancelsMe ==
    ASSUME NEW r, SessionFit(r)
    PROVE  SessionFit(Session!cancelMe(r))
  BY MeFinishes DEF Session!cancelMe, SessionFit, Over, Session!isRunning

(* A stop stops the microphone, or what is left once it is gone. *)
LEMMA InputsStop ==
    ASSUME NEW r, Under(r), r.phase = "Stopping"
    PROVE  SessionFit(Session!stopInputs(r))
  <1>1. CASE ~r.me.running
    BY <1>1, SystemAudioStops DEF Session!stopInputs, SessionFit, Under, Referenced
  <1>2. CASE r.me.running /\ r.me.input = "Listening"
    <2> DEFINE v == [r EXCEPT !.me.input = "Stopping", !.mic = "stopping"]
    <2>1. Session!stopInputs(r) = v
      BY <1>2 DEF Session!stopInputs, Session!meFinishListening
    <2>2. r.me \in Session!StreamType
      BY DEF Under, RecType
    <2>3. /\ v \in RecType /\ v.phase = r.phase /\ v.pending = r.pending /\ v.astray = r.astray
          /\ v.them = r.them /\ v.sys = r.sys /\ v.cancelling = r.cancelling
          /\ v.me.input = "Stopping" /\ v.me.connecting = r.me.connecting
          /\ v.me.running = r.me.running
      BY <2>2 DEF Under, RecType, Session!StreamType
    <2> HIDE DEF v
    <2> QED
      BY <2>1, <2>3, <1>2 DEF SessionFit, Under, Connecting, Referenced, Session!capturing
  <1>3. CASE r.me.running /\ r.me.input = "Off"
    <2>1. Session!stopInputs(r) = Session!meListened(r)
      BY <1>3 DEF Session!stopInputs, Session!meFinishListening
    <2>2. ~r.cancelling
      BY <1>3 DEF Under, Referenced
    <2> QED
      BY <2>1, <2>2, MeListens DEF SessionFit
  <1>4. CASE r.me.running /\ r.me.input = "Starting"
    BY <1>4 DEF Under, Connecting
  <1>5. CASE r.me.running /\ r.me.input = "Stopping"
    BY <1>5 DEF Session!stopInputs, Session!meFinishListening, SessionFit
  <1>6. r.me \in Session!StreamType
    BY DEF Under, RecType
  <1> QED
    BY <1>1, <1>2, <1>3, <1>4, <1>5, <1>6 DEF Session!StreamType

-----------------------------------------------------------------------------
(* The steps.                                                              *)

DeadlineType == [timer : {"off", "running", "due"}, past : BOOLEAN]
DictationType == [dictating : BOOLEAN, listening : BOOLEAN, marked : BOOLEAN]

SessionInv ==
    /\ SessionFit(rec) /\ FileSound(file)
    /\ deadline \in DeadlineType /\ dictation \in DictationType
    /\ rec.phase = "Off" => ~file.open /\ deadline.timer = "off"

LEMMA Extends ==
    ASSUME deadline \in DeadlineType
    PROVE  Session!extendStop(deadline) \in DeadlineType /\ Session!NoDeadline \in DeadlineType
           /\ Session!NewDeadline \in DeadlineType
  BY DEF Session!extendStop, DeadlineType, Session!NoDeadline, Session!NewDeadline

LEMMA BecomesKeeps ==
    ASSUME SessionInv, NEW r, SessionFit(r), NEW f, FileSound(f), NEW d \in DeadlineType, Session!becomes(r, f, d)
    PROVE  SessionInv'
  <1>1. rec' = r /\ FileSound(file') /\ (r.phase = "Off" => ~file'.open)
    BY BecomesKeepsFile DEF Session!becomes
  <1>2. deadline' \in DeadlineType /\ (r.phase = "Off" => deadline'.timer = "off")
    BY DEF Session!becomes, Session!NoDeadline, DeadlineType
  <1>3. dictation' \in DictationType
    BY DEF Session!becomes, SessionInv, DictationType
  <1> QED
    BY <1>1, <1>2, <1>3 DEF SessionInv

(* What leaves the recording as it is, but for the streams' looks. *)
LEMMA SameRecording ==
    ASSUME SessionInv, SessionFit(rec'), rec'.phase = rec.phase, UNCHANGED <<file, deadline, dictation>>
    PROVE  SessionInv'
  BY DEF SessionInv

LEMMA SessionStartKeeps == SessionConstants => (SessionInv /\ Session!start => SessionInv')
  <1> SUFFICES ASSUME SessionConstants, SessionInv, Session!start PROVE SessionInv'
    OBVIOUS
  <1>1. Over(rec)
    BY DEF SessionInv, SessionFit, Under, Session!start
  <1>2. PICK system \in {FALSE, SystemAudio}, cancels \in {FALSE, Cancels} :
             rec' = [phase |-> "Starting", me |-> Session!Started, pending |-> TRUE, astray |-> rec.astray,
                     them |-> IF system THEN Session!Started ELSE Session!NoStream,
                     mic |-> "starting", sys |-> IF system THEN "starting" ELSE "off",
                     cancelling |-> system /\ cancels]
    BY DEF Session!start
  <1>3. /\ Session!Started \in Session!StreamType /\ Session!Started.running /\ Session!Started.input = "Starting"
        /\ Session!Started.connecting
        /\ Session!NoStream \in Session!StreamType /\ ~Session!NoStream.running
    BY DEF Session!Started, Session!NoStream, Session!StreamType
  <1>4. rec.astray = FALSE
    BY <1>1 DEF Over, RecType
  <1>5. system \in BOOLEAN /\ cancels \in BOOLEAN
    BY <1>2 DEF SessionConstants
  <1>6. /\ rec' \in RecType /\ rec'.phase = "Starting" /\ rec'.pending /\ ~rec'.astray
        /\ rec'.me = Session!Started /\ rec'.them \in {Session!Started, Session!NoStream}
        /\ rec'.cancelling => rec'.sys = "starting"
    BY <1>2, <1>3, <1>4, <1>5 DEF RecType
  <1>7. Under(rec')
    BY <1>3, <1>6 DEF Under, Connecting, Referenced, Session!capturing
  <1> QED
    BY <1>6, <1>7 DEF Session!start, SessionInv, SessionFit, FileSound, FileType

LEMMA StopKeeps == SessionInv /\ Session!stop => SessionInv'
  <1> SUFFICES ASSUME SessionInv, Session!stop PROVE SessionInv'
    OBVIOUS
  <1> DEFINE r == [rec EXCEPT !.phase = "Stopping"]
  <1>1. Under(r) /\ r.phase = "Stopping"
    <2>1. Under(rec) /\ rec.phase = "Recording"
      BY DEF SessionInv, SessionFit, Over, Session!stop
    <2>2. /\ r \in RecType /\ r.phase = "Stopping" /\ r.me = rec.me /\ r.them = rec.them
          /\ r.sys = rec.sys /\ r.cancelling = rec.cancelling /\ r.pending = rec.pending
          /\ r.astray = rec.astray
      BY <2>1 DEF Under, RecType
    <2> HIDE DEF r
    <2> QED
      BY <2>1, <2>2 DEF Under, Connecting, Referenced, Session!capturing
  <1>2. Session!becomes(IF Session!isRunning(r) THEN Session!stopInputs(r) ELSE Session!finish(r), file, Session!NewDeadline)
    BY DEF Session!stop
  <1> HIDE DEF r
  <1>3. ~Session!isRunning(r) => Over(Session!finish(r))
    BY <1>1 DEF Session!finish, Session!releaseInputs, Over, Under, RecType, Session!isRunning
  <1>4. SessionFit(IF Session!isRunning(r) THEN Session!stopInputs(r) ELSE Session!finish(r))
    BY <1>1, <1>3, InputsStop DEF SessionFit
  <1> QED
    BY <1>2, <1>4, BecomesKeeps, Extends DEF SessionInv

LEMMA DiscardKeeps == SessionInv /\ Session!discard => SessionInv'
  <1> SUFFICES ASSUME SessionInv, Session!discard PROVE SessionInv'
    OBVIOUS
  <1> DEFINE r == [rec EXCEPT !.phase = "Stopping", !.me.utterance = FALSE,
                              !.them.utterance = FALSE]
  <1>1. Under(r) /\ r.phase = "Stopping"
    <2>1. Under(rec) /\ rec.phase = "Recording"
      BY DEF SessionInv, SessionFit, Over, Session!discard
    <2>2. rec.me \in Session!StreamType /\ rec.them \in Session!StreamType
      BY <2>1 DEF Under, RecType
    <2>3. /\ r \in RecType /\ r.phase = "Stopping"
          /\ r.sys = rec.sys /\ r.cancelling = rec.cancelling /\ r.pending = rec.pending
          /\ r.astray = rec.astray
          /\ r.me.running = rec.me.running /\ r.me.input = rec.me.input
          /\ r.me.connecting = rec.me.connecting
          /\ r.them.running = rec.them.running /\ r.them.input = rec.them.input
          /\ r.them.connecting = rec.them.connecting
      BY <2>1, <2>2 DEF Under, RecType, Session!StreamType
    <2> HIDE DEF r
    <2> QED
      BY <2>1, <2>3 DEF Under, Connecting, Referenced, Session!capturing
  <1>2. /\ rec' = IF Session!isRunning(r) THEN Session!cancelThem(Session!cancelMe(r)) ELSE Session!finish(r)
        /\ deadline' = Session!NoDeadline /\ file' = Session!NoFile /\ UNCHANGED dictation
    BY DEF Session!discard
  <1> HIDE DEF r
  <1>3. ~Session!isRunning(r) => Over(Session!finish(r))
    BY <1>1 DEF Session!finish, Session!releaseInputs, Over, Under, RecType, Session!isRunning
  <1>4. SessionFit(rec')
    BY <1>1, <1>2, <1>3, CancelsMe, CancelsThem DEF SessionFit
  <1> QED
    BY <1>2, <1>4 DEF SessionInv, FileSound, FileType, Session!NoFile, Session!NoDeadline, DeadlineType

LEMMA ClockKeeps ==
    SessionInv /\ (Session!DeadlineFires \/ Session!TimePasses \/ Session!LimitPasses \/ Session!utteranceFailed) => SessionInv'
  <1> SUFFICES ASSUME SessionInv, Session!DeadlineFires \/ Session!TimePasses \/ Session!LimitPasses \/ Session!utteranceFailed
               PROVE  SessionInv'
    OBVIOUS
  <1>1. CASE Session!DeadlineFires
    <2>1. SessionFit(Session!cancelThem(Session!cancelMe(rec)))
      BY CancelsMe, CancelsThem DEF SessionInv
    <2> QED
      BY <1>1, <2>1, BecomesKeeps, Extends DEF Session!DeadlineFires, SessionInv
  <1>2. CASE Session!TimePasses \/ Session!LimitPasses
    BY <1>2 DEF Session!TimePasses, Session!LimitPasses, SessionInv, DeadlineType
  <1>3. CASE Session!utteranceFailed
    <2>1. rec.phase # "Off"
      BY <1>3 DEF Session!utteranceFailed, Session!speaks, SessionInv, SessionFit, Over, Under,
         Session!isRunning
    <2> QED
      BY <1>3, <2>1, Extends DEF Session!utteranceFailed, SessionInv
  <1> QED
    BY <1>1, <1>2, <1>3

LEMMA DictationKeeps == SessionInv /\ (Session!setDictating \/ Session!setDictationListening) => SessionInv'
  <1> SUFFICES ASSUME SessionInv, Session!setDictating \/ Session!setDictationListening PROVE SessionInv'
    OBVIOUS
  <1>0. rec \in RecType /\ rec.me \in Session!StreamType
    BY DEF SessionInv, SessionFit, Under, Over, RecType
  <1>1. CASE Session!setDictating
    <2> DEFINE state == IF dictation'.dictating THEN "Paused" ELSE "Recording"
               t == [rec.me EXCEPT !.state = state]
    <2>1. rec' = rec \/ rec' = [rec EXCEPT !.me = t]
      BY <1>1 DEF Session!setDictating
    <2>2. /\ t \in Session!StreamType /\ t.running = rec.me.running /\ t.input = rec.me.input
          /\ t.connecting = rec.me.connecting
      BY <1>0 DEF Session!StreamType
    <2>3. dictation' \in DictationType
      BY <1>1 DEF Session!setDictating, SessionInv, DictationType
    <2> HIDE DEF t
    <2>4. ASSUME rec' = [rec EXCEPT !.me = t]
          PROVE  SessionFit(rec') /\ rec'.phase = rec.phase
      <3>1. /\ rec' \in RecType /\ rec'.phase = rec.phase /\ rec'.me = t
            /\ rec'.them = rec.them /\ rec'.mic = rec.mic /\ rec'.sys = rec.sys
            /\ rec'.cancelling = rec.cancelling /\ rec'.pending = rec.pending
            /\ rec'.astray = rec.astray
        BY <1>0, <2>2, <2>4 DEF RecType
      <3> QED
        BY <2>2, <3>1 DEF SessionInv, SessionFit, Under, Over, Connecting, Referenced, Session!capturing,
           Session!isRunning
    <2> QED
      BY <1>1, <2>1, <2>3, <2>4 DEF Session!setDictating, SessionInv
  <1>2. CASE Session!setDictationListening
    <2>1. dictation' \in DictationType /\ UNCHANGED <<rec, deadline>>
      BY <1>2 DEF Session!setDictationListening, Session!marks, SessionInv, DictationType
    <2>2. FileSound(file') /\ (file'.open => file.open)
      BY <1>2, AppendKeeps DEF Session!setDictationListening, Session!append, SessionInv, FileSound
    <2> QED
      BY <2>1, <2>2 DEF SessionInv
  <1> QED
    BY <1>1, <1>2

(* A capture that starts, or an utterance that opens or ends, changes nothing
   that has to hold of the whole. *)
LEMMA InputStartKeeps ==
    SessionInv /\ (Session!micStarted \/ Session!sysStarted \/ Session!trackUtterance \/ Session!pauseEnds) => SessionInv'
  <1> SUFFICES ASSUME SessionInv, Session!micStarted \/ Session!sysStarted \/ Session!trackUtterance \/ Session!pauseEnds PROVE SessionInv'
    OBVIOUS
  <1>0. rec \in RecType /\ rec.me \in Session!StreamType /\ rec.them \in Session!StreamType
    BY DEF SessionInv, SessionFit, Under, Over, RecType
  <1>1. CASE Session!micStarted
    <2>1. Under(rec)
      BY <1>1 DEF Session!micStarted, SessionInv, SessionFit, Over
    <2>2. /\ rec' \in RecType /\ rec'.phase = rec.phase /\ rec'.them = rec.them
          /\ rec'.sys = rec.sys /\ rec'.cancelling = rec.cancelling
          /\ rec'.pending = rec.pending /\ rec'.astray = rec.astray
          /\ rec'.me.input = "Listening" /\ rec'.me.running = rec.me.running
          /\ rec'.me.connecting = rec.me.connecting
      BY <1>0, <1>1 DEF Session!micStarted, RecType, Session!StreamType
    <2>3. Under(rec')
      BY <2>1, <2>2 DEF Under, Connecting, Referenced, Session!capturing
    <2> QED
      BY <1>1, <2>2, <2>3, SameRecording DEF SessionFit, Session!micStarted
  <1>2. CASE Session!sysStarted
    <2>1. Under(rec)
      BY <1>2 DEF Session!sysStarted, SessionInv, SessionFit, Over
    <2>2. /\ rec' \in RecType /\ rec'.phase = rec.phase /\ rec'.me = rec.me
          /\ rec'.sys = "on" /\ rec'.cancelling = rec.cancelling
          /\ rec'.pending = rec.pending /\ rec'.astray = rec.astray
          /\ rec'.them.input \in {"Listening", rec.them.input}
          /\ rec'.them.running = rec.them.running
          /\ rec'.them.connecting = rec.them.connecting
      BY <1>0, <1>2 DEF Session!sysStarted, RecType, Session!StreamType
    <2>3. Under(rec')
      BY <2>1, <2>2 DEF Under, Connecting, Referenced, Session!capturing
    <2> QED
      BY <1>2, <2>2, <2>3, SameRecording DEF SessionFit, Session!sysStarted
  <1>3. CASE Session!trackUtterance \/ Session!pauseEnds
    <2>1. /\ rec' \in RecType /\ rec'.phase = rec.phase /\ rec'.mic = rec.mic
          /\ rec'.sys = rec.sys /\ rec'.cancelling = rec.cancelling
          /\ rec'.pending = rec.pending /\ rec'.astray = rec.astray
          /\ rec'.me.running = rec.me.running /\ rec'.me.input = rec.me.input
          /\ rec'.me.connecting = rec.me.connecting
          /\ rec'.them.running = rec.them.running /\ rec'.them.input = rec.them.input
          /\ rec'.them.connecting = rec.them.connecting
      <3>1. PICK on \in BOOLEAN : \/ rec' = [rec EXCEPT !.me.utterance = on]
                                  \/ rec' = [rec EXCEPT !.them.utterance = on]
        <4>1. rec.me.utterance \in BOOLEAN /\ rec.them.utterance \in BOOLEAN
          BY <1>0 DEF Session!StreamType
        <4> QED
          BY <1>3, <4>1 DEF Session!trackUtterance, Session!pauseEnds
      <3>2. CASE rec' = [rec EXCEPT !.me.utterance = on]
        BY <1>0, <3>1, <3>2 DEF RecType, Session!StreamType
      <3>3. CASE rec' = [rec EXCEPT !.them.utterance = on]
        BY <1>0, <3>1, <3>3 DEF RecType, Session!StreamType
      <3> QED
        BY <3>1, <3>2, <3>3
    <2>2. SessionFit(rec')
      BY <2>1 DEF SessionInv, SessionFit, Under, Over, Connecting, Referenced, Session!capturing,
         Session!isRunning
    <2> QED
      BY <1>3, <2>1, <2>2, SameRecording DEF Session!trackUtterance, Session!pauseEnds
  <1> QED
    BY <1>1, <1>2, <1>3

(* The microphone is gone, with what the canceller held. *)
LEMMA MicrophoneLost ==
    ASSUME NEW r, Under(r), NEW v,
           v = [r EXCEPT !.mic = "off", !.cancelling = FALSE, !.me.input = "Off"]
    PROVE  Under(v) /\ ~v.cancelling
  <1>1. r.me \in Session!StreamType
    BY DEF Under, RecType
  <1>2. /\ v \in RecType /\ v.phase = r.phase /\ v.them = r.them /\ v.cancelling = FALSE
        /\ v.pending = r.pending /\ v.astray = r.astray
        /\ v.me.input = "Off" /\ v.me.connecting = r.me.connecting
    BY <1>1 DEF Under, RecType, Session!StreamType
  <1> QED
    BY <1>2 DEF Under, Connecting, Referenced

(* System audio is gone, and the canceller before it. *)
LEMMA SystemAudioLost ==
    ASSUME NEW r, Under(r), NEW v, NEW how \in {"Off", r.them.input},
           v = [r EXCEPT !.sys = "off", !.cancelling = FALSE, !.them.input = how]
    PROVE  Under(v)
  <1>1. r.them \in Session!StreamType
    BY DEF Under, RecType
  <1>2. /\ v \in RecType /\ v.phase = r.phase /\ v.me = r.me /\ v.cancelling = FALSE
        /\ v.pending = r.pending /\ v.astray = r.astray
        /\ v.them.input = how /\ v.them.connecting = r.them.connecting
        /\ v.them.running = r.them.running
    BY <1>1 DEF Under, RecType, Session!StreamType
  <1> QED
    BY <1>2 DEF Under, Connecting, Referenced

LEMMA MicrophoneKeeps == SessionInv /\ (Session!micFailed \/ Session!micStopped) => SessionInv'
  <1> SUFFICES ASSUME SessionInv, Session!micFailed \/ Session!micStopped PROVE SessionInv'
    OBVIOUS
  <1> DEFINE v == [rec EXCEPT !.mic = "off", !.cancelling = FALSE, !.me.input = "Off"]
  <1>1. Under(rec)
    BY DEF Session!micFailed, Session!micStopped, SessionInv, SessionFit, Over
  <1>2. /\ Session!micFailed => Session!becomes(Session!meFinished(v), file, deadline) \/ Session!becomes(v, file, deadline)
        /\ Session!micStopped => Session!becomes(Session!meListened(v), file, deadline)
    BY DEF Session!micFailed, Session!micStopped
  <1>3. v = [rec EXCEPT !.mic = "off", !.cancelling = FALSE, !.me.input = "Off"]
    OBVIOUS
  <1> HIDE DEF v
  <1>4. Under(v) /\ ~v.cancelling
    BY <1>1, <1>3, MicrophoneLost
  <1>5. SessionFit(v) /\ SessionFit(Session!meFinished(v)) /\ SessionFit(Session!meListened(v))
    BY <1>4, MeFinishes, MeListens DEF SessionFit
  <1> QED
    BY <1>2, <1>5, BecomesKeeps DEF SessionInv

LEMMA SystemAudioKeeps == SessionInv /\ (Session!sysFailed \/ Session!sysStopped) => SessionInv'
  <1> SUFFICES ASSUME SessionInv, Session!sysFailed \/ Session!sysStopped PROVE SessionInv'
    OBVIOUS
  <1> DEFINE v == [rec EXCEPT !.sys = "off", !.cancelling = FALSE, !.them.input = "Off"]
             w == [rec EXCEPT !.sys = "off", !.cancelling = FALSE]
             u == [rec EXCEPT !.sys = "off", !.them.input = "Off", !.them.utterance = FALSE]
  <1>1. Under(rec)
    BY DEF Session!sysFailed, Session!sysStopped, SessionInv, SessionFit, Over
  <1>2. /\ Session!sysFailed => \/ Session!becomes(IF rec.them.running THEN Session!themFinished(v) ELSE w, file, deadline)
                        \/ Session!becomes(v, file, deadline)
        /\ Session!sysStopped => Session!becomes(u, file, deadline)
    BY <1>1 DEF Session!sysFailed, Session!sysStopped, Session!stopCancellingEcho, Under, RecType
  <1>3. Under(v)
    BY <1>1, SystemAudioLost
  <1>4. Under(w)
    <2>1. /\ w \in RecType /\ w.phase = rec.phase /\ w.me = rec.me /\ w.them = rec.them
          /\ w.cancelling = FALSE /\ w.pending = rec.pending /\ w.astray = rec.astray
      BY <1>1 DEF Under, RecType
    <2> HIDE DEF w
    <2> QED
      BY <1>1, <2>1 DEF Under, Connecting, Referenced
  <1>5. Session!sysStopped => Under(u)
    <2> SUFFICES ASSUME Session!sysStopped PROVE Under(u)
      OBVIOUS
    <2>1. rec.them \in Session!StreamType /\ ~rec.cancelling
      BY <1>1 DEF Session!sysStopped, Under, RecType, Referenced, Session!capturing
    <2>2. /\ u \in RecType /\ u.phase = rec.phase /\ u.me = rec.me
          /\ u.cancelling = rec.cancelling /\ u.pending = rec.pending /\ u.astray = rec.astray
          /\ u.them.input = "Off" /\ u.them.connecting = rec.them.connecting
      BY <1>1, <2>1 DEF Under, RecType, Session!StreamType
    <2> HIDE DEF u
    <2> QED
      BY <1>1, <2>1, <2>2 DEF Under, Connecting, Referenced
  <1> HIDE DEF v, w, u
  <1>6. SessionFit(v) /\ SessionFit(w) /\ SessionFit(Session!themFinished(v))
    BY <1>3, <1>4, ThemFinishes DEF SessionFit
  <1> QED
    BY <1>2, <1>5, <1>6, BecomesKeeps DEF SessionInv, SessionFit

LEMMA Speaking ==
    ASSUME SessionInv, Session!speaks(rec.me) \/ Session!speaks(rec.them)
    PROVE  Under(rec)
  BY DEF Session!speaks, SessionInv, SessionFit, Over, Session!isRunning

LEMMA TextKeeps == SessionInv /\ Session!textFinalized => SessionInv'
  <1> SUFFICES ASSUME SessionInv, Session!textFinalized PROVE SessionInv'
    OBVIOUS
  <1>1. Under(rec)
    BY Speaking DEF Session!textFinalized
  <1>2. FileSound(file') /\ deadline' \in DeadlineType /\ UNCHANGED <<rec, dictation>>
    BY AppendKeeps, Extends DEF Session!textFinalized, SessionInv
  <1> QED
    BY <1>1, <1>2 DEF SessionInv, Under

(* A stream's look changes, and while it speaks it may be connected. *)
LEMMA ConnectedKeeps ==
    ASSUME SessionInv, NEW who \in {"me", "them"}, Session!connected(who) \/ Session!reconnecting(who)
    PROVE  SessionInv'
  <1>1. Under(rec)
    BY Speaking DEF Session!connected, Session!reconnecting
  <1>2. rec[who] \in Session!StreamType /\ Session!speaks(rec[who])
    BY <1>1 DEF Under, RecType, Session!connected, Session!reconnecting
  <1>3. Session!live(who) \in {"Recording", "Paused", "Reconnecting", "Stopped"}
    BY DEF Session!live
  <1>4. ASSUME NEW t \in Session!StreamType, t.running = rec[who].running, t.input = rec[who].input,
               t.connecting = rec[who].connecting \/ ~t.connecting,
               NEW v, v = [rec EXCEPT ![who] = t]
        PROVE  Under(v) /\ v.phase = rec.phase /\ v[who] = t
    <2>1. t.running /\ t.input # "Starting"
      BY <1>2, <1>4 DEF Session!speaks
    <2>2. rec.phase \in {"Recording", "Stopping"} => ~t.connecting
      BY <1>1, <1>4 DEF Under, Connecting
    <2>3. CASE who = "them"
      <3>1. v = [rec EXCEPT !.them = t]
        BY <1>4, <2>3
      <3> QED
        BY <1>1, <2>1, <2>2, <2>3, <3>1, ThemBecomes
    <2>4. CASE who = "me"
      <3>1. v = [rec EXCEPT !.me = t]
        BY <1>4, <2>4
      <3>2. rec.cancelling => t.running /\ t.input # "Off"
        BY <1>1, <1>4, <2>4 DEF Under, Referenced
      <3> QED
        BY <1>1, <2>1, <2>2, <2>4, <3>1, <3>2, MeBecomes
    <2> QED
      BY <2>3, <2>4
  <1> DEFINE look(state) == Session!shows(rec[who], state)
             c == [rec EXCEPT ![who] = look(Session!live(who))]
  <1>5. \A state \in {"Recording", "Paused", "Reconnecting", "Stopped"} :
           /\ look(state) \in Session!StreamType /\ look(state).running = rec[who].running
           /\ look(state).input = rec[who].input
           /\ look(state).connecting = rec[who].connecting
    BY <1>2, StreamSteps
  <1>6. CASE Session!reconnecting(who)
    <2>1. rec' = [rec EXCEPT ![who] = look("Reconnecting")]
      BY <1>6 DEF Session!reconnecting
    <2> HIDE DEF look
    <2>2. Under(rec') /\ rec'.phase = rec.phase
      BY <1>4, <1>5, <2>1
    <2> QED
      BY <1>6, <2>2, SameRecording DEF SessionFit, Session!reconnecting
  <1>7. CASE Session!connected(who)
    <2> DEFINE t == [look(Session!live(who)) EXCEPT !.connecting = FALSE]
               d == [c EXCEPT ![who].connecting = FALSE]
    <2>1. Session!becomes(IF rec.phase = "Starting" THEN Session!finishStartOnceSettled(d) ELSE c, file, deadline)
      BY <1>7 DEF Session!connected
    <2> HIDE DEF look
    <2>2. Under(c) /\ c[who] = look(Session!live(who))
      BY <1>3, <1>4, <1>5
    <2>3. Under(d)
      <3>1. d = [rec EXCEPT ![who] = t]
        BY <1>1, <2>2 DEF Under, RecType
      <3>2. t \in Session!StreamType /\ t.running = rec[who].running /\ t.input = rec[who].input
            /\ ~t.connecting
        BY <1>3, <1>5 DEF Session!StreamType
      <3> HIDE DEF t, d
      <3> QED
        BY <1>4, <3>1, <3>2
    <2> HIDE DEF c, d
    <2>4. SessionFit(IF rec.phase = "Starting" THEN Session!finishStartOnceSettled(d) ELSE c)
      BY <2>2, <2>3, StartSettles DEF SessionFit
    <2> QED
      BY <2>1, <2>4, BecomesKeeps DEF SessionInv
  <1> QED
    BY <1>6, <1>7

LEMMA FinishedKeeps ==
    ASSUME SessionInv, NEW who \in {"me", "them"}, Session!finished(who)
    PROVE  SessionInv'
  <1> DEFINE r == IF who = "me" THEN Session!meFinished(rec) ELSE Session!themFinished(rec)
  <1>1. Under(rec)
    BY Speaking DEF Session!finished
  <1>2. SessionFit(r)
    BY <1>1, MeFinishes, ThemFinishes
  <1>3. PICK f \in Session!append(file) : Session!becomes(r, f, Session!extendStop(deadline))
    BY DEF Session!finished
  <1>4. FileSound(f) /\ Session!extendStop(deadline) \in DeadlineType
    BY <1>3, AppendKeeps, Extends DEF SessionInv
  <1> HIDE DEF r
  <1> QED
    BY <1>2, <1>3, <1>4, BecomesKeeps

-----------------------------------------------------------------------------
LEMMA SessionInvInit == Session!Init => SessionInv
  <1>1. Session!NoStream \in Session!StreamType /\ ~Session!NoStream.running
    BY DEF Session!NoStream, Session!StreamType
  <1>2. Over(Session!AtRest)
    BY <1>1 DEF Over, Session!AtRest, RecType, Session!isRunning
  <1> QED
    BY <1>2 DEF Session!Init, SessionInv, SessionFit, FileSound, FileType, Session!NoFile,
       Session!NoDeadline, DeadlineType,
                DictationType

LEMMA SessionInvNext == SessionConstants => (SessionInv /\ [Session!Next]_(Session!vars) => SessionInv')
  <1> SUFFICES ASSUME SessionConstants, SessionInv, [Session!Next]_(Session!vars) PROVE SessionInv'
    OBVIOUS
  <1>1. CASE UNCHANGED Session!vars
    BY <1>1 DEF Session!vars, SessionInv
  <1> QED
    BY <1>1, SessionStartKeeps, StopKeeps, DiscardKeeps, ClockKeeps, DictationKeeps, InputStartKeeps,
       MicrophoneKeeps, SystemAudioKeeps, TextKeeps, ConnectedKeeps, FinishedKeeps
    DEF Session!Next, Session!Inputs, Session!Streams

(* Every variable keeps its type, whichever handler a call ends in. *)
THEOREM RecordingTypeCorrect ==
    ASSUME SessionConstants
    PROVE  Session!Spec => []Session!TypeOK
  <1>1. SessionInv => Session!TypeOK
    BY DEF SessionInv, Session!TypeOK, SessionFit, Under, Over, RecType, FileSound, FileType, DeadlineType,
           DictationType
  <1> QED
    BY <1>1, SessionInvInit, SessionInvNext, PTL DEF Session!Spec

(* The canceller never works without its reference (handleStreamFinished(),
   stop(), handleSystemAudioFailed()). *)
THEOREM ReferenceKept ==
    ASSUME SessionConstants
    PROVE  Session!Spec => []ReferenceOutlasts
  <1>1. SessionInv => ReferenceOutlasts
    BY DEF SessionInv, SessionFit, Under, Over, Referenced, ReferenceOutlasts, capturing, Session!capturing
  <1> QED
    BY <1>1, SessionInvInit, SessionInvNext, PTL DEF Session!Spec

(* A recording that is over has answered its start, ended once, and left
   nothing on (finish(), abandon()). *)
THEOREM EndsAreWhole ==
    ASSUME SessionConstants
    PROVE  Session!Spec => []EndsWhole
  <1>1. SessionInv => EndsWhole
    BY DEF SessionInv, SessionFit, Under, Over, EndsWhole, isRunning, Session!isRunning
  <1> QED
    BY <1>1, SessionInvInit, SessionInvNext, PTL DEF Session!Spec
=============================================================================
