------------------------ MODULE SpeechServicesProofs ------------------------
(***************************************************************************)
(* That every speech service keeps an attempt's audio in order, whole and  *)
(* once, and, unless an endpoint or a final may cross with the close of    *)
(* the input, keeps the promises SpeechTranscriber makes to the attempts.  *)
(*                                                                         *)
(* Each service has an invariant of its own, which its part below proves   *)
(* of its first state and of its steps; of the steps, that they are steps  *)
(* of the promise too.  The behaviours of SpeechServices are one service's *)
(* each, so that the whole follows from the parts.                         *)
(***************************************************************************)
EXTENDS SpeechServices, SequenceTheorems, FiniteSetTheorems, WellFoundedInduction, TLAPS

(* The attempt that a service is told of. *)
Phases == {"none", "open", "told", "completed", "failed"}
Attempts == [id : Nat, phase : Phases, sent : Nat, owed : SUBSET Nat, words : SUBSET Nat]
\* A sequence that counts.
UpTo(n) == [i \in 1..n |-> i]

\* The promise, of a step.
Promised == [ContractNext]_attempt

\* No service but the endpoint is handed more than the promise lets it be.
ChunksBounded == StreamChunks \in Nat /\ MaxChunks \in Nat /\ StreamChunks <= MaxChunks

\* What is in a sequence.
Items(s) == {s[i] : i \in DOMAIN s}

-----------------------------------------------------------------------------
LEMMA Counts ==
    ASSUME NEW n \in Nat
    PROVE  /\ UpTo(n) \in Seq(Nat) /\ Len(UpTo(n)) = n /\ Append(UpTo(n), n + 1) = UpTo(n + 1)
           /\ UpTo(0) = << >>
  <1>1. UpTo(n) \in Seq(Nat) /\ Len(UpTo(n)) = n /\ UpTo(n + 1) \in Seq(Nat) /\ Len(UpTo(n + 1)) = n + 1
    BY DEF UpTo
  <1>2. /\ Append(UpTo(n), n + 1) \in Seq(Nat) /\ Len(Append(UpTo(n), n + 1)) = n + 1
        /\ \A i \in 1..n : Append(UpTo(n), n + 1)[i] = UpTo(n)[i]
        /\ Append(UpTo(n), n + 1)[n + 1] = n + 1
    BY <1>1, AppendProperties
  <1>3. \A i \in 1..(n + 1) : Append(UpTo(n), n + 1)[i] = UpTo(n + 1)[i]
    BY <1>2 DEF UpTo
  <1>4. Append(UpTo(n), n + 1) = UpTo(n + 1)
    BY <1>1, <1>2, <1>3, SeqEqual
  <1>5. UpTo(0) = << >>
    BY DEF UpTo
  <1> QED  BY <1>1, <1>4, <1>5

LEMMA PartOf ==
    ASSUME NEW n \in Nat, NEW m \in Nat, NEW whole, n + m = whole
    PROVE  n <= whole /\ m <= whole /\ whole \in Nat
  OBVIOUS

LEMMA Wider ==
    ASSUME NEW n \in Nat, NEW m \in Nat, n <= m
    PROVE  1..n \subseteq 1..m /\ 0..n \subseteq 0..m
  OBVIOUS

LEMMA Joins ==
    ASSUME NEW s \in Seq(Nat), NEW t \in Seq(Nat), NEW e \in Nat
    PROVE  /\ s \o Append(t, e) = Append(s \o t, e) /\ s \o t \in Seq(Nat)
           /\ s \o << >> = s /\ s \o <<e>> = Append(s, e) /\ Len(s \o t) = Len(s) + Len(t)
           /\ Append(t, e) \in Seq(Nat) /\ Len(Append(t, e)) = Len(t) + 1
  <1>1. s \o t \in Seq(Nat) /\ Len(s \o t) = Len(s) + Len(t) /\ <<e>> \in Seq(Nat)
    BY ConcatProperties
  <1>2. Append(t, e) \in Seq(Nat) /\ Len(Append(t, e)) = Len(t) + 1 /\ Append(t, e) = t \o <<e>>
    BY AppendProperties, AppendIsConcat
  <1>3. s \o (t \o <<e>>) = (s \o t) \o <<e>>
    BY <1>1, ConcatAssociative
  <1>4. (s \o t) \o <<e>> = Append(s \o t, e) /\ s \o <<e>> = Append(s, e)
    BY <1>1, AppendIsConcat
  <1>5. s \o << >> = s
    BY ConcatEmptySeq
  <1> QED  BY <1>1, <1>2, <1>3, <1>4, <1>5

\* The next chunk joins what waits, or what went out while nothing waits.
LEMMA NextCounts ==
    ASSUME NEW n \in Nat, NEW next \in Nat, next = n + 1
    PROVE  Append(UpTo(n), next) = UpTo(next) /\ UpTo(next) \in Seq(Nat) /\ Len(UpTo(next)) = next
  <1>1. Append(UpTo(n), n + 1) = UpTo(n + 1)
    BY Counts
  <1>2. UpTo(next) \in Seq(Nat) /\ Len(UpTo(next)) = next
    BY Counts
  <1> QED  BY <1>1, <1>2

LEMMA NextWaits ==
    ASSUME NEW s \in Seq(Nat), NEW t \in Seq(Nat), NEW n \in Nat, NEW next \in Nat, next = n + 1,
           s \o t = UpTo(n)
    PROVE  Append(t, next) \in Seq(Nat) /\ s \o Append(t, next) = UpTo(next)
  <1>1. Append(t, next) \in Seq(Nat)
    BY AppendProperties
  <1>2. s \o Append(t, next) = Append(s \o t, next)
    BY Joins
  <1> QED  BY <1>1, <1>2, NextCounts

LEMMA NextGoes ==
    ASSUME NEW s \in Seq(Nat), NEW n \in Nat, NEW next \in Nat, next = n + 1, s = UpTo(n)
    PROVE  s \o <<next>> = UpTo(next)
  <1>1. s \o <<next>> = Append(s, next)
    BY Joins
  <1> QED  BY <1>1, NextCounts

-----------------------------------------------------------------------------
(* The promise that each kind of step keeps.                               *)

LEMMA Fails ==
    ASSUME attempt \in Attempts, Current, attempt' = Ended(attempt, "failed"),
           attempt.words \subseteq 1..attempt.sent
    PROVE  Promised /\ attempt' \in Attempts /\ ~Current'
  <1>1. attempt' = [attempt EXCEPT !.phase = "failed"] /\ attempt' = Ended(Accounted(attempt, attempt.words), "failed")
    BY DEF Ended, Accounted, Current, Attempts
  <1>2. Fail
    BY <1>1 DEF Fail
  <1> QED  BY <1>1, <1>2 DEF Promised, ContractNext, Attempts, Phases, Current

LEMMA Hears ==
    ASSUME attempt \in Attempts, NEW chunks \in SUBSET (1..attempt.sent), attempt.words \subseteq chunks,
           Current, attempt' = Accounted(attempt, chunks)
    PROVE  Promised /\ attempt' \in Attempts /\ attempt' = [attempt EXCEPT !.words = chunks]
  <1>1. Hear
    BY DEF Hear
  <1> QED  BY <1>1 DEF Promised, ContractNext, Attempts, Phases, Current, Accounted

LEMMA Completes ==
    ASSUME attempt \in Attempts, NEW chunks \in SUBSET (1..attempt.sent), attempt.words \subseteq chunks,
           Current, attempt.phase = "told" => attempt.owed \subseteq chunks,
           attempt' = Ended(Accounted(attempt, chunks), "completed")
    PROVE  Promised /\ attempt' \in Attempts /\ ~Current'
  <1>1. Complete
    BY DEF Complete
  <1>2. attempt' = [attempt EXCEPT !.words = chunks, !.phase = "completed"] /\ chunks \in SUBSET Nat
    BY DEF Attempts, Current, Accounted, Ended
  <1>3. attempt' \in Attempts /\ ~Current'
    BY <1>2 DEF Attempts, Phases, Current
  <1> QED  BY <1>1, <1>3 DEF Promised, ContractNext

LEMMA Starts ==
    ASSUME attempt \in Attempts, MayOpen, attempt' = Opened
    PROVE  /\ Promised /\ attempt' \in Attempts /\ Current' /\ attempt'.phase = "open"
           /\ attempt'.sent = 0 /\ attempt'.owed = {} /\ attempt'.words = {}
           /\ attempt'.id = attempt.id + 1
  <1>1. Start
    BY DEF Start
  <1> QED  BY <1>1 DEF Promised, ContractNext, Opened, Attempts, Phases, Current

LEMMA Hands ==
    ASSUME attempt \in Attempts, MaySend, NEW spoken \in BOOLEAN, attempt' = Handed(attempt, spoken)
    PROVE  /\ Promised /\ attempt' \in Attempts /\ Current /\ Current' /\ attempt'.phase = "open"
           /\ attempt'.sent = attempt.sent + 1 /\ attempt'.words = attempt.words
           /\ attempt'.owed = IF spoken THEN attempt.owed \cup {attempt.sent + 1} ELSE attempt.owed
           /\ attempt'.id = attempt.id /\ attempt.phase = "open"
  <1>1. Send
    BY DEF Send
  <1>2. attempt' = [attempt EXCEPT !.sent = attempt.sent + 1,
                                   !.owed = IF spoken THEN attempt.owed \cup {attempt.sent + 1}
                                            ELSE attempt.owed]
    BY DEF Handed, Attempts
  <1>3. attempt' \in Attempts
    <2>1. attempt.sent + 1 \in Nat /\ attempt.owed \cup {attempt.sent + 1} \in SUBSET Nat
          /\ attempt.owed \in SUBSET Nat
      BY DEF Attempts
    <2> QED  BY <1>2, <2>1 DEF Attempts
  <1> QED  BY <1>1, <1>2, <1>3 DEF Promised, ContractNext, MaySend, Attempts, Current

LEMMA HandsAndFails ==
    ASSUME attempt \in Attempts, MaySend, attempt' = [Handed(attempt, TRUE) EXCEPT !.phase = "failed"],
           attempt.words \subseteq 1..attempt.sent
    PROVE  Promised /\ attempt' \in Attempts /\ ~Current'
  <1>1. attempt' = Ended(Handed(attempt, TRUE), "failed") /\ Current /\ attempt.phase = "open"
    BY DEF Ended, MaySend, Current
  <1>2. Fail
    BY <1>1 DEF Fail
  <1>3. attempt' = [attempt EXCEPT !.sent = attempt.sent + 1, !.owed = attempt.owed \cup {attempt.sent + 1},
                                   !.phase = "failed"]
    BY DEF Handed, Attempts
  <1>4. attempt' \in Attempts /\ ~Current'
    <2>1. attempt.sent + 1 \in Nat /\ attempt.owed \cup {attempt.sent + 1} \in SUBSET Nat
      BY DEF Attempts
    <2> QED  BY <1>3, <2>1 DEF Attempts, Phases, Current
  <1> QED  BY <1>2, <1>4 DEF Promised, ContractNext

LEMMA Finishes ==
    ASSUME attempt \in Attempts, MayFinish, attempt' = Told, attempt.words \subseteq 1..attempt.sent
    PROVE  /\ Promised /\ attempt' \in Attempts /\ attempt' = [attempt EXCEPT !.phase = "told"]
           /\ Current /\ Current' /\ attempt'.phase = "told" /\ attempt.phase = "open"
  <1>1. attempt' = [attempt EXCEPT !.phase = "told"] /\ Current
    BY DEF Told, MayFinish, Current
  <1>2. attempt' = Accounted(Told, attempt.words) /\ attempt.words \in SUBSET (1..attempt.sent)
    BY <1>1 DEF Told, Accounted, Attempts
  <1>3. Finish
    BY <1>2 DEF Finish
  <1> QED  BY <1>1, <1>3 DEF Promised, ContractNext, Attempts, Phases, Current, MayFinish

LEMMA LetsGo ==
    ASSUME attempt \in Attempts, MayCancel, attempt' = LetGo
    PROVE  Promised /\ attempt' \in Attempts /\ ~Current' /\ attempt'.id = attempt.id
  <1>1. Cancel
    BY DEF Cancel
  <1> QED  BY <1>1 DEF Promised, ContractNext, LetGo, NoAttempt, Attempts, Phases, Current

LEMMA ItemsOf ==
    ASSUME NEW s \in Seq(Nat), NEW t \in Seq(Nat)
    PROVE  Items(s \o t) = Items(s) \cup Items(t) /\ Items(s) \subseteq Nat
  <1>1. /\ s \o t \in Seq(Nat) /\ Len(s \o t) = Len(s) + Len(t) /\ Len(s) \in Nat /\ Len(t) \in Nat
        /\ DOMAIN s = 1..Len(s) /\ DOMAIN t = 1..Len(t) /\ DOMAIN (s \o t) = 1..Len(s \o t)
        /\ \A i \in 1..(Len(s) + Len(t)) : (s \o t)[i] = IF i <= Len(s) THEN s[i] ELSE t[i - Len(s)]
    BY ConcatProperties
  <1>2. ASSUME NEW x \in Items(s \o t)
        PROVE  x \in Items(s) \cup Items(t)
    <2>1. PICK i \in DOMAIN (s \o t) : x = (s \o t)[i]
      BY DEF Items
    <2>2. CASE i <= Len(s)
      BY <1>1, <2>1, <2>2 DEF Items
    <2>3. CASE ~(i <= Len(s))
      <3>1. i - Len(s) \in DOMAIN t /\ x = t[i - Len(s)]
        BY <1>1, <2>1, <2>3
      <3> QED  BY <3>1 DEF Items
    <2> QED  BY <2>2, <2>3
  <1>3. ASSUME NEW x \in Items(s)
        PROVE  x \in Items(s \o t)
    <2>1. PICK i \in DOMAIN s : x = s[i]
      BY DEF Items
    <2>2. i \in DOMAIN (s \o t) /\ (s \o t)[i] = x
      BY <1>1, <2>1
    <2> QED  BY <2>2 DEF Items
  <1>4. ASSUME NEW x \in Items(t)
        PROVE  x \in Items(s \o t)
    <2>1. PICK i \in DOMAIN t : x = t[i]
      BY DEF Items
    <2>2. i + Len(s) \in 1..(Len(s) + Len(t)) /\ ~(i + Len(s) <= Len(s)) /\ (i + Len(s)) - Len(s) = i
      BY <1>1
    <2>3. i + Len(s) \in DOMAIN (s \o t) /\ (s \o t)[i + Len(s)] = x
      BY <1>1, <2>1, <2>2
    <2> QED  BY <2>3 DEF Items
  <1>5. Items(s) \subseteq Nat
    BY <1>1 DEF Items
  <1> QED  BY <1>2, <1>3, <1>4, <1>5

LEMMA ItemsOfOne ==
    ASSUME NEW e \in Nat
    PROVE  <<e>> \in Seq(Nat) /\ Items(<<e>>) = {e} /\ Items(<< >>) = {} /\ << >> \in Seq(Nat)
  BY DEF Items

LEMMA ItemsOfMore ==
    ASSUME NEW s \in Seq(Nat), NEW e \in Nat
    PROVE  Items(Append(s, e)) = Items(s) \cup {e} /\ Append(s, e) \in Seq(Nat)
  <1>1. Append(s, e) = s \o <<e>>
    BY AppendIsConcat
  <1> QED  BY <1>1, ItemsOf, ItemsOfOne, AppendProperties

LEMMA ItemsAreFinite ==
    ASSUME NEW s \in Seq(Nat)
    PROVE  IsFiniteSet(Items(s))
  <1>1. s \in Surjection(1..Len(s), Items(s)) /\ IsFiniteSet(1..Len(s))
    <2>1. s \in [1..Len(s) -> Items(s)] /\ \A x \in Items(s) : \E i \in 1..Len(s) : s[i] = x
      BY DEF Items
    <2>2. IsFiniteSet(1..Len(s))
      BY FS_Interval
    <2> QED  BY <2>1, <2>2 DEF Surjection
  <1> QED  BY <1>1, FS_Surjection

-----------------------------------------------------------------------------
(* ClaudeTranscriber.                                                      *)

ClaudeClients == [connected : BOOLEAN, finish : BOOLEAN, finalizing : BOOLEAN, completed : BOOLEAN,
                  cancelled : BOOLEAN, failed : BOOLEAN, pending : Seq(Nat), interim : Nat]
ClaudeEvents == [type : {"error"}] \cup [type : {"interim", "endpoint"}, upTo : Nat]
ClaudeServers == [got : Seq(Nat), closing : BOOLEAN, late : BOOLEAN, events : Seq(ClaudeEvents)]
ClaudeTypes ==
    /\ attempt \in Attempts /\ client \in ClaudeClients /\ server \in ClaudeServers
    /\ socket \in {"connecting", "open", "broken", "closing", "closed"}
    /\ timers \subseteq {"connect", "ready", "final"}

ClaudeHolds ==
    /\ server.late = FALSE
    /\ client.connected = TRUE => client.pending = << >>
    /\ socket = "connecting" => Current /\ client.connected = FALSE
    /\ Current =>
         /\ client.cancelled = FALSE /\ client.failed = FALSE /\ client.completed = FALSE
         /\ socket \in {"connecting", "open", "broken"}
         /\ (client.finish = TRUE) = (attempt.phase = "told")
         /\ client.finalizing = server.closing
         /\ server.closing = TRUE => client.connected = TRUE /\ client.finish = TRUE
         /\ server.got \o client.pending = UpTo(attempt.sent)

ClaudeHears ==
    Current =>
      /\ attempt.owed \subseteq 1..attempt.sent /\ attempt.words \subseteq 1..Len(server.got)
      /\ client.interim \in 0..Len(server.got)
      /\ \A i \in DOMAIN server.events :
           LET event == server.events[i] IN
           /\ event.type = "interim" => event.upTo \in 0..Len(server.got)
           /\ event.type = "endpoint" =>
                /\ server.closing = TRUE
                /\ \/ event.upTo = Len(server.got)
                   \/ /\ event.upTo = 0
                      /\ \/ i = 1 /\ client.interim = Len(server.got)
                         \/ /\ i > 1 /\ server.events[i - 1].type = "interim"
                            /\ server.events[i - 1].upTo = Len(server.got)

ClaudeKeeps ==
    /\ ClaudeTypes /\ ClaudeHolds
    /\ "claude" \notin Crossing => ClaudeHears

ClaudeStep == ClaudeKeeps' /\ ("claude" \notin Crossing => Promised)

(* The calls and the signals are the same whichever service they are of. *)
LEMMA ClaudeSame ==
    ASSUME ChunksBounded
    PROVE  /\ Claude!Current = Current /\ Claude!Opened = Opened /\ Claude!Told = Told /\ Claude!LetGo = LetGo
           /\ \A a, end : Claude!Ended(a, end) = Ended(a, end)
           /\ \A a, chunks : Claude!Accounted(a, chunks) = Accounted(a, chunks)
           /\ \A a, spoken : Claude!Handed(a, spoken) = Handed(a, spoken)
           /\ Claude!MayOpen = MayOpen /\ Claude!MayFinish = MayFinish /\ Claude!MayCancel = MayCancel
           /\ attempt \in Attempts /\ Claude!MaySend => MaySend
  BY DEF ChunksBounded, Claude!Current, Claude!Opened, Claude!Told, Claude!LetGo, Claude!Ended,
    Claude!Accounted,
         Claude!Handed, Claude!MayOpen, Claude!MayFinish, Claude!MayCancel, Claude!MaySend, Claude!NoAttempt,
         Current, Opened, Told, LetGo, Ended, Accounted, Handed, MayOpen, MayFinish, MayCancel, MaySend,
         NoAttempt, Attempts

\* An attempt that is over asks little of what is left of its client.
LEMMA ClaudeOver ==
    ASSUME ClaudeTypes', ~Current', socket' # "connecting", server'.late = FALSE,
           client'.connected = TRUE => client'.pending = << >>
    PROVE  ClaudeKeeps'
  BY DEF ClaudeKeeps, ClaudeHolds, ClaudeHears

LEMMA ClaudeWords ==
    ASSUME ClaudeKeeps, Current
    PROVE  /\ Len(server.got) + Len(client.pending) = attempt.sent
           /\ Len(server.got) \in Nat /\ Len(client.pending) \in Nat /\ attempt.sent \in Nat
           /\ "claude" \notin Crossing => attempt.words \subseteq 1..attempt.sent
  <1>1. server.got \in Seq(Nat) /\ client.pending \in Seq(Nat) /\ attempt.sent \in Nat
    BY DEF ClaudeKeeps, ClaudeTypes, ClaudeServers, ClaudeClients, Attempts
  <1>2. Len(server.got) + Len(client.pending) = attempt.sent
    <2>1. Len(server.got \o client.pending) = attempt.sent
      BY <1>1, Counts DEF ClaudeKeeps, ClaudeHolds
    <2> QED  BY <1>1, <2>1, ConcatProperties
  <1>3. Len(server.got) \in Nat /\ Len(client.pending) \in Nat
    BY <1>1
  <1>4. 1..Len(server.got) \subseteq 1..attempt.sent
    <2>1. Len(server.got) <= attempt.sent
      BY <1>2, <1>3, PartOf
    <2> QED  BY <1>1, <1>3, <2>1, Wider
  <1>5. "claude" \notin Crossing => attempt.words \subseteq 1..Len(server.got)
    BY DEF ClaudeKeeps, ClaudeHears
  <1> QED  BY <1>1, <1>2, <1>3, <1>4, <1>5

LEMMA ClaudeFails ==
    ASSUME ChunksBounded, ClaudeKeeps, NEW c \in ClaudeClients, Claude!fail(c, attempt),
           c.connected = TRUE => c.pending = << >>,
           Current => c.cancelled = FALSE /\ c.failed = FALSE /\ c.completed = FALSE
    PROVE  /\ client' \in ClaudeClients /\ (client'.connected = TRUE => client'.pending = << >>)
           /\ ~Current' /\ attempt' \in Attempts /\ ("claude" \notin Crossing => Promised)
  <1>1. client' \in ClaudeClients /\ (client'.connected = TRUE => client'.pending = << >>)
    <2>1. << >> \in Seq(Nat)
      OBVIOUS
    <2> QED  BY <2>1 DEF Claude!fail, ClaudeClients
  <1>2. attempt \in Attempts
    BY DEF ClaudeKeeps, ClaudeTypes
  <1>3. CASE Current
    <2>1. attempt' = Ended(attempt, "failed")
      BY <1>3, ClaudeSame DEF Claude!fail
    <2>2. attempt' \in Attempts /\ ~Current'
      BY <1>2, <1>3, <2>1 DEF Ended, Attempts, Phases, Current
    <2> QED  BY <1>1, <1>2, <1>3, <2>1, <2>2, Fails, ClaudeWords
  <1>4. CASE ~Current
    <2>1. attempt' = attempt
      BY <1>4, ClaudeSame DEF Claude!fail, Ended
    <2> QED  BY <1>1, <1>2, <1>4, <2>1 DEF Current, Promised
  <1> QED  BY <1>3, <1>4

LEMMA ClaudeStarts ==
    ASSUME ChunksBounded, ClaudeKeeps, Claude!startAttempt
    PROVE  ClaudeStep
  <1>1. /\ MayOpen /\ attempt' = Opened /\ attempt \in Attempts
        /\ client' = Claude!NewClient /\ socket' = "connecting" /\ timers' = {"connect"}
        /\ server' = Claude!NewServer
    BY ClaudeSame DEF Claude!startAttempt, ClaudeKeeps, ClaudeTypes
  <1>2. /\ Promised /\ attempt' \in Attempts /\ Current' /\ attempt'.phase = "open"
        /\ attempt'.sent = 0 /\ attempt'.owed = {} /\ attempt'.words = {}
    BY <1>1, Starts
  <1>3. client' \in ClaudeClients /\ server' \in ClaudeServers
    BY <1>1 DEF Claude!NewClient, Claude!NewServer, ClaudeClients, ClaudeServers
  <1>4. /\ server'.late = FALSE /\ server'.closing = FALSE /\ server'.got = << >> /\ server'.events = << >>
        /\ client'.pending = << >> /\ client'.connected = FALSE /\ client'.finish = FALSE
        /\ client'.finalizing = FALSE /\ client'.cancelled = FALSE /\ client'.failed = FALSE
        /\ client'.completed = FALSE /\ client'.interim = 0
    BY <1>1 DEF Claude!NewClient, Claude!NewServer
  <1>5. server'.got \o client'.pending = UpTo(attempt'.sent)
    BY <1>2, <1>4, Counts
  <1>6. ClaudeTypes' /\ ClaudeHolds'
    BY <1>1, <1>2, <1>3, <1>4, <1>5 DEF ClaudeTypes, ClaudeHolds
  <1>7. ClaudeHears'
    BY <1>2, <1>4 DEF ClaudeHears
  <1> QED  BY <1>2, <1>6, <1>7 DEF ClaudeStep, ClaudeKeeps

\* What joins what waits, or what the service got, is the next chunk.
LEMMA ClaudeSends ==
    ASSUME ChunksBounded, ClaudeKeeps, Claude!sendAudio
    PROVE  ClaudeStep
  <1> DEFINE a == Handed(attempt, TRUE)
  <1>1. /\ MaySend /\ attempt \in Attempts /\ client \in ClaudeClients /\ server \in ClaudeServers
    BY ClaudeSame DEF Claude!sendAudio, ClaudeKeeps, ClaudeTypes
  <1>2. Current /\ attempt.phase = "open"
    BY <1>1 DEF MaySend, Current
  <1>3. /\ client.cancelled = FALSE /\ client.failed = FALSE /\ client.completed = FALSE
        /\ client.finish = FALSE /\ server.closing = FALSE
        /\ socket \in {"connecting", "open", "broken"}
    BY <1>1, <1>2 DEF ClaudeKeeps, ClaudeHolds, ClaudeClients, ClaudeServers
  <1>0. PICK next \in Nat : next = attempt.sent + 1
    BY <1>1 DEF Attempts
  <1>4. a.sent = next
    BY <1>0, <1>1 DEF Handed, Attempts
  <1>5. IF client.connected
        THEN /\ server' = Claude!takes(server, <<a.sent>>) /\ attempt' = a
             /\ UNCHANGED <<client, socket, timers>>
        ELSE Claude!queueAudio(a) /\ UNCHANGED server
    BY <1>3, ClaudeSame DEF Claude!sendAudio
  <1>6. /\ server.got \in Seq(Nat) /\ client.pending \in Seq(Nat) /\ attempt.sent \in Nat
        /\ server.got \o client.pending = UpTo(attempt.sent)
    BY <1>1, <1>2 DEF ClaudeKeeps, ClaudeHolds, ClaudeClients, ClaudeServers, Attempts
  <1>7. CASE client.connected = TRUE
    <2>1. /\ server' = Claude!takes(server, <<next>>) /\ attempt' = a
          /\ UNCHANGED <<client, socket, timers>>
      BY <1>4, <1>5, <1>7
    <2>2. client.pending = << >> /\ server.got = UpTo(attempt.sent)
      <3>1. client.pending = << >>
        BY <1>7 DEF ClaudeKeeps, ClaudeHolds
      <3> QED  BY <1>6, <3>1, ConcatEmptySeq
    <2>3. server.got \o <<next>> = UpTo(next)
      BY <1>0, <1>6, <2>2, NextGoes, Zenon
    <2>4. server' = [server EXCEPT !.got = UpTo(next)]
      BY <1>1, <1>3, <2>1, <2>3 DEF Claude!takes, ClaudeServers, ClaudeKeeps, ClaudeHolds
    <2>5. UpTo(next) \in Seq(Nat) /\ Len(UpTo(next)) = next
      BY Counts
    <2>6. /\ server' \in ClaudeServers /\ server'.got = UpTo(next)
          /\ server'.closing = FALSE /\ server'.late = FALSE /\ server'.events = server.events
      BY <1>1, <1>3, <2>4, <2>5 DEF ClaudeServers, ClaudeKeeps, ClaudeHolds
    <2>7. /\ Promised /\ attempt' \in Attempts /\ Current' /\ attempt'.phase = "open"
          /\ attempt'.sent = next /\ attempt'.words = attempt.words
          /\ attempt'.owed = attempt.owed \cup {next}
      BY <1>0, <1>1, <2>1, Hands
    <2>8. server'.got \o client'.pending = UpTo(attempt'.sent)
      BY <2>1, <2>2, <2>5, <2>6, <2>7, ConcatEmptySeq
    <2>9. ClaudeTypes' /\ ClaudeHolds'
      BY <1>2, <1>3, <2>1, <2>2, <2>6, <2>7, <2>8 DEF ClaudeKeeps, ClaudeTypes, ClaudeHolds
    <2>10. ASSUME ClaudeHears
           PROVE  ClaudeHears'
      <3>1. Len(server'.got) = next /\ Len(server.got) = attempt.sent
        BY <1>6, <2>2, <2>5, <2>6, Counts
      <3>2. /\ attempt'.owed \subseteq 1..attempt'.sent /\ attempt'.words \subseteq 1..Len(server'.got)
            /\ client'.interim \in 0..Len(server'.got)
        <4>1. 1..attempt.sent \subseteq 1..(next) /\ 0..attempt.sent \subseteq 0..(next)
          BY <1>0, <1>6
        <4>2. next \in 1..(next)
          BY <1>0, <1>6
        <4>3. attempt'.owed \subseteq 1..attempt'.sent
          BY <1>2, <2>7, <2>10, <4>1, <4>2 DEF ClaudeHears
        <4>4. attempt'.words \subseteq 1..Len(server'.got) /\ client'.interim \in 0..Len(server'.got)
          BY <1>2, <2>1, <2>7, <2>10, <3>1, <4>1 DEF ClaudeHears
        <4> QED  BY <4>3, <4>4
      <3>3. \A i \in DOMAIN server'.events :
               /\ server'.events[i].type = "interim" => server'.events[i].upTo \in 0..Len(server'.got)
               /\ server'.events[i].type # "endpoint"
        <4>1. 0..attempt.sent \subseteq 0..next
          BY <1>0, <1>6
        <4>2. ASSUME NEW i \in DOMAIN server.events
              PROVE  /\ server.events[i].type = "interim" => server.events[i].upTo \in 0..attempt.sent
                     /\ server.events[i].type # "endpoint"
          BY <1>2, <1>3, <2>10, <3>1 DEF ClaudeHears
        <4> QED  BY <2>6, <3>1, <4>1, <4>2
      <3> QED  BY <3>2, <3>3 DEF ClaudeHears
    <2> QED  BY <2>7, <2>9, <2>10 DEF ClaudeStep, ClaudeKeeps
  <1>8. CASE client.connected = FALSE
    <2>1. Claude!queueAudio(a) /\ server' = server
      BY <1>5, <1>8
    <2>2. CASE Len(client.pending) + 1 > MostPending
      <3>1. Claude!fail(client, a) /\ socket' = "closed" /\ timers' = timers \ {"connect"}
        BY <2>1, <2>2 DEF Claude!queueAudio
      <3>2. client' = [client EXCEPT !.failed = TRUE, !.pending = << >>] /\ attempt' = Ended(a, "failed")
        BY <1>3, <3>1, ClaudeSame DEF Claude!fail
      <3>3. attempt' = [a EXCEPT !.phase = "failed"]
        BY <1>2, <3>2 DEF Ended
      <3>4. attempt' = [attempt EXCEPT !.sent = next, !.owed = attempt.owed \cup {next},
                                       !.phase = "failed"]
        BY <1>0, <1>1, <3>3 DEF Handed, Attempts
      <3>5. attempt' \in Attempts /\ ~Current'
        <4>1. attempt.owed \cup {next} \in SUBSET Nat
          BY <1>1 DEF Attempts
        <4> QED  BY <1>1, <1>6, <3>4, <4>1 DEF Attempts, Phases, Current
      <3>6. client' \in ClaudeClients /\ client'.pending = << >>
        <4>1. << >> \in Seq(Nat)
          OBVIOUS
        <4> QED  BY <1>1, <3>2, <4>1 DEF ClaudeClients
      <3>7. ClaudeTypes'
        BY <1>1, <2>1, <3>1, <3>5, <3>6 DEF ClaudeTypes, ClaudeKeeps
      <3>8. ClaudeKeeps'
        BY <2>1, <3>1, <3>5, <3>6, <3>7, ClaudeOver DEF ClaudeKeeps, ClaudeHolds
      <3> QED  BY <1>1, <1>2, <3>3, <3>8, HandsAndFails, ClaudeWords DEF ClaudeStep
    <2>3. CASE ~(Len(client.pending) + 1 > MostPending)
      <3>1. /\ client' = [client EXCEPT !.pending = Append(client.pending, next)]
            /\ attempt' = a /\ UNCHANGED <<socket, timers>>
        BY <1>4, <2>1, <2>3 DEF Claude!queueAudio
      <3>2. /\ Append(client.pending, next) \in Seq(Nat)
            /\ server.got \o Append(client.pending, next) = UpTo(next)
        BY <1>0, <1>6, NextWaits, Zenon
      <3>3. /\ client' \in ClaudeClients /\ client'.pending = Append(client.pending, next)
            /\ client'.connected = FALSE /\ client'.cancelled = FALSE /\ client'.failed = FALSE
            /\ client'.completed = FALSE /\ client'.finish = FALSE
            /\ client'.finalizing = client.finalizing /\ client'.interim = client.interim
        BY <1>1, <1>3, <1>8, <3>1, <3>2 DEF ClaudeClients
      <3>4. /\ Promised /\ attempt' \in Attempts /\ Current' /\ attempt'.phase = "open"
            /\ attempt'.sent = next /\ attempt'.words = attempt.words
            /\ attempt'.owed = attempt.owed \cup {next}
        BY <1>0, <1>1, <3>1, Hands
      <3>5. ClaudeTypes' /\ ClaudeHolds'
        BY <1>2, <1>3, <2>1, <3>1, <3>2, <3>3, <3>4 DEF ClaudeKeeps, ClaudeTypes, ClaudeHolds
      <3>6. ASSUME ClaudeHears
            PROVE  ClaudeHears'
        BY <1>0, <1>2, <1>6, <2>1, <3>3, <3>4, <3>6 DEF ClaudeHears
      <3> QED  BY <3>4, <3>5, <3>6 DEF ClaudeStep, ClaudeKeeps
    <2> QED  BY <2>2, <2>3
  <1> QED  BY <1>1, <1>7, <1>8 DEF ClaudeClients

\* An attempt goes on beside a client that has not ended either.
LEMMA ClaudeGoesOn ==
    ASSUME ClaudeKeeps, Current
    PROVE  /\ attempt \in Attempts /\ client \in ClaudeClients /\ server \in ClaudeServers
           /\ client.cancelled = FALSE /\ client.failed = FALSE /\ client.completed = FALSE
           /\ socket \in {"connecting", "open", "broken"} /\ client.finalizing = server.closing
           /\ (client.finish = TRUE) = (attempt.phase = "told")
           /\ server.closing = TRUE => client.connected = TRUE /\ client.finish = TRUE
           /\ server.late = FALSE /\ server.got \in Seq(Nat) /\ client.pending \in Seq(Nat)
           /\ attempt.sent \in Nat /\ server.got \o client.pending = UpTo(attempt.sent)
           /\ server.closing \in BOOLEAN /\ client.connected \in BOOLEAN /\ client.finish \in BOOLEAN
  BY DEF ClaudeKeeps, ClaudeTypes, ClaudeHolds, ClaudeClients, ClaudeServers, Attempts

LEMMA ClaudeFinishes ==
    ASSUME ChunksBounded, ClaudeKeeps, Claude!finishInput
    PROVE  ClaudeStep
  <1> DEFINE c == [client EXCEPT !.finish = TRUE]
  <1>1. MayFinish /\ attempt \in Attempts /\ Current /\ attempt.phase = "open" /\ socket' = socket
    BY ClaudeSame DEF Claude!finishInput, ClaudeKeeps, ClaudeTypes, MayFinish, Current
  <1>2. /\ client \in ClaudeClients /\ server \in ClaudeServers /\ timers \subseteq {"connect", "ready", "final"}
        /\ client.cancelled = FALSE /\ client.failed = FALSE /\ client.completed = FALSE
        /\ client.finish = FALSE /\ server.closing = FALSE /\ client.finalizing = FALSE
        /\ socket \in {"connecting", "open", "broken"} /\ server.late = FALSE
    BY <1>1, ClaudeGoesOn DEF ClaudeKeeps, ClaudeTypes
  <1>3. /\ server.got \in Seq(Nat) /\ client.pending \in Seq(Nat) /\ attempt.sent \in Nat
        /\ server.got \o client.pending = UpTo(attempt.sent)
    BY <1>1, ClaudeGoesOn
  <1>4. /\ c \in ClaudeClients /\ c.connected = client.connected /\ c.finalizing = FALSE /\ c.completed = FALSE
        /\ c.failed = FALSE /\ c.cancelled = FALSE /\ c.pending = client.pending /\ c.finish = TRUE
        /\ c.interim = client.interim
    BY <1>2 DEF ClaudeClients
  <1>5. attempt' = Told
    BY <1>2, <1>4, ClaudeSame DEF Claude!finishInput, Claude!fail
  <1>6. attempt.words \subseteq 1..attempt.sent \/ "claude" \in Crossing
    BY <1>1, ClaudeWords
  <1>7. /\ attempt' \in Attempts /\ attempt' = [attempt EXCEPT !.phase = "told"] /\ Current'
        /\ "claude" \notin Crossing => Promised
    <2>1. attempt' = [attempt EXCEPT !.phase = "told"]
      BY <1>5 DEF Told
    <2>2. attempt' \in Attempts /\ Current'
      BY <1>1, <2>1 DEF Attempts, Phases, Current
    <2> QED  BY <1>1, <1>5, <1>6, <2>1, <2>2, Finishes
  <1>8. /\ attempt'.phase = "told" /\ attempt'.sent = attempt.sent
        /\ attempt'.owed = attempt.owed /\ attempt'.words = attempt.words
    BY <1>1, <1>7 DEF Attempts
  <1>9. CASE client.connected = TRUE
    <2>1. Claude!requestFinalization(c, server)
      BY <1>9 DEF Claude!finishInput
    <2>2. client.pending = << >>
      BY <1>9 DEF ClaudeKeeps, ClaudeHolds
    <2>3. /\ client' = [c EXCEPT !.pending = << >>, !.finalizing = TRUE]
          /\ server' = [Claude!takes(server, << >>) EXCEPT !.closing = TRUE]
          /\ timers' = (timers \ {"connect"}) \cup {"final"}
      BY <1>4, <1>9, <2>1, <2>2 DEF Claude!requestFinalization
    <2>4. server.got \o << >> = server.got
      BY <1>3, ConcatEmptySeq, Zenon
    <2>5. server' = [server EXCEPT !.closing = TRUE]
      BY <1>2, <2>3, <2>4 DEF Claude!takes, ClaudeServers
    <2>6. /\ server' \in ClaudeServers /\ server'.got = server.got /\ server'.closing = TRUE
          /\ server'.late = FALSE /\ server'.events = server.events
      BY <1>2, <2>5 DEF ClaudeServers
    <2>7. /\ client' \in ClaudeClients /\ client'.pending = client.pending /\ client'.finalizing = TRUE
          /\ client'.connected = TRUE /\ client'.finish = TRUE /\ client'.completed = FALSE
          /\ client'.failed = FALSE /\ client'.cancelled = FALSE /\ client'.interim = client.interim
      <3>1. << >> \in Seq(Nat)
        OBVIOUS
      <3> QED  BY <1>4, <1>9, <2>2, <2>3, <3>1 DEF ClaudeClients
    <2>8. ClaudeTypes' /\ ClaudeHolds'
      BY <1>1, <1>2, <1>3, <1>7, <1>8, <2>2, <2>3, <2>6, <2>7 DEF ClaudeTypes, ClaudeHolds, ClaudeKeeps
    <2>9. ASSUME ClaudeHears
          PROVE  ClaudeHears'
      BY <1>1, <1>2, <1>8, <2>6, <2>7, <2>9 DEF ClaudeHears
    <2> QED  BY <1>7, <2>8, <2>9 DEF ClaudeStep, ClaudeKeeps
  <1>10. CASE client.connected = FALSE
    <2>1. client' = c /\ timers' = timers \cup {"ready"} /\ server' = server
      BY <1>2, <1>10 DEF Claude!finishInput
    <2>2. ClaudeTypes' /\ ClaudeHolds'
      BY <1>1, <1>2, <1>3, <1>4, <1>7, <1>8, <1>10, <2>1 DEF ClaudeTypes, ClaudeHolds, ClaudeKeeps
    <2>3. ASSUME ClaudeHears
          PROVE  ClaudeHears'
      BY <1>1, <1>2, <1>4, <1>8, <2>1, <2>3 DEF ClaudeHears
    <2> QED  BY <1>7, <2>2, <2>3 DEF ClaudeStep, ClaudeKeeps
  <1> QED  BY <1>2, <1>9, <1>10 DEF ClaudeClients

LEMMA ClaudeLetsGo ==
    ASSUME ChunksBounded, ClaudeKeeps, Claude!cancelAttempt
    PROVE  ClaudeStep
  <1>1. /\ MayCancel /\ attempt' = LetGo /\ attempt \in Attempts /\ client \in ClaudeClients
        /\ client' = [Claude!gone(client) EXCEPT !.cancelled = TRUE, !.finish = FALSE]
        /\ socket' = "closed" /\ timers' = timers \ {"connect"} /\ server' = server
    BY ClaudeSame DEF Claude!cancelAttempt, ClaudeKeeps, ClaudeTypes
  <1>2. client' \in ClaudeClients /\ client'.connected = FALSE
    <2>1. << >> \in Seq(Nat)
      OBVIOUS
    <2> QED  BY <1>1, <2>1 DEF Claude!gone, ClaudeClients
  <1>3. Promised /\ attempt' \in Attempts /\ ~Current'
    BY <1>1, LetsGo
  <1>4. ClaudeTypes'
    BY <1>1, <1>2, <1>3 DEF ClaudeKeeps, ClaudeTypes
  <1>5. server'.late = FALSE
    BY <1>1 DEF ClaudeKeeps, ClaudeHolds
  <1> QED  BY <1>1, <1>2, <1>3, <1>4, <1>5, ClaudeOver DEF ClaudeStep

\* All that waits goes to the service, and the close behind it.
LEMMA ClaudeConnects ==
    ASSUME ChunksBounded, ClaudeKeeps, Claude!Connected
    PROVE  ClaudeStep
  <1> DEFINE c == [client EXCEPT !.connected = TRUE, !.pending = << >>]
             t == Claude!takes(server, client.pending)
  <1>1. /\ socket = "connecting" /\ socket' = "open" /\ attempt' = attempt
        /\ IF client.finish THEN Claude!requestFinalization(c, t)
           ELSE client' = c /\ server' = t /\ timers' = timers \ {"connect"}
    BY DEF Claude!Connected
  <1>2. Current /\ client.connected = FALSE
    BY <1>1 DEF ClaudeKeeps, ClaudeHolds
  <1>3. /\ client \in ClaudeClients /\ server \in ClaudeServers /\ timers \subseteq {"connect", "ready", "final"}
        /\ client.cancelled = FALSE /\ client.failed = FALSE /\ client.completed = FALSE
        /\ server.closing = FALSE /\ client.finalizing = FALSE /\ server.late = FALSE
    BY <1>2, ClaudeGoesOn DEF ClaudeKeeps, ClaudeTypes
  <1>4. /\ server.got \in Seq(Nat) /\ client.pending \in Seq(Nat) /\ attempt.sent \in Nat
        /\ server.got \o client.pending = UpTo(attempt.sent)
        /\ (client.finish = TRUE) = (attempt.phase = "told") /\ client.finish \in BOOLEAN
    BY <1>2, ClaudeGoesOn
  <1>5. << >> \in Seq(Nat) /\ UpTo(attempt.sent) \in Seq(Nat) /\ Len(UpTo(attempt.sent)) = attempt.sent
        /\ UpTo(attempt.sent) \o << >> = UpTo(attempt.sent)
    BY <1>4, Counts, ConcatEmptySeq
  <1>6. /\ c \in ClaudeClients /\ c.connected = TRUE /\ c.pending = << >> /\ c.finish = client.finish
        /\ c.cancelled = FALSE /\ c.failed = FALSE /\ c.completed = FALSE /\ c.finalizing = FALSE
        /\ c.interim = client.interim
    BY <1>3, <1>5 DEF ClaudeClients
  <1>7. t = [server EXCEPT !.got = UpTo(attempt.sent)]
    BY <1>3, <1>4 DEF Claude!takes, ClaudeServers
  <1>8. /\ t \in ClaudeServers /\ t.got = UpTo(attempt.sent) /\ t.closing = FALSE /\ t.late = FALSE
        /\ t.events = server.events
    BY <1>3, <1>5, <1>7 DEF ClaudeServers
  <1> HIDE DEF c, t
  <1>9. /\ client' \in ClaudeClients /\ client'.connected = TRUE /\ client'.pending = << >>
        /\ client'.finish = client.finish /\ client'.cancelled = FALSE /\ client'.failed = FALSE
        /\ client'.completed = FALSE /\ client'.interim = client.interim
        /\ client'.finalizing = server'.closing /\ server' \in ClaudeServers
        /\ server'.got = UpTo(attempt.sent) /\ server'.late = FALSE /\ server'.events = server.events
        /\ (server'.closing = TRUE) = (client.finish = TRUE)
        /\ timers' \subseteq {"connect", "ready", "final"}
    <2>1. CASE client.finish = TRUE
      <3>1. /\ client' = [c EXCEPT !.pending = << >>, !.finalizing = TRUE]
            /\ server' = [Claude!takes(t, << >>) EXCEPT !.closing = TRUE]
            /\ timers' = (timers \ {"connect"}) \cup {"final"}
        BY <1>1, <1>6, <2>1 DEF Claude!requestFinalization
      <3>2. server' = [t EXCEPT !.closing = TRUE]
        BY <1>5, <1>8, <3>1 DEF Claude!takes, ClaudeServers
      <3>3. /\ server' \in ClaudeServers /\ server'.got = UpTo(attempt.sent) /\ server'.closing = TRUE
            /\ server'.late = FALSE /\ server'.events = server.events
        BY <1>8, <3>2 DEF ClaudeServers
      <3>4. /\ client' \in ClaudeClients /\ client'.connected = TRUE /\ client'.pending = << >>
            /\ client'.finish = client.finish /\ client'.cancelled = FALSE /\ client'.failed = FALSE
            /\ client'.completed = FALSE /\ client'.interim = client.interim /\ client'.finalizing = TRUE
        BY <1>5, <1>6, <3>1 DEF ClaudeClients
      <3> QED  BY <1>3, <2>1, <3>1, <3>3, <3>4
    <2>2. CASE client.finish = FALSE
      <3>1. client' = c /\ server' = t /\ timers' = timers \ {"connect"}
        BY <1>1, <2>2
      <3> QED  BY <1>3, <1>6, <1>8, <2>2, <3>1
    <2> QED  BY <1>4, <2>1, <2>2
  <1>10. ClaudeTypes' /\ ClaudeHolds'
    <2>1. ClaudeTypes'
      BY <1>1, <1>9 DEF ClaudeTypes, ClaudeKeeps
    <2>2. server'.got \o client'.pending = UpTo(attempt'.sent)
      BY <1>1, <1>5, <1>9
    <2> QED  BY <1>1, <1>2, <1>4, <1>9, <2>1, <2>2 DEF ClaudeHolds, Current
  <1>11. ASSUME ClaudeHears
         PROVE  ClaudeHears'
    <2>1. Len(server'.got) = attempt.sent
      BY <1>5, <1>9
    <2>2. Len(server.got) \in Nat /\ Len(server.got) <= attempt.sent
      BY <1>2, ClaudeWords, PartOf
    <2>3. 0..Len(server.got) \subseteq 0..Len(server'.got) /\ 1..Len(server.got) \subseteq 1..Len(server'.got)
      BY <1>4, <2>1, <2>2, Wider
    <2>4. ASSUME NEW i \in DOMAIN server.events
          PROVE  /\ server.events[i].type = "interim" => server.events[i].upTo \in 0..Len(server.got)
                 /\ server.events[i].type # "endpoint"
      BY <1>2, <1>3, <1>11 DEF ClaudeHears
    <2>5. /\ attempt.owed \subseteq 1..attempt.sent /\ attempt.words \subseteq 1..Len(server.got)
          /\ client.interim \in 0..Len(server.got)
      BY <1>2, <1>11 DEF ClaudeHears
    <2> QED  BY <1>1, <1>9, <2>3, <2>4, <2>5 DEF ClaudeHears
  <1> QED  BY <1>1, <1>10, <1>11 DEF ClaudeStep, ClaudeKeeps, Promised

\* What gone() leaves.
LEMMA ClaudeGone ==
    ASSUME client \in ClaudeClients
    PROVE  /\ Claude!gone(client) \in ClaudeClients /\ Claude!gone(client).connected = FALSE
           /\ Claude!gone(client).cancelled = client.cancelled /\ Claude!gone(client).failed = client.failed
           /\ Claude!gone(client).completed = client.completed
  <1>1. << >> \in Seq(Nat)
    OBVIOUS
  <1> QED  BY <1>1 DEF Claude!gone, ClaudeClients

\* A failure of the socket or of a timer, with a client left as c.
LEMMA ClaudeBreaks ==
    ASSUME ChunksBounded, ClaudeKeeps, NEW c \in ClaudeClients, Claude!fail(c, attempt),
           c.connected = TRUE => c.pending = << >>,
           c.cancelled = client.cancelled, c.failed = client.failed, c.completed = client.completed,
           socket' \in {"broken", "closed"}, timers' \subseteq timers, server' = server
    PROVE  ClaudeStep
  <1>1. Current => c.cancelled = FALSE /\ c.failed = FALSE /\ c.completed = FALSE
    BY ClaudeGoesOn
  <1>2. /\ client' \in ClaudeClients /\ (client'.connected = TRUE => client'.pending = << >>)
        /\ ~Current' /\ attempt' \in Attempts /\ ("claude" \notin Crossing => Promised)
    BY <1>1, ClaudeFails
  <1>3. ClaudeTypes' /\ server'.late = FALSE
    BY <1>2 DEF ClaudeKeeps, ClaudeTypes, ClaudeHolds
  <1> QED  BY <1>2, <1>3, ClaudeOver DEF ClaudeStep

LEMMA ClaudeDisconnects ==
    ASSUME ChunksBounded, ClaudeKeeps, Claude!Disconnected
    PROVE  ClaudeStep
  <1> DEFINE c == Claude!gone(client)
             rolls == /\ ~client.completed /\ ~client.cancelled /\ ~client.failed
                      /\ client.connected /\ ~client.finish
  <1>1. /\ socket' = "closed" /\ timers' = timers \ {"connect"} /\ server' = server
        /\ rolls => client' = [c EXCEPT !.completed = TRUE] /\ attempt' = Claude!Ended(attempt, "completed")
        /\ ~rolls => Claude!fail(c, attempt)
    BY DEF Claude!Disconnected
  <1>2. /\ c \in ClaudeClients /\ c.connected = FALSE /\ c.cancelled = client.cancelled
        /\ c.failed = client.failed /\ c.completed = client.completed
        /\ client \in ClaudeClients /\ attempt \in Attempts
    BY ClaudeGone DEF ClaudeKeeps, ClaudeTypes
  <1> HIDE DEF c
  <1>3. CASE ~rolls
    BY <1>1, <1>2, <1>3, ClaudeBreaks
  <1>4. CASE rolls
    <2>1. client' \in ClaudeClients /\ client'.connected = FALSE /\ attempt' = Ended(attempt, "completed")
      BY <1>1, <1>2, <1>4, ClaudeSame DEF ClaudeClients
    <2>2. attempt' \in Attempts /\ ~Current'
      BY <1>2, <2>1 DEF Ended, Attempts, Phases, Current
    <2>3. ASSUME "claude" \notin Crossing
          PROVE  Promised
      <3>1. CASE ~Current
        BY <2>1, <3>1 DEF Ended, Promised
      <3>2. CASE Current
        <4>1. attempt.phase # "told" /\ attempt.words \subseteq 1..attempt.sent
          BY <1>4, <2>3, <3>2, ClaudeGoesOn, ClaudeWords
        <4>2. attempt' = Ended(Accounted(attempt, attempt.words), "completed")
          BY <1>2, <2>1, <3>2 DEF Accounted, Attempts
        <4> QED  BY <1>2, <3>2, <4>1, <4>2, Completes
      <3> QED  BY <3>1, <3>2
    <2>4. ClaudeTypes' /\ server'.late = FALSE
      BY <1>1, <2>1, <2>2 DEF ClaudeKeeps, ClaudeTypes, ClaudeHolds
    <2> QED  BY <1>1, <2>1, <2>2, <2>3, <2>4, ClaudeOver DEF ClaudeStep
  <1> QED  BY <1>3, <1>4

LEMMA ClaudeErrs ==
    ASSUME ChunksBounded, ClaudeKeeps, Claude!ErrorOccurred
    PROVE  ClaudeStep
  <1>1. CASE client.connected /\ ~client.finish /\ socket' = "broken" /\ UNCHANGED <<client, attempt, timers>>
    <2>1. server' = server
      BY DEF Claude!ErrorOccurred
    <2>2. ClaudeKeeps'
      BY <1>1, <2>1 DEF ClaudeKeeps, ClaudeTypes, ClaudeHolds, ClaudeHears, Current
    <2> QED  BY <1>1, <2>2 DEF ClaudeStep, Promised
  <1>2. CASE /\ Claude!fail(client, attempt) /\ timers' = timers \ {"connect"}
             /\ socket' \in IF socket = "connecting" THEN {"broken", "closed"} ELSE {"broken"}
    <2>1. /\ server' = server /\ socket' \in {"broken", "closed"} /\ client \in ClaudeClients
          /\ timers' \subseteq timers /\ (client.connected = TRUE => client.pending = << >>)
      BY <1>2 DEF Claude!ErrorOccurred, ClaudeKeeps, ClaudeTypes, ClaudeHolds
    <2> QED  BY <1>2, <2>1, ClaudeBreaks
  <1> QED  BY <1>1, <1>2 DEF Claude!ErrorOccurred

LEMMA ClaudeTimesOut ==
    ASSUME ChunksBounded, ClaudeKeeps, Claude!Timeout
    PROVE  ClaudeStep
  <1>1. PICK timer \in timers :
           /\ timers' = timers \ {timer}
           /\ IF Claude!Due(timer) /\ ~client.failed
              THEN Claude!fail(Claude!gone(client), attempt) /\ socket' = "closed"
              ELSE UNCHANGED <<client, attempt, socket>>
    BY DEF Claude!Timeout
  <1>2. server' = server /\ client \in ClaudeClients /\ timers' \subseteq timers
    BY <1>1 DEF Claude!Timeout, ClaudeKeeps, ClaudeTypes
  <1>3. CASE Claude!fail(Claude!gone(client), attempt) /\ socket' = "closed"
    BY <1>2, <1>3, ClaudeBreaks, ClaudeGone
  <1>4. CASE UNCHANGED <<client, attempt, socket>>
    <2>1. ClaudeKeeps'
      BY <1>2, <1>4 DEF ClaudeKeeps, ClaudeTypes, ClaudeHolds, ClaudeHears, Current
    <2> QED  BY <1>4, <2>1 DEF ClaudeStep, Promised
  <1> QED  BY <1>1, <1>3, <1>4

\* An endpoint of which the service said all it has, or which is read before
\* the close goes out.  Its words are all that the service got, once it is the
\* answer to the close.
LEMMA ClaudeEndpoint ==
    ASSUME ChunksBounded, ClaudeKeeps, NEW upTo \in Nat, Claude!Endpoint(upTo), socket \in {"open", "closing"},
           server' \in ClaudeServers, server'.got = server.got, server'.closing = server.closing,
           server'.late = server.late,
           Current /\ "claude" \notin Crossing =>
              /\ upTo \in 0..Len(server.got)
              /\ server.closing = TRUE =>
                    upTo = Len(server.got) \/ (upTo = 0 /\ client.interim = Len(server.got))
              /\ server.closing = FALSE => upTo = Len(server.got)
              /\ server.closing = FALSE => \A i \in DOMAIN server'.events :
                    /\ server'.events[i].type = "interim" => server'.events[i].upTo \in 0..Len(server.got)
                    /\ server'.events[i].type # "endpoint"
    PROVE  ClaudeStep
  <1>1. /\ client \in ClaudeClients /\ attempt \in Attempts /\ server \in ClaudeServers
        /\ timers \subseteq {"connect", "ready", "final"} /\ server.late = FALSE
        /\ client.interim \in Nat
    BY DEF ClaudeKeeps, ClaudeTypes, ClaudeHolds, ClaudeClients
  <1>2. PICK words \in Nat : words = IF upTo = 0 THEN client.interim ELSE upTo
    BY <1>1
  <1> DEFINE a == IF words > 0 THEN Accounted(attempt, 1..words) ELSE attempt
  <1>3. /\ client' = [client EXCEPT !.interim = 0, !.completed = @ \/ client.finalizing]
        /\ IF client.finalizing THEN attempt' = Ended(a, "completed") /\ socket' = "closing"
           ELSE attempt' = a /\ UNCHANGED socket
        /\ timers' = timers
    BY <1>2, ClaudeSame DEF Claude!Endpoint
  <1>4. /\ client' \in ClaudeClients /\ client'.interim = 0 /\ client'.connected = client.connected
        /\ client'.pending = client.pending /\ client'.cancelled = client.cancelled
        /\ client'.failed = client.failed /\ client'.finish = client.finish
        /\ client'.finalizing = client.finalizing
        /\ client.finalizing = FALSE => client'.completed = client.completed
    BY <1>1, <1>3 DEF ClaudeClients
  <1>5. a \in Attempts /\ a.phase = attempt.phase /\ a.sent = attempt.sent /\ a.owed = attempt.owed
    BY <1>1 DEF Accounted, Attempts
  <1>6. CASE ~Current
    <2>1. attempt' = attempt
      BY <1>3, <1>6 DEF Accounted, Ended
    <2>2. socket' \in {"open", "closing"}
      BY <1>3
    <2>3. ClaudeTypes' /\ ~Current' /\ server'.late = FALSE
      BY <1>1, <1>3, <1>4, <1>6, <2>1, <2>2 DEF ClaudeTypes, Current
    <2>4. client'.connected = TRUE => client'.pending = << >>
      BY <1>4 DEF ClaudeKeeps, ClaudeHolds
    <2> QED  BY <2>1, <2>2, <2>3, <2>4, ClaudeOver DEF ClaudeStep, Promised
  <1>7. CASE Current /\ client.finalizing = TRUE
    <2>1. attempt' = Ended(a, "completed") /\ socket' = "closing"
      BY <1>3, <1>7
    <2>2. attempt' = [a EXCEPT !.phase = "completed"]
      BY <1>5, <1>7, <2>1 DEF Ended, Current
    <2>3. attempt' \in Attempts /\ ~Current'
      BY <1>5, <2>2 DEF Attempts, Phases, Current
    <2>4. ClaudeTypes' /\ server'.late = FALSE
      BY <1>1, <1>3, <1>4, <2>1, <2>3 DEF ClaudeTypes
    <2>5. client'.connected = TRUE => client'.pending = << >>
      BY <1>4 DEF ClaudeKeeps, ClaudeHolds
    <2>6. ASSUME "claude" \notin Crossing
          PROVE  Promised
      <3>1. server.closing = TRUE /\ client.connected = TRUE
        BY <1>7, ClaudeGoesOn
      <3>2. client.pending = << >>
        BY <3>1 DEF ClaudeKeeps, ClaudeHolds
      <3>3. Len(server.got) = attempt.sent
        <4>1. server.got \o << >> = server.got
          BY <1>7, ClaudeGoesOn, ConcatEmptySeq, Zenon
        <4>2. server.got = UpTo(attempt.sent) /\ attempt.sent \in Nat
          BY <1>7, <3>2, <4>1, ClaudeGoesOn
        <4> QED  BY <4>2, Counts
      <3>4. words = attempt.sent
        <4>1. client.interim \in 0..Len(server.got)
          BY <1>7, <2>6 DEF ClaudeKeeps, ClaudeHears
        <4>2. upTo = Len(server.got) \/ (upTo = 0 /\ client.interim = Len(server.got))
          BY <1>7, <2>6, <3>1
        <4>3. Len(server.got) \in Nat /\ attempt.sent \in Nat
          BY <1>1, <3>3 DEF Attempts
        <4> QED  BY <1>2, <3>3, <4>1, <4>2, <4>3
      <3>5. attempt.owed \subseteq 1..attempt.sent /\ attempt.words \subseteq 1..attempt.sent
        BY <1>7, <2>6, <3>3 DEF ClaudeKeeps, ClaudeHears
      <3>6. a = Accounted(attempt, 1..attempt.sent)
        <4>1. CASE words > 0
          BY <3>4, <4>1
        <4>2. CASE words = 0
          <5>1. 1..attempt.sent = {}
            BY <3>4, <4>2
          <5>2. attempt.words = 1..attempt.sent
            BY <3>5, <5>1
          <5> QED  BY <1>1, <4>2, <5>2 DEF Accounted, Attempts
        <4> QED  BY <4>1, <4>2
      <3> QED  BY <1>1, <1>7, <2>1, <3>5, <3>6, Completes
    <2> QED  BY <2>1, <2>3, <2>4, <2>5, <2>6, ClaudeOver DEF ClaudeStep
  <1>8. CASE Current /\ client.finalizing = FALSE
    <2>1. attempt' = a /\ socket' = socket
      BY <1>3, <1>8
    <2>2. /\ attempt' \in Attempts /\ attempt'.phase = attempt.phase /\ attempt'.sent = attempt.sent
          /\ attempt'.owed = attempt.owed /\ Current'
      BY <1>5, <1>8, <2>1 DEF Current
    <2>3. ClaudeTypes' /\ ClaudeHolds'
      <3>1. ClaudeTypes'
        BY <1>1, <1>3, <1>4, <2>1, <2>2 DEF ClaudeTypes, ClaudeKeeps
      <3>2. client'.completed = client.completed
        BY <1>4, <1>8
      <3> QED  BY <1>4, <1>8, <2>1, <2>2, <3>1, <3>2 DEF ClaudeKeeps, ClaudeHolds
    <2>4. server.closing = FALSE
      BY <1>8, ClaudeGoesOn
    <2>5. ASSUME "claude" \notin Crossing
          PROVE  Promised /\ ClaudeHears'
      <3>1. Len(server.got) \in Nat /\ Len(server.got) <= attempt.sent /\ attempt.sent \in Nat
        BY <1>8, ClaudeWords, PartOf
      <3>2. attempt.words \subseteq 1..Len(server.got) /\ client.interim \in 0..Len(server.got)
            /\ attempt.owed \subseteq 1..attempt.sent
        BY <1>8, <2>5 DEF ClaudeKeeps, ClaudeHears
      <3>3. words <= Len(server.got)
        BY <1>2, <1>8, <2>5, <3>1, <3>2
      <3>4. 1..words \subseteq 1..Len(server.got) /\ 1..Len(server.got) \subseteq 1..attempt.sent
        BY <3>1, <3>3, Wider
      <3>5. attempt'.words \subseteq 1..Len(server.got)
        BY <1>1, <1>8, <2>1, <3>2, <3>4 DEF Accounted, Attempts
      <3>6. ClaudeHears'
        <4>1. 0 \in 0..Len(server.got)
          BY <3>1
        <4> QED  BY <1>4, <1>8, <2>2, <2>4, <2>5, <3>2, <3>5, <4>1 DEF ClaudeHears
      <3>7. Promised
        <4>1. CASE words > 0
          <5>1. attempt.words \subseteq 1..words
            <6>1. upTo = Len(server.got)
              BY <1>8, <2>4, <2>5
            <6>2. words = Len(server.got)
              BY <1>2, <3>2, <4>1, <6>1
            <6> QED  BY <3>2, <6>2
          <5> QED  BY <1>1, <1>8, <2>1, <3>4, <4>1, <5>1, Hears
        <4>2. CASE ~(words > 0)
          BY <2>1, <4>2 DEF Promised
        <4> QED  BY <4>1, <4>2
      <3> QED  BY <3>6, <3>7
    <2> QED  BY <2>3, <2>5 DEF ClaudeStep, ClaudeKeeps
  <1> QED  BY <1>1, <1>6, <1>7, <1>8 DEF ClaudeClients

LEMMA Behind ==
    ASSUME NEW E, NEW s \in Seq(E), s # << >>, NEW rest, rest = Tail(s)
    PROVE  /\ rest \in Seq(E) /\ Head(s) = s[1] /\ Head(s) \in E /\ 1 \in DOMAIN s
           /\ \A i \in DOMAIN rest : i \in Nat \ {0} /\ i + 1 \in DOMAIN s /\ rest[i] = s[i + 1]
           /\ \A i \in DOMAIN rest : i # 1 => i - 1 \in DOMAIN rest
  BY HeadTailProperties

LEMMA ClaudeTakesEvent ==
    ASSUME ClaudeKeeps, server.events # << >>, server' = [server EXCEPT !.events = Tail(server.events)]
    PROVE  /\ server' \in ClaudeServers /\ server'.got = server.got /\ server'.closing = server.closing
           /\ server'.late = server.late
           /\ Head(server.events) = server.events[1] /\ Head(server.events) \in ClaudeEvents
           /\ 1 \in DOMAIN server.events
           /\ \A i \in DOMAIN server'.events :
                 i \in Nat \ {0} /\ i + 1 \in DOMAIN server.events /\ server'.events[i] = server.events[i + 1]
  <1>1. server \in ClaudeServers /\ server.events \in Seq(ClaudeEvents)
    BY DEF ClaudeKeeps, ClaudeTypes, ClaudeServers
  <1>2. server'.events = Tail(server.events)
    BY <1>1 DEF ClaudeServers
  <1>3. /\ server'.events \in Seq(ClaudeEvents)
        /\ Head(server.events) = server.events[1] /\ Head(server.events) \in ClaudeEvents
        /\ 1 \in DOMAIN server.events
        /\ \A i \in DOMAIN server'.events :
              i \in Nat \ {0} /\ i + 1 \in DOMAIN server.events /\ server'.events[i] = server.events[i + 1]
    <2>1. /\ server'.events \in Seq(ClaudeEvents)
          /\ Head(server.events) = server.events[1] /\ Head(server.events) \in ClaudeEvents
          /\ 1 \in DOMAIN server.events
      BY <1>1, <1>2, Behind, Zenon
    <2>2. PICK events \in Seq(ClaudeEvents) : events = server.events
      BY <1>1
    <2>3. PICK rest : rest = Tail(events)
      OBVIOUS
    <2>4. \A i \in DOMAIN rest : i \in Nat \ {0} /\ i + 1 \in DOMAIN events /\ rest[i] = events[i + 1]
      BY <1>1, <2>2, <2>3, Behind
    <2>5. rest = server'.events
      BY <1>2, <2>2, <2>3
    <2> QED  BY <2>1, <2>2, <2>4, <2>5
  <1> QED  BY <1>1, <1>2, <1>3 DEF ClaudeServers

\* An interim's words are the client's until an endpoint comes.
LEMMA ClaudeInterim ==
    ASSUME ClaudeKeeps, server.events # << >>, server' = [server EXCEPT !.events = Tail(server.events)],
           Head(server.events).type = "interim", client' = [client EXCEPT !.interim = Head(server.events).upTo],
           UNCHANGED <<attempt, socket, timers>>
    PROVE  ClaudeStep
  <1>1. /\ client \in ClaudeClients /\ attempt \in Attempts /\ server \in ClaudeServers
    BY DEF ClaudeKeeps, ClaudeTypes
  <1>2. PICK upTo \in Nat : upTo = Head(server.events).upTo
    BY ClaudeTakesEvent DEF ClaudeEvents
  <1>3. /\ client' \in ClaudeClients /\ client'.interim = upTo /\ client'.connected = client.connected
        /\ client'.pending = client.pending /\ client'.cancelled = client.cancelled
        /\ client'.failed = client.failed /\ client'.finish = client.finish
        /\ client'.finalizing = client.finalizing /\ client'.completed = client.completed
    BY <1>1, <1>2 DEF ClaudeClients
  <1>4. ClaudeTypes'
    BY <1>3, ClaudeTakesEvent DEF ClaudeTypes, ClaudeKeeps
  <1>5. ClaudeHolds'
    <2>1. /\ server'.late = server.late /\ server'.got = server.got /\ server'.closing = server.closing
          /\ Current' = Current
      BY ClaudeTakesEvent DEF Current
    <2> QED  BY <1>3, <2>1 DEF ClaudeHolds, ClaudeKeeps
  <1>6. ASSUME "claude" \notin Crossing
        PROVE  ClaudeHears'
    <2> SUFFICES ASSUME Current
                 PROVE  ClaudeHears'
      BY DEF ClaudeHears, Current
    <2>1. /\ attempt.owed \subseteq 1..attempt.sent /\ attempt.words \subseteq 1..Len(server.got)
          /\ client.interim \in 0..Len(server.got)
          /\ \A i \in DOMAIN server.events :
               /\ server.events[i].type = "interim" => server.events[i].upTo \in 0..Len(server.got)
               /\ server.events[i].type = "endpoint" =>
                    /\ server.closing = TRUE
                    /\ \/ server.events[i].upTo = Len(server.got)
                       \/ /\ server.events[i].upTo = 0
                          /\ \/ i = 1 /\ client.interim = Len(server.got)
                             \/ /\ i > 1 /\ server.events[i - 1].type = "interim"
                                /\ server.events[i - 1].upTo = Len(server.got)
      BY <1>6 DEF ClaudeHears, ClaudeKeeps
    <2>2. /\ server'.got = server.got /\ server'.closing = server.closing
          /\ server.events[1].type = "interim" /\ server.events[1].upTo = upTo /\ 1 \in DOMAIN server.events
      BY <1>2, ClaudeTakesEvent
    <2>3. client'.interim \in 0..Len(server.got)
      BY <1>3, <2>1, <2>2
    <2>4. ASSUME NEW i \in DOMAIN server'.events
          PROVE  /\ server'.events[i].type = "interim" => server'.events[i].upTo \in 0..Len(server.got)
                 /\ server'.events[i].type = "endpoint" =>
                      /\ server.closing = TRUE
                      /\ \/ server'.events[i].upTo = Len(server.got)
                         \/ /\ server'.events[i].upTo = 0
                            /\ \/ i = 1 /\ client'.interim = Len(server.got)
                               \/ /\ i > 1 /\ server'.events[i - 1].type = "interim"
                                  /\ server'.events[i - 1].upTo = Len(server.got)
      <3>1. /\ i \in Nat \ {0} /\ i + 1 \in DOMAIN server.events /\ server'.events[i] = server.events[i + 1]
        BY ClaudeTakesEvent
      <3>2. PICK next \in Nat : next = i + 1
        BY <3>1
      <3>3. /\ next \in DOMAIN server.events /\ server'.events[i] = server.events[next] /\ next # 1
            /\ next - 1 = i
        BY <3>1, <3>2
      <3>4. i = 1 => server.events[next - 1].upTo = upTo
        BY <2>2, <3>3
      <3>5. i # 1 => i > 1 /\ server'.events[i - 1] = server.events[i]
        <4>1. SUFFICES ASSUME i # 1
                       PROVE  i > 1 /\ server'.events[i - 1] = server.events[i]
          OBVIOUS
        <4>2. i - 1 \in DOMAIN server'.events /\ (i - 1) + 1 = i
          <5>1. server'.events = Tail(server.events) /\ server.events \in Seq(ClaudeEvents)
            BY <1>1 DEF ClaudeServers
          <5>2. i - 1 \in DOMAIN server'.events
            BY <4>1, <5>1, Behind, Zenon
          <5> QED  BY <3>1, <5>2
        <4>3. PICK before \in DOMAIN server'.events : before = i - 1
          BY <4>2
        <4>4. server'.events[before] = server.events[before + 1] /\ before + 1 = i
          BY <4>2, <4>3, ClaudeTakesEvent
        <4> QED  BY <3>1, <4>1, <4>3, <4>4
      <3>6. server'.events[i].type = "interim" => server'.events[i].upTo \in 0..Len(server.got)
        BY <2>1, <3>3
      <3>7. ASSUME server'.events[i].type = "endpoint"
            PROVE  /\ server.closing = TRUE
                   /\ \/ server'.events[i].upTo = Len(server.got)
                      \/ /\ server'.events[i].upTo = 0
                         /\ \/ i = 1 /\ client'.interim = Len(server.got)
                            \/ /\ i > 1 /\ server'.events[i - 1].type = "interim"
                               /\ server'.events[i - 1].upTo = Len(server.got)
        <4>1. /\ server.closing = TRUE
              /\ \/ server.events[next].upTo = Len(server.got)
                 \/ /\ server.events[next].upTo = 0
                    /\ server.events[next - 1].type = "interim"
                    /\ server.events[next - 1].upTo = Len(server.got)
          BY <2>1, <3>3, <3>7
        <4>2. next - 1 = i
          BY <3>3
        <4>3. CASE i = 1
          BY <1>3, <3>3, <3>4, <4>1, <4>2, <4>3
        <4>4. CASE i # 1
          BY <3>3, <3>5, <4>1, <4>2, <4>4
        <4> QED  BY <4>3, <4>4
      <3> QED  BY <3>6, <3>7
    <2> QED  BY <1>3, <2>1, <2>2, <2>3, <2>4 DEF ClaudeHears
  <1> QED  BY <1>4, <1>5, <1>6 DEF ClaudeStep, ClaudeKeeps, Promised

LEMMA ClaudeReceives ==
    ASSUME ChunksBounded, ClaudeKeeps, Claude!Receive
    PROVE  ClaudeStep
  <1>1. /\ socket \in {"open", "closing"} /\ server.events # << >>
        /\ server' = [server EXCEPT !.events = Tail(server.events)]
    BY DEF Claude!Receive
  <1>2. CASE Head(server.events).type = "interim"
    BY <1>1, <1>2, ClaudeInterim DEF Claude!Receive
  <1>3. CASE Head(server.events).type = "endpoint"
    <2>1. PICK upTo \in Nat : upTo = Head(server.events).upTo
      BY <1>1, <1>3, ClaudeTakesEvent DEF ClaudeEvents
    <2>2. Claude!Endpoint(upTo)
      BY <1>3, <2>1 DEF Claude!Receive
    <2>3. ASSUME Current, "claude" \notin Crossing
          PROVE  /\ server.closing = TRUE /\ upTo \in 0..Len(server.got)
                 /\ upTo = Len(server.got) \/ (upTo = 0 /\ client.interim = Len(server.got))
      <3>1. /\ server.events[1].type = "endpoint" /\ server.events[1].upTo = upTo
            /\ 1 \in DOMAIN server.events
        BY <1>1, <1>3, <2>1, ClaudeTakesEvent
      <3>2. /\ server.closing = TRUE
            /\ upTo = Len(server.got) \/ (upTo = 0 /\ client.interim = Len(server.got))
        BY <2>3, <3>1 DEF ClaudeKeeps, ClaudeHears
      <3>3. Len(server.got) \in Nat
        BY <2>3, ClaudeWords
      <3> QED  BY <3>2, <3>3
    <2> QED  BY <1>1, <2>2, <2>3, ClaudeTakesEvent, ClaudeEndpoint
  <1>4. CASE Head(server.events).type = "error"
    <2>1. Claude!fail(client, attempt) /\ UNCHANGED <<socket, timers>>
      BY <1>4 DEF Claude!Receive
    <2>2. client \in ClaudeClients /\ (client.connected = TRUE => client.pending = << >>)
          /\ (Current => client.cancelled = FALSE /\ client.failed = FALSE /\ client.completed = FALSE)
      BY DEF ClaudeKeeps, ClaudeTypes, ClaudeHolds
    <2>3. /\ client' \in ClaudeClients /\ (client'.connected = TRUE => client'.pending = << >>)
          /\ ~Current' /\ attempt' \in Attempts /\ ("claude" \notin Crossing => Promised)
      BY <2>1, <2>2, ClaudeFails
    <2>4. server' \in ClaudeServers /\ server'.late = FALSE
      BY <1>1, ClaudeTakesEvent DEF ClaudeKeeps, ClaudeHolds
    <2>5. ClaudeTypes' /\ socket' # "connecting"
      BY <1>1, <2>1, <2>3, <2>4 DEF ClaudeTypes, ClaudeKeeps
    <2> QED  BY <2>3, <2>4, <2>5, ClaudeOver DEF ClaudeStep
  <1> QED  BY <1>2, <1>3, <1>4 DEF Claude!Receive

\* Where an element of a sequence is from, and the one before it.
EachOfEither(whole, s, t) ==
    \A i \in DOMAIN whole :
      /\ i \in Nat \ {0}
      /\ \/ i \in DOMAIN s /\ whole[i] = s[i] /\ (i > 1 => whole[i - 1] = s[i - 1])
         \/ \E j \in DOMAIN t : j \in Nat /\ whole[i] = t[j] /\ (j > 1 => i > 1 /\ whole[i - 1] = t[j - 1])

LEMMA Extends ==
    ASSUME NEW E, NEW s \in Seq(E), NEW t \in Seq(E), NEW whole, whole = s \o t
    PROVE  whole \in Seq(E) /\ EachOfEither(whole, s, t)
  <1>1. /\ whole \in Seq(E) /\ Len(whole) = Len(s) + Len(t) /\ Len(s) \in Nat /\ Len(t) \in Nat
        /\ DOMAIN s = 1..Len(s) /\ DOMAIN t = 1..Len(t) /\ DOMAIN whole = 1..Len(whole)
    BY ConcatProperties
  <1>2. \A i \in 1..Len(whole) : whole[i] = IF i <= Len(s) THEN s[i] ELSE t[i - Len(s)]
    BY ConcatProperties
  <1>3. ASSUME NEW i \in DOMAIN whole
        PROVE  /\ i \in Nat \ {0}
               /\ \/ i \in DOMAIN s /\ whole[i] = s[i] /\ (i > 1 => whole[i - 1] = s[i - 1])
                  \/ \E j \in DOMAIN t : /\ j \in Nat /\ whole[i] = t[j]
                                         /\ j > 1 => i > 1 /\ whole[i - 1] = t[j - 1]
    <2>1. CASE i <= Len(s)
      <3>1. i > 1 => i - 1 \in 1..Len(whole) /\ i - 1 <= Len(s)
        BY <1>1, <2>1
      <3> QED  BY <1>1, <1>2, <2>1, <3>1
    <2>2. CASE ~(i <= Len(s))
      <3>1. i - Len(s) \in DOMAIN t /\ i - Len(s) \in Nat /\ whole[i] = t[i - Len(s)]
        BY <1>1, <1>2, <2>2
      <3>2. i - Len(s) > 1 => i > 1 /\ whole[i - 1] = t[(i - Len(s)) - 1]
        <4>1. SUFFICES ASSUME i - Len(s) > 1
                       PROVE  i > 1 /\ whole[i - 1] = t[(i - Len(s)) - 1]
          OBVIOUS
        <4>2. i - 1 \in 1..Len(whole) /\ ~(i - 1 <= Len(s)) /\ (i - 1) - Len(s) = (i - Len(s)) - 1 /\ i > 1
          BY <1>1, <4>1
        <4> QED  BY <1>2, <4>2
      <3> QED  BY <1>1, <3>1, <3>2
    <2> QED  BY <2>1, <2>2
  <1> QED  BY <1>1, <1>3 DEF EachOfEither

\* What the service says, when it says only what it may.
LEMMA ClaudeSays ==
    ASSUME ClaudeKeeps, NEW said \in Seq(ClaudeEvents), Claude!ServerSays(said),
           Current /\ "claude" \notin Crossing =>
              \A i \in DOMAIN said :
                /\ said[i].type = "interim" => said[i].upTo \in 0..Len(server.got)
                /\ said[i].type = "endpoint" =>
                     /\ server.closing = TRUE
                     /\ \/ said[i].upTo = Len(server.got)
                        \/ /\ said[i].upTo = 0 /\ i > 1
                           /\ said[i - 1].type = "interim" /\ said[i - 1].upTo = Len(server.got)
    PROVE  ClaudeStep
  <1>1. /\ socket = "open" /\ server' = [server EXCEPT !.events = server.events \o said]
        /\ attempt' = attempt /\ client' = client /\ socket' = socket /\ timers' = timers
    BY DEF Claude!ServerSays
  <1>2. server \in ClaudeServers
    BY DEF ClaudeKeeps, ClaudeTypes
  <1>3. PICK events \in Seq(ClaudeEvents) : events = server.events
    BY <1>2 DEF ClaudeServers
  <1>4. PICK whole : whole = events \o said
    OBVIOUS
  <1>5. /\ server'.events = whole /\ server'.got = server.got /\ server'.closing = server.closing
        /\ server'.late = server.late
    BY <1>1, <1>2, <1>3, <1>4 DEF ClaudeServers
  <1>6. /\ whole \in Seq(ClaudeEvents)
        /\ \A i \in DOMAIN whole :
             /\ i \in Nat \ {0}
             /\ \/ i \in DOMAIN events /\ whole[i] = events[i] /\ (i > 1 => whole[i - 1] = events[i - 1])
                \/ \E j \in DOMAIN said : /\ j \in Nat /\ whole[i] = said[j]
                                          /\ j > 1 => i > 1 /\ whole[i - 1] = said[j - 1]
    <2>1. whole \in Seq(ClaudeEvents) /\ EachOfEither(whole, events, said)
      BY <1>4, Extends
    <2> QED  BY <2>1 DEF EachOfEither
  <1>7. server' \in ClaudeServers
    BY <1>1, <1>2, <1>5, <1>6 DEF ClaudeServers
  <1>8. ClaudeTypes' /\ ClaudeHolds'
    <2>1. ClaudeTypes'
      BY <1>1, <1>7 DEF ClaudeTypes, ClaudeKeeps
    <2>2. Current' = Current
      BY <1>1 DEF Current
    <2> QED  BY <1>1, <1>5, <2>1, <2>2 DEF ClaudeHolds, ClaudeKeeps
  <1>9. ASSUME "claude" \notin Crossing
        PROVE  ClaudeHears'
    <2> SUFFICES ASSUME Current
                 PROVE  ClaudeHears'
      BY <1>1 DEF ClaudeHears, Current
    <2>1. /\ attempt.owed \subseteq 1..attempt.sent /\ attempt.words \subseteq 1..Len(server.got)
          /\ client.interim \in 0..Len(server.got)
          /\ \A i \in DOMAIN events :
               /\ events[i].type = "interim" => events[i].upTo \in 0..Len(server.got)
               /\ events[i].type = "endpoint" =>
                    /\ server.closing = TRUE
                    /\ \/ events[i].upTo = Len(server.got)
                       \/ /\ events[i].upTo = 0
                          /\ \/ i = 1 /\ client.interim = Len(server.got)
                             \/ /\ i > 1 /\ events[i - 1].type = "interim"
                                /\ events[i - 1].upTo = Len(server.got)
      BY <1>3, <1>9 DEF ClaudeHears, ClaudeKeeps
    <2>2. ASSUME NEW i \in DOMAIN whole
          PROVE  /\ whole[i].type = "interim" => whole[i].upTo \in 0..Len(server.got)
                 /\ whole[i].type = "endpoint" =>
                      /\ server.closing = TRUE
                      /\ \/ whole[i].upTo = Len(server.got)
                         \/ /\ whole[i].upTo = 0
                            /\ \/ i = 1 /\ client.interim = Len(server.got)
                               \/ /\ i > 1 /\ whole[i - 1].type = "interim"
                                  /\ whole[i - 1].upTo = Len(server.got)
      <3>1. CASE i \in DOMAIN events /\ whole[i] = events[i] /\ (i > 1 => whole[i - 1] = events[i - 1])
        BY <2>1, <3>1
      <3>2. ASSUME NEW j \in DOMAIN said, j \in Nat, whole[i] = said[j],
                   j > 1 => i > 1 /\ whole[i - 1] = said[j - 1]
            PROVE  /\ whole[i].type = "interim" => whole[i].upTo \in 0..Len(server.got)
                   /\ whole[i].type = "endpoint" =>
                        /\ server.closing = TRUE
                        /\ \/ whole[i].upTo = Len(server.got)
                           \/ /\ whole[i].upTo = 0
                              /\ \/ i = 1 /\ client.interim = Len(server.got)
                                 \/ /\ i > 1 /\ whole[i - 1].type = "interim"
                                    /\ whole[i - 1].upTo = Len(server.got)
        BY <1>9, <3>2
      <3> QED  BY <1>6, <3>1, <3>2
    <2>3. \A i \in DOMAIN server'.events :
            /\ server'.events[i].type = "interim" => server'.events[i].upTo \in 0..Len(server'.got)
            /\ server'.events[i].type = "endpoint" =>
                 /\ server'.closing = TRUE
                 /\ \/ server'.events[i].upTo = Len(server'.got)
                    \/ /\ server'.events[i].upTo = 0
                       /\ \/ i = 1 /\ client'.interim = Len(server'.got)
                          \/ /\ i > 1 /\ server'.events[i - 1].type = "interim"
                             /\ server'.events[i - 1].upTo = Len(server'.got)
      <3>1. /\ server'.events = whole /\ server'.got = server.got /\ server'.closing = server.closing
            /\ client'.interim = client.interim
        BY <1>1, <1>5
      <3> QED  BY <2>2, <3>1
    <2>4. /\ attempt'.owed \subseteq 1..attempt'.sent /\ attempt'.words \subseteq 1..Len(server'.got)
          /\ client'.interim \in 0..Len(server'.got)
      BY <1>1, <1>5, <2>1
    <2> QED  BY <2>3, <2>4 DEF ClaudeHears
  <1> QED  BY <1>1, <1>8, <1>9 DEF ClaudeStep, ClaudeKeeps, Promised

LEMMA ClaudeServes ==
    ASSUME ChunksBounded, ClaudeKeeps, Claude!Serve
    PROVE  ClaudeStep
  <1>1. server \in ClaudeServers
    BY DEF ClaudeKeeps, ClaudeTypes
  <1>2. PICK upTo \in Nat : upTo = Len(server.got)
    <2>1. server.got \in Seq(Nat)
      BY <1>1 DEF ClaudeServers
    <2> QED  BY <2>1
  <1> DEFINE error == [type |-> "error"]
             interim == [type |-> "interim", upTo |-> upTo]
             endpoint == [type |-> "endpoint", upTo |-> upTo]
             promoted == [type |-> "endpoint", upTo |-> 0]
  <1>3. /\ <<error>> \in Seq(ClaudeEvents) /\ <<interim>> \in Seq(ClaudeEvents)
        /\ <<endpoint>> \in Seq(ClaudeEvents) /\ <<promoted>> \in Seq(ClaudeEvents)
        /\ <<interim, promoted>> \in Seq(ClaudeEvents)
    <2>1. {error, interim, endpoint, promoted} \subseteq ClaudeEvents
      BY DEF ClaudeEvents
    <2> HIDE DEF error, interim, endpoint, promoted
    <2> QED  BY <2>1
  <1>4. \/ Claude!ServerSays(<<error>>)
        \/ upTo > 0 /\ Claude!ServerSays(<<interim>>)
        \/ /\ upTo > 0 /\ (server.closing = TRUE \/ "claude" \in Crossing)
           /\ Claude!ServerSays(<<endpoint>>) \/ Claude!ServerSays(<<interim, promoted>>)
        \/ upTo = 0 /\ server.closing = TRUE /\ Claude!ServerSays(<<promoted>>)
        \/ /\ server.closing = FALSE /\ socket = "open" /\ server.events = << >>
           /\ Claude!Endpoint(upTo) /\ server' = server
    BY <1>1, <1>2 DEF Claude!Serve, ClaudeServers
  <1>5. CASE Claude!ServerSays(<<error>>)
    <2>1. \A i \in DOMAIN <<error>> : <<error>>[i].type = "error"
      OBVIOUS
    <2> HIDE DEF error
    <2> QED  BY <1>3, <1>5, <2>1, ClaudeSays
  <1>6. CASE Claude!ServerSays(<<interim>>)
    <2>1. \A i \in DOMAIN <<interim>> : /\ <<interim>>[i].type = "interim" /\ <<interim>>[i].upTo \in 0..Len(server.got)
      BY <1>2
    <2> HIDE DEF interim
    <2> QED  BY <1>3, <1>6, <2>1, ClaudeSays
  <1>7. CASE Claude!ServerSays(<<endpoint>>) /\ (server.closing = TRUE \/ "claude" \in Crossing)
    <2>1. \A i \in DOMAIN <<endpoint>> : /\ <<endpoint>>[i].type = "endpoint" /\ <<endpoint>>[i].upTo = Len(server.got)
      BY <1>2
    <2> HIDE DEF endpoint
    <2> QED  BY <1>3, <1>7, <2>1, ClaudeSays
  <1>8. CASE Claude!ServerSays(<<promoted>>) /\ upTo = 0 /\ server.closing = TRUE
    <2>1. \A i \in DOMAIN <<promoted>> : /\ <<promoted>>[i].type = "endpoint" /\ <<promoted>>[i].upTo = Len(server.got)
      BY <1>2, <1>8
    <2> HIDE DEF promoted
    <2> QED  BY <1>3, <1>8, <2>1, ClaudeSays
  <1>9. CASE Claude!ServerSays(<<interim, promoted>>) /\ (server.closing = TRUE \/ "claude" \in Crossing)
    <2> DEFINE said == <<interim, promoted>>
    <2>1. /\ said[1].type = "interim" /\ said[1].upTo = Len(server.got) /\ said[1].upTo \in 0..Len(server.got)
          /\ said[2].type = "endpoint" /\ said[2].upTo = 0
          /\ DOMAIN said = {1, 2}
      BY <1>2
    <2>2. said \in Seq(ClaudeEvents) /\ Claude!ServerSays(said)
      BY <1>3, <1>9
    <2> HIDE DEF said
    <2>3. "claude" \notin Crossing =>
            \A i \in DOMAIN said :
              /\ said[i].type = "interim" => said[i].upTo \in 0..Len(server.got)
              /\ said[i].type = "endpoint" =>
                   /\ server.closing = TRUE
                   /\ \/ said[i].upTo = Len(server.got)
                      \/ /\ said[i].upTo = 0 /\ i > 1
                         /\ said[i - 1].type = "interim" /\ said[i - 1].upTo = Len(server.got)
      BY <1>9, <2>1
    <2> QED  BY <2>2, <2>3, ClaudeSays
  <1>10. CASE server.closing = FALSE /\ socket = "open" /\ server.events = << >> /\ Claude!Endpoint(upTo) /\ server' = server
    <2>1. server'.late = server.late /\ \A i \in DOMAIN server'.events : FALSE
      BY <1>10
    <2>2. upTo \in 0..Len(server.got)
      BY <1>2
    <2> QED  BY <1>1, <1>2, <1>10, <2>1, <2>2, ClaudeEndpoint
  <1> HIDE DEF error, interim, endpoint, promoted
  <1> QED  BY <1>4, <1>5, <1>6, <1>7, <1>8, <1>9, <1>10

LEMMA ClaudeBegins ==
    ASSUME ChunksBounded, Claude!ClaudeInit
    PROVE  ClaudeKeeps
  <1>1. attempt = NoAttempt /\ client = Claude!NewClient /\ socket = "closed" /\ timers = {} /\ server = Claude!NewServer
    BY DEF Claude!ClaudeInit, Claude!ContractInit, Claude!NoAttempt, NoAttempt
  <1>2. << >> \in Seq(Nat) /\ << >> \in Seq(ClaudeEvents)
    OBVIOUS
  <1>3. client \in ClaudeClients /\ server \in ClaudeServers /\ attempt \in Attempts /\ ~Current
    BY <1>1, <1>2 DEF Claude!NewClient, Claude!NewServer, ClaudeClients, ClaudeServers, NoAttempt, Attempts,
      Phases,
                      Current
  <1>4. server.late = FALSE /\ client.connected = FALSE
    BY <1>1 DEF Claude!NewClient, Claude!NewServer
  <1> QED  BY <1>1, <1>3, <1>4 DEF ClaudeKeeps, ClaudeTypes, ClaudeHolds, ClaudeHears

LEMMA ClaudeGoes ==
    ASSUME ChunksBounded, ClaudeKeeps, Claude!ClaudeNext
    PROVE  ClaudeStep
  BY ClaudeStarts, ClaudeSends, ClaudeFinishes, ClaudeLetsGo, ClaudeConnects, ClaudeDisconnects, ClaudeErrs,
     ClaudeTimesOut, ClaudeReceives, ClaudeServes DEF Claude!ClaudeNext

LEMMA ClaudeOrder ==
    ASSUME ChunksBounded, ClaudeKeeps
    PROVE  Claude!ClaudeInOrder
  <1>1. server.late = FALSE
    BY DEF ClaudeKeeps, ClaudeHolds
  <1>2. Current => server.got \o client.pending = [i \in 1..attempt.sent |-> i]
    BY DEF ClaudeKeeps, ClaudeHolds, UpTo
  <1>3. Claude!Current = Current
    BY ClaudeSame
  <1> QED  BY <1>1, <1>2, <1>3, Zenon DEF Claude!ClaudeInOrder

-----------------------------------------------------------------------------
(* CodexTranscriber.                                                       *)

CodexClients == [started : BOOLEAN, finish : BOOLEAN, finalizing : BOOLEAN, closed : BOOLEAN,
                 cancelled : BOOLEAN, failed : BOOLEAN, connecting : BOOLEAN, pending : Seq(Nat),
                 finals : SUBSET Nat, heard : Seq(Nat), asked : Seq(Nat),
                 retranscribe : BOOLEAN, held : Nat, posted : Nat]
CodexEvents == [type : {"error", "closed"}] \cup [type : {"final"}, upTo : Nat]
CodexServers == [greeted : BOOLEAN, got : Seq(Nat), closing : BOOLEAN, late : BOOLEAN, said : Nat,
                 events : Seq(CodexEvents)]
CodexTypes == attempt \in Attempts /\ client \in CodexClients /\ server \in CodexServers

\* What the calls handed over is with the service, or waits for the session.
CodexBooks ==
    /\ server.late = FALSE
    /\ server.closing = client.finalizing
    /\ client.finalizing = TRUE => client.started = TRUE /\ client.finish = TRUE
    /\ client.started = TRUE => client.pending = << >>
    /\ client.cancelled = FALSE =>
          server.got \o client.pending =
              client.asked \o (IF client.finalizing = TRUE THEN <<0>> ELSE << >>)
    /\ \A i \in DOMAIN client.heard : client.heard[i] \in client.finals
    /\ \A i, j \in DOMAIN client.heard : client.heard[i] = client.heard[j] => i = j

CodexCounts ==
    /\ client.held > 0 => client.held = attempt.sent
    /\ client.retranscribe = FALSE => client.held = 0
    /\ client.posted > 0 => client.posted = attempt.sent /\ client.finish = TRUE
    /\ attempt.phase = "open" =>
          /\ client.finish = FALSE /\ client.closed = FALSE
          /\ client.retranscribe = TRUE => client.held = attempt.sent
    /\ Current =>
          /\ client.cancelled = FALSE /\ client.failed = FALSE
          /\ client.closed = TRUE => client.posted > 0
          /\ Items(client.asked) \ {0} = 1..attempt.sent
    /\ attempt.phase = "told" =>
          /\ client.finish = TRUE
          /\ client.started = TRUE /\ client.connecting = FALSE /\ client.closed = FALSE => client.finalizing = TRUE

\* The final of all that the service has said is known, or on its way.
SaidBefore(k) ==
    \/ 1..server.said \subseteq attempt.words
    \/ \E i \in DOMAIN server.events : /\ i < k /\ server.events[i].type = "final"
                                       /\ server.events[i].upTo = server.said

CodexHears ==
    Current =>
      /\ attempt.owed \subseteq 1..attempt.sent /\ attempt.words \subseteq 1..attempt.sent
      /\ server.said \in 0..attempt.sent
      /\ \A n \in client.finals : 1..n \subseteq attempt.words
      /\ client.posted > 0 => 1..attempt.sent \subseteq attempt.words
      /\ \A i \in DOMAIN server.events :
           /\ server.events[i].type = "final" => server.events[i].upTo \in 0..attempt.sent
           /\ server.events[i].type = "closed" =>
                 server.closing = TRUE /\ server.said = attempt.sent /\ SaidBefore(i)
      /\ SaidBefore(Len(server.events) + 1)

CodexKeeps ==
    /\ CodexTypes /\ CodexBooks /\ CodexCounts
    /\ "codex" \notin Crossing => CodexHears

CodexStep == CodexKeeps' /\ ("codex" \notin Crossing => Promised)

LEMMA CodexSame ==
    ASSUME ChunksBounded
    PROVE  /\ Codex!Current = Current /\ Codex!Opened = Opened /\ Codex!Told = Told /\ Codex!LetGo = LetGo
           /\ \A a, end : Codex!Ended(a, end) = Ended(a, end)
           /\ \A a, chunks : Codex!Accounted(a, chunks) = Accounted(a, chunks)
           /\ \A a, spoken : Codex!Handed(a, spoken) = Handed(a, spoken)
           /\ Codex!MayOpen = MayOpen /\ Codex!MayFinish = MayFinish /\ Codex!MayCancel = MayCancel
           /\ attempt \in Attempts /\ Codex!MaySend => MaySend
  BY DEF ChunksBounded, Codex!Current, Codex!Opened, Codex!Told, Codex!LetGo, Codex!Ended, Codex!Accounted,
         Codex!Handed, Codex!MayOpen, Codex!MayFinish, Codex!MayCancel, Codex!MaySend, Codex!NoAttempt,
         Current, Opened, Told, LetGo, Ended, Accounted, Handed, MayOpen, MayFinish, MayCancel, MaySend,
         NoAttempt, Attempts

LEMMA CodexTyped ==
    ASSUME CodexKeeps
    PROVE  /\ attempt \in Attempts /\ client \in CodexClients /\ server \in CodexServers
           /\ client.pending \in Seq(Nat) /\ client.asked \in Seq(Nat) /\ server.got \in Seq(Nat)
           /\ client.heard \in Seq(Nat) /\ client.finals \in SUBSET Nat /\ attempt.sent \in Nat
           /\ client.held \in Nat /\ client.posted \in Nat /\ server.said \in Nat
           /\ client.finish \in BOOLEAN /\ client.finalizing \in BOOLEAN /\ client.started \in BOOLEAN
           /\ client.closed \in BOOLEAN /\ client.failed \in BOOLEAN /\ client.cancelled \in BOOLEAN
           /\ client.connecting \in BOOLEAN /\ client.retranscribe \in BOOLEAN
           /\ server.closing \in BOOLEAN /\ server.late \in BOOLEAN /\ server.events \in Seq(CodexEvents)
           /\ attempt.words \in SUBSET Nat /\ attempt.owed \in SUBSET Nat /\ attempt.phase \in Phases
  BY DEF CodexKeeps, CodexTypes, Attempts, CodexClients, CodexServers

\* Of an attempt that goes on.
LEMMA CodexGoesOn ==
    ASSUME CodexKeeps, Current
    PROVE  /\ client.cancelled = FALSE /\ client.failed = FALSE
           /\ client.closed = TRUE => client.posted > 0
           /\ "codex" \notin Crossing =>
                 attempt.words \subseteq 1..attempt.sent /\ attempt.owed \subseteq 1..attempt.sent
  BY DEF CodexKeeps, CodexCounts, CodexHears

LEMMA CodexStarts ==
    ASSUME ChunksBounded, CodexKeeps, Codex!startAttempt
    PROVE  CodexStep
  <1>1. /\ MayOpen /\ attempt' = Opened /\ attempt \in Attempts
        /\ \E retranscribe \in BOOLEAN : client' = Codex!NewClient(retranscribe)
        /\ server' = Codex!NewServer
    BY CodexSame DEF Codex!startAttempt, CodexKeeps, CodexTypes
  <1>2. PICK retranscribe \in BOOLEAN : client' = Codex!NewClient(retranscribe)
    BY <1>1
  <1>3. /\ Promised /\ attempt' \in Attempts /\ Current' /\ attempt'.phase = "open"
        /\ attempt'.sent = 0 /\ attempt'.owed = {} /\ attempt'.words = {}
    BY <1>1, Starts
  <1>4. client' \in CodexClients /\ server' \in CodexServers
    <2>1. << >> \in Seq(Nat) /\ << >> \in Seq(CodexEvents)
      OBVIOUS
    <2> QED  BY <1>1, <1>2, <2>1 DEF Codex!NewClient, Codex!NewServer, CodexClients, CodexServers
  <1>5. /\ server'.late = FALSE /\ server'.closing = FALSE /\ server'.got = << >> /\ server'.events = << >>
        /\ server'.said = 0
        /\ client'.pending = << >> /\ client'.asked = << >> /\ client'.heard = << >> /\ client'.finals = {}
        /\ client'.started = FALSE /\ client'.finish = FALSE /\ client'.finalizing = FALSE
        /\ client'.closed = FALSE /\ client'.cancelled = FALSE /\ client'.failed = FALSE
        /\ client'.held = 0 /\ client'.posted = 0
    BY <1>1, <1>2 DEF Codex!NewClient, Codex!NewServer
  <1>6. CodexTypes'
    BY <1>3, <1>4 DEF CodexTypes
  <1>7. CodexBooks'
    <2>1. /\ server'.got \o client'.pending = << >> \o << >>
          /\ client'.asked \o (IF client'.finalizing = TRUE THEN <<0>> ELSE << >>) = << >> \o << >>
      BY <1>5
    <2>2. \A i \in DOMAIN client'.heard : FALSE
      BY <1>5
    <2> QED  BY <1>5, <2>1, <2>2 DEF CodexBooks
  <1>8. CodexCounts'
    <2>1. Items(<< >>) = {} /\ 1..0 = {}
      BY DEF Items
    <2> QED  BY <1>3, <1>5, <2>1 DEF CodexCounts
  <1>9. CodexHears'
    <2>1. 1..0 = {} /\ 0 \in 0..0
      OBVIOUS
    <2>2. SaidBefore(Len(server.events) + 1)'
      BY <1>5, <2>1 DEF SaidBefore
    <2> QED  BY <1>3, <1>5, <2>1, <2>2 DEF CodexHears
  <1> QED  BY <1>3, <1>6, <1>7, <1>8, <1>9 DEF CodexStep, CodexKeeps

LEMMA CodexLetsGo ==
    ASSUME ChunksBounded, CodexKeeps, Codex!cancelAttempt
    PROVE  CodexStep
  <1>1. /\ MayCancel /\ attempt' = LetGo /\ attempt \in Attempts /\ client \in CodexClients
        /\ client' = [client EXCEPT !.cancelled = TRUE, !.pending = << >>, !.held = 0, !.posted = 0]
        /\ server' = server
    BY CodexSame DEF Codex!cancelAttempt, CodexKeeps, CodexTypes
  <1>2. << >> \in Seq(Nat)
    OBVIOUS
  <1>3. /\ client' \in CodexClients /\ client'.cancelled = TRUE /\ client'.pending = << >> /\ client'.held = 0
        /\ client'.posted = 0 /\ client'.started = client.started /\ client'.finalizing = client.finalizing
        /\ client'.finish = client.finish /\ client'.heard = client.heard /\ client'.finals = client.finals
    BY <1>1, <1>2 DEF CodexClients
  <1>4. Promised /\ attempt' \in Attempts /\ ~Current'
    BY <1>1, LetsGo
  <1>5. CodexTypes'
    BY <1>1, <1>3, <1>4 DEF CodexKeeps, CodexTypes
  <1>6. CodexBooks'
    BY <1>1, <1>3 DEF CodexKeeps, CodexBooks
  <1>7. CodexCounts'
    BY <1>3, <1>4 DEF CodexCounts, Current
  <1>8. CodexHears'
    BY <1>4 DEF CodexHears
  <1> QED  BY <1>4, <1>5, <1>6, <1>7, <1>8 DEF CodexStep, CodexKeeps

\* A step of the socket or the timers only.
LEMMA CodexRests ==
    ASSUME CodexKeeps, UNCHANGED <<attempt, client, server>>
    PROVE  CodexStep
  <1>1. CodexTypes' /\ CodexBooks'
    BY DEF CodexKeeps, CodexTypes, CodexBooks
  <1>2. CodexCounts'
    BY DEF CodexKeeps, CodexCounts, Current
  <1>3. \A k : SaidBefore(k)' = SaidBefore(k)
    BY DEF SaidBefore
  <1>4. CodexHears' = CodexHears
    BY <1>3 DEF CodexHears, SaidBefore, Current
  <1> QED  BY <1>1, <1>2, <1>4 DEF CodexStep, CodexKeeps, Promised

\* What the service has got and what the client keeps of it are as they were.
Kept == server' \in CodexServers /\ server'.got = server.got /\ server'.closing = server.closing
        /\ server'.late = server.late /\ server'.said = server.said

LEMMA CodexFails ==
    ASSUME ChunksBounded, CodexKeeps, Codex!fail(client, attempt), Kept,
           "codex" \notin Crossing /\ attempt' = attempt /\ client' = client => CodexHears'
    PROVE  CodexStep
  <1>1. attempt \in Attempts /\ client \in CodexClients
    BY CodexTyped
  <1>2. CASE client' = client /\ attempt' = attempt
    BY <1>1, <1>2 DEF CodexStep, CodexKeeps, CodexTypes, CodexBooks, CodexCounts, Current, Promised, Kept
  <1>3. CASE client' = [client EXCEPT !.failed = TRUE] /\ attempt' = Ended(attempt, "failed")
    <2>1. /\ client' \in CodexClients /\ client'.cancelled = client.cancelled /\ client'.pending = client.pending
          /\ client'.held = client.held /\ client'.posted = client.posted /\ client'.started = client.started
          /\ client'.finalizing = client.finalizing /\ client'.finish = client.finish
          /\ client'.heard = client.heard /\ client'.finals = client.finals /\ client'.asked = client.asked
          /\ client'.retranscribe = client.retranscribe
      BY <1>1, <1>3 DEF CodexClients
    <2>2. attempt' \in Attempts /\ ~Current' /\ attempt'.sent = attempt.sent
      BY <1>1, <1>3 DEF Ended, Attempts, Phases, Current
    <2>3. ASSUME "codex" \notin Crossing
          PROVE  Promised
      <3>1. CASE Current
        BY <1>1, <1>3, <2>3, <3>1, Fails, CodexGoesOn
      <3>2. CASE ~Current
        BY <1>3, <3>2 DEF Ended, Promised
      <3> QED  BY <3>1, <3>2
    <2>4. CodexTypes' /\ CodexBooks'
      BY <2>1, <2>2 DEF CodexTypes, CodexKeeps, CodexBooks, Kept
    <2>5. CodexCounts'
      BY <2>1, <2>2 DEF CodexKeeps, CodexCounts, Current
    <2>6. CodexHears'
      BY <2>2 DEF CodexHears
    <2> QED  BY <2>3, <2>4, <2>5, <2>6 DEF CodexStep, CodexKeeps
  <1> QED  BY <1>2, <1>3, CodexSame DEF Codex!fail

\* The attempt ends with its session, or once all of it is transcribed again.
LEMMA CodexCompletes ==
    ASSUME ChunksBounded, CodexKeeps, Codex!completed([client EXCEPT !.closed = TRUE]), Kept,
           "codex" \notin Crossing /\ Current /\ attempt.phase = "told" =>
              1..attempt.sent \subseteq attempt.words,
           "codex" \notin Crossing /\ attempt' = attempt /\ client'.finals = client.finals
              /\ (Current => 1..attempt.sent \subseteq attempt.words) => CodexHears'
    PROVE  CodexStep
  <1>1. attempt \in Attempts /\ client \in CodexClients
    BY CodexTyped
  <1> DEFINE c == [client EXCEPT !.closed = TRUE]
  <1>2. /\ c \in CodexClients /\ c = [client EXCEPT !.closed = TRUE]
        /\ c.held = client.held /\ c.posted = client.posted
        /\ c.retranscribe = client.retranscribe /\ c.finish = client.finish /\ Codex!completed(c)
    BY <1>1 DEF CodexClients
  <1> HIDE DEF c
  <1>3. CASE /\ client.retranscribe = TRUE /\ client.finish = TRUE /\ client.held > 0
             /\ client' = [client EXCEPT !.closed = TRUE, !.posted = client.held, !.held = 0] /\ attempt' = attempt
    <2>1. /\ client' \in CodexClients /\ client'.cancelled = client.cancelled /\ client'.pending = client.pending
          /\ client'.held = 0 /\ client'.posted = client.held /\ client'.started = client.started
          /\ client'.finalizing = client.finalizing /\ client'.finish = client.finish
          /\ client'.heard = client.heard /\ client'.finals = client.finals /\ client'.asked = client.asked
          /\ client'.retranscribe = client.retranscribe
          /\ client'.failed = client.failed /\ client'.connecting = client.connecting
      BY <1>1, <1>3 DEF CodexClients
    <2>2. CodexTypes' /\ CodexBooks'
      <3>1. CodexTypes'
        BY <1>1, <1>3, <2>1 DEF CodexTypes, Kept
      <3>2. CodexBooks'
        BY <2>1 DEF CodexKeeps, CodexBooks, Kept
      <3> QED  BY <3>1, <3>2
    <2>3. attempt.phase # "open" /\ client.held = attempt.sent
      BY <1>3 DEF CodexKeeps, CodexCounts
    <2>4. CodexCounts'
      BY <1>3, <2>1, <2>3 DEF CodexKeeps, CodexCounts, Current
    <2>5. "codex" \notin Crossing => CodexHears'
      BY <1>3, <2>1, <2>3 DEF Current
    <2> QED  BY <1>3, <2>2, <2>4, <2>5 DEF CodexStep, CodexKeeps, Promised
  <1>4. CASE /\ client' = [client EXCEPT !.closed = TRUE, !.held = 0]
             /\ attempt' = Ended(attempt, "completed")
    <2>1. /\ client' \in CodexClients /\ client'.cancelled = client.cancelled /\ client'.pending = client.pending
          /\ client'.held = 0 /\ client'.posted = client.posted /\ client'.started = client.started
          /\ client'.finalizing = client.finalizing /\ client'.finish = client.finish
          /\ client'.heard = client.heard /\ client'.finals = client.finals /\ client'.asked = client.asked
          /\ client'.retranscribe = client.retranscribe
      BY <1>1, <1>4 DEF CodexClients
    <2>2. attempt' \in Attempts /\ ~Current' /\ attempt'.sent = attempt.sent
      BY <1>1, <1>4 DEF Ended, Attempts, Phases, Current
    <2>3. CodexTypes' /\ CodexBooks'
      BY <2>1, <2>2 DEF CodexTypes, CodexKeeps, CodexBooks, Kept
    <2>4. CodexCounts'
      BY <2>1, <2>2 DEF CodexKeeps, CodexCounts, Current
    <2>5. ASSUME "codex" \notin Crossing
          PROVE  Promised
      <3>1. CASE Current
        <4>1. /\ attempt.words \subseteq 1..attempt.sent
              /\ attempt.phase = "told" => attempt.owed \subseteq attempt.words
          BY <2>5, <3>1, CodexGoesOn
        <4>2. attempt' = Ended(Accounted(attempt, attempt.words), "completed")
          BY <1>1, <1>4, <3>1 DEF Accounted, Attempts
        <4> QED  BY <1>1, <3>1, <4>1, <4>2, Completes
      <3>2. CASE ~Current
        BY <1>4, <3>2 DEF Ended, Promised
      <3> QED  BY <3>1, <3>2
    <2>6. CodexHears'
      BY <2>2 DEF CodexHears
    <2> QED  BY <2>3, <2>4, <2>5, <2>6 DEF CodexStep, CodexKeeps
  <1>5. /\ c.retranscribe = TRUE /\ c.finish = TRUE /\ c.held > 0 =>
              client' = [c EXCEPT !.posted = client.held, !.held = 0] /\ attempt' = attempt
        /\ ~(c.retranscribe = TRUE /\ c.finish = TRUE /\ c.held > 0) =>
              client' = [c EXCEPT !.held = 0] /\ attempt' = Ended(attempt, "completed")
    BY <1>1, <1>2, CodexSame DEF Codex!completed, CodexClients
  <1>6. /\ [c EXCEPT !.posted = client.held, !.held = 0] = [client EXCEPT !.closed = TRUE, !.posted = client.held, !.held = 0]
        /\ [c EXCEPT !.held = 0] = [client EXCEPT !.closed = TRUE, !.held = 0]
    BY <1>1, <1>2 DEF CodexClients
  <1> QED  BY <1>2, <1>3, <1>4, <1>5, <1>6

\* Nothing that was said is taken back by a call, or by the client's answer to one.
LEMMA CodexHearsStill ==
    ASSUME CodexKeeps, CodexHears, server'.events = server.events, server'.said = server.said,
           client'.finals = client.finals, client'.posted = client.posted, attempt'.words = attempt.words,
           server.closing = TRUE => server'.closing = TRUE,
           Current, attempt'.owed = attempt.owed, attempt'.sent = attempt.sent
    PROVE  CodexHears'
  <1>1. \A k : SaidBefore(k)' = SaidBefore(k)
    BY DEF SaidBefore
  <1> QED  BY <1>1 DEF CodexHears, SaidBefore

LEMMA CodexHearsMore ==
    ASSUME CodexKeeps, CodexHears, server'.events = server.events, server'.said = server.said,
           client'.finals = client.finals, client'.posted = 0, attempt'.words = attempt.words,
           server.closing = FALSE, Current, NEW next \in Nat, next = attempt.sent + 1, attempt'.sent = next,
           attempt'.owed = attempt.owed \cup {next}
    PROVE  CodexHears'
  <1>1. attempt.sent \in Nat /\ attempt.sent <= next
    BY CodexTyped
  <1>2. 1..attempt.sent \subseteq 1..next /\ 0..attempt.sent \subseteq 0..next /\ next \in 1..next
    BY <1>1, Wider
  <1>3. /\ attempt.owed \subseteq 1..attempt.sent /\ attempt.words \subseteq 1..attempt.sent
        /\ server.said \in 0..attempt.sent
        /\ \A n \in client.finals : 1..n \subseteq attempt.words
        /\ SaidBefore(Len(server.events) + 1)
    BY DEF CodexHears
  <1>4. ASSUME NEW i \in DOMAIN server.events
        PROVE  /\ server.events[i].type = "final" => server.events[i].upTo \in 0..next
               /\ server.events[i].type # "closed"
    BY <1>2 DEF CodexHears
  <1>5. SaidBefore(Len(server.events) + 1)'
    BY <1>3 DEF SaidBefore
  <1> QED  BY <1>2, <1>3, <1>4, <1>5 DEF CodexHears

LEMMA JoinsOne ==
    ASSUME NEW s \in Seq(Nat), NEW t \in Seq(Nat), NEW e \in Nat
    PROVE  s \o Append(t, e) = Append(s \o t, e)
  BY Joins

\* An item joins what was asked, with the service or waiting.
Passed(got, pending, asked, item) ==
    /\ Append(asked, item) \in Seq(Nat) /\ Append(pending, item) \in Seq(Nat)
    /\ got \o <<item>> \in Seq(Nat)
    /\ pending = << >> => (got \o <<item>>) \o << >> = Append(asked, item) \o << >>
    /\ got \o Append(pending, item) = Append(asked, item) \o << >>

LEMMA PassesOn ==
    ASSUME NEW got \in Seq(Nat), NEW pending \in Seq(Nat), NEW asked \in Seq(Nat), NEW item \in Nat,
           got \o pending = asked \o << >>
    PROVE  Passed(got, pending, asked, item)
  <1>1. /\ Append(asked, item) \in Seq(Nat) /\ Append(pending, item) \in Seq(Nat)
        /\ got \o <<item>> \in Seq(Nat) /\ got \o <<item>> = Append(got, item)
    BY AppendProperties, AppendIsConcat
  <1>2. asked \o << >> = asked /\ got \o << >> = got /\ Append(asked, item) \o << >> = Append(asked, item)
        /\ Append(got, item) \o << >> = Append(got, item)
    BY <1>1, ConcatEmptySeq
  <1>3. got \o Append(pending, item) = Append(got \o pending, item)
    BY JoinsOne
  <1> QED  BY <1>1, <1>2, <1>3 DEF Passed

\* An item goes out, or waits.
LEMMA CodexPasses ==
    ASSUME ChunksBounded, CodexKeeps, attempt.phase = "open", NEW item \in Nat, NEW c \in CodexClients,
           \E keep \in BOOLEAN, n \in Nat : c = [client EXCEPT !.retranscribe = keep, !.held = n],
           Codex!Pass(c, item)
    PROVE  /\ client' \in CodexClients /\ server' \in CodexServers /\ CodexBooks'
           /\ client'.asked = Append(client.asked, item) /\ client'.held = c.held
           /\ client'.retranscribe = c.retranscribe /\ client'.posted = client.posted
           /\ client'.finish = client.finish /\ client'.closed = client.closed
           /\ client'.cancelled = client.cancelled /\ client'.failed = client.failed
           /\ client'.finals = client.finals
           /\ server'.events = server.events /\ server'.said = server.said /\ server'.closing = server.closing
           /\ client.posted = 0 /\ server.closing = FALSE /\ Current
  <1>1. /\ client \in CodexClients /\ server \in CodexServers /\ client.asked \in Seq(Nat)
        /\ client.pending \in Seq(Nat) /\ server.got \in Seq(Nat) /\ client.posted \in Nat
        /\ client.started \in BOOLEAN /\ client.finalizing \in BOOLEAN
    BY CodexTyped
  <1>2. /\ client.finish = FALSE /\ client.closed = FALSE /\ client.cancelled = FALSE
        /\ client.failed = FALSE /\ client.posted = 0 /\ Current
    BY <1>1 DEF CodexKeeps, CodexCounts, Current
  <1>3. client.finalizing = FALSE /\ server.closing = FALSE /\ server.late = FALSE
    BY <1>1, <1>2 DEF CodexKeeps, CodexBooks
  <1>4. server.got \o client.pending = client.asked \o << >>
    BY <1>2, <1>3 DEF CodexKeeps, CodexBooks
  <1>5. /\ Append(client.asked, item) \in Seq(Nat) /\ Append(client.pending, item) \in Seq(Nat)
        /\ server.got \o <<item>> \in Seq(Nat)
        /\ client.pending = << >> => (server.got \o <<item>>) \o << >> = Append(client.asked, item) \o << >>
        /\ server.got \o Append(client.pending, item) = Append(client.asked, item) \o << >>
    <2>1. Passed(server.got, client.pending, client.asked, item)
      BY <1>1, <1>4, PassesOn
    <2> QED  BY <2>1 DEF Passed
  <1>6. PICK keep \in BOOLEAN, n \in Nat : c = [client EXCEPT !.retranscribe = keep, !.held = n]
    OBVIOUS
  <1>7. /\ c.started = client.started /\ c.finish = FALSE /\ c.finalizing = FALSE /\ c.closed = FALSE
        /\ c.cancelled = FALSE /\ c.failed = FALSE /\ c.asked = client.asked /\ c.pending = client.pending
        /\ c.posted = client.posted /\ c.finals = client.finals /\ c.heard = client.heard
    BY <1>1, <1>2, <1>3, <1>6 DEF CodexClients
  <1>8. CASE client.started = TRUE
    <2>1. /\ client' = [c EXCEPT !.asked = Append(client.asked, item)]
          /\ server' = [server EXCEPT !.got = server.got \o <<item>>]
      BY <1>1, <1>3, <1>7, <1>8 DEF Codex!Pass, Codex!Deaf, Codex!takes, CodexServers
    <2>2. /\ client' \in CodexClients /\ client'.asked = Append(client.asked, item) /\ client'.pending = client.pending
          /\ client'.started = client.started /\ client'.finalizing = FALSE /\ client'.heard = client.heard
          /\ client'.finals = client.finals /\ client'.held = c.held
          /\ client'.retranscribe = c.retranscribe /\ client'.posted = client.posted
          /\ client'.finish = FALSE /\ client'.closed = FALSE /\ client'.cancelled = FALSE
          /\ client'.failed = FALSE
      BY <1>5, <1>7, <2>1 DEF CodexClients
    <2>3. /\ server' \in CodexServers /\ server'.got = server.got \o <<item>> /\ server'.events = server.events
          /\ server'.said = server.said /\ server'.closing = FALSE /\ server'.late = FALSE
      BY <1>1, <1>3, <1>5, <2>1 DEF CodexServers
    <2>4. client.pending = << >>
      BY <1>8 DEF CodexKeeps, CodexBooks
    <2>5. server'.got \o client'.pending = client'.asked \o << >>
      BY <1>5, <2>2, <2>3, <2>4
    <2>6. CodexBooks'
      <3>1. (IF client'.finalizing = TRUE THEN <<0>> ELSE << >>) = << >>
        BY <2>2
      <3>2. server'.got \o client'.pending = client'.asked \o (IF client'.finalizing = TRUE THEN <<0>> ELSE << >>)
        BY <2>5, <3>1
      <3>3. /\ \A i \in DOMAIN client'.heard : client'.heard[i] \in client'.finals
            /\ \A i, j \in DOMAIN client'.heard : client'.heard[i] = client'.heard[j] => i = j
        BY <2>2 DEF CodexKeeps, CodexBooks
      <3> QED  BY <2>2, <2>3, <2>4, <3>2, <3>3 DEF CodexBooks
    <2> QED  BY <1>2, <1>3, <2>2, <2>3, <2>6
  <1>9. CASE client.started = FALSE
    <2>1. /\ client' = [c EXCEPT !.asked = Append(client.asked, item), !.pending = Append(client.pending, item)]
          /\ server' = server
      BY <1>1, <1>3, <1>7, <1>9 DEF Codex!Pass, Codex!Deaf
    <2>2. /\ client' \in CodexClients /\ client'.asked = Append(client.asked, item)
          /\ client'.pending = Append(client.pending, item)
          /\ client'.started = FALSE /\ client'.finalizing = FALSE /\ client'.heard = client.heard
          /\ client'.finals = client.finals /\ client'.held = c.held
          /\ client'.retranscribe = c.retranscribe /\ client'.posted = client.posted
          /\ client'.finish = FALSE /\ client'.closed = FALSE /\ client'.cancelled = FALSE
          /\ client'.failed = FALSE
      BY <1>5, <1>7, <1>9, <2>1 DEF CodexClients
    <2>3. server'.got \o client'.pending = client'.asked \o << >>
      BY <1>5, <2>1, <2>2
    <2>4. CodexBooks'
      <3>1. (IF client'.finalizing = TRUE THEN <<0>> ELSE << >>) = << >>
        BY <2>2
      <3>2. server'.got \o client'.pending = client'.asked \o (IF client'.finalizing = TRUE THEN <<0>> ELSE << >>)
        BY <2>3, <3>1
      <3>3. /\ \A i \in DOMAIN client'.heard : client'.heard[i] \in client'.finals
            /\ \A i, j \in DOMAIN client'.heard : client'.heard[i] = client'.heard[j] => i = j
        BY <2>2 DEF CodexKeeps, CodexBooks
      <3> QED  BY <1>3, <2>1, <2>2, <3>2, <3>3 DEF CodexBooks
    <2> QED  BY <1>1, <1>2, <1>3, <2>1, <2>2, <2>4
  <1> QED  BY <1>1, <1>8, <1>9

LEMMA CodexSends ==
    ASSUME ChunksBounded, CodexKeeps, Codex!sendAudio
    PROVE  CodexStep
  <1>1. attempt \in Attempts /\ client \in CodexClients /\ client.held \in Nat /\ client.posted \in Nat
        /\ client.asked \in Seq(Nat)
    BY CodexTyped
  <1>2. MaySend /\ attempt' = Handed(attempt, TRUE) /\ Codex!Pass(Codex!hold(client), attempt'.sent)
    BY <1>1, CodexSame DEF Codex!sendAudio
  <1>3. PICK next \in Nat : next = attempt.sent + 1
    BY <1>1 DEF Attempts
  <1>4. /\ Promised /\ attempt' \in Attempts /\ Current /\ Current' /\ attempt'.phase = "open"
        /\ attempt'.sent = next /\ attempt'.words = attempt.words
        /\ attempt'.owed = attempt.owed \cup {next} /\ attempt.phase = "open"
    BY <1>1, <1>2, <1>3, Hands
  <1> DEFINE c == Codex!hold(client)
  <1>a. /\ client.retranscribe = FALSE => c = client
        /\ client.retranscribe = TRUE =>
             \/ c = [client EXCEPT !.retranscribe = FALSE, !.held = 0]
             \/ c = [client EXCEPT !.held = client.held + 1]
        /\ Codex!Pass(c, next) /\ client.retranscribe \in BOOLEAN
    BY <1>1, <1>2, <1>4 DEF Codex!hold, CodexClients
  <1> HIDE DEF c
  <1>5. /\ c \in CodexClients
        /\ \E keep \in BOOLEAN, n \in Nat : c = [client EXCEPT !.retranscribe = keep, !.held = n]
        /\ c.held > 0 => c.held = next
        /\ c.retranscribe = TRUE => c.held = next
        /\ c.retranscribe = FALSE => c.held = 0
    <2>1. /\ client.retranscribe = TRUE => client.held = attempt.sent
          /\ client.retranscribe = FALSE => client.held = 0
      BY <1>4 DEF CodexKeeps, CodexCounts
    <2>2. CASE c = [client EXCEPT !.retranscribe = FALSE, !.held = 0]
      <3>1. c \in CodexClients /\ c.held = 0 /\ c.retranscribe = FALSE
        BY <1>1, <2>2 DEF CodexClients
      <3>2. \E keep \in BOOLEAN, n \in Nat : c = [client EXCEPT !.retranscribe = keep, !.held = n]
        BY <2>2
      <3>3. /\ c.held > 0 => c.held = next
            /\ c.retranscribe = TRUE => c.held = next
            /\ c.retranscribe = FALSE => c.held = 0
        BY <3>1
      <3> QED  BY <3>1, <3>2, <3>3, Zenon
    <2>3. CASE client.retranscribe = FALSE
      <3>1. c = [client EXCEPT !.retranscribe = FALSE, !.held = 0]
        BY <1>1, <1>a, <2>1, <2>3 DEF CodexClients
      <3> QED  BY <2>2, <3>1
    <2>4. CASE client.retranscribe = TRUE /\ c = [client EXCEPT !.held = client.held + 1]
      <3>1. c = [client EXCEPT !.retranscribe = TRUE, !.held = next]
        BY <1>1, <1>3, <2>1, <2>4 DEF CodexClients
      <3>2. c \in CodexClients /\ c.held = next /\ c.retranscribe = TRUE
        BY <1>1, <3>1 DEF CodexClients
      <3>3. \E keep \in BOOLEAN, n \in Nat : c = [client EXCEPT !.retranscribe = keep, !.held = n]
        BY <3>1
      <3> QED  BY <3>2, <3>3
    <2> QED  BY <1>a, <2>2, <2>3, <2>4
  <1>6. Codex!Pass(c, next)
    BY <1>a
  <1>7. /\ client' \in CodexClients /\ server' \in CodexServers /\ CodexBooks'
        /\ client'.asked = Append(client.asked, next) /\ client'.held = c.held
        /\ client'.retranscribe = c.retranscribe /\ client'.posted = client.posted
        /\ client'.finish = client.finish /\ client'.closed = client.closed
        /\ client'.cancelled = client.cancelled /\ client'.failed = client.failed
        /\ client'.finals = client.finals
        /\ server'.events = server.events /\ server'.said = server.said /\ server'.closing = server.closing
        /\ client.posted = 0 /\ server.closing = FALSE /\ Current
    BY <1>4, <1>5, <1>6, CodexPasses
  <1>8. CodexCounts'
    <2>1. /\ client.finish = FALSE /\ client.closed = FALSE /\ client.cancelled = FALSE /\ client.failed = FALSE
          /\ Items(client.asked) \ {0} = 1..attempt.sent
      BY <1>4 DEF CodexKeeps, CodexCounts
    <2>2. Items(client'.asked) \ {0} = 1..next
      <3>1. Items(client'.asked) = Items(client.asked) \cup {next}
        BY <1>1, <1>7, ItemsOfMore
      <3>2. 1..next = (1..attempt.sent) \cup {next} /\ next # 0
        BY <1>1, <1>3 DEF Attempts
      <3> QED  BY <2>1, <3>1, <3>2
    <2>3. c.retranscribe = FALSE => c.held = 0
      BY <1>5
    <2> QED  BY <1>4, <1>5, <1>7, <2>1, <2>2, <2>3 DEF CodexCounts
  <1>9. "codex" \notin Crossing => CodexHears'
    BY <1>3, <1>4, <1>7, CodexHearsMore DEF CodexKeeps
  <1> QED  BY <1>4, <1>7, <1>8, <1>9 DEF CodexStep, CodexKeeps, CodexTypes

LEMMA CodexEndsUtterance ==
    ASSUME ChunksBounded, CodexKeeps, Codex!endUtterance
    PROVE  CodexStep
  <1>1. attempt \in Attempts /\ client \in CodexClients /\ client.asked \in Seq(Nat)
        /\ attempt' = attempt /\ attempt.phase = "open" /\ Codex!Pass(client, 0)
    BY CodexTyped DEF Codex!endUtterance, Codex!Flush
  <1>2. \E keep \in BOOLEAN, n \in Nat : client = [client EXCEPT !.retranscribe = keep, !.held = n]
    <2>1. client = [client EXCEPT !.retranscribe = client.retranscribe, !.held = client.held]
      BY <1>1 DEF CodexClients
    <2> QED  BY <2>1, CodexTyped
  <1>3. /\ client' \in CodexClients /\ server' \in CodexServers /\ CodexBooks'
        /\ client'.asked = Append(client.asked, 0) /\ client'.held = client.held
        /\ client'.retranscribe = client.retranscribe /\ client'.posted = client.posted
        /\ client'.finish = client.finish /\ client'.closed = client.closed
        /\ client'.cancelled = client.cancelled /\ client'.failed = client.failed
        /\ client'.finals = client.finals
        /\ server'.events = server.events /\ server'.said = server.said /\ server'.closing = server.closing
        /\ client.posted = 0 /\ server.closing = FALSE /\ Current
    BY <1>1, <1>2, CodexPasses
  <1>4. CodexCounts'
    <2>1. Items(client'.asked) \ {0} = Items(client.asked) \ {0}
      <3>1. Items(client'.asked) = Items(client.asked) \cup {0}
        BY <1>1, <1>3, ItemsOfMore
      <3> QED  BY <3>1
    <2> QED  BY <1>1, <1>3, <2>1 DEF CodexKeeps, CodexCounts, Current
  <1>5. "codex" \notin Crossing => CodexHears'
    BY <1>1, <1>3, CodexHearsStill DEF CodexKeeps
  <1> QED  BY <1>1, <1>3, <1>4, <1>5 DEF CodexStep, CodexKeeps, CodexTypes, Promised

LEMMA CodexBooksStay ==
    ASSUME CodexKeeps,
           client'.started = client.started, client'.finalizing = client.finalizing,
           client'.pending = client.pending, client'.asked = client.asked, client'.heard = client.heard,
           client'.finals = client.finals, client'.cancelled = client.cancelled,
           client'.finish = client.finish,
           server'.got = server.got, server'.closing = server.closing, server'.late = server.late
    PROVE  CodexBooks'
  <1>1. client'.cancelled = FALSE =>
           server'.got \o client'.pending = client'.asked \o (IF client'.finalizing = TRUE THEN <<0>> ELSE << >>)
    BY DEF CodexKeeps, CodexBooks
  <1>2. /\ \A i \in DOMAIN client'.heard : client'.heard[i] \in client'.finals
        /\ \A i, j \in DOMAIN client'.heard : client'.heard[i] = client'.heard[j] => i = j
    BY DEF CodexKeeps, CodexBooks
  <1> QED  BY <1>1, <1>2 DEF CodexKeeps, CodexBooks

LEMMA EndPasses ==
    ASSUME NEW got \in Seq(Nat), NEW asked \in Seq(Nat), got \o << >> = asked \o << >>
    PROVE  got \o <<0>> \in Seq(Nat) /\ (got \o <<0>>) \o << >> = asked \o <<0>>
  <1>1. got \o <<0>> \in Seq(Nat)
    <2>1. <<0>> \in Seq(Nat)
      OBVIOUS
    <2> QED  BY <2>1, ConcatProperties
  <1>2. got \o << >> = got /\ asked \o << >> = asked /\ (got \o <<0>>) \o << >> = got \o <<0>>
    BY <1>1, ConcatEmptySeq
  <1> QED  BY <1>1, <1>2

\* All that waits goes, the last flush and the close behind it.
LEMMA CodexCloses ==
    ASSUME ChunksBounded, CodexKeeps, NEW c \in CodexClients, Codex!requestFinalization(c),
           c.started = client.started, c.finalizing = client.finalizing, c.closed = client.closed,
           c.failed = client.failed, c.pending = client.pending, c.asked = client.asked, c.heard = client.heard,
           c.finals = client.finals, c.cancelled = client.cancelled, c.held = client.held,
           c.posted = client.posted, c.retranscribe = client.retranscribe, c.finish = TRUE
    PROVE  /\ client' \in CodexClients /\ server' \in CodexServers /\ CodexBooks'
           /\ client'.asked = client.asked /\ client'.held = client.held
           /\ client'.retranscribe = client.retranscribe /\ client'.posted = client.posted
           /\ client'.finish = TRUE /\ client'.closed = client.closed
           /\ client'.cancelled = client.cancelled /\ client'.failed = client.failed
           /\ client'.finals = client.finals /\ client'.connecting = c.connecting
           /\ client'.started = client.started
           /\ server'.events = server.events /\ server'.said = server.said
           /\ server.closing = TRUE => server'.closing = TRUE
           /\ client.started = TRUE /\ client.closed = FALSE /\ client.failed = FALSE => client'.finalizing = TRUE
  <1>1. /\ client \in CodexClients /\ server \in CodexServers /\ client.asked \in Seq(Nat)
        /\ client.pending \in Seq(Nat) /\ server.got \in Seq(Nat)
        /\ client.started \in BOOLEAN /\ client.finalizing \in BOOLEAN /\ client.closed \in BOOLEAN
        /\ client.failed \in BOOLEAN
    BY CodexTyped
  <1>2. /\ server.late = FALSE /\ server.closing = client.finalizing
        /\ client.finalizing = TRUE => client.started = TRUE
        /\ client.started = TRUE => client.pending = << >>
        /\ \A i \in DOMAIN client.heard : client.heard[i] \in client.finals
        /\ \A i, j \in DOMAIN client.heard : client.heard[i] = client.heard[j] => i = j
    BY DEF CodexKeeps, CodexBooks
  <1>3. client.cancelled = FALSE =>
           server.got \o client.pending = client.asked \o (IF client.finalizing = TRUE THEN <<0>> ELSE << >>)
    BY DEF CodexKeeps, CodexBooks
  <1>4. CASE client.started = FALSE \/ client.finalizing = TRUE \/ client.closed = TRUE \/ client.failed = TRUE
    <2>1. client' = c /\ server' = server
      BY <1>1, <1>4 DEF Codex!requestFinalization
    <2>2. CodexBooks'
      <3>1. /\ client'.started = client.started /\ client'.finalizing = client.finalizing
            /\ client'.pending = client.pending /\ client'.asked = client.asked /\ client'.heard = client.heard
            /\ client'.finals = client.finals /\ client'.cancelled = client.cancelled /\ client'.finish = TRUE
            /\ server'.got = server.got /\ server'.closing = server.closing /\ server'.late = server.late
        BY <2>1
      <3>2. client'.cancelled = FALSE =>
               server'.got \o client'.pending = client'.asked \o (IF client'.finalizing = TRUE THEN <<0>> ELSE << >>)
        BY <1>3, <3>1
      <3>9. /\ \A i \in DOMAIN client'.heard : client'.heard[i] \in client'.finals
            /\ \A i, j \in DOMAIN client'.heard : client'.heard[i] = client'.heard[j] => i = j
        BY <1>2, <3>1
      <3> QED  BY <1>2, <3>1, <3>2, <3>9 DEF CodexBooks
    <2> QED  BY <1>1, <1>2, <1>4, <2>1, <2>2
  <1>5. CASE client.started = TRUE /\ client.finalizing = FALSE /\ client.closed = FALSE /\ client.failed = FALSE
    <2>1. client.pending = << >>
      BY <1>2, <1>5
    <2>2. client' = [c EXCEPT !.finalizing = TRUE, !.pending = << >>]
      BY <1>1, <1>5 DEF Codex!requestFinalization
    <2>3. server' = [Codex!takes(server, <<0>>) EXCEPT !.closing = TRUE]
      BY <1>1, <1>5, <2>1 DEF Codex!requestFinalization, Codex!flushPendingAudio, Codex!Flush
    <2>4. server.got \o <<0>> \in Seq(Nat)
      <3>1. <<0>> \in Seq(Nat)
        OBVIOUS
      <3> QED  BY <1>1, <3>1, ConcatProperties
    <2>5. /\ server' \in CodexServers /\ server'.got = server.got \o <<0>> /\ server'.events = server.events
          /\ server'.said = server.said /\ server'.closing = TRUE /\ server'.late = FALSE
      <3>1. server' = [server EXCEPT !.got = server.got \o <<0>>, !.closing = TRUE]
        BY <1>1, <1>2, <1>5, <2>3 DEF Codex!takes, CodexServers
      <3> QED  BY <1>1, <1>2, <2>4, <3>1 DEF CodexServers
    <2>6. << >> \in Seq(Nat)
      OBVIOUS
    <2>7. /\ client' \in CodexClients /\ client'.asked = client.asked /\ client'.held = client.held
          /\ client'.retranscribe = client.retranscribe /\ client'.posted = client.posted
          /\ client'.finish = TRUE /\ client'.closed = client.closed
          /\ client'.cancelled = client.cancelled /\ client'.failed = client.failed
          /\ client'.finals = client.finals /\ client'.connecting = c.connecting
          /\ client'.started = client.started /\ client'.finalizing = TRUE /\ client'.pending = << >>
          /\ client'.heard = client.heard
      BY <2>2, <2>6 DEF CodexClients
    <2>8. client.cancelled = FALSE =>
             server'.got \o client'.pending = client'.asked \o (IF client'.finalizing = TRUE THEN <<0>> ELSE << >>)
      <3>1. SUFFICES ASSUME client.cancelled = FALSE
                     PROVE  server'.got \o client'.pending = client'.asked \o <<0>>
        BY <2>7
      <3>2. server.got \o << >> = client.asked \o << >>
        BY <1>3, <1>5, <2>1, <3>1
      <3>3. (server.got \o <<0>>) \o << >> = client.asked \o <<0>>
        BY <1>1, <3>2, EndPasses, Zenon
      <3> QED  BY <2>5, <2>7, <3>3
    <2>9. CodexBooks'
      <3>1. /\ \A i \in DOMAIN client'.heard : client'.heard[i] \in client'.finals
            /\ \A i, j \in DOMAIN client'.heard : client'.heard[i] = client'.heard[j] => i = j
        BY <1>2, <2>7
      <3>2. client'.cancelled = FALSE =>
               server'.got \o client'.pending = client'.asked \o (IF client'.finalizing = TRUE THEN <<0>> ELSE << >>)
        BY <2>7, <2>8
      <3> QED  BY <1>5, <2>5, <2>7, <3>1, <3>2 DEF CodexBooks
    <2> QED  BY <1>5, <2>5, <2>7, <2>9
  <1> QED  BY <1>1, <1>4, <1>5

LEMMA CodexFinishes ==
    ASSUME ChunksBounded, CodexKeeps, Codex!finishInput
    PROVE  CodexStep
  <1> DEFINE c == [client EXCEPT !.finish = TRUE]
  <1>1. attempt \in Attempts /\ client \in CodexClients /\ attempt.phase = "open" /\ MayFinish /\ attempt' = Told
    BY CodexTyped, CodexSame DEF Codex!finishInput, MayFinish
  <1>2. /\ client.finish = FALSE /\ client.closed = FALSE /\ client.cancelled = FALSE
        /\ client.failed = FALSE /\ client.posted = 0 /\ Current /\ client.finalizing = FALSE
    <2>1. client.finish = FALSE /\ client.closed = FALSE /\ client.cancelled = FALSE
          /\ client.failed = FALSE /\ Current /\ (client.posted > 0 => client.finish = TRUE)
      BY <1>1 DEF CodexKeeps, CodexCounts, Current
    <2>2. client.finalizing = FALSE
      BY <1>1, <2>1 DEF CodexKeeps, CodexBooks, CodexClients
    <2>3. client.posted = 0
      BY <1>1, <2>1 DEF CodexClients
    <2> QED  BY <2>1, <2>2, <2>3
  <1>3. Codex!requestFinalization(c)
    BY <1>1, <1>2 DEF Codex!finishInput, Codex!Deaf, CodexClients
  <1>4. /\ c \in CodexClients
        /\ c.started = client.started /\ c.finalizing = client.finalizing /\ c.closed = client.closed
        /\ c.failed = client.failed /\ c.pending = client.pending /\ c.asked = client.asked /\ c.heard = client.heard
        /\ c.finals = client.finals /\ c.cancelled = client.cancelled /\ c.held = client.held
        /\ c.posted = client.posted /\ c.retranscribe = client.retranscribe /\ c.finish = TRUE
        /\ c.connecting = client.connecting
    BY <1>1 DEF CodexClients
  <1> HIDE DEF c
  <1>5. /\ client' \in CodexClients /\ server' \in CodexServers /\ CodexBooks'
        /\ client'.asked = client.asked /\ client'.held = client.held
        /\ client'.retranscribe = client.retranscribe /\ client'.posted = client.posted
        /\ client'.finish = TRUE /\ client'.closed = client.closed
        /\ client'.cancelled = client.cancelled /\ client'.failed = client.failed
        /\ client'.finals = client.finals /\ client'.connecting = c.connecting
        /\ client'.started = client.started
        /\ server'.events = server.events /\ server'.said = server.said
        /\ server.closing = TRUE => server'.closing = TRUE
        /\ client.started = TRUE /\ client.closed = FALSE /\ client.failed = FALSE => client'.finalizing = TRUE
    BY <1>3, <1>4, CodexCloses
  <1>6. attempt' = [attempt EXCEPT !.phase = "told"]
    BY <1>1 DEF Told
  <1>7. /\ attempt' \in Attempts /\ attempt'.phase = "told" /\ Current' /\ attempt'.sent = attempt.sent
        /\ attempt'.words = attempt.words /\ attempt'.owed = attempt.owed
    BY <1>1, <1>6 DEF Attempts, Phases, Current
  <1>8. CodexCounts'
    BY <1>2, <1>5, <1>7 DEF CodexKeeps, CodexCounts, Current
  <1>9. "codex" \notin Crossing => CodexHears' /\ Promised
    <2>1. SUFFICES ASSUME "codex" \notin Crossing
                   PROVE  CodexHears' /\ Promised
      OBVIOUS
    <2>2. CodexHears'
      BY <1>2, <1>5, <1>7, <2>1, CodexHearsStill DEF CodexKeeps
    <2>3. attempt.words \subseteq 1..attempt.sent
      BY <1>2, <2>1, CodexGoesOn
    <2> QED  BY <1>1, <2>2, <2>3, Finishes
  <1> QED  BY <1>5, <1>7, <1>8, <1>9 DEF CodexStep, CodexKeeps, CodexTypes

LEMMA CodexTellsOfConnection ==
    ASSUME ChunksBounded, CodexKeeps, Codex!ConnectedTold
    PROVE  CodexStep
  <1> DEFINE c == [client EXCEPT !.connecting = FALSE]
  <1>1. /\ attempt \in Attempts /\ client \in CodexClients /\ attempt' = attempt /\ client.finish \in BOOLEAN
        /\ IF c.finish THEN Codex!requestFinalization(c) ELSE client' = c /\ server' = server
    BY CodexTyped DEF Codex!ConnectedTold
  <1>2. /\ c \in CodexClients
        /\ c.started = client.started /\ c.finalizing = client.finalizing /\ c.closed = client.closed
        /\ c.failed = client.failed /\ c.pending = client.pending /\ c.asked = client.asked /\ c.heard = client.heard
        /\ c.finals = client.finals /\ c.cancelled = client.cancelled /\ c.held = client.held
        /\ c.posted = client.posted /\ c.retranscribe = client.retranscribe /\ c.finish = client.finish
        /\ c.connecting = FALSE
    BY <1>1 DEF CodexClients
  <1> HIDE DEF c
  <1>3. CASE client.finish = TRUE
    <2>1. /\ client' \in CodexClients /\ server' \in CodexServers /\ CodexBooks'
          /\ client'.asked = client.asked /\ client'.held = client.held
          /\ client'.retranscribe = client.retranscribe /\ client'.posted = client.posted
          /\ client'.finish = TRUE /\ client'.closed = client.closed
          /\ client'.cancelled = client.cancelled /\ client'.failed = client.failed
          /\ client'.finals = client.finals /\ client'.connecting = c.connecting
          /\ client'.started = client.started
          /\ server'.events = server.events /\ server'.said = server.said
          /\ server.closing = TRUE => server'.closing = TRUE
          /\ client.started = TRUE /\ client.closed = FALSE /\ client.failed = FALSE => client'.finalizing = TRUE
      BY <1>1, <1>2, <1>3, CodexCloses
    <2>2. CodexCounts'
      BY <1>1, <1>3, <2>1 DEF CodexKeeps, CodexCounts, Current
    <2>3. "codex" \notin Crossing => CodexHears'
      <3>1. CASE Current
        BY <1>1, <2>1, <3>1, CodexHearsStill DEF CodexKeeps
      <3>2. CASE ~Current
        BY <1>1, <3>2 DEF CodexHears, Current
      <3> QED  BY <3>1, <3>2
    <2> QED  BY <1>1, <2>1, <2>2, <2>3 DEF CodexStep, CodexKeeps, CodexTypes, Promised
  <1>4. CASE client.finish = FALSE
    <2>1. client' = c /\ server' = server
      BY <1>1, <1>2, <1>4
    <2>2. CodexTypes' /\ CodexBooks'
      <3>1. CodexTypes'
        BY <1>1, <1>2, <2>1 DEF CodexKeeps, CodexTypes
      <3>2. CodexBooks'
        BY <1>2, <2>1, CodexBooksStay
      <3> QED  BY <3>1, <3>2
    <2>3. CodexCounts'
      BY <1>1, <1>2, <1>4, <2>1 DEF CodexKeeps, CodexCounts, Current
    <2>4. "codex" \notin Crossing => CodexHears'
      <3>1. CASE Current
        BY <1>1, <1>2, <2>1, <3>1, CodexHearsStill DEF CodexKeeps
      <3>2. CASE ~Current
        BY <1>1, <3>2 DEF CodexHears, Current
      <3> QED  BY <3>1, <3>2
    <2> QED  BY <1>1, <2>2, <2>3, <2>4 DEF CodexStep, CodexKeeps, Promised
  <1> QED  BY <1>1, <1>3, <1>4

LEMMA CodexKeepsAlive ==
    ASSUME ChunksBounded, CodexKeeps, Codex!KeepAlive
    PROVE  CodexStep
  <1>1. /\ server \in CodexServers /\ server.got \in Seq(Nat) /\ attempt' = attempt /\ client' = client
        /\ server' = Codex!takes(server, << >>) /\ client.finalizing = FALSE
    BY CodexTyped DEF Codex!KeepAlive
  <1>2. server.got \o << >> = server.got
    BY <1>1, ConcatEmptySeq, Zenon
  <1>3. server.closing = FALSE /\ server.late = FALSE
    BY <1>1 DEF CodexKeeps, CodexBooks
  <1>4. server' = [server EXCEPT !.got = server.got, !.late = FALSE]
    BY <1>1, <1>2, <1>3 DEF Codex!takes, CodexServers
  <1>5. server' = server
    BY <1>1, <1>3, <1>4 DEF CodexServers
  <1> QED  BY <1>1, <1>5, CodexRests

\* What waited goes out with the session's start.
LEMMA CodexSessionStarts ==
    ASSUME ChunksBounded, CodexKeeps, Codex!SessionStarted
    PROVE  CodexStep
  <1>1. /\ client \in CodexClients /\ server \in CodexServers /\ client.asked \in Seq(Nat)
        /\ client.pending \in Seq(Nat) /\ server.got \in Seq(Nat) /\ attempt' = attempt /\ attempt \in Attempts
        /\ client.started \in BOOLEAN /\ client.finalizing \in BOOLEAN
    BY CodexTyped DEF Codex!SessionStarted
  <1>2. CASE client.started = TRUE
    BY <1>1, <1>2, CodexRests DEF Codex!SessionStarted
  <1>3. CASE client.started = FALSE
    <2>1. client.finalizing = FALSE /\ server.closing = FALSE /\ server.late = FALSE
      BY <1>1, <1>3 DEF CodexKeeps, CodexBooks
    <2>2. /\ client' = [client EXCEPT !.started = TRUE, !.connecting = TRUE, !.pending = << >>]
          /\ server' = Codex!flushPendingAudio(client, server)
      BY <1>3 DEF Codex!SessionStarted
    <2>3. << >> \in Seq(Nat) /\ server.got \o client.pending \in Seq(Nat) /\ server.got \o << >> = server.got
          /\ (server.got \o client.pending) \o << >> = server.got \o client.pending
      <3>1. << >> \in Seq(Nat)
        OBVIOUS
      <3>2. server.got \o client.pending \in Seq(Nat)
        BY <1>1, ConcatProperties
      <3> QED  BY <1>1, <3>1, <3>2, ConcatEmptySeq, Zenon
    <2>4. /\ client' \in CodexClients /\ client'.asked = client.asked /\ client'.held = client.held
          /\ client'.retranscribe = client.retranscribe /\ client'.posted = client.posted
          /\ client'.finish = client.finish /\ client'.closed = client.closed
          /\ client'.cancelled = client.cancelled /\ client'.failed = client.failed
          /\ client'.finals = client.finals /\ client'.connecting = TRUE
          /\ client'.started = TRUE /\ client'.finalizing = FALSE /\ client'.pending = << >>
          /\ client'.heard = client.heard
      BY <1>1, <2>1, <2>2, <2>3 DEF CodexClients
    <2>5. /\ server' \in CodexServers /\ server'.got = server.got \o client.pending
          /\ server'.events = server.events
          /\ server'.said = server.said /\ server'.closing = FALSE /\ server'.late = FALSE
      <3>1. CASE client.pending = << >>
        <4>1. server' = server
          BY <2>2, <3>1 DEF Codex!flushPendingAudio
        <4> QED  BY <1>1, <2>1, <2>3, <3>1, <4>1
      <3>2. CASE client.pending # << >>
        <4>1. server' = [server EXCEPT !.got = server.got \o client.pending]
          BY <1>1, <2>1, <2>2, <3>2 DEF Codex!flushPendingAudio, Codex!takes, CodexServers
        <4> QED  BY <1>1, <2>1, <2>3, <4>1 DEF CodexServers
      <3> QED  BY <3>1, <3>2
    <2>6. CodexBooks'
      <3>1. client.cancelled = FALSE => server.got \o client.pending = client.asked \o << >>
        BY <2>1 DEF CodexKeeps, CodexBooks
      <3>2. (IF client'.finalizing = TRUE THEN <<0>> ELSE << >>) = << >>
        BY <2>4
      <3>3. client'.cancelled = FALSE =>
               server'.got \o client'.pending = client'.asked \o (IF client'.finalizing = TRUE THEN <<0>> ELSE << >>)
        BY <2>3, <2>4, <2>5, <3>1, <3>2
      <3>4. /\ \A i \in DOMAIN client'.heard : client'.heard[i] \in client'.finals
            /\ \A i, j \in DOMAIN client'.heard : client'.heard[i] = client'.heard[j] => i = j
        BY <2>4 DEF CodexKeeps, CodexBooks
      <3> QED  BY <2>4, <2>5, <3>3, <3>4 DEF CodexBooks
    <2>7. CodexCounts'
      BY <1>1, <2>4 DEF CodexKeeps, CodexCounts, Current
    <2>8. "codex" \notin Crossing => CodexHears'
      <3>1. CASE Current
        BY <1>1, <2>1, <2>4, <2>5, <3>1, CodexHearsStill DEF CodexKeeps
      <3>2. CASE ~Current
        BY <1>1, <3>2 DEF CodexHears, Current
      <3> QED  BY <3>1, <3>2
    <2> QED  BY <1>1, <2>4, <2>5, <2>6, <2>7, <2>8 DEF CodexStep, CodexKeeps, CodexTypes, Promised
  <1> QED  BY <1>1, <1>2, <1>3

-----------------------------------------------------------------------------
\* What is left of a sequence behind its head.
LeftOf(rest, s) ==
    /\ Head(s) = s[1] /\ 1 \in DOMAIN s /\ Len(rest) \in Nat /\ Len(s) = Len(rest) + 1
    /\ \A i \in DOMAIN rest : i \in Nat \ {0} /\ i + 1 \in DOMAIN s /\ rest[i] = s[i + 1]
    /\ \A j \in DOMAIN s : j \in Nat /\ (j # 1 => j - 1 \in DOMAIN rest /\ rest[j - 1] = s[j])

LEMMA TailLeaves ==
    ASSUME NEW E, NEW s \in Seq(E), s # << >>, NEW rest, rest = Tail(s)
    PROVE  LeftOf(rest, s) /\ rest \in Seq(E) /\ Head(s) \in E
  <1>1. /\ rest \in Seq(E) /\ Len(rest) = Len(s) - 1 /\ Len(s) \in Nat \ {0}
        /\ DOMAIN rest = 1..Len(rest) /\ DOMAIN s = 1..Len(s)
        /\ \A i \in 1..Len(rest) : rest[i] = s[i + 1]
        /\ Head(s) = s[1] /\ Head(s) \in E
    BY HeadTailProperties
  <1> QED  BY <1>1 DEF LeftOf

\* What a sequence is with one more.
OneMore(whole, s, e) ==
    /\ Len(s) \in Nat /\ Len(whole) = Len(s) + 1 /\ whole[Len(s) + 1] = e
    /\ DOMAIN whole = 1..(Len(s) + 1) /\ DOMAIN s = 1..Len(s)
    /\ \A i \in DOMAIN s : whole[i] = s[i]

LEMMA AppendAdds ==
    ASSUME NEW E, NEW s \in Seq(E), NEW e \in E, NEW whole, whole = Append(s, e)
    PROVE  OneMore(whole, s, e) /\ whole \in Seq(E)
  <1>1. /\ whole \in Seq(E) /\ Len(whole) = Len(s) + 1 /\ Len(s) \in Nat
        /\ \A i \in 1..Len(s) : whole[i] = s[i]
        /\ whole[Len(s) + 1] = e
    BY AppendProperties
  <1>2. DOMAIN whole = 1..(Len(s) + 1) /\ DOMAIN s = 1..Len(s)
    BY <1>1
  <1> QED  BY <1>1, <1>2 DEF OneMore

LEMMA CodexTakesEvent ==
    ASSUME CodexKeeps, server.events # << >>, server' = [server EXCEPT !.events = Tail(server.events)]
    PROVE  /\ Kept /\ LeftOf(server'.events, server.events) /\ Head(server.events) \in CodexEvents
  <1>1. server \in CodexServers /\ server.events \in Seq(CodexEvents)
    BY CodexTyped
  <1>2. server'.events = Tail(server.events)
    BY <1>1 DEF CodexServers
  <1>3. LeftOf(server'.events, server.events) /\ server'.events \in Seq(CodexEvents)
        /\ Head(server.events) \in CodexEvents
    BY <1>1, <1>2, TailLeaves
  <1> QED  BY <1>1, <1>3 DEF CodexServers, Kept

\* An event that was read leaves the others as true as they were.
LEMMA CodexAfterEvent ==
    ASSUME CodexKeeps, CodexHears, Current, server.events # << >>,
           server' = [server EXCEPT !.events = Tail(server.events)],
           attempt'.sent = attempt.sent, attempt'.owed = attempt.owed,
           attempt'.words \subseteq 1..attempt.sent, attempt.words \subseteq attempt'.words,
           Head(server.events).type = "final" => 1..Head(server.events).upTo \subseteq attempt'.words,
           \A n \in client'.finals : 1..n \subseteq attempt'.words,
           client'.posted > 0 => 1..attempt.sent \subseteq attempt'.words
    PROVE  CodexHears'
  <1>1. /\ server'.said = server.said /\ server'.closing = server.closing
        /\ LeftOf(server'.events, server.events)
    BY CodexTakesEvent DEF Kept
  <1>2. ASSUME NEW k \in Nat, SaidBefore(k + 1)
        PROVE  SaidBefore(k)'
    <2>1. CASE 1..server.said \subseteq attempt.words
      BY <1>1, <2>1 DEF SaidBefore
    <2>2. ASSUME NEW j \in DOMAIN server.events, j < k + 1, server.events[j].type = "final",
                 server.events[j].upTo = server.said
          PROVE  SaidBefore(k)'
      <3>1. CASE j = 1
        <4>1. 1..server.said \subseteq attempt'.words
          BY <1>1, <2>2, <3>1 DEF LeftOf
        <4> QED  BY <1>1, <4>1 DEF SaidBefore
      <3>2. CASE j # 1
        <4>1. /\ j \in Nat /\ j - 1 \in DOMAIN server'.events /\ server'.events[j - 1] = server.events[j]
          BY <1>1, <3>2 DEF LeftOf
        <4>2. j - 1 < k
          BY <2>2, <4>1
        <4> QED  BY <1>1, <2>2, <4>1, <4>2 DEF SaidBefore
      <3> QED  BY <3>1, <3>2
    <2> QED  BY <1>2, <2>1, <2>2 DEF SaidBefore
  <1>3. /\ attempt.owed \subseteq 1..attempt.sent /\ server.said \in 0..attempt.sent
        /\ SaidBefore(Len(server.events) + 1)
        /\ \A i \in DOMAIN server.events :
             /\ server.events[i].type = "final" => server.events[i].upTo \in 0..attempt.sent
             /\ server.events[i].type = "closed" =>
                   server.closing = TRUE /\ server.said = attempt.sent /\ SaidBefore(i)
    BY DEF CodexHears
  <1>4. ASSUME NEW i \in DOMAIN server'.events
        PROVE  /\ server'.events[i].type = "final" => server'.events[i].upTo \in 0..attempt.sent
               /\ server'.events[i].type = "closed" =>
                     server.closing = TRUE /\ server.said = attempt.sent /\ SaidBefore(i)'
    <2>1. i \in Nat /\ i + 1 \in DOMAIN server.events /\ server'.events[i] = server.events[i + 1]
      BY <1>1 DEF LeftOf
    <2>2. PICK next \in DOMAIN server.events : next = i + 1
      BY <2>1
    <2>3. /\ server.events[next].type = "final" => server.events[next].upTo \in 0..attempt.sent
          /\ server.events[next].type = "closed" =>
                server.closing = TRUE /\ server.said = attempt.sent /\ SaidBefore(next)
      BY <1>3
    <2> QED  BY <1>2, <2>1, <2>2, <2>3
  <1>5. SaidBefore(Len(server.events) + 1)'
    <2>1. Len(server'.events) \in Nat /\ Len(server.events) = Len(server'.events) + 1
      BY <1>1 DEF LeftOf
    <2>2. PICK n \in Nat : n = Len(server.events)
      BY <2>1
    <2>3. SaidBefore(n)'
      BY <1>2, <1>3, <2>2
    <2>4. Len(server'.events) + 1 = n
      BY <2>1, <2>2
    <2> QED  BY <2>3, <2>4 DEF SaidBefore
  <1>6. \A i \in DOMAIN server'.events :
          /\ server'.events[i].type = "final" => server'.events[i].upTo \in 0..attempt'.sent
          /\ server'.events[i].type = "closed" =>
                server'.closing = TRUE /\ server'.said = attempt'.sent /\ SaidBefore(i)'
    BY <1>1, <1>4
  <1>7. /\ attempt'.owed \subseteq 1..attempt'.sent /\ attempt'.words \subseteq 1..attempt'.sent
        /\ server'.said \in 0..attempt'.sent
        /\ client'.posted > 0 => 1..attempt'.sent \subseteq attempt'.words
    BY <1>1, <1>3
  <1> QED  BY <1>5, <1>6, <1>7 DEF CodexHears, SaidBefore

LEMMA CodexHearsAll ==
    ASSUME CodexKeeps, CodexHears, server' = server, attempt' = attempt, client'.finals = client.finals,
           Current => 1..attempt.sent \subseteq attempt.words
    PROVE  CodexHears'
  <1>1. \A k : SaidBefore(k)' = SaidBefore(k)
    BY DEF SaidBefore
  <1> QED  BY <1>1 DEF CodexHears, SaidBefore, Current

LEMMA CodexHearsTheSame ==
    ASSUME CodexKeeps, "codex" \notin Crossing, UNCHANGED <<attempt, client, server>>
    PROVE  CodexHears'
  BY CodexRests DEF CodexStep, CodexKeeps

LEMMA CodexDisconnects ==
    ASSUME ChunksBounded, CodexKeeps, Codex!Disconnected
    PROVE  CodexStep
  <1>1. server' = server /\ Kept /\ client \in CodexClients
    BY CodexTyped DEF Codex!Disconnected, Kept
  <1>2. CASE UNCHANGED <<client, attempt>>
    BY <1>1, <1>2, CodexRests
  <1>3. CASE Codex!completed([client EXCEPT !.closed = TRUE]) /\ client.finish = FALSE
    <2>1. attempt.phase # "told"
      BY <1>3 DEF CodexKeeps, CodexCounts
    <2>2. ASSUME "codex" \notin Crossing, attempt' = attempt, client'.finals = client.finals,
                 Current => 1..attempt.sent \subseteq attempt.words
          PROVE  CodexHears'
      BY <1>1, <2>2, CodexHearsAll DEF CodexKeeps
    <2> QED  BY <1>1, <1>3, <2>1, <2>2, CodexCompletes
  <1>4. CASE Codex!fail(client, attempt)
    BY <1>1, <1>4, CodexFails, CodexHearsTheSame
  <1> QED  BY <1>1, <1>2, <1>3, <1>4 DEF Codex!Disconnected, Codex!Live, CodexClients

LEMMA CodexErrs ==
    ASSUME ChunksBounded, CodexKeeps, Codex!ErrorOccurred
    PROVE  CodexStep
  <1>1. server' = server /\ Kept
    BY CodexTyped DEF Codex!ErrorOccurred, Kept
  <1>2. CASE UNCHANGED <<client, attempt>>
    BY <1>1, <1>2, CodexRests
  <1>3. CASE Codex!fail(client, attempt)
    BY <1>1, <1>3, CodexFails, CodexHearsTheSame
  <1> QED  BY <1>2, <1>3 DEF Codex!ErrorOccurred

LEMMA CodexTimesOut ==
    ASSUME ChunksBounded, CodexKeeps, Codex!Timeout
    PROVE  CodexStep
  <1>1. server' = server /\ Kept
    BY CodexTyped DEF Codex!Timeout, Kept
  <1>2. CASE UNCHANGED <<client, attempt>>
    BY <1>1, <1>2, CodexRests
  <1>3. CASE Codex!fail(client, attempt)
    BY <1>1, <1>3, CodexFails, CodexHearsTheSame
  <1> QED  BY <1>2, <1>3 DEF Codex!Timeout

\* A session that closes, with what is left of the events.
LEMMA CodexSessionCloses ==
    ASSUME ChunksBounded, CodexKeeps, Codex!SessionClosed, Kept,
           "codex" \notin Crossing /\ Current /\ attempt.phase = "told" /\ client.closed = FALSE =>
              1..attempt.sent \subseteq attempt.words,
           "codex" \notin Crossing /\ attempt' = attempt /\ client'.finals = client.finals
              /\ (Current /\ client'.posted > 0 => 1..attempt.sent \subseteq attempt.words) => CodexHears'
    PROVE  CodexStep
  <1>1. attempt \in Attempts /\ client \in CodexClients /\ server' \in CodexServers
    BY CodexTyped DEF Kept
  <1>2. CASE client.closed = TRUE
    <2>1. client' = client /\ attempt' = attempt
      BY <1>2 DEF Codex!SessionClosed
    <2>2. CodexBooks'
      BY <2>1, CodexBooksStay DEF Kept
    <2>3. CodexCounts'
      BY <2>1 DEF CodexKeeps, CodexCounts, Current
    <2>4. "codex" \notin Crossing => CodexHears'
      BY <2>1 DEF CodexKeeps, CodexHears
    <2> QED  BY <1>1, <2>1, <2>2, <2>3, <2>4 DEF CodexStep, CodexKeeps, CodexTypes, Promised
  <1>3. CASE client.closed = FALSE
    <2>1. Codex!completed([client EXCEPT !.closed = TRUE])
      BY <1>3 DEF Codex!SessionClosed
    <2> QED  BY <1>3, <2>1, CodexCompletes
  <1> QED  BY <1>1, <1>2, <1>3 DEF CodexClients

\* A final that was not passed on yet.
LEMMA CodexHearsFinal ==
    ASSUME ChunksBounded, CodexKeeps, NEW upTo \in Nat, Codex!FinalTranscript(upTo), server.events # << >>,
           server' = [server EXCEPT !.events = Tail(server.events)],
           Head(server.events).type = "final", Head(server.events).upTo = upTo
    PROVE  CodexStep
  <1>1. /\ attempt \in Attempts /\ client \in CodexClients /\ client.heard \in Seq(Nat)
        /\ client.finals \in SUBSET Nat /\ Kept /\ server' \in CodexServers
        /\ LeftOf(server'.events, server.events) /\ attempt.words \in SUBSET Nat
    BY CodexTyped, CodexTakesEvent DEF Kept
  <1>2. ASSUME Current, "codex" \notin Crossing
        PROVE  /\ upTo \in 0..attempt.sent /\ 1..upTo \subseteq 1..attempt.sent
               /\ attempt.words \subseteq 1..attempt.sent
               /\ \A n \in client.finals : 1..n \subseteq attempt.words
               /\ client.posted > 0 => 1..attempt.sent \subseteq attempt.words
    <2>1. /\ \A i \in DOMAIN server.events :
               server.events[i].type = "final" => server.events[i].upTo \in 0..attempt.sent
          /\ attempt.words \subseteq 1..attempt.sent
          /\ \A n \in client.finals : 1..n \subseteq attempt.words
          /\ client.posted > 0 => 1..attempt.sent \subseteq attempt.words
      BY <1>2 DEF CodexKeeps, CodexHears
    <2>2. upTo \in 0..attempt.sent
      BY <1>1, <2>1 DEF LeftOf
    <2>3. attempt.sent \in Nat /\ upTo <= attempt.sent
      BY <1>1, <2>2 DEF Attempts
    <2> QED  BY <2>1, <2>2, <2>3, Wider
  <1>3. CASE upTo \in client.finals
    <2>1. client' = client /\ attempt' = attempt
      BY <1>3 DEF Codex!FinalTranscript
    <2>2. CodexBooks' /\ CodexTypes'
      BY <1>1, <2>1, CodexBooksStay DEF Kept, CodexTypes
    <2>3. CodexCounts'
      BY <2>1 DEF CodexKeeps, CodexCounts, Current
    <2>4. "codex" \notin Crossing => CodexHears'
      <3>1. CASE Current
        BY <1>2, <1>3, <2>1, <3>1, CodexAfterEvent DEF CodexKeeps
      <3>2. CASE ~Current
        BY <2>1, <3>2 DEF CodexHears, Current
      <3> QED  BY <3>1, <3>2
    <2> QED  BY <2>1, <2>2, <2>3, <2>4 DEF CodexStep, CodexKeeps, Promised
  <1>4. CASE upTo \notin client.finals
    <2>1. /\ client' = [client EXCEPT !.finals = client.finals \cup {upTo}, !.heard = Append(client.heard, upTo)]
          /\ attempt' = Accounted(attempt, attempt.words \cup 1..upTo)
      BY <1>4, CodexSame DEF Codex!FinalTranscript
    <2>2. PICK heard : heard = Append(client.heard, upTo)
      OBVIOUS
    <2>3. OneMore(heard, client.heard, upTo) /\ heard \in Seq(Nat)
      BY <1>1, <2>2, AppendAdds
    <2>4. client.finals \cup {upTo} \in SUBSET Nat
      BY <1>1
    <2>5. /\ client' \in CodexClients /\ client'.asked = client.asked /\ client'.held = client.held
          /\ client'.retranscribe = client.retranscribe /\ client'.posted = client.posted
          /\ client'.finish = client.finish /\ client'.closed = client.closed
          /\ client'.cancelled = client.cancelled /\ client'.failed = client.failed
          /\ client'.finals = client.finals \cup {upTo} /\ client'.connecting = client.connecting
          /\ client'.started = client.started /\ client'.finalizing = client.finalizing
          /\ client'.pending = client.pending /\ client'.heard = heard
      BY <1>1, <2>1, <2>2, <2>3, <2>4 DEF CodexClients
    <2>6. CodexBooks'
      <3>1. /\ \A i \in DOMAIN client.heard : client.heard[i] \in client.finals
            /\ \A i, j \in DOMAIN client.heard : client.heard[i] = client.heard[j] => i = j
        BY DEF CodexKeeps, CodexBooks
      <3>2. ASSUME NEW i \in DOMAIN heard
            PROVE  \/ /\ i \in DOMAIN client.heard /\ heard[i] = client.heard[i]
                      /\ heard[i] \in client.finals /\ heard[i] # upTo
                   \/ i = Len(client.heard) + 1 /\ heard[i] = upTo
        <4>1. i \in DOMAIN client.heard \/ i = Len(client.heard) + 1
          BY <2>3 DEF OneMore
        <4>2. CASE i \in DOMAIN client.heard
          <5>1. heard[i] = client.heard[i]
            BY <2>3, <4>2 DEF OneMore
          <5>2. client.heard[i] \in client.finals
            BY <3>1, <4>2
          <5> QED  BY <1>4, <4>2, <5>1, <5>2
        <4>3. CASE i = Len(client.heard) + 1
          BY <2>3, <4>3 DEF OneMore
        <4> QED  BY <4>1, <4>2, <4>3
      <3>3. /\ \A i \in DOMAIN client'.heard : client'.heard[i] \in client'.finals
            /\ \A i, j \in DOMAIN client'.heard : client'.heard[i] = client'.heard[j] => i = j
        <4>1. \A i \in DOMAIN heard : heard[i] \in client.finals \cup {upTo}
          BY <3>2
        <4>2. ASSUME NEW i \in DOMAIN heard, NEW j \in DOMAIN heard, heard[i] = heard[j]
              PROVE  i = j
          BY <3>1, <3>2, <4>2
        <4> QED  BY <2>5, <4>1, <4>2
      <3>4. client'.cancelled = FALSE =>
               server'.got \o client'.pending = client'.asked \o (IF client'.finalizing = TRUE THEN <<0>> ELSE << >>)
        BY <1>1, <2>5 DEF CodexKeeps, CodexBooks, Kept
      <3> QED  BY <1>1, <2>5, <3>3, <3>4 DEF CodexKeeps, CodexBooks, Kept
    <2>7. /\ attempt' \in Attempts /\ attempt'.sent = attempt.sent /\ attempt'.phase = attempt.phase
          /\ attempt'.owed = attempt.owed
          /\ Current => attempt'.words = attempt.words \cup 1..upTo
      <3>1. attempt.words \cup 1..upTo \in SUBSET Nat
        BY <1>1
      <3> QED  BY <1>1, <2>1, <3>1 DEF Accounted, Attempts
    <2>8. CodexCounts'
      BY <2>5, <2>7 DEF CodexKeeps, CodexCounts, Current
    <2>9. "codex" \notin Crossing => CodexHears' /\ Promised
      <3>1. CASE ~Current
        BY <2>1, <2>7, <3>1 DEF CodexHears, Current, Accounted, Promised
      <3>2. ASSUME Current, "codex" \notin Crossing
            PROVE  CodexHears' /\ Promised
        <4>1. attempt'.words \subseteq 1..attempt.sent /\ attempt.words \subseteq attempt'.words
              /\ 1..upTo \subseteq attempt'.words
          BY <1>2, <2>7, <3>2
        <4>2. \A n \in client'.finals : 1..n \subseteq attempt'.words
          BY <1>2, <2>5, <3>2, <4>1
        <4>3. client'.posted > 0 => 1..attempt.sent \subseteq attempt'.words
          BY <1>2, <2>5, <3>2, <4>1
        <4>4. CodexHears'
          BY <2>7, <3>2, <4>1, <4>2, <4>3, CodexAfterEvent DEF CodexKeeps
        <4>5. Promised
          <5>1. attempt.words \cup 1..upTo \in SUBSET (1..attempt.sent)
            BY <1>2, <3>2
          <5> QED  BY <1>1, <2>1, <3>2, <5>1, Hears
        <4> QED  BY <4>4, <4>5
      <3> QED  BY <3>1, <3>2
    <2> QED  BY <1>1, <2>5, <2>6, <2>7, <2>8, <2>9 DEF CodexStep, CodexKeeps, CodexTypes
  <1> QED  BY <1>3, <1>4

LEMMA CodexReceives ==
    ASSUME ChunksBounded, CodexKeeps, Codex!Receive
    PROVE  CodexStep
  <1>1. /\ server.events # << >> /\ server' = [server EXCEPT !.events = Tail(server.events)]
        /\ \/ Head(server.events).type = "final" /\ Codex!FinalTranscript(Head(server.events).upTo)
           \/ Head(server.events).type = "closed" /\ Codex!SessionClosed
           \/ Head(server.events).type = "error" /\ Codex!ErrorEvent
    BY DEF Codex!Receive
  <1>2. Kept /\ LeftOf(server'.events, server.events) /\ Head(server.events) \in CodexEvents
    BY <1>1, CodexTakesEvent
  <1>3. CASE Head(server.events).type = "final" /\ Codex!FinalTranscript(Head(server.events).upTo)
    <2>1. Head(server.events).upTo \in Nat
      BY <1>2, <1>3 DEF CodexEvents
    <2> QED  BY <1>1, <1>3, <2>1, CodexHearsFinal
  <1>4. ASSUME "codex" \notin Crossing, Current, attempt' = attempt, client'.finals = client.finals,
               Head(server.events).type # "final",
               client'.posted > 0 => 1..attempt.sent \subseteq attempt.words
        PROVE  CodexHears'
    <2>1. CodexHears /\ attempt.words \subseteq 1..attempt.sent /\ \A n \in client'.finals : 1..n \subseteq attempt.words
      BY <1>4 DEF CodexKeeps, CodexHears
    <2> QED  BY <1>1, <1>4, <2>1, CodexAfterEvent
  <1>5. ASSUME ~Current, attempt' = attempt
        PROVE  CodexHears'
    BY <1>5 DEF CodexHears, Current
  <1>6. CASE Head(server.events).type = "closed" /\ Codex!SessionClosed
    <2>1. ASSUME "codex" \notin Crossing, Current
          PROVE  1..attempt.sent \subseteq attempt.words
      <3>1. server.events[1].type = "closed" /\ 1 \in DOMAIN server.events
            /\ \A j \in DOMAIN server.events : j \in Nat /\ ~(j < 1)
        <4>1. server.events[1].type = "closed" /\ 1 \in DOMAIN server.events
          BY <1>2, <1>6 DEF LeftOf
        <4>2. ASSUME NEW j \in DOMAIN server.events
              PROVE  j \in Nat /\ ~(j < 1)
          <5>1. server.events \in Seq(CodexEvents)
            BY CodexTyped
          <5> QED  BY <5>1
        <4> QED  BY <4>1, <4>2
      <3>2. server.said = attempt.sent /\ SaidBefore(1)
        BY <2>1, <3>1 DEF CodexKeeps, CodexHears
      <3> QED  BY <3>1, <3>2 DEF SaidBefore
    <2> QED  BY <1>2, <1>4, <1>5, <1>6, <2>1, CodexSessionCloses
  <1>7. CASE Head(server.events).type = "error" /\ Codex!ErrorEvent
    <2>1. ASSUME "codex" \notin Crossing, attempt' = attempt, client' = client
          PROVE  CodexHears'
      <3>1. Current /\ client.posted > 0 => 1..attempt.sent \subseteq attempt.words
        BY <2>1 DEF CodexKeeps, CodexHears
      <3> QED  BY <1>4, <1>5, <1>7, <2>1, <3>1
    <2> QED  BY <1>2, <1>7, <2>1, CodexFails DEF Codex!ErrorEvent
  <1> QED  BY <1>1, <1>3, <1>6, <1>7

\* The chunks the service got, which are all of them once it is told to close.
LEMMA CodexHeard ==
    ASSUME ChunksBounded, CodexKeeps
    PROVE  /\ Codex!Heard \in Nat
           /\ Current => Codex!Heard \in 0..attempt.sent /\ (server.closing = TRUE => Codex!Heard = attempt.sent)
  <1>1. /\ server.got \in Seq(Nat) /\ client.pending \in Seq(Nat) /\ client.asked \in Seq(Nat)
        /\ attempt.sent \in Nat /\ client.finalizing \in BOOLEAN
    BY CodexTyped
  <1>2. Codex!Heard = Cardinality(Items(server.got) \ {0})
    <2>1. Codex!Range(server.got) \ {Codex!Flush} = Items(server.got) \ {0}
      BY DEF Codex!Range, Codex!Flush, Items
    <2>2. Codex!Heard = Cardinality(Codex!Range(server.got) \ {Codex!Flush})
      BY DEF Codex!Heard, Codex!Cardinality, Cardinality
    <2> QED  BY <2>1, <2>2
  <1>3. IsFiniteSet(Items(server.got) \ {0})
    <2>1. IsFiniteSet(Items(server.got)) /\ Items(server.got) \ {0} \in SUBSET Items(server.got)
      BY <1>1, ItemsAreFinite
    <2> QED  BY <2>1, FS_Subset
  <1>4. Codex!Heard \in Nat
    BY <1>2, <1>3, FS_CardinalityType
  <1>5. IsFiniteSet(1..attempt.sent) /\ Cardinality(1..attempt.sent) = attempt.sent
    <2>1. PICK n \in Nat : n = attempt.sent
      BY <1>1
    <2>2. 1 \in Int /\ n \in Int
      BY <2>1
    <2>3. IsFiniteSet(1..n) /\ Cardinality(1..n) = IF 1 > n THEN 0 ELSE n - 1 + 1
      BY <2>2, FS_Interval
    <2> QED  BY <2>1, <2>3
  <1>6. ASSUME Current
        PROVE  Codex!Heard \in 0..attempt.sent /\ (server.closing = TRUE => Codex!Heard = attempt.sent)
    <2> DEFINE end == IF client.finalizing = TRUE THEN <<0>> ELSE << >>
    <2>1. /\ end \in Seq(Nat) /\ Items(end) \subseteq {0}
          /\ server.got \o client.pending = client.asked \o end
          /\ Items(client.asked) \ {0} = 1..attempt.sent
      <3>1. client.cancelled = FALSE /\ Items(client.asked) \ {0} = 1..attempt.sent
        BY <1>6 DEF CodexKeeps, CodexCounts
      <3>2. server.got \o client.pending = client.asked \o end
        BY <3>1 DEF CodexKeeps, CodexBooks
      <3>3. end \in Seq(Nat) /\ Items(end) \subseteq {0}
        <4>1. <<0>> \in Seq(Nat) /\ Items(<<0>>) = {0} /\ Items(<< >>) = {} /\ << >> \in Seq(Nat)
          BY ItemsOfOne
        <4> QED  BY <4>1
      <3> QED  BY <3>1, <3>2, <3>3
    <2> HIDE DEF end
    <2>2. Items(server.got) \cup Items(client.pending) = Items(client.asked) \cup Items(end)
      <3>1. Items(server.got \o client.pending) = Items(server.got) \cup Items(client.pending)
        BY <1>1, ItemsOf, Zenon
      <3>2. Items(client.asked \o end) = Items(client.asked) \cup Items(end)
        BY <1>1, <2>1, ItemsOf, Zenon
      <3> QED  BY <2>1, <3>1, <3>2
    <2>3. Items(server.got) \ {0} \in SUBSET (1..attempt.sent)
      BY <2>1, <2>2
    <2>4. Codex!Heard <= attempt.sent
      <3>1. Cardinality(Items(server.got) \ {0}) <= Cardinality(1..attempt.sent)
        BY <1>5, <2>3, FS_Subset
      <3> QED  BY <1>2, <1>5, <3>1
    <2>5. ASSUME server.closing = TRUE
          PROVE  Codex!Heard = attempt.sent
      <3>1. client.pending = << >>
        BY <2>5 DEF CodexKeeps, CodexBooks
      <3>2. Items(client.pending) = {}
        BY <3>1, ItemsOfOne
      <3>3. Items(server.got) \ {0} = 1..attempt.sent
        BY <2>1, <2>2, <3>2
      <3> QED  BY <1>2, <1>5, <3>3
    <2>6. ASSUME NEW n \in Nat, NEW m \in Nat, n <= m
          PROVE  n \in 0..m
      BY <2>6
    <2>7. Codex!Heard \in 0..attempt.sent
      BY <1>1, <1>4, <2>4, <2>6
    <2> QED  BY <2>5, <2>7
  <1> QED  BY <1>4, <1>6

\* The service says only what it may; said is what it has said then.
LEMMA CodexSays ==
    ASSUME ChunksBounded, CodexKeeps, NEW said \in Nat, NEW event \in CodexEvents,
           server' = [server EXCEPT !.said = said, !.events = Append(server.events, event)],
           UNCHANGED <<attempt, client>>,
           event.type # "final" => said = server.said,
           Current /\ "codex" \notin Crossing =>
             /\ event.type = "final" =>
                   /\ event.upTo = said /\ said \in 0..attempt.sent
                   /\ server.closing = TRUE /\ server.said = attempt.sent => said = attempt.sent
             /\ event.type = "closed" => server.closing = TRUE /\ server.said = attempt.sent
    PROVE  CodexStep
  <1>1. /\ server \in CodexServers /\ attempt \in Attempts /\ client \in CodexClients
        /\ server.events \in Seq(CodexEvents)
    BY CodexTyped
  <1>2. server'.events = Append(server.events, event)
    BY <1>1 DEF CodexServers
  <1>3. OneMore(server'.events, server.events, event) /\ server'.events \in Seq(CodexEvents)
    BY <1>1, <1>2, AppendAdds
  <1>4. /\ server' \in CodexServers /\ server'.got = server.got /\ server'.closing = server.closing
        /\ server'.late = server.late /\ server'.said = said
    BY <1>1, <1>3 DEF CodexServers
  <1>5. CodexTypes' /\ CodexBooks'
    BY <1>1, <1>4, CodexBooksStay DEF CodexTypes
  <1>6. CodexCounts'
    BY DEF CodexKeeps, CodexCounts, Current
  <1>7. ASSUME "codex" \notin Crossing
        PROVE  CodexHears'
    <2> SUFFICES ASSUME Current
                 PROVE  CodexHears'
      BY DEF CodexHears, Current
    <2>1. /\ attempt.owed \subseteq 1..attempt.sent /\ attempt.words \subseteq 1..attempt.sent
          /\ server.said \in 0..attempt.sent
          /\ \A n \in client.finals : 1..n \subseteq attempt.words
          /\ client.posted > 0 => 1..attempt.sent \subseteq attempt.words
          /\ \A i \in DOMAIN server.events :
               /\ server.events[i].type = "final" => server.events[i].upTo \in 0..attempt.sent
               /\ server.events[i].type = "closed" =>
                     server.closing = TRUE /\ server.said = attempt.sent /\ SaidBefore(i)
          /\ SaidBefore(Len(server.events) + 1)
      BY <1>7 DEF CodexKeeps, CodexHears
    <2>2. PICK n \in Nat : n = Len(server.events)
      BY <1>3 DEF OneMore
    <2>3. /\ DOMAIN server'.events = 1..(n + 1) /\ DOMAIN server.events = 1..n /\ Len(server'.events) = n + 1
          /\ server'.events[n + 1] = event /\ \A i \in 1..n : server'.events[i] = server.events[i]
      BY <1>3, <2>2 DEF OneMore
    <2>4. ASSUME NEW k \in 1..(n + 1), SaidBefore(k), said = server.said
          PROVE  SaidBefore(k)'
      BY <1>4, <2>3, <2>4 DEF SaidBefore
    <2>5. \A i \in 1..n :
             server'.events[i].type = "closed" =>
                server.closing = TRUE /\ said = attempt.sent /\ SaidBefore(i)'
      <3>1. SUFFICES ASSUME NEW i \in 1..n, server.events[i].type = "closed"
                     PROVE  server.closing = TRUE /\ said = attempt.sent /\ SaidBefore(i)'
        BY <2>3
      <3>2. server.closing = TRUE /\ server.said = attempt.sent /\ SaidBefore(i)
        BY <2>1, <2>3, <3>1
      <3>3. said = server.said
        BY <1>7, <3>2
      <3> QED  BY <2>4, <3>2, <3>3
    <2>6. event.type = "closed" => server.closing = TRUE /\ said = attempt.sent /\ SaidBefore(n + 1)'
      <3>1. SUFFICES ASSUME event.type = "closed"
                     PROVE  server.closing = TRUE /\ said = attempt.sent /\ SaidBefore(n + 1)'
        OBVIOUS
      <3>2. SaidBefore(n + 1) /\ n + 1 \in 1..(n + 1)
        BY <2>1, <2>2
      <3>3. PICK k \in 1..(n + 1) : k = n + 1
        BY <3>2
      <3>4. SaidBefore(k)'
        BY <2>4, <3>1, <3>2, <3>3
      <3> QED  BY <1>7, <3>1, <3>3, <3>4
    <2>7. SaidBefore(Len(server.events) + 1)'
      <3>1. CASE event.type = "final"
        <4>1. /\ n + 1 \in DOMAIN server'.events /\ n + 1 < Len(server'.events) + 1
              /\ server'.events[n + 1].type = "final" /\ server'.events[n + 1].upTo = server'.said
          BY <1>4, <1>7, <2>3, <3>1
        <4> QED  BY <4>1 DEF SaidBefore
      <3>2. CASE event.type # "final"
        <4>1. CASE 1..server.said \subseteq attempt.words
          BY <1>4, <3>2, <4>1 DEF SaidBefore
        <4>2. ASSUME NEW i \in DOMAIN server.events, i < n + 1, server.events[i].type = "final",
                     server.events[i].upTo = server.said
              PROVE  SaidBefore(Len(server.events) + 1)'
          <5>1. /\ i \in DOMAIN server'.events /\ i < Len(server'.events) + 1
                /\ server'.events[i].type = "final" /\ server'.events[i].upTo = server'.said
            BY <1>4, <2>3, <3>2, <4>2
          <5> QED  BY <5>1 DEF SaidBefore
        <4> QED  BY <2>1, <2>2, <4>1, <4>2 DEF SaidBefore
      <3> QED  BY <3>1, <3>2
    <2>8. \A i \in DOMAIN server'.events :
            /\ server'.events[i].type = "final" => server'.events[i].upTo \in 0..attempt'.sent
            /\ server'.events[i].type = "closed" =>
                  server'.closing = TRUE /\ server'.said = attempt'.sent /\ SaidBefore(i)'
      <3>1. ASSUME NEW i \in 1..(n + 1), i # n + 1
            PROVE  /\ server'.events[i].type = "final" => server'.events[i].upTo \in 0..attempt.sent
                   /\ server'.events[i].type = "closed" =>
                         server.closing = TRUE /\ said = attempt.sent /\ SaidBefore(i)'
        <4>1. i \in 1..n
          BY <2>2, <3>1
        <4> QED  BY <2>1, <2>3, <2>5, <4>1
      <3>2. ASSUME NEW i \in 1..(n + 1), i = n + 1
            PROVE  /\ server'.events[i].type = "final" => server'.events[i].upTo \in 0..attempt.sent
                   /\ server'.events[i].type = "closed" =>
                         server.closing = TRUE /\ said = attempt.sent /\ SaidBefore(i)'
        BY <1>7, <2>3, <2>6, <3>2
      <3> QED  BY <1>4, <2>3, <3>1, <3>2
    <2>9. server'.said \in 0..attempt.sent
      BY <1>4, <1>7, <2>1
    <2> QED  BY <2>1, <2>7, <2>8, <2>9 DEF CodexHears, SaidBefore
  <1> QED  BY <1>5, <1>6, <1>7 DEF CodexStep, CodexKeeps, Promised

LEMMA CodexServes ==
    ASSUME ChunksBounded, CodexKeeps, Codex!Serve
    PROVE  CodexStep
  <1>1. /\ server \in CodexServers /\ server.said \in Nat /\ server.closing \in BOOLEAN
        /\ server.events \in Seq(CodexEvents) /\ attempt.sent \in Nat
    BY CodexTyped
  <1> DEFINE error == [type |-> "error"]
             closed == [type |-> "closed"]
  <1>2. error \in CodexEvents /\ closed \in CodexEvents /\ error.type = "error" /\ closed.type = "closed"
    BY DEF CodexEvents
  <1> HIDE DEF error, closed
  <1>3. ASSUME NEW event \in CodexEvents, NEW said \in Nat, NEW s \in {server, [server EXCEPT !.said = said]},
               Codex!ServerSays(s, event)
        PROVE  /\ UNCHANGED <<attempt, client>>
               /\ s = server => server' = [server EXCEPT !.said = server.said, !.events = Append(server.events, event)]
               /\ s = [server EXCEPT !.said = said] =>
                     server' = [server EXCEPT !.said = said, !.events = Append(server.events, event)]
    BY <1>1, <1>3 DEF Codex!ServerSays, CodexServers
  <1>4. CASE Codex!SessionStarted
    BY <1>4, CodexSessionStarts
  <1>5. CASE Codex!ServerSays(server, error)
    <2>1. /\ UNCHANGED <<attempt, client>>
          /\ server' = [server EXCEPT !.said = server.said, !.events = Append(server.events, error)]
      BY <1>1, <1>2, <1>3, <1>5
    <2> QED  BY <1>1, <1>2, <2>1, CodexSays
  <1>6. ASSUME NEW upTo \in {Codex!Heard, server.said} \ {0},
               Codex!ServerSays([server EXCEPT !.said = upTo], [type |-> "final", upTo |-> upTo])
        PROVE  CodexStep
    <2> DEFINE final == [type |-> "final", upTo |-> upTo]
    <2>1. upTo \in Nat
      BY <1>1, CodexHeard
    <2>2. final \in CodexEvents /\ final.type = "final" /\ final.upTo = upTo
      BY <2>1 DEF CodexEvents
    <2>3. Codex!ServerSays([server EXCEPT !.said = upTo], final)
      BY <1>6
    <2> HIDE DEF final
    <2>4. /\ UNCHANGED <<attempt, client>>
          /\ server' = [server EXCEPT !.said = upTo, !.events = Append(server.events, final)]
      BY <1>3, <2>1, <2>2, <2>3
    <2>5. ASSUME Current, "codex" \notin Crossing
          PROVE  /\ upTo \in 0..attempt.sent
                 /\ server.closing = TRUE /\ server.said = attempt.sent => upTo = attempt.sent
      <3>1. server.said \in 0..attempt.sent
        BY <2>5 DEF CodexKeeps, CodexHears
      <3> QED  BY <2>5, <3>1, CodexHeard
    <2> QED  BY <2>1, <2>2, <2>4, <2>5, CodexSays
  <1>7. CASE Codex!ServerSays(server, closed)
             /\ ((server.closing = TRUE /\ server.said = Codex!Heard) \/ "codex" \in Crossing)
    <2>1. /\ UNCHANGED <<attempt, client>>
          /\ server' = [server EXCEPT !.said = server.said, !.events = Append(server.events, closed)]
      BY <1>1, <1>2, <1>3, <1>7
    <2>2. Current /\ "codex" \notin Crossing => server.closing = TRUE /\ server.said = attempt.sent
      BY <1>7, CodexHeard
    <2> QED  BY <1>1, <1>2, <2>1, <2>2, CodexSays
  <1>8. CASE /\ client.connecting = FALSE /\ client.started = TRUE /\ server.closing = FALSE
             /\ Codex!SessionClosed /\ server' = server
    <2>1. Kept
      BY <1>1, <1>8 DEF Kept
    <2>2. ~(attempt.phase = "told" /\ client.closed = FALSE)
      BY <1>8 DEF CodexKeeps, CodexCounts, CodexBooks
    <2>3. ASSUME "codex" \notin Crossing, attempt' = attempt, client'.finals = client.finals,
                 Current /\ client'.posted > 0 => 1..attempt.sent \subseteq attempt.words
          PROVE  CodexHears'
      <3>1. \A k : SaidBefore(k)' = SaidBefore(k)
        BY <1>8, <2>3 DEF SaidBefore
      <3>2. CodexHears
        BY <2>3 DEF CodexKeeps
      <3> QED  BY <1>8, <2>3, <3>1, <3>2 DEF CodexHears, SaidBefore, Current
    <2> QED  BY <1>8, <2>1, <2>2, <2>3, CodexSessionCloses
  <1>9. \/ Codex!SessionStarted
        \/ Codex!ServerSays(server, error)
        \/ \E upTo \in {Codex!Heard, server.said} \ {0} :
              Codex!ServerSays([server EXCEPT !.said = upTo], [type |-> "final", upTo |-> upTo])
        \/ /\ Codex!ServerSays(server, closed)
           /\ (server.closing = TRUE /\ server.said = Codex!Heard) \/ "codex" \in Crossing
        \/ /\ client.connecting = FALSE /\ client.started = TRUE /\ server.closing = FALSE
           /\ Codex!SessionClosed /\ server' = server
    <2>1. client.connecting \in BOOLEAN /\ client.started \in BOOLEAN
      BY CodexTyped
    <2> QED  BY <1>1, <2>1 DEF Codex!Serve, Codex!MayClose, Codex!Calm, error, closed
  <1> QED  BY <1>4, <1>5, <1>6, <1>7, <1>8, <1>9

\* The words of the second transcription are all of them, or the first's.
LEMMA CodexRetranscribes ==
    ASSUME ChunksBounded, CodexKeeps, Codex!Retranscribed
    PROVE  CodexStep
  <1>1. /\ attempt \in Attempts /\ client \in CodexClients /\ attempt.words \in SUBSET Nat /\ attempt.sent \in Nat
    BY CodexTyped
  <1>2. PICK words \in {attempt.words, 1..attempt.sent} :
           attempt' = Ended(Accounted(attempt, words), "completed")
    BY CodexSame DEF Codex!Retranscribed
  <1>3. client.posted > 0 /\ client' = [client EXCEPT !.posted = 0] /\ server' = server
    BY DEF Codex!Retranscribed
  <1>4. /\ client' \in CodexClients /\ client'.asked = client.asked /\ client'.held = client.held
        /\ client'.retranscribe = client.retranscribe /\ client'.posted = 0
        /\ client'.finish = client.finish
        /\ client'.cancelled = client.cancelled
        /\ client'.finals = client.finals
        /\ client'.started = client.started /\ client'.finalizing = client.finalizing
        /\ client'.pending = client.pending /\ client'.heard = client.heard
    BY <1>1, <1>3 DEF CodexClients
  <1>5. attempt' \in Attempts /\ ~Current' /\ attempt'.sent = attempt.sent
    <2>1. words \in SUBSET Nat
      BY <1>1
    <2> QED  BY <1>1, <1>2, <2>1 DEF Ended, Accounted, Attempts, Phases, Current
  <1>6. CodexTypes' /\ CodexBooks'
    BY <1>3, <1>4, <1>5, CodexBooksStay DEF CodexTypes, CodexKeeps
  <1>7. CodexCounts'
    BY <1>4, <1>5 DEF CodexKeeps, CodexCounts, Current
  <1>8. CodexHears'
    BY <1>5 DEF CodexHears
  <1>9. ASSUME "codex" \notin Crossing
        PROVE  Promised
    <2>1. CASE ~Current
      BY <1>2, <2>1 DEF Ended, Accounted, Promised
    <2>2. CASE Current
      <3>1. /\ attempt.words \subseteq 1..attempt.sent /\ attempt.owed \subseteq 1..attempt.sent
            /\ 1..attempt.sent \subseteq attempt.words
        BY <1>3, <1>9, <2>2 DEF CodexKeeps, CodexHears
      <3>2. words \in SUBSET (1..attempt.sent) /\ attempt.words \subseteq words /\ attempt.owed \subseteq words
        BY <3>1
      <3> QED  BY <1>1, <1>2, <2>2, <3>2, Completes
    <2> QED  BY <2>1, <2>2
  <1> QED  BY <1>6, <1>7, <1>8, <1>9 DEF CodexStep, CodexKeeps

LEMMA CodexBegins ==
    ASSUME ChunksBounded, Codex!CodexInit
    PROVE  CodexKeeps
  <1>1. attempt = NoAttempt /\ client = Codex!NewClient(FALSE) /\ server = Codex!NewServer
    BY DEF Codex!CodexInit, Codex!ContractInit, Codex!NoAttempt, NoAttempt
  <1>2. << >> \in Seq(Nat) /\ << >> \in Seq(CodexEvents)
    OBVIOUS
  <1>3. client \in CodexClients /\ server \in CodexServers /\ attempt \in Attempts /\ ~Current
        /\ attempt.phase = "none"
    BY <1>1, <1>2 DEF Codex!NewClient, Codex!NewServer, CodexClients, CodexServers, NoAttempt, Attempts, Phases,
                      Current
  <1>4. /\ server.late = FALSE /\ server.closing = FALSE /\ server.got = << >>
        /\ client.pending = << >> /\ client.asked = << >> /\ client.heard = << >>
        /\ client.started = FALSE /\ client.finish = FALSE /\ client.finalizing = FALSE
        /\ client.held = 0 /\ client.posted = 0
    BY <1>1 DEF Codex!NewClient, Codex!NewServer
  <1>5. CodexBooks
    <2>1. /\ server.got \o client.pending = << >> \o << >>
          /\ client.asked \o (IF client.finalizing = TRUE THEN <<0>> ELSE << >>) = << >> \o << >>
      BY <1>4
    <2>2. \A i \in DOMAIN client.heard : FALSE
      BY <1>4
    <2> QED  BY <1>4, <2>1, <2>2 DEF CodexBooks
  <1>6. CodexCounts
    BY <1>3, <1>4 DEF CodexCounts
  <1> QED  BY <1>3, <1>5, <1>6 DEF CodexKeeps, CodexTypes, CodexHears

LEMMA CodexGoes ==
    ASSUME ChunksBounded, CodexKeeps, Codex!CodexNext
    PROVE  CodexStep
  <1>1. CASE Codex!Connected
    <2>1. UNCHANGED <<attempt, client, server>>
      BY <1>1 DEF Codex!Connected
    <2> QED  BY <2>1, CodexRests
  <1> QED  BY <1>1, CodexStarts, CodexSends, CodexEndsUtterance, CodexFinishes, CodexLetsGo, CodexDisconnects,
              CodexErrs, CodexTimesOut, CodexKeepsAlive, CodexTellsOfConnection, CodexReceives, CodexServes,
              CodexRetranscribes DEF Codex!CodexNext

LEMMA CodexOrder ==
    ASSUME ChunksBounded, CodexKeeps
    PROVE  Codex!CodexInOrder
  <1>1. /\ client.finalizing \in BOOLEAN /\ client.posted \in Nat
        /\ server.late = FALSE
        /\ \A i, j \in DOMAIN client.heard : client.heard[i] = client.heard[j] => i = j
        /\ client.posted > 0 => client.posted = attempt.sent
    BY CodexTyped DEF CodexKeeps, CodexBooks, CodexCounts
  <1>2. Current => server.got \o client.pending = client.asked \o (IF client.finalizing THEN <<0>> ELSE << >>)
    <2>1. Current => server.got \o client.pending =
                        client.asked \o (IF client.finalizing = TRUE THEN <<0>> ELSE << >>)
      BY DEF CodexKeeps, CodexBooks, CodexCounts
    <2> QED  BY <1>1, <2>1
  <1>3. Codex!Current = Current
    BY CodexSame
  <1>4. Codex!IsInjective(client.heard)
    BY <1>1 DEF Codex!IsInjective
  <1> QED  BY <1>1, <1>2, <1>3, <1>4 DEF Codex!CodexInOrder, Codex!Flush

-----------------------------------------------------------------------------
(* EndpointTranscriber.                                                    *)

\* The chunks of several utterances, in whatever order.
All(utterances) == UNION {Items(utterances[i]) : i \in DOMAIN utterances}
Rising(s) == \A i, j \in DOMAIN s : i < j => s[i] < s[j]
Precede(early, late) == \A a \in early, b \in late : a < b

EndpointClients == [cut : BOOLEAN, inputFinished : BOOLEAN, open : BOOLEAN, pcm : Seq(Nat),
                    waiting : Seq(Seq(Nat)), reply : Seq(Nat), then : {"none", "upload", "fail"}]

\* What went up, what waits and what is gathered come in this order.
EndpointOrder(c, s) ==
    /\ Rising(s) /\ Rising(c.pcm)
    /\ \A i \in DOMAIN c.waiting :
          /\ Rising(c.waiting[i]) /\ c.waiting[i] # << >>
          /\ \A j \in DOMAIN c.waiting : i < j => Precede(Items(c.waiting[i]), Items(c.waiting[j]))
    /\ Precede(Items(s), All(c.waiting))
    /\ Precede(Items(s), Items(c.pcm)) /\ Precede(All(c.waiting), Items(c.pcm))

\* The chunks of the utterance that is being spoken.
Spoken(c) == IF c.cut = FALSE \/ c.open = TRUE THEN Items(c.pcm) ELSE {}

\* What is known of an attempt that goes on.
EndpointBooks(c, s, a) ==
    /\ (c.inputFinished = TRUE) = (a.phase = "told")
    /\ c.inputFinished = TRUE => c.pcm = << >> /\ c.open = FALSE
    /\ c.cut = FALSE =>
          /\ c.waiting = << >> /\ c.open = FALSE /\ c.then = "none"
          /\ c.inputFinished = FALSE => c.reply = << >>
    /\ Items(s) \cup All(c.waiting) \cup Items(c.pcm) \cup Items(c.reply) \cup a.words \subseteq 1..a.sent
    /\ a.owed \subseteq a.words \cup Items(c.reply) \cup All(c.waiting) \cup Spoken(c)

EndpointKeeps ==
    /\ attempt \in Attempts /\ client \in EndpointClients /\ server \in Seq(Nat)
    /\ EndpointOrder(client, server)
    /\ client.reply # << >> => Current
    /\ client.then # "none" => client.reply = << >>
    /\ ~Current /\ client.then # "none" => client.waiting = << >>
    /\ Current =>
          /\ EndpointBooks(client, server, attempt)
          /\ client.waiting # << >> => client.reply # << >> \/ client.then # "none"

EndpointStep == EndpointKeeps' /\ Promised

-----------------------------------------------------------------------------
(* Sequences of chunks, and of utterances.                                 *)

LEMMA Least ==
    ASSUME NEW S \in SUBSET Nat, S # {}
    PROVE  \E n \in S : \A m \in S : n <= m
  <1>1. PICK n \in S : \A m \in S : ~(<<m, n>> \in OpToRel(<, Nat))
    BY NatLessThanWellFounded, WFMin
  <1>2. ASSUME NEW m \in S
        PROVE  n <= m
    <2>1. m \in Nat /\ n \in Nat /\ ~(<<m, n>> \in OpToRel(<, Nat))
      BY <1>1
    <2>2. ~(m < n)
      BY <2>1 DEF OpToRel
    <2>3. ASSUME NEW a \in Nat, NEW b \in Nat, ~(a < b)
          PROVE  b <= a
      BY <2>3
    <2> QED  BY <2>1, <2>2, <2>3
  <1> QED  BY <1>2

LEMMA Rises ==
    ASSUME NEW s \in Seq(Nat), NEW t \in Seq(Nat), Rising(s), Rising(t), Precede(Items(s), Items(t))
    PROVE  Rising(s \o t)
  <1>1. /\ Len(s) \in Nat /\ Len(t) \in Nat /\ DOMAIN s = 1..Len(s) /\ DOMAIN t = 1..Len(t)
        /\ DOMAIN (s \o t) = 1..(Len(s) + Len(t))
        /\ \A i \in 1..(Len(s) + Len(t)) : (s \o t)[i] = IF i <= Len(s) THEN s[i] ELSE t[i - Len(s)]
    BY ConcatProperties
  <1>2. ASSUME NEW i \in 1..(Len(s) + Len(t)), NEW j \in 1..(Len(s) + Len(t)), i < j
        PROVE  (s \o t)[i] < (s \o t)[j]
    <2>1. CASE j <= Len(s)
      <3>1. i \in DOMAIN s /\ j \in DOMAIN s /\ (s \o t)[i] = s[i] /\ (s \o t)[j] = s[j]
        BY <1>1, <1>2, <2>1
      <3> QED  BY <1>2, <3>1 DEF Rising
    <2>2. CASE i <= Len(s) /\ ~(j <= Len(s))
      <3>1. i \in DOMAIN s /\ j - Len(s) \in DOMAIN t /\ (s \o t)[i] = s[i] /\ (s \o t)[j] = t[j - Len(s)]
        BY <1>1, <1>2, <2>2
      <3>2. s[i] \in Items(s) /\ t[j - Len(s)] \in Items(t)
        BY <3>1 DEF Items
      <3> QED  BY <3>1, <3>2 DEF Precede
    <2>3. CASE ~(i <= Len(s))
      <3>1. /\ i - Len(s) \in DOMAIN t /\ j - Len(s) \in DOMAIN t /\ i - Len(s) < j - Len(s)
            /\ (s \o t)[i] = t[i - Len(s)] /\ (s \o t)[j] = t[j - Len(s)]
        BY <1>1, <1>2, <2>3
      <3> QED  BY <3>1 DEF Rising
    <2> QED  BY <2>1, <2>2, <2>3
  <1> QED  BY <1>1, <1>2 DEF Rising

LEMMA RisesOn ==
    ASSUME NEW s \in Seq(Nat), NEW e \in Nat, Rising(s), Precede(Items(s), {e})
    PROVE  Rising(Append(s, e))
  <1>1. /\ <<e>> \in Seq(Nat) /\ Items(<<e>>) = {e} /\ Append(s, e) = s \o <<e>>
    BY ItemsOfOne, AppendIsConcat
  <1>2. Rising(<<e>>)
    BY DEF Rising
  <1> QED  BY <1>1, <1>2, Rises

\* What is kept of a sequence when it is cut.
LEMMA PartRises ==
    ASSUME NEW s \in Seq(Nat), NEW n \in Nat, n = Len(s), NEW first \in 1..(n + 1), NEW t, t = SubSeq(s, first, n)
    PROVE  t \in Seq(Nat) /\ Items(t) \subseteq Items(s) /\ (Rising(s) => Rising(t))
  <1>1. first \in Int /\ n \in Int /\ \A i \in first..n : s[i] \in Nat
    OBVIOUS
  <1>2. t \in Seq(Nat) /\ Len(t) = (IF first <= n THEN n - first + 1 ELSE 0)
        /\ \A i \in 1..(n - first + 1) : t[i] = s[first + i - 1]
    BY <1>1, SubSeqProperties
  <1>3. DOMAIN t = 1..(n - first + 1) /\ DOMAIN s = 1..n
    BY <1>2
  <1>4. ASSUME NEW i \in DOMAIN t
        PROVE  first + i - 1 \in DOMAIN s /\ t[i] = s[first + i - 1]
    <2>1. i \in 1..(n - first + 1)
      BY <1>3, <1>4
    <2>2. first + i - 1 \in 1..n
      BY <2>1
    <2> QED  BY <1>2, <1>3, <2>1, <2>2
  <1>5. Items(t) \subseteq Items(s)
    BY <1>4 DEF Items
  <1>6. ASSUME Rising(s), NEW i \in DOMAIN t, NEW j \in DOMAIN t, i < j
        PROVE  t[i] < t[j]
    <2>1. first + i - 1 < first + j - 1
      BY <1>3, <1>6
    <2> QED  BY <1>4, <1>6, <2>1 DEF Rising
  <1>7. Rising(s) => Rising(t)
    BY <1>6 DEF Rising
  <1> QED  BY <1>2, <1>5, <1>7

LEMMA AllOfMore ==
    ASSUME NEW w \in Seq(Seq(Nat)), NEW u \in Seq(Nat)
    PROVE  Append(w, u) \in Seq(Seq(Nat)) /\ All(Append(w, u)) = All(w) \cup Items(u)
  <1>1. /\ Append(w, u) \in Seq(Seq(Nat)) /\ Len(Append(w, u)) = Len(w) + 1 /\ Len(w) \in Nat
        /\ \A i \in 1..Len(w) : Append(w, u)[i] = w[i]
        /\ Append(w, u)[Len(w) + 1] = u
    BY AppendProperties
  <1>2. DOMAIN w = 1..Len(w) /\ DOMAIN Append(w, u) = 1..(Len(w) + 1)
    BY <1>1
  <1>3. ASSUME NEW x \in All(Append(w, u))
        PROVE  x \in All(w) \cup Items(u)
    <2>1. PICK i \in 1..(Len(w) + 1) : x \in Items(Append(w, u)[i])
      BY <1>2 DEF All
    <2>2. CASE i = Len(w) + 1
      BY <1>1, <2>1, <2>2
    <2>3. CASE i # Len(w) + 1
      <3>1. i \in DOMAIN w /\ x \in Items(w[i])
        BY <1>1, <1>2, <2>1, <2>3
      <3> QED  BY <3>1 DEF All
    <2> QED  BY <2>2, <2>3
  <1>4. ASSUME NEW x \in All(w)
        PROVE  x \in All(Append(w, u))
    <2>1. PICK i \in 1..Len(w) : x \in Items(w[i])
      BY <1>2 DEF All
    <2>2. i \in DOMAIN Append(w, u) /\ x \in Items(Append(w, u)[i])
      BY <1>1, <1>2, <2>1
    <2> QED  BY <2>2 DEF All
  <1>5. ASSUME NEW x \in Items(u)
        PROVE  x \in All(Append(w, u))
    <2>1. Len(w) + 1 \in DOMAIN Append(w, u) /\ x \in Items(Append(w, u)[Len(w) + 1])
      BY <1>1, <1>2, <1>5
    <2> QED  BY <2>1 DEF All
  <1> QED  BY <1>1, <1>3, <1>4, <1>5

\* What is dropped of the utterances and what is kept are all of them.
LEMMA AllOfParts ==
    ASSUME NEW w \in Seq(Seq(Nat)), NEW k \in 0..Len(w)
    PROVE  /\ SubSeq(w, 1, k) \in Seq(Seq(Nat)) /\ SubSeq(w, k + 1, Len(w)) \in Seq(Seq(Nat))
           /\ All(SubSeq(w, 1, k)) \cup All(SubSeq(w, k + 1, Len(w))) = All(w)
           /\ Len(SubSeq(w, k + 1, Len(w))) = Len(w) - k
           /\ \A i \in 1..(Len(w) - k) : SubSeq(w, k + 1, Len(w))[i] = w[k + i]
  <1>1. PICK n \in Nat : n = Len(w)
    OBVIOUS
  <1> DEFINE s == SubSeq(w, 1, k)
             t == SubSeq(w, k + 1, n)
  <1>2. /\ 1 \in Int /\ n \in Int /\ k \in Int /\ k + 1 \in Int /\ k \in 0..n
        /\ \A i \in 1..k : w[i] \in Seq(Nat)
        /\ \A i \in (k + 1)..n : w[i] \in Seq(Nat)
    BY <1>1
  <1>3. s \in Seq(Seq(Nat)) /\ Len(s) = (IF 1 <= k THEN k - 1 + 1 ELSE 0)
        /\ \A i \in 1..(k - 1 + 1) : s[i] = w[1 + i - 1]
    BY <1>2, SubSeqProperties
  <1>4. t \in Seq(Seq(Nat)) /\ Len(t) = (IF k + 1 <= n THEN n - (k + 1) + 1 ELSE 0)
        /\ \A i \in 1..(n - (k + 1) + 1) : t[i] = w[(k + 1) + i - 1]
    BY <1>2, SubSeqProperties
  <1> HIDE DEF s, t
  <1>5. /\ DOMAIN s = 1..k /\ DOMAIN t = 1..(n - k) /\ DOMAIN w = 1..n /\ Len(t) = n - k
        /\ \A i \in 1..k : s[i] = w[i]
        /\ \A i \in 1..(n - k) : t[i] = w[k + i]
    <2>1. Len(s) = k /\ Len(t) = n - k
      BY <1>2, <1>3, <1>4
    <2>2. DOMAIN s = 1..k /\ DOMAIN t = 1..(n - k) /\ DOMAIN w = 1..n
      BY <1>1, <1>3, <1>4, <2>1
    <2>3. ASSUME NEW i \in 1..k PROVE s[i] = w[i]
      BY <1>2, <1>3
    <2>4. ASSUME NEW i \in 1..(n - k) PROVE t[i] = w[k + i]
      <3>1. i \in 1..(n - (k + 1) + 1) /\ (k + 1) + i - 1 = k + i
        BY <1>2
      <3> QED  BY <1>4, <3>1
    <2> QED  BY <2>1, <2>2, <2>3, <2>4
  <1>6. ASSUME NEW x \in All(w)
        PROVE  x \in All(s) \cup All(t)
    <2>1. PICK i \in 1..n : x \in Items(w[i])
      BY <1>5 DEF All
    <2>2. CASE i <= k
      <3>1. i \in DOMAIN s /\ s[i] = w[i]
        BY <1>2, <1>5, <2>2
      <3> QED  BY <2>1, <3>1 DEF All
    <2>3. CASE ~(i <= k)
      <3>1. i - k \in 1..(n - k) /\ k + (i - k) = i
        BY <1>2, <2>3
      <3>2. i - k \in DOMAIN t /\ t[i - k] = w[i]
        BY <1>5, <3>1
      <3> QED  BY <2>1, <3>2 DEF All
    <2> QED  BY <2>2, <2>3
  <1>7. ASSUME NEW x \in All(s)
        PROVE  x \in All(w)
    <2>1. PICK i \in 1..k : x \in Items(s[i])
      BY <1>5 DEF All
    <2>2. i \in DOMAIN w /\ s[i] = w[i]
      BY <1>2, <1>5
    <2> QED  BY <2>1, <2>2 DEF All
  <1>8. ASSUME NEW x \in All(t)
        PROVE  x \in All(w)
    <2>1. PICK i \in 1..(n - k) : x \in Items(t[i])
      BY <1>5 DEF All
    <2>2. k + i \in DOMAIN w /\ t[i] = w[k + i]
      BY <1>2, <1>5
    <2> QED  BY <2>1, <2>2 DEF All
  <1>9. s = SubSeq(w, 1, k) /\ t = SubSeq(w, k + 1, Len(w))
    BY <1>1 DEF s, t
  <1> QED  BY <1>1, <1>3, <1>4, <1>5, <1>6, <1>7, <1>8, <1>9

LEMMA AllOfRest ==
    ASSUME NEW w \in Seq(Seq(Nat)), w # << >>
    PROVE  /\ Tail(w) \in Seq(Seq(Nat)) /\ Head(w) \in Seq(Nat) /\ Head(w) = w[1] /\ 1 \in DOMAIN w
           /\ All(w) = Items(Head(w)) \cup All(Tail(w))
           /\ \A i \in DOMAIN Tail(w) : i + 1 \in DOMAIN w /\ Tail(w)[i] = w[i + 1]
  <1>1. /\ Head(w) \in Seq(Nat) /\ Head(w) = w[1] /\ Tail(w) \in Seq(Seq(Nat)) /\ Len(Tail(w)) = Len(w) - 1
        /\ Len(w) \in Nat /\ Len(w) >= 1
        /\ \A i \in 1..Len(Tail(w)) : Tail(w)[i] = w[i + 1]
    <2>1. Head(w) = w[1] /\ Len(w) \in Nat /\ Len(w) >= 1
      OBVIOUS
    <2> QED  BY <2>1, HeadTailProperties
  <1>2. DOMAIN w = 1..Len(w) /\ DOMAIN Tail(w) = 1..(Len(w) - 1) /\ 1 \in DOMAIN w
    BY <1>1
  <1>3. \A i \in DOMAIN Tail(w) : i + 1 \in DOMAIN w /\ Tail(w)[i] = w[i + 1]
    BY <1>1, <1>2
  <1>4. ASSUME NEW x \in All(w)
        PROVE  x \in Items(Head(w)) \cup All(Tail(w))
    <2>1. PICK i \in DOMAIN w : x \in Items(w[i])
      BY DEF All
    <2>2. CASE i = 1
      BY <1>1, <2>1, <2>2
    <2>3. CASE i # 1
      <3>1. i - 1 \in DOMAIN Tail(w) /\ (i - 1) + 1 = i
        BY <1>1, <1>2, <2>3
      <3>2. Tail(w)[i - 1] = w[i]
        BY <1>3, <3>1
      <3> QED  BY <2>1, <3>1, <3>2 DEF All
    <2> QED  BY <2>2, <2>3
  <1>5. Items(Head(w)) \subseteq All(w) /\ All(Tail(w)) \subseteq All(w)
    BY <1>1, <1>2, <1>3 DEF All
  <1> QED  BY <1>1, <1>2, <1>3, <1>4, <1>5

-----------------------------------------------------------------------------
(* EndpointTranscriber.                                                    *)

\* The next utterance goes up.
LEMMA EndpointPosts ==
    ASSUME NEW c \in EndpointClients, NEW s \in Seq(Nat), EndpointOrder(c, s), c.waiting # << >>, c.reply = << >>,
           NEW d, d = [c EXCEPT !.waiting = Tail(c.waiting), !.reply = Head(c.waiting)]
    PROVE  /\ d \in EndpointClients /\ d.reply # << >> /\ s \o Head(c.waiting) \in Seq(Nat)
           /\ EndpointOrder(d, s \o Head(c.waiting))
           /\ \A a \in Attempts : EndpointBooks(c, s, a) => EndpointBooks(d, s \o Head(c.waiting), a)
  <1> DEFINE w == c.waiting
             h == Head(c.waiting)
             r == Tail(c.waiting)
  <1>1. w \in Seq(Seq(Nat)) /\ c.pcm \in Seq(Nat)
    BY DEF EndpointClients
  <1>2. /\ r \in Seq(Seq(Nat)) /\ h \in Seq(Nat) /\ h = w[1] /\ 1 \in DOMAIN w
        /\ All(w) = Items(h) \cup All(r)
        /\ \A i \in DOMAIN r : i + 1 \in DOMAIN w /\ r[i] = w[i + 1]
    BY <1>1, AllOfRest
  <1>3. /\ d \in EndpointClients /\ d.waiting = r /\ d.reply = h /\ d.pcm = c.pcm /\ d.open = c.open
        /\ d.cut = c.cut /\ d.inputFinished = c.inputFinished /\ d.then = c.then
    BY <1>2 DEF EndpointClients
  <1>4. /\ Rising(s) /\ Rising(c.pcm)
        /\ \A i \in DOMAIN w :
              /\ Rising(w[i]) /\ w[i] # << >>
              /\ \A j \in DOMAIN w : i < j => Precede(Items(w[i]), Items(w[j]))
        /\ Precede(Items(s), All(w))
        /\ Precede(Items(s), Items(c.pcm)) /\ Precede(All(w), Items(c.pcm))
    BY DEF EndpointOrder
  <1> HIDE DEF w, h, r
  <1>5. s \o h \in Seq(Nat) /\ Items(s \o h) = Items(s) \cup Items(h)
    BY <1>2, ItemsOf, ConcatProperties
  <1>6. h # << >> /\ Rising(h)
    BY <1>2, <1>4
  <1>7. Rising(s \o h)
    <2>1. Precede(Items(s), Items(h))
      BY <1>2, <1>4 DEF Precede
    <2> QED  BY <1>2, <1>4, <1>6, <2>1, Rises
  <1>8. ASSUME NEW i \in DOMAIN r
        PROVE  /\ Rising(r[i]) /\ r[i] # << >> /\ Precede(Items(h), Items(r[i]))
               /\ \A j \in DOMAIN r : i < j => Precede(Items(r[i]), Items(r[j]))
    <2>1. i \in Nat /\ i + 1 \in DOMAIN w /\ r[i] = w[i + 1] /\ 1 < i + 1
      <3>1. i \in Nat /\ i >= 1
        BY <1>2
      <3> QED  BY <1>2, <3>1
    <2>2. ASSUME NEW j \in DOMAIN r, i < j
          PROVE  Precede(Items(r[i]), Items(r[j]))
      <3>1. j \in Nat /\ j + 1 \in DOMAIN w /\ r[j] = w[j + 1] /\ i + 1 < j + 1
        BY <1>2, <2>1, <2>2
      <3> QED  BY <1>4, <2>1, <3>1
    <2> QED  BY <1>2, <1>4, <2>1, <2>2
  <1>9. Precede(Items(h), All(r))
    BY <1>8 DEF Precede, All
  <1>10. Precede(Items(s \o h), All(r)) /\ Precede(Items(s \o h), Items(c.pcm)) /\ Precede(All(r), Items(c.pcm))
    BY <1>2, <1>4, <1>5, <1>9 DEF Precede
  <1>11. EndpointOrder(d, s \o h)
    BY <1>3, <1>4, <1>7, <1>8, <1>10 DEF EndpointOrder
  <1>12. ASSUME NEW a \in Attempts, EndpointBooks(c, s, a)
         PROVE  EndpointBooks(d, s \o h, a)
    <2>1. Spoken(d) = Spoken(c)
      BY <1>3 DEF Spoken
    <2>2. Items(d.reply) = Items(h) /\ Items(c.reply) = {}
      BY <1>3, ItemsOfOne
    <2>3. /\ (c.inputFinished = TRUE) = (a.phase = "told")
          /\ c.inputFinished = TRUE => c.pcm = << >> /\ c.open = FALSE
          /\ c.cut = FALSE => w = << >> /\ c.open = FALSE /\ c.then = "none"
          /\ Items(s) \cup All(w) \cup Items(c.pcm) \cup Items(c.reply) \cup a.words \subseteq 1..a.sent
          /\ a.owed \subseteq a.words \cup Items(c.reply) \cup All(w) \cup Spoken(c)
      BY <1>12 DEF EndpointBooks, w
    <2>4. w # << >>
      BY DEF w
    <2>5. /\ Items(s \o h) \cup All(d.waiting) \cup Items(d.pcm) \cup Items(d.reply) \cup a.words \subseteq 1..a.sent
          /\ a.owed \subseteq a.words \cup Items(d.reply) \cup All(d.waiting) \cup Spoken(d)
      BY <1>2, <1>3, <1>5, <2>1, <2>2, <2>3
    <2> QED  BY <1>3, <2>3, <2>4, <2>5 DEF EndpointBooks
  <1> QED  BY <1>3, <1>5, <1>6, <1>11, <1>12 DEF h

\* What the oldest are that must go.
LEMMA EndpointExcess ==
    ASSUME NEW w \in Seq(Seq(Nat)), w # << >>
    PROVE  Endpoint!Excess(w) \in 0..(Len(w) - 1)
  <1>1. PICK n \in Nat : n = Len(w) /\ n >= 1
    <2>1. Len(w) \in Nat /\ Len(w) >= 1
      OBVIOUS
    <2> QED  BY <2>1
  <1> DEFINE Fits(k) == \/ k = n - 1
                        \/ Endpoint!Size(Endpoint!SubSeq(w, k + 1, n)) <= MostWaiting
             fitting == {k \in 0..(n - 1) : Fits(k)}
  <1>2. fitting \in SUBSET Nat /\ n - 1 \in fitting
    BY <1>1
  <1> HIDE DEF Fits
  <1>3. PICK k \in fitting : \A j \in fitting : k <= j
    BY <1>2, Least
  <1>4. k \in 0..(n - 1) /\ Fits(k) /\ \A j \in 0..(k - 1) : ~Fits(j)
    <2>1. k \in Nat /\ k \in 0..(n - 1) /\ Fits(k)
      BY <1>2
    <2>2. ASSUME NEW j \in 0..(k - 1), Fits(j)
          PROVE  FALSE
      <3>1. j \in 0..(n - 1) /\ ~(k <= j)
        BY <1>1, <2>1
      <3> QED  BY <1>3, <2>2, <3>1
    <2> QED  BY <2>1, <2>2
  <1>5. Endpoint!Excess(w) = CHOOSE m \in 0..(n - 1) : Fits(m) /\ \A j \in 0..(m - 1) : ~Fits(j)
    BY <1>1 DEF Endpoint!Excess, Fits
  <1> QED  BY <1>1, <1>4, <1>5

LEMMA EndpointChunks ==
    ASSUME NEW w \in Seq(Seq(Nat))
    PROVE  Endpoint!Chunks(w) = All(w)
  <1>1. Endpoint!Chunks(w) = UNION {Items(u) : u \in Items(w)}
    BY DEF Endpoint!Chunks, Endpoint!Range, Items
  <1>2. UNION {Items(u) : u \in Items(w)} = All(w)
    BY DEF All, Items
  <1> QED  BY <1>1, <1>2

\* The utterance that ends joins those that wait, in order.
LEMMA EndpointQueues ==
    ASSUME NEW c \in EndpointClients, NEW s \in Seq(Nat), EndpointOrder(c, s), c.pcm # << >>,
           NEW q, q = Append(c.waiting, c.pcm)
    PROVE  /\ q \in Seq(Seq(Nat)) /\ q # << >> /\ All(q) = All(c.waiting) \cup Items(c.pcm)
           /\ \A i \in DOMAIN q :
                 /\ Rising(q[i]) /\ q[i] # << >>
                 /\ \A j \in DOMAIN q : i < j => Precede(Items(q[i]), Items(q[j]))
           /\ Precede(Items(s), All(q))
  <1>1. PICK w \in Seq(Seq(Nat)) : w = c.waiting
    BY DEF EndpointClients
  <1>2. PICK u \in Seq(Nat) : u = c.pcm /\ u # << >>
    BY DEF EndpointClients
  <1>3. PICK n \in Nat : n = Len(w)
    BY <1>1
  <1>4. /\ q \in Seq(Seq(Nat)) /\ q # << >> /\ Len(q) = n + 1 /\ q[n + 1] = u
        /\ \A i \in 1..n : q[i] = w[i]
        /\ DOMAIN q = 1..(n + 1) /\ DOMAIN w = 1..n
    <2>1. q = Append(w, u)
      BY <1>1, <1>2
    <2>2. /\ Append(w, u) \in Seq(Seq(Nat)) /\ Len(Append(w, u)) = Len(w) + 1
          /\ Append(w, u)[Len(w) + 1] = u
          /\ \A i \in 1..Len(w) : Append(w, u)[i] = w[i]
      BY AppendProperties
    <2>3. /\ q \in Seq(Seq(Nat)) /\ Len(q) = n + 1 /\ q[n + 1] = u
          /\ \A i \in 1..n : q[i] = w[i]
      BY <1>3, <2>1, <2>2, Zenon
    <2>4. q # << >>
      <3>1. Len(<< >>) = 0 /\ n + 1 # 0
        OBVIOUS
      <3> QED  BY <2>3, <3>1, Zenon
    <2>5. DOMAIN q = 1..(n + 1) /\ DOMAIN w = 1..n
      BY <1>3, <2>3
    <2> QED  BY <2>3, <2>4, <2>5, Zenon
  <1>5. All(q) = All(w) \cup Items(u)
    BY <1>1, <1>2, AllOfMore
  <1>6. /\ Rising(u) /\ Precede(Items(s), All(w)) /\ Precede(Items(s), Items(u)) /\ Precede(All(w), Items(u))
        /\ \A i \in DOMAIN w :
              /\ Rising(w[i]) /\ w[i] # << >>
              /\ \A j \in DOMAIN w : i < j => Precede(Items(w[i]), Items(w[j]))
    BY <1>1, <1>2 DEF EndpointOrder
  <1>9. \A i \in DOMAIN q : i # n + 1 => i \in 1..n
    <2>1. ASSUME NEW i \in 1..(n + 1), i # n + 1
          PROVE  i \in 1..n
      BY <1>3, <2>1
    <2> QED  BY <1>4, <2>1
  <1>7. ASSUME NEW i \in DOMAIN q
        PROVE  /\ Rising(q[i]) /\ q[i] # << >>
               /\ \A j \in DOMAIN q : i < j => Precede(Items(q[i]), Items(q[j]))
    <2>1. CASE i = n + 1
      <3>1. \A j \in DOMAIN q : ~(i < j)
        BY <1>4, <2>1
      <3> QED  BY <1>2, <1>4, <1>6, <2>1, <3>1
    <2>2. CASE i # n + 1
      <3>1. i \in DOMAIN w /\ i \in 1..n /\ q[i] = w[i]
        BY <1>4, <1>9, <2>2
      <3>2. ASSUME NEW j \in DOMAIN q, i < j
            PROVE  Precede(Items(q[i]), Items(q[j]))
        <4>1. CASE j = n + 1
          <5>1. Items(w[i]) \subseteq All(w)
            BY <3>1 DEF All
          <5> QED  BY <1>4, <1>6, <3>1, <4>1, <5>1 DEF Precede
        <4>2. CASE j # n + 1
          <5>1. j \in DOMAIN w /\ q[j] = w[j]
            BY <1>4, <1>9, <4>2
          <5> QED  BY <1>6, <3>1, <3>2, <5>1
        <4> QED  BY <4>1, <4>2
      <3> QED  BY <1>6, <3>1, <3>2
    <2> QED  BY <2>1, <2>2
  <1>8. Precede(Items(s), All(q))
    BY <1>5, <1>6 DEF Precede
  <1> QED  BY <1>1, <1>2, <1>4, <1>5, <1>7, <1>8

\* closeUtterance(): the oldest that must go are told of, the others wait.
LEMMA EndpointCloses ==
    ASSUME NEW c \in EndpointClients, NEW s \in Seq(Nat), EndpointOrder(c, s),
           NEW d, d = Endpoint!closeUtterance(c), NEW dropped, dropped = Endpoint!Dropped(c)
    PROVE  /\ d \in EndpointClients /\ EndpointOrder(d, s) /\ d.open = FALSE /\ d.cut = c.cut
           /\ d.inputFinished = c.inputFinished /\ d.reply = c.reply /\ d.then = c.then
           /\ All(d.waiting) \cup dropped = All(c.waiting) \cup (IF c.open = TRUE THEN Items(c.pcm) ELSE {})
           /\ d.pcm = IF c.open = TRUE THEN << >> ELSE c.pcm
           /\ c.open = FALSE => d.waiting = c.waiting
  <1>1. c.open \in BOOLEAN /\ c.pcm \in Seq(Nat) /\ c.waiting \in Seq(Seq(Nat))
    BY DEF EndpointClients
  <1>2. CASE c.open = FALSE \/ c.pcm = << >>
    <2>1. d = [c EXCEPT !.open = FALSE] /\ dropped = {}
      BY <1>1, <1>2 DEF Endpoint!closeUtterance, Endpoint!Dropped
    <2>2. /\ d \in EndpointClients /\ d.open = FALSE /\ d.pcm = c.pcm /\ d.waiting = c.waiting /\ d.cut = c.cut
          /\ d.inputFinished = c.inputFinished /\ d.reply = c.reply /\ d.then = c.then
      BY <2>1 DEF EndpointClients
    <2>3. EndpointOrder(d, s)
      BY <2>2 DEF EndpointOrder
    <2>4. c.open = TRUE => Items(c.pcm) = {}
      BY <1>2, ItemsOfOne
    <2> QED  BY <1>1, <1>2, <2>1, <2>2, <2>3, <2>4
  <1>3. CASE c.open = TRUE /\ c.pcm # << >>
    <2>1. PICK q : q = Append(c.waiting, c.pcm)
      OBVIOUS
    <2>2. /\ q \in Seq(Seq(Nat)) /\ q # << >> /\ All(q) = All(c.waiting) \cup Items(c.pcm)
          /\ \A i \in DOMAIN q :
                /\ Rising(q[i]) /\ q[i] # << >>
                /\ \A j \in DOMAIN q : i < j => Precede(Items(q[i]), Items(q[j]))
          /\ Precede(Items(s), All(q))
      BY <1>3, <2>1, EndpointQueues
    <2>3. PICK k : k = Endpoint!Excess(q)
      OBVIOUS
    <2>4. Len(q) \in Nat /\ k \in 0..Len(q) /\ DOMAIN q = 1..Len(q)
      <3>1. k \in 0..(Len(q) - 1) /\ Len(q) \in Nat
        BY <2>2, <2>3, EndpointExcess
      <3> QED  BY <2>2, <3>1
    <2>5. PICK kept : kept = SubSeq(q, k + 1, Len(q))
      OBVIOUS
    <2>6. PICK gone : gone = SubSeq(q, 1, k)
      OBVIOUS
    <2>7. /\ gone \in Seq(Seq(Nat)) /\ kept \in Seq(Seq(Nat)) /\ All(gone) \cup All(kept) = All(q)
          /\ Len(kept) = Len(q) - k /\ \A i \in 1..(Len(q) - k) : kept[i] = q[k + i]
      BY <2>2, <2>4, <2>5, <2>6, AllOfParts
    <2>8. /\ d = [c EXCEPT !.open = FALSE, !.pcm = << >>, !.waiting = kept]
          /\ dropped = All(gone)
      <3>1. dropped = Endpoint!Chunks(gone)
        BY <1>3, <2>1, <2>3, <2>6 DEF Endpoint!Dropped, Endpoint!Queued
      <3>2. d = [c EXCEPT !.open = FALSE, !.pcm = << >>, !.waiting = kept]
        BY <1>3, <2>1, <2>3, <2>5 DEF Endpoint!closeUtterance, Endpoint!Queued
      <3> QED  BY <2>7, <3>1, <3>2, EndpointChunks
    <2>9. /\ d \in EndpointClients /\ d.open = FALSE /\ d.pcm = << >> /\ d.waiting = kept /\ d.cut = c.cut
          /\ d.inputFinished = c.inputFinished /\ d.reply = c.reply /\ d.then = c.then
      <3>1. << >> \in Seq(Nat)
        OBVIOUS
      <3> QED  BY <2>7, <2>8, <3>1 DEF EndpointClients
    <2>10. ASSUME NEW i \in DOMAIN kept
           PROVE  /\ Rising(kept[i]) /\ kept[i] # << >>
                  /\ \A j \in DOMAIN kept : i < j => Precede(Items(kept[i]), Items(kept[j]))
      <3>1. DOMAIN kept = 1..(Len(q) - k)
        BY <2>4, <2>7
      <3>2. k + i \in DOMAIN q /\ kept[i] = q[k + i] /\ i \in Nat /\ k \in Nat
        BY <2>4, <2>7, <3>1
      <3>3. ASSUME NEW j \in DOMAIN kept, i < j
            PROVE  Precede(Items(kept[i]), Items(kept[j]))
        <4>1. k + j \in DOMAIN q /\ kept[j] = q[k + j] /\ k + i < k + j
          BY <2>4, <2>7, <3>1, <3>2, <3>3
        <4> QED  BY <2>2, <3>2, <4>1
      <3> QED  BY <2>2, <3>2, <3>3
    <2>11. EndpointOrder(d, s)
      <3>1. Rising(s) /\ Rising(<< >>)
        BY DEF EndpointOrder, Rising
      <3>2. Items(<< >>) = {}
        BY ItemsOfOne
      <3>3. Precede(Items(s), All(kept)) /\ Precede(Items(s), {}) /\ Precede(All(kept), {})
        BY <2>2, <2>7 DEF Precede
      <3> QED  BY <2>9, <2>10, <3>1, <3>2, <3>3 DEF EndpointOrder
    <2> QED  BY <1>3, <2>2, <2>7, <2>8, <2>9, <2>11
  <1> QED  BY <1>1, <1>2, <1>3

LEMMA EndpointSame ==
    /\ Endpoint!Current = Current /\ Endpoint!Opened = Opened /\ Endpoint!Told = Told /\ Endpoint!LetGo = LetGo
    /\ \A a, end : Endpoint!Ended(a, end) = Ended(a, end)
    /\ \A a, chunks : Endpoint!Accounted(a, chunks) = Accounted(a, chunks)
    /\ \A a, spoken : Endpoint!Handed(a, spoken) = Handed(a, spoken)
    /\ Endpoint!MayOpen = MayOpen /\ Endpoint!MayFinish = MayFinish /\ Endpoint!MayCancel = MayCancel
    /\ Endpoint!MaySend = MaySend
  BY DEF Endpoint!Current, Endpoint!Opened, Endpoint!Told, Endpoint!LetGo, Endpoint!Ended, Endpoint!Accounted,
         Endpoint!Handed, Endpoint!MayOpen, Endpoint!MayFinish, Endpoint!MayCancel, Endpoint!MaySend,
         Endpoint!NoAttempt, Current, Opened, Told, LetGo, Ended, Accounted, Handed, MayOpen, MayFinish, MayCancel,
         MaySend, NoAttempt

LEMMA EndpointTyped ==
    ASSUME EndpointKeeps
    PROVE  /\ attempt \in Attempts /\ client \in EndpointClients /\ server \in Seq(Nat)
           /\ client.cut \in BOOLEAN /\ client.inputFinished \in BOOLEAN /\ client.open \in BOOLEAN
           /\ client.pcm \in Seq(Nat) /\ client.waiting \in Seq(Seq(Nat)) /\ client.reply \in Seq(Nat)
           /\ client.then \in {"none", "upload", "fail"}
           /\ attempt.sent \in Nat /\ attempt.words \in SUBSET Nat /\ attempt.owed \in SUBSET Nat
  <1>1. attempt \in Attempts /\ client \in EndpointClients /\ server \in Seq(Nat)
    BY DEF EndpointKeeps
  <1> QED  BY <1>1 DEF EndpointClients, Attempts

\* The words a call or an answer accounts for.
LEMMA Accounts ==
    ASSUME attempt \in Attempts, Current, NEW chunks \in SUBSET (1..attempt.sent),
           NEW a, a = Accounted(attempt, attempt.words \cup chunks), attempt.words \subseteq 1..attempt.sent
    PROVE  /\ a \in Attempts /\ a = [attempt EXCEPT !.words = attempt.words \cup chunks]
           /\ attempt' = a => Promised
           /\ attempt' = Ended(a, "failed") => Promised
           /\ attempt' = Ended(a, "completed") /\ (attempt.phase = "told" => a.owed \subseteq a.words) => Promised
  <1>1. PICK words \in SUBSET (1..attempt.sent) : words = attempt.words \cup chunks
    OBVIOUS
  <1>2. attempt.words \subseteq words /\ words \in SUBSET Nat
    BY <1>1
  <1>3. a = [attempt EXCEPT !.words = words] /\ a = Accounted(attempt, words)
    BY <1>1 DEF Accounted
  <1>4. a \in Attempts /\ a.words = words /\ a.owed = attempt.owed
    BY <1>2, <1>3 DEF Attempts
  <1>5. attempt' = a => Promised
    BY <1>2, <1>3, Hears
  <1>6. attempt' = Ended(a, "failed") => Promised
    <2>1. attempt' = Ended(a, "failed") => Fail
      BY <1>2, <1>3 DEF Fail
    <2> QED  BY <2>1 DEF Promised, ContractNext
  <1>7. ASSUME attempt' = Ended(a, "completed"), attempt.phase = "told" => a.owed \subseteq a.words
        PROVE  Promised
    BY <1>2, <1>3, <1>4, <1>7, Completes
  <1> QED  BY <1>1, <1>3, <1>4, <1>5, <1>6, <1>7

\* The same, in the call that tells that the input ended.
LEMMA FinishesAndAccounts ==
    ASSUME attempt \in Attempts, MayFinish, NEW chunks \in SUBSET (1..attempt.sent),
           NEW a, a = Accounted(Told, attempt.words \cup chunks), attempt.words \subseteq 1..attempt.sent
    PROVE  /\ a \in Attempts /\ a = [attempt EXCEPT !.phase = "told", !.words = attempt.words \cup chunks]
           /\ attempt' = a => Promised
           /\ attempt' = Ended(a, "completed") => Promised
  <1>1. PICK words \in SUBSET (1..attempt.sent) : words = attempt.words \cup chunks
    OBVIOUS
  <1>2. attempt.words \subseteq words /\ words \in SUBSET Nat /\ Current
    BY <1>1 DEF MayFinish, Current
  <1>3. a = [attempt EXCEPT !.phase = "told", !.words = words] /\ a = Accounted(Told, words)
    BY <1>1, <1>2 DEF Accounted, Told, Attempts
  <1>4. a \in Attempts
    BY <1>2, <1>3 DEF Attempts, Phases
  <1>5. attempt' = a => Promised
    <2>1. attempt' = a => Finish
      BY <1>2, <1>3 DEF Finish
    <2> QED  BY <2>1 DEF Promised, ContractNext
  <1>6. ASSUME attempt' = Ended(a, "completed")
        PROVE  Promised
    <2>1. attempt' = [attempt EXCEPT !.phase = "completed", !.words = words]
      BY <1>2, <1>3, <1>6 DEF Ended, Attempts
    <2>2. attempt' = Ended(Accounted(attempt, words), "completed")
      BY <1>2, <2>1 DEF Ended, Accounted, Attempts
    <2>3. attempt.phase # "told"
      BY DEF MayFinish
    <2> QED  BY <1>2, <2>2, <2>3, Completes
  <1> QED  BY <1>1, <1>3, <1>4, <1>5, <1>6

\* uploadNextUtterance(): the next goes up, or nothing is left to wait for.
LEMMA EndpointUploads ==
    ASSUME attempt \in Attempts, Current, server \in Seq(Nat),
           NEW c \in EndpointClients, NEW a \in Attempts, a.phase \in {"open", "told"},
           c.reply = << >>, c.then = "none", EndpointOrder(c, server), EndpointBooks(c, server, a),
           Endpoint!uploadNextUtterance(c, a)
    PROVE  /\ EndpointKeeps'
           /\ attempt' = a \/ (attempt' = Ended(a, "completed") /\ a.owed \subseteq a.words)
  <1>1. CASE c.waiting # << >>
    <2>1. /\ client' = [c EXCEPT !.waiting = Tail(c.waiting), !.reply = Head(c.waiting)]
          /\ server' = server \o Head(c.waiting) /\ attempt' = a
      BY <1>1 DEF Endpoint!uploadNextUtterance, Endpoint!postAudio, EndpointClients
    <2>2. /\ client' \in EndpointClients /\ client'.reply # << >> /\ server' \in Seq(Nat)
          /\ EndpointOrder(client', server') /\ EndpointBooks(client', server', a)
      BY <1>1, <2>1, EndpointPosts
    <2>3. client'.then = "none" /\ Current'
      BY <2>1 DEF EndpointClients, Current
    <2> QED  BY <2>1, <2>2, <2>3 DEF EndpointKeeps
  <1>2. CASE c.waiting = << >> /\ c.inputFinished = FALSE
    <2>1. client' = c /\ server' = server /\ attempt' = a
      BY <1>2 DEF Endpoint!uploadNextUtterance
    <2>2. EndpointOrder(client', server') /\ EndpointBooks(client', server', attempt')
      BY <2>1
    <2>3. Current' /\ attempt' \in Attempts /\ client' \in EndpointClients /\ server' \in Seq(Nat)
      BY <2>1 DEF Current
    <2>4. client'.waiting = << >> /\ client'.then = "none"
      BY <1>2, <2>1
    <2> QED  BY <2>1, <2>2, <2>3, <2>4 DEF EndpointKeeps
  <1>3. CASE c.waiting = << >> /\ c.inputFinished = TRUE
    <2>1. client' = c /\ server' = server /\ attempt' = Ended(a, "completed")
      BY <1>3, EndpointSame DEF Endpoint!uploadNextUtterance
    <2>2. attempt' = [a EXCEPT !.phase = "completed"]
      BY <2>1 DEF Ended
    <2>3. attempt' \in Attempts /\ ~Current'
      BY <2>2 DEF Attempts, Phases, Current
    <2>4. a.owed \subseteq a.words
      <3>1. Items(<< >>) = {}
        BY ItemsOfOne
      <3>2. All(c.waiting) = {} /\ Items(c.reply) = {}
        BY <1>3, <3>1 DEF All
      <3>3. Spoken(c) = {}
        BY <1>3, <3>1 DEF Spoken, EndpointBooks
      <3> QED  BY <3>2, <3>3 DEF EndpointBooks
    <2>5. /\ EndpointOrder(client', server') /\ client' \in EndpointClients /\ server' \in Seq(Nat)
          /\ client'.reply = << >> /\ client'.then = "none"
      BY <2>1
    <2> QED  BY <2>1, <2>3, <2>4, <2>5 DEF EndpointKeeps
  <1>4. c.inputFinished \in BOOLEAN
    BY DEF EndpointClients
  <1> QED  BY <1>1, <1>2, <1>3, <1>4

LEMMA EndpointClosesAndUploads ==
    ASSUME EndpointKeeps, Current, NEW c \in EndpointClients, NEW a \in Attempts, a.phase \in {"open", "told"},
           c.reply = client.reply, c.then = "none", EndpointOrder(c, server), EndpointBooks(c, server, a),
           Endpoint!CloseAndUpload(c, a)
    PROVE  /\ EndpointKeeps'
           /\ attempt' = a \/ (attempt' = Ended(a, "completed") /\ a.owed \subseteq a.words)
  <1>1. CASE client.reply = << >>
    BY <1>1, EndpointTyped, EndpointUploads DEF Endpoint!CloseAndUpload
  <1>2. CASE client.reply # << >>
    <2>1. client' = c /\ attempt' = a /\ server' = server /\ server \in Seq(Nat)
      BY <1>2, EndpointTyped DEF Endpoint!CloseAndUpload
    <2>2. EndpointOrder(client', server') /\ EndpointBooks(client', server', attempt')
      BY <2>1
    <2>3. Current' /\ attempt' \in Attempts /\ client' \in EndpointClients /\ server' \in Seq(Nat)
      BY <2>1 DEF Current
    <2>4. client'.reply # << >> /\ client'.then = "none"
      BY <1>2, <2>1
    <2> QED  BY <2>1, <2>2, <2>3, <2>4 DEF EndpointKeeps
  <1> QED  BY <1>1, <1>2

LEMMA EndpointStarts ==
    ASSUME EndpointKeeps, Endpoint!startAttempt
    PROVE  EndpointStep
  <1>1. PICK cut \in BOOLEAN : client' = Endpoint!NewClient(cut)
    BY DEF Endpoint!startAttempt
  <1>2. MayOpen /\ attempt' = Opened /\ server' = << >>
    BY EndpointSame DEF Endpoint!startAttempt, Endpoint!NewServer
  <1>3. /\ Promised /\ attempt' \in Attempts /\ Current' /\ attempt'.phase = "open"
        /\ attempt'.sent = 0 /\ attempt'.owed = {} /\ attempt'.words = {}
    BY <1>2, EndpointTyped, Starts
  <1>4. /\ client' \in EndpointClients /\ client'.cut = cut /\ client'.inputFinished = FALSE /\ client'.open = FALSE
        /\ client'.pcm = << >> /\ client'.waiting = << >> /\ client'.reply = << >> /\ client'.then = "none"
    <2>1. << >> \in Seq(Nat) /\ << >> \in Seq(Seq(Nat))
      OBVIOUS
    <2> QED  BY <1>1, <2>1 DEF Endpoint!NewClient, EndpointClients
  <1>5. Items(<< >>) = {} /\ All(client'.waiting) = {} /\ Rising(<< >>) /\ << >> \in Seq(Nat)
    <2>1. Items(<< >>) = {} /\ << >> \in Seq(Nat)
      BY ItemsOfOne
    <2>2. All(client'.waiting) = {}
      BY <1>4 DEF All
    <2>3. Rising(<< >>)
      BY DEF Rising
    <2> QED  BY <2>1, <2>2, <2>3
  <1>6. EndpointOrder(client', server')
    BY <1>2, <1>4, <1>5 DEF EndpointOrder, Precede
  <1>7. EndpointBooks(client', server', attempt')
    <2>1. Spoken(client') = {}
      BY <1>4, <1>5 DEF Spoken
    <2> QED  BY <1>2, <1>3, <1>4, <1>5, <2>1 DEF EndpointBooks
  <1> QED  BY <1>2, <1>3, <1>4, <1>5, <1>6, <1>7 DEF EndpointKeeps, EndpointStep

\* The next chunk comes after all that came; what is quiet is cut short.
LEMMA EndpointSends ==
    ASSUME LeadIn \in Nat, EndpointKeeps, Endpoint!sendAudio
    PROVE  EndpointStep
  <1> DEFINE spoken == ~client.cut \/ client.open
  <1>1. /\ client.then = "none" /\ MaySend /\ attempt' = Handed(attempt, spoken) /\ server' = server
    BY EndpointSame DEF Endpoint!sendAudio, Endpoint!Calm
  <1>2. /\ Promised /\ attempt' \in Attempts /\ Current /\ Current' /\ attempt'.phase = "open"
        /\ attempt'.sent = attempt.sent + 1 /\ attempt'.words = attempt.words
        /\ attempt'.owed = IF spoken THEN attempt.owed \cup {attempt.sent + 1} ELSE attempt.owed
        /\ attempt.phase = "open"
    <2>1. spoken \in BOOLEAN
      BY EndpointTyped
    <2> HIDE DEF spoken
    <2> QED  BY <1>1, <2>1, EndpointTyped, Hands
  <1>3. PICK next \in Nat : next = attempt.sent + 1
    BY EndpointTyped
  <1>4. PICK u \in Seq(Nat) : u = client.pcm
    BY EndpointTyped
  <1>5. PICK pcm : pcm = Append(u, next)
    OBVIOUS
  <1>6. PICK kept : kept = client'.pcm
    OBVIOUS
  <1>7. /\ pcm \in Seq(Nat) /\ Items(pcm) = Items(u) \cup {next}
        /\ Rising(pcm)
    <2>1. Items(u) \subseteq 1..attempt.sent /\ Rising(u)
      BY <1>2, <1>4 DEF EndpointKeeps, EndpointBooks, EndpointOrder
    <2>2. Precede(Items(u), {next})
      BY <1>3, <2>1, EndpointTyped DEF Precede
    <2> QED  BY <1>5, <2>1, <2>2, ItemsOfMore, RisesOn
  <1>8. /\ client' = [client EXCEPT !.pcm = kept]
        /\ kept = IF client.cut /\ ~client.open /\ Len(pcm) > LeadIn
                  THEN SubSeq(pcm, Len(pcm) - LeadIn + 1, Len(pcm)) ELSE pcm
    <2>1. client' = [client EXCEPT !.pcm =
                         IF client.cut /\ ~client.open /\ Len(pcm) > LeadIn
                         THEN SubSeq(pcm, Len(pcm) - LeadIn + 1, Len(pcm)) ELSE pcm]
      BY <1>2, <1>3, <1>4, <1>5 DEF Endpoint!sendAudio
    <2> QED  BY <1>6, <2>1, EndpointTyped DEF EndpointClients
  <1>9. kept \in Seq(Nat) /\ Items(kept) \subseteq Items(pcm) /\ Rising(kept)
    <2>1. PICK n \in Nat : n = Len(pcm)
      BY <1>7
    <2>2. CASE client.cut /\ ~client.open /\ n > LeadIn
      <3>1. ASSUME NEW l \in Nat, n > l
            PROVE  n - l + 1 \in 1..(n + 1)
        BY <3>1
      <3>2. PICK first \in 1..(n + 1) : first = n - LeadIn + 1
        BY <2>2, <3>1
      <3>3. kept = SubSeq(pcm, first, n)
        BY <1>8, <2>1, <2>2, <3>2
      <3>4. kept \in Seq(Nat) /\ Items(kept) \subseteq Items(pcm) /\ (Rising(pcm) => Rising(kept))
        BY <1>7, <2>1, <3>3, PartRises
      <3> QED  BY <1>7, <3>4
    <2>3. CASE ~(client.cut /\ ~client.open /\ n > LeadIn)
      BY <1>7, <1>8, <2>1, <2>3
    <2> QED  BY <2>2, <2>3
  <1>10. /\ client' \in EndpointClients /\ client'.pcm = kept /\ client'.cut = client.cut /\ client'.open = client.open
         /\ client'.inputFinished = client.inputFinished /\ client'.waiting = client.waiting
         /\ client'.reply = client.reply /\ client'.then = client.then
    BY <1>8, <1>9, EndpointTyped DEF EndpointClients
  <1>11. /\ (client.inputFinished = TRUE) = (attempt.phase = "told")
         /\ client.cut = FALSE =>
              /\ client.waiting = << >> /\ client.open = FALSE /\ client.then = "none"
              /\ client.inputFinished = FALSE => client.reply = << >>
         /\ Items(server) \cup All(client.waiting) \cup Items(u) \cup Items(client.reply) \cup attempt.words
               \subseteq 1..attempt.sent
         /\ attempt.owed \subseteq attempt.words \cup Items(client.reply) \cup All(client.waiting) \cup Spoken(client)
         /\ client.waiting # << >> => client.reply # << >> \/ client.then # "none"
    BY <1>2, <1>4 DEF EndpointKeeps, EndpointBooks
  <1>12. Items(kept) \subseteq Items(u) \cup {next}
    BY <1>7, <1>9
  <1>13. EndpointOrder(client', server')
    <2>1. /\ Precede(Items(server), Items(u)) /\ Precede(All(client.waiting), Items(u)) /\ Rising(server)
          /\ Precede(Items(server), All(client.waiting))
          /\ \A i \in DOMAIN client.waiting :
                /\ Rising(client.waiting[i]) /\ client.waiting[i] # << >>
                /\ \A j \in DOMAIN client.waiting :
                     i < j => Precede(Items(client.waiting[i]), Items(client.waiting[j]))
      BY <1>4 DEF EndpointKeeps, EndpointOrder
    <2>2. \A a \in 1..attempt.sent : a < next
      BY <1>3, EndpointTyped
    <2>3. Precede(Items(server), Items(kept)) /\ Precede(All(client.waiting), Items(kept))
      BY <1>11, <1>12, <2>1, <2>2 DEF Precede
    <2> QED  BY <1>1, <1>9, <1>10, <2>1, <2>3 DEF EndpointOrder
  <1>14. EndpointBooks(client', server', attempt')
    <2>1. 1..attempt.sent \cup {next} \subseteq 1..attempt'.sent
      BY <1>2, <1>3, EndpointTyped
    <2>2. Items(server') \cup All(client'.waiting) \cup Items(client'.pcm) \cup Items(client'.reply) \cup attempt'.words
               \subseteq 1..attempt'.sent
      BY <1>1, <1>2, <1>10, <1>11, <1>12, <2>1
    <2>3. attempt'.owed \subseteq attempt'.words \cup Items(client'.reply) \cup All(client'.waiting) \cup Spoken(client')
      <3>1. CASE spoken
        <4>1. kept = pcm
          BY <1>8, <3>1, EndpointTyped
        <4>2. Spoken(client') = Items(u) \cup {next} /\ Spoken(client) = Items(u)
          BY <1>4, <1>7, <1>10, <3>1, <4>1, EndpointTyped DEF Spoken
        <4>3. attempt'.owed = attempt.owed \cup {next}
          BY <1>2, <1>3, <3>1
        <4> QED  BY <1>2, <1>10, <1>11, <4>2, <4>3
      <3>2. CASE ~spoken
        <4>1. Spoken(client') = {} /\ Spoken(client) = {}
          BY <1>10, <3>2, EndpointTyped DEF Spoken
        <4>2. attempt'.owed = attempt.owed
          BY <1>2, <3>2
        <4> QED  BY <1>2, <1>10, <1>11, <4>1, <4>2
      <3> QED  BY <3>1, <3>2
    <2>4. client'.inputFinished # TRUE
      BY <1>2, <1>10, <1>11
    <2> QED  BY <1>2, <1>10, <1>11, <2>2, <2>3, <2>4 DEF EndpointBooks
  <1>15. client'.then = "none" /\ server' \in Seq(Nat) /\ (client'.waiting # << >> => client'.reply # << >>)
    BY <1>1, <1>10, <1>11, EndpointTyped
  <1> QED  BY <1>2, <1>10, <1>13, <1>14, <1>15 DEF EndpointKeeps, EndpointStep

LEMMA EndpointBegins ==
    ASSUME EndpointKeeps, Endpoint!beginUtterance
    PROVE  EndpointStep
  <1>1. /\ client.then = "none" /\ attempt.phase = "open" /\ client.cut = TRUE /\ client.inputFinished = FALSE
        /\ client' = [client EXCEPT !.open = TRUE] /\ attempt' = attempt /\ server' = server
    BY EndpointTyped DEF Endpoint!beginUtterance, Endpoint!Calm
  <1>2. /\ client' \in EndpointClients /\ client'.pcm = client.pcm /\ client'.cut = TRUE /\ client'.open = TRUE
        /\ client'.inputFinished = FALSE /\ client'.waiting = client.waiting
        /\ client'.reply = client.reply /\ client'.then = "none"
    BY <1>1, EndpointTyped DEF EndpointClients
  <1>3. Current /\ Current'
    BY <1>1 DEF Current
  <1>4. EndpointOrder(client', server')
    BY <1>1, <1>2 DEF EndpointKeeps, EndpointOrder
  <1>5. EndpointBooks(client, server, attempt) /\ (client.waiting # << >> => client.reply # << >>)
    BY <1>1, <1>3 DEF EndpointKeeps
  <1>6. EndpointBooks(client', server', attempt')
    <2>1. Spoken(client) \subseteq Spoken(client')
      BY <1>2 DEF Spoken
    <2> QED  BY <1>1, <1>2, <1>5, <2>1 DEF EndpointBooks
  <1>7. attempt' \in Attempts /\ server' \in Seq(Nat) /\ Promised
    BY <1>1, EndpointTyped DEF Promised
  <1> QED  BY <1>2, <1>3, <1>4, <1>5, <1>6, <1>7 DEF EndpointKeeps, EndpointStep

LEMMA EndpointEndsUtterance ==
    ASSUME EndpointKeeps, Endpoint!endUtterance
    PROVE  EndpointStep
  <1>1. PICK c : c = Endpoint!closeUtterance(client)
    OBVIOUS
  <1>2. PICK dropped : dropped = Endpoint!Dropped(client)
    OBVIOUS
  <1>3. PICK a : a = Accounted(attempt, attempt.words \cup dropped)
    OBVIOUS
  <1>4. /\ client.then = "none" /\ attempt.phase = "open" /\ client.open = TRUE
        /\ Endpoint!CloseAndUpload(c, a)
    BY <1>1, <1>2, <1>3, EndpointSame, EndpointTyped DEF Endpoint!endUtterance, Endpoint!Calm, Endpoint!Heard
  <1>5. /\ c \in EndpointClients /\ EndpointOrder(c, server) /\ c.open = FALSE /\ c.cut = client.cut
        /\ c.inputFinished = client.inputFinished /\ c.reply = client.reply /\ c.then = client.then
        /\ All(c.waiting) \cup dropped = All(client.waiting) \cup Items(client.pcm)
        /\ c.pcm = << >>
    <2>1. EndpointOrder(client, server)
      BY DEF EndpointKeeps
    <2> QED  BY <1>1, <1>2, <1>4, <2>1, EndpointTyped, EndpointCloses
  <1>6. Current /\ EndpointBooks(client, server, attempt)
    BY <1>4 DEF Current, EndpointKeeps
  <1>7. dropped \in SUBSET (1..attempt.sent) /\ attempt.words \subseteq 1..attempt.sent
    BY <1>5, <1>6 DEF EndpointBooks
  <1>8. /\ a \in Attempts /\ a = [attempt EXCEPT !.words = attempt.words \cup dropped]
        /\ attempt' = a => Promised
        /\ attempt' = Ended(a, "completed") /\ (attempt.phase = "told" => a.owed \subseteq a.words) => Promised
    BY <1>3, <1>6, <1>7, EndpointTyped, Accounts
  <1>9. EndpointBooks(c, server, a) /\ a.phase = "open"
    <2>1. /\ a.words = attempt.words \cup dropped /\ a.owed = attempt.owed /\ a.sent = attempt.sent
          /\ a.phase = "open"
      BY <1>4, <1>8, EndpointTyped DEF Attempts
    <2>2. Spoken(client) \subseteq Items(client.pcm) /\ Items(<< >>) = {}
      BY ItemsOfOne DEF Spoken
    <2>3. /\ (client.inputFinished = TRUE) = (attempt.phase = "told")
          /\ client.cut = FALSE => client.waiting = << >> /\ client.open = FALSE /\ client.then = "none"
          /\ Items(server) \cup All(client.waiting) \cup Items(client.pcm) \cup Items(client.reply) \cup attempt.words
                \subseteq 1..attempt.sent
          /\ attempt.owed \subseteq attempt.words \cup Items(client.reply) \cup All(client.waiting) \cup Spoken(client)
      BY <1>6 DEF EndpointBooks
    <2>4. c.cut # FALSE /\ c.inputFinished # TRUE
      BY <1>4, <1>5, <2>3
    <2>5. /\ Items(server) \cup All(c.waiting) \cup Items(c.pcm) \cup Items(c.reply) \cup a.words \subseteq 1..a.sent
          /\ a.owed \subseteq a.words \cup Items(c.reply) \cup All(c.waiting) \cup Spoken(c)
      BY <1>5, <1>7, <2>1, <2>2, <2>3
    <2> QED  BY <2>1, <2>3, <2>4, <2>5, <1>4 DEF EndpointBooks
  <1>10. /\ EndpointKeeps'
         /\ attempt' = a \/ (attempt' = Ended(a, "completed") /\ a.owed \subseteq a.words)
    <2>1. c.then = "none"
      BY <1>4, <1>5
    <2> QED  BY <1>4, <1>5, <1>6, <1>8, <1>9, <2>1, EndpointClosesAndUploads
  <1> QED  BY <1>8, <1>10 DEF EndpointStep

LEMMA EndpointFinishes ==
    ASSUME EndpointKeeps, Endpoint!finishInput
    PROVE  EndpointStep
  <1>1. PICK c : c = [client EXCEPT !.inputFinished = TRUE]
    OBVIOUS
  <1>2. /\ c \in EndpointClients /\ c.inputFinished = TRUE /\ c.pcm = client.pcm /\ c.cut = client.cut
        /\ c.open = client.open /\ c.waiting = client.waiting /\ c.reply = client.reply /\ c.then = client.then
    BY <1>1, EndpointTyped DEF EndpointClients
  <1>3. /\ client.then = "none" /\ MayFinish /\ attempt.phase = "open" /\ Current
    BY EndpointSame DEF Endpoint!finishInput, Endpoint!Calm, MayFinish, Current
  <1>4. /\ client.cut = FALSE => client.waiting = << >> /\ client.open = FALSE
        /\ Items(server) \cup All(client.waiting) \cup Items(client.pcm) \cup Items(client.reply) \cup attempt.words
              \subseteq 1..attempt.sent
        /\ attempt.owed \subseteq attempt.words \cup Items(client.reply) \cup All(client.waiting) \cup Spoken(client)
        /\ client.waiting # << >> => client.reply # << >>
        /\ client.inputFinished = FALSE
    BY <1>3, EndpointTyped DEF EndpointKeeps, EndpointBooks
  <1>5. EndpointOrder(client, server) /\ EndpointOrder(c, server)
    BY <1>2 DEF EndpointKeeps, EndpointOrder
  <1>6. Items(<< >>) = {} /\ << >> \in Seq(Nat) /\ Rising(<< >>)
    <2>1. Items(<< >>) = {} /\ << >> \in Seq(Nat)
      BY ItemsOfOne
    <2>2. Rising(<< >>)
      BY DEF Rising
    <2> QED  BY <2>1, <2>2
  <1>7. CASE client.cut = TRUE
    <2>1. PICK d : d = Endpoint!closeUtterance(c)
      OBVIOUS
    <2>2. PICK dropped : dropped = Endpoint!Dropped(c)
      OBVIOUS
    <2>3. PICK a : a = Accounted(Told, attempt.words \cup dropped)
      OBVIOUS
    <2>4. PICK e : e = [d EXCEPT !.pcm = << >>]
      OBVIOUS
    <2>5. Endpoint!CloseAndUpload(e, a)
      <3>1. Endpoint!Heard(Endpoint!Told, dropped) = a
        BY <2>3, EndpointSame, EndpointTyped DEF Endpoint!Heard, Told, Attempts
      <3> QED  BY <1>1, <1>2, <1>7, <2>1, <2>2, <2>4, <3>1 DEF Endpoint!finishInput
    <2>6. /\ d \in EndpointClients /\ EndpointOrder(d, server) /\ d.open = FALSE /\ d.cut = c.cut
          /\ d.inputFinished = c.inputFinished /\ d.reply = c.reply /\ d.then = c.then
          /\ All(d.waiting) \cup dropped = All(c.waiting) \cup (IF c.open = TRUE THEN Items(c.pcm) ELSE {})
      <3>1. server \in Seq(Nat)
        BY EndpointTyped
      <3>2. /\ d \in EndpointClients /\ EndpointOrder(d, server) /\ d.open = FALSE /\ d.cut = c.cut
            /\ d.inputFinished = c.inputFinished /\ d.reply = c.reply /\ d.then = c.then
            /\ All(d.waiting) \cup dropped = All(c.waiting) \cup (IF c.open = TRUE THEN Items(c.pcm) ELSE {})
            /\ d.pcm = IF c.open = TRUE THEN << >> ELSE c.pcm
            /\ c.open = FALSE => d.waiting = c.waiting
        BY <1>2, <1>5, <2>1, <2>2, <3>1, EndpointCloses, Zenon
      <3> QED  BY <3>2
    <2>7. /\ e \in EndpointClients /\ e.open = FALSE /\ e.cut = TRUE /\ e.pcm = << >> /\ e.waiting = d.waiting
          /\ e.inputFinished = TRUE /\ e.reply = client.reply /\ e.then = "none"
      BY <1>2, <1>3, <1>6, <1>7, <2>4, <2>6 DEF EndpointClients
    <2>8. EndpointOrder(e, server)
      BY <1>6, <2>6, <2>7 DEF EndpointOrder, Precede
    <2>9. All(d.waiting) \cup dropped = All(client.waiting) \cup Spoken(client)
      BY <1>2, <1>7, <2>6 DEF Spoken
    <2>10. dropped \in SUBSET (1..attempt.sent) /\ attempt.words \subseteq 1..attempt.sent
      <3>1. Spoken(client) \subseteq Items(client.pcm)
        BY DEF Spoken
      <3> QED  BY <1>4, <2>9, <3>1
    <2>11. /\ a \in Attempts /\ a = [attempt EXCEPT !.phase = "told", !.words = attempt.words \cup dropped]
           /\ attempt' = a => Promised
           /\ attempt' = Ended(a, "completed") => Promised
      BY <1>3, <2>3, <2>10, EndpointTyped, FinishesAndAccounts
    <2>12. EndpointBooks(e, server, a) /\ a.phase = "told"
      <3>1. a.words = attempt.words \cup dropped /\ a.owed = attempt.owed /\ a.sent = attempt.sent /\ a.phase = "told"
        BY <2>11, EndpointTyped DEF Attempts
      <3>2. Spoken(e) = {} /\ Spoken(client) \subseteq Items(client.pcm)
        BY <1>6, <2>7 DEF Spoken
      <3>3. /\ Items(server) \cup All(e.waiting) \cup Items(e.pcm) \cup Items(e.reply) \cup a.words \subseteq 1..a.sent
            /\ a.owed \subseteq a.words \cup Items(e.reply) \cup All(e.waiting) \cup Spoken(e)
        BY <1>4, <1>6, <2>7, <2>9, <2>10, <3>1, <3>2
      <3> QED  BY <2>7, <3>1, <3>3 DEF EndpointBooks
    <2>13. /\ EndpointKeeps'
           /\ attempt' = a \/ (attempt' = Ended(a, "completed") /\ a.owed \subseteq a.words)
      BY <1>3, <2>5, <2>7, <2>8, <2>11, <2>12, EndpointClosesAndUploads
    <2> QED  BY <2>11, <2>13 DEF EndpointStep
  <1>8. CASE client.cut = FALSE /\ client.pcm = << >>
    <2>1. client' = c /\ attempt' = Ended(Told, "completed") /\ server' = server
      BY <1>1, <1>2, <1>8, EndpointSame DEF Endpoint!finishInput
    <2>2. Told = Accounted(Told, attempt.words \cup {})
      BY EndpointTyped DEF Told, Accounted, Attempts
    <2>3. Promised
      <3>1. {} \in SUBSET (1..attempt.sent) /\ attempt.words \subseteq 1..attempt.sent
        BY <1>4
      <3> QED  BY <1>3, <2>1, <2>2, <3>1, EndpointTyped, FinishesAndAccounts
    <2>4. attempt' = [attempt EXCEPT !.phase = "completed"]
      BY <1>3, <2>1, EndpointTyped DEF Told, Ended, Attempts
    <2>5. attempt' \in Attempts /\ ~Current'
      BY <2>4, EndpointTyped DEF Attempts, Phases, Current
    <2>6. /\ client' \in EndpointClients /\ server' \in Seq(Nat) /\ EndpointOrder(client', server')
          /\ client'.then = "none"
      BY <1>2, <1>3, <1>5, <2>1, EndpointTyped
    <2>7. client'.reply = << >>
      <3>1. ASSUME client.reply # << >>
            PROVE  FALSE
        <4>1. client.cut = FALSE
          BY <1>8
        <4> QED  BY <4>1, <3>1, <1>3, <1>4 DEF EndpointKeeps, EndpointBooks
      <3> QED  BY <1>2, <2>1, <3>1
    <2> QED  BY <2>3, <2>5, <2>6, <2>7 DEF EndpointKeeps, EndpointStep
  <1>9. CASE client.cut = FALSE /\ client.pcm # << >>
    <2>1. /\ client' = [c EXCEPT !.pcm = << >>, !.reply = client.pcm] /\ server' = server \o client.pcm
          /\ attempt' = Told
      BY <1>1, <1>2, <1>9, EndpointSame DEF Endpoint!finishInput, Endpoint!postAudio, EndpointClients
    <2>2. /\ client' \in EndpointClients /\ client'.pcm = << >> /\ client'.reply = client.pcm
          /\ client'.waiting = client.waiting /\ client'.cut = FALSE /\ client'.open = client.open
          /\ client'.inputFinished = TRUE /\ client'.then = "none"
      BY <1>2, <1>3, <1>6, <1>9, <2>1, EndpointTyped DEF EndpointClients
    <2>3. /\ server' \in Seq(Nat) /\ Items(server') = Items(server) \cup Items(client.pcm)
      BY <2>1, EndpointTyped, ItemsOf, ConcatProperties
    <2>4. /\ Promised /\ attempt' \in Attempts /\ attempt' = [attempt EXCEPT !.phase = "told"]
          /\ Current' /\ attempt'.phase = "told"
      BY <1>3, <1>4, <2>1, EndpointTyped, Finishes
    <2>5. /\ Rising(server) /\ Rising(client.pcm) /\ Precede(Items(server), Items(client.pcm))
      BY <1>5 DEF EndpointOrder
    <2>6. Rising(server')
      BY <2>1, <2>5, EndpointTyped, Rises
    <2>7. client'.waiting = << >> /\ client'.open = FALSE
      BY <1>4, <1>9, <2>2
    <2>8. All(client'.waiting) = {} /\ All(client.waiting) = {}
      BY <2>2, <2>7 DEF All
    <2>9. EndpointOrder(client', server')
      BY <1>6, <2>2, <2>6, <2>7, <2>8 DEF EndpointOrder, Precede
    <2>10. EndpointBooks(client', server', attempt')
      <3>1. attempt'.owed = attempt.owed /\ attempt'.words = attempt.words /\ attempt'.sent = attempt.sent
        BY <2>4, EndpointTyped DEF Attempts
      <3>2. Spoken(client') = {} /\ Spoken(client) = Items(client.pcm)
        BY <1>6, <1>9, <2>2 DEF Spoken
      <3>3. client.reply = << >>
        <4>1. ASSUME client.reply # << >>
              PROVE  FALSE
          <5> QED  BY <4>1, <1>3, <1>4, <1>9 DEF EndpointKeeps, EndpointBooks
        <4> QED  BY <4>1
      <3>4. Items(client.reply) = {}
        BY <1>6, <3>3
      <3>5. /\ Items(server') \cup All(client'.waiting) \cup Items(client'.pcm) \cup Items(client'.reply)
                 \cup attempt'.words \subseteq 1..attempt'.sent
            /\ attempt'.owed \subseteq attempt'.words \cup Items(client'.reply) \cup All(client'.waiting)
                 \cup Spoken(client')
        BY <1>4, <1>6, <2>2, <2>3, <2>8, <3>1, <3>2, <3>4
      <3> QED  BY <2>2, <2>4, <2>7, <3>5 DEF EndpointBooks
    <2> QED  BY <2>2, <2>3, <2>4, <2>7, <2>9, <2>10 DEF EndpointKeeps, EndpointStep
  <1> QED  BY <1>7, <1>8, <1>9, EndpointTyped

LEMMA EndpointLetsGo ==
    ASSUME EndpointKeeps, Endpoint!cancelAttempt
    PROVE  EndpointStep
  <1>1. /\ MayCancel /\ attempt' = LetGo /\ server' = server
        /\ client' = [client EXCEPT !.pcm = << >>, !.waiting = << >>, !.reply = << >>]
    BY EndpointSame DEF Endpoint!cancelAttempt
  <1>2. Promised /\ attempt' \in Attempts /\ ~Current'
    BY <1>1, EndpointTyped, LetsGo
  <1>3. /\ client' \in EndpointClients /\ client'.pcm = << >> /\ client'.waiting = << >> /\ client'.reply = << >>
    <2>1. << >> \in Seq(Nat) /\ << >> \in Seq(Seq(Nat))
      OBVIOUS
    <2> QED  BY <1>1, <2>1, EndpointTyped DEF EndpointClients
  <1>4. EndpointOrder(client', server')
    <2>1. Rising(server) /\ Rising(client'.pcm) /\ DOMAIN client'.waiting = {}
      BY <1>3 DEF EndpointKeeps, EndpointOrder, Rising
    <2>2. All(client'.waiting) = {}
      BY <2>1 DEF All
    <2>3. Items(client'.pcm) = {}
      BY <1>3, ItemsOfOne
    <2> QED  BY <1>1, <2>1, <2>2, <2>3 DEF EndpointOrder, Precede
  <1> QED  BY <1>1, <1>2, <1>3, <1>4, EndpointTyped DEF EndpointKeeps, EndpointStep

\* An answer that has come accounts for what went up for it.
LEMMA EndpointAnswers ==
    ASSUME EndpointKeeps, client.then = "none", client.reply # << >>,
           NEW c, c = [client EXCEPT !.reply = << >>],
           NEW a, a = Accounted(attempt, attempt.words \cup Items(client.reply))
    PROVE  /\ Current /\ c \in EndpointClients /\ EndpointOrder(c, server) /\ EndpointBooks(c, server, a)
           /\ c.reply = << >> /\ c.then = "none" /\ c.waiting = client.waiting /\ c.cut = client.cut
           /\ a \in Attempts /\ a.phase = attempt.phase /\ a.phase \in {"open", "told"}
           /\ client.cut = FALSE /\ attempt.phase = "told" => a.owed \subseteq a.words
           /\ attempt' = a => Promised
           /\ attempt' = Ended(a, "failed") => Promised
           /\ attempt' = Ended(a, "completed") /\ (attempt.phase = "told" => a.owed \subseteq a.words) => Promised
  <1>1. Current /\ EndpointBooks(client, server, attempt)
    BY DEF EndpointKeeps
  <1>2. /\ c \in EndpointClients /\ c.reply = << >> /\ c.then = "none" /\ c.waiting = client.waiting
        /\ c.cut = client.cut /\ c.pcm = client.pcm /\ c.open = client.open
        /\ c.inputFinished = client.inputFinished
    <2>1. << >> \in Seq(Nat)
      OBVIOUS
    <2> QED  BY <2>1, EndpointTyped DEF EndpointClients
  <1>3. EndpointOrder(c, server)
    BY <1>2 DEF EndpointKeeps, EndpointOrder
  <1>4. /\ (client.inputFinished = TRUE) = (attempt.phase = "told")
        /\ client.inputFinished = TRUE => client.pcm = << >> /\ client.open = FALSE
        /\ client.cut = FALSE => client.waiting = << >> /\ client.open = FALSE /\ client.then = "none"
        /\ Items(server) \cup All(client.waiting) \cup Items(client.pcm) \cup Items(client.reply) \cup attempt.words
              \subseteq 1..attempt.sent
        /\ attempt.owed \subseteq attempt.words \cup Items(client.reply) \cup All(client.waiting) \cup Spoken(client)
    BY <1>1 DEF EndpointBooks
  <1>5. /\ a \in Attempts /\ a = [attempt EXCEPT !.words = attempt.words \cup Items(client.reply)]
        /\ attempt' = a => Promised
        /\ attempt' = Ended(a, "failed") => Promised
        /\ attempt' = Ended(a, "completed") /\ (attempt.phase = "told" => a.owed \subseteq a.words) => Promised
    <2>1. Items(client.reply) \in SUBSET (1..attempt.sent) /\ attempt.words \subseteq 1..attempt.sent
      BY <1>4
    <2> QED  BY <1>1, <2>1, EndpointTyped, Accounts
  <1>6. /\ a.words = attempt.words \cup Items(client.reply) /\ a.owed = attempt.owed /\ a.sent = attempt.sent
        /\ a.phase = attempt.phase
    BY <1>5, EndpointTyped DEF Attempts
  <1>7. Items(c.reply) = {} /\ Spoken(c) = Spoken(client) /\ Items(<< >>) = {}
    <2>1. Items(<< >>) = {}
      BY ItemsOfOne
    <2>2. Items(c.reply) = {}
      BY <1>2, <2>1
    <2>3. Spoken(c) = Spoken(client)
      BY <1>2 DEF Spoken
    <2> QED  BY <2>1, <2>2, <2>3
  <1>8. /\ Items(server) \cup All(c.waiting) \cup Items(c.pcm) \cup Items(c.reply) \cup a.words \subseteq 1..a.sent
        /\ a.owed \subseteq a.words \cup Items(c.reply) \cup All(c.waiting) \cup Spoken(c)
    BY <1>2, <1>4, <1>6, <1>7
  <1>9. EndpointBooks(c, server, a)
    BY <1>2, <1>4, <1>6, <1>8 DEF EndpointBooks
  <1>10. ASSUME client.cut = FALSE, attempt.phase = "told"
         PROVE  a.owed \subseteq a.words
    <2>1. client.waiting = << >> /\ client.pcm = << >>
      BY <1>4, <1>10
    <2>2. All(client.waiting) = {}
      BY <2>1 DEF All
    <2>3. Spoken(client) = {}
      BY <1>7, <2>1 DEF Spoken
    <2> QED  BY <1>4, <1>6, <2>2, <2>3
  <1>11. a.phase \in {"open", "told"}
    BY <1>1, <1>6 DEF Current
  <1> QED  BY <1>1, <1>2, <1>3, <1>5, <1>6, <1>9, <1>10, <1>11

LEMMA EndpointHears ==
    ASSUME EndpointKeeps, Endpoint!finishReply
    PROVE  EndpointStep
  <1>1. client.then = "none" /\ client.reply # << >>
    BY DEF Endpoint!finishReply, Endpoint!Calm
  <1>2. PICK c : c = [client EXCEPT !.reply = << >>]
    OBVIOUS
  <1>3. PICK a : a = Accounted(attempt, attempt.words \cup Items(client.reply))
    OBVIOUS
  <1>4. /\ Current /\ c \in EndpointClients /\ EndpointOrder(c, server) /\ EndpointBooks(c, server, a)
        /\ c.reply = << >> /\ c.then = "none" /\ c.waiting = client.waiting /\ c.cut = client.cut
        /\ a \in Attempts /\ a.phase = attempt.phase /\ a.phase \in {"open", "told"}
        /\ client.cut = FALSE /\ attempt.phase = "told" => a.owed \subseteq a.words
        /\ attempt' = a => Promised
        /\ attempt' = Ended(a, "failed") => Promised
        /\ attempt' = Ended(a, "completed") /\ (attempt.phase = "told" => a.owed \subseteq a.words) => Promised
    BY <1>1, <1>2, <1>3, EndpointAnswers
  <1>5. Endpoint!answered = c /\ Endpoint!Uploaded = Items(client.reply)
        /\ Endpoint!Heard(attempt, Items(client.reply)) = a
    BY <1>2, <1>3, EndpointSame DEF Endpoint!answered, Endpoint!Uploaded, Endpoint!Range, Endpoint!Heard, Items
  <1>7. ASSUME NEW next \in {"upload", "fail"}, client.cut = TRUE, client' = [c EXCEPT !.then = next], attempt' = a,
               server' = server
        PROVE  EndpointStep
    <2>1. /\ client' \in EndpointClients /\ client'.then = next /\ client'.reply = << >> /\ client'.pcm = c.pcm
          /\ client'.waiting = c.waiting /\ client'.cut = TRUE /\ client'.open = c.open
          /\ client'.inputFinished = c.inputFinished
      BY <1>4, <1>7 DEF EndpointClients
    <2>2. EndpointOrder(client', server')
      BY <1>4, <1>7, <2>1 DEF EndpointOrder
    <2>3. EndpointBooks(client', server', attempt')
      <3>1. Spoken(client') = Spoken(c)
        BY <1>4, <1>7, <2>1 DEF Spoken
      <3> QED  BY <1>4, <1>7, <2>1, <3>1 DEF EndpointBooks
    <2>4. Current' /\ attempt' \in Attempts /\ server' \in Seq(Nat) /\ Promised
      BY <1>4, <1>7, EndpointTyped DEF Current
    <2> QED  BY <2>1, <2>2, <2>3, <2>4 DEF EndpointKeeps, EndpointStep
  <1>8. ASSUME client' = c, server' = server, attempt' \in Attempts, ~Current', Promised
        PROVE  EndpointStep
    <2>1. /\ EndpointOrder(client', server') /\ client' \in EndpointClients /\ server' \in Seq(Nat)
          /\ client'.reply = << >> /\ client'.then = "none"
      BY <1>4, <1>8, EndpointTyped
    <2> QED  BY <1>8, <2>1 DEF EndpointKeeps, EndpointStep
  <1>9. ASSUME NEW b \in Attempts, NEW end \in {"completed", "failed"}, attempt' = Ended(b, end)
        PROVE  attempt' \in Attempts /\ ~Current'
    <2>1. attempt' = [b EXCEPT !.phase = end]
      BY <1>4, <1>9 DEF Ended
    <2> QED  BY <2>1 DEF Attempts, Phases, Current
  <1>10. ASSUME NEW end \in {"completed", "failed"}, client.cut = FALSE \/ end = "failed", Endpoint!WholeAnswered(end)
         PROVE  EndpointStep
    <2>1. client' = c /\ server' = server /\ attempt' = Ended(a, end)
      BY <1>5, <1>10, EndpointSame DEF Endpoint!WholeAnswered
    <2>2. Promised
      BY <1>4, <1>10, <2>1
    <2> QED  BY <1>4, <1>8, <1>9, <2>1, <2>2
  <1>11. ASSUME Endpoint!NoTranscript
         PROVE  EndpointStep
    <2>1. client' = c /\ attempt' = Ended(attempt, "failed") /\ server' = server
      BY <1>5, <1>11, EndpointSame DEF Endpoint!NoTranscript
    <2>2. attempt.words \subseteq 1..attempt.sent
      BY <1>4 DEF EndpointKeeps, EndpointBooks
    <2>3. Promised
      BY <1>4, <2>1, <2>2, EndpointTyped, Fails
    <2> QED  BY <1>8, <1>9, <2>1, <2>3, EndpointTyped
  <1>12. ASSUME Endpoint!uploadNextUtterance(c, a)
         PROVE  EndpointStep
    <2>1. /\ EndpointKeeps'
          /\ attempt' = a \/ (attempt' = Ended(a, "completed") /\ a.owed \subseteq a.words)
      BY <1>4, <1>12, EndpointTyped, EndpointUploads
    <2> QED  BY <1>4, <2>1 DEF EndpointStep
  <1>13. ASSUME NEW next \in {"upload", "fail"}, client.cut = TRUE, Endpoint!finishUtterance(next)
         PROVE  EndpointStep
    <2>1. client' = [c EXCEPT !.then = next] /\ attempt' = a /\ server' = server
      BY <1>5, <1>13 DEF Endpoint!finishUtterance
    <2> QED  BY <1>7, <1>13, <2>1
  <1>14. CASE Endpoint!Text
    <2>1. CASE client.cut /\ Endpoint!finishUtterance("upload")
      BY <1>13, <2>1
    <2>2. CASE ~client.cut /\ Endpoint!WholeAnswered("completed")
      BY <1>10, <2>2, EndpointTyped
    <2> QED  BY <1>14, <2>1, <2>2 DEF Endpoint!Text
  <1>15. ASSUME NEW transient \in BOOLEAN, NEW kept \in BOOLEAN, Endpoint!Failure(transient, kept)
         PROVE  EndpointStep
    <2>1. CASE Endpoint!WholeAnswered("failed")
      BY <1>10, <2>1
    <2>2. CASE client.cut /\ Endpoint!finishUtterance(IF transient THEN "upload" ELSE "fail")
      BY <1>13, <2>2
    <2>3. CASE Endpoint!uploadNextUtterance(c, a)
      BY <1>12, <2>3
    <2> QED  BY <1>5, <1>11, <1>15, <2>1, <2>2, <2>3 DEF Endpoint!Failure
  <1> QED  BY <1>11, <1>14, <1>15 DEF Endpoint!finishReply

\* What follows once the handlers of a final have returned.
LEMMA EndpointGoesOn ==
    ASSUME EndpointKeeps, Endpoint!FinalTold
    PROVE  EndpointStep
  <1>1. client.then # "none" /\ client.reply = << >>
    BY DEF Endpoint!FinalTold, Endpoint!Calm, EndpointKeeps
  <1>2. PICK c : c = [client EXCEPT !.then = "none"]
    OBVIOUS
  <1>3. \/ Endpoint!uploadNextUtterance(c, attempt)
        \/ client' = c /\ attempt' = Ended(attempt, "failed") /\ server' = server
    BY <1>2, EndpointSame DEF Endpoint!FinalTold
  <1>4. /\ c \in EndpointClients /\ c.reply = << >> /\ c.then = "none" /\ c.waiting = client.waiting
        /\ c.cut = client.cut /\ c.pcm = client.pcm /\ c.open = client.open
        /\ c.inputFinished = client.inputFinished
    BY <1>1, <1>2, EndpointTyped DEF EndpointClients
  <1>5. EndpointOrder(c, server)
    BY <1>4 DEF EndpointKeeps, EndpointOrder
  <1>6. ASSUME client' = c, server' = server, attempt' \in Attempts, ~Current', Promised
        PROVE  EndpointStep
    <2>1. /\ EndpointOrder(client', server') /\ client' \in EndpointClients /\ server' \in Seq(Nat)
          /\ client'.reply = << >> /\ client'.then = "none"
      BY <1>4, <1>5, <1>6, EndpointTyped
    <2> QED  BY <1>6, <2>1 DEF EndpointKeeps, EndpointStep
  <1>7. CASE ~Current
    <2>1. client.waiting = << >>
      BY <1>1, <1>7 DEF EndpointKeeps
    <2>2. client' = c /\ server' = server /\ attempt' = attempt
      BY <1>3, <1>4, <1>7, <2>1, EndpointSame DEF Endpoint!uploadNextUtterance, Ended
    <2>3. attempt' \in Attempts /\ ~Current' /\ Promised
      BY <1>7, <2>2, EndpointTyped DEF Current, Promised
    <2> QED  BY <1>6, <2>2, <2>3
  <1>8. CASE Current
    <2>1. EndpointBooks(client, server, attempt) /\ attempt.phase \in {"open", "told"}
      BY <1>8 DEF EndpointKeeps, Current
    <2>2. EndpointBooks(c, server, attempt)
      <3>1. Spoken(c) = Spoken(client)
        BY <1>4 DEF Spoken
      <3>2. c.reply = client.reply
        BY <1>1, <1>4
      <3> QED  BY <1>4, <2>1, <3>1, <3>2 DEF EndpointBooks
    <2>3. attempt.words \in SUBSET (1..attempt.sent)
      BY <2>1 DEF EndpointBooks
    <2>4. CASE Endpoint!uploadNextUtterance(c, attempt)
      <3>1. /\ EndpointKeeps'
            /\ attempt' = attempt \/ (attempt' = Ended(attempt, "completed") /\ attempt.owed \subseteq attempt.words)
        BY <1>4, <1>5, <1>8, <2>1, <2>2, <2>4, EndpointTyped, EndpointUploads
      <3>2. attempt = Accounted(attempt, attempt.words)
        BY EndpointTyped DEF Accounted, Attempts
      <3>3. ASSUME attempt' = Ended(attempt, "completed"), attempt.owed \subseteq attempt.words
            PROVE  Promised
        BY <1>8, <2>3, <3>2, <3>3, EndpointTyped, Completes
      <3> QED  BY <3>1, <3>3 DEF EndpointStep, Promised
    <2>5. CASE client' = c /\ attempt' = Ended(attempt, "failed") /\ server' = server
      BY <1>6, <1>8, <2>3, <2>5, EndpointTyped, Fails
    <2> QED  BY <1>3, <2>4, <2>5
  <1> QED  BY <1>7, <1>8

LEMMA EndpointInits ==
    ASSUME Endpoint!EndpointInit
    PROVE  EndpointKeeps
  <1>1. attempt = NoAttempt /\ client = Endpoint!NewClient(FALSE) /\ server = << >>
    BY DEF Endpoint!EndpointInit, Endpoint!ContractInit, Endpoint!NoAttempt, Endpoint!NewServer, NoAttempt
  <1>2. << >> \in Seq(Nat) /\ << >> \in Seq(Seq(Nat))
    OBVIOUS
  <1>3. attempt \in Attempts /\ ~Current
    BY <1>1 DEF NoAttempt, Attempts, Phases, Current
  <1>4. /\ client \in EndpointClients /\ client.pcm = << >> /\ client.waiting = << >> /\ client.reply = << >>
        /\ client.then = "none"
    BY <1>1, <1>2 DEF Endpoint!NewClient, EndpointClients
  <1>5. EndpointOrder(client, server)
    <2>1. Rising(server) /\ Rising(client.pcm) /\ DOMAIN client.waiting = {}
      <3>1. Rising(<< >>)
        BY DEF Rising
      <3>2. server = << >> /\ client.pcm = << >>
        BY <1>1, <1>4, Zenon
      <3>3. DOMAIN client.waiting = {}
        BY <1>4
      <3> QED  BY <3>1, <3>2, <3>3, Zenon
    <2>2. All(client.waiting) = {}
      BY <2>1 DEF All
    <2>3. Items(client.pcm) = {}
      BY <1>4, ItemsOfOne
    <2> QED  BY <2>1, <2>2, <2>3 DEF EndpointOrder, Precede
  <1> QED  BY <1>1, <1>2, <1>3, <1>4, <1>5 DEF EndpointKeeps

LEMMA EndpointGoes ==
    ASSUME LeadIn \in Nat, EndpointKeeps, Endpoint!EndpointNext
    PROVE  EndpointStep
  BY EndpointStarts, EndpointSends, EndpointBegins, EndpointEndsUtterance, EndpointFinishes, EndpointLetsGo,
     EndpointHears, EndpointGoesOn DEF Endpoint!EndpointNext

LEMMA EndpointInOrder ==
    ASSUME EndpointKeeps
    PROVE  Endpoint!EndpointInOrder
  <1>1. \A s : Endpoint!Range(s) = Items(s)
    BY DEF Endpoint!Range, Items
  <1>2. Endpoint!Chunks(client.waiting) = All(client.waiting)
    BY EndpointTyped, EndpointChunks
  <1>3. /\ \A s : Endpoint!Rising(s) = Rising(s)
        /\ \A early, late : Endpoint!Precede(early, late) = Precede(early, late)
    BY DEF Endpoint!Rising, Rising, Endpoint!Precede, Precede
  <1>4. EndpointOrder(client, server)
    BY DEF EndpointKeeps
  <1>5. /\ Endpoint!Rising(server) /\ Endpoint!Rising(client.pcm)
        /\ \A i \in DOMAIN client.waiting :
              /\ Endpoint!Rising(client.waiting[i])
              /\ \A j \in DOMAIN client.waiting :
                    i < j => Endpoint!Precede(Endpoint!Range(client.waiting[i]), Endpoint!Range(client.waiting[j]))
        /\ Endpoint!Precede(Endpoint!Range(server), Endpoint!Chunks(client.waiting))
    BY <1>1, <1>2, <1>3, <1>4 DEF EndpointOrder
  <1>6. Endpoint!Precede(Endpoint!Range(server) \cup Endpoint!Chunks(client.waiting), Endpoint!Range(client.pcm))
    <2>1. Precede(Items(server) \cup All(client.waiting), Items(client.pcm))
      BY <1>4 DEF EndpointOrder, Precede
    <2> QED  BY <1>1, <1>2, <1>3, <2>1
  <1>7. ASSUME Current
        PROVE  /\ attempt.owed \subseteq
                     attempt.words \cup Endpoint!Uploaded \cup Endpoint!Chunks(client.waiting)
                       \cup Endpoint!Range(client.pcm)
               /\ client.waiting # << >> =>
                     client.reply # << >> \/ client.then = "upload" \/ client.then = "fail"
    <2>1. EndpointBooks(client, server, attempt) /\ (client.waiting # << >> => client.reply # << >> \/ client.then # "none")
      BY <1>7 DEF EndpointKeeps
    <2>2. Spoken(client) \subseteq Items(client.pcm)
      BY DEF Spoken
    <2> QED  BY <1>1, <1>2, <2>1, <2>2, EndpointTyped DEF EndpointBooks, Endpoint!Uploaded
  <1> QED  BY <1>5, <1>6, <1>7, EndpointSame, Zenon DEF Endpoint!EndpointInOrder

-----------------------------------------------------------------------------
(* LocalTranscriber.                                                       *)

LocalModels == Models \cup {"none"}
LocalJobs ==
    [type : {"begin"}, id : Nat, model : Models] \cup [type : {"finish"}, id : Nat]
      \cup [type : {"feed", "unload"}] \cup [type : {"test"}, model : Models]
LocalReports ==
    [type : {"end"}, id : Nat, end : {"completed", "failed"}, words : SUBSET Nat]
      \cup [type : {"text"}, id : Nat, words : SUBSET Nat] \cup [type : {"tested"}]
Workers == [attempt : Nat, failed : BOOLEAN, model : LocalModels, taken : Seq(Nat),
            at : {"idle", "load", "take", "taken", "feeding", "finish", "test"}]
Engines == [model : LocalModels, heard : Seq(Nat)]
LocalTypes ==
    /\ attempt \in Attempts
    /\ shared \in [live : Nat, pending : Seq(Nat), feedQueued : BOOLEAN, idle : BOOLEAN]
    /\ jobs \in Seq(LocalJobs) /\ reports \in Seq(LocalReports)
    /\ worker \in [attempt : Nat, failed : BOOLEAN, model : LocalModels, taken : Seq(Nat),
                   at : {"idle", "load", "take", "taken", "feeding", "finish", "test"}]
    /\ engine \in [model : LocalModels, heard : Seq(Nat)]

\* What is queued for the worker, and the attempt each is of.
Opens(job, id) == job.type = "begin" /\ job.id = id
Shuts(job, id) == job.type = "finish" /\ job.id = id
Numbered(queue, last) == \A i \in DOMAIN queue : queue[i].type \in {"begin", "finish"} => queue[i].id \in 1..last
HasFeed(queue) == \E i \in DOMAIN queue : queue[i].type = "feed"

\* The attempt's work begins once, after the speed tests and before its input ends.
Comes(queue, id) ==
    \E b \in DOMAIN queue :
       /\ Opens(queue[b], id)
       /\ \A i \in DOMAIN queue :
             /\ queue[i].type = "test" => i < b
             /\ Shuts(queue[i], id) => b < i
             /\ Opens(queue[i], id) => i = b
Came(queue, id) == \A i \in DOMAIN queue : queue[i].type # "test" /\ ~Opens(queue[i], id)

\* A feed comes before the end of the attempt's input.
FeedsFirst(queue, id) ==
    \A i \in DOMAIN queue : Shuts(queue[i], id) => \E j \in DOMAIN queue : j < i /\ queue[j].type = "feed"

\* What is queued for the caller.
EndOf(report, id) == report.type = "end" /\ report.id = id
Reported(queue, last) == \A i \in DOMAIN queue : queue[i].type \in {"text", "end"} => queue[i].id <= last
Unended(queue, id) == \A i \in DOMAIN queue : ~EndOf(queue[i], id)

\* The words are of what was handed over, and all of it when the attempt is to end well.
Whole(queue, id, sent, told) ==
    \A i \in DOMAIN queue :
      /\ queue[i].type \in {"text", "end"} /\ queue[i].id = id => queue[i].words \subseteq 1..sent
      /\ EndOf(queue[i], id) /\ queue[i].end = "completed" /\ (\A j \in DOMAIN queue : j < i => ~EndOf(queue[j], id))
           => told /\ queue[i].words = 1..sent

Fits(report, id, sent, told, first) ==
    /\ report.type \in {"text", "end"} /\ report.id = id => report.words \subseteq 1..sent
    /\ first /\ EndOf(report, id) /\ report.end = "completed" => told /\ report.words = 1..sent

LocalFrame ==
    /\ (shared.live # 0) = Current
    /\ Current => shared.live = attempt.id
    /\ Numbered(jobs, attempt.id) /\ Reported(reports, attempt.id) /\ worker.attempt <= attempt.id
    /\ worker.at = "test" => worker.attempt = 0
    /\ worker.taken # << >> => worker.at \in {"taken", "feeding"}
    /\ shared.feedQueued = TRUE => HasFeed(jobs)

Begun == worker.attempt = shared.live

\* What the live attempt handed over is nowhere but with the worker.
LocalHears ==
    /\ attempt.words \subseteq 1..attempt.sent /\ attempt.owed \subseteq 1..attempt.sent
    /\ Items(shared.pending) \subseteq 1..attempt.sent
    /\ Begun => Items(engine.heard) \cup Items(worker.taken) \subseteq 1..attempt.sent
    /\ Whole(reports, shared.live, attempt.sent, attempt.phase = "told")
    /\ \A i \in DOMAIN jobs : Shuts(jobs[i], shared.live) => attempt.phase = "told"

LocalWaits == shared.pending = UpTo(attempt.sent) /\ Comes(jobs, shared.live)
LocalWorks ==
    /\ Came(jobs, shared.live) /\ worker.failed = FALSE
    /\ (engine.heard \o worker.taken) \o shared.pending = UpTo(attempt.sent)
    /\ worker.at # "load" => engine.model = worker.model
    /\ worker.at \notin {"load", "take"} /\ shared.pending # << >> =>
          shared.feedQueued = TRUE /\ FeedsFirst(jobs, shared.live)
    /\ worker.at = "finish" => shared.pending = << >> /\ attempt.phase = "told"

LocalKeeps ==
    /\ LocalTypes /\ LocalFrame
    /\ Current => LocalHears
    /\ Current /\ Unended(reports, shared.live) => IF Begun THEN LocalWorks ELSE LocalWaits

LocalStep == LocalKeeps' /\ Promised

-----------------------------------------------------------------------------
(* What joins a queue and what leaves it.                                  *)

LEMMA Queues ==
    ASSUME NEW S, NEW q \in Seq(S), NEW e \in S, NEW r, r = Append(q, e)
    PROVE  /\ r \in Seq(S)
           /\ \E n \in DOMAIN r :
                /\ r[n] = e /\ n \in Nat
                /\ \A i \in DOMAIN q : i \in DOMAIN r /\ r[i] = q[i] /\ i \in Nat /\ i < n
                /\ \A i \in DOMAIN r : i = n \/ (i \in DOMAIN q /\ i < n)
  <1>1. PICK n \in Nat : n = Len(q)
    OBVIOUS
  <1>2. /\ r \in Seq(S) /\ Len(r) = n + 1 /\ r[n + 1] = e
        /\ \A i \in 1..n : r[i] = q[i]
    BY <1>1, AppendProperties
  <1>3. DOMAIN q = 1..n /\ DOMAIN r = 1..(n + 1)
    BY <1>1, <1>2
  <1>4. /\ \A i \in 1..n : i \in 1..(n + 1) /\ i \in Nat /\ i < n + 1
        /\ \A i \in 1..(n + 1) : i = n + 1 \/ (i \in 1..n /\ i < n + 1)
        /\ n + 1 \in 1..(n + 1) /\ n + 1 \in Nat
    OBVIOUS
  <1> QED  BY <1>2, <1>3, <1>4

LEMMA Unqueues ==
    ASSUME NEW S, NEW q \in Seq(S), q # << >>, NEW r, r = Tail(q)
    PROVE  /\ r \in Seq(S) /\ Head(q) = q[1] /\ 1 \in DOMAIN q /\ Head(q) \in S
           /\ \A i \in DOMAIN r : i \in Nat /\ i + 1 \in DOMAIN q /\ r[i] = q[i + 1]
           /\ \A i \in DOMAIN q : i \in Nat /\ (i = 1 \/ (i - 1 \in DOMAIN r /\ r[i - 1] = q[i] /\ 1 < i))
  <1>1. PICK n \in Nat : n = Len(q) /\ n >= 1
    <2>1. Len(q) \in Nat /\ Len(q) >= 1
      OBVIOUS
    <2> QED  BY <2>1
  <1>2. Head(q) = q[1] /\ Head(q) \in S /\ r \in Seq(S) /\ Len(r) = n - 1 /\ \A i \in 1..(n - 1) : r[i] = q[i + 1]
    <2>1. Head(q) = q[1]
      OBVIOUS
    <2> QED  BY <1>1, <2>1, HeadTailProperties
  <1>3. DOMAIN q = 1..n /\ DOMAIN r = 1..(n - 1)
    BY <1>1, <1>2
  <1>4. \A i \in 1..(n - 1) : i \in Nat /\ i + 1 \in 1..n
    BY <1>1
  <1>5. ASSUME NEW i \in 1..n, i # 1
        PROVE  i - 1 \in 1..(n - 1) /\ r[i - 1] = q[i] /\ 1 < i
    <2>1. i - 1 \in 1..(n - 1) /\ (i - 1) + 1 = i /\ 1 < i
      BY <1>1, <1>5
    <2> QED  BY <1>2, <2>1
  <1>6. 1 \in 1..n /\ \A i \in 1..n : i \in Nat
    BY <1>1
  <1> QED  BY <1>2, <1>3, <1>4, <1>5, <1>6

LEMMA JobComes ==
    ASSUME NEW q \in Seq(LocalJobs), NEW e \in LocalJobs, NEW r, r = Append(q, e), NEW id, NEW last
    PROVE  /\ r \in Seq(LocalJobs)
           /\ Numbered(q, last) /\ (e.type \in {"begin", "finish"} => e.id \in 1..last) => Numbered(r, last)
           /\ HasFeed(q) \/ e.type = "feed" => HasFeed(r)
           /\ Comes(q, id) /\ e.type # "test" /\ ~Opens(e, id) => Comes(r, id)
           /\ (\A i \in DOMAIN q : ~Opens(q[i], id) /\ ~Shuts(q[i], id)) /\ Opens(e, id) => Comes(r, id)
           /\ Came(q, id) /\ e.type # "test" /\ ~Opens(e, id) => Came(r, id)
           /\ FeedsFirst(q, id) /\ (Shuts(e, id) => HasFeed(q)) => FeedsFirst(r, id)
           /\ \A i \in DOMAIN r : Shuts(r[i], id) => Shuts(e, id) \/ \E j \in DOMAIN q : Shuts(q[j], id)
  <1>1. r \in Seq(LocalJobs)
    BY Queues
  <1>2. PICK n \in DOMAIN r :
                /\ r[n] = e /\ n \in Nat
                /\ \A i \in DOMAIN q : i \in DOMAIN r /\ r[i] = q[i] /\ i \in Nat /\ i < n
                /\ \A i \in DOMAIN r : i = n \/ (i \in DOMAIN q /\ i < n)
    BY Queues
  <1>3. Numbered(q, last) /\ (e.type \in {"begin", "finish"} => e.id \in 1..last) => Numbered(r, last)
    BY <1>2 DEF Numbered
  <1>4. HasFeed(q) \/ e.type = "feed" => HasFeed(r)
    BY <1>2 DEF HasFeed
  <1>5. ASSUME Comes(q, id), e.type # "test", ~Opens(e, id)
        PROVE  Comes(r, id)
    <2>1. PICK b \in DOMAIN q :
             /\ Opens(q[b], id)
             /\ \A i \in DOMAIN q :
                   /\ q[i].type = "test" => i < b
                   /\ Shuts(q[i], id) => b < i
                   /\ Opens(q[i], id) => i = b
      BY <1>5 DEF Comes
    <2>2. b \in DOMAIN r /\ Opens(r[b], id) /\ b < n
      BY <1>2, <2>1
    <2>3. ASSUME NEW i \in DOMAIN r
          PROVE  /\ r[i].type = "test" => i < b
                 /\ Shuts(r[i], id) => b < i
                 /\ Opens(r[i], id) => i = b
      <3>1. CASE i = n
        BY <1>2, <1>5, <2>2, <3>1
      <3>2. CASE i \in DOMAIN q
        BY <1>2, <2>1, <3>2
      <3> QED  BY <1>2, <3>1, <3>2
    <2> QED  BY <2>2, <2>3 DEF Comes
  <1>6. ASSUME \A i \in DOMAIN q : ~Opens(q[i], id) /\ ~Shuts(q[i], id), Opens(e, id)
        PROVE  Comes(r, id)
    <2>1. ASSUME NEW i \in DOMAIN r
          PROVE  /\ r[i].type = "test" => i < n
                 /\ Shuts(r[i], id) => n < i
                 /\ Opens(r[i], id) => i = n
      <3>1. CASE i = n
        BY <1>2, <1>6, <3>1 DEF Opens, Shuts
      <3>2. CASE i \in DOMAIN q /\ i < n
        BY <1>2, <1>6, <3>2
      <3> QED  BY <1>2, <3>1, <3>2
    <2> QED  BY <1>2, <1>6, <2>1 DEF Comes
  <1>7. Came(q, id) /\ e.type # "test" /\ ~Opens(e, id) => Came(r, id)
    BY <1>2 DEF Came
  <1>8. ASSUME FeedsFirst(q, id), Shuts(e, id) => HasFeed(q)
        PROVE  FeedsFirst(r, id)
    <2>1. ASSUME NEW i \in DOMAIN r, Shuts(r[i], id)
          PROVE  \E j \in DOMAIN r : j < i /\ r[j].type = "feed"
      <3>1. CASE i = n
        BY <1>2, <1>8, <2>1, <3>1 DEF HasFeed
      <3>2. CASE i \in DOMAIN q
        BY <1>2, <1>8, <2>1, <3>2 DEF FeedsFirst
      <3> QED  BY <1>2, <3>1, <3>2
    <2> QED  BY <2>1 DEF FeedsFirst
  <1>9. \A i \in DOMAIN r : Shuts(r[i], id) => Shuts(e, id) \/ \E j \in DOMAIN q : Shuts(q[j], id)
    BY <1>2
  <1> QED  BY <1>1, <1>3, <1>4, <1>5, <1>6, <1>7, <1>8, <1>9

LEMMA JobGoes ==
    ASSUME NEW q \in Seq(LocalJobs), q # << >>, NEW r, r = Tail(q), NEW h, h = Head(q), NEW id, NEW last
    PROVE  /\ r \in Seq(LocalJobs) /\ h \in LocalJobs
           /\ Numbered(q, last) => Numbered(r, last) /\ (h.type \in {"begin", "finish"} => h.id \in 1..last)
           /\ HasFeed(q) /\ h.type # "feed" => HasFeed(r)
           /\ Comes(q, id) => ~Shuts(h, id)
           /\ Comes(q, id) /\ ~Opens(h, id) => Comes(r, id)
           /\ Comes(q, id) /\ Opens(h, id) => Came(r, id)
           /\ Came(q, id) => Came(r, id) /\ h.type # "test" /\ ~Opens(h, id)
           /\ FeedsFirst(q, id) => ~Shuts(h, id)
           /\ FeedsFirst(q, id) /\ h.type # "feed" => FeedsFirst(r, id)
           /\ (\E i \in DOMAIN r : Shuts(r[i], id)) \/ Shuts(h, id) => \E j \in DOMAIN q : Shuts(q[j], id)
  <1>1. /\ r \in Seq(LocalJobs) /\ h = q[1] /\ 1 \in DOMAIN q /\ h \in LocalJobs
    BY Unqueues
  <1>2. /\ \A i \in DOMAIN r : i \in Nat /\ i + 1 \in DOMAIN q /\ r[i] = q[i + 1]
        /\ \A i \in DOMAIN q : i \in Nat /\ (i = 1 \/ (i - 1 \in DOMAIN r /\ r[i - 1] = q[i] /\ 1 < i))
    BY Unqueues
  <1>3. Numbered(q, last) => Numbered(r, last) /\ (h.type \in {"begin", "finish"} => h.id \in 1..last)
    BY <1>1, <1>2 DEF Numbered
  <1>4. HasFeed(q) /\ h.type # "feed" => HasFeed(r)
    BY <1>1, <1>2 DEF HasFeed
  <1>5. ASSUME Comes(q, id)
        PROVE  ~Shuts(h, id) /\ (~Opens(h, id) => Comes(r, id)) /\ (Opens(h, id) => Came(r, id))
    <2>1. PICK b \in DOMAIN q :
             /\ Opens(q[b], id)
             /\ \A i \in DOMAIN q :
                   /\ q[i].type = "test" => i < b
                   /\ Shuts(q[i], id) => b < i
                   /\ Opens(q[i], id) => i = b
      BY <1>5 DEF Comes
    <2>2. ~Shuts(h, id)
      <3>1. ~(b < 1)
        BY <1>2, <2>1
      <3> QED  BY <1>1, <2>1, <3>1
    <2>3. ASSUME ~Opens(h, id)
          PROVE  Comes(r, id)
      <3>1. b - 1 \in DOMAIN r /\ r[b - 1] = q[b] /\ b \in Nat
        BY <1>1, <1>2, <2>1, <2>3
      <3>2. ASSUME NEW i \in DOMAIN r
            PROVE  /\ r[i].type = "test" => i < b - 1
                   /\ Shuts(r[i], id) => b - 1 < i
                   /\ Opens(r[i], id) => i = b - 1
        <4>1. i \in Nat /\ i + 1 \in DOMAIN q /\ r[i] = q[i + 1]
          BY <1>2
        <4>2. /\ r[i].type = "test" => i + 1 < b
              /\ Shuts(r[i], id) => b < i + 1
              /\ Opens(r[i], id) => i + 1 = b
          BY <2>1, <4>1
        <4>3. (i + 1 < b => i < b - 1) /\ (b < i + 1 => b - 1 < i) /\ (i + 1 = b => i = b - 1)
          BY <3>1, <4>1
        <4> QED  BY <4>2, <4>3
      <3>3. Opens(r[b - 1], id)
        BY <2>1, <3>1
      <3> QED  BY <3>1, <3>2, <3>3 DEF Comes
    <2>4. ASSUME Opens(h, id)
          PROVE  Came(r, id)
      <3>1. b = 1
        BY <1>1, <2>1, <2>4
      <3>2. ASSUME NEW i \in DOMAIN r
            PROVE  r[i].type # "test" /\ ~Opens(r[i], id)
        <4>1. i \in Nat /\ i + 1 \in DOMAIN q /\ r[i] = q[i + 1]
          BY <1>2
        <4>2. i # 0
          BY <3>2, <1>1
        <4>3. ~(i + 1 < 1) /\ i + 1 # 1
          BY <4>1, <4>2
        <4> QED  BY <2>1, <3>1, <4>1, <4>3
      <3> QED  BY <3>2 DEF Came
    <2> QED  BY <2>2, <2>3, <2>4
  <1>6. Came(q, id) => Came(r, id) /\ h.type # "test" /\ ~Opens(h, id)
    BY <1>1, <1>2 DEF Came
  <1>7. ASSUME FeedsFirst(q, id)
        PROVE  ~Shuts(h, id) /\ (h.type # "feed" => FeedsFirst(r, id))
    <2>1. ~Shuts(h, id)
      <3>1. \A j \in DOMAIN q : ~(j < 1)
        BY <1>2
      <3> QED  BY <1>1, <1>7, <3>1 DEF FeedsFirst
    <2>2. ASSUME h.type # "feed", NEW i \in DOMAIN r, Shuts(r[i], id)
          PROVE  \E j \in DOMAIN r : j < i /\ r[j].type = "feed"
      <3>1. i \in Nat /\ i + 1 \in DOMAIN q /\ r[i] = q[i + 1]
        BY <1>2
      <3>2. PICK j \in DOMAIN q : j < i + 1 /\ q[j].type = "feed"
        BY <1>7, <2>2, <3>1 DEF FeedsFirst
      <3>3. j \in Nat /\ j - 1 \in DOMAIN r /\ r[j - 1] = q[j]
        BY <1>1, <1>2, <2>2, <3>2
      <3>4. j - 1 < i
        BY <3>1, <3>2, <3>3
      <3> QED  BY <3>2, <3>3, <3>4
    <2> QED  BY <2>1, <2>2 DEF FeedsFirst
  <1>8. (\E i \in DOMAIN r : Shuts(r[i], id)) \/ Shuts(h, id) => \E j \in DOMAIN q : Shuts(q[j], id)
    BY <1>1, <1>2
  <1> QED  BY <1>1, <1>3, <1>4, <1>5, <1>6, <1>7, <1>8

LEMMA ReportComes ==
    ASSUME NEW q \in Seq(LocalReports), NEW e \in LocalReports, NEW r, r = Append(q, e),
           NEW id, NEW last, NEW sent, NEW told
    PROVE  /\ r \in Seq(LocalReports)
           /\ Reported(q, last) /\ (e.type \in {"text", "end"} => e.id <= last) => Reported(r, last)
           /\ Unended(r, id) = (Unended(q, id) /\ ~EndOf(e, id))
           /\ Whole(q, id, sent, told) /\ Fits(e, id, sent, told, Unended(q, id)) => Whole(r, id, sent, told)
  <1>1. r \in Seq(LocalReports)
    BY Queues
  <1>2. PICK n \in DOMAIN r :
                /\ r[n] = e /\ n \in Nat
                /\ \A i \in DOMAIN q : i \in DOMAIN r /\ r[i] = q[i] /\ i \in Nat /\ i < n
                /\ \A i \in DOMAIN r : i = n \/ (i \in DOMAIN q /\ i < n)
    BY Queues
  <1>3. Reported(q, last) /\ (e.type \in {"text", "end"} => e.id <= last) => Reported(r, last)
    BY <1>2 DEF Reported
  <1>4. Unended(r, id) = (Unended(q, id) /\ ~EndOf(e, id))
    <2>1. Unended(r, id) => Unended(q, id) /\ ~EndOf(e, id)
      BY <1>2 DEF Unended
    <2>2. Unended(q, id) /\ ~EndOf(e, id) => Unended(r, id)
      BY <1>2 DEF Unended
    <2>3. Unended(q, id) \in BOOLEAN /\ Unended(r, id) \in BOOLEAN
      BY DEF Unended
    <2> QED  BY <2>1, <2>2, <2>3
  <1>5. ASSUME Whole(q, id, sent, told), Fits(e, id, sent, told, Unended(q, id))
        PROVE  Whole(r, id, sent, told)
    <2>1. ASSUME NEW i \in DOMAIN r
          PROVE  /\ r[i].type \in {"text", "end"} /\ r[i].id = id => r[i].words \subseteq 1..sent
                 /\ EndOf(r[i], id) /\ r[i].end = "completed" /\ (\A j \in DOMAIN r : j < i => ~EndOf(r[j], id))
                      => told /\ r[i].words = 1..sent
      <3>1. CASE i = n
        <4>1. (\A j \in DOMAIN r : j < i => ~EndOf(r[j], id)) => Unended(q, id)
          BY <1>2, <3>1 DEF Unended
        <4> QED  BY <1>2, <1>5, <3>1, <4>1 DEF Fits
      <3>2. CASE i \in DOMAIN q
        <4>1. /\ q[i].type \in {"text", "end"} /\ q[i].id = id => q[i].words \subseteq 1..sent
              /\ EndOf(q[i], id) /\ q[i].end = "completed" /\ (\A j \in DOMAIN q : j < i => ~EndOf(q[j], id))
                   => told /\ q[i].words = 1..sent
          BY <1>5, <3>2 DEF Whole
        <4>2. r[i] = q[i] /\ \A j \in DOMAIN q : j \in DOMAIN r /\ r[j] = q[j]
          BY <1>2, <3>2
        <4> QED  BY <4>1, <4>2
      <3> QED  BY <1>2, <3>1, <3>2
    <2> QED  BY <2>1 DEF Whole
  <1> QED  BY <1>1, <1>3, <1>4, <1>5

LEMMA ReportGoes ==
    ASSUME NEW q \in Seq(LocalReports), q # << >>, NEW r, r = Tail(q), NEW h, h = Head(q),
           NEW id, NEW last, NEW sent, NEW told
    PROVE  /\ r \in Seq(LocalReports) /\ h \in LocalReports
           /\ Reported(q, last) => Reported(r, last)
           /\ ~EndOf(h, id) => Unended(r, id) = Unended(q, id)
           /\ Whole(q, id, sent, told) /\ ~EndOf(h, id) => Whole(r, id, sent, told)
           /\ Whole(q, id, sent, told) => Fits(h, id, sent, told, TRUE)
  <1>1. /\ r \in Seq(LocalReports) /\ h = q[1] /\ 1 \in DOMAIN q /\ h \in LocalReports
    BY Unqueues
  <1>2. /\ \A i \in DOMAIN r : i \in Nat /\ i + 1 \in DOMAIN q /\ r[i] = q[i + 1]
        /\ \A i \in DOMAIN q : i \in Nat /\ (i = 1 \/ (i - 1 \in DOMAIN r /\ r[i - 1] = q[i] /\ 1 < i))
    BY Unqueues
  <1>3. Reported(q, last) => Reported(r, last)
    BY <1>2 DEF Reported
  <1>4. ASSUME ~EndOf(h, id)
        PROVE  Unended(r, id) = Unended(q, id)
    <2>1. Unended(q, id) => Unended(r, id)
      BY <1>2 DEF Unended
    <2>2. Unended(r, id) => Unended(q, id)
      BY <1>1, <1>2, <1>4 DEF Unended
    <2>3. Unended(q, id) \in BOOLEAN /\ Unended(r, id) \in BOOLEAN
      BY DEF Unended
    <2> QED  BY <2>1, <2>2, <2>3
  <1>5. ASSUME Whole(q, id, sent, told), ~EndOf(h, id), NEW i \in DOMAIN r
        PROVE  /\ r[i].type \in {"text", "end"} /\ r[i].id = id => r[i].words \subseteq 1..sent
               /\ EndOf(r[i], id) /\ r[i].end = "completed" /\ (\A j \in DOMAIN r : j < i => ~EndOf(r[j], id))
                    => told /\ r[i].words = 1..sent
    <2>1. i \in Nat /\ i + 1 \in DOMAIN q /\ r[i] = q[i + 1]
      BY <1>2
    <2>2. /\ q[i + 1].type \in {"text", "end"} /\ q[i + 1].id = id => q[i + 1].words \subseteq 1..sent
          /\ EndOf(q[i + 1], id) /\ q[i + 1].end = "completed" /\ (\A j \in DOMAIN q : j < i + 1 => ~EndOf(q[j], id))
               => told /\ q[i + 1].words = 1..sent
      BY <1>5, <2>1 DEF Whole
    <2>3. ASSUME \A j \in DOMAIN r : j < i => ~EndOf(r[j], id), NEW j \in DOMAIN q, j < i + 1
          PROVE  ~EndOf(q[j], id)
      <3>1. CASE j = 1
        BY <1>1, <1>5, <3>1
      <3>2. CASE j # 1
        <4>1. j \in Nat /\ j - 1 \in DOMAIN r /\ r[j - 1] = q[j]
          BY <1>2, <3>2
        <4>2. j - 1 < i
          BY <2>1, <2>3, <4>1
        <4> QED  BY <2>3, <4>1, <4>2
      <3> QED  BY <3>1, <3>2
    <2> QED  BY <2>1, <2>2, <2>3
  <1>6. Whole(q, id, sent, told) /\ ~EndOf(h, id) => Whole(r, id, sent, told)
    BY <1>5 DEF Whole
  <1>7. ASSUME Whole(q, id, sent, told)
        PROVE  Fits(h, id, sent, told, TRUE)
    <2>1. \A j \in DOMAIN q : ~(j < 1)
      BY <1>2
    <2> QED  BY <1>1, <1>7, <2>1 DEF Whole, Fits
  <1> QED  BY <1>1, <1>3, <1>4, <1>6, <1>7

LEMMA LocalSame ==
    ASSUME ChunksBounded
    PROVE  /\ Local!Current = Current /\ Local!Opened = Opened /\ Local!Told = Told /\ Local!LetGo = LetGo
           /\ \A a, end : Local!Ended(a, end) = Ended(a, end)
           /\ \A a, chunks : Local!Accounted(a, chunks) = Accounted(a, chunks)
           /\ \A a, spoken : Local!Handed(a, spoken) = Handed(a, spoken)
           /\ Local!MayOpen = MayOpen /\ Local!MayFinish = MayFinish /\ Local!MayCancel = MayCancel
           /\ attempt \in Attempts /\ Local!MaySend => MaySend
  BY DEF ChunksBounded, Local!Current, Local!Opened, Local!Told, Local!LetGo, Local!Ended, Local!Accounted,
         Local!Handed, Local!MayOpen, Local!MayFinish, Local!MayCancel, Local!MaySend, Local!NoAttempt,
         Current, Opened, Told, LetGo, Ended, Accounted, Handed, MayOpen, MayFinish, MayCancel, MaySend,
         NoAttempt, Attempts

LEMMA LocalTyped ==
    ASSUME LocalKeeps
    PROVE  /\ attempt \in Attempts /\ attempt.id \in Nat /\ attempt.sent \in Nat
           /\ jobs \in Seq(LocalJobs) /\ reports \in Seq(LocalReports)
           /\ shared \in [live : Nat, pending : Seq(Nat), feedQueued : BOOLEAN, idle : BOOLEAN]
           /\ shared.live \in Nat /\ shared.pending \in Seq(Nat) /\ shared.feedQueued \in BOOLEAN
           /\ worker \in [attempt : Nat, failed : BOOLEAN, model : LocalModels, taken : Seq(Nat),
                          at : {"idle", "load", "take", "taken", "feeding", "finish", "test"}]
           /\ worker.attempt \in Nat /\ worker.taken \in Seq(Nat) /\ worker.failed \in BOOLEAN
           /\ engine \in [model : LocalModels, heard : Seq(Nat)] /\ engine.heard \in Seq(Nat)
  BY DEF LocalKeeps, LocalTypes, Attempts

\* Nothing is asked of what is left once the attempt is over.
LEMMA LocalOver ==
    ASSUME LocalTypes', LocalFrame', ~Current', Promised
    PROVE  LocalStep
  BY DEF LocalStep, LocalKeeps

LEMMA LocalUntold ==
    ASSUME attempt' = attempt
    PROVE  Promised /\ Current' = Current
  BY DEF Promised, Current

\* What was queued for earlier attempts says nothing of the next.
LEMMA NewJobs ==
    ASSUME NEW q \in Seq(LocalJobs), NEW last \in Nat, Numbered(q, last), NEW id, id = last + 1
    PROVE  /\ Numbered(q, id)
           /\ \A i \in DOMAIN q : ~Opens(q[i], id) /\ ~Shuts(q[i], id)
  <1>1. 1..last \subseteq 1..id /\ id \notin 1..last
    OBVIOUS
  <1> QED  BY <1>1 DEF Numbered, Opens, Shuts

LEMMA NewReports ==
    ASSUME NEW q \in Seq(LocalReports), NEW last \in Nat, Reported(q, last), NEW id, id = last + 1,
           NEW sent, NEW told
    PROVE  Reported(q, id) /\ Unended(q, id) /\ Whole(q, id, sent, told)
  <1>1. ASSUME NEW i \in DOMAIN q, q[i].type \in {"text", "end"}
        PROVE  q[i].id <= id /\ q[i].id # id
    <2>1. q[i].id \in Nat /\ q[i].id <= last
      <3>1. q[i] \in LocalReports
        OBVIOUS
      <3>2. q[i].id \in Nat
        BY <1>1, <3>1 DEF LocalReports
      <3> QED  BY <1>1, <3>2 DEF Reported
    <2> QED  BY <2>1
  <1> QED  BY <1>1 DEF Reported, Unended, EndOf, Whole

\* Nothing completes an attempt that was not told, so that more may be handed over to it.
LEMMA WholeMore ==
    ASSUME NEW q \in Seq(LocalReports), NEW id, NEW sent \in Nat, NEW more \in Nat, sent <= more, Whole(q, id, sent, FALSE)
    PROVE  Whole(q, id, more, FALSE)
  <1>1. 1..sent \subseteq 1..more
    OBVIOUS
  <1> QED  BY <1>1 DEF Whole

LEMMA WholeTold ==
    ASSUME NEW q, NEW id, NEW sent, Whole(q, id, sent, FALSE)
    PROVE  Whole(q, id, sent, TRUE)
  BY DEF Whole

LEMMA LocalStarts ==
    ASSUME ChunksBounded, LocalKeeps, Local!startAttempt
    PROVE  LocalStep
  <1>1. /\ MayOpen /\ attempt' = Opened /\ worker' = worker /\ engine' = engine
        /\ shared' = [shared EXCEPT !.live = attempt'.id, !.pending = << >>, !.idle = FALSE]
    BY LocalSame DEF Local!startAttempt
  <1>2. /\ Promised /\ attempt' \in Attempts /\ Current' /\ attempt'.phase = "open"
        /\ attempt'.sent = 0 /\ attempt'.owed = {} /\ attempt'.words = {}
        /\ attempt'.id = attempt.id + 1
    BY <1>1, LocalTyped, Starts
  <1>3. /\ shared' \in [live : Nat, pending : Seq(Nat), feedQueued : BOOLEAN, idle : BOOLEAN]
        /\ shared'.live = attempt'.id /\ shared'.pending = << >> /\ shared'.feedQueued = shared.feedQueued
    <2>1. << >> \in Seq(Nat) /\ attempt'.id \in Nat
      BY <1>2 DEF Attempts
    <2> QED  BY <1>1, <2>1, LocalTyped
  <1>4. /\ Numbered(jobs, attempt'.id) /\ \A i \in DOMAIN jobs : ~Opens(jobs[i], attempt'.id) /\ ~Shuts(jobs[i], attempt'.id)
    BY <1>2, LocalTyped, NewJobs DEF LocalKeeps, LocalFrame
  <1>5. /\ Reported(reports, attempt'.id) /\ Unended(reports, attempt'.id)
        /\ Whole(reports, attempt'.id, 0, FALSE)
    BY <1>2, LocalTyped, NewReports DEF LocalKeeps, LocalFrame
  <1>6. worker.attempt <= attempt'.id /\ worker.attempt # attempt'.id /\ attempt'.id # 0 /\ attempt'.id \in 1..attempt'.id
    <2>1. ASSUME NEW a \in Nat, NEW b \in Nat, NEW c, a <= b, c = b + 1
          PROVE  a <= c /\ a # c /\ c # 0 /\ c \in 1..c
      BY <2>1
    <2>2. worker.attempt <= attempt.id
      BY DEF LocalKeeps, LocalFrame
    <2> QED  BY <1>2, <2>1, <2>2, LocalTyped
  <1>7. Items(<< >>) = {}
    BY DEF Items
  <1>8. CASE reports' = Append(reports, Local!End(attempt'.id, "failed", {})) /\ UNCHANGED jobs
    <2> DEFINE e == Local!End(attempt'.id, "failed", {})
    <2>1. e \in LocalReports /\ e.type = "end" /\ e.id = attempt'.id /\ e.end = "failed" /\ e.words = {}
      BY <1>2 DEF Local!End, LocalReports, Attempts
    <2>2. Fits(e, attempt'.id, 0, FALSE, Unended(reports, attempt'.id)) /\ EndOf(e, attempt'.id)
      BY <2>1 DEF Fits, EndOf
    <2>3. e.type \in {"text", "end"} => e.id <= attempt'.id
      BY <2>1, <1>2 DEF Attempts
    <2>4. /\ reports' \in Seq(LocalReports) /\ Reported(reports', attempt'.id) /\ ~Unended(reports', attempt'.id)
          /\ Whole(reports', attempt'.id, 0, FALSE)
      <3> HIDE DEF e
      <3>1. reports' = Append(reports, e)
        BY <1>8 DEF e
      <3> QED  BY <1>5, <2>1, <2>2, <2>3, <3>1, LocalTyped, ReportComes
    <2>5. LocalTypes'
      BY <1>1, <1>2, <1>3, <1>8, <2>4, LocalTyped DEF LocalTypes
    <2>6. LocalFrame'
      BY <1>1, <1>2, <1>3, <1>4, <1>6, <1>8, <2>4 DEF LocalKeeps, LocalFrame
    <2>7. LocalHears'
      BY <1>1, <1>2, <1>3, <1>4, <1>6, <1>7, <1>8, <2>4 DEF LocalHears, Begun
    <2> QED  BY <1>2, <1>3, <2>4, <2>5, <2>6, <2>7 DEF LocalStep, LocalKeeps
  <1>9. ASSUME NEW model \in Models, UNCHANGED reports,
               jobs' = Append(jobs, [type |-> "begin", id |-> attempt'.id, model |-> model])
        PROVE  LocalStep
    <2> DEFINE e == [type |-> "begin", id |-> attempt'.id, model |-> model]
    <2>1. e \in LocalJobs /\ Opens(e, attempt'.id) /\ ~Shuts(e, attempt'.id) /\ e.type # "test"
          /\ (e.type \in {"begin", "finish"} => e.id \in 1..attempt'.id)
      BY <1>2, <1>6 DEF LocalJobs, Attempts, Opens, Shuts
    <2>2. jobs' = Append(jobs, e)
      BY <1>9
    <2> HIDE DEF e
    <2>3. /\ jobs' \in Seq(LocalJobs) /\ Numbered(jobs', attempt'.id) /\ Comes(jobs', attempt'.id)
          /\ (HasFeed(jobs) => HasFeed(jobs'))
      <3>1. /\ jobs' \in Seq(LocalJobs)
            /\ Numbered(jobs, attempt'.id) /\ (e.type \in {"begin", "finish"} => e.id \in 1..attempt'.id)
                 => Numbered(jobs', attempt'.id)
            /\ HasFeed(jobs) \/ e.type = "feed" => HasFeed(jobs')
            /\ (\A i \in DOMAIN jobs : ~Opens(jobs[i], attempt'.id) /\ ~Shuts(jobs[i], attempt'.id)) /\ Opens(e, attempt'.id)
                 => Comes(jobs', attempt'.id)
        BY <2>1, <2>2, LocalTyped, JobComes
      <3> QED  BY <1>4, <2>1, <3>1
    <2>4. \A i \in DOMAIN jobs' : ~Shuts(jobs'[i], attempt'.id)
      <3>1. \A i \in DOMAIN jobs' : Shuts(jobs'[i], attempt'.id) => Shuts(e, attempt'.id) \/ \E j \in DOMAIN jobs : Shuts(jobs[j], attempt'.id)
        BY <2>1, <2>2, LocalTyped, JobComes
      <3> QED  BY <1>4, <2>1, <3>1
    <2>5. LocalTypes'
      BY <1>1, <1>2, <1>3, <1>9, <2>3, LocalTyped DEF LocalTypes
    <2>6. LocalFrame'
      BY <1>1, <1>2, <1>3, <1>5, <1>6, <1>9, <2>3 DEF LocalKeeps, LocalFrame
    <2>7. LocalHears'
      BY <1>1, <1>2, <1>3, <1>5, <1>6, <1>7, <1>9, <2>4 DEF LocalHears, Begun
    <2>8. LocalWaits' /\ ~Begun'
      BY <1>1, <1>2, <1>3, <1>6, <2>3, Counts DEF LocalWaits, Begun
    <2> QED  BY <1>2, <1>3, <2>5, <2>6, <2>7, <2>8 DEF LocalStep, LocalKeeps
  <1> QED  BY <1>8, <1>9 DEF Local!startAttempt, Local!Missing

LEMMA LocalSends ==
    ASSUME ChunksBounded, LocalKeeps, Local!sendAudio
    PROVE  LocalStep
  <1>1. MaySend /\ attempt' = Handed(attempt, TRUE) /\ worker' = worker /\ engine' = engine /\ reports' = reports
    BY LocalSame, LocalTyped DEF Local!sendAudio
  <1>2. /\ Promised /\ attempt' \in Attempts /\ Current /\ Current' /\ attempt'.phase = "open"
        /\ attempt'.sent = attempt.sent + 1 /\ attempt'.words = attempt.words
        /\ attempt'.owed = attempt.owed \cup {attempt.sent + 1}
        /\ attempt'.id = attempt.id /\ attempt.phase = "open"
    BY <1>1, LocalTyped, Hands
  <1>3. attempt.id = shared.live
    BY <1>2 DEF LocalKeeps, LocalFrame
  <1>4. /\ shared' = [shared EXCEPT !.pending = Append(@, attempt'.sent), !.feedQueued = TRUE]
        /\ jobs' = IF shared.feedQueued THEN jobs ELSE Append(jobs, [type |-> "feed"])
    BY <1>3 DEF Local!sendAudio
  <1>5. attempt'.sent \in Nat /\ attempt.sent \in Nat /\ attempt'.sent \in 1..attempt'.sent
        /\ 1..attempt.sent \subseteq 1..attempt'.sent /\ attempt.sent <= attempt'.sent
    BY <1>2, LocalTyped
  <1>6. /\ shared'.pending = Append(shared.pending, attempt'.sent) /\ shared'.pending \in Seq(Nat)
        /\ shared'.live = shared.live /\ shared'.feedQueued = TRUE
        /\ shared' \in [live : Nat, pending : Seq(Nat), feedQueued : BOOLEAN, idle : BOOLEAN]
    <2>1. Append(shared.pending, attempt'.sent) \in Seq(Nat)
      BY <1>5, LocalTyped, AppendProperties
    <2>2. shared' = [shared EXCEPT !.pending = Append(shared.pending, attempt'.sent), !.feedQueued = TRUE]
      BY <1>4, LocalTyped
    <2> QED  BY <2>1, <2>2, LocalTyped
  <1>7. LocalHears /\ (Unended(reports, shared.live) => IF Begun THEN LocalWorks ELSE LocalWaits) /\ LocalFrame
    BY <1>2 DEF LocalKeeps
  <1>8. ASSUME NEW i \in DOMAIN jobs
        PROVE  ~Shuts(jobs[i], shared.live)
    BY <1>2, <1>7 DEF LocalHears
  <1>9. /\ jobs' \in Seq(LocalJobs) /\ Numbered(jobs', attempt.id) /\ HasFeed(jobs')
        /\ (Comes(jobs, shared.live) => Comes(jobs', shared.live))
        /\ (Came(jobs, shared.live) => Came(jobs', shared.live))
        /\ \A i \in DOMAIN jobs' : ~Shuts(jobs'[i], shared.live)
    <2>1. CASE shared.feedQueued = TRUE
      BY <1>4, <1>7, <1>8, <2>1, LocalTyped DEF LocalFrame
    <2>2. CASE shared.feedQueued = FALSE
      <3> DEFINE e == [type |-> "feed"]
      <3>1. e \in LocalJobs /\ ~Opens(e, shared.live) /\ ~Shuts(e, shared.live) /\ e.type = "feed" /\ e.type # "test"
        BY DEF LocalJobs, Opens, Shuts
      <3>2. jobs' = Append(jobs, e)
        BY <1>4, <2>2
      <3> HIDE DEF e
      <3>3. /\ jobs' \in Seq(LocalJobs)
            /\ Numbered(jobs, attempt.id) /\ (e.type \in {"begin", "finish"} => e.id \in 1..attempt.id)
                 => Numbered(jobs', attempt.id)
            /\ HasFeed(jobs) \/ e.type = "feed" => HasFeed(jobs')
            /\ Comes(jobs, shared.live) /\ e.type # "test" /\ ~Opens(e, shared.live) => Comes(jobs', shared.live)
            /\ Came(jobs, shared.live) /\ e.type # "test" /\ ~Opens(e, shared.live) => Came(jobs', shared.live)
            /\ \A i \in DOMAIN jobs' : Shuts(jobs'[i], shared.live) => Shuts(e, shared.live) \/ \E j \in DOMAIN jobs : Shuts(jobs[j], shared.live)
        BY <3>1, <3>2, LocalTyped, JobComes
      <3> QED  BY <1>7, <1>8, <3>1, <3>3 DEF LocalFrame
    <2> QED  BY <2>1, <2>2, LocalTyped
  <1>10. LocalTypes'
    BY <1>1, <1>2, <1>6, <1>9, LocalTyped DEF LocalTypes
  <1>11. LocalFrame'
    BY <1>1, <1>2, <1>3, <1>6, <1>7, <1>9 DEF LocalFrame
  <1>12. LocalHears'
    <2>1. Items(shared'.pending) = Items(shared.pending) \cup {attempt'.sent}
      BY <1>5, <1>6, LocalTyped, ItemsOfMore
    <2>2. Whole(reports, shared.live, attempt.sent, FALSE)
      BY <1>2, <1>7 DEF LocalHears
    <2>3. Whole(reports, shared.live, attempt'.sent, FALSE)
      BY <1>5, <2>2, LocalTyped, WholeMore
    <2> QED  BY <1>1, <1>2, <1>5, <1>6, <1>7, <1>9, <2>1, <2>3 DEF LocalHears, Begun
  <1>13. ASSUME Unended(reports, shared.live), ~Begun
         PROVE  LocalWaits'
    <2>1. Append(UpTo(attempt.sent), attempt'.sent) = UpTo(attempt'.sent)
      BY <1>2, <1>5, NextCounts
    <2> QED  BY <1>6, <1>7, <1>9, <1>13, <2>1 DEF LocalWaits
  <1>14. ASSUME Unended(reports, shared.live), Begun
         PROVE  LocalWorks'
    <2>1. LocalWorks
      BY <1>7, <1>14
    <2>2. (engine.heard \o worker.taken) \o shared'.pending = UpTo(attempt'.sent)
      <3>1. engine.heard \o worker.taken \in Seq(Nat)
        BY LocalTyped, ConcatProperties
      <3>2. (engine.heard \o worker.taken) \o shared.pending = UpTo(attempt.sent)
        BY <2>1 DEF LocalWorks
      <3>3. PICK s \in Seq(Nat) : s = engine.heard \o worker.taken
        BY <3>1
      <3>4. s \o shared.pending = UpTo(attempt.sent)
        BY <3>2, <3>3
      <3>5. s \o Append(shared.pending, attempt'.sent) = UpTo(attempt'.sent)
        <4>1. ASSUME NEW t \in Seq(Nat), NEW n \in Nat, NEW m \in Nat, m = n + 1, s \o t = UpTo(n)
              PROVE  s \o Append(t, m) = UpTo(m)
          BY <4>1, NextWaits
        <4>2. shared.pending \in Seq(Nat) /\ attempt.sent \in Nat /\ attempt'.sent \in Nat /\ attempt'.sent = attempt.sent + 1
          BY <1>2, <1>5, LocalTyped
        <4> QED  BY <3>4, <4>1, <4>2
      <3> QED  BY <1>6, <3>3, <3>5
    <2>3. FeedsFirst(jobs', shared.live)
      BY <1>9 DEF FeedsFirst
    <2> QED  BY <1>1, <1>2, <1>6, <1>9, <2>1, <2>2, <2>3 DEF LocalWorks
  <1> QED  BY <1>1, <1>2, <1>6, <1>10, <1>11, <1>12, <1>13, <1>14 DEF LocalStep, LocalKeeps, Begun

LEMMA LocalFinishes ==
    ASSUME ChunksBounded, LocalKeeps, Local!finishInput
    PROVE  LocalStep
  <1>1. MayFinish /\ attempt' = Told /\ shared' = shared /\ worker' = worker /\ engine' = engine /\ reports' = reports
    BY LocalSame, LocalTyped DEF Local!finishInput
  <1>2. Current /\ attempt.phase = "open"
    BY <1>1 DEF MayFinish, Current
  <1>3. LocalHears /\ (Unended(reports, shared.live) => IF Begun THEN LocalWorks ELSE LocalWaits) /\ LocalFrame
    BY <1>2 DEF LocalKeeps
  <1>4. /\ Promised /\ attempt' \in Attempts /\ attempt' = [attempt EXCEPT !.phase = "told"]
        /\ Current' /\ attempt'.phase = "told"
    BY <1>1, <1>3, LocalTyped, Finishes DEF LocalHears
  <1>5. /\ attempt'.id = attempt.id /\ attempt'.sent = attempt.sent /\ attempt'.words = attempt.words
        /\ attempt'.owed = attempt.owed
    BY <1>4, LocalTyped DEF Attempts
  <1>6. attempt.id = shared.live /\ shared.live # 0 /\ shared.live \in 1..attempt.id
    <2>1. attempt.id = shared.live /\ shared.live # 0
      BY <1>2, <1>3 DEF LocalFrame
    <2>2. \A n \in Nat : n # 0 => n \in 1..n
      OBVIOUS
    <2> QED  BY <2>1, <2>2, LocalTyped
  <1> DEFINE e == [type |-> "finish", id |-> attempt.id]
  <1>7. jobs' = Append(jobs, e)
    BY <1>6 DEF Local!finishInput
  <1>8. e \in LocalJobs /\ ~Opens(e, shared.live) /\ e.type = "finish" /\ e.id \in 1..attempt.id /\ e.type # "test"
    BY <1>6, LocalTyped DEF LocalJobs, Opens
  <1> HIDE DEF e
  <1>9. /\ jobs' \in Seq(LocalJobs)
        /\ Numbered(jobs, attempt.id) /\ (e.type \in {"begin", "finish"} => e.id \in 1..attempt.id)
             => Numbered(jobs', attempt.id)
        /\ HasFeed(jobs) \/ e.type = "feed" => HasFeed(jobs')
        /\ Comes(jobs, shared.live) /\ e.type # "test" /\ ~Opens(e, shared.live) => Comes(jobs', shared.live)
        /\ Came(jobs, shared.live) /\ e.type # "test" /\ ~Opens(e, shared.live) => Came(jobs', shared.live)
        /\ FeedsFirst(jobs, shared.live) /\ (Shuts(e, shared.live) => HasFeed(jobs)) => FeedsFirst(jobs', shared.live)
    BY <1>7, <1>8, LocalTyped, JobComes
  <1>10. LocalTypes'
    BY <1>1, <1>4, <1>9, LocalTyped DEF LocalTypes
  <1>11. LocalFrame'
    BY <1>1, <1>2, <1>3, <1>4, <1>5, <1>6, <1>8, <1>9 DEF LocalFrame
  <1>12. LocalHears'
    <2>1. Whole(reports, shared.live, attempt.sent, FALSE)
      BY <1>2, <1>3 DEF LocalHears
    <2>2. Whole(reports, shared.live, attempt.sent, TRUE)
      BY <2>1, WholeTold
    <2> QED  BY <1>1, <1>3, <1>4, <1>5, <2>2 DEF LocalHears, Begun
  <1>13. ASSUME Unended(reports, shared.live), ~Begun
         PROVE  LocalWaits'
    BY <1>1, <1>3, <1>5, <1>8, <1>9, <1>13 DEF LocalWaits
  <1>14. ASSUME Unended(reports, shared.live), Begun
         PROVE  LocalWorks'
    <2>1. LocalWorks
      BY <1>3, <1>14
    <2>2. shared.feedQueued = TRUE => HasFeed(jobs)
      BY <1>3 DEF LocalFrame
    <2> QED  BY <1>1, <1>4, <1>5, <1>8, <1>9, <2>1, <2>2 DEF LocalWorks
  <1> QED  BY <1>1, <1>4, <1>10, <1>11, <1>12, <1>13, <1>14 DEF LocalStep, LocalKeeps, Begun

LEMMA LocalLetsGo ==
    ASSUME ChunksBounded, LocalKeeps, Local!cancelAttempt
    PROVE  LocalStep
  <1>1. /\ MayCancel /\ attempt' = LetGo /\ jobs' = jobs /\ worker' = worker /\ engine' = engine /\ reports' = reports
        /\ shared' = IF attempt.id = shared.live THEN [shared EXCEPT !.live = 0, !.idle = TRUE] ELSE shared
    BY LocalSame DEF Local!cancelAttempt, Local!startIdleTimer
  <1>2. Promised /\ attempt' \in Attempts /\ ~Current' /\ attempt'.id = attempt.id
    BY <1>1, LocalTyped, LetsGo
  <1>3. /\ shared' \in [live : Nat, pending : Seq(Nat), feedQueued : BOOLEAN, idle : BOOLEAN]
        /\ shared'.feedQueued = shared.feedQueued /\ shared'.live = 0
    <2>1. shared.live # 0 => attempt.id = shared.live
      BY DEF LocalKeeps, LocalFrame
    <2> QED  BY <1>1, <2>1, LocalTyped
  <1>4. LocalTypes'
    BY <1>1, <1>2, <1>3, LocalTyped DEF LocalTypes
  <1>5. LocalFrame'
    <2>1. LocalFrame
      BY DEF LocalKeeps
    <2>2. (shared'.live # 0) = Current' /\ (Current' => shared'.live = attempt'.id)
      <3>1. Current' = FALSE
        BY <1>2 DEF Current
      <3> QED  BY <1>3, <3>1
    <2> QED  BY <1>1, <1>2, <1>3, <2>1, <2>2 DEF LocalFrame
  <1> QED  BY <1>2, <1>4, <1>5, LocalOver
LEMMA LocalAsksForTest ==
    ASSUME ChunksBounded, LocalKeeps, Local!runSpeedTest
    PROVE  LocalStep
  <1>1. /\ shared.live = 0 /\ attempt' = attempt /\ worker' = worker /\ engine' = engine /\ reports' = reports
        /\ shared' = [shared EXCEPT !.idle = FALSE]
    BY DEF Local!runSpeedTest
  <1>2. PICK model \in Models : jobs' = Append(jobs, [type |-> "test", model |-> model])
    BY DEF Local!runSpeedTest
  <1>3. /\ shared' \in [live : Nat, pending : Seq(Nat), feedQueued : BOOLEAN, idle : BOOLEAN]
        /\ shared'.feedQueued = shared.feedQueued /\ shared'.live = 0
    BY <1>1, LocalTyped
  <1> DEFINE e == [type |-> "test", model |-> model]
  <1>4. jobs' = Append(jobs, e) /\ e \in LocalJobs /\ e.type = "test"
    BY <1>2 DEF LocalJobs
  <1> HIDE DEF e
  <1>5. /\ jobs' \in Seq(LocalJobs)
        /\ Numbered(jobs, attempt.id) /\ (e.type \in {"begin", "finish"} => e.id \in 1..attempt.id)
             => Numbered(jobs', attempt.id)
        /\ HasFeed(jobs) \/ e.type = "feed" => HasFeed(jobs')
    BY <1>4, LocalTyped, JobComes
  <1>6. LocalTypes'
    BY <1>1, <1>3, <1>5, LocalTyped DEF LocalTypes
  <1>7. LocalFrame
    BY DEF LocalKeeps
  <1>8. Promised /\ Current' = Current
    BY <1>1, LocalUntold
  <1>9. LocalFrame'
    BY <1>1, <1>3, <1>4, <1>5, <1>7, <1>8 DEF LocalFrame
  <1>10. ~Current'
    BY <1>1, <1>7, <1>8 DEF LocalFrame
  <1> QED  BY <1>6, <1>8, <1>9, <1>10, LocalOver

LEMMA LocalTimesOut ==
    ASSUME ChunksBounded, LocalKeeps, Local!IdleTimeout
    PROVE  LocalStep
  <1>1. /\ attempt' = attempt /\ worker' = worker /\ engine' = engine /\ reports' = reports
        /\ shared' = [shared EXCEPT !.idle = FALSE]
    BY DEF Local!IdleTimeout
  <1>3. /\ shared' \in [live : Nat, pending : Seq(Nat), feedQueued : BOOLEAN, idle : BOOLEAN]
        /\ shared'.feedQueued = shared.feedQueued /\ shared'.live = shared.live /\ shared'.pending = shared.pending
    BY <1>1, LocalTyped
  <1> DEFINE e == [type |-> "unload"]
  <1>4. /\ jobs' = Append(jobs, e) /\ e \in LocalJobs /\ e.type = "unload" /\ e.type # "test"
        /\ ~Opens(e, shared.live) /\ ~Shuts(e, shared.live)
    BY DEF LocalJobs, Local!IdleTimeout, Opens, Shuts
  <1> HIDE DEF e
  <1>5. /\ jobs' \in Seq(LocalJobs)
        /\ Numbered(jobs, attempt.id) /\ (e.type \in {"begin", "finish"} => e.id \in 1..attempt.id)
             => Numbered(jobs', attempt.id)
        /\ HasFeed(jobs) \/ e.type = "feed" => HasFeed(jobs')
        /\ Comes(jobs, shared.live) /\ e.type # "test" /\ ~Opens(e, shared.live) => Comes(jobs', shared.live)
        /\ Came(jobs, shared.live) /\ e.type # "test" /\ ~Opens(e, shared.live) => Came(jobs', shared.live)
        /\ FeedsFirst(jobs, shared.live) /\ (Shuts(e, shared.live) => HasFeed(jobs)) => FeedsFirst(jobs', shared.live)
        /\ \A i \in DOMAIN jobs' : Shuts(jobs'[i], shared.live) => Shuts(e, shared.live) \/ \E j \in DOMAIN jobs : Shuts(jobs[j], shared.live)
    BY <1>4, LocalTyped, JobComes
  <1>6. LocalTypes'
    BY <1>1, <1>3, <1>5, LocalTyped DEF LocalTypes
  <1>7. LocalFrame
    BY DEF LocalKeeps
  <1>8. Promised /\ Current' = Current
    BY <1>1, LocalUntold
  <1>9. LocalFrame'
    BY <1>1, <1>3, <1>4, <1>5, <1>7, <1>8 DEF LocalFrame
  <1>10. ASSUME Current
         PROVE  LocalHears'
    <2>1. LocalHears
      BY <1>10 DEF LocalKeeps
    <2> QED  BY <1>1, <1>3, <1>4, <1>5, <2>1 DEF LocalHears, Begun
  <1>11. ASSUME Current, Unended(reports, shared.live)
         PROVE  (Begun => LocalWorks') /\ (~Begun => LocalWaits')
    <2>1. Begun => LocalWorks
      BY <1>11 DEF LocalKeeps
    <2>2. ~Begun => LocalWaits
      BY <1>11 DEF LocalKeeps
    <2>3. Begun => LocalWorks'
      BY <1>1, <1>3, <1>4, <1>5, <2>1 DEF LocalWorks
    <2>4. ~Begun => LocalWaits'
      BY <1>1, <1>3, <1>4, <1>5, <2>2 DEF LocalWaits
    <2> QED  BY <2>3, <2>4
  <1> QED  BY <1>1, <1>3, <1>6, <1>8, <1>9, <1>10, <1>11 DEF LocalStep, LocalKeeps, Begun

\* What is told of the live attempt is of what was handed over.
LEMMA LocalHandlesReport ==
    ASSUME ChunksBounded, LocalKeeps, Local!HandleReport
    PROVE  LocalStep
  <1>1. reports # << >> /\ reports' = Tail(reports) /\ jobs' = jobs /\ worker' = worker /\ engine' = engine
    BY DEF Local!HandleReport
  <1> DEFINE h == Head(reports)
  <1>2. h = Head(reports)
    OBVIOUS
  <1>3. \/ h.type = "tested" /\ shared' = (IF shared.live = 0 THEN Local!startIdleTimer ELSE shared) /\ attempt' = attempt
        \/ h.type # "tested" /\ h.id # shared.live /\ shared' = shared /\ attempt' = attempt
        \/ /\ h.type = "text" /\ h.id = shared.live /\ shared' = shared
           /\ attempt' = Accounted(attempt, attempt.words \cup h.words)
        \/ /\ h.type = "end" /\ h.id = shared.live /\ shared' = Local!startIdleTimer
           /\ attempt' = Ended(Accounted(attempt, attempt.words \cup h.words), h.end)
    BY LocalSame DEF Local!HandleReport
  <1> HIDE DEF h
  <1>4. LocalFrame
    BY DEF LocalKeeps
  <1>5. /\ reports' \in Seq(LocalReports) /\ h \in LocalReports
        /\ Reported(reports, attempt.id) => Reported(reports', attempt.id)
        /\ ~EndOf(h, shared.live) => Unended(reports', shared.live) = Unended(reports, shared.live)
        /\ Whole(reports, shared.live, attempt.sent, attempt.phase = "told") /\ ~EndOf(h, shared.live)
             => Whole(reports', shared.live, attempt.sent, attempt.phase = "told")
        /\ Whole(reports, shared.live, attempt.sent, attempt.phase = "told")  => Fits(h, shared.live, attempt.sent, attempt.phase = "told", TRUE)
    <2>1. PICK told \in BOOLEAN : told = (attempt.phase = "told")
      OBVIOUS
    <2>2. /\ reports' \in Seq(LocalReports) /\ h \in LocalReports
          /\ Reported(reports, attempt.id) => Reported(reports', attempt.id)
          /\ ~EndOf(h, shared.live) => Unended(reports', shared.live) = Unended(reports, shared.live)
          /\ Whole(reports, shared.live, attempt.sent, told) /\ ~EndOf(h, shared.live)
               => Whole(reports', shared.live, attempt.sent, told)
          /\ Whole(reports, shared.live, attempt.sent, told) => Fits(h, shared.live, attempt.sent, told, TRUE)
      <3>1. PICK q \in Seq(LocalReports), id \in Nat, last \in Nat, sent \in Nat :
               q = reports /\ id = shared.live /\ last = attempt.id /\ sent = attempt.sent
        BY LocalTyped
      <3>4. PICK r : r = reports'
        OBVIOUS
      <3>2. q # << >> /\ r = Tail(q) /\ h = Head(q)
        BY <1>1, <1>2, <3>1, <3>4
      <3>3. /\ r \in Seq(LocalReports) /\ h \in LocalReports
            /\ Reported(q, last) => Reported(r, last)
            /\ ~EndOf(h, id) => Unended(r, id) = Unended(q, id)
            /\ Whole(q, id, sent, told) /\ ~EndOf(h, id) => Whole(r, id, sent, told)
            /\ Whole(q, id, sent, told) => Fits(h, id, sent, told, TRUE)
        BY <3>2, ReportGoes
      <3> QED  BY <3>1, <3>4, <3>3
    <2> QED  BY <2>1, <2>2
  <1>6. /\ Local!startIdleTimer \in [live : Nat, pending : Seq(Nat), feedQueued : BOOLEAN, idle : BOOLEAN]
        /\ Local!startIdleTimer.live = 0 /\ Local!startIdleTimer.feedQueued = shared.feedQueued
    BY LocalTyped DEF Local!startIdleTimer
  <1>7. CASE shared' = shared /\ attempt' = attempt /\ ~EndOf(h, shared.live)
    <2>1. Promised /\ Current' = Current
      BY <1>7, LocalUntold
    <2>2. LocalTypes' /\ LocalFrame'
      BY <1>1, <1>4, <1>5, <1>7, <2>1, LocalTyped DEF LocalTypes, LocalFrame
    <2>3. ASSUME Current
          PROVE  LocalHears'
      <3>1. LocalHears
        BY <2>3 DEF LocalKeeps
      <3> QED  BY <1>1, <1>5, <1>7, <3>1 DEF LocalHears, Begun
    <2>4. (LocalWorks' = LocalWorks) /\ (LocalWaits' = LocalWaits) /\ (Begun' = Begun)
      BY <1>1, <1>7 DEF LocalWorks, LocalWaits, Begun
    <2>5. Unended(reports', shared.live) = Unended(reports, shared.live)
      BY <1>5, <1>7
    <2>6. Current /\ Unended(reports, shared.live) => IF Begun THEN LocalWorks ELSE LocalWaits
      BY DEF LocalKeeps
    <2> QED  BY <1>7, <2>1, <2>2, <2>3, <2>4, <2>5, <2>6 DEF LocalStep, LocalKeeps
  <1>8. CASE h.type = "tested" /\ shared.live = 0 /\ shared' = Local!startIdleTimer /\ attempt' = attempt
    <2>1. Promised /\ Current' = Current /\ ~Current
      BY <1>4, <1>8, LocalUntold DEF LocalFrame
    <2>2. LocalTypes'
      BY <1>1, <1>5, <1>6, <1>8, LocalTyped DEF LocalTypes
    <2>3. LocalFrame'
      BY <1>1, <1>4, <1>5, <1>6, <1>8, <2>1 DEF LocalFrame
    <2> QED  BY <2>1, <2>2, <2>3, LocalOver
  <1>9. CASE h.type = "text" /\ h.id = shared.live /\ shared' = shared /\ attempt' = Accounted(attempt, attempt.words \cup h.words)
    <2>0. h.id \in Nat /\ ~EndOf(h, shared.live)
      BY <1>5, <1>9 DEF LocalReports, EndOf
    <2>1. CASE ~Current
      <3>1. attempt' = attempt
        BY <2>1, <1>9 DEF Accounted
      <3> QED  BY <1>7, <1>9, <2>0, <3>1
    <2>2. CASE Current
      <3>1. LocalHears /\ (Unended(reports, shared.live) => IF Begun THEN LocalWorks ELSE LocalWaits)
        BY <2>2 DEF LocalKeeps
      <3>2. h.words \subseteq 1..attempt.sent /\ attempt.words \subseteq 1..attempt.sent
        BY <1>5, <1>9, <3>1 DEF LocalHears, Fits
      <3>3. PICK chunks \in SUBSET (1..attempt.sent) : chunks = attempt.words \cup h.words /\ attempt.words \subseteq chunks
        BY <3>2
      <3>4. attempt' = Accounted(attempt, chunks)
        BY <1>9, <3>3
      <3>5. Promised /\ attempt' \in Attempts /\ attempt' = [attempt EXCEPT !.words = chunks]
        BY <2>2, <3>3, <3>4, LocalTyped, Hears
      <3>6. /\ attempt'.id = attempt.id /\ attempt'.sent = attempt.sent /\ attempt'.words = chunks
            /\ attempt'.owed = attempt.owed /\ attempt'.phase = attempt.phase /\ Current' = Current
        BY <3>5, LocalTyped DEF Attempts, Current
      <3>7. LocalTypes'
        BY <1>1, <1>5, <1>9, <3>5, LocalTyped DEF LocalTypes
      <3>8. LocalFrame'
        BY <1>1, <1>4, <1>5, <1>9, <3>6 DEF LocalFrame
      <3>9. LocalHears'
        BY <1>1, <1>5, <1>9, <2>0, <3>1, <3>3, <3>6 DEF LocalHears, Begun
      <3>10. (LocalWorks' = LocalWorks) /\ (LocalWaits' = LocalWaits) /\ (Begun' = Begun)
        BY <1>1, <1>9, <3>6 DEF LocalWorks, LocalWaits, Begun
      <3>11. Unended(reports', shared.live) = Unended(reports, shared.live)
        BY <1>5, <2>0
      <3> QED  BY <1>9, <3>1, <3>5, <3>6, <3>7, <3>8, <3>9, <3>10, <3>11 DEF LocalStep, LocalKeeps
    <2> QED  BY <2>1, <2>2
  <1>10. CASE /\ h.type = "end" /\ h.id = shared.live /\ shared' = Local!startIdleTimer
              /\ attempt' = Ended(Accounted(attempt, attempt.words \cup h.words), h.end)
    <2>1. Promised /\ attempt' \in Attempts /\ ~Current' /\ attempt'.id = attempt.id
      <3>1. CASE ~Current
        <4>1. attempt' = attempt
          BY <1>10, <3>1 DEF Accounted, Ended
        <4> QED  BY <3>1, <4>1, LocalTyped, LocalUntold
      <3>2. CASE Current
        <4>1. LocalHears
          BY <3>2 DEF LocalKeeps
        <4>2. h.words \subseteq 1..attempt.sent /\ attempt.words \subseteq 1..attempt.sent
              /\ (h.end = "completed" => attempt.phase = "told" /\ h.words = 1..attempt.sent)
          BY <1>5, <1>10, <4>1 DEF LocalHears, Fits, EndOf
        <4>3. PICK chunks \in SUBSET (1..attempt.sent) : chunks = attempt.words \cup h.words /\ attempt.words \subseteq chunks
          BY <4>2
        <4>4. attempt' = Ended(Accounted(attempt, chunks), h.end)
          BY <1>10, <4>3
        <4>5. attempt' = [attempt EXCEPT !.words = chunks, !.phase = h.end] /\ attempt'.id = attempt.id
          BY <3>2, <4>4, LocalTyped DEF Accounted, Ended, Attempts
        <4>6. CASE h.end = "completed"
          <5>1. attempt.owed \subseteq chunks
            BY <4>1, <4>2, <4>3, <4>6 DEF LocalHears
          <5> QED  BY <3>2, <4>3, <4>4, <4>5, <4>6, <5>1, LocalTyped, Completes
        <4>7. CASE h.end = "failed"
          <5>1. Fail
            BY <3>2, <4>3, <4>4, <4>7 DEF Fail
          <5>2. chunks \in SUBSET Nat
            BY <4>3
          <5>3. attempt' \in Attempts /\ ~Current'
            BY <4>5, <4>7, <5>2, LocalTyped DEF Attempts, Phases, Current
          <5> QED  BY <4>5, <5>1, <5>3 DEF Promised, ContractNext
        <4>8. h.end \in {"completed", "failed"}
          BY <1>5, <1>10 DEF LocalReports
        <4> QED  BY <4>6, <4>7, <4>8
      <3> QED  BY <3>1, <3>2
    <2>2. LocalTypes'
      BY <1>1, <1>5, <1>6, <1>10, <2>1, LocalTyped DEF LocalTypes
    <2>3. (shared'.live # 0) = Current'
      <3>1. Current' = FALSE
        BY <2>1 DEF Current
      <3> QED  BY <1>6, <1>10, <3>1
    <2>4. LocalFrame'
      BY <1>1, <1>4, <1>5, <1>6, <1>10, <2>1, <2>3 DEF LocalFrame
    <2> QED  BY <2>1, <2>2, <2>4, LocalOver
  <1> QED  BY <1>3, <1>7, <1>8, <1>9, <1>10 DEF EndOf

LEMMA LocalGoesOn ==
    ASSUME attempt' = attempt, LocalTypes', LocalFrame', Current => LocalHears',
           Current /\ Unended(reports', shared'.live) => (Begun' => LocalWorks') /\ (~Begun' => LocalWaits')
    PROVE  LocalStep
  BY LocalUntold DEF LocalStep, LocalKeeps

\* What the invariant gives of the attempt that is live.
LEMMA LocalGives ==
    ASSUME LocalKeeps
    PROVE  /\ LocalFrame /\ (Current => LocalHears)
           /\ (Current /\ Unended(reports, shared.live) /\ Begun => LocalWorks)
           /\ (Current /\ Unended(reports, shared.live) /\ ~Begun => LocalWaits)
           /\ (Current => shared.live # 0) /\ (shared.live # 0 => Current)
           /\ (worker.at \notin {"taken", "feeding"} => worker.taken = << >>)
  BY DEF LocalKeeps, LocalFrame

LEMMA LocalTakesJob ==
    ASSUME LocalKeeps, NEW type, Local!TakeJob(type), NEW h, h = Head(jobs), NEW q, q = jobs'
    PROVE  /\ q \in Seq(LocalJobs) /\ h \in LocalJobs /\ h.type = type
           /\ Numbered(q, attempt.id) /\ (h.type \in {"begin", "finish"} => h.id \in 1..attempt.id)
           /\ (HasFeed(jobs) /\ type # "feed" => HasFeed(q))
           /\ (Comes(jobs, shared.live) => ~Shuts(h, shared.live))
           /\ (Comes(jobs, shared.live) /\ ~Opens(h, shared.live) => Comes(q, shared.live))
           /\ (Comes(jobs, shared.live) /\ Opens(h, shared.live) => Came(q, shared.live))
           /\ (Came(jobs, shared.live) => Came(q, shared.live) /\ type # "test" /\ ~Opens(h, shared.live))
           /\ (FeedsFirst(jobs, shared.live) => ~Shuts(h, shared.live))
           /\ (FeedsFirst(jobs, shared.live) /\ type # "feed" => FeedsFirst(q, shared.live))
           /\ ((\E i \in DOMAIN q : Shuts(q[i], shared.live)) => \E j \in DOMAIN jobs : Shuts(jobs[j], shared.live))
           /\ (Shuts(h, shared.live) => \E j \in DOMAIN jobs : Shuts(jobs[j], shared.live))
           /\ worker.at = "idle" /\ worker.taken = << >>
  <1>1. worker.at = "idle" /\ jobs # << >> /\ h.type = type /\ q = Tail(jobs)
    BY DEF Local!TakeJob
  <1>2. Numbered(jobs, attempt.id) /\ worker.taken = << >>
    BY <1>1, LocalGives DEF LocalFrame
  <1>3. PICK p \in Seq(LocalJobs), id \in Nat, last \in Nat : p = jobs /\ id = shared.live /\ last = attempt.id
    BY LocalTyped
  <1>4. p # << >> /\ q = Tail(p) /\ h = Head(p)
    BY <1>1, <1>3
  <1>5. /\ q \in Seq(LocalJobs) /\ h \in LocalJobs
        /\ Numbered(p, last) => Numbered(q, last) /\ (h.type \in {"begin", "finish"} => h.id \in 1..last)
        /\ HasFeed(p) /\ h.type # "feed" => HasFeed(q)
        /\ Comes(p, id) => ~Shuts(h, id)
        /\ Comes(p, id) /\ ~Opens(h, id) => Comes(q, id)
        /\ Comes(p, id) /\ Opens(h, id) => Came(q, id)
        /\ Came(p, id) => Came(q, id) /\ h.type # "test" /\ ~Opens(h, id)
        /\ FeedsFirst(p, id) => ~Shuts(h, id)
        /\ FeedsFirst(p, id) /\ h.type # "feed" => FeedsFirst(q, id)
        /\ (\E i \in DOMAIN q : Shuts(q[i], id)) \/ Shuts(h, id) => \E j \in DOMAIN p : Shuts(p[j], id)
    BY <1>4, JobGoes
  <1> QED  BY <1>1, <1>2, <1>3, <1>5

LEMMA LocalReportsOne ==
    ASSUME LocalKeeps, NEW e \in LocalReports, NEW q, q = Append(reports, e), e.type \in {"text", "end"} => e.id <= attempt.id
    PROVE  /\ q \in Seq(LocalReports) /\ Reported(q, attempt.id)
           /\ (EndOf(e, shared.live) => ~Unended(q, shared.live))
           /\ (~EndOf(e, shared.live) => Unended(q, shared.live) = Unended(reports, shared.live))
           /\ (Current /\ Fits(e, shared.live, attempt.sent, attempt.phase = "told", Unended(reports, shared.live))
                 => Whole(q, shared.live, attempt.sent, attempt.phase = "told"))
  <1>1. Reported(reports, attempt.id) /\ (Current => Whole(reports, shared.live, attempt.sent, attempt.phase = "told"))
    BY LocalGives DEF LocalFrame, LocalHears
  <1>2. PICK p \in Seq(LocalReports), id \in Nat, last \in Nat, sent \in Nat, told \in BOOLEAN :
               p = reports /\ id = shared.live /\ last = attempt.id /\ sent = attempt.sent /\ told = (attempt.phase = "told")
    BY LocalTyped
  <1>3. q = Append(p, e)
    BY <1>2
  <1>4. /\ q \in Seq(LocalReports)
        /\ Reported(p, last) /\ (e.type \in {"text", "end"} => e.id <= last) => Reported(q, last)
        /\ Unended(q, id) = (Unended(p, id) /\ ~EndOf(e, id))
        /\ Whole(p, id, sent, told) /\ Fits(e, id, sent, told, Unended(p, id)) => Whole(q, id, sent, told)
    BY <1>3, ReportComes
  <1>5. Unended(p, id) \in BOOLEAN /\ EndOf(e, id) \in BOOLEAN
    BY DEF Unended, EndOf
  <1> QED  BY <1>1, <1>2, <1>4, <1>5

LEMMA LocalBegins ==
    ASSUME ChunksBounded, LocalKeeps, Local!Begin
    PROVE  LocalStep
  <1> DEFINE h == Head(jobs)
             q == jobs'
  <1>1. /\ Local!TakeJob("begin") /\ attempt' = attempt /\ shared' = shared /\ reports' = reports
        /\ IF h.id # shared.live THEN worker' = worker /\ engine' = engine
           ELSE /\ worker' = [attempt |-> h.id, failed |-> FALSE, at |-> "load", model |-> h.model, taken |-> << >>]
                /\ engine' = [engine EXCEPT !.heard = << >>]
    BY DEF Local!Begin
  <1>2. /\ jobs' \in Seq(LocalJobs) /\ h \in LocalJobs /\ h.type = "begin"
        /\ Numbered(jobs', attempt.id) /\ (h.type \in {"begin", "finish"} => h.id \in 1..attempt.id)
        /\ (HasFeed(jobs) => HasFeed(jobs'))
        /\ (Comes(jobs, shared.live) /\ ~Opens(h, shared.live) => Comes(jobs', shared.live))
        /\ (Comes(jobs, shared.live) /\ Opens(h, shared.live) => Came(jobs', shared.live))
        /\ (Came(jobs, shared.live) => Came(jobs', shared.live) /\ ~Opens(h, shared.live))
        /\ (FeedsFirst(jobs, shared.live) => FeedsFirst(jobs', shared.live))
        /\ ((\E i \in DOMAIN jobs' : Shuts(jobs'[i], shared.live)) => \E j \in DOMAIN jobs : Shuts(jobs[j], shared.live))
        /\ worker.at = "idle" /\ worker.taken = << >>
    BY <1>1, LocalTakesJob
  <1> HIDE DEF h
  <1>3. Opens(h, shared.live) = (h.id = shared.live) /\ Current' = Current
    BY <1>1, <1>2, LocalUntold DEF Opens
  <1>4. CASE h.id # shared.live
    <2>1. LocalTypes'
      BY <1>1, <1>2, <1>4, LocalTyped DEF LocalTypes
    <2>2. LocalFrame'
      BY <1>1, <1>2, <1>3, <1>4, LocalGives DEF LocalFrame
    <2>3. Current => LocalHears'
      <3>1. Current => LocalHears
        BY LocalGives
      <3> QED  BY <1>1, <1>2, <1>4, <3>1 DEF LocalHears, Begun
    <2>4. ASSUME Current, Unended(reports, shared.live)
          PROVE  (Begun => LocalWorks') /\ (~Begun => LocalWaits')
      <3>1. (Begun => LocalWorks) /\ (~Begun => LocalWaits)
        BY <2>4, LocalGives
      <3>2. Begun => LocalWorks'
        BY <1>1, <1>2, <1>4, <3>1 DEF LocalWorks
      <3>3. ~Begun => LocalWaits'
        BY <1>1, <1>2, <1>3, <1>4, <3>1 DEF LocalWaits
      <3> QED  BY <3>2, <3>3
    <2> QED  BY <1>1, <1>4, <2>1, <2>2, <2>3, <2>4, LocalGoesOn DEF Begun
  <1>5. CASE h.id = shared.live
    <2>1. /\ worker' = [attempt |-> h.id, failed |-> FALSE, at |-> "load", model |-> h.model, taken |-> << >>]
          /\ engine' = [engine EXCEPT !.heard = << >>]
      BY <1>1, <1>5
    <2>2. h.id \in Nat /\ h.model \in LocalModels /\ h.id <= attempt.id /\ h.id # 0
      <3>1. h.model \in Models /\ h.id \in Nat
        BY <1>2 DEF LocalJobs
      <3>2. h.id \in 1..attempt.id
        BY <1>2
      <3> QED  BY <3>1, <3>2, LocalTyped DEF LocalModels
    <2>3. /\ engine' \in [model : LocalModels, heard : Seq(Nat)] /\ engine'.heard = << >>
          /\ worker' \in [attempt : Nat, failed : BOOLEAN, model : LocalModels, taken : Seq(Nat),
                          at : {"idle", "load", "take", "taken", "feeding", "finish", "test"}]
      <3>1. << >> \in Seq(Nat)
        OBVIOUS
      <3> QED  BY <2>1, <2>2, <3>1, LocalTyped
    <2>4. LocalTypes'
      BY <1>1, <1>2, <2>3, LocalTyped DEF LocalTypes
    <2>5. LocalFrame'
      BY <1>1, <1>2, <1>3, <2>1, <2>2, LocalGives DEF LocalFrame
    <2>6. Current => LocalHears'
      <3>1. Current => LocalHears
        BY LocalGives
      <3>2. Items(<< >>) = {}
        BY DEF Items
      <3>3. Items(engine'.heard) \cup Items(worker'.taken) = {}
        <4>1. worker'.taken = << >>
          BY <2>1
        <4> QED  BY <2>3, <3>2, <4>1
      <3> QED  BY <1>1, <1>2, <3>1, <3>3 DEF LocalHears
    <2>7. ASSUME Current, Unended(reports, shared.live)
          PROVE  LocalWorks' /\ Begun'
      <3>1. LocalWaits
        BY <1>2, <1>3, <1>5, <2>7, LocalGives DEF LocalWorks
      <3>2. (engine'.heard \o worker'.taken) \o shared'.pending = UpTo(attempt'.sent)
        <4>1. << >> \o << >> = << >> /\ << >> \o shared.pending = shared.pending
          BY LocalTyped, ConcatEmptySeq
        <4>2. engine'.heard = << >> /\ worker'.taken = << >> /\ shared'.pending = shared.pending
          BY <1>1, <2>1, <2>3
        <4> QED  BY <1>1, <3>1, <4>1, <4>2 DEF LocalWaits
      <3>3. Came(jobs', shared'.live)
        BY <1>1, <1>2, <1>3, <1>5, <3>1 DEF LocalWaits
      <3> QED  BY <1>1, <1>5, <2>1, <3>2, <3>3 DEF LocalWorks, Begun
    <2> QED  BY <1>1, <2>4, <2>5, <2>6, <2>7, LocalGoesOn
  <1> QED  BY <1>4, <1>5

\* An attempt that fails with the worker is told of, once it was begun.
LEMMA LocalFailsAttempt ==
    ASSUME ChunksBounded, LocalKeeps, Local!failAttempt, attempt' = attempt, shared' = shared, jobs' = jobs,
           engine' \in [model : LocalModels, heard : Seq(Nat)], Items(engine'.heard) \subseteq Items(engine.heard)
    PROVE  LocalStep
  <1> DEFINE e == Local!End(worker.attempt, "failed", {})
  <1>1. /\ reports' = Append(reports, e)
        /\ worker' = [worker EXCEPT !.failed = TRUE, !.at = "idle", !.taken = << >>]
    BY DEF Local!failAttempt
  <1>2. e \in LocalReports /\ e.type = "end" /\ e.end = "failed" /\ e.words = {} /\ e.id = worker.attempt
    BY LocalTyped DEF Local!End, LocalReports
  <1> HIDE DEF e
  <1>3. /\ worker' \in [attempt : Nat, failed : BOOLEAN, model : LocalModels, taken : Seq(Nat),
                        at : {"idle", "load", "take", "taken", "feeding", "finish", "test"}]
        /\ worker'.attempt = worker.attempt /\ worker'.taken = << >> /\ worker'.at = "idle"
    <2>1. << >> \in Seq(Nat)
      OBVIOUS
    <2> QED  BY <1>1, <2>1, LocalTyped
  <1>4. e.id <= attempt.id
    BY <1>2, LocalGives DEF LocalFrame
  <1>5. /\ reports' \in Seq(LocalReports) /\ Reported(reports', attempt.id)
        /\ (EndOf(e, shared.live) => ~Unended(reports', shared.live))
        /\ (~EndOf(e, shared.live) => Unended(reports', shared.live) = Unended(reports, shared.live))
        /\ (Current /\ Fits(e, shared.live, attempt.sent, attempt.phase = "told", Unended(reports, shared.live))
              => Whole(reports', shared.live, attempt.sent, attempt.phase = "told"))
    BY <1>1, <1>2, <1>4, LocalReportsOne
  <1>6. Fits(e, shared.live, attempt.sent, attempt.phase = "told", Unended(reports, shared.live))
        /\ EndOf(e, shared.live) = Begun /\ Begun' = Begun
    BY <1>2, <1>3 DEF Fits, EndOf, Begun
  <1>7. LocalTypes'
    BY <1>3, <1>5, LocalTyped DEF LocalTypes
  <1>8. LocalFrame'
    <2>1. LocalFrame /\ Current' = Current
      BY LocalUntold, LocalGives
    <2> QED  BY <1>3, <1>5, <2>1 DEF LocalFrame
  <1>9. Current => LocalHears'
    <2>1. Current => LocalHears
      BY LocalGives
    <2>2. Items(worker'.taken) = {}
      <3>1. Items(<< >>) = {}
        BY DEF Items
      <3> QED  BY <1>3, <3>1
    <2> QED  BY <1>5, <1>6, <2>1, <2>2 DEF LocalHears
  <1>10. ASSUME Current, Unended(reports', shared.live)
         PROVE  ~Begun' /\ LocalWaits'
    <2>1. ~Begun /\ LocalWaits
      BY <1>5, <1>6, <1>10, LocalGives
    <2> QED  BY <1>6, <2>1 DEF LocalWaits
  <1> QED  BY <1>7, <1>8, <1>9, <1>10, LocalGoesOn

LEMMA LocalLoads ==
    ASSUME ChunksBounded, LocalKeeps, Local!Load
    PROVE  LocalStep
  <1>1. worker.at = "load" /\ attempt' = attempt /\ shared' = shared /\ jobs' = jobs /\ worker.taken = << >>
    BY LocalGives DEF Local!Load
  <1>2. CASE /\ engine' = [engine EXCEPT !.model = worker.model] /\ worker' = [worker EXCEPT !.at = "take"]
             /\ reports' = reports
    <2>1. /\ worker' \in Workers /\ worker'.attempt = worker.attempt /\ worker'.failed = worker.failed
          /\ worker'.taken = << >> /\ worker'.at = "take" /\ worker'.model = worker.model
          /\ engine' \in Engines /\ engine'.heard = engine.heard /\ engine'.model = worker.model
      BY <1>1, <1>2, LocalTyped DEF Workers, Engines
    <2>2. LocalTypes'
      BY <1>1, <1>2, <2>1, LocalTyped DEF LocalTypes, Workers, Engines
    <2>3. LocalFrame'
      <3>1. LocalFrame /\ Current' = Current
        BY <1>1, LocalUntold, LocalGives
      <3> QED  BY <1>1, <1>2, <2>1, <3>1 DEF LocalFrame
    <2>4. Current => LocalHears'
      <3>1. Current => LocalHears
        BY LocalGives
      <3> QED  BY <1>1, <1>2, <2>1, <3>1 DEF LocalHears, Begun
    <2>5. ASSUME Current, Unended(reports, shared.live)
          PROVE  (Begun => LocalWorks') /\ (~Begun => LocalWaits')
      <3>1. (Begun => LocalWorks) /\ (~Begun => LocalWaits)
        BY <2>5, LocalGives
      <3> QED  BY <1>1, <2>1, <3>1 DEF LocalWorks, LocalWaits
    <2> QED  BY <1>1, <1>2, <2>1, <2>2, <2>3, <2>4, <2>5, LocalGoesOn DEF Begun
  <1>3. CASE /\ \E model \in {Local!Unloaded, worker.model} : engine' = [engine EXCEPT !.model = model]
             /\ Local!failAttempt
    <2>1. engine' \in [model : LocalModels, heard : Seq(Nat)] /\ engine'.heard = engine.heard
      BY <1>3, LocalTyped DEF Local!Unloaded, LocalModels
    <2> QED  BY <1>1, <1>3, <2>1, LocalFailsAttempt
  <1> QED  BY <1>2, <1>3 DEF Local!Load

\* What waits goes to the attempt that is live, if the worker has begun it.
LEMMA LocalTakesPending ==
    ASSUME ChunksBounded, LocalKeeps, Local!FeedPending
    PROVE  LocalStep
  <1>1. attempt' = attempt /\ engine' = engine /\ reports' = reports /\ Local!takePending
    BY DEF Local!FeedPending
  <1>2. /\ jobs' \in Seq(LocalJobs) /\ Numbered(jobs', attempt.id)
        /\ (Comes(jobs, shared.live) => Comes(jobs', shared.live))
        /\ (Came(jobs, shared.live) => Came(jobs', shared.live))
        /\ ((\E i \in DOMAIN jobs' : Shuts(jobs'[i], shared.live)) => \E j \in DOMAIN jobs : Shuts(jobs[j], shared.live))
        /\ worker.at \in {"idle", "take"} /\ worker.taken = << >>
    <2>1. CASE Local!TakeJob("feed")
      <3> DEFINE h == Head(jobs)
      <3>1. h = Head(jobs)
        OBVIOUS
      <3> HIDE DEF h
      <3>2. /\ jobs' \in Seq(LocalJobs) /\ Numbered(jobs', attempt.id) /\ h.type = "feed"
            /\ (Comes(jobs, shared.live) /\ ~Opens(h, shared.live) => Comes(jobs', shared.live))
            /\ (Came(jobs, shared.live) => Came(jobs', shared.live) /\ ~Opens(h, shared.live))
            /\ ((\E i \in DOMAIN jobs' : Shuts(jobs'[i], shared.live)) => \E j \in DOMAIN jobs : Shuts(jobs[j], shared.live))
            /\ worker.at = "idle" /\ worker.taken = << >>
        BY <2>1, <3>1, LocalTakesJob
      <3> QED  BY <3>2 DEF Opens
    <2>2. CASE worker.at = "take" /\ jobs' = jobs
      BY <2>2, LocalTyped, LocalGives DEF LocalFrame
    <2> QED  BY <2>1, <2>2 DEF Local!FeedPending
  <1>3. << >> \in Seq(Nat) /\ Items(<< >>) = {}
    BY DEF Items
  <1>4. CASE shared.live # worker.attempt
    <2>1. worker' = [worker EXCEPT !.at = "idle"] /\ shared' = [shared EXCEPT !.feedQueued = FALSE]
      BY <1>1, <1>4 DEF Local!takePending
    <2>2. /\ worker' \in Workers /\ worker'.attempt = worker.attempt /\ worker'.taken = << >> /\ worker'.at = "idle"
          /\ shared' \in [live : Nat, pending : Seq(Nat), feedQueued : BOOLEAN, idle : BOOLEAN]
          /\ shared'.live = shared.live /\ shared'.pending = shared.pending /\ shared'.feedQueued = FALSE
      BY <1>2, <2>1, LocalTyped DEF Workers
    <2>3. LocalTypes'
      BY <1>1, <1>2, <2>2, LocalTyped DEF LocalTypes, Workers
    <2>4. LocalFrame'
      <3>1. LocalFrame /\ Current' = Current
        BY <1>1, LocalUntold, LocalGives
      <3> QED  BY <1>1, <1>2, <2>2, <3>1 DEF LocalFrame
    <2>5. Current => LocalHears'
      <3>1. Current => LocalHears
        BY LocalGives
      <3> QED  BY <1>1, <1>2, <1>4, <2>2, <3>1 DEF LocalHears, Begun
    <2>6. ASSUME Current, Unended(reports, shared.live)
          PROVE  LocalWaits'
      <3>1. LocalWaits
        BY <1>4, <2>6, LocalGives DEF Begun
      <3> QED  BY <1>1, <1>2, <2>2, <3>1 DEF LocalWaits
    <2> QED  BY <1>1, <1>4, <2>2, <2>3, <2>4, <2>5, <2>6, LocalGoesOn DEF Begun
  <1>5. CASE shared.live = worker.attempt
    <2>1. /\ worker' = [worker EXCEPT !.at = "taken", !.taken = shared.pending]
          /\ shared' = [shared EXCEPT !.feedQueued = FALSE, !.pending = << >>]
      BY <1>1, <1>5 DEF Local!takePending
    <2>2. /\ worker' \in Workers /\ worker'.attempt = worker.attempt /\ worker'.taken = shared.pending
          /\ worker'.at = "taken" /\ worker'.failed = worker.failed /\ worker'.model = worker.model
          /\ shared' \in [live : Nat, pending : Seq(Nat), feedQueued : BOOLEAN, idle : BOOLEAN]
          /\ shared'.live = shared.live /\ shared'.pending = << >> /\ shared'.feedQueued = FALSE
      BY <1>2, <1>3, <2>1, LocalTyped DEF Workers
    <2>3. LocalTypes'
      BY <1>1, <1>2, <2>2, LocalTyped DEF LocalTypes, Workers
    <2>4. LocalFrame'
      <3>1. LocalFrame /\ Current' = Current
        BY <1>1, LocalUntold, LocalGives
      <3> QED  BY <1>1, <1>2, <2>2, <3>1 DEF LocalFrame
    <2>5. Current => LocalHears'
      <3>1. Current => LocalHears
        BY LocalGives
      <3>2. Items(shared'.pending) = {} /\ Items(worker'.taken) = Items(shared.pending)
        BY <1>3, <2>2
      <3> QED  BY <1>1, <1>2, <1>5, <2>2, <3>1, <3>2 DEF LocalHears, Begun
    <2>6. ASSUME Current, Unended(reports, shared.live)
          PROVE  LocalWorks'
      <3>1. LocalWorks
        BY <1>5, <2>6, LocalGives DEF Begun
      <3>2. (engine.heard \o shared.pending) \o << >> = UpTo(attempt.sent)
        <4>1. engine.heard \o worker.taken = engine.heard
          BY <1>2, LocalTyped, ConcatEmptySeq
        <4>2. engine.heard \o shared.pending \in Seq(Nat)
          BY LocalTyped, ConcatProperties
        <4>3. engine.heard \o shared.pending = UpTo(attempt.sent)
          BY <3>1, <4>1 DEF LocalWorks
        <4> QED  BY <4>2, <4>3, ConcatEmptySeq
      <3> QED  BY <1>1, <1>2, <2>2, <3>1, <3>2 DEF LocalWorks
    <2> QED  BY <1>1, <1>5, <2>2, <2>3, <2>4, <2>5, <2>6, LocalGoesOn DEF Begun
  <1> QED  BY <1>4, <1>5

\* The engine hears what the worker took, or the worker takes it on to the next step.
LEMMA LocalHearsTaken ==
    ASSUME LocalKeeps, attempt' = attempt, shared' = shared, jobs' = jobs,
           worker' \in Workers, engine' \in Engines, worker'.attempt = worker.attempt, worker'.failed = worker.failed,
           worker'.model = worker.model, engine'.model = engine.model, worker'.at \in {"idle", "feeding"},
           worker.at \in {"taken", "feeding"}, worker'.taken # << >> => worker'.at = "feeding",
           \/ ~Begun /\ Items(engine'.heard) \cup Items(worker'.taken) \subseteq Items(engine.heard) \cup Items(worker.taken)
           \/ worker.failed = TRUE /\ Items(engine'.heard) \cup Items(worker'.taken) \subseteq Items(engine.heard) \cup Items(worker.taken)
           \/ engine'.heard \o worker'.taken = engine.heard \o worker.taken,
           reports' \in Seq(LocalReports), Reported(reports', attempt.id),
           Unended(reports', shared.live) = Unended(reports, shared.live),
           Current => Whole(reports', shared.live, attempt.sent, attempt.phase = "told")
    PROVE  LocalStep
  <1>1. LocalTypes'
    BY LocalTyped DEF LocalTypes, Workers, Engines
  <1>2. LocalFrame'
    <2>1. LocalFrame /\ Current' = Current
      BY LocalUntold, LocalGives
    <2> QED  BY <2>1 DEF LocalFrame
  <1>3. Items(engine'.heard) \cup Items(worker'.taken) \subseteq Items(engine.heard) \cup Items(worker.taken)
    <2>1. CASE engine'.heard \o worker'.taken = engine.heard \o worker.taken
      <3>1. engine'.heard \in Seq(Nat) /\ worker'.taken \in Seq(Nat)
        BY DEF Engines, Workers
      <3>2. /\ Items(engine'.heard \o worker'.taken) = Items(engine'.heard) \cup Items(worker'.taken)
            /\ Items(engine.heard \o worker.taken) = Items(engine.heard) \cup Items(worker.taken)
        BY <3>1, LocalTyped, ItemsOf
      <3> QED  BY <2>1, <3>2
    <2> QED  BY <2>1
  <1>4. Current => LocalHears'
    <2>1. Current => LocalHears
      BY LocalGives
    <2> QED  BY <1>3, <2>1 DEF LocalHears, Begun
  <1>5. ASSUME Current, Unended(reports, shared.live)
        PROVE  (Begun => LocalWorks') /\ (~Begun => LocalWaits')
    <2>1. (Begun => LocalWorks) /\ (~Begun => LocalWaits)
      BY <1>5, LocalGives
    <2>2. ~Begun => LocalWaits'
      BY <2>1 DEF LocalWaits
    <2>3. ASSUME Begun
          PROVE  LocalWorks'
      <3>1. LocalWorks /\ worker.failed = FALSE
        BY <2>1, <2>3 DEF LocalWorks
      <3>2. engine'.heard \o worker'.taken = engine.heard \o worker.taken
        BY <2>3, <3>1
      <3> QED  BY <3>1, <3>2 DEF LocalWorks
    <2> QED  BY <2>2, <2>3
  <1> QED  BY <1>1, <1>2, <1>4, <1>5, LocalGoesOn DEF Begun

LEMMA LocalFeeds ==
    ASSUME ChunksBounded, LocalKeeps, Local!Feed
    PROVE  LocalStep
  <1>1. /\ worker.at = "taken" /\ attempt' = attempt /\ shared' = shared /\ jobs' = jobs /\ reports' = reports
    BY DEF Local!Feed
  <1>2. /\ reports' \in Seq(LocalReports) /\ Reported(reports', attempt.id)
        /\ Unended(reports', shared.live) = Unended(reports, shared.live)
        /\ (Current => Whole(reports', shared.live, attempt.sent, attempt.phase = "told"))
    BY <1>1, LocalTyped, LocalGives DEF LocalFrame, LocalHears
  <1>3. << >> \in Seq(Nat) /\ Items(<< >>) = {}
    BY DEF Items
  <1>4. CASE /\ worker.taken = << >> \/ ~Local!Running
             /\ worker' = [worker EXCEPT !.at = "idle", !.taken = << >>]
             /\ engine' = engine
    <2>1. /\ worker' \in Workers /\ worker'.attempt = worker.attempt /\ worker'.failed = worker.failed
          /\ worker'.model = worker.model /\ worker'.at = "idle" /\ worker'.taken = << >>
          /\ engine' \in Engines /\ engine'.model = engine.model /\ engine'.heard = engine.heard
      BY <1>3, <1>4, LocalTyped DEF Workers, Engines
    <2>2. Items(engine'.heard) \cup Items(worker'.taken) \subseteq Items(engine.heard) \cup Items(worker.taken)
      <3>1. Items(worker'.taken) = {}
        BY <1>3, <2>1
      <3> QED  BY <2>1, <3>1
    <2>3. CASE worker.taken = << >>
      <3>1. engine'.heard \o worker'.taken = engine.heard \o worker.taken
        BY <2>1, <2>3
      <3> QED  BY <1>1, <1>2, <2>1, <3>1, LocalHearsTaken
    <2>4. CASE ~Local!Running
      <3>1. ~Begun \/ worker.failed = TRUE
        BY <2>4, LocalTyped DEF Local!Running, Begun
      <3> QED  BY <1>1, <1>2, <2>1, <2>2, <3>1, LocalHearsTaken
    <2> QED  BY <1>4, <2>3, <2>4
  <1>5. CASE /\ worker' = [worker EXCEPT !.at = "idle", !.taken = << >>]
             /\ engine' = [engine EXCEPT !.heard = @ \o worker.taken]
    <2>1. engine.heard \o worker.taken \in Seq(Nat)
      BY LocalTyped, ConcatProperties
    <2>2. engine' = [engine EXCEPT !.heard = engine.heard \o worker.taken]
      BY <1>5, LocalTyped
    <2>3. /\ worker' \in Workers /\ worker'.attempt = worker.attempt /\ worker'.failed = worker.failed
          /\ worker'.model = worker.model /\ worker'.at = "idle" /\ worker'.taken = << >>
          /\ engine' \in Engines /\ engine'.model = engine.model /\ engine'.heard = engine.heard \o worker.taken
      BY <1>3, <1>5, <2>1, <2>2, LocalTyped DEF Workers, Engines
    <2>4. engine'.heard \o worker'.taken = engine.heard \o worker.taken
      BY <2>1, <2>3, ConcatEmptySeq
    <2> QED  BY <1>1, <1>2, <2>3, <2>4, LocalHearsTaken
  <1>6. CASE worker' = [worker EXCEPT !.at = "feeding"] /\ engine' = engine
    <2>1. /\ worker' \in Workers /\ worker'.attempt = worker.attempt /\ worker'.failed = worker.failed
          /\ worker'.model = worker.model /\ worker'.at = "feeding" /\ worker'.taken = worker.taken
          /\ engine' \in Engines /\ engine'.model = engine.model /\ engine'.heard = engine.heard
      BY <1>6, LocalTyped DEF Workers, Engines
    <2>2. engine'.heard \o worker'.taken = engine.heard \o worker.taken
      BY <2>1
    <2> QED  BY <1>1, <1>2, <2>1, <2>2, LocalHearsTaken
  <1> QED  BY <1>4, <1>5, <1>6 DEF Local!Feed

LEMMA LocalFed ==
    ASSUME ChunksBounded, LocalKeeps, Local!Fed
    PROVE  LocalStep
  <1>1. worker.at = "feeding" /\ attempt' = attempt /\ shared' = shared /\ jobs' = jobs
    BY DEF Local!Fed
  <1>2. /\ reports \in Seq(LocalReports) /\ Reported(reports, attempt.id)
        /\ (Current => Whole(reports, shared.live, attempt.sent, attempt.phase = "told"))
    BY LocalTyped, LocalGives DEF LocalFrame, LocalHears
  <1>3. << >> \in Seq(Nat) /\ Items(<< >>) = {}
    BY DEF Items
  <1>4. CASE /\ engine' = [engine EXCEPT !.heard = @ \o worker.taken]
             /\ worker' = [worker EXCEPT !.at = "idle", !.taken = << >>]
             /\ \E n \in {0, Len(engine.heard)} :
                   reports' = IF n = 0 THEN reports
                              ELSE Append(reports, [type |-> "text", id |-> worker.attempt,
                                                    words |-> Local!Range(SubSeq(engine.heard, 1, n))])
    <2>1. engine.heard \o worker.taken \in Seq(Nat)
      BY LocalTyped, ConcatProperties
    <2>2. engine' = [engine EXCEPT !.heard = engine.heard \o worker.taken]
      BY <1>4, LocalTyped
    <2>3. /\ worker' \in Workers /\ worker'.attempt = worker.attempt /\ worker'.failed = worker.failed
          /\ worker'.model = worker.model /\ worker'.at = "idle" /\ worker'.taken = << >>
          /\ engine' \in Engines /\ engine'.model = engine.model /\ engine'.heard = engine.heard \o worker.taken
      BY <1>3, <1>4, <2>1, <2>2, LocalTyped DEF Workers, Engines
    <2>4. engine'.heard \o worker'.taken = engine.heard \o worker.taken
      BY <2>1, <2>3, ConcatEmptySeq
    <2>5. CASE reports' = reports
      BY <1>1, <1>2, <2>3, <2>4, <2>5, LocalHearsTaken
    <2>6. CASE reports' = Append(reports, [type |-> "text", id |-> worker.attempt,
                                           words |-> Local!Range(SubSeq(engine.heard, 1, Len(engine.heard)))])
      <3>1. SubSeq(engine.heard, 1, Len(engine.heard)) = engine.heard
        BY LocalTyped
      <3>2. Local!Range(SubSeq(engine.heard, 1, Len(engine.heard))) = Items(engine.heard)
        BY <3>1 DEF Local!Range, Items
      <3> DEFINE e == [type |-> "text", id |-> worker.attempt, words |-> Items(engine.heard)]
      <3>3. reports' = Append(reports, e)
        BY <2>6, <3>2
      <3>4. Items(engine.heard) \in SUBSET Nat
        BY LocalTyped, ItemsOf
      <3>5. e \in LocalReports /\ e.type = "text" /\ e.id = worker.attempt /\ e.words = Items(engine.heard)
        BY <3>4, LocalTyped DEF LocalReports
      <3> HIDE DEF e
      <3>6. e.id <= attempt.id /\ ~EndOf(e, shared.live)
        BY <3>5, LocalGives DEF LocalFrame, EndOf
      <3>7. Current => Fits(e, shared.live, attempt.sent, attempt.phase = "told", Unended(reports, shared.live))
        <4>1. Current /\ worker.attempt = shared.live => Items(engine.heard) \subseteq 1..attempt.sent
          BY LocalGives DEF LocalHears, Begun
        <4> QED  BY <3>5, <3>6, <4>1 DEF Fits
      <3>8. /\ reports' \in Seq(LocalReports) /\ Reported(reports', attempt.id)
            /\ (~EndOf(e, shared.live) => Unended(reports', shared.live) = Unended(reports, shared.live))
            /\ (Current /\ Fits(e, shared.live, attempt.sent, attempt.phase = "told", Unended(reports, shared.live))
                  => Whole(reports', shared.live, attempt.sent, attempt.phase = "told"))
        BY <3>3, <3>5, <3>6, LocalReportsOne
      <3> QED  BY <1>1, <2>3, <2>4, <3>6, <3>7, <3>8, LocalHearsTaken
    <2> QED  BY <1>4, <2>5, <2>6
  <1>5. CASE Local!failAttempt /\ engine' = engine
    BY <1>1, <1>5, LocalTyped, LocalFailsAttempt
  <1>6. CASE Local!Aborts /\ engine' = engine /\ reports' = reports
    <2>1. ~Begun /\ worker' = [worker EXCEPT !.at = "idle", !.taken = << >>]
      BY <1>6 DEF Local!Aborts, Begun
    <2>2. /\ worker' \in Workers /\ worker'.attempt = worker.attempt /\ worker'.failed = worker.failed
          /\ worker'.model = worker.model /\ worker'.at = "idle" /\ worker'.taken = << >>
          /\ engine' \in Engines /\ engine'.model = engine.model /\ engine'.heard = engine.heard
      BY <1>3, <1>6, <2>1, LocalTyped DEF Workers, Engines
    <2>3. Items(engine'.heard) \cup Items(worker'.taken) \subseteq Items(engine.heard) \cup Items(worker.taken)
      <3>1. Items(worker'.taken) = {}
        BY <1>3, <2>2
      <3> QED  BY <2>2, <3>1
    <2> QED  BY <1>1, <1>2, <1>6, <2>1, <2>2, <2>3, LocalHearsTaken
  <1> QED  BY <1>4, <1>5, <1>6 DEF Local!Fed

\* The attempt's input ends with nothing left to take.
LEMMA LocalTakesFinish ==
    ASSUME ChunksBounded, LocalKeeps, Local!TakeFinish
    PROVE  LocalStep
  <1> DEFINE h == Head(jobs)
  <1>1. /\ Local!TakeJob("finish") /\ h = Head(jobs) /\ attempt' = attempt /\ shared' = shared /\ engine' = engine
        /\ reports' = reports
        /\ worker' = IF Local!Running /\ h.id = worker.attempt THEN [worker EXCEPT !.at = "finish"] ELSE worker
    BY DEF Local!TakeFinish
  <1> HIDE DEF h
  <1>2. /\ jobs' \in Seq(LocalJobs) /\ h.type = "finish" /\ Numbered(jobs', attempt.id)
        /\ (HasFeed(jobs) => HasFeed(jobs'))
        /\ (Comes(jobs, shared.live) /\ ~Opens(h, shared.live) => Comes(jobs', shared.live))
        /\ (Came(jobs, shared.live) => Came(jobs', shared.live))
        /\ (FeedsFirst(jobs, shared.live) => ~Shuts(h, shared.live))
        /\ (FeedsFirst(jobs, shared.live) => FeedsFirst(jobs', shared.live))
        /\ ((\E i \in DOMAIN jobs' : Shuts(jobs'[i], shared.live)) => \E j \in DOMAIN jobs : Shuts(jobs[j], shared.live))
        /\ (Shuts(h, shared.live) => \E j \in DOMAIN jobs : Shuts(jobs[j], shared.live))
        /\ worker.at = "idle" /\ worker.taken = << >>
    BY <1>1, LocalTakesJob
  <1>3. /\ worker' \in Workers /\ worker'.attempt = worker.attempt /\ worker'.failed = worker.failed
        /\ worker'.model = worker.model /\ worker'.taken = worker.taken /\ worker'.at \in {"idle", "finish"}
        /\ (worker'.at = "finish" => h.id = worker.attempt)
    BY <1>1, <1>2, LocalTyped DEF Workers
  <1>4. LocalTypes'
    BY <1>1, <1>2, <1>3, LocalTyped DEF LocalTypes, Workers
  <1>5. LocalFrame'
    <2>1. LocalFrame /\ Current' = Current
      BY <1>1, LocalUntold, LocalGives
    <2> QED  BY <1>1, <1>2, <1>3, <2>1 DEF LocalFrame
  <1>6. Current => LocalHears'
    <2>1. Current => LocalHears
      BY LocalGives
    <2> QED  BY <1>1, <1>2, <1>3, <2>1 DEF LocalHears, Begun
  <1>7. ASSUME Current, Unended(reports, shared.live)
        PROVE  (Begun => LocalWorks') /\ (~Begun => LocalWaits')
    <2>1. (Begun => LocalWorks) /\ (~Begun => LocalWaits) /\ LocalHears
      BY <1>7, LocalGives
    <2>2. ~Begun => LocalWaits'
      BY <1>1, <1>2, <2>1 DEF LocalWaits, Opens
    <2>3. ASSUME Begun
          PROVE  LocalWorks'
      <3>1. LocalWorks
        BY <2>1, <2>3
      <3>2. worker'.at = "finish" => shared.pending = << >> /\ attempt.phase = "told"
        <4>1. worker'.at = "finish" => Shuts(h, shared.live)
          BY <1>2, <1>3, <2>3 DEF Begun, Shuts
        <4>2. Shuts(h, shared.live) => attempt.phase = "told"
          BY <1>2, <2>1 DEF LocalHears
        <4>3. shared.pending # << >> => FeedsFirst(jobs, shared.live)
          BY <1>2, <3>1 DEF LocalWorks
        <4> QED  BY <1>2, <4>1, <4>2, <4>3
      <3>3. shared.pending # << >> => shared.feedQueued = TRUE /\ FeedsFirst(jobs', shared.live)
        BY <1>2, <3>1 DEF LocalWorks
      <3> QED  BY <1>1, <1>2, <1>3, <3>1, <3>2, <3>3 DEF LocalWorks
    <2> QED  BY <2>2, <2>3
  <1> QED  BY <1>1, <1>3, <1>4, <1>5, <1>6, <1>7, LocalGoesOn DEF Begun

\* The final text is of all that was handed over.
LEMMA LocalCompletes ==
    ASSUME ChunksBounded, LocalKeeps, Local!Finished
    PROVE  LocalStep
  <1>1. /\ worker.at = "finish" /\ attempt' = attempt /\ shared' = shared /\ jobs' = jobs
        /\ engine' = [engine EXCEPT !.heard = << >>] /\ worker.taken = << >>
    BY LocalGives DEF Local!Finished
  <1>2. << >> \in Seq(Nat) /\ Items(<< >>) = {}
    BY DEF Items
  <1>3. engine' \in Engines /\ engine'.heard = << >> /\ engine'.model = engine.model
    BY <1>1, <1>2, LocalTyped DEF Engines
  <1>4. Items(engine'.heard) = {}
    BY <1>2, <1>3
  <1>5. CASE /\ reports' = Append(reports, Local!End(worker.attempt, "completed", Local!Range(engine.heard)))
             /\ worker' = [worker EXCEPT !.at = "idle"]
    <2> DEFINE e == Local!End(worker.attempt, "completed", Local!Range(engine.heard))
    <2>1. Local!Range(engine.heard) = Items(engine.heard) /\ Items(engine.heard) \in SUBSET Nat
      BY LocalTyped, ItemsOf DEF Local!Range, Items
    <2>2. /\ e \in LocalReports /\ e.type = "end" /\ e.end = "completed" /\ e.id = worker.attempt
          /\ e.words = Items(engine.heard) /\ reports' = Append(reports, e)
      BY <1>5, <2>1, LocalTyped DEF Local!End, LocalReports
    <2> HIDE DEF e
    <2>3. e.id <= attempt.id /\ EndOf(e, shared.live) = Begun
      BY <2>2, LocalGives DEF LocalFrame, EndOf, Begun
    <2>4. Current => Fits(e, shared.live, attempt.sent, attempt.phase = "told", Unended(reports, shared.live))
      <3>1. Current /\ Begun => Items(engine.heard) \subseteq 1..attempt.sent
        BY LocalGives DEF LocalHears
      <3>2. ASSUME Current, Begun, Unended(reports, shared.live)
            PROVE  attempt.phase = "told" /\ Items(engine.heard) = 1..attempt.sent
        <4>1. LocalWorks
          BY <3>2, LocalGives
        <4>2. shared.pending = << >> /\ attempt.phase = "told"
          BY <1>1, <4>1 DEF LocalWorks
        <4>3. (engine.heard \o << >>) \o << >> = UpTo(attempt.sent)
          BY <1>1, <4>1, <4>2 DEF LocalWorks
        <4>4. engine.heard \o << >> = engine.heard
          BY LocalTyped, ConcatEmptySeq
        <4>5. engine.heard = UpTo(attempt.sent)
          BY <4>3, <4>4
        <4>6. Items(UpTo(attempt.sent)) = 1..attempt.sent
          BY DEF Items, UpTo
        <4> QED  BY <4>2, <4>5, <4>6
      <3> QED  BY <2>2, <2>3, <3>1, <3>2 DEF Fits, EndOf, Begun
    <2>5. /\ reports' \in Seq(LocalReports) /\ Reported(reports', attempt.id)
          /\ (EndOf(e, shared.live) => ~Unended(reports', shared.live))
          /\ (~EndOf(e, shared.live) => Unended(reports', shared.live) = Unended(reports, shared.live))
          /\ (Current /\ Fits(e, shared.live, attempt.sent, attempt.phase = "told", Unended(reports, shared.live))
                => Whole(reports', shared.live, attempt.sent, attempt.phase = "told"))
      BY <2>2, <2>3, LocalReportsOne
    <2>6. /\ worker' \in Workers /\ worker'.attempt = worker.attempt /\ worker'.taken = << >> /\ worker'.at = "idle"
      BY <1>1, <1>5, LocalTyped DEF Workers
    <2>7. LocalTypes'
      BY <1>1, <1>3, <2>5, <2>6, LocalTyped DEF LocalTypes, Workers, Engines
    <2>8. LocalFrame'
      <3>1. LocalFrame /\ Current' = Current
        BY <1>1, LocalUntold, LocalGives
      <3> QED  BY <1>1, <2>5, <2>6, <3>1 DEF LocalFrame
    <2>9. Current => LocalHears'
      <3>1. Current => LocalHears
        BY LocalGives
      <3>2. Items(worker'.taken) = {}
        BY <1>2, <2>6
      <3> QED  BY <1>1, <1>4, <2>4, <2>5, <2>6, <3>1, <3>2 DEF LocalHears
    <2>10. ASSUME Current, Unended(reports', shared.live)
           PROVE  ~Begun /\ LocalWaits'
      <3>1. ~Begun /\ LocalWaits
        BY <2>3, <2>5, <2>10, LocalGives
      <3> QED  BY <1>1, <3>1 DEF LocalWaits
    <2> QED  BY <1>1, <2>6, <2>7, <2>8, <2>9, <2>10, LocalGoesOn DEF Begun
  <1>6. CASE Local!failAttempt
    BY <1>1, <1>3, <1>4, <1>6, LocalFailsAttempt DEF Engines
  <1>7. CASE Local!Aborts /\ reports' = reports
    <2>1. ~Begun /\ worker' = [worker EXCEPT !.at = "idle", !.taken = << >>]
      BY <1>7 DEF Local!Aborts, Begun
    <2>2. /\ worker' \in Workers /\ worker'.attempt = worker.attempt /\ worker'.taken = << >> /\ worker'.at = "idle"
      BY <1>2, <2>1, LocalTyped DEF Workers
    <2>3. LocalTypes'
      BY <1>1, <1>3, <1>7, <2>2, LocalTyped DEF LocalTypes, Workers, Engines
    <2>4. LocalFrame'
      <3>1. LocalFrame /\ Current' = Current
        BY <1>1, LocalUntold, LocalGives
      <3> QED  BY <1>1, <1>7, <2>2, <3>1 DEF LocalFrame
    <2>5. Current => LocalHears'
      <3>1. Current => LocalHears
        BY LocalGives
      <3> QED  BY <1>1, <1>7, <2>1, <2>2, <3>1 DEF LocalHears, Begun
    <2>6. ASSUME Current, Unended(reports, shared.live)
          PROVE  LocalWaits'
      <3>1. LocalWaits
        BY <2>1, <2>6, LocalGives
      <3> QED  BY <1>1, <3>1 DEF LocalWaits
    <2> QED  BY <1>1, <1>7, <2>1, <2>2, <2>3, <2>4, <2>5, <2>6, LocalGoesOn DEF Begun
  <1> QED  BY <1>5, <1>6, <1>7 DEF Local!Finished

LEMMA LocalUnloads ==
    ASSUME ChunksBounded, LocalKeeps, Local!Unload
    PROVE  LocalStep
  <1> DEFINE h == Head(jobs)
  <1>1. /\ Local!TakeJob("unload") /\ h = Head(jobs) /\ attempt' = attempt /\ shared' = shared /\ worker' = worker
        /\ reports' = reports
        /\ engine' = IF shared.live = 0 THEN [engine EXCEPT !.model = Local!Unloaded] ELSE engine
    BY DEF Local!Unload
  <1> HIDE DEF h
  <1>2. /\ jobs' \in Seq(LocalJobs) /\ h.type = "unload" /\ Numbered(jobs', attempt.id)
        /\ (HasFeed(jobs) => HasFeed(jobs'))
        /\ (Comes(jobs, shared.live) /\ ~Opens(h, shared.live) => Comes(jobs', shared.live))
        /\ (Came(jobs, shared.live) => Came(jobs', shared.live))
        /\ (FeedsFirst(jobs, shared.live) => FeedsFirst(jobs', shared.live))
        /\ ((\E i \in DOMAIN jobs' : Shuts(jobs'[i], shared.live)) => \E j \in DOMAIN jobs : Shuts(jobs[j], shared.live))
    BY <1>1, LocalTakesJob
  <1>3. engine' \in Engines /\ engine'.heard = engine.heard /\ (Current => engine' = engine)
    BY <1>1, LocalTyped, LocalGives DEF Engines, Local!Unloaded, LocalModels
  <1>4. LocalTypes'
    BY <1>1, <1>2, <1>3, LocalTyped DEF LocalTypes, Engines
  <1>5. LocalFrame'
    <2>1. LocalFrame /\ Current' = Current
      BY <1>1, LocalUntold, LocalGives
    <2> QED  BY <1>1, <1>2, <2>1 DEF LocalFrame
  <1>6. Current => LocalHears'
    <2>1. Current => LocalHears
      BY LocalGives
    <2> QED  BY <1>1, <1>2, <1>3, <2>1 DEF LocalHears, Begun
  <1>7. ASSUME Current, Unended(reports, shared.live)
        PROVE  (Begun => LocalWorks') /\ (~Begun => LocalWaits')
    <2>1. (Begun => LocalWorks) /\ (~Begun => LocalWaits) /\ engine' = engine
      BY <1>3, <1>7, LocalGives
    <2>2. Begun => LocalWorks'
      BY <1>1, <1>2, <2>1 DEF LocalWorks
    <2>3. ~Begun => LocalWaits'
      BY <1>1, <1>2, <2>1 DEF LocalWaits, Opens
    <2> QED  BY <2>2, <2>3
  <1> QED  BY <1>1, <1>4, <1>5, <1>6, <1>7, LocalGoesOn DEF Begun

LEMMA LocalTakesTest ==
    ASSUME ChunksBounded, LocalKeeps, Local!Test
    PROVE  LocalStep
  <1> DEFINE h == Head(jobs)
  <1>1. /\ Local!TakeJob("test") /\ h = Head(jobs) /\ attempt' = attempt /\ shared' = shared /\ engine' = engine
        /\ reports' = reports
        /\ worker' = [worker EXCEPT !.attempt = 0, !.at = "test", !.model = h.model]
    BY DEF Local!Test
  <1> HIDE DEF h
  <1>2. /\ jobs' \in Seq(LocalJobs) /\ h \in LocalJobs /\ h.type = "test" /\ Numbered(jobs', attempt.id)
        /\ (HasFeed(jobs) => HasFeed(jobs'))
        /\ (Comes(jobs, shared.live) /\ ~Opens(h, shared.live) => Comes(jobs', shared.live))
        /\ ~Came(jobs, shared.live)
        /\ ((\E i \in DOMAIN jobs' : Shuts(jobs'[i], shared.live)) => \E j \in DOMAIN jobs : Shuts(jobs[j], shared.live))
        /\ worker.taken = << >>
    BY <1>1, LocalTakesJob
  <1>3. /\ worker' \in Workers /\ worker'.attempt = 0 /\ worker'.at = "test" /\ worker'.taken = << >>
    <2>1. h.model \in LocalModels
      BY <1>2 DEF LocalJobs, LocalModels
    <2> QED  BY <1>1, <1>2, <2>1, LocalTyped DEF Workers
  <1>4. LocalTypes'
    BY <1>1, <1>2, <1>3, LocalTyped DEF LocalTypes, Workers
  <1>5. LocalFrame'
    <2>1. LocalFrame /\ Current' = Current /\ 0 <= attempt.id
      BY <1>1, LocalUntold, LocalTyped, LocalGives
    <2> QED  BY <1>1, <1>2, <1>3, <2>1 DEF LocalFrame
  <1>6. Current => ~Begun'
    BY <1>1, <1>3, LocalGives DEF Begun
  <1>7. Current => LocalHears'
    <2>1. Current => LocalHears
      BY LocalGives
    <2> QED  BY <1>1, <1>2, <1>6, <2>1 DEF LocalHears
  <1>8. ASSUME Current, Unended(reports, shared.live)
        PROVE  LocalWaits'
    <2>1. LocalWaits
      BY <1>2, <1>8, LocalGives DEF LocalWorks
    <2> QED  BY <1>1, <1>2, <2>1 DEF LocalWaits, Opens
  <1> QED  BY <1>1, <1>4, <1>5, <1>6, <1>7, <1>8, LocalGoesOn

LEMMA LocalTested ==
    ASSUME ChunksBounded, LocalKeeps, Local!Tested
    PROVE  LocalStep
  <1> DEFINE e == [type |-> "tested"]
  <1>1. /\ worker.at = "test" /\ attempt' = attempt /\ shared' = shared /\ jobs' = jobs
        /\ worker' = [worker EXCEPT !.at = "idle"] /\ reports' = Append(reports, e) /\ worker.taken = << >>
    BY LocalGives DEF Local!Tested
  <1>2. engine' \in Engines /\ engine'.heard = engine.heard
    BY LocalTyped DEF Local!Tested, Engines, Local!Unloaded, LocalModels
  <1>3. e \in LocalReports /\ e.type = "tested" /\ e.type \notin {"text", "end"} /\ ~EndOf(e, shared.live)
    BY DEF LocalReports, EndOf
  <1> HIDE DEF e
  <1>4. Fits(e, shared.live, attempt.sent, attempt.phase = "told", Unended(reports, shared.live))
    BY <1>3 DEF Fits
  <1>5. /\ reports' \in Seq(LocalReports) /\ Reported(reports', attempt.id)
        /\ (~EndOf(e, shared.live) => Unended(reports', shared.live) = Unended(reports, shared.live))
        /\ (Current /\ Fits(e, shared.live, attempt.sent, attempt.phase = "told", Unended(reports, shared.live))
              => Whole(reports', shared.live, attempt.sent, attempt.phase = "told"))
    BY <1>1, <1>3, LocalReportsOne
  <1>6. /\ worker' \in Workers /\ worker'.attempt = worker.attempt /\ worker'.at = "idle" /\ worker'.taken = << >>
    BY <1>1, LocalTyped DEF Workers
  <1>7. LocalTypes'
    BY <1>1, <1>2, <1>5, <1>6, LocalTyped DEF LocalTypes, Workers, Engines
  <1>8. LocalFrame'
    <2>1. LocalFrame /\ Current' = Current
      BY <1>1, LocalUntold, LocalGives
    <2> QED  BY <1>1, <1>5, <1>6, <2>1 DEF LocalFrame
  <1>9. Current => ~Begun /\ ~Begun'
    BY <1>1, <1>6, LocalGives DEF LocalFrame, Begun
  <1>10. Current => LocalHears'
    <2>1. Current => LocalHears
      BY LocalGives
    <2> QED  BY <1>1, <1>4, <1>5, <1>9, <2>1 DEF LocalHears
  <1>11. ASSUME Current, Unended(reports', shared.live)
         PROVE  LocalWaits'
    <2>1. LocalWaits
      BY <1>3, <1>5, <1>9, <1>11, LocalGives
    <2> QED  BY <1>1, <2>1 DEF LocalWaits
  <1> QED  BY <1>1, <1>7, <1>8, <1>9, <1>10, <1>11, LocalGoesOn

LEMMA LocalInits ==
    ASSUME Local!LocalInit
    PROVE  LocalKeeps
  <1>1. /\ attempt = NoAttempt /\ jobs = << >> /\ reports = << >>
        /\ shared = [live |-> 0, pending |-> << >>, feedQueued |-> FALSE, idle |-> FALSE]
        /\ worker = [attempt |-> 0, failed |-> FALSE, at |-> "idle", model |-> "none", taken |-> << >>]
        /\ engine = [model |-> "none", heard |-> << >>]
    BY DEF Local!LocalInit, Local!ContractInit, Local!NoAttempt, NoAttempt, Local!Unloaded
  <1>2. attempt \in Attempts /\ ~Current /\ attempt.id = 0
    BY <1>1 DEF Attempts, Phases, NoAttempt, Current
  <1>3. << >> \in Seq(Nat) /\ << >> \in Seq(LocalJobs) /\ << >> \in Seq(LocalReports) /\ DOMAIN << >> = {}
    OBVIOUS
  <1>4. LocalTypes
    BY <1>1, <1>2, <1>3 DEF LocalTypes, LocalModels
  <1>5. LocalFrame
    <2>1. Numbered(jobs, attempt.id) /\ Reported(reports, attempt.id)
      BY <1>1, <1>3 DEF Numbered, Reported
    <2>2. Current = FALSE
      BY <1>2 DEF Current
    <2>3. /\ shared.live = 0 /\ shared.feedQueued = FALSE /\ worker.attempt = 0 /\ worker.at = "idle"
          /\ worker.taken = << >> /\ 0 <= attempt.id
      BY <1>1, <1>2
    <2> QED  BY <2>1, <2>2, <2>3 DEF LocalFrame
  <1> QED  BY <1>2, <1>4, <1>5 DEF LocalKeeps

LEMMA LocalGoes ==
    ASSUME ChunksBounded, LocalKeeps, Local!LocalNext
    PROVE  LocalStep
  BY LocalStarts, LocalSends, LocalFinishes, LocalLetsGo, LocalAsksForTest, LocalTimesOut, LocalHandlesReport,
     LocalBegins, LocalLoads, LocalTakesPending, LocalFeeds, LocalFed, LocalTakesFinish, LocalCompletes,
     LocalUnloads, LocalTakesTest, LocalTested DEF Local!LocalNext, Local!Work

LEMMA LocalInOrder ==
    ASSUME LocalKeeps
    PROVE  Local!LocalInOrder
  <1>1. Local!Begun = Begun
    BY DEF Local!Begun, Begun
  <1>2. ASSUME Local!Awaited
        PROVE  Current /\ Unended(reports, shared.live) /\ shared.live = attempt.id
    <2>1. Current /\ shared.live = attempt.id
      BY <1>2, LocalGives DEF Local!Awaited, LocalFrame
    <2>2. ASSUME NEW i \in DOMAIN reports
          PROVE  ~EndOf(reports[i], shared.live)
      <3>1. reports[i] \in Local!Range(reports)
        BY DEF Local!Range
      <3> QED  BY <1>2, <3>1 DEF Local!Awaited, EndOf
    <2> QED  BY <2>1, <2>2 DEF Unended
  <1>3. ASSUME Local!Awaited, Begun
        PROVE  /\ (engine.heard \o worker.taken) \o shared.pending = [i \in 1..attempt.sent |-> i]
               /\ worker.at # "load" => engine.model = worker.model
    <2>1. LocalWorks
      BY <1>2, <1>3, LocalGives
    <2> QED  BY <2>1 DEF LocalWorks, UpTo
  <1>4. ASSUME Local!Awaited, ~Begun
        PROVE  << >> \o shared.pending = [i \in 1..attempt.sent |-> i]
    <2>1. LocalWaits
      BY <1>2, <1>4, LocalGives
    <2>2. << >> \o shared.pending = shared.pending
      BY LocalTyped, ConcatEmptySeq
    <2> QED  BY <2>1, <2>2 DEF LocalWaits, UpTo
  <1>5. ASSUME Local!Awaited
        PROVE  (IF Begun THEN engine.heard \o worker.taken ELSE << >>) \o shared.pending = [i \in 1..attempt.sent |-> i]
    <2>1. CASE Begun
      BY <1>3, <1>5, <2>1
    <2>2. CASE ~Begun
      BY <1>4, <1>5, <2>2
    <2> QED  BY <2>1, <2>2
  <1> QED  BY <1>1, <1>2, <1>3, <1>5 DEF Local!LocalInOrder

-----------------------------------------------------------------------------
(* The services.                                                           *)

LEMMA ChunksAreBounded == ChunksBounded
  BY ServiceBoundsAssumption, TranscriberBoundsAssumption DEF ChunksBounded

Services == {"claude", "codex", "endpoint", "local"}
Inv ==
    /\ service \in Services
    /\ service = "claude" => ClaudeKeeps
    /\ service = "codex" => CodexKeeps
    /\ service = "endpoint" => EndpointKeeps
    /\ service = "local" => LocalKeeps

LEMMA InvInit == Init => Inv
  <1> SUFFICES ASSUME Init PROVE Inv
    OBVIOUS
  <1>1. CASE service = "claude" /\ Claude!ClaudeInit
    BY <1>1, ChunksAreBounded, ClaudeBegins DEF Inv, Services
  <1>2. CASE service = "codex" /\ Codex!CodexInit
    BY <1>2, ChunksAreBounded, CodexBegins DEF Inv, Services
  <1>3. CASE service = "endpoint" /\ Endpoint!EndpointInit
    BY <1>3, EndpointInits DEF Inv, Services
  <1>4. CASE service = "local" /\ Local!LocalInit
    BY <1>4, LocalInits DEF Inv, Services
  <1> QED  BY <1>1, <1>2, <1>3, <1>4 DEF Init

LEMMA InvStays ==
    ASSUME Inv, UNCHANGED vars
    PROVE  Inv'
  <1>1. /\ attempt' = attempt /\ service' = service /\ client' = client /\ socket' = socket /\ timers' = timers
        /\ server' = server /\ shared' = shared /\ jobs' = jobs /\ worker' = worker /\ engine' = engine
        /\ reports' = reports
    BY DEF vars, networkVars, threadVars
  <1>2. ClaudeKeeps' = ClaudeKeeps
    BY <1>1 DEF ClaudeKeeps, ClaudeTypes, ClaudeHolds, ClaudeHears, Current
  <1>3. CodexKeeps' = CodexKeeps
    BY <1>1 DEF CodexKeeps, CodexTypes, CodexBooks, CodexCounts, CodexHears, SaidBefore, Current
  <1>4. EndpointKeeps' = EndpointKeeps
    BY <1>1 DEF EndpointKeeps, Current
  <1>5. LocalKeeps' = LocalKeeps
    BY <1>1 DEF LocalKeeps, LocalTypes, LocalFrame, LocalHears, LocalWorks, LocalWaits, Begun, Current
  <1> QED  BY <1>1, <1>2, <1>3, <1>4, <1>5 DEF Inv

\* A step is one of the service's, and keeps what is known of it.
LEMMA InvNext ==
    ASSUME Inv, Next
    PROVE  Inv' /\ (service \notin Crossing => Promised)
  <1>1. CASE ByClaude(Claude!ClaudeNext)
    <2>1. service = "claude" /\ service' = service /\ Claude!ClaudeNext /\ ClaudeKeeps
      BY <1>1 DEF ByClaude, Inv
    <2>2. ClaudeStep
      BY <2>1, ChunksAreBounded, ClaudeGoes
    <2> QED  BY <2>1, <2>2 DEF ClaudeStep, Inv, Services
  <1>2. CASE ByCodex(Codex!CodexNext)
    <2>1. service = "codex" /\ service' = service /\ Codex!CodexNext /\ CodexKeeps
      BY <1>2 DEF ByCodex, Inv
    <2>2. CodexStep
      BY <2>1, ChunksAreBounded, CodexGoes
    <2> QED  BY <2>1, <2>2 DEF CodexStep, Inv, Services
  <1>3. CASE ByEndpoint(Endpoint!EndpointNext)
    <2>1. service = "endpoint" /\ service' = service /\ Endpoint!EndpointNext /\ EndpointKeeps
      BY <1>3 DEF ByEndpoint, Inv
    <2>2. EndpointStep
      BY <2>1, ServiceBoundsAssumption, EndpointGoes
    <2> QED  BY <2>1, <2>2 DEF EndpointStep, Inv, Services
  <1>4. CASE ByLocal(Local!LocalNext)
    <2>1. service = "local" /\ service' = service /\ Local!LocalNext /\ LocalKeeps
      BY <1>4 DEF ByLocal, Inv
    <2>2. LocalStep
      BY <2>1, ChunksAreBounded, LocalGoes
    <2> QED  BY <2>1, <2>2 DEF LocalStep, Inv, Services
  <1> QED  BY <1>1, <1>2, <1>3, <1>4 DEF Next

LEMMA InvKept == Inv /\ [Next]_vars => Inv'
  BY InvStays, InvNext

(* What a service gets of an attempt is what the calls handed over, in order,
   whole and once (sendAudio() and finishInput() of each transcriber, the
   queues of ClaudeVoiceClient and CodexDictationClient, the utterances of
   EndpointSpeechTranscriber, the worker's feeds). *)
THEOREM ServicesGetAudioInOrder == Spec => []AudioInOrder
  <1>1. Inv => AudioInOrder
    BY ChunksAreBounded, ClaudeOrder, CodexOrder, EndpointInOrder, LocalInOrder DEF Inv, Services, AudioInOrder
  <1> QED  BY <1>1, InvInit, InvKept, PTL DEF Spec

LEMMA ContractBegins == Init => ContractInit
  BY DEF Init, Claude!ClaudeInit, Codex!CodexInit, Endpoint!EndpointInit, Local!LocalInit, Claude!ContractInit,
         Codex!ContractInit, Endpoint!ContractInit, Local!ContractInit, Claude!NoAttempt, Codex!NoAttempt,
         Endpoint!NoAttempt, Local!NoAttempt, ContractInit, NoAttempt

LEMMA ContractStep == Crossing = {} => (Inv /\ [Next]_vars => [ContractNext]_attempt)
  <1> SUFFICES ASSUME Crossing = {}, Inv, [Next]_vars PROVE [ContractNext]_attempt
    OBVIOUS
  <1>1. CASE Next
    BY <1>1, InvNext DEF Promised
  <1>2. CASE UNCHANGED vars
    BY <1>2 DEF vars
  <1> QED  BY <1>1, <1>2

(* An attempt ends once, and one told that its input ended does not end well
   before all that was spoken is accounted for (SpeechTranscriber's signals, of
   every service), as long as a service's last word of an attempt is not on its
   way when the client closes the input. *)
THEOREM ServicesKeepContract ==
    ASSUME Crossing = {}
    PROVE  Spec => KeepsContract
  <1>1. Inv /\ [Next]_vars => [ContractNext]_attempt
    BY ContractStep
  <1> QED  BY <1>1, InvInit, InvKept, ContractBegins, PTL DEF Spec, KeepsContract, Contract
=============================================================================
