-------------------------- MODULE SecretStoreProofs --------------------------
(***************************************************************************)
(* That a key is gone for good once a removal said so, and that what was   *)
(* told as stored is what a reader finds, for any keys, any kinds of       *)
(* secrets, and any number of requests and starts.                         *)
(***************************************************************************)
EXTENDS SecretStore, SequenceTheorems, TLAPS

Requests == Request \cup {NoRequest}
Entries == [phase : {"Idle", "Writing", "Dropped"}, writing : Requests, waiting : Requests,
            stored : Value \cup {Unread}, reading : BOOLEAN, retry : BOOLEAN,
            commitRefused : BOOLEAN, answer : {"none", "noKeyring", "ok"}]
Lasts == [value : Value, state : {"none", "asked", "stored", "refused", "unknown"},
          hidden : BOOLEAN, removed : BOOLEAN]

(* The job stores no key. *)
Keyless(job) == job.kind # "write" \/ job.value = NoKey

AllKeyless(queue) == \A i \in DOMAIN queue : Keyless(queue[i])

(* The removal has one job at most: the deletion, and no key is stored after it,
   or the read that follows a refused one. *)
Own == {"removal", "removalRead"}
Removing == {"deleting", "reading"}

RemovalFits(queue, removes) ==
    \A i \in DOMAIN queue : queue[i].by \in Own =>
        /\ \A j \in DOMAIN queue : queue[j].by \in Own => i = j
        /\ queue[i].by = "removalRead" => removes = "reading"
        /\ queue[i].by = "removal" =>
             /\ removes = "deleting" /\ queue[i].kind = "delete"
             /\ \A j \in DOMAIN queue : i < j => Keyless(queue[j])

(* The keyring has no key, and no job on its way stores one. *)
Clean == keyring = NoKey /\ AllKeyless(jobs)

(* No request that waits or is being written has a key. *)
AsksNoKey(e) == e.writing.value \notin Keys /\ e.waiting.value \notin Keys

(* What a save that failed, or one that needs no keyring, will tell as stored
   is remembered. *)
Remembers(e) ==
    e.commitRefused \/ (e.answer = "noKeyring" /\ e.writing # NoRequest) => e.stored # Unread

(* Nothing is asked of a store that takes no writes. *)
Refuses(e) == writeRefusal => e.waiting = NoRequest /\ e.writing = NoRequest

Inv ==
    /\ TypeOK
    /\ Remembers(entry) /\ Refuses(entry)
    /\ RemovalFits(jobs, removal)
    /\ removal = "deleted" => Clean
    /\ last.removed => Clean /\ AsksNoKey(entry) /\ file.copy = NoKey /\ disk.copy = NoKey

-----------------------------------------------------------------------------
(* The jobs that a step leaves: those it had, one taken out or given up, and
   one more at the end. *)

LEMMA JobOf ==
    ASSUME NEW queue \in Seq(Job)
    PROVE  Len(queue) \in Nat /\ DOMAIN queue = 1..Len(queue)
           /\ \A i \in DOMAIN queue : queue[i] \in Job
  BY ElementOfSeq, LenProperties

LEMMA OneMore ==
    ASSUME NEW queue \in Seq(Job), NEW job \in Job
    PROVE  /\ Append(queue, job) \in Seq(Job) /\ Append(queue, job) = queue \o <<job>>
           /\ Len(queue) \in Nat /\ DOMAIN queue = 1..Len(queue)
           /\ DOMAIN Append(queue, job) = 1..Len(queue) + 1
           /\ \A i \in 1..Len(queue) : Append(queue, job)[i] = queue[i]
           /\ Append(queue, job)[Len(queue) + 1] = job
  OBVIOUS

(* What is left of a queue is in the order it was. *)
LEMMA HeadTaken ==
    ASSUME NEW queue \in Seq(Job), queue # <<>>
    PROVE  /\ Tail(queue) \in Seq(Job) /\ Head(queue) \in Job /\ Head(queue) = queue[1]
           /\ Len(queue) \in Nat /\ 1 \in DOMAIN queue
           /\ DOMAIN Tail(queue) = 1..Len(queue) - 1
           /\ \A i \in DOMAIN Tail(queue) : i + 1 \in DOMAIN queue /\ Tail(queue)[i] = queue[i + 1]
  OBVIOUS

LEMMA OneTaken ==
    ASSUME NEW queue \in Seq(Job), NEW k \in DOMAIN queue
    PROVE  /\ RemoveAt(queue, k) \in Seq(Job)
           /\ DOMAIN RemoveAt(queue, k) = 1..Len(queue) - 1
           /\ Len(queue) \in Nat /\ k \in 1..Len(queue) /\ DOMAIN queue = 1..Len(queue)
           /\ \A i \in 1..Len(queue) - 1 :
                RemoveAt(queue, k)[i] = IF i < k THEN queue[i] ELSE queue[i + 1]
  <1>0. Len(queue) \in Nat /\ k \in 1..Len(queue) /\ DOMAIN queue = 1..Len(queue)
    BY LenProperties
  <1> DEFINE front == SubSeq(queue, 1, k - 1)
             back == SubSeq(queue, k + 1, Len(queue))
  <1>1. /\ front \in Seq(Job) /\ Len(front) = k - 1
        /\ \A i \in 1..k - 1 : front[i] = queue[i]
    BY <1>0
  <1>2. /\ back \in Seq(Job) /\ Len(back) = Len(queue) - k
        /\ \A i \in 1..Len(queue) - k : back[i] = queue[k + i]
    BY <1>0
  <1>3. RemoveAt(queue, k) = front \o back
    BY DEF RemoveAt
  <1> HIDE DEF front, back
  <1>4. /\ front \o back \in Seq(Job) /\ Len(front \o back) = Len(queue) - 1
        /\ \A i \in 1..Len(queue) - 1 :
              (front \o back)[i] = IF i < k THEN front[i] ELSE back[i - (k - 1)]
    <2>1. /\ front \o back \in Seq(Job) /\ Len(front \o back) = Len(front) + Len(back)
          /\ \A i \in 1..Len(front) + Len(back) :
                (front \o back)[i] = IF i <= Len(front) THEN front[i] ELSE back[i - Len(front)]
      BY <1>1, <1>2, ConcatProperties
    <2> QED
      BY <1>0, <1>1, <1>2, <2>1
  <1>5. \A i \in 1..Len(queue) - 1 : ~(i < k) =>
          i - (k - 1) \in 1..Len(queue) - k /\ back[i - (k - 1)] = queue[i + 1]
    <2> TAKE i \in 1..Len(queue) - 1
    <2> HAVE ~(i < k)
    <2>1. i - (k - 1) \in 1..Len(queue) - k /\ k + (i - (k - 1)) = i + 1
      BY <1>0
    <2> QED
      BY <1>2, <2>1
  <1>6. \A i \in 1..Len(queue) - 1 : i < k => front[i] = queue[i]
    BY <1>0, <1>1
  <1>7. DOMAIN (front \o back) = 1..Len(queue) - 1
    BY <1>4, LenProperties
  <1> QED
    BY <1>0, <1>3, <1>4, <1>5, <1>6, <1>7

LEMMA OneGivenUp ==
    ASSUME NEW queue \in Seq(Job), NEW k \in DOMAIN queue
    PROVE  LET left == [queue EXCEPT ![k].by = "nobody"] IN
           /\ left \in Seq(Job) /\ DOMAIN left = DOMAIN queue
           /\ \A i \in DOMAIN queue :
                /\ left[i].kind = queue[i].kind /\ left[i].value = queue[i].value
                /\ left[i].by = IF i = k THEN "nobody" ELSE queue[i].by
  <1>1. queue[k] \in Job /\ k \in 1..Len(queue)
    BY JobOf
  <1>2. [queue[k] EXCEPT !.by = "nobody"] \in Job
    BY <1>1 DEF Job
  <1>3. [queue EXCEPT ![k].by = "nobody"] \in Seq(Job)
    BY <1>1, <1>2, ExceptSeq
  <1>4. \A i \in DOMAIN queue : queue[i] \in Job
    BY JobOf
  <1> QED
    BY <1>1, <1>2, <1>3, <1>4 DEF Job

(* Taking a job out keeps the others' order, and takes the removal's with it. *)
LEMMA TailFits ==
    ASSUME NEW queue \in Seq(Job), queue # <<>>, NEW removes, RemovalFits(queue, removes)
    PROVE  /\ RemovalFits(Tail(queue), removes)
           /\ AllKeyless(queue) => AllKeyless(Tail(queue))
           /\ queue[1].by = "removal" => AllKeyless(Tail(queue))
           /\ queue[1].by \in Own \/ removes \notin Removing =>
                \A other : RemovalFits(Tail(queue), other)
  <1>1. \A i \in DOMAIN Tail(queue) :
          i \in Nat \ {0} /\ i + 1 \in DOMAIN queue /\ Tail(queue)[i] = queue[i + 1]
    BY HeadTaken
  <1>2. 1 \in DOMAIN queue
    BY HeadTaken
  <1>3. RemovalFits(Tail(queue), removes)
    BY <1>1 DEF RemovalFits, Own, Removing
  <1>4. AllKeyless(queue) => AllKeyless(Tail(queue))
    BY <1>1 DEF AllKeyless
  <1>5. queue[1].by = "removal" => AllKeyless(Tail(queue))
    BY <1>1, <1>2 DEF RemovalFits, AllKeyless, Own
  <1>6. queue[1].by \in Own \/ removes \notin Removing =>
          \A i \in DOMAIN Tail(queue) : Tail(queue)[i].by \notin Own
    BY <1>1, <1>2 DEF RemovalFits, Own, Removing
  <1> QED
    BY <1>3, <1>4, <1>5, <1>6 DEF RemovalFits, Own, Removing

LEMMA TakenFits ==
    ASSUME NEW queue \in Seq(Job), NEW k \in DOMAIN queue, NEW removes,
           RemovalFits(queue, removes)
    PROVE  /\ RemovalFits(RemoveAt(queue, k), removes)
           /\ AllKeyless(queue) => AllKeyless(RemoveAt(queue, k))
           /\ queue[k].by \in Own \/ removes \notin Removing =>
                \A other : RemovalFits(RemoveAt(queue, k), other)
  <1> DEFINE left == RemoveAt(queue, k)
             at(i) == IF i < k THEN i ELSE i + 1
  <1>1. \A i \in DOMAIN left : /\ i \in Nat /\ at(i) \in DOMAIN queue /\ at(i) \in Nat
                              /\ left[i] = queue[at(i)] /\ at(i) # k
    BY OneTaken
  <1>2. \A i, j \in DOMAIN left : (at(i) = at(j) => i = j) /\ (i < j => at(i) < at(j))
    <2>1. k \in Nat
      BY OneTaken
    <2> HIDE DEF left
    <2>2. \A i, j \in Nat : (at(i) = at(j) => i = j) /\ (i < j => at(i) < at(j))
      BY <2>1
    <2> QED
      BY <1>1, <2>2
  <1> HIDE DEF left, at
  <1>3. RemovalFits(left, removes)
    <2>1. ASSUME NEW i \in DOMAIN left, left[i].by \in Own
          PROVE  /\ \A j \in DOMAIN left : left[j].by \in Own => i = j
                 /\ left[i].by = "removalRead" => removes = "reading"
                 /\ left[i].by = "removal" =>
                      /\ removes = "deleting" /\ left[i].kind = "delete"
                      /\ \A j \in DOMAIN left : i < j => Keyless(left[j])
      <3>1. queue[at(i)].by \in Own /\ at(i) \in DOMAIN queue /\ left[i] = queue[at(i)]
        BY <1>1, <2>1
      <3> QED
        BY <1>1, <1>2, <3>1 DEF RemovalFits
    <2> QED
      BY <2>1 DEF RemovalFits, Own, Removing
  <1>4. AllKeyless(queue) => AllKeyless(left)
    BY <1>1 DEF AllKeyless
  <1>5. queue[k].by \in Own \/ removes \notin Removing =>
          \A i \in DOMAIN left : left[i].by \notin Own
    BY <1>1 DEF RemovalFits, Own, Removing
  <1> QED
    BY <1>3, <1>4, <1>5 DEF RemovalFits, Own, Removing, left

LEMMA GivenUpFits ==
    ASSUME NEW queue \in Seq(Job), NEW k \in DOMAIN queue, NEW removes,
           RemovalFits(queue, removes)
    PROVE  LET left == [queue EXCEPT ![k].by = "nobody"] IN
           /\ RemovalFits(left, removes)
           /\ AllKeyless(queue) => AllKeyless(left)
           /\ queue[k].by \in Own \/ removes \notin Removing => \A other : RemovalFits(left, other)
  <1> DEFINE left == [queue EXCEPT ![k].by = "nobody"]
  <1>1. /\ DOMAIN left = DOMAIN queue
        /\ \A i \in DOMAIN queue :
             /\ left[i].kind = queue[i].kind /\ left[i].value = queue[i].value
             /\ left[i].by = IF i = k THEN "nobody" ELSE queue[i].by
    BY OneGivenUp
  <1> HIDE DEF left
  <1>2. RemovalFits(left, removes)
    BY <1>1 DEF RemovalFits, Keyless, Own, Removing
  <1>3. AllKeyless(queue) => AllKeyless(left)
    BY <1>1 DEF AllKeyless, Keyless
  <1>4. queue[k].by \in Own \/ removes \notin Removing =>
          \A i \in DOMAIN left : left[i].by \notin Own
    BY <1>1 DEF RemovalFits, Own, Removing
  <1> QED
    BY <1>2, <1>3, <1>4 DEF RemovalFits, Own, Removing, left

(* A job more: the removal's own, when there was none; or one that stores
   nothing while a removal goes on. *)
LEMMA MoreFits ==
    ASSUME NEW queue \in Seq(Job), NEW job \in Job, NEW removes, RemovalFits(queue, removes),
           NEW next,
           \/ job.by \notin Own /\ next = removes /\ (removes = "deleting" => Keyless(job))
           \/ job.by \notin Own /\ removes \notin Removing
           \/ /\ job.by = "removal" /\ job.kind = "delete"
              /\ removes \notin Removing /\ next = "deleting"
           \/ /\ job.by = "removalRead" /\ job.kind = "read" /\ next = "reading"
              /\ \A other : RemovalFits(queue, other)
    PROVE  /\ RemovalFits(Append(queue, job), next)
           /\ AllKeyless(queue) /\ Keyless(job) => AllKeyless(Append(queue, job))
  <1> DEFINE more == Append(queue, job)
  <1>1. /\ Len(queue) \in Nat /\ DOMAIN queue = 1..Len(queue)
        /\ DOMAIN more = 1..Len(queue) + 1
        /\ \A i \in 1..Len(queue) : more[i] = queue[i]
        /\ more[Len(queue) + 1] = job
    BY OneMore
  <1> HIDE DEF more
  <1>2. \A i \in DOMAIN more : i \in DOMAIN queue \/ i = Len(queue) + 1
    BY <1>1
  <1>3. AllKeyless(queue) /\ Keyless(job) => AllKeyless(more)
    BY <1>1, <1>2 DEF AllKeyless
  <1>4. RemovalFits(more, next)
    <2>1. CASE job.by \notin Own
      BY <1>1, <1>2, <2>1 DEF RemovalFits, Own, Removing
    <2>2. CASE job.by \in Own
      <3>1. \A i \in DOMAIN queue : queue[i].by \notin Own
        <4>1. CASE removes \notin Removing
          BY <4>1 DEF RemovalFits, Own, Removing
        <4>2. CASE RemovalFits(queue, "deleting") /\ RemovalFits(queue, "reading")
          BY <4>2 DEF RemovalFits, Own
        <4> QED
          BY <2>2, <4>1, <4>2
      <3> QED
        BY <1>1, <1>2, <2>2, <3>1 DEF RemovalFits, Own
    <2> QED
      BY <2>1, <2>2
  <1> QED
    BY <1>3, <1>4 DEF more

-----------------------------------------------------------------------------
(* The store's own steps. *)

USE DEF Entries, Lasts, Requests, FileSays

LEMMA RequestOf ==
    ASSUME NEW request \in Requests
    PROVE  /\ request # NoRequest => request \in Request
           /\ request # NoRequest => request.value \in Value
  BY DEF Request

LEMMA NoRequestHasNoKey == NoRequest.value \notin Keys /\ NoKey \notin Keys
  BY SecretKeysAssumption DEF NoRequest

(* Going on writes the waiting request, in the file's and the removal's terms. *)
LEMMA GoesOnFits ==
    ASSUME NEW e \in Entries, NEW f \in FileSays, NEW queue \in Seq(Job),
           RemovalFits(queue, removal), Remembers(e), Refuses(e), GoesOn(e, f, queue)
    PROVE  /\ entry' \in Entries /\ jobs' \in Seq(Job) /\ file' = f
           /\ Remembers(entry') /\ Refuses(entry')
           /\ RemovalFits(jobs', removal)
           /\ (removal # "none" \/ AsksNoKey(e)) /\ AllKeyless(queue) => AllKeyless(jobs')
           /\ AsksNoKey(e) => AsksNoKey(entry')
  <1>0. file' = f
    BY DEF GoesOn
  <1>1. CASE ~(e.phase = "Idle" /\ e.waiting # NoRequest)
    <2>1. entry' = e /\ jobs' = queue \o <<>>
      BY <1>1 DEF GoesOn
    <2>2. jobs' = queue
      BY <2>1, ConcatEmptySeq
    <2> QED
      BY <1>0, <2>1, <2>2
  <1>2. CASE e.phase = "Idle" /\ e.waiting # NoRequest
    <2>1. entry' = writeNext(e, f) /\ jobs' = queue \o WriteJobs(e, f)
      BY <1>2 DEF GoesOn
    <2>2. Needs(e, f) \in {"none", "noKeyring", "ok"}
      BY DEF Needs
    <2>3. entry' \in Entries
      BY <2>1, <2>2 DEF writeNext
    <2>4. AsksNoKey(e) => AsksNoKey(entry')
      BY <2>1, NoRequestHasNoKey DEF writeNext, AsksNoKey
    <2>4a. Remembers(entry') /\ Refuses(entry')
      <3>1. ~writeRefusal
        BY <1>2 DEF Refuses
      <3>2. Needs(e, f) = "noKeyring" => e.stored = e.waiting.value
        BY <3>1 DEF Needs, holds
      <3>3. e.waiting.value \in Value /\ Unread \notin Value
        BY <1>2, RequestOf, SecretKeysAssumption DEF Value, NoKey, Unread
      <3>4. /\ entry'.answer = Needs(e, f) /\ entry'.stored = e.stored
            /\ entry'.commitRefused = e.commitRefused
        BY <2>1 DEF writeNext
      <3> QED
        BY <3>1, <3>2, <3>3, <3>4 DEF Remembers, Refuses
    <2>5. CASE Needs(e, f) # "none"
      <3>1. jobs' = queue
        BY <2>1, <2>5, ConcatEmptySeq DEF WriteJobs
      <3> QED
        BY <1>0, <2>3, <2>4, <2>4a, <3>1
    <2>6. CASE Needs(e, f) = "none"
      <3> DEFINE job == AJob(IF e.waiting.value = NoKey THEN "delete" ELSE "write",
                             e.waiting.value, "write")
      <3>1. removal = "none"
        BY <2>6 DEF Needs, writeRefusal
      <3>2. job \in Job /\ job.by \notin Own /\ (e.waiting.value \notin Keys => Keyless(job))
        BY <1>2, RequestOf DEF AJob, Job, Keyless, Value, Own
      <3>3. jobs' = queue \o <<job>>
        BY <2>1, <2>6 DEF WriteJobs
      <3> HIDE DEF job
      <3>4. jobs' = Append(queue, job) /\ jobs' \in Seq(Job)
        BY <3>2, <3>3, OneMore
      <3>5. /\ RemovalFits(jobs', removal)
            /\ AllKeyless(queue) /\ Keyless(job) => AllKeyless(jobs')
        BY <3>1, <3>2, <3>4, MoreFits DEF Removing
      <3> QED
        BY <1>0, <2>3, <2>4, <2>4a, <3>1, <3>2, <3>4, <3>5 DEF AsksNoKey
    <2> QED
      BY <2>5, <2>6
  <1> QED
    BY <1>1, <1>2

(* What a request that was written leaves. *)
LEMMA FinishWriteFits ==
    ASSUME TypeOK, NEW queue \in Seq(Job), RemovalFits(queue, removal),
           Remembers(entry), Refuses(entry),
           NEW answer \in {"ok", "failed", "noKeyring"}, finishWrite(answer, queue),
           answer = "noKeyring" => entry.answer = "noKeyring"
    PROVE  /\ Remembers(entry') /\ Refuses(entry')
           /\ entry' \in Entries /\ jobs' \in Seq(Job) /\ file' \in FileSays /\ disk' \in FileSays
           /\ unsaved' \in BOOLEAN /\ last' \in Lasts /\ last'.removed = last.removed
           /\ RemovalFits(jobs', removal)
           /\ (removal # "none" \/ AsksNoKey(entry)) /\ AllKeyless(queue) => AllKeyless(jobs')
           /\ AsksNoKey(entry) /\ file.copy = NoKey /\ disk.copy = NoKey =>
                AsksNoKey(entry') /\ file'.copy = NoKey /\ disk'.copy = NoKey
  <1> DEFINE request == entry.writing
             idle == [entry EXCEPT !.phase = "Idle", !.writing = NoRequest, !.answer = "none"]
  <1>1. entry \in Entries /\ file \in FileSays /\ disk \in FileSays /\ last \in Lasts
        /\ unsaved \in BOOLEAN /\ request \in Requests
    BY DEF TypeOK
  <1>2. /\ idle \in Entries /\ (AsksNoKey(entry) => AsksNoKey(idle))
        /\ Remembers(idle) /\ Refuses(idle)
    BY <1>1, NoRequestHasNoKey DEF AsksNoKey, Remembers, Refuses
  <1>3. ASSUME NEW stored, NEW hides \in BOOLEAN, request # NoRequest
        PROVE  settled(request, stored, hides) \in Lasts
               /\ settled(request, stored, hides).removed = last.removed
    BY <1>1, <1>3, RequestOf DEF settled
  <1>4. CASE request = NoRequest \/ writeRefusal
    <2>1. GoesOn(idle, file, queue) /\ UNCHANGED <<disk, unsaved>>
          /\ last' = IF request = NoRequest THEN last ELSE settled(request, FALSE, FALSE)
      BY <1>4 DEF finishWrite
    <2>2. last' \in Lasts /\ last'.removed = last.removed
      BY <1>1, <1>3, <2>1
    <2> HIDE DEF idle, request
    <2>3. /\ entry' \in Entries /\ jobs' \in Seq(Job) /\ file' = file
          /\ RemovalFits(jobs', removal) /\ Remembers(entry') /\ Refuses(entry')
          /\ (removal # "none" \/ AsksNoKey(idle)) /\ AllKeyless(queue) => AllKeyless(jobs')
          /\ AsksNoKey(idle) => AsksNoKey(entry')
      BY <1>1, <1>2, <2>1, GoesOnFits
    <2> QED
      BY <1>1, <1>2, <2>1, <2>2, <2>3
  <1>5. CASE request # NoRequest /\ ~writeRefusal
    <2>0. PICK private \in IF secret \in OpenFolders THEN BOOLEAN ELSE {TRUE}, saves \in BOOLEAN :
            LET says == HiddenBehind(Says(request, answer, private))
                dirty == unsaved \/ says # file
                kept == Kept(request, answer, private)
                committed == ~dirty \/ saves
            IN  /\ GoesOn([idle EXCEPT
                      !.stored = IF Caches(request, answer, private) THEN request.value ELSE @,
                      !.retry = @ /\ ~Caches(request, answer, private),
                      !.commitRefused = IF kept \/ says # file THEN kept /\ ~committed ELSE @],
                      says, queue)
                /\ disk' = IF dirty /\ saves THEN says ELSE disk
                /\ unsaved' = ~committed
                /\ last' = settled(request, kept /\ committed,
                                   request.value = NoKey /\ says.hidden /\ committed)
      <3> HIDE DEF GoesOn
      <3> QED
        BY <1>5, Zenon DEF finishWrite
    <2> DEFINE said == Says(request, answer, private)
               says == HiddenBehind(said)
               kept == Kept(request, answer, private)
               committed == ~(unsaved \/ says # file) \/ saves
               next == [idle EXCEPT
                      !.stored = IF Caches(request, answer, private) THEN request.value ELSE @,
                      !.retry = @ /\ ~Caches(request, answer, private),
                      !.commitRefused = IF kept \/ says # file THEN kept /\ ~committed ELSE @]
    <2>1. request \in Request /\ request.value \in Value
      BY <1>1, <1>5, RequestOf
    <2>2. said \in FileSays /\ (request.value \notin Keys /\ file.copy = NoKey => said.copy = NoKey)
      BY <1>1, <2>1, NoRequestHasNoKey
      DEF Says, KeepsInFile, KeepsHidden, withKeyHidden, Value, Request
    <2>3. says \in FileSays /\ (said.copy = NoKey => says.copy = NoKey)
      <3> HIDE DEF said
      <3> QED
        BY <2>2 DEF HiddenBehind, withKeyHidden, Value
    <2>4. kept \in BOOLEAN /\ committed \in BOOLEAN /\ Caches(request, answer, private) \in BOOLEAN
      BY DEF Kept, Caches
    <2>5. /\ next \in Entries /\ (AsksNoKey(entry) => AsksNoKey(next))
          /\ Remembers(next) /\ Refuses(next)
      <3>1. /\ next.writing = idle.writing /\ next.waiting = idle.waiting /\ next \in Entries
            /\ next.answer = idle.answer
            /\ next.stored = IF Caches(request, answer, private) THEN request.value ELSE idle.stored
            /\ next.commitRefused = IF kept \/ says # file THEN kept /\ ~committed
                                    ELSE idle.commitRefused
        <4> HIDE DEF idle, said, says, kept, committed, request
        <4> QED
          BY <1>2, <2>1, <2>4
      <3>2. idle.stored = entry.stored /\ idle.answer = "none" /\ idle.writing = NoRequest
        BY <1>1
      <3>3. kept /\ ~Caches(request, answer, private) => entry.stored # Unread
        BY <1>5 DEF Kept, Caches, Remembers
      <3>4. request.value # Unread
        BY <2>1, SecretKeysAssumption DEF Value, NoKey, Unread
      <3>5. Remembers(next)
        <4> HIDE DEF idle, said, says, kept, committed, request, next
        <4> QED
          BY <1>2, <2>4, <3>1, <3>2, <3>3, <3>4 DEF Remembers
      <3> QED
        BY <1>2, <3>1, <3>5 DEF AsksNoKey, Refuses
    <2>6. /\ GoesOn(next, says, queue)
          /\ disk' \in {says, disk} /\ unsaved' = ~committed
          /\ last' = settled(request, kept /\ committed,
                             request.value = NoKey /\ says.hidden /\ committed)
      BY <2>0
    <2> HIDE DEF said, says, kept, committed, next, idle, request
    <2>7. /\ entry' \in Entries /\ jobs' \in Seq(Job) /\ file' = says
          /\ RemovalFits(jobs', removal) /\ Remembers(entry') /\ Refuses(entry')
          /\ (removal # "none" \/ AsksNoKey(next)) /\ AllKeyless(queue) => AllKeyless(jobs')
          /\ AsksNoKey(next) => AsksNoKey(entry')
      BY <2>3, <2>5, <2>6, GoesOnFits
    <2>8. (request.value = NoKey /\ says.hidden /\ committed) \in BOOLEAN
      BY <2>3, <2>4
    <2>9. last' \in Lasts /\ last'.removed = last.removed
      BY <1>3, <1>5, <2>6, <2>8
    <2>10. AsksNoKey(entry) => request.value \notin Keys
      BY DEF AsksNoKey, request
    <2> QED
      BY <1>1, <2>2, <2>3, <2>4, <2>5, <2>6, <2>7, <2>9, <2>10
  <1> QED
    BY <1>4, <1>5

(* A request is asked for: one without a key, where a removal went through. *)
LEMMA SaveFits ==
    ASSUME Inv, NEW value \in Value, NEW fallBack \in BOOLEAN, NEW migrating \in BOOLEAN,
           save(value, fallBack, migrating), migrating /\ last.removed => value = NoKey
    PROVE  /\ entry' \in Entries /\ jobs' \in Seq(Job) /\ file' \in FileSays
           /\ unsaved' \in BOOLEAN /\ last' \in Lasts
           /\ RemovalFits(jobs', removal) /\ Remembers(entry') /\ Refuses(entry')
           /\ removal # "none" /\ AllKeyless(jobs) => AllKeyless(jobs')
           /\ last'.removed => /\ last.removed /\ AllKeyless(jobs') /\ AsksNoKey(entry')
                              /\ file'.copy = NoKey
  <1> DEFINE marked == IF newest(entry) # NoRequest THEN newest(entry).marked ELSE file.hidden
             request == [value |-> value, fallBack |-> fallBack, migrating |-> migrating,
                         marked |-> marked]
             says == IF Hides(entry, request) THEN withKeyHidden(file) ELSE file
             next == [entry EXCEPT !.waiting = request]
  <1>1. /\ entry \in Entries /\ file \in FileSays /\ last \in Lasts /\ unsaved \in BOOLEAN
        /\ jobs \in Seq(Job) /\ RemovalFits(jobs, removal) /\ Remembers(entry) /\ Refuses(entry)
        /\ last.removed => AllKeyless(jobs) /\ AsksNoKey(entry) /\ file.copy = NoKey
    BY DEF Inv, TypeOK, Clean
  <1>2. CASE writeRefusal
    <2>1. /\ entry' = drop(entry) /\ UNCHANGED <<file, unsaved, jobs>>
          /\ last' = IF migrating THEN last ELSE [last EXCEPT !.value = value, !.state = "refused"]
      BY <1>2 DEF save
    <2>2. entry' \in Entries /\ AsksNoKey(entry') /\ Remembers(entry') /\ Refuses(entry')
      BY <1>1, <2>1, NoRequestHasNoKey DEF drop, AsksNoKey, Remembers, Refuses
    <2> QED
      BY <1>1, <2>1, <2>2
  <1>3. CASE ~writeRefusal
    <2>0. newest(entry) # NoRequest => newest(entry) \in Request
      BY <1>1, RequestOf DEF newest
    <2>1. request \in Request
      BY <1>1, <2>0 DEF Request
    <2>2. says \in FileSays /\ (file.copy = NoKey => says.copy = NoKey)
      BY <1>1 DEF withKeyHidden, Value
    <2>3. /\ GoesOn(next, says, jobs) /\ unsaved' = (unsaved \/ says # file)
          /\ last' = IF migrating THEN last
                     ELSE [value |-> value, state |-> "asked", hidden |-> FALSE, removed |-> FALSE]
      BY <1>3 DEF save
    <2>4. next \in Entries /\ Remembers(next) /\ Refuses(next)
      BY <1>1, <1>3, <2>1 DEF Remembers, Refuses
    <2>5. last.removed /\ migrating => AsksNoKey(next)
      BY <1>1, NoRequestHasNoKey DEF AsksNoKey
    <2> HIDE DEF says, next, request
    <2>6. /\ entry' \in Entries /\ jobs' \in Seq(Job) /\ file' = says
          /\ RemovalFits(jobs', removal) /\ Remembers(entry') /\ Refuses(entry')
          /\ (removal # "none" \/ AsksNoKey(next)) /\ AllKeyless(jobs) => AllKeyless(jobs')
          /\ AsksNoKey(next) => AsksNoKey(entry')
      BY <1>1, <2>2, <2>3, <2>4, GoesOnFits
    <2> QED
      BY <1>1, <2>2, <2>3, <2>5, <2>6
  <1> QED
    BY <1>2, <1>3

-----------------------------------------------------------------------------
(* The actions. *)

(* What is left to say of a step that changes none of the rest. *)
LEMMA SaveSecretKeeps == ASSUME Inv, saveSecret PROVE Inv'
  <1>1. PICK value \in Value : save(value, ~Always, FALSE)
    BY DEF saveSecret
  <1>2. (~Always) \in BOOLEAN
    BY DEF Always
  <1>3. /\ entry' \in Entries /\ jobs' \in Seq(Job) /\ file' \in FileSays
        /\ unsaved' \in BOOLEAN /\ last' \in Lasts
        /\ RemovalFits(jobs', removal) /\ Remembers(entry') /\ Refuses(entry')
        /\ removal # "none" /\ AllKeyless(jobs) => AllKeyless(jobs')
        /\ last'.removed => /\ last.removed /\ AllKeyless(jobs') /\ AsksNoKey(entry')
                           /\ file'.copy = NoKey
    BY <1>1, <1>2, SaveFits
  <1>4. UNCHANGED <<secret, started, disk, closed, removal, keyring>>
        /\ counts' \in [requests : 0..MaxRequests, starts : 0..MaxStarts]
    BY SecretBoundsAssumption DEF saveSecret, Inv, TypeOK
  <1> QED
    BY <1>3, <1>4 DEF Inv, TypeOK, Clean, Refuses, writeRefusal

LEMMA StartKeeps == ASSUME Inv, Start PROVE Inv'
  <1>1. UNCHANGED <<secret, disk, closed, removal, keyring, counts>> /\ started' = TRUE
    BY DEF Start
  <1>2. CASE file.hidden \/ file.copy # NoKey
    <2> DEFINE value == IF file.hidden THEN NoKey ELSE file.copy
    <2>1. value \in Value /\ (last.removed => value = NoKey)
      BY DEF Inv, TypeOK, Value
    <2>2. save(value, TRUE, TRUE)
      BY <1>2 DEF Start
    <2> HIDE DEF value
    <2>3. /\ entry' \in Entries /\ jobs' \in Seq(Job) /\ file' \in FileSays
          /\ unsaved' \in BOOLEAN /\ last' \in Lasts
          /\ RemovalFits(jobs', removal) /\ Remembers(entry') /\ Refuses(entry')
          /\ removal # "none" /\ AllKeyless(jobs) => AllKeyless(jobs')
          /\ last'.removed => /\ last.removed /\ AllKeyless(jobs') /\ AsksNoKey(entry')
                             /\ file'.copy = NoKey
      BY <2>1, <2>2, SaveFits
    <2> QED
      BY <1>1, <2>3 DEF Inv, TypeOK, Clean, Refuses, writeRefusal
  <1>3. CASE ~(file.hidden \/ file.copy # NoKey)
    <2>1. /\ entry' = [entry EXCEPT !.reading = ~Always /\ file.inKeyring]
          /\ jobs' = IF entry'.reading THEN Append(jobs, startRead) ELSE jobs
          /\ UNCHANGED <<file, unsaved, last>>
      BY <1>3 DEF Start
    <2>2. /\ entry' \in Entries /\ (AsksNoKey(entry) => AsksNoKey(entry'))
          /\ Remembers(entry') /\ Refuses(entry')
      BY <2>1 DEF Inv, TypeOK, Always, AsksNoKey, Remembers, Refuses
    <2>3. startRead \in Job /\ startRead.by \notin Own /\ Keyless(startRead)
      BY DEF startRead, AJob, Job, Value, Keyless, Own
    <2>4. /\ jobs' \in Seq(Job) /\ RemovalFits(jobs', removal)
          /\ AllKeyless(jobs) => AllKeyless(jobs')
      BY <2>1, <2>3, MoreFits, OneMore DEF Inv, TypeOK
    <2> QED
      BY <1>1, <2>1, <2>2, <2>4 DEF Inv, TypeOK, Clean, Refuses, writeRefusal
  <1> QED
    BY <1>2, <1>3

(* A new process has no jobs, and reads a file without the removed key. *)
LEMMA RestartKeeps == ASSUME Inv, Restart PROVE Inv'
  <1>1. /\ jobs' = <<>> /\ removal' = "none" /\ entry' = NewEntry /\ file' = disk
        /\ UNCHANGED <<secret, disk>> /\ started' = FALSE /\ unsaved' = FALSE /\ closed' = FALSE
        /\ last' = [last EXCEPT !.state = IF @ = "asked" THEN "unknown" ELSE @]
    BY DEF Restart
  <1>2. NewEntry \in Entries /\ AsksNoKey(NewEntry) /\ Remembers(NewEntry)
    BY NoRequestHasNoKey DEF NewEntry, AsksNoKey, Remembers
  <1>3. keyring' \in Value /\ (Clean => keyring' = NoKey)
    <2>1. CASE jobs = <<>>
      BY <2>1 DEF Restart, Inv, TypeOK, Clean
    <2>2. CASE jobs # <<>>
      <3>1. keyring' \in {keyring, Done(Head(jobs))}
        BY <2>2 DEF Restart
      <3>2. Head(jobs) \in Job /\ (Clean => Keyless(Head(jobs)))
        BY <2>2, HeadTaken DEF Inv, TypeOK, Clean, AllKeyless
      <3> QED
        BY <3>1, <3>2 DEF Done, Job, Value, Keyless, Clean, Inv, TypeOK
    <2> QED
      BY <2>1, <2>2
  <1>4. counts' \in [requests : 0..MaxRequests, starts : 0..MaxStarts]
    BY SecretBoundsAssumption DEF Restart, Inv, TypeOK
  <1>5. jobs' \in Seq(Job) /\ AllKeyless(jobs') /\ RemovalFits(jobs', removal')
    BY <1>1 DEF AllKeyless, RemovalFits
  <1>6. last' \in Lasts /\ last'.removed = last.removed
    BY <1>1 DEF Inv, TypeOK
  <1>7. TypeOK'
    <2>1. entry' \in Entries
      BY <1>1, <1>2
    <2>2. /\ secret' \in Secrets /\ started' \in BOOLEAN /\ file' \in FileSays /\ disk' \in FileSays
          /\ unsaved' \in BOOLEAN /\ closed' \in BOOLEAN /\ removal' = "none"
      BY <1>1 DEF Inv, TypeOK
    <2> QED
      BY <1>3, <1>4, <1>5, <1>6, <2>1, <2>2 DEF TypeOK
  <1>8. AsksNoKey(entry') /\ Remembers(entry') /\ Refuses(entry)'
    BY <1>1, <1>2 DEF Refuses, writeRefusal
  <1> QED
    BY <1>1, <1>3, <1>5, <1>6, <1>7, <1>8 DEF Inv, Clean

LEMMA ReadSecretKeeps == ASSUME Inv, readSecret PROVE Inv'
  <1>1. UNCHANGED <<secret, started, file, disk, unsaved, closed, removal, keyring, counts, last>>
    BY DEF readSecret
  <1>2. /\ entry' \in Entries /\ (AsksNoKey(entry) => AsksNoKey(entry'))
        /\ Remembers(entry') /\ Refuses(entry')
        /\ jobs' = jobs \/ jobs' = Append(jobs, startRead)
    <2>1. CASE entry' = [entry EXCEPT !.stored = file.copy, !.retry = FALSE]
      <3>1. file.copy # Unread /\ file.copy \in Value
        BY SecretKeysAssumption DEF Inv, TypeOK, Value, NoKey, Unread
      <3> QED
        BY <2>1, <3>1 DEF readSecret, Inv, TypeOK, AsksNoKey, Remembers, Refuses
    <2>2. CASE entry' = [entry EXCEPT !.reading = TRUE]
      BY <2>2 DEF readSecret, Inv, TypeOK, AsksNoKey, Remembers, Refuses
    <2> QED
      BY <2>1, <2>2 DEF readSecret
  <1>3. startRead \in Job /\ startRead.by \notin Own /\ Keyless(startRead)
    BY DEF startRead, AJob, Job, Value, Keyless, Own
  <1>4. /\ jobs' \in Seq(Job) /\ RemovalFits(jobs', removal)
        /\ AllKeyless(jobs) => AllKeyless(jobs')
    <2>1. jobs \in Seq(Job) /\ RemovalFits(jobs, removal)
      BY DEF Inv, TypeOK
    <2> HIDE DEF startRead
    <2>2. CASE jobs' = Append(jobs, startRead)
      BY <1>3, <2>1, <2>2, MoreFits, OneMore
    <2> QED
      BY <1>2, <2>1, <2>2
  <1> QED
    BY <1>1, <1>2, <1>4 DEF Inv, TypeOK, Clean, Refuses, writeRefusal

LEMMA FileKeeps ==
    ASSUME Inv, retryCommit \/ FileSaves \/ RetryExpires \/ UNCHANGED vars
    PROVE  Inv'
  <1>1. /\ UNCHANGED <<secret, started, file, closed, removal, keyring, jobs, counts>>
        /\ disk' \in {file, disk} /\ unsaved' \in BOOLEAN
    BY DEF retryCommit, FileSaves, RetryExpires, vars, Inv, TypeOK
  <1>2. /\ entry' \in Entries /\ (AsksNoKey(entry) => AsksNoKey(entry'))
        /\ Remembers(entry') /\ Refuses(entry')
    <2>1. \/ entry' = entry \/ entry' = [entry EXCEPT !.commitRefused = FALSE]
          \/ entry' = [entry EXCEPT !.retry = FALSE]
      BY DEF retryCommit, FileSaves, RetryExpires, vars
    <2> QED
      BY <2>1 DEF Inv, TypeOK, AsksNoKey, Remembers, Refuses
  <1>3. last' \in Lasts /\ last'.removed = last.removed
    <2>1. CASE UNCHANGED last
      BY <2>1 DEF Inv, TypeOK
    <2>2. CASE retryCommit /\ last' # last
      <3>1. last' = [last EXCEPT !.value = entry.stored, !.state = "stored"]
        BY <2>2 DEF retryCommit
      <3>2. entry.stored \in Value
        BY <2>2 DEF retryCommit, Inv, TypeOK, Remembers
      <3> QED
        BY <3>1, <3>2 DEF Inv, TypeOK
    <2> QED
      BY <2>1, <2>2 DEF retryCommit, FileSaves, RetryExpires, vars
  <1> QED
    BY <1>1, <1>2, <1>3 DEF Inv, TypeOK, Clean, Refuses, writeRefusal

-----------------------------------------------------------------------------
(* The removal, and the jobs' answers. *)

LEMMA DeleteKeeps == ASSUME Inv, deleteKeyringSecrets PROVE Inv'
  <1> DEFINE job == AJob("delete", NoKey, "removal")
  <1>1. /\ removal' = "deleting" /\ entry' = drop(entry) /\ jobs' = Append(jobs, job)
        /\ UNCHANGED <<secret, started, file, disk, unsaved, closed, keyring>>
        /\ last' = [last EXCEPT !.state = "none", !.hidden = FALSE, !.removed = FALSE]
        /\ removal = "none"
    BY DEF deleteKeyringSecrets, writeRefusal
  <1>2. job \in Job /\ job.by = "removal" /\ job.kind = "delete"
    BY DEF AJob, Job, Value
  <1>3. jobs \in Seq(Job) /\ RemovalFits(jobs, removal)
    BY DEF Inv, TypeOK
  <1> HIDE DEF job
  <1>4. jobs' \in Seq(Job) /\ RemovalFits(jobs', removal')
    BY <1>1, <1>2, <1>3, MoreFits, OneMore DEF Removing
  <1>5. entry' \in Entries /\ Remembers(entry') /\ Refuses(entry)'
    BY <1>1 DEF Inv, TypeOK, drop, Remembers, Refuses
  <1>6. counts' \in [requests : 0..MaxRequests, starts : 0..MaxStarts]
    <2>1. counts.requests < MaxRequests /\ counts' = [counts EXCEPT !.requests = @ + 1]
      BY DEF deleteKeyringSecrets
    <2> QED
      BY <2>1, SecretBoundsAssumption DEF Inv, TypeOK
  <1>7. last' \in Lasts /\ last'.removed = FALSE
    BY <1>1 DEF Inv, TypeOK
  <1>8. /\ secret' \in Secrets /\ started' \in BOOLEAN /\ file' \in FileSays /\ disk' \in FileSays
        /\ unsaved' \in BOOLEAN /\ closed' \in BOOLEAN /\ keyring' \in Value
    BY <1>1 DEF Inv, TypeOK
  <1> QED
    BY <1>1, <1>4, <1>5, <1>6, <1>7, <1>8 DEF Inv, TypeOK

LEMMA FinishRemovalKeeps == ASSUME Inv, finishRemoval PROVE Inv'
  <1>1. PICK othersMarked \in BOOLEAN, older \in BOOLEAN, saved \in BOOLEAN :
          /\ disk' = IF saved THEN file' ELSE disk
          /\ unsaved' = (unsaved /\ ~saved)
          /\ closed' = (older /\ (saved \/ ~(file.hidden \/ othersMarked)))
          /\ last' = [last EXCEPT !.removed = removal = "deleted" /\ saved]
    BY DEF finishRemoval
  <1>2. /\ removal \in {"deleted", "kept"} /\ removal' = "none"
        /\ entry' = [entry EXCEPT !.stored = Unread, !.retry = FALSE, !.commitRefused = FALSE]
        /\ file' = [NothingSaid EXCEPT !.hidden = file.hidden]
        /\ UNCHANGED <<secret, started, keyring, jobs, counts>>
    BY DEF finishRemoval
  <1>3. entry.waiting = NoRequest /\ entry.writing = NoRequest
    BY <1>2 DEF Inv, Refuses, writeRefusal
  <1>4. entry' \in Entries /\ AsksNoKey(entry') /\ Remembers(entry') /\ Refuses(entry)'
    BY <1>2, <1>3, NoRequestHasNoKey DEF Inv, TypeOK, AsksNoKey, Remembers, Refuses
  <1>5. file' \in FileSays /\ file'.copy = NoKey
    BY <1>2 DEF NothingSaid, Always, Inv, TypeOK, Value
  <1>6. disk' \in FileSays /\ unsaved' \in BOOLEAN /\ closed' \in BOOLEAN
    BY <1>1, <1>5 DEF Inv, TypeOK
  <1>7. last' \in Lasts /\ (last'.removed => removal = "deleted" /\ disk' = file')
    BY <1>1 DEF Inv, TypeOK
  <1>8. RemovalFits(jobs', removal')
    BY <1>2 DEF Inv, RemovalFits, Own
  <1>9. Clean' <=> Clean
    BY <1>2 DEF Clean
  <1>10. /\ secret' \in Secrets /\ started' \in BOOLEAN /\ keyring' \in Value /\ jobs' \in Seq(Job)
         /\ counts' \in [requests : 0..MaxRequests, starts : 0..MaxStarts]
    BY <1>2 DEF Inv, TypeOK
  <1> QED
    BY <1>2, <1>4, <1>5, <1>6, <1>7, <1>8, <1>9, <1>10 DEF Inv, TypeOK

LEMMA AnswerKeeps == ASSUME Inv, answerWithoutKeyring PROVE Inv'
  <1>1. /\ entry.answer \in {"ok", "failed", "noKeyring"} /\ finishWrite(entry.answer, jobs)
        /\ UNCHANGED <<secret, started, closed, removal, keyring, counts>>
    BY DEF answerWithoutKeyring, Inv, TypeOK
  <1>2. TypeOK /\ jobs \in Seq(Job) /\ RemovalFits(jobs, removal)
        /\ Remembers(entry) /\ Refuses(entry)
    BY DEF Inv, TypeOK
  <1>3. /\ Remembers(entry') /\ Refuses(entry')
        /\ entry' \in Entries /\ jobs' \in Seq(Job) /\ file' \in FileSays /\ disk' \in FileSays
        /\ unsaved' \in BOOLEAN /\ last' \in Lasts /\ last'.removed = last.removed
        /\ RemovalFits(jobs', removal)
        /\ (removal # "none" \/ AsksNoKey(entry)) /\ AllKeyless(jobs) => AllKeyless(jobs')
        /\ AsksNoKey(entry) /\ file.copy = NoKey /\ disk.copy = NoKey =>
             AsksNoKey(entry') /\ file'.copy = NoKey /\ disk'.copy = NoKey
    BY <1>1, <1>2, FinishWriteFits
  <1> QED
    BY <1>1, <1>3 DEF Inv, TypeOK, Clean, Refuses, writeRefusal

(* What a job's answer leaves, of a queue that fits. *)
LEMMA AnsweredKeeps ==
    ASSUME Inv, NEW job \in Job, NEW ok \in BOOLEAN, NEW queue, answered(job, ok, queue),
           queue \in Seq(Job), RemovalFits(queue, removal), AllKeyless(jobs) => AllKeyless(queue),
           keyring' \in Value, Clean => keyring' = NoKey,
           job.by \in Own => \A other : RemovalFits(queue, other),
           job.by = "removal" /\ ok => keyring' = NoKey /\ AllKeyless(queue),
           job.by \in Own => removal \in Removing,
           UNCHANGED <<secret, started, closed, counts>>
    PROVE  Inv'
  <1>0. TypeOK /\ RemovalFits(queue, removal) /\ Remembers(entry) /\ Refuses(entry)
    BY DEF Inv
  <1>1. CASE job.by = "write"
    <2>1. finishWrite(IF ok THEN "ok" ELSE "failed", queue) /\ UNCHANGED removal
      BY <1>1 DEF answered
    <2>2. /\ Remembers(entry') /\ Refuses(entry')
          /\ entry' \in Entries /\ jobs' \in Seq(Job) /\ file' \in FileSays /\ disk' \in FileSays
          /\ unsaved' \in BOOLEAN /\ last' \in Lasts /\ last'.removed = last.removed
          /\ RemovalFits(jobs', removal)
          /\ (removal # "none" \/ AsksNoKey(entry)) /\ AllKeyless(queue) => AllKeyless(jobs')
          /\ AsksNoKey(entry) /\ file.copy = NoKey /\ disk.copy = NoKey =>
               AsksNoKey(entry') /\ file'.copy = NoKey /\ disk'.copy = NoKey
      <3>1. CASE ok
        BY <1>0, <2>1, <3>1, FinishWriteFits
      <3>2. CASE ~ok
        BY <1>0, <2>1, <3>2, FinishWriteFits
      <3> QED
        BY <3>1, <3>2
    <2> QED
      BY <2>1, <2>2 DEF Inv, TypeOK, Clean, Refuses, writeRefusal
  <1>2. CASE job.by = "read"
    <2>1. finishRead(ok) /\ jobs' = queue /\ UNCHANGED <<file, disk, unsaved, removal, last>>
      BY <1>2 DEF answered
    <2>2. /\ entry' \in Entries /\ Remembers(entry') /\ Refuses(entry')
          /\ (AsksNoKey(entry) => AsksNoKey(entry'))
      <3>1. keyring # Unread /\ keyring \in Value
        BY <1>0, SecretKeysAssumption DEF TypeOK, Value, NoKey, Unread
      <3> QED
        BY <1>0, <2>1, <3>1 DEF finishRead, TypeOK, Remembers, Refuses, AsksNoKey
    <2> QED
      BY <2>1, <2>2 DEF Inv, TypeOK, Clean, Refuses, writeRefusal
  <1>3. CASE job.by = "removal"
    <2>1. removeNext(ok, queue) /\ UNCHANGED <<entry, disk, last>>
      BY <1>3 DEF answered
    <2>2. file' \in FileSays /\ (file.copy = NoKey => file'.copy = NoKey) /\ unsaved' \in BOOLEAN
      BY <1>0, <2>1 DEF removeNext, TypeOK, Always
    <2>3. \A other : RemovalFits(queue, other)
      BY <1>3 DEF Own
    <2>4. /\ jobs' \in Seq(Job) /\ RemovalFits(jobs', removal') /\ (AllKeyless(queue) => AllKeyless(jobs'))
          /\ removal' \in {"deleted", "reading", "kept"}
          /\ removal' = "deleted" => ok
      <3>1. CASE ~ok /\ Always
        <4> DEFINE read == AJob("read", NoKey, "removalRead")
        <4>1. jobs' = Append(queue, read) /\ removal' = "reading"
          BY <2>1, <3>1 DEF removeNext
        <4>2. read \in Job /\ read.by = "removalRead" /\ read.kind = "read" /\ Keyless(read)
          BY DEF AJob, Job, Value, Keyless
        <4> HIDE DEF read
        <4> QED
          BY <2>3, <4>1, <4>2, MoreFits, OneMore
      <3>2. CASE ~(~ok /\ Always)
        BY <2>1, <2>3, <3>2 DEF removeNext
      <3> QED
        BY <3>1, <3>2
    <2>5. Refuses(entry)'
      BY <1>0, <1>3, <2>1 DEF Refuses, writeRefusal, Own, Removing
    <2>6. Remembers(entry)'
      BY <1>0, <2>1 DEF Remembers
    <2> QED
      BY <1>0, <1>3, <2>1, <2>2, <2>4, <2>5, <2>6 DEF Inv, TypeOK, Clean
  <1>4. CASE job.by = "removalRead"
    <2>1. hideWhatIsKept(ok) /\ jobs' = queue /\ UNCHANGED <<entry, disk, last>>
      BY <1>4 DEF answered
    <2>2. file' \in FileSays /\ file'.copy = file.copy /\ unsaved' \in BOOLEAN /\ removal' = "kept"
      BY <1>0, <2>1 DEF hideWhatIsKept, TypeOK
    <2>3. RemovalFits(jobs', removal')
      BY <1>4, <2>1 DEF Own
    <2>4. Refuses(entry)' /\ Remembers(entry)'
      BY <1>0, <1>4, <2>1 DEF Refuses, Remembers, writeRefusal, Own, Removing
    <2> QED
      BY <1>0, <2>1, <2>2, <2>3, <2>4 DEF Inv, TypeOK, Clean
  <1>5. CASE job.by = "nobody"
    <2>1. jobs' = queue /\ UNCHANGED <<entry, file, disk, unsaved, removal, last>>
      BY <1>5 DEF answered
    <2> QED
      BY <1>0, <2>1 DEF Inv, TypeOK, Clean, Refuses, Remembers, writeRefusal
  <1> QED
    BY <1>1, <1>2, <1>3, <1>4, <1>5 DEF Job

(* The oldest job runs: a removal's deletion leaves no key, and none to come. *)
LEMMA JobRunsKeeps == ASSUME Inv, JobRuns PROVE Inv'
  <1> DEFINE job == Head(jobs)
             queue == Tail(jobs)
  <1>1. PICK ok \in BOOLEAN : /\ keyring' = IF ok THEN Done(job) ELSE keyring
                              /\ answered(job, ok, queue)
    BY DEF JobRuns
  <1>2. jobs # <<>> /\ UNCHANGED <<secret, started, closed, counts>>
    BY DEF JobRuns
  <1>3. jobs \in Seq(Job) /\ RemovalFits(jobs, removal) /\ keyring \in Value
    BY DEF Inv, TypeOK
  <1>4. job \in Job /\ job = jobs[1] /\ 1 \in DOMAIN jobs /\ queue \in Seq(Job)
    BY <1>2, <1>3, HeadTaken
  <1>5. /\ RemovalFits(queue, removal)
        /\ AllKeyless(jobs) => AllKeyless(queue)
        /\ job.by = "removal" => AllKeyless(queue)
        /\ job.by \in Own => \A other : RemovalFits(queue, other)
    BY <1>2, <1>3, <1>4, TailFits
  <1>6. job.by \in Own => removal \in Removing /\ (job.by = "removal" => job.kind = "delete")
    BY <1>3, <1>4 DEF RemovalFits, Own, Removing
  <1>7. Clean => Keyless(job)
    BY <1>4 DEF Clean, AllKeyless
  <1> HIDE DEF job, queue
  <1>8. keyring' \in Value /\ (Clean => keyring' = NoKey)
    BY <1>1, <1>3, <1>4, <1>7 DEF Done, Job, Value, Keyless, Clean
  <1>9. job.by = "removal" /\ ok => keyring' = NoKey
    BY <1>1, <1>6 DEF Done, Own
  <1> QED
    BY <1>1, <1>2, <1>4, <1>5, <1>6, <1>8, <1>9, AnsweredKeeps

(* A job's timeout answers a refusal, and may leave the job to run in its turn. *)
LEMMA TimesOutKeeps == ASSUME Inv, JobTimesOut PROVE Inv'
  <1>1. PICK i \in DOMAIN jobs :
          /\ answered(jobs[i], FALSE,
                IF jobs[i].kind = "read" \/ (jobs[i].kind = "write" /\ secret \notin LateWrites)
                THEN RemoveAt(jobs, i) ELSE [jobs EXCEPT ![i].by = "nobody"])
          /\ UNCHANGED <<secret, started, closed, keyring, counts>>
    BY DEF JobTimesOut
  <1>2. jobs \in Seq(Job) /\ RemovalFits(jobs, removal) /\ keyring' \in Value
    BY <1>1 DEF Inv, TypeOK
  <1>3. jobs[i] \in Job
    BY <1>2, JobOf
  <1>4. PICK queue \in Seq(Job) :
          /\ answered(jobs[i], FALSE, queue) /\ RemovalFits(queue, removal)
          /\ AllKeyless(jobs) => AllKeyless(queue)
          /\ jobs[i].by \in Own => \A other : RemovalFits(queue, other)
    <2>1. CASE jobs[i].kind = "read" \/ (jobs[i].kind = "write" /\ secret \notin LateWrites)
      <3>1. answered(jobs[i], FALSE, RemoveAt(jobs, i))
        BY <1>1, <2>1
      <3>2. RemoveAt(jobs, i) \in Seq(Job)
        BY <1>2, OneTaken
      <3>3. /\ RemovalFits(RemoveAt(jobs, i), removal)
            /\ AllKeyless(jobs) => AllKeyless(RemoveAt(jobs, i))
            /\ jobs[i].by \in Own => \A other : RemovalFits(RemoveAt(jobs, i), other)
        BY <1>2, TakenFits
      <3> QED
        BY <3>1, <3>2, <3>3
    <2>2. CASE ~(jobs[i].kind = "read" \/ (jobs[i].kind = "write" /\ secret \notin LateWrites))
      <3> DEFINE left == [jobs EXCEPT ![i].by = "nobody"]
      <3>1. answered(jobs[i], FALSE, left)
        BY <1>1, <2>2
      <3>2. left \in Seq(Job)
        BY <1>2, OneGivenUp
      <3>3. /\ RemovalFits(left, removal)
            /\ AllKeyless(jobs) => AllKeyless(left)
            /\ jobs[i].by \in Own => \A other : RemovalFits(left, other)
        BY <1>2, GivenUpFits
      <3> HIDE DEF left
      <3> QED
        BY <3>1, <3>2, <3>3
    <2> QED
      BY <2>1, <2>2
  <1>5. jobs[i].by \in Own => removal \in Removing
    BY <1>2 DEF RemovalFits, Own, Removing
  <1>6. Clean => keyring' = NoKey
    BY <1>1 DEF Clean
  <1> QED
    BY <1>1, <1>2, <1>3, <1>4, <1>5, <1>6, AnsweredKeeps

-----------------------------------------------------------------------------
(* The theorems. *)

LEMMA InitInv == Init => Inv
  <1> SUFFICES ASSUME Init PROVE Inv
    OBVIOUS
  <1>1. /\ entry = NewEntry /\ jobs = <<>> /\ removal = "none" /\ keyring = NoKey /\ ~closed
        /\ last = [value |-> NoKey, state |-> "none", hidden |-> FALSE, removed |-> FALSE]
    BY DEF Init
  <1>2. NewEntry \in Entries /\ Remembers(NewEntry)
    BY DEF NewEntry, Remembers
  <1>3. file \in FileSays /\ disk = file
    BY DEF Init, NothingSaid, Always, Value
  <1>4. /\ secret \in Secrets /\ ~started /\ ~unsaved
        /\ counts \in [requests : 0..MaxRequests, starts : 0..MaxStarts]
    BY SecretBoundsAssumption DEF Init
  <1>5. last \in Lasts /\ last.removed = FALSE /\ keyring \in Value
    BY <1>1 DEF Value
  <1>6. jobs \in Seq(Job) /\ RemovalFits(jobs, removal)
    BY <1>1 DEF RemovalFits
  <1>7. started \in BOOLEAN /\ unsaved \in BOOLEAN /\ closed \in BOOLEAN
    BY DEF Init
  <1>8. Refuses(entry)
    BY <1>1 DEF Refuses, writeRefusal
  <1>9. TypeOK
    BY <1>1, <1>2, <1>3, <1>4, <1>5, <1>6, <1>7 DEF TypeOK
  <1> QED
    BY <1>1, <1>2, <1>5, <1>6, <1>8, <1>9 DEF Inv

LEMMA NextInv == Inv /\ [Next]_vars => Inv'
  <1> SUFFICES ASSUME Inv, [Next]_vars PROVE Inv'
    OBVIOUS
  <1> QED
    BY StartKeeps, RestartKeeps, SaveSecretKeeps, ReadSecretKeeps, FileKeeps, AnswerKeeps,
       DeleteKeeps, FinishRemovalKeeps, JobRunsKeeps, TimesOutKeeps DEF Next

LEMMA InvHolds == Spec => []Inv
  BY InitInv, NextInv, PTL DEF Spec

(* The store's state has its type: what saveFinished() tells as stored, for one,
   is a key the store remembers, never the mark of one it has not read. *)
THEOREM SecretTypeCorrect == Spec => []TypeOK
  <1>1. Inv => TypeOK
    BY DEF Inv
  <1> QED
    BY <1>1, InvHolds, PTL

(* After a removal that says it deleted the keys (finishRemoval()), neither the
   keyring nor the settings file has one again: not from a write the keyring takes
   after its timeout was told, nor from a request that waited when it began. *)
THEOREM RemovedStaysGone == Spec => []RemovedIsGone
  <1>1. Inv => RemovedIsGone
    BY DEF Inv, RemovedIsGone, Clean
  <1> QED
    BY <1>1, InvHolds, PTL

-----------------------------------------------------------------------------
(* What was told as stored. *)

(* A reader of the file looks for the key in the keyring. *)
Open(f) == ~f.hidden /\ f.copy = NoKey /\ f.inKeyring

(* Where the store may tell wrongly: a write lands after its timeout was told,
   though the file may not keep its key; or the settings file of a removal can be
   neither saved nor deleted. *)
NoQuirks == StuckFiles = {} /\ LateWrites \cap (OpenFolders \cup {OpenAiApiKey}) = {}

AllRead(queue) == \A i \in DOMAIN queue : queue[i].kind = "read"

(* The request being written has a job of its own, the last to store anything,
   unless it needs none; a removal's job is the last of all. *)
WriteFits(e, queue, i) ==
    /\ e.phase # "Idle" /\ e.answer = "none"
    /\ \A j \in DOMAIN queue : queue[j].by = "write" => i = j
    /\ e.writing # NoRequest =>
         /\ queue[i].value = e.writing.value
         /\ queue[i].kind = IF e.writing.value = NoKey THEN "delete" ELSE "write"
         /\ \A j \in DOMAIN queue : i < j => queue[j].kind = "read"
Fits(e, queue) ==
    /\ e.phase = "Writing" <=> e.writing # NoRequest
    /\ e.phase = "Idle" => e.answer = "none"
    /\ \A i \in DOMAIN queue :
         /\ queue[i].by \in {"read", "removalRead"} => queue[i].kind = "read"
         /\ queue[i].by \in Own => \A j \in DOMAIN queue : j <= i
         /\ queue[i].by = "write" => WriteFits(e, queue, i)

Rests(e) == e.phase = "Idle" => e.waiting = NoRequest

(* Where a reader looks at the keyring, no job changes it but that of the request
   being written, and the store remembers what it holds. *)
Quiet(e, f, queue) ==
    Open(f) => \A i \in DOMAIN queue :
        queue[i].kind # "read" => queue[i].by = "write" /\ e.writing # NoRequest
Known(e, f, value) == Open(f) /\ e.stored # Unread => value = e.stored

(* What is left to commit is what a reader of the file would find. *)
Commits(e, f) == e.commitRefused /\ ~f.hidden /\ ~Open(f) => e.stored = f.copy

(* A request that needs no keyring asks for what storage holds. *)
Answers(e, f) ==
    /\ e.answer = "noKeyring" /\ e.writing # NoRequest =>
         /\ ~e.writing.migrating /\ e.stored = e.writing.value
         /\ f.hidden => e.waiting # NoRequest
         /\ ~f.hidden /\ ~Open(f) => f.copy = e.writing.value
    /\ e.answer = "ok" /\ e.writing # NoRequest => e.writing.value = NoKey /\ ~f.inKeyring

(* One of a migration asks for what the file says, and is the first. *)
Moves(request, f) ==
    request # NoRequest /\ request.migrating =>
        f.hidden \/ (request.value # NoKey /\ f.copy = request.value)
Migrates(e, f) ==
    /\ Moves(e.writing, f) /\ Moves(e.waiting, f)
    /\ e.phase # "Idle" /\ e.waiting # NoRequest => ~e.waiting.migrating

(* Only the key every start looks up may not go to the file. *)
MayFallBack(request) ==
    request # NoRequest /\ ~request.migrating => (request.fallBack <=> ~Always)
FallsBack(e) == MayFallBack(e.writing) /\ MayFallBack(e.waiting)

(* A clear hides the key where a reader could find it. *)
IsClear(request) == request # NoRequest /\ request.value = NoKey /\ ~request.migrating
Clears(e, f) ==
    /\ IsClear(newest(e)) => f.hidden \/ (f.copy = NoKey /\ (~f.inKeyring \/ e.stored = NoKey))
    /\ IsClear(e.waiting) /\ e.phase = "Writing" => f.hidden

Sound(e, f, queue, value) ==
    /\ Quiet(e, f, queue) /\ Known(e, f, value) /\ Commits(e, f) /\ Answers(e, f)
    /\ Migrates(e, f) /\ FallsBack(e) /\ Clears(e, f)

(* A removal is the last to use the keyring, and leaves a file that hides what
   it could not delete. *)
Removes ==
    /\ removal = "deleted" => jobs = <<>>
    /\ removal = "kept" /\ Always => file.hidden \/ jobs = <<>>

(* The answer that StoredSurvives is about, which only a migration follows. *)
Told == last.state = "stored" \/ (last.state = "refused" /\ last.hidden)
TellsTrue ==
    /\ writeRefusal => ~last.hidden /\ last.state # "stored"
    /\ Told =>
         /\ entry.waiting = NoRequest
         /\ entry.writing = NoRequest \/ (entry.writing.migrating /\ entry.writing.value = last.value)
         /\ Found(file, keyring) = last.value
         /\ disk = file \/ (~Open(disk) /\ Found(disk, keyring) = last.value)

Saved == ~unsaved => disk = file
Fresh == ~started => entry = NewEntry /\ jobs = <<>> /\ ~writeRefusal

Honest ==
    /\ Fresh /\ Fits(entry, jobs) /\ Rests(entry) /\ Removes
    /\ removal = "none" => Sound(entry, file, jobs, keyring) /\ Saved
    /\ Always => file.inKeyring /\ disk.inKeyring
    /\ TellsTrue

-----------------------------------------------------------------------------
(* The jobs, when one is taken out, given up or added. *)

(* Taking a job out of its place keeps the order of the others. *)
LEMMA FitsWithout ==
    ASSUME NEW queue \in Seq(Job), NEW k \in 1..Len(queue), NEW left \in Seq(Job), NEW e,
           DOMAIN left = 1..Len(queue) - 1,
           \A i \in 1..Len(queue) - 1 : left[i] = IF i < k THEN queue[i] ELSE queue[i + 1],
           Fits(e, queue)
    PROVE  /\ Fits(e, left)
           /\ queue[k].by = "write" => \A i \in DOMAIN left : left[i].by # "write"
           /\ \A i \in DOMAIN left : \E j \in DOMAIN queue : j # k /\ left[i] = queue[j]
  <1>1. Len(queue) \in Nat /\ DOMAIN queue = 1..Len(queue) /\ k \in Nat
    BY LenProperties
  <1> DEFINE at(i) == IF i < k THEN i ELSE i + 1
  <1>2. \A i \in DOMAIN left :
          /\ i \in Nat /\ at(i) \in Nat /\ at(i) \in DOMAIN queue
          /\ left[i] = queue[at(i)] /\ at(i) # k
    BY <1>1
  <1>3. \A i, j \in DOMAIN left :
          /\ (i < j => at(i) < at(j)) /\ (at(j) <= at(i) => j <= i) /\ (at(i) = at(j) => i = j)
    <2>1. \A i, j \in Nat :
            /\ (i < j => at(i) < at(j)) /\ (at(j) <= at(i) => j <= i) /\ (at(i) = at(j) => i = j)
      BY <1>1
    <2> QED
      BY <1>2, <2>1
  <1> HIDE DEF at
  <1>4. ASSUME NEW i \in DOMAIN left
        PROVE  /\ left[i].by \in {"read", "removalRead"} => left[i].kind = "read"
               /\ left[i].by \in Own => \A j \in DOMAIN left : j <= i
               /\ left[i].by = "write" => WriteFits(e, left, i)
    <2>1. left[i] = queue[at(i)] /\ at(i) \in DOMAIN queue
      BY <1>2
    <2>2. left[i].by \in {"read", "removalRead"} => left[i].kind = "read"
      BY <2>1 DEF Fits
    <2>3. left[i].by \in Own => \A j \in DOMAIN left : j <= i
      BY <1>2, <1>3, <2>1 DEF Fits
    <2>4. left[i].by = "write" => WriteFits(e, left, i)
      <3>1. ASSUME left[i].by = "write" PROVE WriteFits(e, queue, at(i))
        BY <2>1, <3>1 DEF Fits
      <3> QED
        BY <1>2, <1>3, <2>1, <3>1 DEF WriteFits
    <2> QED
      BY <2>2, <2>3, <2>4
  <1>5. Fits(e, left)
    BY <1>4 DEF Fits
  <1>6. queue[k].by = "write" => \A i \in DOMAIN left : left[i].by # "write"
    <2>1. ASSUME queue[k].by = "write" PROVE WriteFits(e, queue, k)
      BY <1>1, <2>1 DEF Fits
    <2> QED
      BY <1>1, <1>2, <2>1 DEF WriteFits
  <1> QED
    BY <1>2, <1>5, <1>6

LEMMA FitsGivenUp ==
    ASSUME NEW queue \in Seq(Job), NEW k \in DOMAIN queue, NEW e, Fits(e, queue)
    PROVE  LET left == [queue EXCEPT ![k].by = "nobody"] IN
           /\ Fits(e, left)
           /\ queue[k].by = "write" => \A i \in DOMAIN left : left[i].by # "write"
           /\ \A i \in DOMAIN left : left[i].kind = queue[i].kind /\ i \in DOMAIN queue
  <1> DEFINE left == [queue EXCEPT ![k].by = "nobody"]
  <1>1. /\ DOMAIN left = DOMAIN queue
        /\ \A i \in DOMAIN queue :
             /\ left[i].kind = queue[i].kind /\ left[i].value = queue[i].value
             /\ left[i].by = IF i = k THEN "nobody" ELSE queue[i].by
    BY OneGivenUp
  <1> HIDE DEF left
  <1>2. ASSUME NEW i \in DOMAIN left, left[i].by = "write" PROVE WriteFits(e, left, i)
    <2>1. WriteFits(e, queue, i) /\ queue[i].by = "write"
      BY <1>1, <1>2 DEF Fits
    <2> QED
      BY <1>1, <2>1 DEF WriteFits
  <1>3. Fits(e, left)
    BY <1>1, <1>2 DEF Fits, Own
  <1>4. queue[k].by = "write" => \A i \in DOMAIN left : left[i].by # "write"
    <2>1. ASSUME queue[k].by = "write" PROVE WriteFits(e, queue, k)
      BY <2>1 DEF Fits
    <2> QED
      BY <1>1, <2>1 DEF WriteFits
  <1> QED
    BY <1>1, <1>3, <1>4 DEF left

(* A job more, where no removal goes on: a read, the removal's, or the one of the
   request whose turn it is. *)
LEMMA FitsMore ==
    ASSUME NEW queue \in Seq(Job), NEW job \in Job, NEW e, NEW next, Fits(e, queue),
           \A i \in DOMAIN queue : queue[i].by \notin Own,
           next.phase = "Writing" <=> next.writing # NoRequest,
           next.phase = "Idle" => next.answer = "none",
           job.by \in {"read", "removalRead"} => job.kind = "read",
           \/ /\ job.by # "write"
              /\ \A i \in DOMAIN queue : queue[i].by = "write" =>
                   /\ next.answer = e.answer /\ next.phase # "Idle"
                   /\ next.writing \in {e.writing, NoRequest}
              /\ job.kind = "read" \/ next.writing = NoRequest
           \/ /\ job.by = "write" /\ e.phase = "Idle" /\ next.phase = "Writing"
              /\ next.answer = "none" /\ job.value = next.writing.value
              /\ job.kind = IF job.value = NoKey THEN "delete" ELSE "write"
    PROVE  Fits(next, Append(queue, job))
  <1> DEFINE more == Append(queue, job)
  <1>1. /\ Len(queue) \in Nat /\ DOMAIN queue = 1..Len(queue)
        /\ DOMAIN more = 1..Len(queue) + 1
        /\ \A i \in 1..Len(queue) : more[i] = queue[i]
        /\ more[Len(queue) + 1] = job
    BY OneMore
  <1> HIDE DEF more
  <1>2. \A i \in DOMAIN more : i \in DOMAIN queue \/ i = Len(queue) + 1
    BY <1>1
  <1>3. ASSUME NEW i \in DOMAIN more
        PROVE  /\ more[i].by \in {"read", "removalRead"} => more[i].kind = "read"
               /\ more[i].by \in Own => \A j \in DOMAIN more : j <= i
               /\ more[i].by = "write" => WriteFits(next, more, i)
    <2>1. more[i].by \in {"read", "removalRead"} => more[i].kind = "read"
      BY <1>1, <1>2 DEF Fits
    <2>2. more[i].by \in Own => \A j \in DOMAIN more : j <= i
      BY <1>1, <1>2
    <2>3. ASSUME more[i].by = "write" PROVE WriteFits(next, more, i)
      <3>1. CASE i \in DOMAIN queue
        <4>1. queue[i].by = "write" /\ WriteFits(e, queue, i)
          BY <1>1, <2>3, <3>1 DEF Fits
        <4>2. job.by # "write"
          BY <4>1 DEF WriteFits
        <4> QED
          BY <1>1, <1>2, <3>1, <4>1, <4>2 DEF WriteFits
      <3>2. CASE i = Len(queue) + 1
        <4>1. job.by = "write"
          BY <1>1, <2>3, <3>2
        <4>2. \A j \in DOMAIN queue : queue[j].by # "write"
          BY <4>1 DEF Fits, WriteFits
        <4> QED
          BY <1>1, <1>2, <3>2, <4>1, <4>2 DEF WriteFits
      <3> QED
        BY <1>2, <3>1, <3>2
    <2> QED
      BY <2>1, <2>2, <2>3
  <1> QED
    BY <1>3 DEF Fits, more

-----------------------------------------------------------------------------
(* The store's steps, and what a reader finds. *)

LEMMA NothingWaits == NoRequest \in Requests /\ NoRequest.value = Unread /\ Unread \notin Value
  BY SecretKeysAssumption DEF NoRequest, Value, NoKey, Unread

(* What the rest knows of a file, where a reader does not look at the keyring. *)
LEMMA FoundInFile ==
    ASSUME NEW f \in FileSays, ~Open(f), NEW value, NEW other
    PROVE  Found(f, value) = Found(f, other)
  BY DEF Open, Found

LEMMA FoundInKeyring ==
    ASSUME NEW f \in FileSays, Open(f), NEW value
    PROVE  Found(f, value) = value
  BY DEF Open, Found

(* The waiting request takes its turn. *)
LEMMA GoesOnSound ==
    ASSUME NEW e \in Entries, NEW f \in FileSays, NEW queue \in Seq(Job), NEW value \in Value,
           Fits(e, queue), Refuses(e), GoesOn(e, f, queue),
           e.phase = "Idle" /\ e.waiting # NoRequest =>
               \A i \in DOMAIN queue : queue[i].by \notin Own,
           removal = "none" => Sound(e, f, queue, value)
    PROVE  /\ Fits(entry', jobs') /\ Rests(entry')
           /\ removal = "none" => Sound(entry', f, jobs', value)
           /\ e.waiting = NoRequest => entry' = e /\ jobs' = queue
           /\ e.phase = "Idle" => entry'.waiting = NoRequest /\ entry'.writing = e.waiting
  <1>1. CASE ~(e.phase = "Idle" /\ e.waiting # NoRequest)
    <2>1. entry' = e /\ jobs' = queue \o <<>>
      BY <1>1 DEF GoesOn
    <2>2. jobs' = queue
      BY <2>1, ConcatEmptySeq
    <2>3. e.phase = "Idle" => e.waiting = NoRequest /\ e.writing = NoRequest
      BY <1>1 DEF Fits
    <2> QED
      BY <1>1, <2>1, <2>2, <2>3 DEF Rests
  <1>2. CASE e.phase = "Idle" /\ e.waiting # NoRequest
    <2>1. entry' = writeNext(e, f) /\ jobs' = queue \o WriteJobs(e, f)
      BY <1>2 DEF GoesOn
    <2>2. /\ entry'.writing = e.waiting /\ entry'.waiting = NoRequest /\ entry'.phase = "Writing"
          /\ entry'.answer = Needs(e, f) /\ entry'.stored = e.stored
          /\ entry'.commitRefused = e.commitRefused
      BY <2>1 DEF writeNext
    <2>3. ~writeRefusal /\ removal = "none" /\ e.writing = NoRequest
      BY <1>2 DEF Refuses, Fits, writeRefusal
    <2>4. e.waiting \in Request /\ e.waiting.value \in Value
      BY <1>2, RequestOf
    <2>5. /\ Fits(entry', jobs')
          /\ \A i \in DOMAIN jobs' : jobs'[i].by = "write" \/
               (i \in DOMAIN queue /\ jobs'[i] = queue[i])
      <3>1. CASE Needs(e, f) # "none"
        <4>1. jobs' = queue
          BY <2>1, <3>1, ConcatEmptySeq DEF WriteJobs
        <4>2. \A i \in DOMAIN queue : queue[i].by # "write"
          BY <1>2 DEF Fits, WriteFits
        <4>3. Fits(entry', queue)
          BY <1>2, <2>2, <4>2 DEF Fits
        <4> QED
          BY <4>1, <4>3
      <3>2. CASE Needs(e, f) = "none"
        <4> DEFINE job == AJob(IF e.waiting.value = NoKey THEN "delete" ELSE "write",
                               e.waiting.value, "write")
        <4>1. /\ job \in Job /\ job.by = "write" /\ job.value = e.waiting.value
              /\ job.kind = IF job.value = NoKey THEN "delete" ELSE "write"
          BY <2>4 DEF AJob, Job
        <4>2. jobs' = queue \o <<job>>
          BY <2>1, <3>2 DEF WriteJobs
        <4> HIDE DEF job
        <4>3. jobs' = Append(queue, job)
          BY <4>1, <4>2, OneMore
        <4>4. Fits(entry', Append(queue, job))
          <5>1. \A i \in DOMAIN queue : queue[i].by \notin Own
            BY <1>2
          <5>2. /\ entry'.phase = "Writing" <=> entry'.writing # NoRequest
                /\ entry'.phase = "Idle" => entry'.answer = "none"
            BY <1>2, <2>2
          <5>3. /\ job.by = "write" /\ e.phase = "Idle" /\ entry'.phase = "Writing"
                /\ entry'.answer = "none" /\ job.value = entry'.writing.value
                /\ job.kind = IF job.value = NoKey THEN "delete" ELSE "write"
            BY <1>2, <2>2, <3>2, <4>1
          <5>4. job.by \in {"read", "removalRead"} => job.kind = "read"
            BY <4>1
          <5> QED
            BY <4>1, <5>1, <5>2, <5>3, <5>4, FitsMore
        <4>5. \A i \in DOMAIN Append(queue, job) : Append(queue, job)[i].by = "write" \/
                (i \in DOMAIN queue /\ Append(queue, job)[i] = queue[i])
          <5>1. \A i \in 1..Len(queue) + 1 : i \in 1..Len(queue) \/ i = Len(queue) + 1
            BY OneMore, <4>1
          <5> QED
            BY <4>1, <5>1, OneMore
        <4> QED
          BY <4>3, <4>4, <4>5
      <3> QED
        BY <3>1, <3>2
    <2>6. Rests(entry')
      BY <2>2 DEF Rests
    <2>7. Sound(entry', f, jobs', value)
      <3>0. Sound(e, f, queue, value)
        BY <2>3
      <3>1. Quiet(entry', f, jobs')
        <4>1. Quiet(e, f, queue)
          BY <3>0 DEF Sound
        <4>2. Open(f) => \A i \in DOMAIN queue : queue[i].kind = "read"
          BY <2>3, <4>1 DEF Quiet
        <4> QED
          BY <1>2, <2>2, <2>5, <4>2 DEF Quiet
      <3>2. Known(entry', f, value) /\ Commits(entry', f)
        BY <2>2, <3>0 DEF Sound, Known, Commits
      <3>3. Answers(entry', f)
        <4>1. Needs(e, f) = "noKeyring" => ~e.waiting.migrating /\ holds(e, f, e.waiting)
          BY <2>3 DEF Needs
        <4>2. Needs(e, f) = "ok" => e.waiting.value = NoKey /\ ~f.inKeyring
          BY DEF Needs
        <4> QED
          BY <2>2, <4>1, <4>2 DEF Answers, holds, Open
      <3>4. Migrates(entry', f)
        BY <2>2, <3>0 DEF Sound, Migrates, Moves
      <3>5. FallsBack(entry')
        BY <2>2, <3>0 DEF Sound, FallsBack, MayFallBack
      <3>6. Clears(entry', f)
        BY <1>2, <2>2, <3>0 DEF Sound, Clears, IsClear, newest
      <3> QED
        BY <3>1, <3>2, <3>3, <3>4, <3>5, <3>6 DEF Sound
    <2> QED
      BY <1>2, <2>2, <2>5, <2>6, <2>7
  <1> QED
    BY <1>1, <1>2

(* The types of the state's parts, as the steps below use them. *)
LEMMA InvSays ==
    ASSUME Inv
    PROVE  /\ entry \in Entries /\ file \in FileSays /\ disk \in FileSays /\ last \in Lasts
           /\ unsaved \in BOOLEAN /\ started \in BOOLEAN /\ closed \in BOOLEAN
           /\ jobs \in Seq(Job) /\ keyring \in Value
           /\ removal \in {"none", "deleting", "reading", "deleted", "kept"}
           /\ Remembers(entry) /\ Refuses(entry)
           /\ removal = "none" => \A i \in DOMAIN jobs : jobs[i].by \notin Own
           /\ entry.writing \in Requests /\ entry.waiting \in Requests
  <1>1. removal = "none" => \A i \in DOMAIN jobs : jobs[i].by \notin Own
    BY DEF Inv, RemovalFits, Own
  <1> QED
    BY <1>1 DEF Inv, TypeOK

(* saveSecret(): a clear hides the key before anything saves the file. *)
LEMMA SaveSecretHonest == ASSUME Inv, Honest, saveSecret PROVE Honest'
  <1>1. PICK value \in Value : save(value, ~Always, FALSE)
    BY DEF saveSecret
  <1>2. /\ started /\ UNCHANGED <<secret, started, disk, closed, removal, keyring>>
    BY DEF saveSecret
  <1>3. /\ entry \in Entries /\ file \in FileSays /\ disk \in FileSays /\ last \in Lasts
        /\ unsaved \in BOOLEAN /\ jobs \in Seq(Job) /\ keyring \in Value /\ Refuses(entry)
        /\ removal = "none" => \A i \in DOMAIN jobs : jobs[i].by \notin Own
    BY InvSays
  <1>4. CASE writeRefusal
    <2>1. /\ entry' = drop(entry) /\ UNCHANGED <<file, unsaved, jobs>>
          /\ last' = [last EXCEPT !.value = value, !.state = "refused"]
      BY <1>1, <1>4 DEF save
    <2>2. entry.writing = NoRequest /\ entry.waiting = NoRequest /\ entry.phase # "Writing"
      BY <1>3, <1>4 DEF Refuses, Honest, Fits
    <2>3. entry' = entry
      BY <1>3, <2>1, <2>2 DEF drop
    <2>4. ~last'.hidden /\ last'.state = "refused"
      BY <1>3, <1>4, <2>1 DEF Honest, TellsTrue
    <2>5. TellsTrue'
      BY <2>4 DEF TellsTrue, Told
    <2> QED
      BY <1>2, <2>1, <2>3, <2>5
      DEF Honest, Fresh, Removes, Sound, Saved, Quiet, Known, Answers, FallsBack, MayFallBack,
          Always, Rests, Fits, WriteFits, Open, Commits, Migrates, Clears
  <1>5. CASE ~writeRefusal
    <2> DEFINE marked == IF newest(entry) # NoRequest THEN newest(entry).marked ELSE file.hidden
               request == [value |-> value, fallBack |-> ~Always, migrating |-> FALSE,
                           marked |-> marked]
               says == IF Hides(entry, request) THEN withKeyHidden(file) ELSE file
               next == [entry EXCEPT !.waiting = request]
    <2>0. removal = "none"
      BY <1>5 DEF writeRefusal
    <2>1. request \in Request
      <3>1. newest(entry) # NoRequest => newest(entry) \in Request
        BY <1>3, RequestOf DEF newest
      <3> QED
        BY <1>3, <3>1 DEF Request, Always
    <2>2. request # NoRequest /\ request.value = value /\ ~request.migrating
          /\ (request.fallBack <=> ~Always)
      <3>1. request.value = value /\ ~request.migrating /\ (request.fallBack <=> ~Always)
        OBVIOUS
      <3>2. request # NoRequest
        BY <3>1, NothingWaits
      <3> QED
        BY <3>1, <3>2
    <2>3. /\ GoesOn(next, says, jobs) /\ unsaved' = (unsaved \/ says # file)
          /\ last' = [value |-> value, state |-> "asked", hidden |-> FALSE, removed |-> FALSE]
      BY <1>1, <1>5 DEF save
    <2>4. /\ next \in Entries /\ next.waiting = request /\ next.writing = entry.writing
          /\ next.phase = entry.phase /\ next.answer = entry.answer
          /\ next.stored = entry.stored /\ next.commitRefused = entry.commitRefused
      BY <1>3, <2>1
    <2>5. /\ says \in FileSays /\ says.inKeyring = file.inKeyring
          /\ says = file \/ says.hidden
          /\ Hides(entry, request) => says.hidden
      BY <1>3 DEF withKeyHidden, Value
    <2>6. value = NoKey =>
            Hides(entry, request) \/ (/\ entry.phase # "Writing" /\ file.copy = NoKey
                                      /\ ~file.inKeyring \/ entry.stored = NoKey)
      BY <2>2 DEF Hides, holds
    <2> HIDE DEF request, marked, says, next
    <2>7. Fits(next, jobs) /\ Refuses(next)
      BY <1>5, <2>4 DEF Honest, Fits, WriteFits, Refuses
    <2>8. Sound(next, says, jobs, keyring)
      <3>0. Sound(entry, file, jobs, keyring)
        BY <2>0 DEF Honest
      <3>1. Open(says) => says = file
        BY <2>5 DEF Open
      <3>2. Quiet(next, says, jobs) /\ Known(next, says, keyring)
        BY <2>4, <3>0, <3>1 DEF Sound, Quiet, Known
      <3>3. Commits(next, says) /\ Answers(next, says)
        BY <2>2, <2>4, <2>5, <3>0 DEF Sound, Commits, Answers, Open
      <3>4. Migrates(next, says)
        BY <2>2, <2>4, <2>5, <3>0 DEF Sound, Migrates, Moves
      <3>5. FallsBack(next)
        BY <2>2, <2>4, <3>0 DEF Sound, FallsBack, MayFallBack
      <3>6. Clears(next, says)
        BY <2>2, <2>4, <2>5, <2>6 DEF Clears, IsClear, newest
      <3> QED
        BY <3>2, <3>3, <3>4, <3>5, <3>6 DEF Sound
    <2>9. file' = says
      BY <2>3 DEF GoesOn
    <2>10. /\ Fits(entry', jobs') /\ Rests(entry')
           /\ Sound(entry', says, jobs', keyring)
      BY <1>3, <2>0, <2>3, <2>4, <2>5, <2>7, <2>8, GoesOnSound
    <2>11. TellsTrue'
      BY <1>2, <1>5, <2>3 DEF TellsTrue, Told
    <2>12. Saved'
      BY <1>2, <1>3, <2>0, <2>3, <2>9 DEF Saved, Honest
    <2>13. (Always => file.inKeyring /\ disk.inKeyring)'
      BY <1>2, <2>5, <2>9 DEF Honest, Always
    <2>14. Fits(entry, jobs)' /\ Rests(entry)' /\ Sound(entry, file, jobs, keyring)'
      BY <1>2, <2>9, <2>10
      DEF Fits, WriteFits, Rests, Sound, Quiet, Known, Commits, Answers, Migrates, FallsBack,
          Clears, MayFallBack, Always
    <2>15. Fresh' /\ Removes'
      BY <1>2, <2>0 DEF Fresh, Removes
    <2> QED
      BY <2>11, <2>12, <2>13, <2>14, <2>15 DEF Honest
  <1> QED
    BY <1>4, <1>5

(* migrateSettingsFallbacks() asks for what the file says, or prefetch() reads. *)
LEMMA StartHonest == ASSUME Inv, Honest, Start PROVE Honest'
  <1>1. UNCHANGED <<secret, disk, closed, removal, keyring, counts>> /\ started' = TRUE
    BY DEF Start
  <1>2. /\ file \in FileSays /\ disk \in FileSays /\ last \in Lasts
        /\ unsaved \in BOOLEAN /\ keyring \in Value
    BY InvSays
  <1>3. entry = NewEntry /\ jobs = <<>> /\ ~writeRefusal /\ removal = "none"
    BY DEF Start, Honest, Fresh, writeRefusal
  <1>3a. /\ entry.phase = "Idle" /\ entry.writing = NoRequest /\ entry.waiting = NoRequest
         /\ entry.answer = "none" /\ entry.stored = Unread /\ ~entry.commitRefused
         /\ ~entry.reading /\ entry \in Entries
    BY <1>3, InvSays DEF NewEntry
  <1>4. (\A i \in DOMAIN jobs : FALSE) /\ jobs \in Seq(Job)
    BY <1>3
  <1>5. CASE file.hidden \/ file.copy # NoKey
    <2> DEFINE value == IF file.hidden THEN NoKey ELSE file.copy
               request == [value |-> value, fallBack |-> TRUE, migrating |-> TRUE,
                           marked |-> file.hidden]
               next == [entry EXCEPT !.waiting = request]
    <2>1. save(value, TRUE, TRUE)
      BY <1>5 DEF Start
    <2>2. value \in Value /\ value = Found(file, keyring)
      BY <1>2, <1>5 DEF Value, Found
    <2>3. request \in Request /\ request.value = value /\ request.migrating
      BY <1>2, <2>2 DEF Request
    <2>4. request # NoRequest
      BY <2>3, <2>2, NothingWaits
    <2>5. GoesOn(next, file, jobs) /\ unsaved' = unsaved /\ last' = last
      <3>1. newest(entry) = NoRequest
        BY <1>3a DEF newest
      <3>2. ~Hides(entry, request)
        BY DEF Hides
      <3> HIDE DEF GoesOn
      <3> QED
        BY <1>2, <1>3, <2>1, <3>1, <3>2 DEF save
    <2>6. /\ next \in Entries /\ next.waiting = request /\ next.writing = NoRequest
          /\ next.phase = "Idle" /\ next.answer = "none"
          /\ next.stored = Unread /\ ~next.commitRefused
      BY <1>3a, <2>3
    <2>7. Moves(request, file)
      BY <1>5, <2>3 DEF Moves
    <2> HIDE DEF request, value, next
    <2>8. Fits(next, jobs) /\ Refuses(next)
      BY <1>3, <1>4, <2>6 DEF Fits, Refuses
    <2>9. Sound(next, file, jobs, keyring)
      <3>1. Quiet(next, file, jobs) /\ Known(next, file, keyring) /\ Commits(next, file)
        BY <1>4, <2>6 DEF Quiet, Known, Commits
      <3>2. Answers(next, file) /\ Migrates(next, file)
        BY <2>6, <2>7 DEF Answers, Migrates, Moves
      <3>3. FallsBack(next)
        BY <2>3, <2>6 DEF FallsBack, MayFallBack
      <3>4. Clears(next, file)
        BY <2>3, <2>4, <2>6 DEF Clears, IsClear, newest
      <3> QED
        BY <3>1, <3>2, <3>3, <3>4 DEF Sound
    <2>10. /\ Fits(entry', jobs') /\ Rests(entry') /\ Sound(entry', file, jobs', keyring)
           /\ entry'.waiting = NoRequest /\ entry'.writing = request
      BY <1>2, <1>3, <1>4, <2>5, <2>6, <2>8, <2>9, GoesOnSound
    <2>11. file' = file
      BY <2>5 DEF GoesOn
    <2>12. TellsTrue'
      BY <1>1, <1>3, <2>2, <2>3, <2>5, <2>10, <2>11
      DEF Honest, TellsTrue, Told, writeRefusal
    <2>13. Fits(entry, jobs)' /\ Rests(entry)' /\ Sound(entry, file, jobs, keyring)'
      BY <1>1, <2>10, <2>11
      DEF Fits, WriteFits, Rests, Sound, Quiet, Known, Commits, Answers, Migrates, FallsBack,
          Clears, MayFallBack, Always
    <2>14. Fresh' /\ Removes' /\ Saved' /\ (Always => file.inKeyring /\ disk.inKeyring)'
      BY <1>1, <1>3, <2>5, <2>11 DEF Fresh, Removes, Saved, Honest, Always
    <2> QED
      BY <2>12, <2>13, <2>14 DEF Honest
  <1>6. CASE ~(file.hidden \/ file.copy # NoKey)
    <2>1. /\ entry' = [entry EXCEPT !.reading = ~Always /\ file.inKeyring]
          /\ jobs' = IF entry'.reading THEN Append(jobs, startRead) ELSE jobs
          /\ UNCHANGED <<file, unsaved, last>>
      BY <1>6 DEF Start
    <2>2. /\ entry'.phase = "Idle" /\ entry'.writing = NoRequest /\ entry'.waiting = NoRequest
          /\ entry'.answer = "none" /\ entry'.stored = Unread /\ ~entry'.commitRefused
      BY <1>3a, <2>1
    <2>3. \A i \in DOMAIN jobs' : jobs'[i].kind = "read" /\ jobs'[i].by = "read" /\ i = 1
      BY <1>3, <2>1 DEF startRead, AJob
    <2>4. Fits(entry, jobs)' /\ Rests(entry)'
      BY <2>2, <2>3 DEF Fits, Rests, Own
    <2>5. Sound(entry, file, jobs, keyring)'
      BY <2>2, <2>3 DEF Sound, Quiet, Known, Commits, Answers, Migrates, Moves, FallsBack,
                        MayFallBack, Clears, IsClear, newest
    <2>6. TellsTrue'
      BY <1>1, <1>3, <2>1, <2>2 DEF Honest, TellsTrue, Told, writeRefusal
    <2>7. Fresh' /\ Removes' /\ Saved' /\ (Always => file.inKeyring /\ disk.inKeyring)'
      BY <1>1, <1>3, <2>1 DEF Fresh, Removes, Saved, Honest, Always
    <2> QED
      BY <2>4, <2>5, <2>6, <2>7 DEF Honest
  <1> QED
    BY <1>5, <1>6

(* Where something was told as stored, nothing on its way changes what a reader
   would find. *)
LEMMA NothingChanges ==
    ASSUME Inv, Honest, Told, Open(file)
    PROVE  \A i \in DOMAIN jobs : jobs[i].kind = "read"
  <1>1. removal = "none"
    BY DEF Told, Honest, TellsTrue, writeRefusal
  <1>2. entry.writing = NoRequest
    BY <1>1 DEF Honest, TellsTrue, Sound, Migrates, Moves, Open
  <1> QED
    BY <1>1, <1>2 DEF Honest, Sound, Quiet

LEMMA RestartHonest == ASSUME Inv, Honest, Restart PROVE Honest'
  <1>1. /\ jobs' = <<>> /\ removal' = "none" /\ entry' = NewEntry /\ file' = disk
        /\ UNCHANGED <<secret, disk>> /\ started' = FALSE /\ unsaved' = FALSE /\ closed' = FALSE
        /\ last' = [last EXCEPT !.state = IF @ = "asked" THEN "unknown" ELSE @]
        /\ keyring' \in {keyring} \cup (IF jobs = <<>> THEN {} ELSE {Done(Head(jobs))})
    BY DEF Restart
  <1>2. /\ entry'.phase = "Idle" /\ entry'.writing = NoRequest /\ entry'.waiting = NoRequest
        /\ entry'.answer = "none" /\ entry'.stored = Unread /\ ~entry'.commitRefused
    BY <1>1 DEF NewEntry
  <1>3. /\ file \in FileSays /\ disk \in FileSays /\ last \in Lasts /\ jobs \in Seq(Job)
    BY InvSays
  <1>4. ASSUME Told' PROVE Found(disk, keyring') = last'.value
    <2>1. Told /\ last'.value = last.value
      BY <1>1, <1>3, <1>4 DEF Told
    <2>2. Found(disk, keyring) = last.value
      BY <2>1 DEF Honest, TellsTrue
    <2>3. CASE ~Open(disk)
      BY <1>3, <2>1, <2>2, <2>3, FoundInFile
    <2>4. CASE Open(disk)
      <3>1. Open(file)
        BY <2>1, <2>4 DEF Honest, TellsTrue
      <3>2. keyring' = keyring
        <4>1. CASE jobs = <<>>
          BY <1>1, <4>1
        <4>2. CASE jobs # <<>>
          <5>1. Head(jobs).kind = "read"
            BY <1>3, <2>1, <3>1, <4>2, HeadTaken, NothingChanges
          <5> QED
            BY <1>1, <4>2, <5>1 DEF Done
        <4> QED
          BY <4>1, <4>2
      <3> QED
        BY <2>1, <2>2, <3>2
    <2> QED
      BY <2>3, <2>4
  <1>5. \A i \in DOMAIN jobs' : FALSE
    BY <1>1
  <1>6. Fits(entry, jobs)' /\ Rests(entry)'
    BY <1>2, <1>5 DEF Fits, Rests
  <1>7. Sound(entry, file, jobs, keyring)'
    BY <1>2, <1>5 DEF Sound, Quiet, Known, Commits, Answers, Migrates, Moves, FallsBack,
                      MayFallBack, Clears, IsClear, newest
  <1>8. TellsTrue'
    BY <1>1, <1>2, <1>4 DEF TellsTrue, writeRefusal
  <1>9. Fresh' /\ Removes' /\ Saved' /\ (Always => file.inKeyring /\ disk.inKeyring)'
    BY <1>1 DEF Fresh, Removes, Saved, Honest, Always, writeRefusal
  <1> QED
    BY <1>6, <1>7, <1>8, <1>9 DEF Honest

LEMMA ReadSecretHonest == ASSUME Inv, Honest, readSecret PROVE Honest'
  <1>1. /\ UNCHANGED <<secret, started, file, disk, unsaved, closed, removal, keyring, counts, last>>
        /\ started /\ ~file.hidden /\ entry.stored = Unread /\ newest(entry) = NoRequest
    BY DEF readSecret, isSecretKnown
  <1>2. /\ entry \in Entries /\ file \in FileSays /\ jobs \in Seq(Job) /\ Remembers(entry)
        /\ removal = "none" => \A i \in DOMAIN jobs : jobs[i].by \notin Own
    BY InvSays
  <1>3. entry.writing = NoRequest /\ entry.waiting = NoRequest /\ ~entry.commitRefused
    BY <1>1, <1>2 DEF newest, Remembers
  <1>4. CASE (file.copy # NoKey \/ ~file.inKeyring)
             /\ entry' = [entry EXCEPT !.stored = file.copy, !.retry = FALSE] /\ jobs' = jobs
    <2>1. /\ entry'.phase = entry.phase /\ entry'.writing = entry.writing
          /\ entry'.waiting = entry.waiting /\ entry'.answer = entry.answer
          /\ entry'.commitRefused = entry.commitRefused
      BY <1>2, <1>4
    <2>2. Fits(entry, jobs)' /\ Rests(entry)'
      BY <1>4, <2>1 DEF Honest, Fits, WriteFits, Rests
    <2>3. removal = "none" => Sound(entry, file, jobs, keyring)'
      BY <1>1, <1>3, <1>4, <2>1
      DEF Honest, Sound, Quiet, Known, Commits, Answers, Migrates, Moves, FallsBack,
          MayFallBack, Clears, IsClear, newest, Open
    <2>4. TellsTrue'
      BY <1>1, <2>1 DEF Honest, TellsTrue, Told, writeRefusal
    <2>5. Fresh' /\ Removes' /\ (Saved => Saved') /\ (Always => file.inKeyring /\ disk.inKeyring)'
      BY <1>1, <1>4 DEF Fresh, Removes, Saved, Honest, Always
    <2> QED
      BY <1>1, <2>2, <2>3, <2>4, <2>5 DEF Honest
  <1>5. CASE /\ Reads(entry, file) /\ entry' = [entry EXCEPT !.reading = TRUE]
             /\ jobs' = Append(jobs, startRead)
    <2>1. /\ entry'.phase = entry.phase /\ entry'.writing = entry.writing
          /\ entry'.waiting = entry.waiting /\ entry'.answer = entry.answer
          /\ entry'.commitRefused = entry.commitRefused /\ entry'.stored = entry.stored
      BY <1>2, <1>5
    <2>2. startRead \in Job /\ startRead.by = "read" /\ startRead.kind = "read"
      BY DEF startRead, AJob, Job, Value
    <2>3. removal = "none"
      BY <1>5 DEF Reads
    <2>3a. Fits(entry, jobs)
      BY DEF Honest
    <2> HIDE DEF startRead
    <2>4. Fits(entry', Append(jobs, startRead))
      <3>1. \A i \in DOMAIN jobs : jobs[i].by \notin Own
        BY <1>2, <2>3
      <3>2. /\ entry'.phase = "Writing" <=> entry'.writing # NoRequest
            /\ entry'.phase = "Idle" => entry'.answer = "none"
        BY <2>1, <2>3a DEF Fits
      <3>3. \A i \in DOMAIN jobs : jobs[i].by = "write" =>
              /\ entry'.answer = entry.answer /\ entry'.phase # "Idle"
              /\ entry'.writing \in {entry.writing, NoRequest}
        BY <2>1, <2>3a DEF Fits, WriteFits
      <3>4. startRead.by # "write"
        BY <2>2
      <3> QED
        BY <1>2, <2>2, <2>3a, <3>1, <3>2, <3>3, <3>4, FitsMore
    <2>5. \A i \in DOMAIN jobs' : jobs'[i].kind = "read" \/ (i \in DOMAIN jobs /\ jobs'[i] = jobs[i])
      <3>1. \A i \in 1..Len(jobs) + 1 : i \in 1..Len(jobs) \/ i = Len(jobs) + 1
        BY <1>2, <2>2, OneMore
      <3> QED
        BY <1>2, <1>5, <2>2, <3>1, OneMore
    <2>6. Fits(entry, jobs)' /\ Rests(entry)'
      BY <1>5, <2>1, <2>4 DEF Honest, Fits, WriteFits, Rests
    <2>7. Sound(entry, file, jobs, keyring)'
      <3>1. Sound(entry, file, jobs, keyring)
        BY <2>3 DEF Honest
      <3>2. Quiet(entry, file, jobs)'
        BY <1>1, <2>1, <2>5, <3>1 DEF Sound, Quiet, Open
      <3> QED
        BY <1>1, <1>3, <2>1, <3>1, <3>2
        DEF Sound, Known, Commits, Answers, Migrates, Moves, FallsBack,
            MayFallBack, Clears, IsClear, newest, Open
    <2>8. TellsTrue'
      BY <1>1, <2>1 DEF Honest, TellsTrue, Told, writeRefusal
    <2>9. Fresh' /\ Removes' /\ Saved' /\ (Always => file.inKeyring /\ disk.inKeyring)'
      BY <1>1, <1>5, <2>3 DEF Fresh, Removes, Saved, Honest, Always
    <2> QED
      BY <2>6, <2>7, <2>8, <2>9 DEF Honest
  <1> QED
    BY <1>4, <1>5 DEF readSecret

(* retryCommit tells as stored what the store remembers. *)
LEMMA FileHonest ==
    ASSUME Inv, Honest, retryCommit \/ FileSaves \/ RetryExpires \/ UNCHANGED vars
    PROVE  Honest'
  <1>1. /\ UNCHANGED <<secret, started, file, closed, removal, keyring, jobs>>
        /\ disk' = disk \/ disk' = file
    BY DEF retryCommit, FileSaves, RetryExpires, vars
  <1>2. /\ entry \in Entries /\ file \in FileSays /\ disk \in FileSays /\ last \in Lasts
        /\ unsaved \in BOOLEAN /\ keyring \in Value /\ Remembers(entry)
    BY InvSays
  <1>3. /\ entry'.phase = entry.phase /\ entry'.writing = entry.writing
        /\ entry'.waiting = entry.waiting /\ entry'.answer = entry.answer
        /\ entry'.stored = entry.stored /\ (entry'.commitRefused => entry.commitRefused)
    <2>1. \/ entry' = entry \/ entry' = [entry EXCEPT !.commitRefused = FALSE]
          \/ entry' = [entry EXCEPT !.retry = FALSE]
      BY DEF retryCommit, FileSaves, RetryExpires, vars
    <2> QED
      BY <1>2, <2>1
  <1>4. Fits(entry, jobs)' /\ Rests(entry)'
    BY <1>1, <1>3 DEF Honest, Fits, WriteFits, Rests
  <1>5. removal = "none" => Sound(entry, file, jobs, keyring)'
    BY <1>1, <1>3
    DEF Honest, Sound, Quiet, Known, Commits, Answers, Migrates, Moves, FallsBack,
        MayFallBack, Clears, IsClear, newest, Always
  <1>6. removal = "none" => Saved'
    <2>1. CASE retryCommit
      BY <1>1, <1>2, <2>1 DEF Honest, Saved, retryCommit
    <2>2. CASE FileSaves
      BY <1>1, <2>2 DEF Saved, FileSaves
    <2>3. CASE UNCHANGED <<disk, unsaved>>
      BY <1>1, <2>3 DEF Honest, Saved
    <2> QED
      BY <2>1, <2>2, <2>3 DEF retryCommit, FileSaves, RetryExpires, vars
  <1>7. Fresh'
    <2>1. CASE retryCommit
      BY <1>1, <2>1 DEF Fresh, retryCommit
    <2>2. CASE ~retryCommit /\ ~started
      <3>1. ~entry.retry /\ ~writeRefusal /\ entry = NewEntry /\ jobs = <<>>
        BY <2>2 DEF Honest, Fresh, NewEntry
      <3>2. entry' = entry
        BY <2>2, <3>1 DEF FileSaves, RetryExpires, vars
      <3> QED
        BY <1>1, <3>1, <3>2 DEF Fresh, writeRefusal, NewEntry, NoRequest
    <2> QED
      BY <1>1, <2>1, <2>2 DEF Fresh
  <1>8. Removes' /\ (Always => file.inKeyring /\ disk.inKeyring)'
    BY <1>1 DEF Removes, Honest, Always
  <1>9. TellsTrue'
    <2>1. CASE last' = last
      BY <1>1, <1>3, <2>1 DEF Honest, TellsTrue, Told, writeRefusal
    <2>2. CASE retryCommit /\ last' # last
      <3>1. /\ entry.commitRefused /\ entry.phase = "Idle" /\ entry.waiting = NoRequest
            /\ ~writeRefusal /\ disk' = (IF unsaved THEN file ELSE disk) /\ ~file.hidden
            /\ last'.value = entry.stored
        BY <1>2, <2>2 DEF retryCommit
      <3>2. Sound(entry, file, jobs, keyring) /\ Saved
        BY <3>1 DEF Honest, writeRefusal
      <3>3. entry.writing = NoRequest
        BY <3>1 DEF Honest, Fits
      <3>4. Found(file, keyring) = entry.stored
        <4>1. CASE Open(file)
          <5>1. keyring = entry.stored
            BY <1>2, <3>1, <3>2, <4>1 DEF Sound, Known, Remembers
          <5> QED
            BY <1>2, <4>1, <5>1, FoundInKeyring
        <4>2. CASE ~Open(file)
          BY <3>1, <3>2, <4>2 DEF Sound, Commits, Found, Open
        <4> QED
          BY <4>1, <4>2
      <3>5. disk' = file
        BY <1>2, <3>1, <3>2 DEF Saved
      <3> QED
        BY <1>1, <1>3, <3>1, <3>3, <3>4, <3>5 DEF TellsTrue, writeRefusal
    <2> QED
      BY <2>1, <2>2 DEF retryCommit, FileSaves, RetryExpires, vars
  <1> QED
    BY <1>1, <1>4, <1>5, <1>6, <1>7, <1>8, <1>9 DEF Honest

(* A removal leaves the request under way unheard. *)
LEMMA DeleteHonest == ASSUME Inv, Honest, deleteKeyringSecrets PROVE Honest'
  <1> DEFINE job == AJob("delete", NoKey, "removal")
  <1>1. /\ removal' = "deleting" /\ entry' = drop(entry) /\ jobs' = Append(jobs, job)
        /\ UNCHANGED <<secret, started, file, disk, unsaved, closed, keyring>>
        /\ last' = [last EXCEPT !.state = "none", !.hidden = FALSE, !.removed = FALSE]
        /\ removal = "none" /\ started
    BY DEF deleteKeyringSecrets, writeRefusal
  <1>2. /\ entry \in Entries /\ last \in Lasts /\ jobs \in Seq(Job)
        /\ \A i \in DOMAIN jobs : jobs[i].by \notin Own
    BY <1>1, InvSays
  <1>3. job \in Job /\ job.by = "removal"
    BY DEF AJob, Job, Value
  <1>4. Fits(entry, jobs) /\ Rests(entry)
    BY DEF Honest
  <1>5. /\ entry'.phase = (IF entry.phase = "Writing" THEN "Dropped" ELSE entry.phase)
        /\ entry'.writing = NoRequest /\ entry'.waiting = NoRequest
        /\ entry'.answer = entry.answer
    BY <1>1, <1>2 DEF drop
  <1> HIDE DEF job
  <1>6. Fits(entry', Append(jobs, job))
    <2>1. /\ entry'.phase = "Writing" <=> entry'.writing # NoRequest
          /\ entry'.phase = "Idle" => entry'.answer = "none"
      BY <1>4, <1>5 DEF Fits
    <2>2. \A i \in DOMAIN jobs : jobs[i].by = "write" =>
            /\ entry'.answer = entry.answer /\ entry'.phase # "Idle"
            /\ entry'.writing \in {entry.writing, NoRequest}
      BY <1>4, <1>5 DEF Fits, WriteFits
    <2>3. job.by # "write" /\ job.by \notin {"read", "removalRead"}
      BY <1>3
    <2> QED
      BY <1>2, <1>3, <1>4, <1>5, <2>1, <2>2, <2>3, FitsMore
  <1>7. Fits(entry, jobs)' /\ Rests(entry)'
    BY <1>1, <1>5, <1>6 DEF Fits, WriteFits, Rests
  <1>8. TellsTrue' /\ Fresh' /\ Removes'
    BY <1>1, <1>2 DEF TellsTrue, Told, Fresh, Removes
  <1> QED
    BY <1>1, <1>7, <1>8 DEF Honest, Always

(* A removal goes through, and its file says where a reader still finds a key. *)
LEMMA FinishRemovalHonest == ASSUME NoQuirks, Inv, Honest, finishRemoval PROVE Honest'
  <1>1. PICK othersMarked \in BOOLEAN, older \in BOOLEAN, saved \in {TRUE} :
          /\ disk' = IF saved THEN file' ELSE disk
          /\ unsaved' = (unsaved /\ ~saved)
          /\ last' = [last EXCEPT !.removed = removal = "deleted" /\ saved]
    BY DEF finishRemoval, NoQuirks
  <1>2. /\ removal \in {"deleted", "kept"} /\ removal' = "none"
        /\ entry' = [entry EXCEPT !.stored = Unread, !.retry = FALSE, !.commitRefused = FALSE]
        /\ file' = [NothingSaid EXCEPT !.hidden = file.hidden]
        /\ UNCHANGED <<secret, started, keyring, jobs, counts>>
    BY DEF finishRemoval
  <1>3. /\ entry \in Entries /\ file \in FileSays /\ last \in Lasts
        /\ entry.waiting = NoRequest /\ entry.writing = NoRequest
    BY <1>2, InvSays DEF Refuses, writeRefusal
  <1>4. /\ entry'.phase = entry.phase /\ entry'.writing = NoRequest
        /\ entry'.waiting = NoRequest /\ entry'.answer = entry.answer
        /\ entry'.stored = Unread /\ ~entry'.commitRefused
    BY <1>2, <1>3
  <1>5. file'.hidden = file.hidden /\ (file'.inKeyring <=> Always) /\ file'.copy = NoKey
    BY <1>2 DEF NothingSaid, Always
  <1>6. Fits(entry, jobs)' /\ Rests(entry)'
    BY <1>2, <1>3, <1>4 DEF Honest, Fits, WriteFits, Rests
  <1>7. Open(file') => \A i \in DOMAIN jobs : FALSE
    <2>1. Open(file') => ~file.hidden /\ Always
      BY <1>5 DEF Open
    <2>2. Open(file') => jobs = <<>>
      BY <1>2, <2>1 DEF Honest, Removes
    <2> QED
      BY <2>2
  <1>8. Sound(entry, file, jobs, keyring)'
    <2>1. Quiet(entry, file, jobs)'
      BY <1>2, <1>7 DEF Quiet, Open
    <2> QED
      BY <1>4, <2>1 DEF Sound, Known, Commits, Answers, Migrates, Moves, FallsBack,
                        MayFallBack, Clears, IsClear, newest
  <1>9. Saved' /\ (Always => file.inKeyring /\ disk.inKeyring)' /\ Removes'
    BY <1>1, <1>2, <1>5 DEF Saved, Always, Removes
  <1>10. Fresh' /\ TellsTrue'
    <2>1. started
      BY <1>2 DEF Honest, Fresh, writeRefusal
    <2>2. ~last.hidden /\ last.state # "stored"
      BY <1>2 DEF Honest, TellsTrue, writeRefusal
    <2>3. ~last'.hidden /\ last'.state # "stored"
      BY <1>1, <1>3, <2>2
    <2> QED
      BY <1>2, <2>1, <2>3 DEF Fresh, TellsTrue, Told
  <1> QED
    BY <1>6, <1>8, <1>9, <1>10 DEF Honest

(* What store() may find of a job that was answered: the key's own job left the
   keyring with the key and nothing behind it that changes it; a refused one is
   gone, or it may run in its turn. *)
FinishFits(answer, queue) ==
    /\ entry.phase # "Idle" /\ started
    /\ Fits([entry EXCEPT !.phase = "Idle", !.writing = NoRequest, !.answer = "none"], queue)
    /\ removal = "none" => \A i \in DOMAIN queue : queue[i].by \notin Own
    /\ jobs = <<>> => queue = <<>>
    /\ AllRead(jobs) => AllRead(queue) /\ keyring' = keyring
    /\ answer # "ok" => keyring' = keyring
    /\ entry.writing # NoRequest =>
         /\ answer = "ok" => \/ entry.answer = "ok" /\ keyring' = keyring
                             \/ keyring' = entry.writing.value /\ AllRead(queue)
         /\ answer = "noKeyring" => entry.answer = "noKeyring"
         /\ answer = "noKeyring" /\ Open(file) => AllRead(queue)
         /\ answer = "failed" /\ Open(file) =>
              AllRead(queue) \/ entry.writing.value = NoKey \/ secret \in LateWrites

(* A dropped request is answered: the next takes its turn. *)
LEMMA DroppedHonest ==
    ASSUME Inv, Honest, NEW queue \in Seq(Job), NEW answer, finishWrite(answer, queue),
           FinishFits(answer, queue), keyring' \in Value,
           UNCHANGED <<secret, started, closed, removal>>,
           entry.writing = NoRequest \/ writeRefusal
    PROVE  Honest'
  <1> DEFINE idle == [entry EXCEPT !.phase = "Idle", !.writing = NoRequest, !.answer = "none"]
  <1>1. /\ entry \in Entries /\ file \in FileSays /\ disk \in FileSays /\ Refuses(entry)
        /\ jobs \in Seq(Job) /\ keyring \in Value
    BY InvSays
  <1>2. entry.writing = NoRequest
    BY <1>1 DEF Refuses
  <1>3. GoesOn(idle, file, queue) /\ last' = last /\ UNCHANGED <<disk, unsaved>>
    <2> HIDE DEF GoesOn
    <2> QED
      BY <1>2 DEF finishWrite
  <1>4. file' = file
    BY <1>3 DEF GoesOn
  <1>5. /\ idle \in Entries /\ idle.phase = "Idle" /\ idle.writing = NoRequest
        /\ idle.waiting = entry.waiting /\ idle.answer = "none" /\ idle.stored = entry.stored
        /\ idle.commitRefused = entry.commitRefused
    BY <1>1
  <1>6. Fits(idle, queue)
    BY DEF FinishFits
  <1> HIDE DEF idle
  <1>7. removal = "none" => Sound(idle, file, queue, keyring')
    <2>1. SUFFICES ASSUME removal = "none" PROVE Sound(idle, file, queue, keyring')
      OBVIOUS
    <2>2. Sound(entry, file, jobs, keyring)
      BY <2>1 DEF Honest
    <2>3. Open(file) => AllRead(jobs)
      BY <1>2, <2>2 DEF Sound, Quiet, AllRead
    <2>4. Quiet(idle, file, queue) /\ Known(idle, file, keyring')
      BY <1>5, <2>2, <2>3 DEF FinishFits, AllRead, Sound, Quiet, Known
    <2>5. Commits(idle, file) /\ Answers(idle, file) /\ FallsBack(idle)
      BY <1>5, <2>2 DEF Sound, Commits, Answers, FallsBack, MayFallBack
    <2>6. Migrates(idle, file)
      BY <1>2, <1>5, <2>2 DEF Sound, Migrates, Moves, FinishFits
    <2>7. Clears(idle, file)
      BY <1>2, <1>5, <2>2 DEF Sound, Clears, newest
    <2> QED
      BY <2>4, <2>5, <2>6, <2>7 DEF Sound
  <1>8. Refuses(idle)
    BY <1>1, <1>2, <1>5 DEF Refuses
  <1>9. idle.waiting # NoRequest => \A i \in DOMAIN queue : queue[i].by \notin Own
    BY <1>8 DEF FinishFits, Refuses, writeRefusal
  <1>10. /\ Fits(entry', jobs') /\ Rests(entry')
         /\ removal = "none" => Sound(entry', file, jobs', keyring')
         /\ idle.waiting = NoRequest => entry' = idle /\ jobs' = queue
    BY <1>1, <1>3, <1>5, <1>6, <1>7, <1>8, <1>9, GoesOnSound
  <1>11. Fits(entry, jobs)' /\ Rests(entry)' /\ (removal = "none" => Sound(entry, file, jobs, keyring)')
    BY <1>4, <1>10
    DEF Fits, WriteFits, Rests, Sound, Quiet, Known, Commits, Answers, Migrates, FallsBack,
        Clears, MayFallBack, Always
  <1>12. Fresh' /\ (Saved => Saved') /\ (Always => file.inKeyring /\ disk.inKeyring)'
    BY <1>3, <1>4 DEF Fresh, FinishFits, Saved, Honest, Always
  <1>13. Removes'
    <2>1. removal # "none" => jobs' = queue
      BY <1>8, <1>10 DEF Refuses, writeRefusal
    <2> QED
      BY <1>4, <2>1 DEF Honest, Removes, FinishFits, Always
  <1>14. TellsTrue'
    <2>1. ASSUME Told PROVE Found(file, keyring') = last.value
                            /\ (~Open(disk) => Found(disk, keyring') = Found(disk, keyring))
      <3>1. Found(file, keyring) = last.value
        BY <2>1 DEF Honest, TellsTrue
      <3>2. CASE Open(file)
        <4>1. AllRead(jobs)
          BY <2>1, <3>2, NothingChanges DEF AllRead
        <4> QED
          BY <3>1, <4>1 DEF FinishFits
      <3>3. CASE ~Open(file)
        BY <1>1, <3>1, <3>3, FoundInFile
      <3> QED
        BY <1>1, <3>2, <3>3, FoundInFile
    <2>2. Told => entry' = idle
      BY <1>5, <1>10 DEF Honest, TellsTrue
    <2> QED
      BY <1>3, <1>4, <1>5, <2>1, <2>2 DEF Honest, TellsTrue, Told, writeRefusal
  <1> QED
    BY <1>11, <1>12, <1>13, <1>14 DEF Honest

(* What a request leaves in the file, as a reader of it finds it. *)
LEMMA SaysWhatIsKept ==
    ASSUME Inv, NEW request \in Request, NEW answer, NEW private, NEW said,
           said = Says(request, answer, private)
    PROVE  /\ said \in FileSays
           /\ answer = "ok" => /\ said.copy = NoKey /\ ~said.hidden
                               /\ said.inKeyring <=> (request.value # NoKey \/ Always)
           /\ KeepsInFile(request, answer, private) =>
                /\ said.copy = request.value /\ ~said.hidden /\ said.inKeyring = file.inKeyring
                /\ answer = "failed" /\ request.value # NoKey /\ ~request.migrating
           /\ KeepsHidden(request, answer) =>
                /\ said.hidden /\ said.inKeyring = file.inKeyring
                /\ answer = "failed" /\ request.value = NoKey /\ ~request.migrating
           /\ answer # "ok" /\ ~KeepsInFile(request, answer, private)
                /\ ~KeepsHidden(request, answer) => said = file
  <1>1. file \in FileSays /\ request.value \in Value
    BY InvSays, RequestOf DEF Request
  <1>2. CASE answer = "ok"
    BY <1>1, <1>2 DEF Says, KeepsInFile, KeepsHidden, Value, Always
  <1>3. CASE KeepsInFile(request, answer, private)
    BY <1>1, <1>3 DEF Says, KeepsInFile, KeepsHidden
  <1>4. CASE KeepsHidden(request, answer)
    BY <1>1, <1>4 DEF Says, KeepsInFile, KeepsHidden, withKeyHidden, Value
  <1>5. CASE answer # "ok" /\ ~KeepsInFile(request, answer, private) /\ ~KeepsHidden(request, answer)
    BY <1>1, <1>5 DEF Says
  <1> QED
    BY <1>2, <1>3, <1>4, <1>5

(* store() keeps what the keyring did, and tells what a reader will find. *)
LEMMA StoreHonest ==
    ASSUME NoQuirks, Inv, Honest, NEW queue \in Seq(Job), NEW answer \in {"ok", "failed", "noKeyring"},
           finishWrite(answer, queue), FinishFits(answer, queue), keyring' \in Value,
           UNCHANGED <<secret, started, closed, removal>>,
           entry.writing # NoRequest, ~writeRefusal
    PROVE  Honest'
  <1> DEFINE request == entry.writing
             idle == [entry EXCEPT !.phase = "Idle", !.writing = NoRequest, !.answer = "none"]
  <1>1. /\ entry \in Entries /\ file \in FileSays /\ disk \in FileSays /\ last \in Lasts
        /\ Refuses(entry) /\ unsaved \in BOOLEAN
        /\ jobs \in Seq(Job) /\ keyring \in Value /\ Remembers(entry)
    BY InvSays
  <1>2. request \in Request /\ request.value \in Value /\ request # NoRequest
    BY <1>1, RequestOf
  <1>3. removal = "none" /\ Sound(entry, file, jobs, keyring) /\ Saved /\ entry.phase = "Writing"
    BY DEF writeRefusal, Honest, Fits
  <1>4. PICK private \in IF secret \in OpenFolders THEN BOOLEAN ELSE {TRUE}, saves \in BOOLEAN :
          LET says == HiddenBehind(Says(request, answer, private))
              dirty == unsaved \/ says # file
              kept == Kept(request, answer, private)
              committed == ~dirty \/ saves
          IN  /\ GoesOn([idle EXCEPT
                    !.stored = IF Caches(request, answer, private) THEN request.value ELSE @,
                    !.retry = @ /\ ~Caches(request, answer, private),
                    !.commitRefused = IF kept \/ says # file THEN kept /\ ~committed ELSE @],
                    says, queue)
              /\ disk' = IF dirty /\ saves THEN says ELSE disk
              /\ unsaved' = ~committed
              /\ last' = settled(request, kept /\ committed,
                                 request.value = NoKey /\ says.hidden /\ committed)
    <2> HIDE DEF GoesOn
    <2> QED
      BY Zenon DEF finishWrite
  <1> DEFINE said == Says(request, answer, private)
             says == HiddenBehind(said)
             kept == Kept(request, answer, private)
             caches == Caches(request, answer, private)
             committed == ~(unsaved \/ says # file) \/ saves
             next == [idle EXCEPT
                    !.stored = IF Caches(request, answer, private) THEN request.value ELSE @,
                    !.retry = @ /\ ~Caches(request, answer, private),
                    !.commitRefused = IF kept \/ says # file THEN kept /\ ~committed ELSE @]
             inFile == KeepsInFile(request, answer, private)
             hides == KeepsHidden(request, answer)
  <1>5. /\ said \in FileSays
        /\ answer = "ok" => /\ said.copy = NoKey /\ ~said.hidden
                            /\ said.inKeyring <=> (request.value # NoKey \/ Always)
        /\ inFile => /\ said.copy = request.value /\ ~said.hidden /\ said.inKeyring = file.inKeyring
                     /\ answer = "failed" /\ request.value # NoKey /\ ~request.migrating
        /\ hides => /\ said.hidden /\ said.inKeyring = file.inKeyring
                    /\ answer = "failed" /\ request.value = NoKey /\ ~request.migrating
        /\ answer # "ok" /\ ~inFile /\ ~hides => said = file
    <2>1. said = Says(request, answer, private)
      OBVIOUS
    <2>2. inFile = KeepsInFile(request, answer, private) /\ hides = KeepsHidden(request, answer)
      OBVIOUS
    <2> HIDE DEF said, request, inFile, hides
    <2> QED
      BY <1>2, <2>1, <2>2, SaysWhatIsKept
  <1>6. /\ kept \in BOOLEAN /\ (kept <=> answer # "failed" \/ inFile)
        /\ caches \in BOOLEAN /\ (caches <=> answer = "ok" \/ inFile \/ hides)
        /\ committed \in BOOLEAN
    BY DEF Kept, Caches
  <1>7. /\ answer = "failed" /\ ~request.migrating /\ request.value = NoKey => hides
        /\ answer = "failed" /\ ~request.migrating /\ request.value # NoKey
             /\ secret \in LateWrites => inFile
    <2>1. answer = "failed" /\ ~request.migrating /\ request.value = NoKey => hides
      BY DEF KeepsHidden
    <2>2. secret \in LateWrites => private = TRUE /\ ~Always
      BY <1>4 DEF NoQuirks, Always
    <2>3. ~request.migrating => (request.fallBack <=> ~Always)
      BY <1>2, <1>3 DEF Sound, FallsBack, MayFallBack
    <2> QED
      BY <2>1, <2>2, <2>3 DEF KeepsInFile
  <1>8. /\ says \in FileSays /\ says.inKeyring = said.inKeyring
        /\ entry.waiting # NoRequest /\ file.hidden => says.hidden
        /\ ~(entry.waiting # NoRequest /\ file.hidden) => says = said
        /\ said.hidden => says.hidden
    <2> HIDE DEF said
    <2> QED
      BY <1>5 DEF HiddenBehind, withKeyHidden, Value
  <1>9. /\ GoesOn(next, says, queue)
        /\ disk' = (IF (unsaved \/ says # file) /\ saves THEN says ELSE disk)
        /\ unsaved' = ~committed
        /\ last' = settled(request, kept /\ committed,
                           request.value = NoKey /\ says.hidden /\ committed)
    BY <1>4
  <1> HIDE DEF inFile, hides
  <1>10. /\ next \in Entries /\ next.phase = "Idle" /\ next.writing = NoRequest
         /\ next.waiting = entry.waiting /\ next.answer = "none"
         /\ next.stored = (IF caches THEN request.value ELSE entry.stored)
         /\ next.commitRefused = (IF kept \/ says # file THEN kept /\ ~committed
                                  ELSE entry.commitRefused)
    <2>1. /\ idle \in Entries /\ idle.phase = "Idle" /\ idle.writing = NoRequest
          /\ idle.waiting = entry.waiting /\ idle.answer = "none"
          /\ idle.stored = entry.stored /\ idle.commitRefused = entry.commitRefused
      BY <1>1
    <2> HIDE DEF idle, kept, says, committed, request
    <2> QED
      BY <1>2, <1>6, <2>1
  <1>11. Fits(next, queue)
    <2>1. Fits(idle, queue) /\ idle.phase = "Idle" /\ idle.writing = NoRequest /\ idle.answer = "none"
      BY <1>1 DEF FinishFits
    <2> HIDE DEF idle, next
    <2> QED
      BY <1>10, <2>1 DEF Fits, WriteFits
  <1> HIDE DEF said, says, kept, committed, caches, next, idle, request
  <1>12. /\ Quiet(entry, file, jobs) /\ Known(entry, file, keyring) /\ Commits(entry, file)
         /\ Answers(entry, file) /\ Migrates(entry, file) /\ FallsBack(entry) /\ Clears(entry, file)
    BY <1>3 DEF Sound
  <1>13. /\ answer = "ok" => \/ request.value = NoKey /\ ~file.inKeyring /\ keyring' = keyring
                             \/ keyring' = request.value /\ AllRead(queue)
         /\ answer # "ok" => keyring' = keyring
         /\ answer = "noKeyring" => /\ ~request.migrating /\ entry.stored = request.value
                                    /\ file.hidden => entry.waiting # NoRequest
                                    /\ ~file.hidden /\ ~Open(file) => file.copy = request.value
         /\ Always => file.inKeyring
    BY <1>2, <1>12 DEF FinishFits, Answers, request, Honest
  <1>14. request.migrating => file.hidden \/ (request.value # NoKey /\ file.copy = request.value)
    BY <1>2, <1>12 DEF Migrates, Moves, request
  <1>15. Open(says) => says = said
    BY <1>5, <1>8 DEF Open
  <1>16. Open(says) /\ answer # "ok" => says = file /\ ~caches
    <2>1. inFile => ~Open(says)
      BY <1>5, <1>15 DEF Open
    <2>2. hides => ~Open(says)
      BY <1>5, <1>8 DEF Open
    <2> QED
      BY <1>5, <1>6, <1>15, <2>1, <2>2
  <1>17. Open(says) => AllRead(queue)
    <2>1. CASE answer = "ok"
      <3>1. Open(says) => request.value # NoKey \/ Always
        BY <1>5, <1>8, <2>1 DEF Open
      <3> QED
        BY <1>13, <2>1, <3>1
    <2>2. CASE answer = "noKeyring"
      BY <1>2, <1>16, <2>2 DEF FinishFits, request
    <2>3. CASE answer = "failed"
      <3>1. SUFFICES ASSUME Open(says), ~AllRead(queue) PROVE FALSE
        OBVIOUS
      <3>2. Open(file) /\ ~caches
        BY <1>16, <2>3, <3>1
      <3>3. request.value = NoKey \/ secret \in LateWrites
        BY <1>2, <2>3, <3>1, <3>2 DEF FinishFits, request
      <3>4. ~request.migrating
        BY <1>14, <3>2 DEF Open
      <3> QED
        BY <1>6, <1>7, <2>3, <3>2, <3>3, <3>4
    <2> QED
      BY <2>1, <2>2, <2>3
  <1>18. Sound(next, says, queue, keyring')
    <2>1. Quiet(next, says, queue)
      BY <1>17 DEF Quiet, AllRead
    <2>2. Known(next, says, keyring')
      <3>1. CASE answer = "ok"
        <4>1. Open(says) => request.value # NoKey \/ Always
          BY <1>5, <1>8, <3>1 DEF Open
        <4> QED
          BY <1>6, <1>10, <1>13, <3>1, <4>1 DEF Known
      <3>2. CASE answer # "ok"
        BY <1>10, <1>12, <1>13, <1>16, <3>2 DEF Known
      <3> QED
        BY <3>1, <3>2
    <2>3. Commits(next, says)
      <3>1. SUFFICES ASSUME next.commitRefused, ~says.hidden, ~Open(says)
                     PROVE  next.stored = says.copy
        BY DEF Commits
      <3>2. says = said
        BY <1>8, <3>1
      <3>3. CASE answer = "ok"
        BY <1>5, <1>6, <1>8, <1>10, <3>1, <3>2, <3>3 DEF Open
      <3>4. CASE inFile
        BY <1>5, <1>6, <1>10, <3>2, <3>4
      <3>5. CASE hides
        BY <1>5, <3>1, <3>2, <3>5
      <3>6. CASE answer # "ok" /\ ~inFile /\ ~hides
        <4>1. says = file /\ ~caches
          BY <1>5, <1>6, <3>2, <3>6
        <4>2. CASE answer = "noKeyring"
          BY <1>10, <1>13, <3>1, <4>1, <4>2
        <4>3. CASE answer = "failed"
          BY <1>6, <1>10, <1>12, <3>1, <3>6, <4>1, <4>3 DEF Commits
        <4> QED
          BY <3>6, <4>2, <4>3
      <3> QED
        BY <3>3, <3>4, <3>5, <3>6
    <2>4. Answers(next, says) /\ FallsBack(next)
      BY <1>10, <1>12 DEF Answers, FallsBack, MayFallBack
    <2>5. Migrates(next, says)
      BY <1>3, <1>10, <1>12 DEF Migrates, Moves
    <2>6. Clears(next, says)
      BY <1>3, <1>8, <1>10, <1>12 DEF Clears, IsClear, newest
    <2> QED
      BY <2>1, <2>2, <2>3, <2>4, <2>5, <2>6 DEF Sound
  <1>19. Refuses(next) /\ \A i \in DOMAIN queue : queue[i].by \notin Own
    BY <1>3 DEF Refuses, FinishFits
  <1>20. /\ Fits(entry', jobs') /\ Rests(entry') /\ Sound(entry', says, jobs', keyring')
         /\ next.waiting = NoRequest => entry' = next
    BY <1>3, <1>8, <1>9, <1>10, <1>11, <1>18, <1>19, GoesOnSound
  <1>21. file' = says
    BY <1>9 DEF GoesOn
  <1>22. Fits(entry, jobs)' /\ Rests(entry)' /\ Sound(entry, file, jobs, keyring)'
    BY <1>20, <1>21
    DEF Fits, WriteFits, Rests, Sound, Quiet, Known, Commits, Answers, Migrates, FallsBack,
        Clears, MayFallBack, Always
  <1>23. committed => disk' = says
    BY <1>3, <1>9 DEF committed, Saved
  <1>24. Fresh' /\ Saved' /\ Removes'
    BY <1>3, <1>6, <1>9, <1>21, <1>23 DEF Fresh, FinishFits, Saved, Removes
  <1>25. (Always => file.inKeyring /\ disk.inKeyring)'
    <2>1. Always => says.inKeyring
      BY <1>5, <1>8, <1>13
    <2> QED
      BY <1>9, <1>21, <2>1 DEF Always, Honest
  <1>26. TellsTrue'
    <2>1. ~writeRefusal'
      BY DEF writeRefusal
    <2>2. SUFFICES ASSUME Told'
                   PROVE  /\ entry.waiting = NoRequest
                          /\ Found(says, keyring') = last'.value
                          /\ disk' = says \/ (~Open(disk') /\ Found(disk', keyring') = last'.value)
      BY <1>10, <1>20, <1>21, <2>1 DEF TellsTrue
    <2>3. CASE entry.waiting # NoRequest
      <3>1. last' = last
        BY <1>9, <2>3 DEF settled
      <3> QED
        BY <2>2, <2>3, <3>1 DEF Told, Honest, TellsTrue
    <2>4. CASE entry.waiting = NoRequest /\ request.migrating
      <3>1. last' = last
        BY <1>9, <2>4 DEF settled
      <3>2. /\ request.value = last.value /\ Found(file, keyring) = last.value
            /\ disk = file \/ (~Open(disk) /\ Found(disk, keyring) = last.value)
        BY <1>2, <2>2, <3>1 DEF Told, Honest, TellsTrue, request
      <3>3. ~Open(file) /\ says = said
        BY <1>8, <1>14, <2>4 DEF Open
      <3>4. Found(says, keyring') = last.value
        <4>1. CASE answer = "ok"
          BY <1>5, <1>13, <3>2, <3>3, <4>1 DEF Found
        <4>2. CASE answer # "ok"
          <5>1. says = file
            BY <1>5, <2>4, <3>3, <4>2
          <5> QED
            BY <1>1, <3>2, <3>3, <5>1, FoundInFile
        <4> QED
          BY <4>1, <4>2
      <3>5. ~Open(disk) /\ Found(disk, keyring') = last.value
        BY <1>1, <3>2, <3>3, FoundInFile
      <3> QED
        BY <1>9, <2>4, <3>1, <3>4, <3>5
    <2>5. CASE entry.waiting = NoRequest /\ ~request.migrating
      <3>1. last' = [last EXCEPT !.value = request.value,
                       !.state = IF kept /\ committed THEN "stored" ELSE "refused",
                       !.hidden = (request.value = NoKey /\ says.hidden /\ committed)]
        BY <1>9, <2>5 DEF settled
      <3>2. /\ last'.value = request.value
            /\ (kept /\ committed) \/ (request.value = NoKey /\ says.hidden /\ committed)
        BY <1>1, <1>6, <2>2, <3>1 DEF Told
      <3>3. says = said /\ disk' = says
        BY <1>8, <1>23, <2>5, <3>2
      <3>4. Found(says, keyring') = request.value
        <4>1. CASE answer = "ok"
          BY <1>5, <1>13, <3>3, <4>1 DEF Found
        <4>2. CASE inFile
          BY <1>5, <3>3, <4>2 DEF Found
        <4>3. CASE answer = "noKeyring"
          <5>1. says = file /\ ~file.hidden
            BY <1>5, <1>13, <2>5, <3>3, <4>3
          <5>2. CASE Open(file)
            <6>1. entry.stored = request.value /\ request.value # Unread
              BY <1>2, <1>13, <4>3, NothingWaits
            <6>2. keyring = request.value
              BY <1>12, <5>2, <6>1 DEF Known
            <6> QED
              BY <1>13, <4>3, <5>1, <5>2, <6>2, FoundInKeyring, <1>1
          <5>3. CASE ~Open(file)
            BY <1>13, <4>3, <5>1, <5>3 DEF Found, Open
          <5> QED
            BY <5>2, <5>3
        <4>4. CASE answer = "failed" /\ ~inFile
          BY <1>6, <3>2, <4>4 DEF Found
        <4> QED
          BY <4>1, <4>2, <4>3, <4>4
      <3> QED
        BY <2>5, <3>2, <3>3, <3>4
    <2> QED
      BY <2>3, <2>4, <2>5
  <1> QED
    BY <1>3, <1>22, <1>24, <1>25, <1>26 DEF Honest

LEMMA FinishHonest ==
    ASSUME NoQuirks, Inv, Honest, NEW queue \in Seq(Job), NEW answer \in {"ok", "failed", "noKeyring"},
           finishWrite(answer, queue), FinishFits(answer, queue), keyring' \in Value,
           UNCHANGED <<secret, started, closed, removal>>
    PROVE  Honest'
  BY DroppedHonest, StoreHonest

LEMMA AnswerHonest == ASSUME NoQuirks, Inv, Honest, answerWithoutKeyring PROVE Honest'
  <1>1. /\ entry.answer \in {"ok", "noKeyring"} /\ finishWrite(entry.answer, jobs)
        /\ UNCHANGED <<secret, started, closed, removal, keyring>>
    BY DEF answerWithoutKeyring, Inv, TypeOK
  <1>2. /\ entry \in Entries /\ jobs \in Seq(Job) /\ keyring \in Value
        /\ removal = "none" => \A i \in DOMAIN jobs : jobs[i].by \notin Own
        /\ Refuses(entry)
    BY InvSays
  <1>3. Fits(entry, jobs) /\ started
    BY <1>1 DEF Honest, Fresh, NewEntry
  <1>4. \A i \in DOMAIN jobs : jobs[i].by # "write"
    BY <1>1, <1>3 DEF Fits, WriteFits
  <1>5. Fits([entry EXCEPT !.phase = "Idle", !.writing = NoRequest, !.answer = "none"], jobs)
    BY <1>2, <1>3, <1>4 DEF Fits
  <1>6. entry.writing # NoRequest /\ Open(file) => AllRead(jobs)
    <2>1. entry.writing # NoRequest => removal = "none"
      BY <1>2 DEF Refuses, writeRefusal
    <2> QED
      BY <1>4, <2>1 DEF Honest, Sound, Quiet, AllRead
  <1>7. entry.phase # "Idle"
    BY <1>1, <1>3 DEF Fits
  <1>8. FinishFits(entry.answer, jobs)
    BY <1>1, <1>2, <1>3, <1>5, <1>6, <1>7 DEF FinishFits
  <1> QED
    BY <1>1, <1>2, <1>8, FinishHonest

(* What the answer of a job may find: the other jobs, in their order, and what
   this one did in the keyring. *)
AnswerFits(job, ok, queue) ==
    /\ jobs # <<>> /\ Fits(entry, queue) /\ (~ok => keyring' = keyring)
    /\ AllRead(jobs) => AllRead(queue) /\ keyring' = keyring
    /\ removal = "none" \/ job.by \in Own => \A i \in DOMAIN queue : queue[i].by \notin Own
    /\ job.by \in Own => removal \in Removing /\ (ok => queue = <<>>)
    /\ job.by \in {"read", "removalRead"} => keyring' = keyring
    /\ job.by = "write" =>
         /\ entry.phase # "Idle" /\ \A i \in DOMAIN queue : queue[i].by # "write"
         /\ entry.writing # NoRequest =>
              /\ ok => keyring' = entry.writing.value /\ AllRead(queue)
              /\ ~ok /\ Open(file) =>
                   AllRead(queue) \/ entry.writing.value = NoKey \/ secret \in LateWrites
    /\ job.by # "write" /\ Quiet(entry, file, jobs) =>
         Quiet(entry, file, queue) /\ (Open(file) => keyring' = keyring)

(* What was told as stored is found, whatever a job of nobody did meanwhile. *)
LEMMA StillFound ==
    ASSUME Inv, Honest, Told, AllRead(jobs) => keyring' = keyring
    PROVE  /\ Found(file, keyring') = last.value
           /\ disk = file \/ (~Open(disk) /\ Found(disk, keyring') = last.value)
  <1>1. file \in FileSays /\ disk \in FileSays /\ Found(file, keyring) = last.value
    BY InvSays DEF Honest, TellsTrue
  <1>2. Found(file, keyring') = last.value
    <2>1. CASE Open(file)
      BY <1>1, <2>1, NothingChanges DEF AllRead
    <2>2. CASE ~Open(file)
      BY <1>1, <2>2, FoundInFile
    <2> QED
      BY <2>1, <2>2
  <1>3. disk = file \/ (~Open(disk) /\ Found(disk, keyring) = last.value)
    BY DEF Honest, TellsTrue
  <1> QED
    BY <1>1, <1>2, <1>3, FoundInFile

LEMMA AnsweredHonest ==
    ASSUME NoQuirks, Inv, Honest, NEW job \in Job, NEW ok \in BOOLEAN, NEW queue \in Seq(Job),
           answered(job, ok, queue), AnswerFits(job, ok, queue), keyring' \in Value,
           UNCHANGED <<secret, started, closed>>
    PROVE  Honest'
  <1>1. /\ entry \in Entries /\ file \in FileSays /\ keyring \in Value /\ Remembers(entry)
        /\ unsaved \in BOOLEAN
    BY InvSays
  <1>2. started /\ removal # "deleted" /\ (removal = "kept" /\ Always => file.hidden)
    BY DEF AnswerFits, Honest, Fresh, Removes
  <1>3. CASE job.by = "write"
    <2>1. finishWrite(IF ok THEN "ok" ELSE "failed", queue) /\ UNCHANGED removal
      BY <1>3 DEF answered
    <2>2. Fits([entry EXCEPT !.phase = "Idle", !.writing = NoRequest, !.answer = "none"], queue)
      BY <1>1, <1>3 DEF AnswerFits, Fits
    <2>3. FinishFits(IF ok THEN "ok" ELSE "failed", queue)
      BY <1>2, <1>3, <2>2 DEF AnswerFits, FinishFits
    <2> QED
      BY <2>1, <2>3, FinishHonest
  <1>4. CASE job.by = "read"
    <2>1. /\ finishRead(ok) /\ jobs' = queue /\ UNCHANGED <<file, disk, unsaved, removal, last>>
          /\ keyring' = keyring
      BY <1>4 DEF answered, AnswerFits
    <2>2. /\ entry'.phase = entry.phase /\ entry'.writing = entry.writing
          /\ entry'.waiting = entry.waiting /\ entry'.answer = entry.answer
          /\ entry'.commitRefused = entry.commitRefused
          /\ \/ entry'.stored = entry.stored
             \/ entry'.stored = keyring /\ entry.stored = Unread /\ newest(entry) = NoRequest
      BY <1>1, <2>1 DEF finishRead, isSecretKnown
    <2>3. Fits(entry, jobs)' /\ Rests(entry)'
      BY <2>1, <2>2 DEF AnswerFits, Honest, Fits, WriteFits, Rests
    <2>4. removal = "none" => Sound(entry, file, jobs, keyring)'
      <3>1. SUFFICES ASSUME removal = "none" PROVE Sound(entry, file, jobs, keyring)'
        OBVIOUS
      <3>2. Sound(entry, file, jobs, keyring)
        BY <3>1 DEF Honest
      <3>3. Quiet(entry, file, jobs)'
        BY <1>4, <2>1, <2>2, <3>2 DEF AnswerFits, Sound, Quiet, Open
      <3>4. Known(entry, file, keyring)' /\ Commits(entry, file)'
        BY <1>1, <2>1, <2>2, <3>2 DEF Sound, Known, Commits, Open, Remembers
      <3>5. newest(entry)' = newest(entry)
            /\ (newest(entry) = NoRequest => entry.writing = NoRequest /\ entry.waiting = NoRequest)
        BY <2>2 DEF newest
      <3>6. Answers(entry, file)' /\ Clears(entry, file)'
        BY <2>1, <2>2, <3>2, <3>5 DEF Sound, Answers, Clears, IsClear, Open
      <3>7. Migrates(entry, file)' /\ FallsBack(entry)'
        BY <2>1, <2>2, <3>2 DEF Sound, Migrates, Moves, FallsBack, MayFallBack, Always
      <3> QED
        BY <3>3, <3>4, <3>6, <3>7 DEF Sound
    <2>5. TellsTrue'
      BY <2>1, <2>2 DEF Honest, TellsTrue, Told, writeRefusal
    <2>6. Fresh' /\ Removes' /\ (Saved => Saved') /\ (Always => file.inKeyring /\ disk.inKeyring)'
      BY <1>2, <2>1 DEF Fresh, Removes, Saved, Honest, Always
    <2> QED
      BY <2>1, <2>3, <2>4, <2>5, <2>6 DEF Honest
  <1>5. CASE job.by = "removal"
    <2>1. removeNext(ok, queue) /\ UNCHANGED <<entry, disk, last>>
      BY <1>5 DEF answered
    <2>2. /\ file' = (IF ok THEN [file EXCEPT !.hidden = FALSE, !.inKeyring = Always] ELSE file)
          /\ removal' = (IF ok THEN "deleted" ELSE IF Always THEN "reading" ELSE "kept")
      BY <2>1 DEF removeNext
    <2>3. (Always => file.inKeyring /\ disk.inKeyring)'
      BY <1>1, <2>1, <2>2 DEF Honest, Always
    <2>4. /\ removal # "none" /\ removal \in Removing /\ (ok => queue = <<>>)
          /\ \A i \in DOMAIN queue : queue[i].by \notin Own
      BY <1>5 DEF AnswerFits, Own, Removing
    <2>5. Fits(entry, jobs') /\ (ok => jobs' = <<>>)
      <3>1. CASE ~ok /\ Always
        <4> DEFINE read == AJob("read", NoKey, "removalRead")
        <4>1. jobs' = Append(queue, read)
          BY <2>1, <3>1 DEF removeNext
        <4>2. read \in Job /\ read.by = "removalRead" /\ read.kind = "read"
          BY DEF AJob, Job, Value
        <4>3. Fits(entry, queue)
          BY DEF AnswerFits
        <4> HIDE DEF read
        <4>4. Fits(entry, Append(queue, read))
          <5>1. /\ entry.phase = "Writing" <=> entry.writing # NoRequest
                /\ entry.phase = "Idle" => entry.answer = "none"
            BY <4>3 DEF Fits
          <5>2. \A i \in DOMAIN queue : queue[i].by = "write" =>
                  /\ entry.answer = entry.answer /\ entry.phase # "Idle"
                  /\ entry.writing \in {entry.writing, NoRequest}
            BY <4>3 DEF Fits, WriteFits
          <5>3. read.by # "write"
            BY <4>2
          <5> QED
            BY <2>4, <4>2, <4>3, <5>1, <5>2, <5>3, FitsMore
        <4> QED
          BY <3>1, <4>1, <4>4
      <3>2. CASE ~(~ok /\ Always)
        BY <2>1, <2>4, <3>2 DEF removeNext, AnswerFits
      <3> QED
        BY <3>1, <3>2
    <2>6. Fits(entry, jobs)' /\ Rests(entry)'
      BY <2>1, <2>5 DEF Honest, Fits, WriteFits, Rests
    <2>7. TellsTrue' /\ Fresh' /\ Removes'
      BY <1>2, <2>1, <2>2, <2>4, <2>5 DEF Honest, TellsTrue, Told, writeRefusal, Fresh, Removes, Always
    <2> QED
      BY <2>2, <2>3, <2>6, <2>7 DEF Honest
  <1>6. CASE job.by = "removalRead"
    <2>1. /\ hideWhatIsKept(ok) /\ jobs' = queue /\ UNCHANGED <<entry, disk, last>>
          /\ keyring' = keyring
      BY <1>6 DEF answered, AnswerFits
    <2>2. /\ file'.inKeyring = file.inKeyring /\ removal' = "kept"
          /\ ~ok => file'.hidden
      BY <1>1, <2>1 DEF hideWhatIsKept
    <2>3. removal # "none" /\ (ok => queue = <<>>) /\ Fits(entry, queue)
      BY <1>6 DEF AnswerFits, Own, Removing
    <2>4. Fits(entry, jobs)' /\ Rests(entry)'
      BY <2>1, <2>3 DEF Honest, Fits, WriteFits, Rests
    <2>5. TellsTrue' /\ Fresh' /\ Removes' /\ (Always => file.inKeyring /\ disk.inKeyring)'
      BY <1>2, <2>1, <2>2, <2>3
      DEF Honest, TellsTrue, Told, writeRefusal, Fresh, Removes, Always
    <2> QED
      BY <2>2, <2>4, <2>5 DEF Honest
  <1>7. CASE job.by = "nobody"
    <2>1. jobs' = queue /\ UNCHANGED <<entry, file, disk, unsaved, removal, last>>
      BY <1>7 DEF answered
    <2>2. Fits(entry, jobs)' /\ Rests(entry)'
      BY <2>1 DEF AnswerFits, Honest, Fits, WriteFits, Rests
    <2>3. removal = "none" => Sound(entry, file, jobs, keyring)'
      <3>1. SUFFICES ASSUME removal = "none" PROVE Sound(entry, file, jobs, keyring)'
        OBVIOUS
      <3>2. Sound(entry, file, jobs, keyring)
        BY <3>1 DEF Honest
      <3>3. Quiet(entry, file, queue) /\ (Open(file) => keyring' = keyring)
        BY <1>7, <3>2 DEF AnswerFits, Sound
      <3>4. Quiet(entry, file, jobs)' /\ Known(entry, file, keyring)'
        BY <2>1, <3>2, <3>3 DEF Sound, Quiet, Known, Open
      <3> QED
        BY <2>1, <3>2, <3>4
        DEF Sound, Commits, Answers, Migrates, Moves, FallsBack, MayFallBack, Clears, IsClear,
            newest, Always, Open
    <2>4. Told => /\ Found(file, keyring') = last.value
                  /\ disk = file \/ (~Open(disk) /\ Found(disk, keyring') = last.value)
      BY StillFound DEF AnswerFits
    <2>5. TellsTrue'
      BY <2>1, <2>4 DEF Honest, TellsTrue, Told, writeRefusal
    <2>6. Fresh' /\ Removes' /\ (Saved => Saved') /\ (Always => file.inKeyring /\ disk.inKeyring)'
      BY <1>2, <2>1 DEF Fresh, Removes, Saved, Honest, Always
    <2> QED
      BY <2>1, <2>2, <2>3, <2>5, <2>6 DEF Honest
  <1> QED
    BY <1>3, <1>4, <1>5, <1>6, <1>7 DEF Job

(* The oldest job runs: what it was asked is what the keyring then holds. *)
LEMMA JobRunsHonest == ASSUME NoQuirks, Inv, Honest, JobRuns PROVE Honest'
  <1> DEFINE job == jobs[1]
             queue == Tail(jobs)
  <1>1. jobs # <<>> /\ jobs \in Seq(Job) /\ keyring \in Value /\ RemovalFits(jobs, removal)
    BY InvSays DEF JobRuns, Inv
  <1>2. PICK ok \in BOOLEAN : /\ keyring' = IF ok THEN Done(job) ELSE keyring
                              /\ answered(job, ok, queue)
    BY <1>1, HeadTaken DEF JobRuns
  <1>3. UNCHANGED <<secret, started, closed>>
    BY DEF JobRuns
  <1>4. /\ job \in Job /\ 1 \in DOMAIN jobs /\ queue \in Seq(Job) /\ 1 \in 1..Len(jobs)
        /\ DOMAIN queue = 1..Len(jobs) - 1 /\ Len(jobs) \in Nat
        /\ \A i \in 1..Len(jobs) - 1 : queue[i] = IF i < 1 THEN jobs[i] ELSE jobs[i + 1]
    BY <1>1, HeadTaken, JobOf
  <1>5. Fits(entry, jobs)
    BY DEF Honest
  <1> HIDE DEF queue
  <1>6. /\ Fits(entry, queue)
        /\ job.by = "write" => \A i \in DOMAIN queue : queue[i].by # "write"
        /\ \A i \in DOMAIN queue : \E j \in DOMAIN jobs : j # 1 /\ queue[i] = jobs[j]
    BY <1>1, <1>4, <1>5, FitsWithout
  <1>7. job.kind = "read" => keyring' = keyring
    BY <1>2 DEF Done
  <1>8. AllRead(jobs) => AllRead(queue) /\ keyring' = keyring
    BY <1>4, <1>6, <1>7 DEF AllRead
  <1>9. removal = "none" \/ job.by \in Own => \A i \in DOMAIN queue : queue[i].by \notin Own
    BY <1>1, <1>4, <1>6 DEF RemovalFits, Own, Removing
  <1>10. job.by \in Own => removal \in Removing /\ queue = <<>>
    <2>1. job.by \in Own => removal \in Removing
      BY <1>1, <1>4 DEF RemovalFits, Own, Removing
    <2>2. job.by \in Own => \A j \in DOMAIN jobs : j <= 1
      BY <1>4, <1>5 DEF Fits
    <2>3. job.by \in Own => Len(jobs) <= 1
      BY <1>1, <1>4, <2>2, LenProperties
    <2>4. Len(jobs) <= 1 => queue = <<>>
      <3>1. Len(jobs) <= 1 => DOMAIN queue = {}
        BY <1>4
      <3>2. \A q \in Seq(Job) : DOMAIN q = {} => q = <<>>
        <4>1. TAKE q \in Seq(Job)
        <4>2. Len(q) \in Nat /\ DOMAIN q = 1..Len(q)
          BY LenProperties
        <4>3. DOMAIN q = {} => Len(q) = 0
          BY <4>2
        <4> QED
          BY <4>3, EmptySeq
      <3> QED
        BY <1>4, <3>1, <3>2
    <2> QED
      BY <2>1, <2>3, <2>4
  <1>11. job.by \in {"read", "removalRead"} => keyring' = keyring
    BY <1>4, <1>5, <1>7 DEF Fits
  <1>12. job.by = "write" => WriteFits(entry, jobs, 1)
    BY <1>4, <1>5 DEF Fits
  <1>13. job.by = "write" /\ entry.writing # NoRequest =>
           /\ ok => keyring' = entry.writing.value
           /\ AllRead(queue)
    <2>1. SUFFICES ASSUME job.by = "write", entry.writing # NoRequest
                   PROVE  (ok => keyring' = entry.writing.value) /\ AllRead(queue)
      OBVIOUS
    <2>2. /\ job.value = entry.writing.value
          /\ job.kind = IF entry.writing.value = NoKey THEN "delete" ELSE "write"
          /\ \A j \in DOMAIN jobs : 1 < j => jobs[j].kind = "read"
      BY <1>12, <2>1 DEF WriteFits
    <2>3. ok => keyring' = entry.writing.value
      BY <1>2, <2>2 DEF Done
    <2>4. \A j \in DOMAIN jobs : j # 1 => 1 < j
      BY <1>1, LenProperties
    <2> QED
      BY <1>6, <2>2, <2>3, <2>4 DEF AllRead
  <1>14. job.by # "write" /\ Quiet(entry, file, jobs) =>
           Quiet(entry, file, queue) /\ (Open(file) => keyring' = keyring)
    BY <1>4, <1>6, <1>7 DEF Quiet
  <1>15. ~ok => keyring' = keyring
    BY <1>2
  <1>16. keyring' \in Value
    BY <1>1, <1>2, <1>4 DEF Done, Job, Value
  <1> HIDE DEF job
  <1>17. AnswerFits(job, ok, queue)
    BY <1>1, <1>6, <1>8, <1>9, <1>10, <1>11, <1>12, <1>13, <1>14, <1>15
    DEF AnswerFits, WriteFits
  <1> QED
    BY <1>2, <1>3, <1>4, <1>16, <1>17, AnsweredHonest

(* A timeout leaves the keyring alone, and a write that may land later, if any. *)
LEMMA TimesOutHonest == ASSUME NoQuirks, Inv, Honest, JobTimesOut PROVE Honest'
  <1>1. PICK i \in DOMAIN jobs :
          /\ answered(jobs[i], FALSE,
                IF jobs[i].kind = "read" \/ (jobs[i].kind = "write" /\ secret \notin LateWrites)
                THEN RemoveAt(jobs, i) ELSE [jobs EXCEPT ![i].by = "nobody"])
          /\ jobs[i].by # "nobody"
          /\ UNCHANGED <<secret, started, closed, keyring, counts>>
    BY DEF JobTimesOut
  <1>2. /\ jobs \in Seq(Job) /\ keyring \in Value /\ RemovalFits(jobs, removal)
        /\ jobs[i] \in Job /\ jobs # <<>>
    BY InvSays, JobOf DEF Inv
  <1>3. Fits(entry, jobs)
    BY DEF Honest
  <1> DEFINE gone == jobs[i].kind = "read" \/ (jobs[i].kind = "write" /\ secret \notin LateWrites)
  <1>4. PICK queue \in Seq(Job) :
          /\ answered(jobs[i], FALSE, queue) /\ Fits(entry, queue)
          /\ jobs[i].by = "write" => \A j \in DOMAIN queue : queue[j].by # "write"
          /\ \A j \in DOMAIN queue : \E k \in DOMAIN jobs :
               queue[j].kind = jobs[k].kind /\ (k = i \/ queue[j].by = jobs[k].by)
          /\ \A j \in DOMAIN queue : \E k \in DOMAIN jobs :
               \/ k # i /\ queue[j] = jobs[k]
               \/ ~gone /\ queue[j].by = "nobody"
               \/ ~gone /\ k # i /\ queue[j].kind = jobs[k].kind /\ queue[j].by = jobs[k].by
    <2>1. CASE gone
      <3> DEFINE left == RemoveAt(jobs, i)
      <3>1. answered(jobs[i], FALSE, left)
        BY <1>1, <2>1
      <3>2. /\ left \in Seq(Job) /\ DOMAIN left = 1..Len(jobs) - 1 /\ i \in 1..Len(jobs)
            /\ \A j \in 1..Len(jobs) - 1 : left[j] = IF j < i THEN jobs[j] ELSE jobs[j + 1]
        BY <1>2, OneTaken
      <3> HIDE DEF left
      <3>3. /\ Fits(entry, left)
            /\ jobs[i].by = "write" => \A j \in DOMAIN left : left[j].by # "write"
            /\ \A j \in DOMAIN left : \E k \in DOMAIN jobs : k # i /\ left[j] = jobs[k]
        BY <1>2, <1>3, <3>2, FitsWithout
      <3> QED
        BY <3>1, <3>2, <3>3
    <2>2. CASE ~gone
      <3> DEFINE left == [jobs EXCEPT ![i].by = "nobody"]
      <3>1. answered(jobs[i], FALSE, left)
        BY <1>1, <2>2
      <3>2. /\ left \in Seq(Job) /\ DOMAIN left = DOMAIN jobs
            /\ \A j \in DOMAIN jobs :
                 /\ left[j].kind = jobs[j].kind
                 /\ left[j].by = IF j = i THEN "nobody" ELSE jobs[j].by
        BY <1>2, OneGivenUp
      <3>3. /\ Fits(entry, left)
            /\ jobs[i].by = "write" => \A j \in DOMAIN left : left[j].by # "write"
        BY <1>2, <1>3, FitsGivenUp
      <3> HIDE DEF left, gone
      <3> QED
        BY <2>2, <3>1, <3>2, <3>3
    <2> QED
      BY <2>1, <2>2
  <1>5. jobs[i].kind = "read" => gone
    OBVIOUS
  <1>6. ~gone => jobs[i].kind = "delete" \/ secret \in LateWrites
    BY <1>2 DEF Job
  <1> HIDE DEF gone
  <1>7. AllRead(jobs) => AllRead(queue)
    BY <1>4 DEF AllRead
  <1>8. removal = "none" \/ jobs[i].by \in Own => \A j \in DOMAIN queue : queue[j].by \notin Own
    BY <1>2, <1>4 DEF RemovalFits, Own, Removing
  <1>9. jobs[i].by \in Own => removal \in Removing
    BY <1>2 DEF RemovalFits, Own, Removing
  <1>10. jobs[i].by = "write" => entry.phase # "Idle"
    BY <1>3 DEF Fits, WriteFits
  <1>11. jobs[i].by # "write" /\ Quiet(entry, file, jobs) => Quiet(entry, file, queue)
    <2>1. SUFFICES ASSUME jobs[i].by # "write", Quiet(entry, file, jobs), Open(file),
                          NEW j \in DOMAIN queue, queue[j].kind # "read"
                   PROVE  queue[j].by = "write" /\ entry.writing # NoRequest
      BY DEF Quiet
    <2>2. jobs[i].kind = "read" /\ gone
      BY <1>5, <2>1 DEF Quiet
    <2>3. PICK k \in DOMAIN jobs : queue[j] = jobs[k]
      BY <1>4, <2>2
    <2> QED
      BY <2>1, <2>3 DEF Quiet
  <1>12. jobs[i].by = "write" /\ entry.writing # NoRequest /\ Open(file) =>
           AllRead(queue) \/ entry.writing.value = NoKey \/ secret \in LateWrites
    <2>1. SUFFICES ASSUME jobs[i].by = "write", entry.writing # NoRequest, Open(file),
                          entry.writing.value # NoKey, secret \notin LateWrites
                   PROVE  AllRead(queue)
      OBVIOUS
    <2>2. WriteFits(entry, jobs, i)
      BY <1>3, <2>1 DEF Fits
    <2>3. jobs[i].kind = "write" /\ \A k \in DOMAIN jobs : jobs[k].by = "write" => k = i
      BY <2>1, <2>2 DEF WriteFits
    <2>4. gone
      BY <1>6, <2>1, <2>3
    <2>5. removal = "none"
      BY <2>1, InvSays DEF Refuses, writeRefusal
    <2>6. \A k \in DOMAIN jobs : k # i => jobs[k].kind = "read"
      BY <2>1, <2>3, <2>5 DEF Honest, Sound, Quiet
    <2> QED
      BY <1>4, <2>4, <2>6 DEF AllRead
  <1>13. AnswerFits(jobs[i], FALSE, queue)
    BY <1>1, <1>2, <1>4, <1>7, <1>8, <1>9, <1>10, <1>11, <1>12 DEF AnswerFits
  <1> QED
    BY <1>1, <1>2, <1>4, <1>13, AnsweredHonest

-----------------------------------------------------------------------------
(* What was told is what is found. *)

LEMMA InitHonest == Init => Honest
  <1> SUFFICES ASSUME Init PROVE Honest
    OBVIOUS
  <1>1. /\ entry = NewEntry /\ jobs = <<>> /\ removal = "none" /\ ~closed /\ disk = file
        /\ last = [value |-> NoKey, state |-> "none", hidden |-> FALSE, removed |-> FALSE]
        /\ (file.inKeyring <=> Always)
    BY DEF Init, NothingSaid, Always
  <1>2. /\ entry.phase = "Idle" /\ entry.writing = NoRequest /\ entry.waiting = NoRequest
        /\ entry.answer = "none" /\ entry.stored = Unread /\ ~entry.commitRefused
    BY <1>1 DEF NewEntry
  <1>3. Fits(entry, jobs) /\ Rests(entry)
    BY <1>1, <1>2 DEF Fits, Rests
  <1>4. Sound(entry, file, jobs, keyring)
    BY <1>1, <1>2 DEF Sound, Quiet, Known, Commits, Answers, Migrates, Moves, FallsBack,
                      MayFallBack, Clears, IsClear, newest
  <1>5. Fresh /\ Removes /\ Saved /\ TellsTrue
    BY <1>1 DEF Fresh, writeRefusal, Removes, Saved, TellsTrue, Told
  <1> QED
    BY <1>1, <1>3, <1>4, <1>5 DEF Honest

LEMMA NextHonest == NoQuirks /\ Inv /\ Honest /\ [Next]_vars => Honest'
  BY StartHonest, RestartHonest, SaveSecretHonest, ReadSecretHonest, FileHonest, AnswerHonest,
     DeleteHonest, FinishRemovalHonest, JobRunsHonest, TimesOutHonest DEF Next

LEMMA HonestHolds == ASSUME NoQuirks PROVE Spec => []Honest
  <1>1. Inv /\ Honest /\ [Next]_vars => Honest'
    BY NextHonest
  <1> QED
    BY <1>1, InitHonest, InvHolds, PTL DEF Spec

(* What saveFinished() called stored is what a new process finds, whatever jobs
   run late, whatever is saved, and wherever the process ends; and a clear called
   refused after its key was hidden leaves none to find.  The two known exceptions
   are NoQuirks: a write that lands after its timeout was told where the file may
   not keep the key, and a settings file that a removal can neither save nor
   delete. *)
THEOREM StoredIsFound == ASSUME NoQuirks PROVE Spec => []StoredSurvives
  <1>1. Honest => StoredSurvives
    BY DEF Honest, TellsTrue, Told, StoredSurvives
  <1> QED
    BY <1>1, HonestHolds, PTL

(* From the moment a person clears a key (save(), "A clear hides a key"), no save
   of the settings file goes to disk while a reader could still find it, by
   whichever handler it was saved. *)
THEOREM ClearIsHidden == ASSUME NoQuirks PROVE Spec => []HiddenWhileClearing
  <1>1. Inv /\ Honest => HiddenWhileClearing
    <2> SUFFICES ASSUME Inv, Honest, IsClear(newest(entry)), ~unsaved
                 PROVE  Found(disk, keyring) = NoKey
      BY DEF HiddenWhileClearing, IsClear
    <2>1. removal = "none"
      BY InvSays DEF Refuses, writeRefusal, newest, IsClear
    <2>2. Sound(entry, file, jobs, keyring) /\ disk = file
      BY <2>1 DEF Honest, Saved
    <2>3. file.hidden \/ (file.copy = NoKey /\ (~file.inKeyring \/ entry.stored = NoKey))
      BY <2>2 DEF Sound, Clears
    <2>4. Known(entry, file, keyring) /\ NoKey # Unread
      BY <2>2 DEF Sound, NoKey, Unread
    <2> QED
      BY <2>2, <2>3, <2>4 DEF Known, Open, Found
  <1> QED
    BY <1>1, InvHolds, HonestHolds, PTL
=============================================================================
