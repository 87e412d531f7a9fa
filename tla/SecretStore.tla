----------------------------- MODULE SecretStore -----------------------------
(***************************************************************************)
(* SecretStore for one API key: the request being written and the one that *)
(* waits its turn, what the store remembers, what the settings file says   *)
(* in memory and on disk, the keyring behind its queue of jobs, and the    *)
(* removal of Speecher, which ends in SettingsStore's deletion of the file.*)
(*                                                                         *)
(* A keyring request is answered by the keyring or by its timeout,         *)
(* whichever comes first; a job that timed out still runs when its turn    *)
(* comes.  The file is written when it is saved, and the process may end   *)
(* at any moment: what a new one then reads is what was really stored.     *)
(*                                                                         *)
(* Keys are strings, the empty one is no key.  The secrets share nothing   *)
(* but the file and the order a removal takes them in, so one is modelled, *)
(* the OpenAI key, which every start looks up, or one of the others.       *)
(***************************************************************************)
EXTENDS Naturals, Sequences, SequencesExt

CONSTANTS
    Keys,          \* the keys a person may enter
    Secrets,       \* the secrets a behaviour may be about
    LateWrites,    \* those whose write may land after its timeout was told
    OpenFolders,   \* those whose settings file may not be made private
    StuckFiles,    \* those whose settings file a removal may fail to save
    MaxRequests,   \* bound: saves, clears and removals asked for
    MaxStarts      \* bound: how often the program starts again

NoKey == ""
Unread == "unread"
OpenAiApiKey == "OpenAiApiKey"

ASSUME SecretKeysAssumption == NoKey \notin Keys /\ Unread \notin Keys
ASSUME SecretSetsAssumption ==
    LateWrites \cup OpenFolders \cup StuckFiles \subseteq Secrets
ASSUME SecretBoundsAssumption == MaxRequests \in Nat /\ MaxStarts \in Nat

VARIABLES
    secret,      \* which secret it is
    started,     \* the controller made its startup calls
    entry,       \* the SecretState
    file,        \* what the settings file says, with unsaved changes
    disk,        \* what it says on disk
    unsaved,     \* savedBy is ahead of the file's saves
    closed,      \* the settings were deleted
    removal,     \* m_removals: what a removal under way waits for
    keyring,     \* the entry in the keyring
    jobs,        \* QtKeychain's jobs, oldest first, and who waits for each
    counts,      \* requests asked for, and starts of the program
    last         \* for the properties: the newest request and its answer, and
                 \* whether a removal went through since

vars == <<secret, started, entry, file, disk, unsaved, closed, removal, keyring, jobs, counts, last>>

-----------------------------------------------------------------------------
\* mayBeInKeyring() without an entry of the file's list.
Always == secret = OpenAiApiKey

Value == Keys \cup {NoKey}
Request == [value : Value, fallBack : BOOLEAN, migrating : BOOLEAN, marked : BOOLEAN]
NoRequest == [value |-> Unread, fallBack |-> FALSE, migrating |-> FALSE, marked |-> FALSE]

Job == [kind : {"read", "write", "delete"}, value : Value,
        by : {"read", "write", "removal", "removalRead", "nobody"}]
AJob(kind, value, by) == [kind |-> kind, value |-> value, by |-> by]

FileSays == [copy : Value, hidden : BOOLEAN, inKeyring : BOOLEAN]
NothingSaid == [copy |-> NoKey, hidden |-> FALSE, inKeyring |-> Always]
withKeyHidden(f) == [f EXCEPT !.copy = NoKey, !.hidden = TRUE]

NewEntry == [phase |-> "Idle", writing |-> NoRequest, waiting |-> NoRequest,
             stored |-> Unread, reading |-> FALSE, retry |-> FALSE,
             commitRefused |-> FALSE, answer |-> "none"]

newest(e) == IF e.waiting # NoRequest THEN e.waiting ELSE e.writing
isSecretKnown(e, f) == f.hidden \/ e.stored # Unread \/ newest(e) # NoRequest

\* The request under way is left unheard, and nothing waits.
drop(e) ==
    [e EXCEPT !.phase = IF e.phase = "Writing" THEN "Dropped" ELSE e.phase,
              !.writing = NoRequest, !.waiting = NoRequest]

\* What a reader without this store's memory finds in such a file, and in the
\* keyring behind it.
Found(f, entryValue) ==
    IF f.hidden THEN NoKey
    ELSE IF f.copy # NoKey \/ ~f.inKeyring THEN f.copy ELSE entryValue

\* Mutant: what storage holds is taken from memory alone.
HoldsInMemory(e, f, request) == e.stored = request.value

\* Storage holds the request, as this store read or wrote it last.
holds(e, f, request) ==
    /\ e.stored = request.value /\ ~f.hidden
    /\ IF f.copy = NoKey THEN request.value = NoKey \/ f.inKeyring
       ELSE request.fallBack /\ f.copy = request.value

\* Mutant: saves go on while the secrets are being removed.
WriteRefusalOnceClosed == closed

writeRefusal == closed \/ removal # "none"

-----------------------------------------------------------------------------
(* Writing.                                                                *)

\* Takes the waiting request: how it will be answered, or the keyring job
\* that answers it.
Needs(e, f) ==
    LET request == e.waiting
    IN  CASE writeRefusal \/ (~request.migrating /\ holds(e, f, request)) -> "noKeyring"
          [] request.value = NoKey /\ ~f.inKeyring /\ ~request.marked -> "ok"
          [] OTHER -> "none"

writeNext(e, f) ==
    [e EXCEPT !.writing = e.waiting, !.waiting = NoRequest, !.phase = "Writing",
              !.answer = Needs(e, f)]
WriteJobs(e, f) ==
    IF Needs(e, f) # "none" THEN << >>
    ELSE <<AJob(IF e.waiting.value = NoKey THEN "delete" ELSE "write", e.waiting.value, "write")>>

\* Mutant: after a dropped request, the waiting one is left waiting.
GoesOnUnlessDropped(e, f, queue) ==
    LET starts == e.phase = "Idle" /\ e.waiting # NoRequest /\ entry.phase # "Dropped"
    IN  /\ entry' = IF starts THEN writeNext(e, f) ELSE e
        /\ jobs' = queue \o (IF starts THEN WriteJobs(e, f) ELSE << >>)
        /\ file' = f

\* The store goes on with e and the file saying f: it starts the waiting
\* request when nothing is being written.
GoesOn(e, f, queue) ==
    LET starts == e.phase = "Idle" /\ e.waiting # NoRequest
    IN  /\ entry' = IF starts THEN writeNext(e, f) ELSE e
        /\ jobs' = queue \o (IF starts THEN WriteJobs(e, f) ELSE << >>)
        /\ file' = f

\* A clear hides the key at once where a reader could find it.
Hides(e, request) ==
    /\ request.value = NoKey /\ ~request.migrating
    /\ \/ e.phase = "Writing"
       \/ (file.copy # NoKey \/ file.inKeyring) /\ ~holds(e, file, request)

save(value, fallBack, migrating) ==
    LET marked == IF newest(entry) # NoRequest THEN newest(entry).marked ELSE file.hidden
        request == [value |-> value, fallBack |-> fallBack, migrating |-> migrating,
                    marked |-> marked]
        says == IF Hides(entry, request) THEN withKeyHidden(file) ELSE file
    IN  IF writeRefusal
        THEN /\ entry' = drop(entry)
             /\ last' = IF migrating THEN last ELSE [last EXCEPT !.value = value, !.state = "refused"]
             /\ UNCHANGED <<file, unsaved, jobs>>
        ELSE /\ GoesOn([entry EXCEPT !.waiting = request], says, jobs)
             /\ unsaved' = (unsaved \/ says # file)
             /\ last' = IF migrating THEN last
                        ELSE [value |-> value, state |-> "asked", hidden |-> FALSE, removed |-> FALSE]

\* saveSecret() and saveApiKey(), which refuses the settings file.
saveSecret ==
    /\ started /\ counts.requests < MaxRequests
    /\ counts' = [counts EXCEPT !.requests = @ + 1]
    /\ \E value \in Value : save(value, ~Always, FALSE)
    /\ UNCHANGED <<secret, started, disk, closed, removal, keyring>>

\* keep(): a refused key goes in the file where it may, and a refused clear hides
\* the key; a refused migration changes nothing.
KeepsInFile(request, answer, private) ==
    answer = "failed" /\ ~request.migrating /\ request.value # NoKey /\ request.fallBack /\ private
KeepsHidden(request, answer) ==
    answer = "failed" /\ ~request.migrating /\ request.value = NoKey
Kept(request, answer, private) == answer # "failed" \/ KeepsInFile(request, answer, private)
Caches(request, answer, private) ==
    answer = "ok" \/ KeepsInFile(request, answer, private) \/ KeepsHidden(request, answer)
Says(request, answer, private) ==
    CASE answer = "ok" -> [copy |-> NoKey, hidden |-> FALSE,
                           inKeyring |-> request.value # NoKey \/ Always]
      [] KeepsInFile(request, answer, private) ->
           [file EXCEPT !.copy = request.value, !.hidden = FALSE]
      [] KeepsHidden(request, answer) -> withKeyHidden(file)
      [] OTHER -> file

\* Mutant: what the older request stored is left to find.
HiddenBehindNothing(f) == f

\* A request that waits behind a hidden key keeps what this one stored hidden.
HiddenBehind(f) == IF entry.waiting # NoRequest /\ file.hidden THEN withKeyHidden(f) ELSE f

settled(request, stored, hides) ==
    IF request.migrating \/ entry.waiting # NoRequest THEN last
    ELSE [last EXCEPT !.value = request.value,
                      !.state = IF stored THEN "stored" ELSE "refused", !.hidden = hides]

\* store(): keeps what the keyring did, and saves the file unless it was saved
\* since its last change; then the next request takes its turn.
finishWrite(answer, queue) ==
    LET request == entry.writing
        idle == [entry EXCEPT !.phase = "Idle", !.writing = NoRequest, !.answer = "none"]
    IN  IF request = NoRequest \/ writeRefusal
        THEN /\ GoesOn(idle, file, queue)
             /\ last' = IF request = NoRequest THEN last ELSE settled(request, FALSE, FALSE)
             /\ UNCHANGED <<disk, unsaved>>
        ELSE \E private \in IF secret \in OpenFolders THEN BOOLEAN ELSE {TRUE},
                saves \in BOOLEAN :
             LET says == HiddenBehind(Says(request, answer, private))
                 dirty == unsaved \/ says # file
                 kept == Kept(request, answer, private)
                 committed == ~dirty \/ saves
             IN  /\ GoesOn([idle EXCEPT
                       !.stored = IF Caches(request, answer, private) THEN request.value ELSE @,
                       !.retry = @ /\ ~Caches(request, answer, private),
                       !.commitRefused = IF kept \/ says # file THEN kept /\ ~committed ELSE @],
                       says, queue)
                 /\ disk' = IF dirty /\ saves THEN says ELSE disk
                 /\ unsaved' = ~committed
                 /\ last' = settled(request, kept /\ committed,
                                    request.value = NoKey /\ says.hidden /\ committed)

\* A request that needed no keyring is answered from the event loop.
answerWithoutKeyring ==
    /\ entry.answer # "none"
    /\ finishWrite(entry.answer, jobs)
    /\ UNCHANGED <<secret, started, closed, removal, keyring, counts>>

\* saveSecrets() tries again to save what an earlier save could not.
retryCommit ==
    /\ started /\ entry.commitRefused /\ entry.phase = "Idle" /\ entry.waiting = NoRequest
    /\ ~writeRefusal
    /\ entry' = [entry EXCEPT !.commitRefused = FALSE]
    /\ unsaved' = FALSE
    /\ disk' = IF unsaved THEN file ELSE disk
    /\ last' = IF file.hidden THEN last
               ELSE [last EXCEPT !.value = entry.stored, !.state = "stored"]
    /\ UNCHANGED <<secret, started, file, closed, removal, keyring, jobs, counts>>

\* Any other save of the settings file.
FileSaves ==
    /\ ~closed /\ (unsaved \/ disk # file)
    /\ disk' = file /\ unsaved' = FALSE
    /\ UNCHANGED <<secret, started, entry, file, closed, removal, keyring, jobs, counts, last>>

-----------------------------------------------------------------------------
(* Reading.                                                                *)

Reads(e, f) == ~isSecretKnown(e, f) /\ ~e.reading /\ removal = "none"
startRead == AJob("read", NoKey, "read")

\* secret() on the main thread: the copy in the file, or a read is started.
readSecret ==
    /\ started /\ ~isSecretKnown(entry, file)
    /\ \/ /\ file.copy # NoKey \/ ~file.inKeyring
          /\ entry' = [entry EXCEPT !.stored = file.copy, !.retry = FALSE]
          /\ jobs' = jobs
       \/ /\ file.copy = NoKey /\ file.inKeyring /\ ~entry.retry
          /\ Reads(entry, file)
          /\ entry' = [entry EXCEPT !.reading = TRUE]
          /\ jobs' = Append(jobs, startRead)
    /\ UNCHANGED <<secret, started, file, disk, unsaved, closed, removal, keyring, counts, last>>

finishRead(ok) ==
    entry' = [entry EXCEPT
        !.reading = FALSE,
        !.stored = IF isSecretKnown(entry, file) \/ ~ok THEN @ ELSE keyring,
        !.retry = IF isSecretKnown(entry, file) THEN @ ELSE ~ok]

RetryExpires ==
    /\ entry.retry
    /\ entry' = [entry EXCEPT !.retry = FALSE]
    /\ UNCHANGED <<secret, started, file, disk, unsaved, closed, removal, keyring, jobs, counts,
                   last>>

-----------------------------------------------------------------------------
(* Removing Speecher.                                                      *)

deleteKeyringSecrets ==
    /\ started /\ ~writeRefusal /\ counts.requests < MaxRequests
    /\ removal' = "deleting"
    /\ entry' = drop(entry)
    /\ jobs' = Append(jobs, AJob("delete", NoKey, "removal"))
    /\ counts' = [counts EXCEPT !.requests = @ + 1]
    /\ last' = [last EXCEPT !.state = "none", !.hidden = FALSE, !.removed = FALSE]
    /\ UNCHANGED <<secret, started, file, disk, unsaved, closed, keyring>>

\* The entry is gone, or it is looked for again where every start would find it.
removeNext(ok, queue) ==
    /\ file' = IF ok THEN [file EXCEPT !.hidden = FALSE, !.inKeyring = Always] ELSE file
    /\ unsaved' = (unsaved \/ (ok /\ file.hidden))
    /\ removal' = IF ok THEN "deleted" ELSE IF Always THEN "reading" ELSE "kept"
    /\ jobs' = IF ~ok /\ Always THEN Append(queue, AJob("read", NoKey, "removalRead")) ELSE queue

hideWhatIsKept(ok) ==
    LET kept == ~ok \/ keyring # NoKey
    IN  /\ file' = [file EXCEPT !.hidden = @ \/ kept]
        /\ unsaved' = (unsaved \/ kept)
        /\ removal' = "kept"

\* finishRemoval(), and the deletion of the settings it leads to at once: all
\* but the deletion markers go.  Another secret may be marked too, settings of
\* an older Speecher may stay, and so may the file.
finishRemoval ==
    /\ removal \in {"deleted", "kept"}
    /\ removal' = "none"
    /\ entry' = [entry EXCEPT !.stored = Unread, !.retry = FALSE, !.commitRefused = FALSE]
    /\ file' = [NothingSaid EXCEPT !.hidden = file.hidden]
    /\ \E othersMarked, older \in BOOLEAN,
          saved \in IF secret \in StuckFiles THEN BOOLEAN ELSE {TRUE} :
       /\ disk' = IF saved THEN file' ELSE disk
       /\ unsaved' = (unsaved /\ ~saved)
       /\ closed' = (older /\ (saved \/ ~(file.hidden \/ othersMarked)))
       /\ last' = [last EXCEPT !.removed = removal = "deleted" /\ saved]
    /\ UNCHANGED <<secret, started, keyring, jobs, counts>>

-----------------------------------------------------------------------------
(* The keyring, the clock and the process.                                 *)

answered(job, ok, queue) ==
    CASE job.by = "write" ->
           /\ finishWrite(IF ok THEN "ok" ELSE "failed", queue)
           /\ UNCHANGED removal
      [] job.by = "read" ->
           finishRead(ok) /\ jobs' = queue /\ UNCHANGED <<file, disk, unsaved, removal, last>>
      [] job.by = "removal" ->
           removeNext(ok, queue) /\ UNCHANGED <<entry, disk, last>>
      [] job.by = "removalRead" ->
           hideWhatIsKept(ok) /\ jobs' = queue /\ UNCHANGED <<entry, disk, last>>
      [] OTHER -> jobs' = queue /\ UNCHANGED <<entry, file, disk, unsaved, removal, last>>

\* What the job leaves in the keyring.
Done(job) ==
    CASE job.kind = "write" -> job.value
      [] job.kind = "delete" -> NoKey
      [] OTHER -> keyring

\* QtKeychain runs one job at a time, in the order they started; the keyring
\* does what it asks or refuses.
JobRuns ==
    /\ jobs # << >>
    /\ \E ok \in BOOLEAN :
       /\ keyring' = IF ok THEN Done(Head(jobs)) ELSE keyring
       /\ answered(Head(jobs), ok, Tail(jobs))
    /\ UNCHANGED <<secret, started, closed, counts>>

\* The request is answered without the job, which may still run in its turn: a
\* read nobody waits for changes nothing and is left out.
JobTimesOut ==
    \E i \in DOMAIN jobs :
       /\ jobs[i].by # "nobody"
       /\ answered(jobs[i], FALSE,
                   IF jobs[i].kind = "read" \/ (jobs[i].kind = "write" /\ secret \notin LateWrites)
                   THEN RemoveAt(jobs, i) ELSE [jobs EXCEPT ![i].by = "nobody"])
       /\ UNCHANGED <<secret, started, closed, keyring, counts>>

\* migrateSettingsFallbacks() and prefetch(), in the controller's constructor.
Start ==
    /\ ~started /\ started' = TRUE
    /\ IF file.hidden \/ file.copy # NoKey
       THEN save(IF file.hidden THEN NoKey ELSE file.copy, TRUE, TRUE)
       ELSE /\ entry' = [entry EXCEPT !.reading = ~Always /\ file.inKeyring]
            /\ jobs' = IF entry'.reading THEN Append(jobs, startRead) ELSE jobs
            /\ UNCHANGED <<file, unsaved, last>>
    /\ UNCHANGED <<secret, disk, closed, removal, keyring, counts>>

\* The process ends, and a new one begins (a reinstalled one, after a removal).
\* The keyring may have taken the job it was given.
Restart ==
    /\ started /\ counts.starts < MaxStarts
    /\ counts' = [counts EXCEPT !.starts = @ + 1]
    /\ started' = FALSE /\ entry' = NewEntry /\ jobs' = << >>
    /\ file' = disk /\ unsaved' = FALSE /\ closed' = FALSE /\ removal' = "none"
    /\ keyring' \in {keyring} \cup (IF jobs = << >> THEN {} ELSE {Done(Head(jobs))})
    /\ last' = [last EXCEPT !.state = IF @ = "asked" THEN "unknown" ELSE @]
    /\ UNCHANGED <<secret, disk>>

Init ==
    /\ secret \in Secrets
    /\ started = FALSE /\ entry = NewEntry
    /\ \E copy \in Value : file = [NothingSaid EXCEPT !.copy = copy]
    /\ disk = file /\ unsaved = FALSE /\ closed = FALSE
    /\ removal = "none" /\ keyring = NoKey /\ jobs = << >>
    /\ counts = [requests |-> 0, starts |-> 0]
    /\ last = [value |-> NoKey, state |-> "none", hidden |-> FALSE, removed |-> FALSE]

Next ==
    \/ Start \/ Restart \/ saveSecret \/ readSecret \/ retryCommit \/ answerWithoutKeyring
    \/ RetryExpires \/ FileSaves \/ deleteKeyringSecrets \/ finishRemoval
    \/ JobRuns \/ JobTimesOut

\* The event loop's timers fire, those of a removal's other entries among them.
Fairness ==
    /\ WF_vars(answerWithoutKeyring) /\ WF_vars(JobTimesOut) /\ WF_vars(finishRemoval)

Spec == Init /\ [][Next]_vars /\ Fairness

-----------------------------------------------------------------------------
(* Properties.                                                             *)

\* The state has its type.
TypeOK ==
    /\ secret \in Secrets /\ started \in BOOLEAN
    /\ entry \in [phase : {"Idle", "Writing", "Dropped"},
                  writing : Request \cup {NoRequest}, waiting : Request \cup {NoRequest},
                  stored : Value \cup {Unread}, reading : BOOLEAN, retry : BOOLEAN,
                  commitRefused : BOOLEAN, answer : {"none", "noKeyring", "ok"}]
    /\ file \in FileSays /\ disk \in FileSays /\ unsaved \in BOOLEAN /\ closed \in BOOLEAN
    /\ removal \in {"none", "deleting", "reading", "deleted", "kept"}
    /\ keyring \in Value /\ jobs \in Seq(Job)
    /\ counts \in [requests : 0..MaxRequests, starts : 0..MaxStarts]
    /\ last \in [value : Value, state : {"none", "asked", "stored", "refused", "unknown"},
                 hidden : BOOLEAN, removed : BOOLEAN]

\* What saveFinished() called stored is what a new process finds, whatever
\* jobs, saves and crashes follow, until the person asks for something else;
\* and a clear it called refused after hiding the key leaves none to find.
StoredSurvives ==
    last.state = "stored" \/ (last.state = "refused" /\ last.hidden)
        => Found(disk, keyring) = last.value

\* From the moment a person clears a key, no save of the settings file goes to
\* disk while a reader could still find it (save(), "A clear hides a key").
HiddenWhileClearing ==
    newest(entry) # NoRequest /\ newest(entry).value = NoKey /\ ~newest(entry).migrating
        /\ ~unsaved
        => Found(disk, keyring) = NoKey

\* After a removal that says it deleted the keys, neither the keyring nor the
\* file has one again, whatever was being written when it began.
RemovedIsGone == last.removed => keyring = NoKey /\ disk.copy = NoKey

\* Every save and clear is answered: the writes settle again and again, so
\* that what waits for them (afterWrites()) goes on.
WritesSettle == []<>(newest(entry) = NoRequest /\ removal = "none")
=============================================================================
