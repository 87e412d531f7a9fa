--------------------------- MODULE LocalTranscriber ---------------------------
(***************************************************************************)
(* LocalSpeechTranscriber: the caller's thread and the worker's, which     *)
(* runs the engine.  The caller queues work for the worker and the worker  *)
(* queues its results for the caller; the attempt that is live, and the    *)
(* audio the worker has yet to take, are shared.                           *)
(*                                                                         *)
(* Between two steps of the worker the caller may do anything: let the     *)
(* attempt go, open the next, or ask for a speed test.  An engine call is  *)
(* two steps, as the caller may move on while it runs; it aborts only      *)
(* then.  The destructor, which stops the thread, is left out.             *)
(***************************************************************************)
EXTENDS TranscriberContract, Sequences, Functions

CONSTANTS
    Models,    \* bound: the models a person chooses among; "stream" streams
    MaxJobs    \* bound: work queued when a speed test or an unload joins it

VARIABLES
    shared,    \* m_liveAttempt, m_pendingPcm, m_feedQueued; the idle timer
    jobs,      \* queued for the worker
    worker,    \* the worker's own state, and where it is in its job
    engine,    \* the model loaded, and the audio of the attempt it has
    reports    \* queued for the caller

localVars == <<attempt, shared, jobs, worker, engine, reports>>

Missing == "missing"   \* a model that is not downloaded
Unloaded == "none"

startIdleTimer == [shared EXCEPT !.live = 0, !.idle = TRUE]
End(id, end, words) == [type |-> "end", id |-> id, end |-> end, words |-> words]

\* attemptRunning() of the attempt the worker has begun.
Running == ~worker.failed /\ worker.attempt = shared.live

-----------------------------------------------------------------------------
(* The caller's thread.                                                    *)

startAttempt ==
    /\ MayOpen
    /\ attempt' = Opened
    /\ shared' = [shared EXCEPT !.live = attempt'.id, !.pending = << >>, !.idle = FALSE]
    /\ \E model \in Models \cup {Missing} :
         IF model = Missing
         THEN reports' = Append(reports, End(attempt'.id, "failed", {})) /\ UNCHANGED jobs
         ELSE /\ jobs' = Append(jobs, [type |-> "begin", id |-> attempt'.id, model |-> model])
              /\ UNCHANGED reports
    /\ UNCHANGED <<worker, engine>>

\* One feed takes all the audio that has piled up.
sendAudio ==
    /\ MaySend
    /\ attempt' = Handed(attempt, TRUE)
    /\ IF attempt.id # shared.live THEN UNCHANGED <<shared, jobs>>
       ELSE /\ shared' = [shared EXCEPT !.pending = Append(@, attempt'.sent), !.feedQueued = TRUE]
            /\ jobs' = IF shared.feedQueued THEN jobs ELSE Append(jobs, [type |-> "feed"])
    /\ UNCHANGED <<worker, engine, reports>>

finishInput ==
    /\ MayFinish
    /\ attempt' = Told
    /\ jobs' = IF attempt.id = shared.live THEN Append(jobs, [type |-> "finish", id |-> attempt.id]) ELSE jobs
    /\ UNCHANGED <<shared, worker, engine, reports>>

cancelAttempt ==
    /\ MayCancel
    /\ attempt' = LetGo
    /\ shared' = IF attempt.id = shared.live THEN startIdleTimer ELSE shared
    /\ UNCHANGED <<jobs, worker, engine, reports>>

\* Bound: a speed test whose result has not come is the only one.
Testing ==
    \/ worker.at = "test"
    \/ \E job \in Range(jobs) : job.type = "test"
    \/ \E report \in Range(reports) : report.type = "tested"

runSpeedTest ==
    /\ shared.live = 0 /\ ~Testing /\ Len(jobs) < MaxJobs
    /\ \E model \in Models : jobs' = Append(jobs, [type |-> "test", model |-> model])
    /\ shared' = [shared EXCEPT !.idle = FALSE]
    /\ UNCHANGED <<attempt, worker, engine, reports>>

IdleTimeout ==
    /\ shared.idle /\ Len(jobs) < MaxJobs
    /\ shared' = [shared EXCEPT !.idle = FALSE]
    /\ jobs' = Append(jobs, [type |-> "unload"])
    /\ UNCHANGED <<attempt, worker, engine, reports>>

\* A result of the live attempt is told of; its last ends it.
HandleReport ==
    /\ reports # << >> /\ reports' = Tail(reports)
    /\ LET report == Head(reports) IN
       \/ /\ report.type = "tested"
          /\ shared' = IF shared.live = 0 THEN startIdleTimer ELSE shared
          /\ UNCHANGED attempt
       \/ /\ report.type # "tested" /\ report.id # shared.live
          /\ UNCHANGED <<shared, attempt>>
       \/ /\ report.type = "text" /\ report.id = shared.live
          /\ attempt' = Accounted(attempt, attempt.words \cup report.words)
          /\ UNCHANGED shared
       \/ /\ report.type = "end" /\ report.id = shared.live
          /\ attempt' = Ended(Accounted(attempt, attempt.words \cup report.words), report.end)
          /\ shared' = startIdleTimer
    /\ UNCHANGED <<jobs, worker, engine>>

-----------------------------------------------------------------------------
(* The worker's thread.                                                    *)

TakeJob(type) == worker.at = "idle" /\ jobs # << >> /\ Head(jobs).type = type /\ jobs' = Tail(jobs)

failAttempt ==
    /\ worker' = [worker EXCEPT !.failed = TRUE, !.at = "idle", !.taken = << >>]
    /\ reports' = Append(reports, End(worker.attempt, "failed", {}))

Begin ==
    /\ TakeJob("begin")
    /\ LET job == Head(jobs) IN
       IF job.id # shared.live THEN UNCHANGED <<worker, engine>>
       ELSE /\ worker' = [attempt |-> job.id, failed |-> FALSE, at |-> "load", model |-> job.model,
                          taken |-> << >>]
            /\ engine' = [engine EXCEPT !.heard = << >>]
    /\ UNCHANGED <<attempt, shared, reports>>

\* ensureLoaded() and beginStream(); either may fail.
Load ==
    /\ worker.at = "load"
    /\ \/ /\ engine' = [engine EXCEPT !.model = worker.model]
          /\ worker' = [worker EXCEPT !.at = "take"]
          /\ UNCHANGED reports
       \/ /\ \E model \in {Unloaded, worker.model} : engine' = [engine EXCEPT !.model = model]
          /\ failAttempt
    /\ UNCHANGED <<attempt, shared, jobs>>

\* Mutant: the audio is taken for whichever attempt the worker has.
takePendingOfAny ==
    /\ worker' = [worker EXCEPT !.at = "taken", !.taken = shared.pending]
    /\ shared' = [shared EXCEPT !.feedQueued = FALSE, !.pending = << >>]

\* feedPending(), under the lock: audio of an attempt not begun stays.
takePending ==
    IF shared.live # worker.attempt
    THEN /\ worker' = [worker EXCEPT !.at = "idle"]
         /\ shared' = [shared EXCEPT !.feedQueued = FALSE]
    ELSE /\ worker' = [worker EXCEPT !.at = "taken", !.taken = shared.pending]
         /\ shared' = [shared EXCEPT !.feedQueued = FALSE, !.pending = << >>]

FeedPending ==
    /\ \/ TakeJob("feed")
       \/ worker.at = "take" /\ UNCHANGED jobs
    /\ takePending
    /\ UNCHANGED <<attempt, engine, reports>>

\* Once the lock is released the attempt may have ended.
Feed ==
    /\ worker.at = "taken"
    /\ \/ /\ worker.taken = << >> \/ ~Running
          /\ worker' = [worker EXCEPT !.at = "idle", !.taken = << >>]
          /\ UNCHANGED engine
       \/ /\ worker.taken # << >> /\ Running /\ engine.model # "stream"
          /\ worker' = [worker EXCEPT !.at = "idle", !.taken = << >>]
          /\ engine' = [engine EXCEPT !.heard = @ \o worker.taken]
       \/ /\ worker.taken # << >> /\ Running /\ engine.model = "stream"
          /\ worker' = [worker EXCEPT !.at = "feeding"]
          /\ UNCHANGED engine
    /\ UNCHANGED <<attempt, shared, jobs, reports>>

Aborts == shared.live # worker.attempt /\ worker' = [worker EXCEPT !.at = "idle", !.taken = << >>]

\* Any of the words so far may have become final.
Fed ==
    /\ worker.at = "feeding"
    /\ \/ /\ engine' = [engine EXCEPT !.heard = @ \o worker.taken]
          /\ worker' = [worker EXCEPT !.at = "idle", !.taken = << >>]
          /\ \E n \in {0, Len(engine.heard)} :
                reports' = IF n = 0 THEN reports
                           ELSE Append(reports, [type |-> "text", id |-> worker.attempt,
                                                 words |-> Range(SubSeq(engine.heard, 1, n))])
       \/ failAttempt /\ UNCHANGED engine
       \/ Aborts /\ UNCHANGED <<engine, reports>>
    /\ UNCHANGED <<attempt, shared, jobs>>

TakeFinish ==
    /\ TakeJob("finish")
    /\ worker' = IF Running /\ Head(jobs).id = worker.attempt THEN [worker EXCEPT !.at = "finish"] ELSE worker
    /\ UNCHANGED <<attempt, shared, engine, reports>>

\* The final text replaces all that streamed.
Finished ==
    /\ worker.at = "finish"
    /\ engine' = [engine EXCEPT !.heard = << >>]
    /\ \/ /\ reports' = Append(reports, End(worker.attempt, "completed", Range(engine.heard)))
          /\ worker' = [worker EXCEPT !.at = "idle"]
       \/ failAttempt
       \/ Aborts /\ UNCHANGED reports
    /\ UNCHANGED <<attempt, shared, jobs>>

Unload ==
    /\ TakeJob("unload")
    /\ engine' = IF shared.live = 0 THEN [engine EXCEPT !.model = Unloaded] ELSE engine
    /\ UNCHANGED <<attempt, shared, worker, reports>>

Test ==
    /\ TakeJob("test")
    /\ worker' = [worker EXCEPT !.attempt = 0, !.at = "test", !.model = Head(jobs).model]
    /\ UNCHANGED <<attempt, shared, engine, reports>>

\* It loads a model of its own choice, and stops when an attempt goes live.
Tested ==
    /\ worker.at = "test"
    /\ \E model \in {Unloaded, worker.model} : engine' = [engine EXCEPT !.model = model]
    /\ worker' = [worker EXCEPT !.at = "idle"]
    /\ reports' = Append(reports, [type |-> "tested"])
    /\ UNCHANGED <<attempt, shared, jobs>>

-----------------------------------------------------------------------------
LocalInit ==
    /\ ContractInit
    /\ shared = [live |-> 0, pending |-> << >>, feedQueued |-> FALSE, idle |-> FALSE]
    /\ jobs = << >> /\ reports = << >>
    /\ worker = [attempt |-> 0, failed |-> FALSE, at |-> "idle", model |-> Unloaded, taken |-> << >>]
    /\ engine = [model |-> Unloaded, heard |-> << >>]

Work ==
    \/ Begin \/ Load \/ FeedPending \/ Feed \/ Fed \/ TakeFinish \/ Finished \/ Unload \/ Test \/ Tested

LocalNext ==
    \/ startAttempt \/ sendAudio \/ finishInput \/ cancelAttempt \/ runSpeedTest
    \/ IdleTimeout \/ HandleReport \/ Work

\* The attempt the caller waits for, and whether its end is on its way.
Awaited == shared.live # 0 /\ ~ \E report \in Range(reports) : report.type = "end" /\ report.id = shared.live
Begun == worker.attempt = shared.live

\* All of the live attempt's audio is in the engine, on its way there or
\* waiting, in order; and the engine that has it has the attempt's model.
LocalInOrder ==
    /\ Awaited =>
          /\ shared.live = attempt.id
          /\ (IF Begun THEN engine.heard \o worker.taken ELSE << >>) \o shared.pending
                = [i \in 1..attempt.sent |-> i]
    /\ Awaited /\ Begun /\ worker.at # "load" => engine.model = worker.model
=============================================================================
