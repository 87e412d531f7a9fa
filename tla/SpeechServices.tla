---------------------------- MODULE SpeechServices ----------------------------
(***************************************************************************)
(* The speech services of ProviderRegistry, each behind SpeechTranscriber. *)
(* A behaviour is one service's, which every attempt of it uses: that      *)
(* another service takes over is the chain's and the speech side's.  What  *)
(* holds here is what those may rely on, whichever service it is.          *)
(***************************************************************************)
EXTENDS TranscriberContract, Sequences

CONSTANTS
    StreamChunks,   \* bound: chunks, for every service but the endpoint
    MostPending, MostHeld, MaxEvents, Crossing,   \* of Claude and Codex
    LeadIn, MostWaiting,                          \* of the endpoint
    Models, MaxJobs,                              \* of the local models
    Null

ASSUME ServiceBoundsAssumption == StreamChunks \in 0..MaxChunks /\ LeadIn \in Nat

VARIABLES
    service,                          \* the service chosen
    client, socket, timers, server,   \* of the services that are reached over the network
    shared, jobs, worker, engine, reports   \* of the local models

networkVars == <<client, socket, timers, server>>
threadVars == <<shared, jobs, worker, engine, reports>>
vars == <<attempt, service, networkVars, threadVars>>

Claude == INSTANCE ClaudeTranscriber WITH MaxChunks <- StreamChunks
Codex == INSTANCE CodexTranscriber WITH MaxChunks <- StreamChunks
Endpoint == INSTANCE EndpointTranscriber
Local == INSTANCE LocalTranscriber WITH MaxChunks <- StreamChunks

-----------------------------------------------------------------------------
NoSocket == socket = Null /\ timers = Null
NoThread == shared = Null /\ jobs = Null /\ worker = Null /\ engine = Null /\ reports = Null

Init ==
    \/ service = "claude" /\ Claude!ClaudeInit /\ NoThread
    \/ service = "codex" /\ Codex!CodexInit /\ NoThread
    \/ service = "endpoint" /\ Endpoint!EndpointInit /\ NoSocket /\ NoThread
    \/ service = "local" /\ Local!LocalInit /\ NoSocket /\ client = Null /\ server = Null

ByClaude(A) == service = "claude" /\ A /\ UNCHANGED <<service, threadVars>>
ByCodex(A) == service = "codex" /\ A /\ UNCHANGED <<service, threadVars>>
ByEndpoint(A) == service = "endpoint" /\ A /\ UNCHANGED <<service, socket, timers, threadVars>>
ByLocal(A) == service = "local" /\ A /\ UNCHANGED <<service, networkVars>>

Next ==
    \/ ByClaude(Claude!ClaudeNext)
    \/ ByCodex(Codex!CodexNext)
    \/ ByEndpoint(Endpoint!EndpointNext)
    \/ ByLocal(Local!LocalNext)

\* Timers fire, replies come or are aborted, the worker works and its results
\* are handled; nothing the network or a person does is sure to come.
Spec ==
    /\ Init /\ [][Next]_vars
    /\ WF_vars(ByClaude(Claude!ClaudeCode))
    /\ WF_vars(ByCodex(Codex!CodexCode))
    /\ WF_vars(ByEndpoint(Endpoint!EndpointCode))
    /\ WF_vars(ByLocal(Local!Work))
    /\ WF_vars(ByLocal(Local!HandleReport))

-----------------------------------------------------------------------------
\* Every service keeps the promises SpeechTranscriber makes to the attempts:
\* an attempt ends once, and one told that its input ended does not end well
\* before all that was spoken is accounted for.
KeepsContract == Contract

\* What a service gets of the attempt is what the calls handed over, in
\* order, whole and once, however connecting, finishing and the worker's
\* steps fall: nothing after the close, no upload twice or out of order, no
\* audio of an attempt left behind with the worker, and none put into an
\* engine that has another model.
AudioInOrder ==
    CASE service = "claude" -> Claude!ClaudeInOrder
      [] service = "codex" -> Codex!CodexInOrder
      [] service = "endpoint" -> Endpoint!EndpointInOrder
      [] service = "local" -> Local!LocalInOrder

\* An attempt told that its input ended comes to an end, though the service
\* says nothing more: the timers, the deadlines and the worker see to it.
ToldEnds == (attempt.phase = "told") ~> (attempt.phase # "told")
=============================================================================
