---------------------------- MODULE AgentRequest ----------------------------
(***************************************************************************)
(* Questions to the agents: the coordinator fans out to the feature and    *)
(* the drift agent, each of which calls its MCP tool and then the model.   *)
(* The tools look up features and a stored chunk, or compute a drift       *)
(* report.                                                                 *)
(*                                                                         *)
(* A run is the part of a request one specialist does.  Coordinator, agent *)
(* and tool are separate services: each has a handler of its own for the   *)
(* run, which goes on when its caller has stopped listening, because a     *)
(* client's time limit or cancellation does not reach the other side.      *)
(*                                                                         *)
(* Any call may raise or exceed its limit at any moment it is waited for;  *)
(* an answer that comes later finds nobody.                                *)
(***************************************************************************)
EXTENDS Integers, FiniteSets

CONSTANTS
  Requests,     \* requests to the coordinator
  Hops,         \* hop counts a request may carry
  MaxHops,      \* MAX_AGENT_HOPS
  MaxParallel,  \* size of a request's semaphore
  Chunk,        \* the chunk_id of each request, or None
  None,
  Stored,       \* chunks rag_chunk holds
  Citable,      \* chunks whose source_uri has a scheme the coordinator allows
  MaxCalls,     \* API calls a tool may make for one run
  Valid,        \* runs whose payload the agent's request model accepts
  Granted       \* runs whose identity and scope the tool grants

ASSUME AgentAssumption ==
  /\ IsFiniteSet(Requests) /\ Hops \subseteq Int
  /\ MaxHops \in Nat /\ MaxParallel \in Nat /\ MaxCalls \in Nat
  /\ None \notin Stored

Specialists == {"feature", "drift"}
Runs == Requests \X Specialists
RunsOf(r) == {r} \X Specialists

AgentService == [feature |-> "feature-agent", drift |-> "drift-agent"]
ToolService == [feature |-> "feature-mcp", drift |-> "drift-mcp"]
Services == {"coordinator", "feature-agent", "drift-agent", "feature-mcp", "drift-mcp"}

VARIABLES
  hop,       \* the hop count of each request
  phase,     \* the coordinator's handler of a request
  call,      \* its coroutine for a run: the awaited call of the agent
  agent,     \* the agent's handler of a run
  tool,      \* the tool's handler of a run
  inFlight,  \* the http_requests_in_flight gauge of each service
  failures,  \* failures of agent.coordinator.coordinate counted by telemetry
  troubled   \* history: requests in which a call raised or met its limit

vars == <<hop, phase, call, agent, tool, inFlight, failures, troubled>>

Request(run) == run[1]
ChunkOf(run) == Chunk[run[1]]

Finished(r) == phase[r] \in {"answered", "failed", "rejected"}
AgentBusy(run) == agent[run] \in {"calling", "rendering"}
ToolBusy(run) == tool[run] \in {"features", "rag", "report"}

CitesChunk(run) == run[2] = "feature" /\ ChunkOf(run) # None

\* The gauge middleware: one up when a handler starts, one down in finally.
Enter(service) == inFlight' = [inFlight EXCEPT ![service] = @ + 1]
Leave(service) == inFlight' = [inFlight EXCEPT ![service] = @ - 1]
Troubled(run) == troubled' = troubled \cup {Request(run)}
-----------------------------------------------------------------------------
Init ==
  /\ hop \in [Requests -> Hops]
  /\ phase = [r \in Requests |-> "new"]
  /\ call = [run \in Runs |-> "none"]
  /\ agent = [run \in Runs |-> "none"]
  /\ tool = [run \in Runs |-> "none"]
  /\ inFlight = [s \in Services |-> 0]
  /\ failures = 0
  /\ troubled = {}

(***************************************************************************)
(* The coordinator.                                                        *)
(***************************************************************************)
\* CoordinatorRequest refuses a negative hop.
WellFormed(r) == hop[r] >= 0

HopsLeft(r) == hop[r] + 1 <= MaxHops

\* The request arrives: refused, stopped at the hop limit or fanned out.
coordinate(r) ==
  /\ phase[r] = "new"
  /\ \/ /\ ~WellFormed(r)
        /\ phase' = [phase EXCEPT ![r] = "rejected"]
        /\ failures' = failures + 1
        /\ UNCHANGED <<call, inFlight>>
     \/ /\ WellFormed(r)
        /\ ~HopsLeft(r)
        /\ phase' = [phase EXCEPT ![r] = "failed"]
        /\ failures' = failures + 1
        /\ UNCHANGED <<call, inFlight>>
     \/ /\ WellFormed(r)
        /\ HopsLeft(r)
        /\ phase' = [phase EXCEPT ![r] = "waiting"]
        /\ call' = [run \in Runs |-> IF run \in RunsOf(r) THEN "queued" ELSE call[run]]
        /\ Enter("coordinator")
        /\ UNCHANGED failures
  /\ UNCHANGED <<hop, agent, tool, troubled>>

\* invoke: under the semaphore the coordinator posts to the agent, whose
\* handler validates the payload and turns to its tool.
invoke(run) ==
  /\ call[run] = "queued"
  /\ Cardinality({q \in RunsOf(Request(run)) : call[q] = "posted"}) < MaxParallel
  /\ call' = [call EXCEPT ![run] = "posted"]
  /\ IF run \in Valid
     THEN /\ agent' = [agent EXCEPT ![run] = "calling"]
          /\ Enter(AgentService[run[2]])
     ELSE /\ agent' = [agent EXCEPT ![run] = "raised"]
          /\ UNCHANGED inFlight
  /\ UNCHANGED <<hop, phase, tool, failures, troubled>>

\* The post returns the agent's reply, or raises its error status.
CallReturns(run) ==
  /\ call[run] = "posted"
  /\ \/ agent[run] = "replied" /\ call' = [call EXCEPT ![run] = "ok"]
     \/ agent[run] = "raised" /\ call' = [call EXCEPT ![run] = "raised"]
  /\ UNCHANGED <<hop, phase, agent, tool, inFlight, failures, troubled>>

\* The HTTP client's own limit of 45 seconds, or a transport error.
CallFails(run) ==
  /\ call[run] = "posted"
  /\ call' = [call EXCEPT ![run] = "raised"]
  /\ Troubled(run)
  /\ UNCHANGED <<hop, phase, agent, tool, inFlight, failures>>

\* failure_policy: the request ends without an answer.
failure_policy(r) ==
  /\ phase' = [phase EXCEPT ![r] = "failed"]
  /\ failures' = failures + 1
  /\ Leave("coordinator")

\* gather raises the first exception and leaves the sibling running.
GatherRaises(r) ==
  /\ phase[r] = "waiting"
  /\ \E run \in RunsOf(r) : call[run] = "raised"
  /\ failure_policy(r)
  /\ UNCHANGED <<hop, call, agent, tool, troubled>>

\* Mutant: there is no limit on the whole fan-out.
NoDeadline(r) == FALSE

\* Mutant: the deadline is not disarmed when the request ends early.
DeadlineStaysArmed(r) ==
  /\ phase[r] \in {"waiting", "failed"}
  /\ failures <= Cardinality(Requests)
  /\ failure_policy(r)
  /\ troubled' = troubled \cup {r}
  /\ UNCHANGED <<hop, call, agent, tool>>

\* wait_for: the limit of the whole fan-out; the coroutines are cancelled.
DeadlinePasses(r) ==
  /\ phase[r] = "waiting"
  /\ call' = [run \in Runs |->
                IF run \in RunsOf(r) /\ call[run] \in {"queued", "posted"}
                THEN "cancelled" ELSE call[run]]
  /\ failure_policy(r)
  /\ troubled' = troubled \cup {r}
  /\ UNCHANGED <<hop, agent, tool>>

\* Mutant: whatever came back is answered with.
SomeReturned(r) == \E run \in RunsOf(r) : call[run] = "ok"

AllReturned(r) == \A run \in RunsOf(r) : call[run] = "ok"

citations_are_valid(r) == \A run \in RunsOf(r) : CitesChunk(run) => ChunkOf(run) \in Citable

\* Both results are there: answer, unless a citation is not allowed.
GatherReturns(r) ==
  /\ phase[r] = "waiting"
  /\ AllReturned(r)
  /\ IF citations_are_valid(r)
     THEN /\ phase' = [phase EXCEPT ![r] = "answered"]
          /\ Leave("coordinator")
          /\ UNCHANGED failures
     ELSE failure_policy(r)
  /\ UNCHANGED <<hop, call, agent, tool, troubled>>

(***************************************************************************)
(* The agents.                                                             *)
(***************************************************************************)
\* The agent's call reaches the tool, which checks the grant and the budget.
CallTool(run) ==
  /\ agent[run] = "calling"
  /\ tool[run] = "none"
  /\ IF run \in Granted /\ (IF CitesChunk(run) THEN 2 ELSE 1) <= MaxCalls
     THEN /\ tool' = [tool EXCEPT ![run] = IF run[2] = "feature" THEN "features" ELSE "report"]
          /\ Enter(ToolService[run[2]])
     ELSE /\ tool' = [tool EXCEPT ![run] = "refused"]
          /\ UNCHANGED inFlight
  /\ UNCHANGED <<hop, phase, call, agent, failures, troubled>>

\* The tool's result arrives; one that is not ok ends the run.
ToolReturns(run) ==
  /\ agent[run] = "calling"
  /\ \/ /\ tool[run] = "answered"
        /\ agent' = [agent EXCEPT ![run] = "rendering"]
        /\ UNCHANGED inFlight
     \/ /\ tool[run] = "refused"
        /\ agent' = [agent EXCEPT ![run] = "raised"]
        /\ Leave(AgentService[run[2]])
  /\ UNCHANGED <<hop, phase, call, tool, failures, troubled>>

\* The model has answered: the handler replies.
render(run) ==
  /\ agent[run] = "rendering"
  /\ agent' = [agent EXCEPT ![run] = "replied"]
  /\ Leave(AgentService[run[2]])
  /\ UNCHANGED <<hop, phase, call, tool, failures, troubled>>

\* The tool or model call raises, meets its limit or returns nothing usable.
AgentFails(run) ==
  /\ AgentBusy(run)
  /\ agent' = [agent EXCEPT ![run] = "raised"]
  /\ Leave(AgentService[run[2]])
  /\ Troubled(run)
  /\ UNCHANGED <<hop, phase, call, tool, failures>>

(***************************************************************************)
(* The tools.                                                              *)
(***************************************************************************)
\* The features are there: look the chunk up or return.
feature_by_id(run) ==
  /\ tool[run] = "features"
  /\ IF CitesChunk(run)
     THEN tool' = [tool EXCEPT ![run] = "rag"] /\ UNCHANGED inFlight
     ELSE /\ tool' = [tool EXCEPT ![run] = "answered"]
          /\ Leave(ToolService[run[2]])
  /\ UNCHANGED <<hop, phase, call, agent, failures, troubled>>

\* A chunk that is not stored is a 404, which fails the whole lookup.
rag_by_id(run) ==
  /\ tool[run] = "rag"
  /\ tool' = [tool EXCEPT ![run] = IF ChunkOf(run) \in Stored THEN "answered" ELSE "refused"]
  /\ Leave(ToolService[run[2]])
  /\ UNCHANGED <<hop, phase, call, agent, failures, troubled>>

drift_report(run) ==
  /\ tool[run] = "report"
  /\ tool' = [tool EXCEPT ![run] = "answered"]
  /\ Leave(ToolService[run[2]])
  /\ UNCHANGED <<hop, phase, call, agent, failures, troubled>>

\* An API call raises or meets the tool's limit of five seconds.
ToolFails(run) ==
  /\ ToolBusy(run)
  /\ tool' = [tool EXCEPT ![run] = "refused"]
  /\ Leave(ToolService[run[2]])
  /\ Troubled(run)
  /\ UNCHANGED <<hop, phase, call, agent, failures>>
-----------------------------------------------------------------------------
CoordinatorStep(r) ==
  coordinate(r) \/ GatherRaises(r) \/ DeadlinePasses(r) \/ GatherReturns(r)

RunStep(run) ==
  \/ invoke(run) \/ CallReturns(run) \/ CallFails(run)
  \/ CallTool(run) \/ ToolReturns(run) \/ render(run) \/ AgentFails(run)
  \/ feature_by_id(run) \/ rag_by_id(run) \/ drift_report(run) \/ ToolFails(run)

Quiet ==
  /\ \A r \in Requests : Finished(r)
  /\ \A run \in Runs : ~AgentBusy(run) /\ ~ToolBusy(run)

Next ==
  \/ \E r \in Requests : CoordinatorStep(r)
  \/ \E run \in Runs : RunStep(run)
  \/ Quiet /\ UNCHANGED vars

Spec == Init /\ [][Next]_vars

\* Only the coordinator's event loop is fair: agents, tools and the model may
\* hang for ever.
FairSpec == Spec /\ \A r \in Requests : WF_vars(CoordinatorStep(r))
-----------------------------------------------------------------------------
\* The variables hold values of the right kinds.
TypeOK ==
  /\ hop \in [Requests -> Hops]
  /\ phase \in [Requests -> {"new", "waiting", "answered", "failed", "rejected"}]
  /\ call \in [Runs -> {"none", "queued", "posted", "ok", "raised", "cancelled"}]
  /\ agent \in [Runs -> {"none", "calling", "rendering", "replied", "raised"}]
  /\ tool \in [Runs -> {"none", "features", "rag", "report", "answered", "refused"}]
  /\ inFlight \in [Services -> Nat]
  /\ failures \in 0..Cardinality(Requests)
  /\ troubled \subseteq Requests

\* An answer holds what both specialists found: each one's tool had answered
\* and granted the scope, each citation is allowed and the hop limit is kept.
\* A result that is late, partial or refused never becomes part of one.
AnswerIsWhole ==
  \A r \in Requests : phase[r] = "answered" =>
    /\ WellFormed(r) /\ hop[r] < MaxHops
    /\ \A run \in RunsOf(r) :
         /\ agent[run] = "replied" /\ tool[run] = "answered"
         /\ run \in Valid \cap Granted
         /\ CitesChunk(run) => ChunkOf(run) \in Stored \cap Citable

\* A request fails only for a reason: the hop limit, a payload or scope that
\* is refused, a chunk that is missing or cannot be cited, or a call that
\* raised or met its limit in this very request.
FailureHasCause ==
  \A r \in Requests : phase[r] = "failed" =>
    \/ hop[r] >= MaxHops
    \/ r \in troubled
    \/ \E run \in RunsOf(r) :
         \/ run \notin Valid \cap Granted
         \/ CitesChunk(run) /\ (ChunkOf(run) \notin Stored \cap Citable \/ MaxCalls < 2)
         \/ MaxCalls = 0

\* However the calls of a request end, it is answered with all of the answer or fails
\* for a reason of its own (Coordinator._coordinate).
OutcomeIsSound == AnswerIsWhole /\ FailureHasCause

\* At every moment each gauge shows the handlers at work in its service, those
\* whose caller has gone included, so an idle service shows none.
GaugesCountHandlers ==
  /\ inFlight["coordinator"] = Cardinality({r \in Requests : phase[r] = "waiting"})
  /\ \A s \in Specialists :
       /\ inFlight[AgentService[s]] = Cardinality({r \in Requests : AgentBusy(<<r, s>>)})
       /\ inFlight[ToolService[s]] = Cardinality({r \in Requests : ToolBusy(<<r, s>>)})

\* Telemetry counts one failure for each request that ended without an answer,
\* whichever of its two specialists, or both, or the deadline ended it.
FailuresCountedOnce ==
  failures = Cardinality({r \in Requests : phase[r] \in {"failed", "rejected"}})

\* What the metrics endpoint shows is so, although handlers outlive their callers and
\* both specialists of a request may fail (Telemetry).
TelemetryIsTrue == GaugesCountHandlers /\ FailuresCountedOnce

\* Every request ends although an agent, a tool or the model may never answer.
RequestsEnd == <>(\A r \in Requests : Finished(r))
=============================================================================
