-------------------------- MODULE AgentRequestProofs --------------------------
(***************************************************************************)
(* Answers are whole, failures have a cause and the metrics are true, for  *)
(* any number of requests and whatever the hop, chunk and grant tables.    *)
(*                                                                         *)
(* OutcomeInv follows an answer back from the coordinator over the agents  *)
(* to their tools, and a failure likewise.  TelemetryInv adds that a       *)
(* handler enters its gauge once and leaves it once.                       *)
(***************************************************************************)
EXTENDS AgentRequest, FiniteSetTheorems, TLAPS

Kinds ==
  /\ hop \in [Requests -> Hops]
  /\ phase \in [Requests -> {"new", "waiting", "answered", "failed", "rejected"}]
  /\ call \in [Runs -> {"none", "queued", "posted", "ok", "raised", "cancelled"}]
  /\ agent \in [Runs -> {"none", "calling", "rendering", "replied", "raised"}]
  /\ tool \in [Runs -> {"none", "features", "rag", "report", "answered", "refused"}]
  /\ inFlight \in [Services -> Int]
  /\ failures \in Int
  /\ troubled \subseteq Requests

\* Where the parts of a run stand to each other.
RunInv(run) ==
  /\ call[run] \in {"none", "queued"} => agent[run] = "none"
  /\ call[run] = "ok" => agent[run] = "replied"
  /\ agent[run] \in {"rendering", "replied"} => tool[run] = "answered"
  /\ agent[run] \in {"calling", "rendering", "replied"} => run \in Valid
  /\ tool[run] \in {"features", "rag", "report", "answered"} => run \in Granted
  /\ tool[run] = "rag" => CitesChunk(run)
  /\ tool[run] = "features" => run[2] = "feature"
  /\ tool[run] = "report" => run[2] = "drift"
  /\ tool[run] = "answered" /\ CitesChunk(run) => ChunkOf(run) \in Stored

\* Why a tool, an agent and a call may end without a result.
ToolExcuse(run) ==
  \/ Request(run) \in troubled
  \/ run \notin Granted
  \/ CitesChunk(run) /\ (ChunkOf(run) \notin Stored \/ MaxCalls < 2)
  \/ MaxCalls = 0
AgentExcuse(run) == run \notin Valid \/ ToolExcuse(run)

ExcuseInv(run) ==
  /\ tool[run] = "refused" => ToolExcuse(run)
  /\ agent[run] = "raised" => AgentExcuse(run)
  /\ call[run] = "raised" => AgentExcuse(run)

RequestInv(r) ==
  /\ phase[r] \in {"waiting", "answered"} => WellFormed(r) /\ hop[r] < MaxHops
  /\ phase[r] = "new" => \A run \in RunsOf(r) : call[run] = "none"
  /\ phase[r] = "answered" => AllReturned(r) /\ citations_are_valid(r)
  /\ phase[r] = "failed" =>
       \/ hop[r] >= MaxHops
       \/ r \in troubled
       \/ \E run \in RunsOf(r) : AgentExcuse(run)
       \/ \E run \in RunsOf(r) : CitesChunk(run) /\ ChunkOf(run) \notin Citable

OutcomeInv ==
  /\ Kinds
  /\ \A run \in Runs : RunInv(run) /\ ExcuseInv(run)
  /\ \A r \in Requests : RequestInv(r)
-----------------------------------------------------------------------------
LEMMA RunsAreRuns ==
  /\ \A r \in Requests : \A run \in RunsOf(r) : run \in Runs /\ Request(run) = r
  /\ \A run \in Runs : Request(run) \in Requests /\ run \in RunsOf(Request(run)) /\ run[2] \in Specialists
BY DEF Runs, RunsOf, Request

LEMMA ServicesAreServices ==
  /\ "coordinator" \in Services
  /\ \A s \in Specialists : AgentService[s] \in Services /\ ToolService[s] \in Services
BY DEF Services, Specialists, AgentService, ToolService

LEMMA InitOutcome == Init => OutcomeInv
<1> SUFFICES ASSUME Init PROVE OutcomeInv
  OBVIOUS
<1>1. Kinds
  BY DEF Init, Kinds
<1>2. \A run \in Runs : RunInv(run) /\ ExcuseInv(run)
  BY DEF Init, RunInv, ExcuseInv
<1>3. \A r \in Requests : RequestInv(r)
  BY RunsAreRuns DEF Init, RequestInv
<1> QED
  BY <1>1, <1>2, <1>3 DEF OutcomeInv

\* A step of the coordinator for r starts, ends or cancels calls of r only.
LEMMA CoordinatorKeepsOutcome ==
  ASSUME OutcomeInv, NEW r \in Requests, CoordinatorStep(r)
  PROVE  OutcomeInv'
<1>0. /\ Kinds /\ RequestInv(r) /\ "coordinator" \in Services
      /\ UNCHANGED <<hop, agent, tool>> /\ troubled \subseteq troubled'
  BY ServicesAreServices DEF OutcomeInv, CoordinatorStep, coordinate, GatherRaises, DeadlinePasses, GatherReturns
<1>1. Kinds'
  <2>1. CASE coordinate(r)
    BY <1>0, <2>1 DEF Kinds, coordinate, Enter
  <2>2. CASE GatherRaises(r)
    BY <1>0, <2>2 DEF Kinds, GatherRaises, failure_policy, Leave
  <2>3. CASE DeadlinePasses(r)
    BY <1>0, <2>3 DEF Kinds, DeadlinePasses, failure_policy, Leave
  <2>4. CASE GatherReturns(r)
    BY <1>0, <2>4 DEF Kinds, GatherReturns, failure_policy, Leave
  <2> QED
    BY <2>1, <2>2, <2>3, <2>4 DEF CoordinatorStep
\* Calls only start, when their request is new, or are cancelled.
<1>2. ASSUME NEW run \in Runs
      PROVE  \/ call'[run] = call[run]
             \/ call'[run] = "queued" /\ call[run] = "none"
             \/ call'[run] = "cancelled" /\ call[run] \in {"queued", "posted"} /\ phase[Request(run)] = "waiting"
  BY <1>0, RunsAreRuns DEF CoordinatorStep, coordinate, GatherRaises, DeadlinePasses, GatherReturns, RequestInv, Kinds
<1>3. ASSUME NEW run \in Runs PROVE RunInv(run)' /\ ExcuseInv(run)'
  <2>1. RunInv(run) /\ ExcuseInv(run)
    BY DEF OutcomeInv
  <2>2. RunInv(run)'
    BY <1>0, <1>2, <2>1 DEF RunInv, CitesChunk, ChunkOf
  <2>3. ExcuseInv(run)'
    BY <1>0, <1>2, <2>1 DEF ExcuseInv, AgentExcuse, ToolExcuse
  <2> QED
    BY <2>2, <2>3
<1>4. ASSUME NEW q \in Requests, q # r PROVE RequestInv(q)'
  <2>1. RequestInv(q)
    BY DEF OutcomeInv
  <2>2. phase'[q] = phase[q]
    BY <1>0, <1>4 DEF Kinds, CoordinatorStep, coordinate, GatherRaises, DeadlinePasses, GatherReturns, failure_policy
  <2>3. \A run \in RunsOf(q) : call'[run] = call[run]
    BY <1>0, <1>4, RunsAreRuns
    DEF Kinds, CoordinatorStep, coordinate, GatherRaises, DeadlinePasses, GatherReturns, RunsOf
  <2> QED
    BY <1>0, <2>1, <2>2, <2>3
    DEF RequestInv, WellFormed, AllReturned, citations_are_valid, AgentExcuse, ToolExcuse
<1>5. RequestInv(r)'
  <2>1. CASE coordinate(r)
    <3>1. hop[r] \in Int /\ MaxHops \in Int
      <4>1. hop[r] \in Hops
        BY <1>0 DEF Kinds
      <4>2. Hops \subseteq Int /\ MaxHops \in Nat
        BY AgentAssumption DEF AgentAssumption
      <4>3. hop[r] \in Int
        BY <4>1, <4>2
      <4>4. MaxHops \in Int
        BY <4>2
      <4> QED
        BY <4>3, <4>4
    <3>2. CASE phase' = [phase EXCEPT ![r] = "rejected"]
      BY <1>0, <3>2 DEF RequestInv, Kinds
    <3>3. CASE ~HopsLeft(r) /\ phase' = [phase EXCEPT ![r] = "failed"]
      <4>1. phase'[r] = "failed" /\ hop'[r] >= MaxHops
        BY <1>0, <3>1, <3>3 DEF Kinds, HopsLeft
      <4> QED
        BY <4>1 DEF RequestInv
    <3>4. CASE WellFormed(r) /\ HopsLeft(r) /\ phase' = [phase EXCEPT ![r] = "waiting"]
      <4>1. phase'[r] = "waiting" /\ hop'[r] = hop[r] /\ hop[r] < MaxHops
        BY <1>0, <3>1, <3>4 DEF Kinds, HopsLeft
      <4> QED
        BY <3>4, <4>1 DEF RequestInv, WellFormed
    <3> QED
      BY <2>1, <3>2, <3>3, <3>4 DEF coordinate
  <2>2. CASE GatherRaises(r)
    <3>1. PICK run \in RunsOf(r) : call[run] = "raised"
      BY <2>2 DEF GatherRaises
    <3>2. run \in Runs /\ AgentExcuse(run)
      BY <3>1, RunsAreRuns DEF OutcomeInv, ExcuseInv
    <3>3. AgentExcuse(run)'
      BY <1>0, <3>2 DEF AgentExcuse, ToolExcuse
    <3>4. phase'[r] = "failed"
      BY <1>0, <2>2 DEF GatherRaises, failure_policy, Kinds
    <3> QED
      BY <3>3, <3>4 DEF RequestInv
  <2>3. CASE DeadlinePasses(r)
    BY <1>0, <2>3 DEF DeadlinePasses, failure_policy, RequestInv, Kinds
  <2>4. CASE GatherReturns(r)
    <3>1. phase[r] = "waiting" /\ AllReturned(r) /\ UNCHANGED <<call, troubled>>
      BY <2>4 DEF GatherReturns
    <3>2. CASE citations_are_valid(r) /\ phase' = [phase EXCEPT ![r] = "answered"]
      BY <1>0, <3>1, <3>2 DEF RequestInv, Kinds, AllReturned, citations_are_valid, WellFormed
    <3>3. CASE ~citations_are_valid(r) /\ failure_policy(r)
      BY <1>0, <3>1, <3>3 DEF RequestInv, Kinds, citations_are_valid, failure_policy
    <3> QED
      BY <2>4, <3>2, <3>3 DEF GatherReturns
  <2> QED
    BY <2>1, <2>2, <2>3, <2>4 DEF CoordinatorStep
<1> QED
  BY <1>1, <1>3, <1>4, <1>5 DEF OutcomeInv
\* A step of a run touches the row of that run only, and excuses last.
LEMMA RunStepIsLocal ==
  ASSUME Kinds, NEW run \in Runs, RunStep(run)
  PROVE  /\ UNCHANGED <<hop, phase>> /\ troubled \subseteq troubled'
         /\ \A q \in Runs : q # run => call'[q] = call[q] /\ agent'[q] = agent[q] /\ tool'[q] = tool[q]
BY DEF Kinds, RunStep, invoke, CallReturns, CallFails, CallTool, ToolReturns, render, AgentFails,
   feature_by_id, rag_by_id, drift_report, ToolFails, Troubled

LEMMA RunStepKeepsKinds ==
  ASSUME Kinds, NEW run \in Runs, RunStep(run)
  PROVE  Kinds'
<1>1. /\ AgentService[run[2]] \in Services /\ ToolService[run[2]] \in Services
      /\ Request(run) \in Requests
  BY RunsAreRuns, ServicesAreServices
<1>2. \A s \in Services : [inFlight EXCEPT ![s] = @ + 1] \in [Services -> Int]
                       /\ [inFlight EXCEPT ![s] = @ - 1] \in [Services -> Int]
  BY DEF Kinds
<1>3. CASE invoke(run) \/ CallReturns(run) \/ CallFails(run)
  BY <1>1, <1>2, <1>3 DEF Kinds, invoke, CallReturns, CallFails, Enter, Troubled
<1>4. CASE CallTool(run) \/ ToolReturns(run) \/ render(run) \/ AgentFails(run)
  BY <1>1, <1>2, <1>4 DEF Kinds, CallTool, ToolReturns, render, AgentFails, Enter, Leave, Troubled
<1>5. CASE feature_by_id(run) \/ rag_by_id(run) \/ drift_report(run) \/ ToolFails(run)
  BY <1>1, <1>2, <1>5 DEF Kinds, feature_by_id, rag_by_id, drift_report, ToolFails, Leave, Troubled
<1> QED
  BY <1>3, <1>4, <1>5 DEF RunStep

LEMMA RunStepKeepsRun ==
  ASSUME Kinds, NEW run \in Runs, RunStep(run), RunInv(run), ExcuseInv(run)
  PROVE  /\ RunInv(run)' /\ ExcuseInv(run)'
         /\ call[run] \in {"none", "ok", "raised", "cancelled"} => call'[run] = call[run]
<1>0. /\ UNCHANGED hop /\ troubled \subseteq troubled'
      /\ run[2] \in Specialists /\ "feature" # "drift"
  BY RunStepIsLocal, RunsAreRuns
<1>1. CASE invoke(run) \/ CallReturns(run) \/ CallFails(run)
  BY <1>0, <1>1 DEF Kinds, RunInv, ExcuseInv, AgentExcuse, ToolExcuse, CitesChunk, ChunkOf,
     invoke, CallReturns, CallFails, Troubled
<1>2. CASE CallTool(run)
  BY <1>0, <1>2, AgentAssumption DEF Kinds, RunInv, ExcuseInv, AgentExcuse, ToolExcuse, CitesChunk, ChunkOf,
     CallTool, Specialists
<1>3. CASE ToolReturns(run) \/ render(run) \/ AgentFails(run)
  BY <1>0, <1>3 DEF Kinds, RunInv, ExcuseInv, AgentExcuse, ToolExcuse, CitesChunk, ChunkOf,
     ToolReturns, render, AgentFails, AgentBusy, Troubled
<1>4. CASE feature_by_id(run)
  <2>1. CASE CitesChunk(run) /\ tool' = [tool EXCEPT ![run] = "rag"]
    BY <1>0, <1>4, <2>1 DEF Kinds, RunInv, ExcuseInv, AgentExcuse, ToolExcuse, feature_by_id
  <2>2. CASE ~CitesChunk(run) /\ tool' = [tool EXCEPT ![run] = "answered"]
    BY <1>0, <1>4, <2>2 DEF Kinds, RunInv, ExcuseInv, AgentExcuse, ToolExcuse, CitesChunk, ChunkOf, feature_by_id
  <2> QED
    BY <1>4, <2>1, <2>2 DEF feature_by_id
<1>7. CASE rag_by_id(run)
  <2>1. CASE ChunkOf(run) \in Stored /\ tool' = [tool EXCEPT ![run] = "answered"]
    BY <1>0, <1>7, <2>1 DEF Kinds, RunInv, ExcuseInv, AgentExcuse, ToolExcuse, rag_by_id
  <2>2. CASE ChunkOf(run) \notin Stored /\ tool' = [tool EXCEPT ![run] = "refused"]
    <3>1. CitesChunk(run)
      BY <1>7 DEF rag_by_id, RunInv
    <3> QED
      BY <1>0, <1>7, <2>2, <3>1 DEF Kinds, RunInv, ExcuseInv, AgentExcuse, ToolExcuse, rag_by_id
  <2> QED
    BY <1>7, <2>1, <2>2 DEF rag_by_id
<1>5. CASE drift_report(run)
  BY <1>0, <1>5 DEF Kinds, RunInv, ExcuseInv, AgentExcuse, ToolExcuse, CitesChunk, ChunkOf, drift_report
<1>6. CASE ToolFails(run)
  BY <1>0, <1>6 DEF Kinds, RunInv, ExcuseInv, AgentExcuse, ToolExcuse, CitesChunk, ChunkOf,
     ToolFails, ToolBusy, Troubled
<1> QED
  BY <1>1, <1>2, <1>3, <1>4, <1>5, <1>6, <1>7 DEF RunStep

LEMMA RunStepKeepsOutcome ==
  ASSUME OutcomeInv, NEW run \in Runs, RunStep(run)
  PROVE  OutcomeInv'
<1>0. Kinds /\ RunInv(run) /\ ExcuseInv(run)
  BY DEF OutcomeInv
<1>1. Kinds'
  BY <1>0, RunStepKeepsKinds
<1>2. /\ RunInv(run)' /\ ExcuseInv(run)'
      /\ call[run] \in {"none", "ok", "raised", "cancelled"} => call'[run] = call[run]
  BY <1>0, RunStepKeepsRun
<1>3. /\ UNCHANGED <<hop, phase>> /\ troubled \subseteq troubled'
      /\ \A q \in Runs : q # run => call'[q] = call[q] /\ agent'[q] = agent[q] /\ tool'[q] = tool[q]
  BY <1>0, RunStepIsLocal
<1>4. ASSUME NEW q \in Runs, q # run PROVE RunInv(q)' /\ ExcuseInv(q)'
  <2>1. RunInv(q) /\ ExcuseInv(q)
    BY DEF OutcomeInv
  <2> QED
    BY <1>3, <1>4, <2>1 DEF RunInv, ExcuseInv, AgentExcuse, ToolExcuse, CitesChunk, ChunkOf
<1>5. ASSUME NEW r \in Requests PROVE RequestInv(r)'
  <2>1. RequestInv(r)
    BY DEF OutcomeInv
  <2>2. \A q \in RunsOf(r) : call[q] \in {"none", "ok"} => call'[q] = call[q]
    BY <1>2, <1>3, RunsAreRuns
  <2>3. (\E q \in RunsOf(r) : AgentExcuse(q)) => (\E q \in RunsOf(r) : AgentExcuse(q)')
    BY <1>3 DEF AgentExcuse, ToolExcuse
  <2>4. phase[r] = "new" => \A q \in RunsOf(r) : call'[q] = "none"
    BY <2>1, <2>2 DEF RequestInv
  <2>5. phase[r] = "answered" => AllReturned(r)' /\ citations_are_valid(r)'
    BY <2>1, <2>2 DEF RequestInv, AllReturned, citations_are_valid, CitesChunk, ChunkOf
  <2> QED
    BY <1>3, <2>1, <2>3, <2>4, <2>5 DEF RequestInv, WellFormed, CitesChunk, ChunkOf
<1> QED
  BY <1>1, <1>2, <1>4, <1>5 DEF OutcomeInv

THEOREM OutcomeInvariant == Spec => []OutcomeInv
<1>1. OutcomeInv /\ [Next]_vars => OutcomeInv'
  <2>1. OutcomeInv /\ UNCHANGED vars => OutcomeInv'
    BY DEF OutcomeInv, vars, Kinds, RunInv, ExcuseInv, RequestInv, AgentExcuse, ToolExcuse, CitesChunk, ChunkOf,
       WellFormed, AllReturned, citations_are_valid
  <2> QED
    BY <2>1, CoordinatorKeepsOutcome, RunStepKeepsOutcome DEF Next
<1> QED
  BY <1>1, InitOutcome, PTL DEF Spec

\* An answer holds what both specialists found and a failure has a cause of its
\* own, however calls raise, hang or answer late (Coordinator._coordinate).
THEOREM OutcomesAreSound == Spec => []OutcomeIsSound
<1>1. OutcomeInv => AnswerIsWhole
  <2> SUFFICES ASSUME OutcomeInv, NEW r \in Requests, phase[r] = "answered"
               PROVE  /\ WellFormed(r) /\ hop[r] < MaxHops
                      /\ \A run \in RunsOf(r) :
                           /\ agent[run] = "replied" /\ tool[run] = "answered"
                           /\ run \in Valid \cap Granted
                           /\ CitesChunk(run) => ChunkOf(run) \in Stored \cap Citable
    BY DEF AnswerIsWhole
  <2>1. WellFormed(r) /\ hop[r] < MaxHops /\ AllReturned(r) /\ citations_are_valid(r)
    BY DEF OutcomeInv, RequestInv
  <2>2. \A run \in RunsOf(r) : RunInv(run) /\ call[run] = "ok"
    BY <2>1, RunsAreRuns DEF OutcomeInv, AllReturned
  <2> QED
    BY <2>1, <2>2 DEF RunInv, citations_are_valid
<1>2. OutcomeInv => FailureHasCause
  <2> SUFFICES ASSUME OutcomeInv, NEW r \in Requests, phase[r] = "failed"
               PROVE  \/ hop[r] >= MaxHops
                      \/ r \in troubled
                      \/ \E run \in RunsOf(r) :
                           \/ run \notin Valid \cap Granted
                           \/ CitesChunk(run) /\ (ChunkOf(run) \notin Stored \cap Citable \/ MaxCalls < 2)
                           \/ MaxCalls = 0
    BY DEF FailureHasCause
  <2>1. RequestInv(r)
    BY DEF OutcomeInv
  <2>2. ASSUME NEW run \in RunsOf(r), AgentExcuse(run)
        PROVE  \/ r \in troubled
               \/ run \notin Valid \cap Granted
               \/ CitesChunk(run) /\ (ChunkOf(run) \notin Stored \cap Citable \/ MaxCalls < 2)
               \/ MaxCalls = 0
    BY <2>2, RunsAreRuns DEF AgentExcuse, ToolExcuse
  <2> QED
    BY <2>1, <2>2 DEF RequestInv
<1> QED
  BY <1>1, <1>2, OutcomeInvariant, PTL DEF OutcomeIsSound

-----------------------------------------------------------------------------
(* The metrics.                                                            *)

WaitingRequests == {r \in Requests : phase[r] = "waiting"}
EndedRequests == {r \in Requests : phase[r] \in {"failed", "rejected"}}
AgentsAt(s) == {r \in Requests : AgentBusy(<<r, s>>)}
ToolsAt(s) == {r \in Requests : ToolBusy(<<r, s>>)}

TelemetryInv ==
  /\ inFlight["coordinator"] = Cardinality(WaitingRequests)
  /\ \A s \in Specialists : /\ inFlight[AgentService[s]] = Cardinality(AgentsAt(s))
                            /\ inFlight[ToolService[s]] = Cardinality(ToolsAt(s))
  /\ failures = Cardinality(EndedRequests)

LEMMA OneMore ==
  ASSUME NEW S \in SUBSET Requests, NEW r \in Requests, r \notin S
  PROVE  Cardinality(S \cup {r}) = Cardinality(S) + 1
<1>1. IsFiniteSet(Requests)
  BY AgentAssumption DEF AgentAssumption
<1>2. IsFiniteSet(S)
  BY <1>1, FS_Subset
<1> QED
  BY <1>2, FS_AddElement

LEMMA OneLess ==
  ASSUME NEW S \in SUBSET Requests, NEW r \in S
  PROVE  Cardinality(S \ {r}) = Cardinality(S) - 1
<1>1. IsFiniteSet(Requests)
  BY AgentAssumption DEF AgentAssumption
<1>2. IsFiniteSet(S)
  BY <1>1, FS_Subset
<1> QED
  BY <1>2, FS_RemoveElement

\* A gauge other than the one a handler enters or leaves stays as it is.
LEMMA ServicesDiffer ==
  /\ \A s \in Specialists : AgentService[s] # "coordinator" /\ ToolService[s] # "coordinator"
  /\ \A s, t \in Specialists : AgentService[s] # ToolService[t]
  /\ \A s, t \in Specialists : s # t => AgentService[s] # AgentService[t] /\ ToolService[s] # ToolService[t]
BY DEF Specialists, AgentService, ToolService

LEMMA InitTelemetry == Init => TelemetryInv
<1> SUFFICES ASSUME Init PROVE TelemetryInv
  OBVIOUS
<1>1. WaitingRequests = {} /\ EndedRequests = {}
  BY DEF Init, WaitingRequests, EndedRequests
<1>2. \A s \in Specialists : AgentsAt(s) = {} /\ ToolsAt(s) = {}
  BY DEF Init, AgentsAt, ToolsAt, AgentBusy, ToolBusy, Runs
<1>3. \A s \in Services : inFlight[s] = 0
  BY DEF Init
<1>4. failures = 0 /\ Cardinality({}) = 0
  BY FS_EmptySet DEF Init
<1> QED
  BY <1>1, <1>2, <1>3, <1>4, ServicesAreServices DEF TelemetryInv

LEMMA CoordinatorKeepsTelemetry ==
  ASSUME Kinds, TelemetryInv, NEW r \in Requests, CoordinatorStep(r)
  PROVE  TelemetryInv'
<1>0. /\ phase \in [Requests -> {"new", "waiting", "answered", "failed", "rejected"}]
      /\ inFlight \in [Services -> Int]
  BY DEF Kinds
<1>1. UNCHANGED <<agent, tool>>
  BY DEF CoordinatorStep, coordinate, GatherRaises, DeadlinePasses, GatherReturns
<1>2. ASSUME NEW new, phase' = [phase EXCEPT ![r] = new]
      PROVE  /\ WaitingRequests' = IF new = "waiting" THEN WaitingRequests \cup {r} ELSE WaitingRequests \ {r}
             /\ EndedRequests' = IF new \in {"failed", "rejected"} THEN EndedRequests \cup {r} ELSE EndedRequests \ {r}
  BY <1>0, <1>2 DEF WaitingRequests, EndedRequests
<1>3. /\ WaitingRequests \in SUBSET Requests /\ EndedRequests \in SUBSET Requests
      /\ r \in WaitingRequests <=> phase[r] = "waiting"
      /\ r \in EndedRequests <=> phase[r] \in {"failed", "rejected"}
  BY DEF WaitingRequests, EndedRequests
<1>4. CASE /\ phase[r] = "new" /\ failures' = failures + 1 /\ inFlight' = inFlight
           /\ \E new \in {"failed", "rejected"} : phase' = [phase EXCEPT ![r] = new]
  <2>1. WaitingRequests' = WaitingRequests /\ EndedRequests' = EndedRequests \cup {r}
    BY <1>2, <1>3, <1>4
  <2>2. failures' = Cardinality(EndedRequests')
    BY <1>3, <1>4, <2>1, OneMore DEF TelemetryInv
  <2> QED
    BY <1>1, <1>4, <2>1, <2>2 DEF TelemetryInv, AgentsAt, ToolsAt, AgentBusy, ToolBusy
<1>5. CASE /\ phase[r] = "new" /\ phase' = [phase EXCEPT ![r] = "waiting"]
           /\ Enter("coordinator") /\ UNCHANGED failures
  <2>1. WaitingRequests' = WaitingRequests \cup {r} /\ EndedRequests' = EndedRequests
    BY <1>2, <1>3, <1>5
  <2>2. Cardinality(WaitingRequests') = Cardinality(WaitingRequests) + 1
    BY <1>3, <1>5, <2>1, OneMore
  <2> QED
    BY <1>0, <1>1, <1>5, <2>1, <2>2, ServicesDiffer, ServicesAreServices
    DEF TelemetryInv, AgentsAt, ToolsAt, AgentBusy, ToolBusy, Enter
<1>6. CASE phase[r] = "waiting" /\ failure_policy(r)
  <2>1. WaitingRequests' = WaitingRequests \ {r} /\ EndedRequests' = EndedRequests \cup {r}
    BY <1>2, <1>6 DEF failure_policy
  <2>2. /\ Cardinality(WaitingRequests') = Cardinality(WaitingRequests) - 1
        /\ Cardinality(EndedRequests') = Cardinality(EndedRequests) + 1
    BY <1>3, <1>6, <2>1, OneMore, OneLess
  <2> QED
    BY <1>0, <1>1, <1>6, <2>1, <2>2, ServicesDiffer, ServicesAreServices
    DEF TelemetryInv, AgentsAt, ToolsAt, AgentBusy, ToolBusy, Leave, failure_policy
<1>7. CASE /\ phase[r] = "waiting" /\ phase' = [phase EXCEPT ![r] = "answered"]
           /\ Leave("coordinator") /\ UNCHANGED failures
  <2>1. WaitingRequests' = WaitingRequests \ {r} /\ EndedRequests' = EndedRequests
    <3>1. WaitingRequests' = WaitingRequests \ {r} /\ EndedRequests' = EndedRequests \ {r}
      BY <1>0, <1>7 DEF WaitingRequests, EndedRequests
    <3>2. r \notin EndedRequests
      BY <1>3, <1>7
    <3> QED
      BY <3>1, <3>2
  <2>2. Cardinality(WaitingRequests') = Cardinality(WaitingRequests) - 1
    BY <1>3, <1>7, <2>1, OneLess
  <2> QED
    BY <1>0, <1>1, <1>7, <2>1, <2>2, ServicesDiffer, ServicesAreServices
    DEF TelemetryInv, AgentsAt, ToolsAt, AgentBusy, ToolBusy, Leave
<1> QED
  BY <1>4, <1>5, <1>6, <1>7 DEF CoordinatorStep, coordinate, GatherRaises, DeadlinePasses, GatherReturns

\* Each step of a run leaves both handlers as busy as they were, or one of them
\* starts or stops and its gauge moves by one.
LEMMA RunStepMovesGauge ==
  ASSUME Kinds, NEW run \in Runs, RunInv(run), RunStep(run)
  PROVE  /\ UNCHANGED <<phase, failures>>
         /\ \/ /\ AgentBusy(run)' <=> AgentBusy(run)
               /\ ToolBusy(run)' <=> ToolBusy(run)
               /\ inFlight' = inFlight
            \/ /\ ~AgentBusy(run) /\ AgentBusy(run)' /\ Enter(AgentService[run[2]])
               /\ ToolBusy(run)' <=> ToolBusy(run)
            \/ /\ AgentBusy(run) /\ ~AgentBusy(run)' /\ Leave(AgentService[run[2]])
               /\ ToolBusy(run)' <=> ToolBusy(run)
            \/ /\ ~ToolBusy(run) /\ ToolBusy(run)' /\ Enter(ToolService[run[2]])
               /\ AgentBusy(run)' <=> AgentBusy(run)
            \/ /\ ToolBusy(run) /\ ~ToolBusy(run)' /\ Leave(ToolService[run[2]])
               /\ AgentBusy(run)' <=> AgentBusy(run)
<1> USE DEF Kinds, AgentBusy, ToolBusy
<1>1. CASE invoke(run)
  BY <1>1 DEF invoke, RunInv
<1>2. CASE CallReturns(run) \/ CallFails(run)
  BY <1>2 DEF CallReturns, CallFails
<1>3. CASE CallTool(run)
  BY <1>3 DEF CallTool
<1>4. CASE ToolReturns(run)
  BY <1>4 DEF ToolReturns
<1>5. CASE render(run) \/ AgentFails(run)
  BY <1>5 DEF render, AgentFails
<1>6. CASE feature_by_id(run)
  BY <1>6 DEF feature_by_id
<1>7. CASE rag_by_id(run) \/ drift_report(run) \/ ToolFails(run)
  BY <1>7 DEF rag_by_id, drift_report, ToolFails
<1> QED
  BY <1>1, <1>2, <1>3, <1>4, <1>5, <1>6, <1>7 DEF RunStep

LEMMA RunStepKeepsTelemetry ==
  ASSUME Kinds, TelemetryInv, NEW run \in Runs, RunInv(run), RunStep(run)
  PROVE  TelemetryInv'
<1>1. PICK r \in Requests, s \in Specialists : run = <<r, s>> /\ run[2] = s
  BY DEF Runs
<1>2. /\ \A q \in Requests, t \in Specialists :
           <<q, t>> # run => (AgentBusy(<<q, t>>)' <=> AgentBusy(<<q, t>>)) /\ (ToolBusy(<<q, t>>)' <=> ToolBusy(<<q, t>>))
      /\ UNCHANGED <<phase, failures>>
  BY RunStepIsLocal, RunStepMovesGauge DEF AgentBusy, ToolBusy, Runs
<1>3. WaitingRequests' = WaitingRequests /\ EndedRequests' = EndedRequests
  BY <1>2 DEF WaitingRequests, EndedRequests
<1>4. \A t \in Specialists : t # s => AgentsAt(t)' = AgentsAt(t) /\ ToolsAt(t)' = ToolsAt(t)
  BY <1>1, <1>2 DEF AgentsAt, ToolsAt
<1>5. /\ AgentsAt(s)' = IF AgentBusy(run)' THEN AgentsAt(s) \cup {r} ELSE AgentsAt(s) \ {r}
      /\ ToolsAt(s)' = IF ToolBusy(run)' THEN ToolsAt(s) \cup {r} ELSE ToolsAt(s) \ {r}
      /\ r \in AgentsAt(s) <=> AgentBusy(run)
      /\ r \in ToolsAt(s) <=> ToolBusy(run)
      /\ AgentsAt(s) \in SUBSET Requests /\ ToolsAt(s) \in SUBSET Requests
  BY <1>1, <1>2 DEF AgentsAt, ToolsAt
<1>6. inFlight \in [Services -> Int]
  BY DEF Kinds
<1>7. CASE /\ AgentBusy(run)' <=> AgentBusy(run)
           /\ ToolBusy(run)' <=> ToolBusy(run)
           /\ inFlight' = inFlight
  <2>1. AgentsAt(s)' = AgentsAt(s) /\ ToolsAt(s)' = ToolsAt(s)
    BY <1>5, <1>7
  <2> QED
    BY <1>2, <1>3, <1>4, <1>7, <2>1 DEF TelemetryInv
<1>8. ASSUME ToolsAt(s)' = ToolsAt(s), NEW change \in {1, -1},
             inFlight' = [inFlight EXCEPT ![AgentService[s]] = @ + change],
             Cardinality(AgentsAt(s)') = Cardinality(AgentsAt(s)) + change
      PROVE  TelemetryInv'
  BY <1>2, <1>3, <1>4, <1>6, <1>8, ServicesDiffer, ServicesAreServices DEF TelemetryInv
<1>9. ASSUME AgentsAt(s)' = AgentsAt(s), NEW change \in {1, -1},
             inFlight' = [inFlight EXCEPT ![ToolService[s]] = @ + change],
             Cardinality(ToolsAt(s)') = Cardinality(ToolsAt(s)) + change
      PROVE  TelemetryInv'
  BY <1>2, <1>3, <1>4, <1>6, <1>9, ServicesDiffer, ServicesAreServices DEF TelemetryInv
<1>10. \A S \in SUBSET Requests : Cardinality(S) \in Nat
  <2>1. IsFiniteSet(Requests)
    BY AgentAssumption DEF AgentAssumption
  <2> QED
    BY <2>1, FS_Subset, FS_CardinalityType
<1>11. ASSUME NEW g \in Services PROVE inFlight[g] - 1 = inFlight[g] + (-1)
  BY <1>6
<1>12. CASE /\ ~AgentBusy(run) /\ AgentBusy(run)' /\ Enter(AgentService[s])
            /\ ToolBusy(run)' <=> ToolBusy(run)
  <2>1. ToolsAt(s)' = ToolsAt(s) /\ Cardinality(AgentsAt(s)') = Cardinality(AgentsAt(s)) + 1
    BY <1>5, <1>12, OneMore
  <2> QED
    BY <1>8, <1>12, <2>1 DEF Enter
<1>13. CASE /\ AgentBusy(run) /\ ~AgentBusy(run)' /\ Leave(AgentService[s])
            /\ ToolBusy(run)' <=> ToolBusy(run)
  <2>1. ToolsAt(s)' = ToolsAt(s) /\ Cardinality(AgentsAt(s)') = Cardinality(AgentsAt(s)) + (-1)
    BY <1>5, <1>10, <1>13, OneLess
  <2>2. inFlight' = [inFlight EXCEPT ![AgentService[s]] = @ + (-1)]
    BY <1>11, <1>13, ServicesAreServices DEF Leave
  <2> QED
    BY <1>8, <2>1, <2>2
<1>14. CASE /\ ~ToolBusy(run) /\ ToolBusy(run)' /\ Enter(ToolService[s])
            /\ AgentBusy(run)' <=> AgentBusy(run)
  <2>1. AgentsAt(s)' = AgentsAt(s) /\ Cardinality(ToolsAt(s)') = Cardinality(ToolsAt(s)) + 1
    BY <1>5, <1>14, OneMore
  <2> QED
    BY <1>9, <1>14, <2>1 DEF Enter
<1>15. CASE /\ ToolBusy(run) /\ ~ToolBusy(run)' /\ Leave(ToolService[s])
            /\ AgentBusy(run)' <=> AgentBusy(run)
  <2>1. AgentsAt(s)' = AgentsAt(s) /\ Cardinality(ToolsAt(s)') = Cardinality(ToolsAt(s)) + (-1)
    BY <1>5, <1>10, <1>15, OneLess
  <2>2. inFlight' = [inFlight EXCEPT ![ToolService[s]] = @ + (-1)]
    BY <1>11, <1>15, ServicesAreServices DEF Leave
  <2> QED
    BY <1>9, <2>1, <2>2
<1> QED
  BY <1>1, <1>7, <1>12, <1>13, <1>14, <1>15, RunStepMovesGauge

\* The gauges show the handlers at work, those whose caller has gone included, and
\* failures are counted once (Telemetry.request_in_flight, Telemetry.observe_failure).
THEOREM TelemetryHolds == Spec => []TelemetryIsTrue
<1>1. OutcomeInv /\ TelemetryInv /\ [Next]_vars => TelemetryInv'
  <2>1. TelemetryInv /\ UNCHANGED vars => TelemetryInv'
    BY DEF TelemetryInv, vars, WaitingRequests, EndedRequests, AgentsAt, ToolsAt, AgentBusy, ToolBusy
  <2> QED
    BY <2>1, CoordinatorKeepsTelemetry, RunStepKeepsTelemetry DEF Next, OutcomeInv
<1>2. TelemetryInv => TelemetryIsTrue
  BY DEF TelemetryInv, TelemetryIsTrue, GaugesCountHandlers, FailuresCountedOnce,
     WaitingRequests, EndedRequests, AgentsAt, ToolsAt
<1> QED
  BY <1>1, <1>2, InitTelemetry, OutcomeInvariant, PTL DEF Spec
=============================================================================
