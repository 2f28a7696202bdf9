# Financial-Distress-Data: TLA+ models, checks and proofs

This directory is a verification development of the parts of the repository that are
concurrent, that fail half way, or that compute one thing in two places: the
evidence-session write path and its outbox workers, RAG ingestion, the agents and their
tools, the batch lakehouse DAGs, the price-event stream job, the publication of feature
datasets, the per-user AI budget, the streamed assistant request, the local lakehouse
tables, and the derivation of the Gold tables. Every definition is translated from the
source lines `PROJECT.json` maps it to. TLC checks small instances; TLAPS proves the
main safety properties for every value of the constants.

Paths below are relative to the repository root. SQL migrations are in
`supabase/migrations/`, and named by their last words.

## 1. The system: inventory

The repository is a data platform (Python: collectors, Kafka and Flink streaming,
Spark lakehouse, Airflow DAGs, MinIO, ML and RAG, agents) and a web application (Next.js
over Supabase) that shows its results, answers questions with an AI assistant, and lets
operators switch expensive evidence infrastructure on and off.

| Component | State it keeps | Operations | Hard behaviour | What makes it correct | Modelled in |
|---|---|---|---|---|---|
| Evidence session write path (`phase2_schema.sql`, `phase2_outbox_worker.sql`, `session-actions.ts`, `role-action-button.tsx`) | `evidence_session`, `evidence_session_transition`, `outbox_events` | create a session; request a transition with fencing token and idempotency key | forms delivered late, twice, out of order; two operators | each form applied at most once, on the state its operator saw; tables tell one history; only legal edges | `EvidenceSession`, `SessionMachine` |
| Outbox workers (`outbox_worker_service_role_access.sql`, `outbox-worker.ts`, `outbox-worker-loop.ts`, `outbox-handlers.ts`) | lease columns of `outbox_events`; each process's loop, batch and shutdown state | claim, handle, complete, fail, back off, drain on signal | crashes, lost RPC replies, leases that run out, sessions that move on meanwhile | DONE only on a fresh reading of the session's token; disjoint batches; every event settles | `EvidenceOutbox` |
| RAG ingestion (`src/llm/rag_pipeline.py`, `rag/pgvector_store.py`, `phase2_rag_ingest.py`) | `rag_document`, `rag_chunk`, `rag_quarantine` | fetch, deduplicate, govern, register, embed, insert, emit lineage | overlapping tasks, several commits per task, key waits and deadlocks, retries | nothing ungoverned is stored; success is complete; reruns write nothing; a commit is all or nothing; tasks end | `RagIngestion`, `ChunkStore` |
| Agents and tools (`src/agents/`, `apps/feature-mcp`, `apps/drift-mcp`) | requests in flight, in-flight gauges, failure counter | fan out to two specialists, call tools and model, gather, answer | one deadline over two calls, handlers that outlive their callers | whole answers or failures with a cause; true metrics; an end | `AgentRequest` |
| Batch lakehouse DAGs (`ingest_source_to_bronze.py`, `build_silver_gold.py`, `stage1_real_e2e_pipeline.py`, `kafka_to_bronze_job.py`, `stage1_spark_lakehouse_job.py`, `dq_runner.py`, `metadata_writer.py`) | topics, Bronze objects, Gold prefixes, `project_metadata` | produce, consume, write batches, clear, build, check, record | duplicates, no committed offsets, overlapping builds, kills between two steps | events reach Bronze; tables of one build; what is recorded is true | `StageOne` |
| Streaming windows (`flink_contract.py`, `flink/jobs/price_event_job.py`) | offsets, seen ids, watermark, sinks, checkpoint | parse, deduplicate, window, side outputs, checkpoint, restart | out-of-order, duplicate and late events; expiring state; restarts | each record in one output; the oracle is no more lenient than the job | `StreamWindows` |
| Gold tables (`src/transforms/`, `stage1_evidence_job.py`, `stage1_spark_lakehouse_job.py`) | none: functions of Bronze | deduplicate, label, compute ratios, join point in time, build the company dimension | restatements and prices in any order; a second implementation in Spark | both programs agree; nothing looks ahead; as-of lookups answered | `GoldTables` |
| DP3 feature publication (`dags/build_offline_features.py`, `airflow_tasks.py`, `minio_publish.py`) | published, staged and rollback prefixes in MinIO | compute, validate, promote with rollback | overlapping runs, failing calls, killed tasks, retries | rejected data never visible; a promotion is all or nothing | `FeaturePublication` |
| AI budget (`phase2_ai_usage_audit.sql`, `ai-budget.ts`) | `ai_request_usage` counters per user, kind and window | consume one unit of rate limit and quota; prune | overlapping calls; calls that wait past a window boundary; pruning of rows still in use | no window above its limit; no unjustified refusal | `AiBudget` |
| Assistant stream (`api/assistant/stream/route.ts`, `inference-stream.ts`, `streaming-transport.ts`) | one request: route, upstream, frames, panel turn, audit row | guard, budget, stream, time out, cancel, audit | three timeouts, cancellation, upstreams that stall, break or lie | one audit row; the panel never claims success for a failure; both sides end | `AssistantStream` |
| Lakehouse tables (`src/lakehouse/catalog.py`, `snapshots.py`) | list of snapshots, schema | read, append, replace, evolve schema, diff | clients interleaving read and commit; schema changes under readers | snapshots immutable and uniquely named; no lost update; diffs replay | `IcebergTable` |
| Other parts | | | | | not modelled, section 9 |

How they interact:

- A browser form calls a server action (`session-actions.ts`), which calls
  `request_session_transition`. That transaction writes the transition, the new session
  row and an outbox event. Workers poll the outbox with three RPCs; the fence in
  `complete_outbox_event` ties their result back to the session row. `EvidenceOutbox`
  EXTENDS `EvidenceSession`, so the model has the shared tables, not a stub.
- The assistant route calls `consume_ai_quota` and `record_audit_event`. `AiBudget`
  models the first with all its callers; `AssistantStream` takes any of its answers. Its
  coordinator plane posts to the coordinator of `AgentRequest`.
- The agents' feature tool looks chunks up that RAG ingestion stored (`Stored`).
- The batch DAGs share the broker, the Bronze zone, the Silver and Gold prefixes and the metadata
  database: all in `StageOne`. What the build tasks compute is `GoldTables`; that they
  compute it while others clear and write is `StageOne`.
- DP3 tasks talk through MinIO prefixes and Airflow's task states only. Their gate
  (`validate_feature_snapshot`) is a verdict in `FeaturePublication` and computed in `GoldTables`.
- Clients of a lakehouse table share the table object and its lock.

## 2. Modules

| Module | What it is |
|---|---|
| `SessionRules` | state graph of a session (`session_transition_rule`) |
| `SessionMachine` | abstract specification: a session is created once, then moves along one edge per step and increments its version |
| `EvidenceSession` | write path, refines `SessionMachine` |
| `EvidenceOutbox` | workers composed with the write path |
| `ChunkStore` | abstract: what ingestion promises about the three tables, without tasks |
| `RagIngestion` | overlapping ingestion tasks over the three tables, one query per step; implements `ChunkStore` |
| `AgentRequest` | coordinator, agents and tools as separate services |
| `StageOne` | three DAGs over one broker, lake and metadata database |
| `StreamWindows` | the PyFlink job, its checkpoints, and the oracle |
| `GoldTables` | the Gold tables as functions of Bronze, as Python and as Spark compute them |
| `FeaturePublication` | DP3 runs and `promote_staged_prefixes`, one MinIO call per step |
| `AiBudget` | `consume_ai_quota` |
| `AssistantStream` | browser, route and model of one request |
| `IcebergTable` | table, its clients, `diff_snapshots` |
| `MC*` | constants' values and symmetry sets for TLC |
| `EvidenceProofs` | theorems about `EvidenceSession` and its composition `EvidenceOutbox` |
| `LakehouseProofs` | theorems about `StageOne` and `GoldTables` |
| `AssistantProofs` | theorems about `AiBudget` and `AssistantStream` |
| `RagIngestionProofs`, `AgentRequestProofs`, `StreamWindowsProofs`, `FeaturePublicationProofs`, `IcebergTableProofs` | theorems about the module they are named after |

Each action is one database function, query, RPC, MinIO call, lock-protected method or
handler step, with every write it makes. In each module the definitions marked "Mutant"
are plausible mistakes in the definition that follows them; each shows that one property
can fail, and none is used by the specification. Variables called history variables
(`requests`, `accepted`, `granted`, `commits`, `entered`, `faults`, `late`, `troubled`, `expired`,
`overlapped`, `stored`, `rejected`, `broken`) record what happened for the properties; no guard of the
program reads them, except that `requests` is also the network and `faults` bounds the
environment.

### EvidenceSession

`session`, `log` and `outbox` are the three tables; sequences are in commit order.
Fencing tokens (`gen_random_uuid()`) are numbers handed out in increasing order: only
their inequality is used by the code, the order is used by proofs. A posted form stays in
`requests` for ever, so it may reach the database any number of times, at any time
and in any order. `PostTransitionForm` is `role-action-button.tsx`: the form carries the
token of the page it was rendered on. `request_session_transition` first answers a retry
(same key, same destination), then checks key, token and edge, then writes three rows in one
transaction. A refused call raises and writes nothing, hence has no step. Access
checks precede everything and are taken as passed; the OPERATOR-only rule has no state.

### EvidenceOutbox

`job[e]` holds the columns of outbox row `e` that workers write. Time is
abstracted to whether a lease is held or has expired. A lease expires under a
worker that still works (`LeaseOverrun`, a disruption) or when nobody works under it
(`LeaseLapses`). `pc[w]` follows `drainOutbox` and the loop: claim, handle,
complete or fail, back off. `Disrupt` marks what the environment does wrong: crashes, lost
requests or replies, overruns. An RPC can be lost before or after its
effect, and a completion's caller may be gone before the transaction ends (`LoseAnswer`, `Crash`); a request delivered only after
its caller gave up is left out. `complete_outbox_event` locks the outbox row and reads the session's token with a plain SELECT, so
the function has two steps here: up to that read (`ReadToken`), and its verdict and commit (`CommitCompletion`). `call[e]` is the open
transaction; `request_session_transition` may commit in between. A crash and a restart may happen
at any step; a restarted process may keep its worker id (another id is another member of
`Workers`).

### RagIngestion

A chunk is its content hash. A task walks its document's chunks in order (`Visit`): one
query each to ask whether it is stored, one verdict each, with a quarantine row committed
by itself for each refusal. The document is committed before the embedding call, the chunks in one
transaction after it. An insert waits for another open transaction that holds its key (PostgreSQL's
unique index under ON CONFLICT DO NOTHING); a circle of waits costs one member its
transaction (`DeadlockVictim`). Whatever raises ends in Airflow's retry of the whole
task (`AttemptFails`). Sources may deliver the same bytes, documents may share
texts, tasks may use different embedding versions, all in `Init`.

`ChunkStore` states the same without tasks: a document gets one row, a refused chunk goes to quarantine, and everything admissible that a source
still misses under a version appears in one step, under the source whose row it is (`RowSource`: `rag_chunk.source_uri`). It says more
than the invariants: rows are never replaced, and no reader sees half of what a task adds, whatever it lost to others on the way.

### AgentRequest

A run is one specialist's part of a request; coordinator, agent and tool each have a
handler for it. A caller's limit does not reach the other side, so a handler goes on
after `CallFails`, `DeadlinePasses` or the failure of a sibling. `gather` raises the first exception and
leaves the other call running (`GatherRaises`), `wait_for` cancels both (`DeadlinePasses`). The
semaphore is `invoke`'s guard. The gauge middleware enters and leaves `inFlight` with each
handler. `Valid`, `Granted`, `Stored` and `Citable` are the verdicts of the request model, the tool's
authorization, the chunk lookup and the citation rule.

### StageOne

`After` is the chain of steps of a DAG, its closing check, manifest and report tasks included, and `TaskStart` the step a retried task begins again with.
`batch` holds the names of the Bronze batch datasets: those an earlier DAG may have left (`dp1_bronze_ingest.py:136`) and those the runs write.
`ingest_source_to_bronze` stores the prices under a name that the build does not read (`DatasetsOf`), so a build with no other source of prices raises at every attempt.
`topic` keeps how often each message of a run is on the broker: `send` is retried without
idempotence and its futures are not looked at, so a message may be lost or doubled.
`consume_stage1_stream_events` stops at as many matching records as the run has events and
raises when there are fewer. `clear_output_prefixes` and `write_table` work table by table in any order; an interrupted
overwrite leaves no table; a stream dataset that cannot be read counts as absent (`unread`).
The gate reads table by table while others may write; the DuckDB report of the e2e DAG reads all tables and changes none. `_execute` commits each metadata row by itself.

### StreamWindows

`log` is the replay, chosen once, with records that are valid, break the contract, carry a
timestamp in Z, or are JSON but no object; `optimized` chooses the variant with deduplication and checkpoints.
The watermark an operator sees may be any older one (periodic emission, slowest channel). `job` is
all a checkpoint holds, sinks included; `crash` puts `saved` back and forgets the watermark, as
Flink does. `read_event` is the body of the loop of `process_bounded_events`, `Oracle` its state after each record of
the replay. Two records with one id have one event time: `_stable_event_id` (`events.py:17`) hashes the payload, event time included, and a
duplicate keeps its original's (`problem_factory.py:130`).

### GoldTables

The state is Bronze: statements with restatements, prices, company snapshots, in any order of
arrival. Every table is an operator over it, once as the pure Python program computes it and
once as the Spark job does, with their differing treatment of null, zero and negative figures, of rows that break the types of
their contract (`validate_row`), of sectors (`is_financial_sector`, `is_fin`) and of changes of a company (`merge_dim_company`, `SparkChanged`). Ratios
are kept as pairs and compared by cross multiplication. `validate_feature_snapshot` is the leakage gate.

### FeaturePublication

A prefix holds one object, so its content is the run that wrote it. Each `_copy_prefix`
and `clear_minio_prefix` is a step. `CallRaises` sends control where the code's
except and finally blocks send it; `Killed` skips them. Both end in Airflow's
retry (`TaskFails`). `quality` is the verdict the gates will reach on a run: `leaky` data
is refused inside the compute task after staging, `empty` data by the validation task.

### AiBudget

One call is one transaction that waits on row locks, so the body is one action; but `now()` is
the time the transaction began, so `Begin` and `consume_ai_quota` are separate,
with ticks and other calls between them. Pruning is part of the granted branch only, as in
the function.

### AssistantStream

The guard, body, budget and plane checks are actions that answer or pass. Behind them the
response starts; `deadline` is the timer of the wait the route is in (headers, then each
upstream's own). `SeeAbort` covers every place the code can learn that the other side has gone, including
learning it late. `sent` is everything the route enqueued, `read` what the transport has
reduced, `turn` what the panel shows. The connection may fail at any time, before the response, while an error's text is read or
in the middle of the stream (`ConnectionFails`): the turn ends as an error, and the route goes on and audits what it knows. `auditLog` says
whether `record_audit_event` answers, commits a row whose answer is lost (`mute`), or fails. A request that never reaches the route leaves
nothing to model. The hosting platform is external: it may end the route at `PlatformLimit` without its finally block.

### IcebergTable

The lock makes each method one step. `Pin`, `Load`, and then `append` or `replace` are a
client's separate calls. The snapshot hash is modelled as the tuple of what is hashed,
so two ids are equal exactly if the hashed inputs are (no collision). Business keys are
one column.

## 3. Runs

| Run | Module | Question | Properties |
|---|---|---|---|
| `session_write_path` | `MCEvidenceSession` | do late, repeated, reordered forms keep sessions and tables consistent? | `RequestAppliedAtMostOnce`, `TransitionLeavesSeenState`, `CurrentEventIsNewest`, `HistoryHoldsForms`, `ImplementsSessionMachine` |
| `outbox_workers` | `MCEvidenceOutbox` | do workers stay correct under crashes, lost RPCs, overruns and signals, and does every event settle? | `HealthyBatchesDisjoint`, `StopReportsBatch`, `DoneWasCurrent`, `HealthyOutcomeIsFinal`, `EveryEventSettles` |
| `rag_ingestion` | `MCRagIngestion` | what do overlapping, failing, killed and retried ingestions leave in the store? | `GovernedStore`, `SuccessIsComplete`, `RerunWritesNothing`, `ImplementsChunkStore`, `TasksEnd` |
| `agent_request` | `MCAgentRequest` | what is answered, counted and shown when any call may fail, hang or answer late? | `OutcomeIsSound`, `TelemetryIsTrue`, `RequestsEnd` |
| `stage_one` | `MCStageOne` | what do any two runs of the three DAGs still guarantee together? | `EventsReachBronze`, `OneBuild`, `RecordsAreTrue`, `RunsEnd` |
| `stream_windows` | `MCStreamWindows` | are counts exact in every replay, and is the oracle a sound judge of the job? | `CountsAreExact`, `OracleIsStricter`, `JobEnds` |
| `feature_publication` | `FeaturePublication` | what survives overlapping, failing, killed and retried publications, and do runs end? | `OnlyGatedData`, `PromotionIsWhole`, `RunsEnd` |
| `doc_published_data_survives` | `FeaturePublication` | is the previous snapshot restored on every failure? | `PublishedDataSurvives`: **violated**, section 5 |
| `ai_budget` | `MCAiBudget` | are limits exact under overlap and delay? | `WithinLimits`, `RefusalsAreJustified` |
| `assistant_stream` | `AssistantStream` | one audit row, an honest panel, and an end? | `StreamTypeOK`, `RequestAuditedOnce`, `TurnIsHonest`, `RequestEnds` |
| `iceberg_table` | `MCIcebergTable` | snapshots, optimistic commits and diffs under two clients | `TimeTravel`, `NoLostUpdate`, `DiffIsDelta` |
| `gold_tables` | `MCGoldTables` | do the Python and Spark programs agree, and does either look ahead? | `PipelinesAgree`, `NoLookAhead`, `AsOfHistory` |

What they show:

- `RequestAppliedAtMostOnce`, `TransitionLeavesSeenState`: no ABA. A session can return to a
  state the operator saw; the form is still refused, because tokens rotate.
- `HistoryHoldsForms`, `CurrentEventIsNewest`: transition table, outbox and session
  row agree; an "ok" answered to a form has its row.
- `ImplementsSessionMachine`: refinement of the abstract machine.
- `DoneWasCurrent`: the fence in `complete_outbox_event` stops workers that stalled through a transition. It does not exclude
  a transition between the function's read and its commit (section 5).
- `HealthyBatchesDisjoint`, `StopReportsBatch`, `HealthyOutcomeIsFinal`: what holds as long as nothing is
  disrupted. With disruptions each of them fails, which is why they say so.
- `GovernedStore`, `SuccessIsComplete`: the check for existing chunks is unlocked and a chunk another source stored is never judged
  again; still nothing ungoverned gets in and nothing admissible stays out. `TasksEnd` includes deadlocks.
- `OutcomeIsSound`: an answer is never partial, and no request fails because of another one. `TelemetryIsTrue` counts orphaned handlers, too.
- `RunsEnd` of `stage_one`: every run ends, and is done unless something hinders it: a fault, a message lost or doubled, another build. One thing needs no
  fault: a build whose prices only `ingest_source_to_bronze` has written always fails, after all its retries (section 5).
- `EventsReachBronze`: the events of a run reach Bronze together or not at all, except that a duplicate may take the
  place of an event. `OneBuild`, `RecordsAreTrue`: what the gate certifies and what the metadata tables
  say when builds fail half way or overlap.
- `CountsAreExact`: crash, replay, expiry and lateness put each record in one output. `OracleIsStricter` makes the oracle usable as
  evidence: it accepts nothing the job does not count.
- `OnlyGatedData`: no overlap, kill, retry or rollback exposes rejected data. `PromotionIsWhole`: what a run that promotes alone
  may rely on. Two promoting runs, or a failed backup, break stronger statements (section 5).
- `WithinLimits`, `RefusalsAreJustified`: exact accounting in both directions.
- `TurnIsHonest`: a turn shown as complete, refused or unavailable has the audit row that says so, although the panel is told before the row
  is written; an error has a failure in the log, or a lost connection, or a lost answer of the log behind it. A later done frame cannot turn a
  failure into success. A truncated answer is audited and shown alike, as a success (`TruncationReported`, section 5).
- `TimeTravel`, `NoLostUpdate`, `DiffIsDelta`: names stay unique and pinned reads stable; a guarded
  replace lost nothing; a diff replays.
- `PipelinesAgree`: the exceptions it names (section 5) are all the differences there are on the instances. `NoLookAhead`: adding later
  rows never changes an earlier label or feature.

The type invariant of `AssistantStream` is run too, as the states of a turn come from many places; those of the other
modules are only proved, as part of the invariants of section 6.

### Bounds, and why they are enough

- Session: two sessions, two keys, three transitions, three distinct forms (each
  deliverable again and again). Three transitions let a session leave a state and return
  to it while an old form waits, with a second session interleaved.
- Outbox: one session, two transitions (one stale event and one current), two workers, two attempts,
  one disruption (a crash, a lost request or reply, or an overrun) and one signal. Sessions are independent in the worker functions,
  so a second one adds interleavings only of unrelated rows; the proofs cover any number of sessions, workers and disruptions.
- RAG: two tasks over three sources. Two sources deliver the same bytes, one of them unlicensed; a third document has the same
  texts in the opposite order (which is what deadlocks) and a private one. Two faults and two retries, the DAG's number.
- Agents: two requests, both specialists, a negative, an allowed and an exhausted hop count, one chunk that is stored and one that is gone, an invalid payload.
  Failures are not bounded.
- Batch DAGs: any two runs of the three kinds, two events on two topics (one that the builds deduplicate and one that they do not), up to two copies
  of a message, one fault, and the retries of the DAGs (two for ingest and build, none for e2e). Bronze has all batch datasets at the start or none. A constraint
  keeps one of two orders of kinds, as run names are interchangeable.
- Streaming: replays of up to three of seven records (two copies of an event can be drawn, event times on both sides of the lateness
  bounds, an invalid one, a Z timestamp, a payload that is no object), one crash. Three records suffice for late, on time and duplicate in one replay.
- Publication: two runs, two datasets of four (loops have a first and a last element, so a partial
  loop exists), one retry of two, two faults, so that a rollback can fail, too. The violation
  run uses the DAG's two retries.
- Budget: windows of 4 and 2 ticks, limits 3 and 2, three calls in flight, delay of up to a whole rate window, and
  8 ticks. Two quota and four rate windows pass; pruning (two windows back) reaches
  rows of a kind that is still in use.
- Stream: route timeout 3 < platform limit 4 < client timeout 5: the order of the code's
  constants and of its comments. Two chunks: one before and one after a cancel.
- Tables: two clients, two columns, two cell values, three commits: append, then two
  clients rewriting from the same parent, with a column added in between.
- Gold: three rows in any order, of three quarters, three versions, nine profiles of figures (each branch of the label rules, zero, negative
  and null denominators, a row outside the contract), five price moments (daily and intraday), three company attributes with null, and all flags. Three rows are a statement, its restatement and its neighbour, or
  a field that becomes null and comes back.

`CHECK_DEADLOCK FALSE` is stated wherever bounds or a finished process let the system stop.

## 4. Fairness

- `outbox_workers`: weak fairness of each worker's own step (the loop of a process that is up runs), of the end of an open
  transaction (the database finishes statements it began) and of lease expiry (the clock advances). Nothing is assumed of operators, no fairness says that a handler
  succeeds or an RPC arrives, and nobody has to restart a crashed process: the repository runs the
  worker as a plain command. With two workers and one disruption at least one stays up, which
  is what the property needs.
- `rag_ingestion`, `stage_one`, `feature_publication`: weak fairness of each run's next step (Airflow's scheduler and, for
  RAG, PostgreSQL's deadlock detector). Failures are unfair and finite.
- `agent_request`: only the coordinator's own steps are fair, its deadline among them. Agents, tools and model owe nothing: they may hang for ever.
- `stream_windows`: weak fairness of the job's work on its input. Watermarks, checkpoints, expiry and crashes are unfair.
- `assistant_stream`: weak fairness of the route's and transport's own steps, of the clock and of the
  client's timer. The model behind the route owes nothing: it may stall for ever. Nothing says that a connection fails: the reader of a killed
  route ends by its own timer at the latest.

## 5. Where the code and its comments disagree

`PublishedDataSurvives` has a run whose counterexample TLC finds (`src/io/minio_publish.py:44`): a call that
fails while the backup is taken makes the except block delete every published prefix and restore a partial backup.

Further statements of the repository stand, with the quoted text, under "Statements ... the code does not keep" at the end of
their modules. They are not part of the runs; TLC refutes each when it is named in a cfg of that
module (`TableBounded` needs a quota window of several rate windows, say `QuotaWindow = 6`, `RateWindow = 1`, `QuotaLimit = 1`,
`RateLimit = 2`, `MaxDelay = 0`, `MaxTime = 6`):

- `EvidenceOutbox!DoneMatchesSession` (`outbox_worker_service_role_access.sql:84`): the token is read without a lock on the session, so
  DONE may become visible after the session has left the state the event asked for.
- `EvidenceOutbox!OutcomeIsFinal` (`outbox-worker.ts:97`): when the reply of a successful completion is lost the worker
  reports failure, and `fail_outbox_event` puts a settled event back to PENDING.
- `EvidenceOutbox!AttemptsCapped` (`outbox_worker_service_role_access.sql:42`): claims do not look at
  `attempts`; an event whose workers crash is claimed past the limit.
- `EvidenceOutbox!ActsOnlyWhileCurrent`: the handler runs before the fence is tested
  (`outbox-worker.ts:75`), while `phase2_outbox_worker.sql:17` says stale work is not acted on.
- `EvidenceOutbox!EveryTargetHandled`: OFF, READY, FAILED and EXPIRED events have no handler and end FAILED
  (`outbox-handlers.ts:64`).
- `FeaturePublication!PromotedTogether`: two overlapping promotions can leave datasets of two runs
  (`docs/data-pipeline-orchestration.md:52` says "atomically promotes").
- `FeaturePublication!TransientFailuresAreRetried`: the finally block deletes the staged data, so a retried
  promotion finds nothing (`minio_publish.py:50`).
- `AiBudget!TableBounded`: rows are pruned only by a granted call, so a user at its limit accumulates rows
  until the next grant.
- `AssistantStream!TruncationReported` (`inference-stream.ts:151`): an upstream that breaks off is shown as complete and audited
  as ALLOWED.
- `AssistantStream!EveryBranchAudited`: `record_audit_event` refuses callers without a role, so guests leave no row
  (`route.ts:76`).
- `AssistantStream!TimeoutBeforePlatform`: `response.json()` of the coordinator is awaited without a deadline, and
  headers plus stream may take two route timeouts (`route.ts:209`, `inference-config.ts:14`).
- `StageOne!IngestFeedsBuild` (`src/orchestration/airflow_tasks.py:58`): the ingest DAG writes `bronze/market_prices`, the build reads
  `bronze/market_prices_daily` (`stage1_spark_lakehouse_job.py:659`), while `README.md:29` names the two as one pipeline, "DP1 source→Bronze, DP2 Bronze→Silver/Gold", and
  `docs/data-governance.md:54` gives the build "three Bronze datasets" as its input.
- `IcebergTable!StaleParentRefused` (`src/lakehouse/catalog.py:140`): the id of an empty table is `None`, which
  also means "do not check".
- `GoldTables!FinancialsExcluded` (`docs/01_data_generator.md:258`): the fact rows that are labelled carry no sector, so
  financial companies are labelled like others. Neither test of a sector ever applies, so it makes no difference to the tables that Python looks for whole terms
  and codes of its policy, Spark for substrings of its own list.

Differences between the two programs of the Gold tables, named as exceptions in `PipelinesAgree`:

- The Spark job adds `gray_zone_monitor` to the reasons of a row its warnings put in distress; Python does not.
- Ratios with a negative denominator are null in Spark and numbers in Python, and Python counts net interest income as weak coverage.
- Without an `event_timestamp` Spark joins no price, while Python falls back to the release date; and in Silver a price event later
  on a day displaces the daily price of that day, so Spark's features are compared on daily prices.
- Python's Silver turns away statements whose fields break the types or enum values of the contract; the Spark job passes neither to its Silver
  (`stage1_spark_lakehouse_job.py:63`) and keeps them. A blank is null in both. Labels and features are compared where no such row has arrived.
- The two company dimensions treat a field that is null differently: Python opens another version at every snapshot without a `delisted_flag`, because it compares
  it with the `False` it has stored (`dim_company.py:58`). The history `docs/02_schema_design.md:207` describes also needs every snapshot of
  a company to reach Gold, but Silver keeps one row per ticker.

Seen while modelling, and visible in how the models are written:

- `StreamWindows`: the contract accepts a timestamp in Z, the job's assigner, under the image's Python, does not read it, and the
  job restarts for ever on that record. It does so, too, on a payload that is JSON but no object (`price_event_job.py:53` raises an `AttributeError`, which
  line 54 does not catch). `JobEnds` excludes both.
- `StageOne`: `kafka_producer.py:5` and `kafka_to_bronze_job.py:5` say "idempotent"; the producer is retried without idempotence and batches have new
  names at each attempt, so duplicates reach Bronze. `stage1_spark_lakehouse_job.py:696`, `:729` and `:757` take any exception while stream objects are read
  for their absence, and build tables without them.
- `AgentRequest`: the coordinator allows citations with five schemes (`coordinator.py:37`); documents whose `source_uri` is a path
  in the repository have none, so a question about their chunks fails after all calls succeeded.
- `AgentRequest`: `gather` does not cancel the surviving call, so an agent and a tool go on working for a request that has failed.

## 6. What is proved

TLAPS checks every theorem to its leaves. The assumptions are those named in the
modules (`BoundsAssumption`, `WorkerAssumption`, `RagAssumption`, `AgentAssumption`, `StreamAssumption`, `PublicationAssumption`,
`BudgetAssumption`, `FieldAssumption`, `StageOneAssumption`, `GoldAssumption`, `TimeoutAssumption`); TLC evaluates them on every run.
None fixes a size: sets may be infinite, except that `AgentRequest` counts finitely many requests and `StageOne` finitely many
records. Every safety property that a passing run checks is the subject of a theorem.

- `EvidenceProofs`, the write path. `SessionTypeCorrect` comes first. The inductive invariant `SessionInv` is `SessionTypeOK`, the three safety
  invariants and `TokensAreFences`: tokens are issued in increasing order, so everything a
  form or row remembers of a session's token lies at or below the present one, strictly below
  once a transition was admitted with it, and a form that holds the present token saw the
  present state. That is why at most one form per token lands
  (`AppliedAtMostOnce`), on the state it saw (`LeavesSeenState`), and why the worker's equality test on
  tokens picks the newest event (`CurrentIsNewest`). `WritePathIsSessionMachine` is the refinement:
  one proof step per action, each maps to a step of `SessionMachine` or a stutter. `HistoryHolds` adds
  `HistoryInv`: a session row shows its newest transition (`Shows`) and transitions chain (`Chained`); a new session has none, because
  rows lie below its session's token and a missing row has token 0.
- `EvidenceProofs`, the workers. `OutboxKeepsWritePath` shows that the composition implements the write path,
  so everything above carries over. `TypeCorrect` needs besides that events and transitions
  come in pairs. `DoneIsCurrent` rests on `CallsReadFresh`: an open completion that found its token
  current is about a session that has kept that token, or has a transition committed since; and by `CurrentEventIsNewest` a current token means the
  newest event, whose target is the session's state. `ClaimsMatch` is the invariant behind the
  undisrupted case: a worker's pending claims are exactly its batch, with leases held, and an open completion has its caller waiting. From
  it follow `BatchesDisjoint`, `StopReports` and `HealthyOutcomes`.
- `RagIngestionProofs`. `IngestionInv` is `TypeOK`, `Governed` (what a task may still insert was admitted, and what is registered came from an
  allowed source), `Complete` (each chunk of a task's source is in its hands, in its open transaction, stored, or refused with a
  quarantine row), `GovernedStore` and `OneWriterPerKey`. Completeness at every step is what makes it hold at the end (`SuccessLeavesNothingOut`) in spite of
  failed attempts, whose chunks go back to the start. `StoreIsGoverned` reads off the rest. `OneWriterPerKey` is why a commit overwrites nobody (`WritersAreApart`) and the store only grows;
  that in turn keeps a late attempt idle (`RerunInv`, `RerunsAreIdle`). `TasksAreChunkStore` maps every step to one of `ChunkStore` or to none: a
  row shows the source behind it, and reported success the source and version. The commit is the hard one: it must be *the* insertion of everything
  its source misses at that moment, though what was missing was looked up, unlocked, queries ago. `InHand` (a task inserts only what its source delivers), `Governed` and
  `OneWriterPerKey` make each row of the transaction a missing one; `Complete` makes each missing one a row of the transaction.
- `AgentRequestProofs`. `OutcomeInv` follows a result back: a call that returned had an agent that replied, whose tool answered; and each tool, agent
  or call that ended badly has an excuse among the causes the property allows. `TelemetryInv` counts: a step of a
  run leaves both handlers as busy as they were, or starts or stops one of them and moves its gauge by one. The theorems are `OutcomesAreSound` and `TelemetryHolds`.
- `StreamWindowsProofs`. A crash puts the saved ledger in place of the running one, so `LedgerInv` says the same of both: each record up to the offset is in one output,
  and ids that were counted are remembered or expired (`CountsHold`). `OracleJudges` compares the job with a recursive function of the replay. An induction over
  data is out of reach of the provers, but the job walks through the replay itself, and its offset can carry the induction: at every offset there is a function that
  solves the oracle's recursion so far (`Solves`), and whatever solves it has noted every id the job remembers, has a newest time no older than the job's, and has
  accepted nothing the job has not counted (`Judged`, of the running and of the saved ledger). At the end of the replay `Oracle` is such a function. The step needs two facts: a record that is late for
  the job, window and lateness included, is later still for the oracle (`RejectedByBoth`), and what the oracle skips is no newer than what it accepted (`Ordered`). The second holds only
  because copies of an event carry one time; TLC shows that with two times under one id the oracle accepts records the job drops.
- `FeaturePublicationProofs`. `GateInv` says where data may come from: a run stages its own, and what it copies aside or promotes has passed the
  gates (`GatedDataOnly`). `WholeInv` says, for a run that is the only one to have entered its promotion, how far it has come, forwards and, after one failed call
  of the swap, backwards (`PromotionsAreWhole`). That runs which have not entered touch neither the published prefixes nor the row of another run is a lemma of its own.
- `AssistantProofs`, the budget. `BudgetInv` is `TypeOK`, that calls in flight are at most `MaxDelay` old,
  `CountersMatchGrants` and `WithinLimits`. The limit alone is not inductive: a pruned counter would
  restart from zero. What saves it is that a pruned row is two windows old, while a call in flight is at most
  one (`MaxDelay <= RateWindow <= QuotaWindow`), so no call counts in a pruned window (`LimitsHold`). From the same invariant, a
  refusal names a window that is full (`RefusalsHold`): its row still exists and equals the grants.
- `IcebergTableProofs`. `TableInv` is `Typed`, `Named` (ids hash the position), `Held` (what a client holds is
  what the snapshot it pinned holds) and `NoLostUpdate`. Positions make ids unique (`IdsUnique`); unique ids make
  reads by id stable (`TimeTravelHolds`) and the parent check meaningful (`NothingLost`). `DiffsAreDeltas` is a fact about `diff_snapshots` alone: with unique keys,
  a table is a function of its keys, and the three parts of a diff tell what becomes of each key.

- `AssistantProofs`, the request. `StreamInv` has one part per place the truth is kept: `RouteInv` ties the step of the route to what was decided, written and answered; `StatusInv` the status to the
  outcome; `FramesInv` each frame sent to the outcome, and says that a failure somebody still reads about has a terminal frame; `TurnInv` the turn to the frames read, and
  tells the turns that ended by a lost connection from those that ended with the route.
  No part is inductive alone: that a turn is complete only when the audit row says ALLOWED needs that a done frame is sent with that outcome, at the end of the route, and that a stream
  which ends without one did not fail. The steps fall into answers without a stream, ends of a stream and ends of a turn, each with one lemma over all its callers. From the invariant follow
  `StreamTypeCorrect`, `AuditedOnce` and `TurnsAreHonest`, for all timeouts and answers of any length.
- `LakehouseProofs`, the DAGs. `LakehouseTypeCorrect` first. `BronzeInv` adds to `EventsReachBronze` that a run at its batches has taken no message more often than the broker holds it, as many as it has events, and has
  stored those of the topics behind it (`TakenIsEnough`); that so many messages without a copy are all the events is a lemma about cardinalities (`BronzeIsComplete`).
  `BuildInv` says what an undisturbed build owns: it is alone (`Alone`), the tables behind its clearing are gone, those behind its writing are its own, and at its gate all are (`BuildsStayWhole`).
  `RecordsInv` adds that a run at its gate has read the tables behind it, that a run of the e2e DAG is never at a check task of the other two, and that a checkpoint follows its run (`RecordsAreRight`).
- `LakehouseProofs`, the tables. `RowsInv` types the rows, says which columns identify one, and that any of them have a newest. That a finite set of numbers
  has a maximum is an induction over data; that rows with a newest keep it when one more arrives is a step of the program, so the invariant carries it. `FactsOf` says which rows each program takes its facts from. What the two programs compute from such rows is compared
  operator by operator: of accepted rows Silver keeps the same (`SilverAgrees`), a fact has the columns of its contract, the scores and labels agree (`SameLabel`) except where
  `LabelsAgree` says, and so on up to `PipelinesDoAgree`. `NothingLooksAhead` follows the rows a label or a feature depends on, for each program by itself (`LabelsAreLocal`, `FeaturesAreLocal`). `HistoryAnswers` finds, for any snapshot, the last row that opened a version (`LastOpening`) and
  the row that closes it (`ValidTo`). A guard of `compute_distress_label` had to be written as the code has it, financial sector first: as overlapping cases the choice between them was not determined.

Left to TLC: all liveness (`EveryEventSettles`, `TasksEnd`, `RequestsEnd`, `RunsEnd`, `JobEnds`, `RequestEnds`), because it rests on fairness. Outside the theorems is also whatever the
models abstract from: the arithmetic of floating-point figures, texts, and the order of two rows with one timestamp.

## 7. Hazards

`PROJECT.json` lists the places where this code can go wrong in ways a unit test would hardly reach, each
at its line, with the properties that watch it. Five have no property that holds, because the code runs into them: a settled event put back after a lost reply
(`outbox-worker.ts:97`), records the stream job restarts on for ever (`price_event_job.py:61`), an answer that breaks off (`inference-stream.ts:151`), a request killed without an audit row
(`route.ts:209`), all four under section 5, and a second compaction over its own output (`lakehouse/compaction.py:104`): the first run of `dags/06_pyspark_silver_to_gold.py` leaves `_compacted` below the
scanned directory, the second lists its files as inputs, unlinks them and then fails to read them. It is a fault of one
sequential function, found by reading and not by a run. Some others have a note that says how far their property reaches.

Known and not in that list, because no model reaches them: `assistant-provider.tsx:138` writes back the history captured when `ask` was created;
`mlflow_registry.py:83` loads and saves its JSON file without a lock; the Feast stream jobs reset their checkpoint to offset 0 after an empty batch, and aggregate message
values they have not decoded.

## 8. How the project grew, and what could come next

The order was: the session write path and its abstract machine; the workers over it; publication, budget, stream and tables; then ingestion, agents, batch DAGs,
streaming and Gold tables; proofs after the runs of each module agreed.

What would add most from here:

1. The panel (`assistant-provider.tsx`) composed with `AssistantStream`, once the order of React's state updates is written down.
2. An abstract publication that `FeaturePublication` refines when runs do not overlap.
3. A Feast checkpoint model, when the stream jobs decode what they read.

## 9. Not modelled, and why

- Embedding registry: only tests call it; which swaps may overlap is not said anywhere.
- Assistant panel: React state whose order of updates is the framework's; what the transport tells it is modelled.
- CDC reconciliation: one comparison of two row sets, without state; its Flink job is a specification handed to a connector outside the repository, with a local adapter for tests.
- Compaction and local publication: a sequential function over a directory (section 7); `AtomicDirectoryPublisher` has no caller.
- Model registry, routing, labels for training, drift and leakage statistics: functions of data values, and MLflow's own state.
- Other transforms and Spark experiments (news and alert facts, calendars, layouts): values without order or failure of their own.
- Feast jobs: the stream jobs fail whenever a message arrives (section 7); materialization is one call of Feast.
- Collectors, generators, scripts, telemetry exporters, lineage and DataHub emitters: one-way I/O that nothing reads
  back. The scripts, most of the repository's lines, print and audit evidence once and keep no state.
- Web pages, sign-in, cookies, guards, row level security: rendering and access decisions, taken as
  preconditions.
- Other DAGs: one or a few tasks around collectors and statistics, with retries like those of `StageOne`.
- Contracts package: types, and decisions (`decideTransition`, `decideClaim`) that only tests call; the SQL functions the
  program runs are modelled in their place.

Left out of the modelled components: texts, headers, metrics other than the gauge and the failure counter, and logs; the translation of
denials into wording; `create_table` and the static registration of tables; readiness probes and the agent registry; window aggregates and the
continuous mode of the stream job; the contents of the DuckDB report; rolling features, daily returns and the calendar.
