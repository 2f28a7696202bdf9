------------------------------ MODULE StageOne ------------------------------
(***************************************************************************)
(* The batch lakehouse: the DAGs ingest_source_to_bronze,                  *)
(* build_silver_gold and stage1_real_e2e_pipeline over one broker, one     *)
(* Bronze zone, one set of Silver and Gold prefixes and one metadata       *)
(* database.                                                               *)
(*                                                                         *)
(* A DAG run is a process; pc is the next step of its present task, a      *)
(* step being what the others can see at once.  The prefixes are shared    *)
(* and no DAG sets max_active_runs, so builds may overlap.  The batch      *)
(* datasets never vary: only the names they are stored under are kept.     *)
(* Stream events are kept with their number of copies: the producer        *)
(* retries without idempotence and ignores the futures of send, the        *)
(* consumer never commits an offset, and its batches have new names at     *)
(* each attempt.                                                           *)
(***************************************************************************)
EXTENDS Naturals, FiniteSets

CONSTANTS
  Runs,        \* DAG runs
  Events,      \* stream events of a run
  Topics,      \* Kafka topics, each the source of one Gold table
  TopicOf,     \* the topic of an event
  Deduplicated,\* topics whose table keeps one row per event
  Retries,     \* "retries" of each DAG
  None,        \* no table, no checkpoint
  MaxCopies,   \* bound: copies of a message on the broker
  MaxFaults    \* bound: raised calls and killed processes

Kinds == {"ingest", "build", "e2e"}

\* The Bronze batch datasets a build reads, and those the batch task of a DAG writes:
\* ingest_source_to_bronze stores the prices under another name.
BatchInputs == {"companies", "financial_statements", "market_prices_daily"}
DatasetsOf(k) ==
  {"companies", "financial_statements",
   IF k = "ingest" THEN "market_prices" ELSE "market_prices_daily"}

\* A Gold table: the run that built it and its rows of each event.
Contents == [by : Runs, rows : [Events -> Nat]]

ASSUME StageOneAssumption ==
  /\ IsFiniteSet(Runs) /\ IsFiniteSet(Events)
  /\ TopicOf \in [Events -> Topics]
  /\ Deduplicated \subseteq Topics
  /\ Retries \in [Kinds -> Nat]
  /\ None \notin Runs \cup Contents
  /\ MaxCopies \in Nat
  /\ MaxFaults \in Nat

VARIABLES
  kind,         \* the DAG of a run
  pc, tries, todo, got, seen,  \* of a run: next step, retries of its task, topics its
                               \* loop has left, records matched, tables the gate read
  batch,        \* the Bronze batch datasets that are there
  topic,        \* copies of each message of each run on the broker
  bronze,       \* copies of each record in the Bronze stream objects
  table,        \* the Gold tables: the build that wrote each, and its rows
  dq, runlog, checkpoint,      \* project_metadata: failed checks, runs, checkpoint
  overlapped,   \* history: a build began while another was unfinished or at its gate
  stored,       \* history: runs whose stream batches were all written
  rejected,     \* history: runs a critical check stopped
  faults

local == <<pc, tries, todo, got, seen>>
broker == <<topic, bronze>>
metadata == <<dq, runlog, checkpoint>>
history == <<overlapped, stored, rejected, faults>>
vars == <<kind, local, batch, broker, table, metadata, history>>

Expected == Cardinality(Events)
Total(f) == Cardinality({c \in Events \X (1 .. MaxCopies) : c[2] <= f[c[1]]})
Nothing == [e \in Events |-> 0]
Steps == {"resolve", "batch", "produce", "consume", "store", "clear", "write", "gate", "log",
          "checkpoint", "validate", "publish", "report", "done", "failed"}

\* The task chains, with the steps of a task one after the other.
After(r, step) ==
  CASE step = "resolve" -> IF kind[r] = "ingest" THEN "batch" ELSE "clear"
    [] step = "batch" -> "produce"
    [] step = "produce" -> "consume"
    [] step = "consume" -> "store"
    [] step = "store" -> IF kind[r] = "ingest" THEN "validate" ELSE "clear"
    [] step = "clear" -> "write"
    [] step = "write" -> IF kind[r] = "build" THEN "validate" ELSE "gate"
    [] step = "validate" -> "publish"
    [] step = "gate" -> "log"
    [] step = "log" -> "checkpoint"
    [] step = "checkpoint" -> "report"
    [] step \in {"publish", "report"} -> "done"

\* Producing and consuming are one task of the ingest DAG, two of the e2e DAG.
TaskStart(r, step) ==
  CASE step \in {"consume", "store"} -> IF kind[r] = "ingest" THEN "produce" ELSE "consume"
    [] step = "write" -> "clear"
    [] step = "checkpoint" -> "log"
    [] OTHER -> step

Advance(r) ==
  /\ pc' = [pc EXCEPT ![r] = After(r, @)]
  /\ tries' = [tries EXCEPT ![r] =
                 IF TaskStart(r, After(r, pc[r])) = TaskStart(r, pc[r]) THEN @ ELSE 0]

\* The steps that visit the topics one by one.
Loop(r) ==
  /\ todo' = [todo EXCEPT ![r] = Topics]
  /\ Advance(r)
Visit(r, t) ==
  IF todo[r] = {t} THEN Loop(r)
  ELSE todo' = [todo EXCEPT ![r] = @ \ {t}] /\ UNCHANGED <<pc, tries>>
-----------------------------------------------------------------------------
Init ==
  /\ kind \in [Runs -> Kinds]
  /\ pc = [r \in Runs |-> IF kind[r] = "e2e" THEN "batch" ELSE "resolve"]
  /\ tries = [r \in Runs |-> 0]
  /\ todo = [r \in Runs |-> Topics]
  /\ got = [r \in Runs |-> Nothing]
  /\ seen = [r \in Runs |-> [t \in Topics |-> None]]
  /\ batch \in {{}, BatchInputs}
  /\ topic = [r \in Runs |-> Nothing]
  /\ bronze = [r \in Runs |-> Nothing]
  /\ table = [t \in Topics |-> None]
  /\ dq = {} /\ runlog = {} /\ checkpoint = None
  /\ overlapped = FALSE /\ stored = {} /\ rejected = {} /\ faults = 0

\* Tasks that write nothing another task reads: resolve_run, validate_bronze and
\* validate_silver_gold over counts that are never zero here, publish_manifest.
run_check_task(r) ==
  /\ pc[r] \in {"resolve", "validate", "publish"}
  /\ Loop(r)
  /\ UNCHANGED <<kind, got, seen, batch, broker, table, metadata, history>>

ingest_batch_to_bronze(r) ==
  /\ pc[r] = "batch"
  /\ batch' = batch \cup DatasetsOf(kind[r])
  /\ Advance(r)
  /\ UNCHANGED <<kind, todo, got, seen, broker, table, metadata, history>>

\* Any number of copies of each event may reach the broker; the count returned
\* is that of the calls of send.
produce_events(r) ==
  /\ pc[r] = "produce"
  /\ \E sent \in [Events -> 0 .. MaxCopies] :
       /\ \A e \in Events : topic[r][e] + sent[e] <= MaxCopies
       /\ topic' = [topic EXCEPT ![r] = [e \in Events |-> @[e] + sent[e]]]
  /\ Advance(r)
  /\ UNCHANGED <<kind, todo, got, seen, batch, bronze, table, metadata, history>>

\* Mutant: every message of the topics is counted, whatever its run.
MatchesAnyRun(r, taken) ==
  /\ \A e \in Events : taken[e] <= topic[r][e]
  /\ \E q \in Runs \ {r} : Total(taken) + Total(topic[q]) >= Expected
  /\ Total(taken) <= Expected

\* The loop ends as soon as the matching records, copies included, are as many
\* as the events of the run.
Matches(r, taken) ==
  /\ \A e \in Events : taken[e] <= topic[r][e]
  /\ Total(taken) = Expected

consume_stage1_stream_events(r) ==
  /\ pc[r] = "consume"
  /\ \E taken \in [Events -> 0 .. MaxCopies] :
       /\ Matches(r, taken)
       /\ got' = [got EXCEPT ![r] = taken]
  /\ Loop(r)
  /\ UNCHANGED <<kind, seen, batch, broker, table, metadata, history>>

\* One object per partition, named by a new batch id.
write_bronze_batch(r) ==
  /\ pc[r] = "store"
  /\ \E t \in todo[r] :
       /\ bronze' = [bronze EXCEPT ![r] =
                       [e \in Events |-> @[e] + (IF TopicOf[e] = t THEN got[r][e] ELSE 0)]]
       /\ Visit(r, t)
       /\ stored' = IF todo[r] = {t} THEN stored \cup {r} ELSE stored
       /\ got' = IF todo[r] = {t} THEN [got EXCEPT ![r] = Nothing] ELSE got
  /\ UNCHANGED <<kind, seen, batch, topic, table, metadata, overlapped, rejected, faults>>
-----------------------------------------------------------------------------
Building(r) == pc[r] = "write" \/ (pc[r] = "clear" /\ todo[r] # Topics)

\* Mutant: what an earlier build left is overwritten table by table.
ClearNothing(t) == table

Cleared(t) == [table EXCEPT ![t] = None]

\* The prefixes go one by one, before Bronze has been looked at.
clear_output_prefixes(r) ==
  /\ pc[r] = "clear"
  /\ \E t \in todo[r] :
       /\ table' = Cleared(t)
       /\ Visit(r, t)
  /\ overlapped' = (overlapped \/ \E q \in Runs \ {r} : Building(q) \/ pc[q] = "gate")
  /\ UNCHANGED <<kind, got, seen, batch, broker, metadata, stored, rejected, faults>>

\* The records of an event in the objects of every run, one by one.
Copies(e) == UNION {{q} \X (1 .. bronze[q][e]) : q \in Runs}

\* The e2e DAG filters the stream by its run, build_silver_gold does not.
StreamRows(r, t) ==
  [e \in Events |->
     LET copies == IF kind[r] = "e2e" THEN bronze[r][e]
                   ELSE Cardinality(Copies(e))
     IN IF TopicOf[e] # t \/ copies = 0 THEN 0
        ELSE IF t \in Deduplicated THEN 1 ELSE copies]

\* An exception while the stream objects are read is taken for their absence.
write_table(r) ==
  /\ pc[r] = "write"
  /\ BatchInputs \subseteq batch
  /\ \E t \in todo[r], unread \in BOOLEAN :
       /\ unread => faults < MaxFaults
       /\ faults' = IF unread THEN faults + 1 ELSE faults
       /\ table' = [table EXCEPT ![t] =
                      [by |-> r, rows |-> IF unread THEN Nothing ELSE StreamRows(r, t)]]
       /\ Visit(r, t)
  /\ UNCHANGED <<kind, got, seen, batch, broker, metadata, overlapped, stored, rejected>>
-----------------------------------------------------------------------------
\* build_actual_dq_checks reads every table; one that is absent raises.
read_table(r) ==
  /\ pc[r] = "gate"
  /\ \E t \in todo[r] :
       /\ table[t] # None
       /\ seen' = [seen EXCEPT ![r][t] = table[t]]
       /\ todo' = [todo EXCEPT ![r] = @ \ {t}]
  /\ UNCHANGED <<kind, pc, tries, got, batch, broker, table, metadata, history>>

\* Mutant: only the tables the build deduplicates itself are checked.
UniqueWhereDeduplicated(content, t) ==
  t \in Deduplicated => \A e \in Events : content.rows[e] <= 1

check_unique(content, t) == \A e \in Events : content.rows[e] <= 1

Violated(r) == {t \in Topics : ~check_unique(seen[r][t], t)}

\* Every result is committed, the critical ones too.
log_dq_result(r) == dq \cup {<<r, t>> : t \in Violated(r)}

\* DQRunner.run raises after the last result.
run_dq_checks(r) ==
  /\ pc[r] = "gate"
  /\ todo[r] = {}
  /\ dq' = log_dq_result(r)
  /\ IF Violated(r) = {}
     THEN Loop(r) /\ UNCHANGED rejected
     ELSE /\ pc' = [pc EXCEPT ![r] = "failed"]
          /\ rejected' = rejected \cup {r}
          /\ UNCHANGED <<tries, todo>>
  /\ UNCHANGED <<kind, got, seen, batch, broker, table, runlog, checkpoint, overlapped, stored,
                 faults>>

\* Each _execute commits by itself: the run, then the checkpoint that names it.
_execute(r) ==
  IF pc[r] = "log" THEN runlog' = runlog \cup {r} /\ UNCHANGED checkpoint
  ELSE checkpoint' = r /\ UNCHANGED runlog

write_postgres_metadata(r) ==
  /\ pc[r] \in {"log", "checkpoint"}
  /\ _execute(r)
  /\ Advance(r)
  /\ UNCHANGED <<kind, todo, got, seen, batch, broker, table, dq, history>>

\* The last task reads the Gold tables through views, here at once: nobody reads what it
\* finds, and all that matters is that a table without files raises.
run_duckdb_validation(r) ==
  /\ pc[r] = "report"
  /\ \A t \in Topics : table[t] # None
  /\ Loop(r)
  /\ UNCHANGED <<kind, got, seen, batch, broker, table, metadata, history>>
-----------------------------------------------------------------------------
\* Mutant: a task is retried without end.
FailAgain(r) ==
  /\ pc' = [pc EXCEPT ![r] = TaskStart(r, @)]
  /\ tries' = tries

\* Airflow starts the task again, from its first step, Retries times.
TaskFails(r) ==
  IF tries[r] < Retries[kind[r]]
  THEN /\ pc' = [pc EXCEPT ![r] = TaskStart(r, @)]
       /\ tries' = [tries EXCEPT ![r] = @ + 1]
  ELSE pc' = [pc EXCEPT ![r] = "failed"] /\ UNCHANGED tries

Fail(r) ==
  /\ TaskFails(r)
  /\ todo' = [todo EXCEPT ![r] = Topics]
  /\ got' = [got EXCEPT ![r] = Nothing]
  /\ UNCHANGED <<kind, seen, batch, broker, metadata, overlapped, stored, rejected>>

\* What the code raises by itself: too few records (raised before the first write),
\* a batch dataset that is not where the build reads it, or a table the gate or the report
\* does not find.
Raise(r) ==
  /\ \/ pc[r] = "consume" /\ ~\E taken \in [Events -> 0 .. MaxCopies] : Matches(r, taken)
     \/ pc[r] = "write" /\ ~(BatchInputs \subseteq batch)
     \/ pc[r] \in {"gate", "report"} /\ \E t \in todo[r] : table[t] = None
  /\ Fail(r)
  /\ UNCHANGED <<table, faults>>

\* A call raises or the process dies; an interrupted overwrite leaves no table.
Fault(r) ==
  /\ pc[r] \notin {"done", "failed"}
  /\ faults < MaxFaults
  /\ faults' = faults + 1
  /\ \/ UNCHANGED table
     \/ pc[r] = "write" /\ \E t \in todo[r] : table' = Cleared(t)
  /\ Fail(r)

Step(r) ==
  \/ run_check_task(r)
  \/ ingest_batch_to_bronze(r)
  \/ produce_events(r)
  \/ consume_stage1_stream_events(r)
  \/ write_bronze_batch(r)
  \/ clear_output_prefixes(r)
  \/ write_table(r)
  \/ read_table(r)
  \/ run_dq_checks(r)
  \/ write_postgres_metadata(r)
  \/ run_duckdb_validation(r)
  \/ Raise(r)

Next == \E r \in Runs : Step(r) \/ Fault(r)
Spec == Init /\ [][Next]_vars
FairSpec == Spec /\ \A r \in Runs : WF_vars(Step(r))
-----------------------------------------------------------------------------
\* The values the variables may have, and what the retries of a task are bounded by.
TypeOK ==
  /\ kind \in [Runs -> Kinds]
  /\ pc \in [Runs -> Steps]
  /\ tries \in [Runs -> Nat] /\ \A r \in Runs : tries[r] <= Retries[kind[r]]
  /\ todo \in [Runs -> SUBSET Topics]
  /\ got \in [Runs -> [Events -> Nat]]
  /\ seen \in [Runs -> [Topics -> Contents \cup {None}]]
  /\ batch \subseteq UNION {DatasetsOf(k) : k \in Kinds}
  /\ topic \in [Runs -> [Events -> 0 .. MaxCopies]]
  /\ bronze \in [Runs -> [Events -> Nat]]
  /\ table \in [Topics -> Contents \cup {None}]
  /\ dq \subseteq Runs \X Topics /\ runlog \subseteq Runs
  /\ checkpoint \in Runs \cup {None}
  /\ overlapped \in BOOLEAN /\ stored \subseteq Runs /\ rejected \subseteq Runs
  /\ faults \in 0 .. MaxFaults

\* A run whose batches were all written has every event in Bronze, whatever failed and
\* was retried, as long as the broker holds no message of it twice: the consumer
\* counts copies, so only a copy can take the place of an event.
LossNeedsACopy ==
  \A r \in stored :
    (\A e \in Events : topic[r][e] <= 1) => \A e \in Events : bronze[r][e] > 0

\* The consumer raises before it writes: a run with fewer messages on the broker than
\* events has put nothing in Bronze.
ShortfallWritesNothing ==
  \A r \in Runs : Total(topic[r]) < Expected => bronze[r] = Nothing

\* Whatever fails, is retried or delivered twice, a run's events reach Bronze together
\* or not at all, but for those a copy has displaced.
EventsReachBronze == LossNeedsACopy /\ ShortfallWritesNothing

\* Builds that do not overlap never leave tables of two builds side by side, not even
\* while one runs or after one has failed half way.
OneBuild ==
  ~overlapped =>
    \A t, u \in Topics :
      table[t] # None /\ table[u] # None => table[t].by = table[u].by

\* What lies behind a run past its gate: every table read, no event twice in one, and
\* all of them of the run's own build unless builds overlapped.
GateCertifies ==
  \A r \in Runs :
    kind[r] = "e2e" /\ pc[r] \in {"log", "checkpoint", "report", "done"} =>
      \A t \in Topics :
        /\ seen[r][t] # None
        /\ \A e \in Events : seen[r][t].rows[e] <= 1
        /\ ~overlapped => seen[r][t].by = r

\* A run stopped by a critical check has the failed result in project_metadata.
RejectionIsRecorded == \A r \in rejected : \E t \in Topics : <<r, t>> \in dq

\* The collector checkpoint names a run that is in pipeline_run_log.
CheckpointIsLogged == checkpoint # None => checkpoint \in runlog

\* What the metadata say of a run is so: what passed the gate deserved to, what did not
\* has its failed result, and the checkpoint names a logged run.
RecordsAreTrue == GateCertifies /\ RejectionIsRecorded /\ CheckpointIsLogged

\* What may keep a run from its end: a fault, a message lost or doubled, another build.
Hindered(r) ==
  \/ faults > 0
  \/ kind[r] # "build" /\ \E e \in Events : topic[r][e] # 1
  \/ kind[r] # "ingest" /\ \E q \in Runs \ {r} : kind[q] # "ingest"

\* Every DAG run ends: done if nothing hinders it, except that a build whose prices only
\* ingest_source_to_bronze has written always fails, after all its retries.
RunsEnd ==
  <>(\A r \in Runs :
       LET fed == kind[r] = "build" => BatchInputs \subseteq batch
       IN \/ pc[r] = "done" /\ fed
          \/ pc[r] = "failed" /\ (Hindered(r) \/ ~fed))
-----------------------------------------------------------------------------
(* A statement of the repository that the code does not keep.              *)

\* "ingest_source_to_bronze ... build_silver_gold: three Bronze datasets" and "DP1
\* source->Bronze, DP2 Bronze->Silver/Gold": what an ingest run leaves is what a build reads.
IngestFeedsBuild ==
  (\E r \in Runs : kind[r] = "ingest" /\ pc[r] = "done") => BatchInputs \subseteq batch
=============================================================================
