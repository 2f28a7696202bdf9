---------------------------- MODULE RagIngestion ----------------------------
(***************************************************************************)
(* The phase2_rag_ingest pipeline: Airflow tasks run the five steps of     *)
(* RagIngestionPipeline (fetch, deduplicate, govern, register, embed and   *)
(* insert) against the rag_document, rag_chunk and rag_quarantine tables.  *)
(*                                                                         *)
(* A chunk is its content hash.  Every query the others can see is a step, *)
(* so tasks overlap (the DAG sets no max_active_runs).  The rows of a task *)
(* are inserted in one transaction: a row another open transaction has     *)
(* inserted under the same key blocks it, and PostgreSQL breaks a circle   *)
(* of such waits by failing a member.  Any call may raise and any process  *)
(* may be killed; Airflow starts the whole task again, Retries times.      *)
(***************************************************************************)
EXTENDS Naturals, Sequences, FiniteSets

CONSTANTS
  Tasks,      \* task instances of the DAG
  Sources,    \* entries of rag-sources.yaml
  Documents,  \* document hashes (hashes of the raw bytes)
  Texts,      \* content hashes
  Versions,   \* embedding versions a task's backend may have
  Doc,        \* the document a source delivers
  Body,       \* the chunks of a document, in order
  Licensed,   \* sources whose license is in the allowlist
  Open,       \* sources whose access class is in the allowlist
  Private,    \* texts detect_pii finds something in
  None,       \* no row
  Retries,    \* "retries" of the DAG
  MaxFaults   \* bound: raised calls and killed processes

ASSUME RagAssumption ==
  /\ Doc \in [Sources -> Documents]
  /\ Body \in [Documents -> Seq(Texts) \ {<<>>}]
  /\ Licensed \subseteq Sources
  /\ Open \subseteq Sources
  /\ Private \subseteq Texts
  /\ None \notin Sources \cup Tasks
  /\ Retries \in Nat
  /\ MaxFaults \in Nat

VARIABLES
  source, version,  \* PHASE2_RAG_SOURCE and the backend's version of a task
  pc,               \* the step each task takes next
  todo,             \* the chunks the task's present loop has still to visit
  kept,             \* the chunks that loop has kept so far
  written,          \* rows of the task's open insert transaction
  tries,            \* retries used
  document,         \* rag_document: the source that registered each document
  chunk,            \* rag_chunk: the task behind the row of each key
  quarantine,       \* rag_quarantine: texts with a row
  late,             \* history: attempts begun after their work was all done
  faults            \* raised calls and killed processes so far

config == <<source, version>>
local == <<pc, todo, kept, written, tries>>
store == <<document, chunk, quarantine>>
vars == <<config, local, store, late, faults>>

\* What parse_and_chunk makes of the source's document.
Chunks(t) == Body[Doc[source[t]]]
TextsOf(t) == {Chunks(t)[i] : i \in DOMAIN Chunks(t)}
Key(t, x) == <<x, version[t]>>
Keys == Texts \X Versions

detect_pii(x) == x \in Private

\* The governance verdict on a chunk of task t.
Admissible(t, x) ==
  /\ source[t] \in Licensed
  /\ source[t] \in Open
  /\ ~detect_pii(x)

Goto(t, label) == pc' = [pc EXCEPT ![t] = label]
-----------------------------------------------------------------------------
Init ==
  /\ source \in [Tasks -> Sources]
  /\ version \in [Tasks -> Versions]
  /\ pc = [t \in Tasks |-> "fetch"]
  /\ todo = [t \in Tasks |-> <<>>]
  /\ kept = [t \in Tasks |-> <<>>]
  /\ written = [t \in Tasks |-> {}]
  /\ tries = [t \in Tasks |-> 0]
  /\ document = [d \in Documents |-> None]
  /\ chunk = [k \in Keys |-> None]
  /\ quarantine = {}
  /\ late = {}
  /\ faults = 0

\* Some task of the same source and version has already succeeded.
Settled(t) ==
  \E u \in Tasks : pc[u] = "done" /\ source[u] = source[t] /\ version[u] = version[t]

fetch_documents(t) ==
  /\ pc[t] = "fetch"
  /\ Goto(t, "deduplicate")
  /\ todo' = [todo EXCEPT ![t] = Chunks(t)]
  /\ late' = IF Settled(t) THEN late \cup {t} ELSE late
  /\ UNCHANGED <<config, kept, written, tries, store, faults>>

\* The loops visit the chunks in order and keep some; the last visit hands what was kept
\* to the next step.
Visit(t, keeps, after) ==
  LET left == IF keeps THEN Append(kept[t], Head(todo[t])) ELSE kept[t]
  IN IF Len(todo[t]) > 1
     THEN /\ todo' = [todo EXCEPT ![t] = Tail(@)]
          /\ kept' = [kept EXCEPT ![t] = left]
          /\ UNCHANGED pc
     ELSE /\ todo' = [todo EXCEPT ![t] = left]
          /\ kept' = [kept EXCEPT ![t] = <<>>]
          /\ Goto(t, after[left = <<>>])

\* Mutant: the store is asked about another embedding version.
ContentHashExistsAnyhow(t, x) == \E v \in Versions : chunk[<<x, v>>] # None

\* Mutant: the store is never asked.
ContentHashUnknown(t, x) == FALSE

content_hash_exists(t, x) == chunk[Key(t, x)] # None

\* One query per chunk, before the chunk has been judged.
deduplicate_chunks(t) ==
  /\ pc[t] = "deduplicate"
  /\ Visit(t, ~content_hash_exists(t, Head(todo[t])),
           [e \in BOOLEAN |-> IF e THEN "lineage" ELSE "govern"])
  /\ UNCHANGED <<config, written, tries, store, late, faults>>

\* Mutant: the license is looked at, the text is not.
LicenseOnly(t, x) == source[t] \in Licensed

enforce_chunk_governance(t, x) == Admissible(t, x)

\* insert_quarantine commits each row by itself.
enforce_licensing_and_metadata(t) ==
  /\ pc[t] = "govern"
  /\ LET x == Head(todo[t]) IN
     /\ Visit(t, enforce_chunk_governance(t, x),
              [e \in BOOLEAN |-> IF e THEN "lineage" ELSE "register"])
     /\ quarantine' = IF enforce_chunk_governance(t, x)
                      THEN quarantine ELSE quarantine \cup {x}
  /\ UNCHANGED <<config, written, tries, document, chunk, late, faults>>

\* write_vectors commits the document before it embeds: ON CONFLICT DO NOTHING.
upsert_document(t) ==
  /\ pc[t] = "register"
  /\ document' = [document EXCEPT ![Doc[source[t]]] = IF @ = None THEN source[t] ELSE @]
  /\ Goto(t, "embed")
  /\ UNCHANGED <<config, todo, kept, written, tries, chunk, quarantine, late, faults>>

embed(t) ==
  /\ pc[t] = "embed"
  /\ Goto(t, "insert")
  /\ UNCHANGED <<config, todo, kept, written, tries, store, late, faults>>

\* An open transaction of another task holds the key t wants next.
WaitsFor(t, u) ==
  /\ t # u
  /\ pc[t] = "insert"
  /\ todo[t] # <<>>
  /\ Key(t, Head(todo[t])) \in written[u]

\* Mutant: each row is committed by itself.
CommitsEachRow(t) ==
  /\ pc[t] = "insert"
  /\ todo[t] # <<>>
  /\ LET k == Key(t, Head(todo[t])) IN chunk' = [chunk EXCEPT ![k] = IF @ = None THEN t ELSE @]
  /\ todo' = [todo EXCEPT ![t] = Tail(@)]
  /\ UNCHANGED <<config, pc, kept, written, tries, document, quarantine, late, faults>>

\* INSERT ... ON CONFLICT (content_hash, embedding_version) DO NOTHING.
InsertChunk(t) ==
  /\ pc[t] = "insert"
  /\ todo[t] # <<>>
  /\ ~\E u \in Tasks : WaitsFor(t, u)
  /\ LET k == Key(t, Head(todo[t])) IN
     written' = [written EXCEPT ![t] = IF chunk[k] # None THEN @ ELSE @ \cup {k}]
  /\ todo' = [todo EXCEPT ![t] = Tail(@)]
  /\ UNCHANGED <<config, pc, kept, tries, store, late, faults>>

\* The commit at the end of insert_chunks.
insert_chunks(t) ==
  /\ pc[t] = "insert"
  /\ todo[t] = <<>>
  /\ chunk' = [k \in Keys |-> IF k \in written[t] THEN t ELSE chunk[k]]
  /\ written' = [written EXCEPT ![t] = {}]
  /\ Goto(t, "lineage")
  /\ UNCHANGED <<config, todo, kept, tries, document, quarantine, late, faults>>

\* run_ingestion_task audits and emits lineage once the connection is closed.
run_ingestion_task(t) ==
  /\ pc[t] = "lineage"
  /\ Goto(t, "done")
  /\ UNCHANGED <<config, todo, kept, written, tries, store, late, faults>>

\* Mutant: retries are not counted.
AttemptRestarts(t) ==
  /\ Goto(t, "fetch")
  /\ todo' = [todo EXCEPT ![t] = <<>>]
  /\ kept' = [kept EXCEPT ![t] = <<>>]
  /\ written' = [written EXCEPT ![t] = {}]
  /\ UNCHANGED <<config, tries, store, late>>

\* The connection closes without a commit and Airflow retries or gives up.
AttemptFails(t) ==
  /\ IF tries[t] < Retries
     THEN Goto(t, "fetch") /\ tries' = [tries EXCEPT ![t] = @ + 1]
     ELSE Goto(t, "failed") /\ UNCHANGED tries
  /\ todo' = [todo EXCEPT ![t] = <<>>]
  /\ kept' = [kept EXCEPT ![t] = <<>>]
  /\ written' = [written EXCEPT ![t] = {}]
  /\ UNCHANGED <<config, store, late>>

\* A query, the embedding call (after its five attempts) or the emission
\* raises, or the process is killed.
Fault(t) ==
  /\ pc[t] \notin {"done", "failed"}
  /\ faults < MaxFaults
  /\ faults' = faults + 1
  /\ AttemptFails(t)

\* t is on a circle of waits and PostgreSQL picks it as the victim.
DeadlockVictim(t) ==
  /\ \E S \in SUBSET Tasks :
       /\ t \in S
       /\ \A u \in S : \E v \in S : WaitsFor(u, v)
       /\ \A u \in S : \E v \in S : WaitsFor(v, u)
  /\ AttemptFails(t)
  /\ UNCHANGED faults

Step(t) ==
  \/ fetch_documents(t)
  \/ deduplicate_chunks(t)
  \/ enforce_licensing_and_metadata(t)
  \/ upsert_document(t)
  \/ embed(t)
  \/ InsertChunk(t)
  \/ insert_chunks(t)
  \/ run_ingestion_task(t)
  \/ DeadlockVictim(t)

AllEnded == \A t \in Tasks : pc[t] \in {"done", "failed"}

Next ==
  \/ \E t \in Tasks : Step(t) \/ Fault(t)
  \/ AllEnded /\ UNCHANGED vars

Spec == Init /\ [][Next]_vars

\* Airflow keeps a started task running and PostgreSQL detects deadlocks.
FairSpec == Spec /\ \A t \in Tasks : WF_vars(Step(t))
-----------------------------------------------------------------------------
\* The variables hold values of the right kinds: a loop never starts without chunks, and
\* only an insert transaction has written rows.
TypeOK ==
  /\ source \in [Tasks -> Sources]
  /\ version \in [Tasks -> Versions]
  /\ pc \in [Tasks -> {"fetch", "deduplicate", "govern", "register", "embed",
                       "insert", "lineage", "done", "failed"}]
  /\ todo \in [Tasks -> Seq(Texts)]
  /\ kept \in [Tasks -> Seq(Texts)]
  /\ \A t \in Tasks :
       /\ pc[t] \in {"deduplicate", "govern", "register", "embed"} => todo[t] # <<>>
       /\ pc[t] \notin {"deduplicate", "govern"} => kept[t] = <<>>
       /\ pc[t] # "insert" => written[t] = {}
  /\ written \in [Tasks -> SUBSET Keys]
  /\ tries \in [Tasks -> 0..Retries]
  /\ document \in [Documents -> Sources \cup {None}]
  /\ chunk \in [Keys -> Tasks \cup {None}]
  /\ quarantine \subseteq Texts
  /\ late \subseteq Tasks
  /\ faults \in 0..MaxFaults

\* What retrieval can return was allowed in: every rag_chunk row comes from a
\* source whose license and access class are in the allowlists, its text has
\* no personal data, and its document is registered by such a source too,
\* although two sources may deliver the same bytes and share texts.
GovernedStore ==
  \A k \in Keys : chunk[k] # None =>
    LET s == source[chunk[k]] IN
    /\ s \in Licensed \cap Open
    /\ k[1] \notin Private
    /\ document[Doc[s]] \in Licensed \cap Open

\* A task that succeeded left nothing out: every chunk of its source is stored
\* under its embedding version, by whichever task, or was refused and has a
\* quarantine row, although the check for existing chunks, the insertion and
\* the commits of other tasks interleave and fail.
SuccessIsComplete ==
  \A t \in Tasks : pc[t] = "done" =>
    \A x \in TextsOf(t) :
      \/ chunk[Key(t, x)] # None
      \/ ~Admissible(t, x) /\ x \in quarantine

\* A rerun of what already succeeded embeds and writes nothing: an attempt
\* that began after a task of the same source and version had succeeded never
\* gets as far as registering a document.
RerunWritesNothing ==
  \A t \in late : pc[t] \notin {"register", "embed", "insert"}

\* No key is in two open transactions, nor in one while it is stored: the
\* unique index is what keeps overlapping tasks apart after the unlocked check.
OneWriterPerKey ==
  \A t \in Tasks : \A k \in written[t] :
    /\ chunk[k] = None
    /\ \A u \in Tasks \ {t} : k \notin written[u]

\* A row shows its source, not the task that wrote it; a task shows that it succeeded.
RowSource == [k \in Keys |-> IF chunk[k] = None THEN None ELSE source[chunk[k]]]
Reported == {<<source[t], version[t]>> : t \in {u \in Tasks : pc[u] = "done"}}

Store == INSTANCE ChunkStore WITH chunk <- RowSource, ingested <- Reported

\* Readers of the tables cannot tell loops, overlaps, retries and deadlocks from a store
\* that takes all missing admissible chunks of a source in one step, never replaces a row
\* and knows a source as ingested only when nothing is missing.
ImplementsChunkStore == Store!Spec

\* Every task ends, although transactions wait for one another.
TasksEnd == <>AllEnded
=============================================================================
