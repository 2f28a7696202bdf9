---------------------------- MODULE IcebergTable ----------------------------
(***************************************************************************)
(* LocalIcebergTable: a table as a list of immutable snapshots, committed  *)
(* under a lock with an optimistic check of the parent, and its clients.   *)
(*                                                                         *)
(* A client that rewrites the table reads the current snapshot id, then    *)
(* that snapshot's rows, and passes the id to replace: three calls, between*)
(* which others commit and add columns.  A row is a function from its      *)
(* fields to cells.  The hash that names a snapshot is the tuple of what is*)
(* hashed.                                                                 *)
(***************************************************************************)
EXTENDS Naturals, Sequences, SequencesExt

CONSTANTS
  Clients,    \* threads that share the table
  Fields,     \* columns the table has or may get
  Values,     \* cells
  MaxCommits  \* bound: snapshots

ASSUME FieldAssumption == "key" \in Fields

VARIABLES
  snapshots,  \* _snapshots
  schema,     \* _schema: the fields rows may have
  pc,         \* a client's step: idle, pinned (knows an id) or ready (has rows)
  expected,   \* the snapshot id the client read
  view,       \* the rows the client read
  commits     \* history: how each snapshot came about

clientVars == <<pc, expected, view>>
vars == <<snapshots, schema, pc, expected, view, commits>>

None == <<>>  \* Python's None, as a snapshot id
Null == "null"

\* What callers hand in: any fields, among them the business key.
Incoming == UNION {[F \cup {"key"} -> Values] : F \in SUBSET Fields}
-----------------------------------------------------------------------------
\* Mutant: the sequence number is left out of the hash.
IdWithoutSequence(rows, fields, sequence) == <<rows, fields>>

_snapshot_id(rows, fields, sequence) == <<rows, fields, sequence>>

current_snapshot_id ==
  IF snapshots = <<>> THEN None ELSE snapshots[Len(snapshots)].id

\* _resolve_snapshot: the first snapshot with the id, and the newest for None.
Resolved(id) ==
  IF id = None THEN snapshots[Len(snapshots)]
  ELSE snapshots[CHOOSE n \in DOMAIN snapshots :
         /\ snapshots[n].id = id
         /\ \A m \in 1..(n - 1) : snapshots[m].id # id]

\* Mutant: the newest rows, whatever snapshot was asked for.
ReadNewest(id) ==
  IF snapshots = <<>> THEN <<>> ELSE snapshots[Len(snapshots)].rows

read(id) == IF snapshots = <<>> THEN <<>> ELSE Resolved(id).rows

\* Fields a row lacks become null.
_normalize_row(row) ==
  [f \in schema |-> IF f \in DOMAIN row THEN row[f] ELSE Null]

Normalized(rows) == [i \in DOMAIN rows |-> _normalize_row(rows[i])]

Rows(s) == {s[i] : i \in DOMAIN s}

\* Mutant: the parent is not compared.
AcceptsStale(rows, id) ==
  \A row \in Rows(rows) : DOMAIN row \subseteq schema

\* The checks of _commit: it raises, and nothing changes, for a stale parent or
\* a field outside the schema.
Accepts(rows, id) ==
  /\ id # None => id = current_snapshot_id
  /\ \A row \in Rows(rows) : DOMAIN row \subseteq schema

NewSnapshot(rows) ==
  [id |-> _snapshot_id(Normalized(rows), schema, Len(snapshots) + 1),
   parent |-> current_snapshot_id,
   schema |-> schema,
   rows |-> Normalized(rows)]

_commit(op, w, rows, id) ==
  /\ Len(snapshots) < MaxCommits
  /\ IF Accepts(rows, id)
       THEN /\ snapshots' = Append(snapshots, NewSnapshot(rows))
            /\ commits' = Append(commits, [op |-> op, expected |-> id, view |-> view[w]])
       ELSE UNCHANGED <<snapshots, commits>>
  /\ pc' = [pc EXCEPT ![w] = "idle"]
  /\ expected' = [expected EXCEPT ![w] = None]
  /\ view' = [view EXCEPT ![w] = <<>>]
  /\ UNCHANGED schema
-----------------------------------------------------------------------------
\* The client asks for current_snapshot_id.
Pin(w) ==
  /\ pc[w] = "idle"
  /\ pc' = [pc EXCEPT ![w] = "pinned"]
  /\ expected' = [expected EXCEPT ![w] = current_snapshot_id]
  /\ UNCHANGED <<snapshots, schema, view, commits>>

\* The client reads the rows of the id it has; None reads the newest.
Load(w) ==
  /\ pc[w] = "pinned"
  /\ pc' = [pc EXCEPT ![w] = "ready"]
  /\ view' = [view EXCEPT ![w] = read(expected[w])]
  /\ UNCHANGED <<snapshots, schema, expected, commits>>

\* append, with the id the client has or, from idle, without one.
append(w) ==
  /\ pc[w] \in {"idle", "pinned"}
  /\ \E row \in Incoming : _commit("append", w, Append(read(None), row), expected[w])

\* What a rewriting client makes of the rows it read: one dropped, one put in
\* place of another, one added.
Rewrites(rows) ==
  {RemoveAt(rows, i) : i \in DOMAIN rows}
    \cup (UNION {{ReplaceAt(rows, i, row) : row \in Incoming} : i \in DOMAIN rows})
    \cup {Append(rows, row) : row \in Incoming}

replace(w) ==
  /\ pc[w] = "ready"
  /\ \E rows \in Rewrites(view[w]) : _commit("replace", w, rows, expected[w])

evolve_schema ==
  \E f \in Fields \ schema :
    /\ schema' = schema \cup {f}
    /\ UNCHANGED <<snapshots, clientVars, commits>>

Init ==
  /\ snapshots = <<>>
  /\ schema = {"key"}
  /\ pc = [w \in Clients |-> "idle"]
  /\ expected = [w \in Clients |-> None]
  /\ view = [w \in Clients |-> <<>>]
  /\ commits = <<>>

Next ==
  \/ \E w \in Clients : Pin(w) \/ Load(w) \/ append(w) \/ replace(w)
  \/ evolve_schema

Spec == Init /\ [][Next]_vars
-----------------------------------------------------------------------------
\* diff_snapshots, by business key; a later row hides an earlier one.
ByKey(rows) ==
  [k \in {row["key"] : row \in Rows(rows)} |->
     LET last == CHOOSE i \in DOMAIN rows :
           /\ rows[i]["key"] = k
           /\ \A j \in DOMAIN rows : j > i => rows[j]["key"] # k
     IN rows[last]]

\* Mutant: a row counts as updated only if a cell changed that both have.
DiffOfShared(from, to) ==
  LET before == ByKey(from)
      after == ByKey(to)
      both == DOMAIN before \cap DOMAIN after
  IN [added |-> {after[k] : k \in DOMAIN after \ DOMAIN before},
      removed |-> {before[k] : k \in DOMAIN before \ DOMAIN after},
      updated |-> {after[k] : k \in {b \in both :
         \E f \in DOMAIN before[b] \cap DOMAIN after[b] : before[b][f] # after[b][f]}}]

diff_snapshots(from, to) ==
  LET before == ByKey(from)
      after == ByKey(to)
      both == DOMAIN before \cap DOMAIN after
  IN [added |-> {after[k] : k \in DOMAIN after \ DOMAIN before},
      removed |-> {before[k] : k \in DOMAIN before \ DOMAIN after},
      updated |-> {after[k] : k \in {b \in both : before[b] # after[b]}}]

\* Replaying a diff on the older rows.
Replay(from, diff) ==
  LET touched == {row["key"] : row \in diff.removed \cup diff.updated}
  IN {row \in from : row["key"] \notin touched} \cup diff.added \cup diff.updated

UniqueKeys(rows) == \A i, j \in DOMAIN rows : rows[i]["key"] = rows[j]["key"] => i = j
-----------------------------------------------------------------------------
Cells == Values \cup {Null}
TableRows == UNION {[F -> Cells] : F \in SUBSET Fields}

TypeOK ==
  /\ schema \subseteq Fields /\ "key" \in schema
  /\ Len(commits) = Len(snapshots)
  /\ \A n \in DOMAIN snapshots :
       /\ snapshots[n].schema \subseteq schema
       /\ snapshots[n].rows \in Seq([snapshots[n].schema -> Cells])
       /\ commits[n].op \in {"append", "replace"}
  /\ pc \in [Clients -> {"idle", "pinned", "ready"}]
  /\ \A w \in Clients :
       /\ view[w] \in Seq(TableRows)
       /\ pc[w] = "idle" => expected[w] = None
       /\ pc[w] # "ready" => view[w] = <<>>

\* Every snapshot keeps a name of its own, also when the table returns to
\* contents it had before (_snapshot_id hashes the sequence number).
SnapshotIdsUnique ==
  \A m, n \in DOMAIN snapshots : snapshots[m].id = snapshots[n].id => m = n

\* Time travel: what a client read of a snapshot is what that snapshot still
\* holds, through every later commit and schema change.
PinnedReadsStable ==
  \A w \in Clients :
    pc[w] = "ready" /\ expected[w] # None =>
      \E n \in DOMAIN snapshots :
        snapshots[n].id = expected[w] /\ snapshots[n].rows = view[w]

\* Time travel by name: a name means one snapshot, and that snapshot never changes.
TimeTravel == SnapshotIdsUnique /\ PinnedReadsStable

\* Optimistic commits: a replace that names its parent replaced exactly the
\* rows its client had read, so no concurrent commit is lost.
NoLostUpdate ==
  \A n \in DOMAIN commits :
    commits[n].op = "replace" /\ commits[n].expected # None =>
      n > 1 /\ commits[n].view = snapshots[n - 1].rows

\* An incremental reader that replays diff_snapshots on one snapshot gets the
\* other, if business keys are unique in both.
DiffIsDelta ==
  \A m, n \in DOMAIN snapshots :
    LET from == snapshots[m].rows
        to == snapshots[n].rows
    IN UniqueKeys(from) /\ UniqueKeys(to) =>
         Replay(Rows(from), diff_snapshots(from, to)) = Rows(to)
-----------------------------------------------------------------------------
(* A statement of the repository that the code does not keep.              *)

\* ConcurrentCommitError: "Raised when a caller commits against a stale parent
\* snapshot."  So whoever replaces the table has seen what it replaces.
StaleParentRefused ==
  \A n \in DOMAIN commits :
    commits[n].op = "replace" =>
      commits[n].view = IF n = 1 THEN <<>> ELSE snapshots[n - 1].rows
=============================================================================
