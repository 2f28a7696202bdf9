-------------------------- MODULE IcebergTableProofs --------------------------
(***************************************************************************)
(* Snapshot names are unique, pinned reads are stable and guarded replaces *)
(* lose nothing, for every number of clients, fields, cells and commits.   *)
(*                                                                         *)
(* The inductive invariant TableInv says that a snapshot is named after its*)
(* contents and its position (Named), that a client's id is None or names a*)
(* snapshot, whose rows it holds once it has loaded them (Held), and that  *)
(* every guarded replace worked on the rows of its parent (NoLostUpdate).  *)
(***************************************************************************)
EXTENDS IcebergTable, TLAPS

RowLists == Seq(TableRows)
SnapshotIds == RowLists \X (SUBSET Fields) \X Nat
Ids == SnapshotIds \cup {None}
Snapshot == [id : SnapshotIds, parent : Ids, schema : SUBSET Fields, rows : RowLists]
Commit == [op : {"append", "replace"}, expected : Ids, view : RowLists]

Typed ==
  /\ schema \in SUBSET Fields
  /\ snapshots \in Seq(Snapshot)
  /\ commits \in Seq(Commit)
  /\ Len(commits) = Len(snapshots)
  /\ pc \in [Clients -> {"idle", "pinned", "ready"}]
  /\ expected \in [Clients -> Ids]
  /\ view \in [Clients -> RowLists]

Named ==
  \A n \in DOMAIN snapshots :
    snapshots[n].id = <<snapshots[n].rows, snapshots[n].schema, n>>

Held ==
  \A w \in Clients :
    expected[w] # None =>
      \E n \in DOMAIN snapshots :
        /\ snapshots[n].id = expected[w]
        /\ pc[w] = "ready" => snapshots[n].rows = view[w]

TableInv == Typed /\ Named /\ Held /\ NoLostUpdate
-----------------------------------------------------------------------------
\* A snapshot id is never None.
LEMMA IdIsNotNone ==
  ASSUME NEW a, NEW b, NEW c
  PROVE  <<a, b, c>> # None
BY DEF None

\* What callers hand in are rows.
LEMMA IncomingRows == Incoming \subseteq TableRows
<1> SUFFICES ASSUME NEW row \in Incoming PROVE row \in TableRows
  OBVIOUS
<1>1. PICK F \in SUBSET Fields : row \in [F \cup {"key"} -> Values]
  BY DEF Incoming
<1>2. F \cup {"key"} \in SUBSET Fields
  BY FieldAssumption
<1>3. row \in [F \cup {"key"} -> Cells]
  BY <1>1 DEF Cells
<1> QED
  BY <1>2, <1>3 DEF TableRows

\* Normalised rows are rows over exactly the current schema.
LEMMA NormalizedRows ==
  ASSUME schema \in SUBSET Fields, NEW rows \in RowLists
  PROVE  Normalized(rows) \in RowLists
<1>1. ASSUME NEW row \in TableRows PROVE _normalize_row(row) \in TableRows
  <2>1. PICK F \in SUBSET Fields : row \in [F -> Cells]
    BY <1>1 DEF TableRows
  <2>2. _normalize_row(row) \in [schema -> Cells]
    BY <2>1 DEF _normalize_row, Cells
  <2> QED
    BY <2>2 DEF TableRows
<1>2. \A i \in 1..Len(rows) : rows[i] \in TableRows
  BY DEF RowLists
<1> QED
  BY <1>1, <1>2 DEF Normalized, RowLists

\* Rewriting rows gives rows.
LEMMA RewrittenRows ==
  ASSUME NEW rows \in RowLists
  PROVE  Rewrites(rows) \subseteq RowLists
<1>1. ASSUME NEW i \in DOMAIN rows PROVE RemoveAt(rows, i) \in RowLists
  BY DEF RowLists, RemoveAt
<1>2. ASSUME NEW i \in DOMAIN rows, NEW row \in Incoming
      PROVE  ReplaceAt(rows, i, row) \in RowLists
  BY IncomingRows DEF RowLists, ReplaceAt
<1>3. ASSUME NEW row \in Incoming PROVE Append(rows, row) \in RowLists
  BY IncomingRows DEF RowLists
<1>4. ASSUME NEW new \in Rewrites(rows) PROVE new \in RowLists
  <2>1. \/ \E i \in DOMAIN rows : new = RemoveAt(rows, i)
        \/ \E i \in DOMAIN rows : \E row \in Incoming : new = ReplaceAt(rows, i, row)
        \/ \E row \in Incoming : new = Append(rows, row)
    BY <1>4 DEF Rewrites
  <2> QED
    BY <1>1, <1>2, <1>3, <2>1
<1> QED
  BY <1>4

\* The current id is None or names the newest snapshot.
LEMMA CurrentId ==
  ASSUME Typed
  PROVE  /\ current_snapshot_id \in Ids
         /\ snapshots # <<>> =>
              /\ Len(snapshots) \in DOMAIN snapshots
              /\ current_snapshot_id = snapshots[Len(snapshots)].id
<1>1. CASE snapshots = <<>>
  BY <1>1 DEF current_snapshot_id, Ids
<1>2. CASE snapshots # <<>>
  <2>1. Len(snapshots) \in DOMAIN snapshots
    BY <1>2 DEF Typed
  <2>2. snapshots[Len(snapshots)] \in Snapshot
    BY <2>1 DEF Typed
  <2>3. current_snapshot_id = snapshots[Len(snapshots)].id
    BY <1>2 DEF current_snapshot_id
  <2> QED
    BY <2>1, <2>2, <2>3 DEF Snapshot, Ids
<1> QED
  BY <1>1, <1>2

\* Reading the id of a snapshot gives the rows of that snapshot.
LEMMA ReadById ==
  ASSUME Typed, Named, NEW n \in DOMAIN snapshots
  PROVE  read(snapshots[n].id) = snapshots[n].rows
<1>1. snapshots # <<>> /\ snapshots[n].id # None
  <2>1. snapshots # <<>>
    BY DEF Typed
  <2>2. snapshots[n].id = <<snapshots[n].rows, snapshots[n].schema, n>>
    BY DEF Named
  <2> QED
    BY <2>1, <2>2, IdIsNotNone
<1> DEFINE First(k) == /\ snapshots[k].id = snapshots[n].id
                       /\ \A m \in 1..(k - 1) : snapshots[m].id # snapshots[n].id
<1>2. ASSUME NEW k \in DOMAIN snapshots, snapshots[k].id = snapshots[n].id PROVE k = n
  <2>1. /\ snapshots[n].id = <<snapshots[n].rows, snapshots[n].schema, n>>
        /\ snapshots[k].id = <<snapshots[k].rows, snapshots[k].schema, k>>
    BY DEF Named
  <2> QED
    BY <1>2, <2>1
<1>3. First(n)
  <2>1. \A m \in 1..(n - 1) : m \in DOMAIN snapshots /\ m # n
    BY DEF Typed
  <2> QED
    BY <1>2, <2>1
<1>4. (CHOOSE k \in DOMAIN snapshots : First(k)) = n
  BY <1>2, <1>3
<1> QED
  BY <1>1, <1>4 DEF read, Resolved

\* Every read gives rows.
LEMMA ReadRows ==
  ASSUME Typed, Named, NEW id \in Ids,
         id # None => \E n \in DOMAIN snapshots : snapshots[n].id = id
  PROVE  read(id) \in RowLists
<1>0. ASSUME NEW n \in DOMAIN snapshots PROVE snapshots[n].rows \in RowLists
  <2>1. snapshots[n] \in Snapshot
    BY DEF Typed
  <2> QED
    BY <2>1 DEF Snapshot
<1>1. CASE id = None
  <2>1. CASE snapshots = <<>>
    BY <2>1 DEF read, RowLists
  <2>2. CASE snapshots # <<>>
    <3>1. Len(snapshots) \in DOMAIN snapshots
      BY <2>2, CurrentId
    <3>2. read(id) = snapshots[Len(snapshots)].rows
      BY <1>1, <2>2 DEF read, Resolved
    <3> QED
      BY <1>0, <3>1, <3>2
  <2> QED
    BY <2>1, <2>2
<1>2. CASE id # None
  <2>1. PICK n \in DOMAIN snapshots : snapshots[n].id = id
    BY <1>2
  <2> QED
    BY <1>0, <2>1, ReadById
<1> QED
  BY <1>1, <1>2
-----------------------------------------------------------------------------
\* A commit, accepted or not, keeps the invariant.
LEMMA CommitKeepsInv ==
  ASSUME TableInv, NEW op \in {"append", "replace"}, NEW w \in Clients,
         NEW rows \in RowLists, _commit(op, w, rows, expected[w]),
         op = "replace" => pc[w] = "ready"
  PROVE  TableInv'
<1>0. Typed /\ Named /\ Held /\ NoLostUpdate
  BY DEF TableInv
<1>1. /\ pc' = [pc EXCEPT ![w] = "idle"]
      /\ expected' = [expected EXCEPT ![w] = None]
      /\ view' = [view EXCEPT ![w] = <<>>]
      /\ schema' = schema
  BY DEF _commit
<1>2. CASE UNCHANGED <<snapshots, commits>>
  <2>1. Typed'
    BY <1>0, <1>1, <1>2 DEF Typed, Ids, RowLists
  <2>2. Named' /\ NoLostUpdate'
    BY <1>0, <1>2 DEF Named, NoLostUpdate
  <2>3. Held'
    BY <1>0, <1>1, <1>2 DEF Held, Typed
  <2> QED
    BY <2>1, <2>2, <2>3 DEF TableInv
<1>3. CASE /\ Accepts(rows, expected[w])
           /\ snapshots' = Append(snapshots, NewSnapshot(rows))
           /\ commits' = Append(commits, [op |-> op, expected |-> expected[w], view |-> view[w]])
  <2> DEFINE new == NewSnapshot(rows)
             entry == [op |-> op, expected |-> expected[w], view |-> view[w]]
             last == Len(snapshots)
  <2>1. new \in Snapshot
    BY <1>0, NormalizedRows, CurrentId
       DEF Typed, NewSnapshot, Snapshot, SnapshotIds, _snapshot_id
  <2>2. entry \in Commit
    BY <1>0 DEF Typed, Commit
  <2>3. /\ last \in Nat /\ Len(commits) = last
        /\ DOMAIN snapshots = 1..last /\ DOMAIN commits = 1..last
        /\ Len(snapshots') = last + 1 /\ Len(commits') = last + 1
        /\ DOMAIN snapshots' = 1..(last + 1) /\ DOMAIN commits' = 1..(last + 1)
        /\ snapshots'[last + 1] = new /\ commits'[last + 1] = entry
        /\ \A n \in 1..last : snapshots'[n] = snapshots[n] /\ commits'[n] = commits[n]
    BY <1>0, <1>3, <2>1, <2>2 DEF Typed
  <2>4. Typed'
    <3>1. snapshots' \in Seq(Snapshot) /\ commits' \in Seq(Commit)
      BY <1>0, <1>3, <2>1, <2>2 DEF Typed
    <3> QED
      BY <1>0, <1>1, <2>3, <3>1 DEF Typed, Ids, RowLists
  <2>5. Named'
    <3>1. new.id = <<new.rows, new.schema, last + 1>>
      BY DEF NewSnapshot, _snapshot_id
    <3> QED
      BY <1>0, <2>3, <3>1 DEF Named
  <2>6. Held'
    BY <1>0, <1>1, <2>3 DEF Held, Typed
  <2>7. NoLostUpdate'
    <3> SUFFICES ASSUME NEW n \in 1..(last + 1),
                        commits'[n].op = "replace", commits'[n].expected # None
                 PROVE  n > 1 /\ commits'[n].view = snapshots'[n - 1].rows
      BY <2>3 DEF NoLostUpdate
    <3>1. CASE n \in 1..last
      <4>1. n > 1 /\ commits[n].view = snapshots[n - 1].rows
        BY <1>0, <2>3, <3>1 DEF NoLostUpdate
      <4> QED
        BY <2>3, <3>1, <4>1
    <3>2. CASE n = last + 1
      <4>1. op = "replace" /\ expected[w] # None
        BY <2>3, <3>2
      <4>2. PICK k \in 1..last : snapshots[k].id = expected[w] /\ snapshots[k].rows = view[w]
        BY <1>0, <2>3, <4>1 DEF Held
      <4>3. expected[w] = current_snapshot_id
        BY <1>3, <4>1 DEF Accepts
      <4>4. last \in 1..last /\ snapshots[last].id = snapshots[k].id
        BY <1>0, <2>3, <4>2, <4>3, CurrentId
      <4>5. k = last
        BY <1>0, <2>3, <4>4 DEF Named
      <4> QED
        BY <2>3, <3>2, <4>2, <4>5
    <3> QED
      BY <2>3, <3>1, <3>2
  <2> QED
    BY <2>4, <2>5, <2>6, <2>7 DEF TableInv
<1> QED
  BY <1>2, <1>3 DEF _commit

\* Every step keeps the invariant.
LEMMA StepKeepsInv == TableInv /\ [Next]_vars => TableInv'
<1> SUFFICES ASSUME TableInv, [Next]_vars PROVE TableInv'
  OBVIOUS
<1>0. Typed /\ Named /\ Held /\ NoLostUpdate
  BY DEF TableInv
<1>1. ASSUME NEW w \in Clients, Pin(w) PROVE TableInv'
  <2>1. Typed'
    BY <1>0, <1>1, CurrentId DEF Pin, Typed
  <2>2. Held'
    <3>1. CASE snapshots = <<>>
      BY <1>0, <1>1, <3>1 DEF Pin, Held, Typed, current_snapshot_id
    <3>2. CASE snapshots # <<>>
      BY <1>0, <1>1, <3>2, CurrentId DEF Pin, Held, Typed
    <3> QED
      BY <3>1, <3>2
  <2> QED
    BY <1>0, <1>1, <2>1, <2>2 DEF Pin, Named, NoLostUpdate, TableInv
<1>2. ASSUME NEW w \in Clients, Load(w) PROVE TableInv'
  <2>1. Typed'
    BY <1>0, <1>2, ReadRows DEF Load, Typed, Held
  <2>2. Held'
    BY <1>0, <1>2, ReadById DEF Load, Held, Typed
  <2> QED
    BY <1>0, <1>2, <2>1, <2>2 DEF Load, Named, NoLostUpdate, TableInv
<1>3. ASSUME NEW w \in Clients, append(w) PROVE TableInv'
  <2>1. PICK row \in Incoming : _commit("append", w, Append(read(None), row), expected[w])
    BY <1>3 DEF append
  <2>2. Append(read(None), row) \in RowLists
    BY <1>0, ReadRows, IncomingRows DEF Ids, RowLists
  <2> QED
    BY <2>1, <2>2, CommitKeepsInv
<1>4. ASSUME NEW w \in Clients, replace(w) PROVE TableInv'
  <2>1. PICK rows \in Rewrites(view[w]) : _commit("replace", w, rows, expected[w])
    BY <1>4 DEF replace
  <2>2. rows \in RowLists /\ pc[w] = "ready"
    BY <1>0, <1>4, RewrittenRows DEF Typed, replace
  <2> QED
    BY <2>1, <2>2, CommitKeepsInv
<1>5. CASE evolve_schema
  BY <1>0, <1>5 DEF evolve_schema, clientVars, Typed, Named, Held, NoLostUpdate, TableInv
<1>6. CASE UNCHANGED vars
  BY <1>0, <1>6 DEF vars, Typed, Named, Held, NoLostUpdate, TableInv
<1> QED
  BY <1>1, <1>2, <1>3, <1>4, <1>5, <1>6 DEF Next

\* The inductive invariant holds in every reachable state of the table.
THEOREM TableInvariant == Spec => []TableInv
<1>1. Init => TableInv
  BY FieldAssumption DEF Init, TableInv, Typed, Named, Held, NoLostUpdate, Ids, RowLists
<1> QED
  BY <1>1, StepKeepsInv, PTL DEF Spec

\* No two snapshots share an id, whatever contents the table returns to
\* (_snapshot_id).
THEOREM IdsUnique == Spec => []SnapshotIdsUnique
<1>1. TableInv => SnapshotIdsUnique
  BY DEF TableInv, Named, SnapshotIdsUnique
<1> QED
  BY <1>1, TableInvariant, PTL

\* What a client read of a snapshot stays true of it (read, Snapshot).
THEOREM ReadsStable == Spec => []PinnedReadsStable
<1>1. TableInv => PinnedReadsStable
  BY DEF TableInv, Held, PinnedReadsStable
<1> QED
  BY <1>1, TableInvariant, PTL

\* Time travel by name: unique names and stable reads together (_snapshot_id, read).
THEOREM TimeTravelHolds == Spec => []TimeTravel
<1>1. TableInv => TimeTravel
  BY DEF TableInv, Named, Held, SnapshotIdsUnique, PinnedReadsStable, TimeTravel
<1> QED
  BY <1>1, TableInvariant, PTL

\* A guarded replace loses no concurrent commit (_commit, replace).
THEOREM NothingLost == Spec => []NoLostUpdate
<1>1. TableInv => NoLostUpdate
  BY DEF TableInv
<1> QED
  BY <1>1, TableInvariant, PTL
-----------------------------------------------------------------------------
(* Diffs.                                                                  *)

\* With unique business keys, ByKey is the table itself.
LEMMA ByKeyIsTable ==
  ASSUME NEW rows \in RowLists, UniqueKeys(rows)
  PROVE  /\ DOMAIN ByKey(rows) = {row["key"] : row \in Rows(rows)}
         /\ \A row \in Rows(rows) : ByKey(rows)[row["key"]] = row
<1>1. DOMAIN rows = 1 .. Len(rows) /\ Len(rows) \in Nat
  BY DEF RowLists
<1>2. ASSUME NEW i \in DOMAIN rows
      PROVE  ByKey(rows)[rows[i]["key"]] = rows[i]
  <2> DEFINE IsLast(x) == rows[x]["key"] = rows[i]["key"]
                          /\ \A j \in DOMAIN rows : j > x => rows[j]["key"] # rows[i]["key"]
  <2>1. IsLast(i)
    BY <1>1 DEF UniqueKeys
  <2>2. \A x \in DOMAIN rows : IsLast(x) => x = i
    BY DEF UniqueKeys
  <2>3. (CHOOSE x \in DOMAIN rows : IsLast(x)) = i
    BY <2>1, <2>2
  <2>4. rows[i]["key"] \in {row["key"] : row \in Rows(rows)}
    BY DEF Rows
  <2> QED
    BY <2>3, <2>4 DEF ByKey
<1>3. DOMAIN ByKey(rows) = {row["key"] : row \in Rows(rows)}
  BY DEF ByKey
<1>4. ASSUME NEW row \in Rows(rows) PROVE ByKey(rows)[row["key"]] = row
  <2>1. PICK i \in DOMAIN rows : row = rows[i]
    BY <1>4 DEF Rows
  <2> QED
    BY <1>2, <2>1
<1> QED
  BY <1>3, <1>4

\* Replaying the diff of two tables on the first gives the second.
LEMMA DiffReplays ==
  ASSUME NEW from \in RowLists, NEW to \in RowLists, UniqueKeys(from), UniqueKeys(to)
  PROVE  Replay(Rows(from), diff_snapshots(from, to)) = Rows(to)
<1> DEFINE before == ByKey(from)
           after == ByKey(to)
           both == DOMAIN before \cap DOMAIN after
           added == {after[k] : k \in DOMAIN after \ DOMAIN before}
           removed == {before[k] : k \in DOMAIN before \ DOMAIN after}
           updated == {after[k] : k \in {b \in both : before[b] # after[b]}}
           touched == {row["key"] : row \in removed \cup updated}
           kept == {row \in Rows(from) : row["key"] \notin touched}
<1>1. /\ DOMAIN before = {row["key"] : row \in Rows(from)}
      /\ \A row \in Rows(from) : row["key"] \in DOMAIN before /\ before[row["key"]] = row
  BY ByKeyIsTable
<1>2. /\ DOMAIN after = {row["key"] : row \in Rows(to)}
      /\ \A row \in Rows(to) : row["key"] \in DOMAIN after /\ after[row["key"]] = row
  BY ByKeyIsTable
<1>3. Replay(Rows(from), diff_snapshots(from, to)) = kept \cup added \cup updated
  BY DEF Replay, diff_snapshots
<1>4. \A k \in DOMAIN before : before[k] \in Rows(from) /\ before[k]["key"] = k
  BY <1>1
<1>5. \A k \in DOMAIN after : after[k] \in Rows(to) /\ after[k]["key"] = k
  BY <1>2
<1> HIDE DEF before, after
<1>6. ASSUME NEW row \in Rows(from)
      PROVE  row \in kept <=> row \in Rows(to)
  <2> DEFINE k == row["key"]
  <2>1. k \in DOMAIN before /\ before[k] = row
    BY <1>1
  <2>2. CASE k \notin DOMAIN after
    <3>1. row \in removed
      BY <2>1, <2>2
    <3> QED
      BY <1>2, <2>2, <3>1
  <2>3. CASE k \in DOMAIN after /\ before[k] # after[k]
    <3>1. after[k] \in updated /\ after[k]["key"] = k
      BY <1>5, <2>1, <2>3
    <3> QED
      BY <1>2, <2>1, <2>3, <3>1
  <2>4. CASE k \in DOMAIN after /\ before[k] = after[k]
    <3>1. ASSUME NEW r \in removed PROVE r["key"] # k
      BY <1>4, <2>4, <3>1
    <3>2. ASSUME NEW r \in updated PROVE r["key"] # k
      BY <1>5, <2>4, <3>2
    <3> QED
      BY <1>5, <2>1, <2>4, <3>1, <3>2
  <2> QED
    BY <2>2, <2>3, <2>4
<1>7. added \subseteq Rows(to) /\ updated \subseteq Rows(to)
  BY <1>5
<1>8. ASSUME NEW row \in Rows(to), row \notin Rows(from)
      PROVE  row \in added \cup updated
  <2> DEFINE k == row["key"]
  <2>1. k \in DOMAIN after /\ after[k] = row
    BY <1>2
  <2>2. k \in DOMAIN before => before[k] # row
    BY <1>4, <1>8
  <2> QED
    BY <2>1, <2>2
<1> HIDE DEF added, updated, kept
<1>9. kept \subseteq Rows(to)
  BY <1>6 DEF kept
<1>10. Rows(to) \subseteq kept \cup added \cup updated
  BY <1>6, <1>8
<1> QED
  BY <1>3, <1>7, <1>9, <1>10

\* An incremental reader that replays a diff has the newer snapshot
\* (diff_snapshots).
THEOREM DiffsAreDeltas == Spec => []DiffIsDelta
<1>1. TableInv => DiffIsDelta
  <2>1. TableInv => \A n \in DOMAIN snapshots : snapshots[n].rows \in RowLists
    <3> SUFFICES ASSUME TableInv, NEW n \in DOMAIN snapshots
                 PROVE  snapshots[n].rows \in RowLists
      OBVIOUS
    <3>1. snapshots[n] \in Snapshot
      BY DEF TableInv, Typed
    <3> QED
      BY <3>1 DEF Snapshot
  <2> QED
    BY <2>1, DiffReplays DEF DiffIsDelta
<1> QED
  BY <1>1, TableInvariant, PTL
=============================================================================
