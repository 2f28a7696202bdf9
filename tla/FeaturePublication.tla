------------------------- MODULE FeaturePublication -------------------------
(***************************************************************************)
(* The DP3 pipeline: Airflow runs of build_offline_features stage feature  *)
(* datasets in MinIO, pass a validation gate and promote them over the     *)
(* published ones with promote_staged_prefixes.                            *)
(*                                                                         *)
(* A dataset prefix holds one object (data.parquet), so the content of a   *)
(* prefix is the run that wrote it.  Every MinIO call of the promotion is  *)
(* a step: runs overlap (the DAG sets no max_active_runs), calls raise and *)
(* task processes are killed.  An exception travels through the except and *)
(* finally blocks; a kill does not.  Airflow then starts the task again,   *)
(* Retries times.                                                          *)
(***************************************************************************)
EXTENDS Naturals, Sequences

CONSTANTS
  Runs,       \* run ids, one per logical date
  NDatasets,  \* length of dataset_prefixes
  Retries,    \* "retries" of the DAG
  MaxFaults   \* bound: raised calls and killed processes

ASSUME PublicationAssumption ==
  /\ NDatasets \in Nat \ {0}
  /\ Retries \in Nat
  /\ MaxFaults \in Nat
  /\ {"absent", "v0"} \cap Runs = {}

VARIABLES
  quality,   \* what build_evidence_payload gives a run: good, leaky or empty
  live,      \* the published prefixes
  staging,   \* _staging/<run_id>/ of each run
  rollback,  \* _rollback/<run_id>/ of each run
  pc,        \* the call each run makes next
  at,        \* the dataset its loop is at
  raised,    \* an exception is on its way out of promote_staged_prefixes
  tries,     \* retries used by the run's present task
  entered,   \* history: runs that began to touch the published prefixes
  faults     \* history: where faults hit, in order

vars == <<quality, live, staging, rollback, pc, at, raised, tries, entered, faults>>

Datasets == 1..NDatasets
Absent == "absent"
Previous == "v0"       \* the snapshot published before the first run
Everywhere(c) == [d \in Datasets |-> c]

Promoting == {"backup", "clear", "copy", "undoClear", "undoCopy", "cleanStaging", "cleanRollback"}

Goto(r, label) == pc' = [pc EXCEPT ![r] = label]
-----------------------------------------------------------------------------
Init ==
  /\ quality \in [Runs -> {"good", "leaky", "empty"}]
  /\ live = Everywhere(Previous)
  /\ staging = [r \in Runs |-> Everywhere(Absent)]
  /\ rollback = [r \in Runs |-> Everywhere(Absent)]
  /\ pc = [r \in Runs |-> "compute"]
  /\ at = [r \in Runs |-> 1]
  /\ raised = [r \in Runs |-> FALSE]
  /\ tries = [r \in Runs |-> 0]
  /\ entered = {}
  /\ faults = <<>>

\* The first call of the task a run is in.
TaskStart(r) == IF pc[r] \in Promoting THEN "promote" ELSE pc[r]

\* Mutant: retries are not counted.
TaskRestarts(r) ==
  /\ Goto(r, TaskStart(r))
  /\ at' = [at EXCEPT ![r] = 1]
  /\ raised' = [raised EXCEPT ![r] = FALSE]
  /\ UNCHANGED tries

\* Airflow sees the task fail: it starts it again or gives the run up.
TaskFails(r) ==
  /\ IF tries[r] < Retries
     THEN /\ Goto(r, TaskStart(r))
          /\ tries' = [tries EXCEPT ![r] = @ + 1]
     ELSE /\ Goto(r, "failed")
          /\ UNCHANGED tries
  /\ at' = [at EXCEPT ![r] = 1]
  /\ raised' = [raised EXCEPT ![r] = FALSE]

TaskSucceeds(r, next) ==
  /\ Goto(r, next)
  /\ tries' = [tries EXCEPT ![r] = 0]
  /\ UNCHANGED <<at, raised>>

\* The loop over dataset_prefixes: repeat from `again` or go on with `next`.
NextDataset(r, again, next) ==
  /\ Goto(r, IF at[r] < NDatasets THEN again ELSE next)
  /\ at' = [at EXCEPT ![r] = IF at[r] < NDatasets THEN @ + 1 ELSE 1]
  /\ UNCHANGED <<raised, tries>>

\* _copy_prefix: an empty source copies nothing and leaves the target alone.
_copy_prefix(target, d, content) ==
  IF content = Absent THEN target ELSE [target EXCEPT ![d] = content]

\* Mutant: the leakage check of the snapshot is skipped.
ComputeUnchecked(r) ==
  /\ pc[r] = "compute"
  /\ staging' = [staging EXCEPT ![r] = Everywhere(r)]
  /\ TaskSucceeds(r, "validate")
  /\ UNCHANGED <<quality, live, rollback, entered, faults>>

\* All datasets are staged; then validate_feature_snapshot raises on a leak.
compute_offline_features(r) ==
  /\ pc[r] = "compute"
  /\ staging' = [staging EXCEPT ![r] = Everywhere(r)]
  /\ IF quality[r] = "leaky" THEN TaskFails(r) ELSE TaskSucceeds(r, "validate")
  /\ UNCHANGED <<quality, live, rollback, entered, faults>>

validate_point_in_time_features(r) ==
  /\ pc[r] = "validate"
  /\ IF quality[r] = "empty" THEN TaskFails(r) ELSE TaskSucceeds(r, "promote")
  /\ UNCHANGED <<quality, live, staging, rollback, entered, faults>>

\* Mutant: promotion starts without looking for the staged datasets.
CheckNothing(r) ==
  /\ pc[r] = "promote"
  /\ Goto(r, "backup")
  /\ entered' = entered \cup {r}
  /\ UNCHANGED <<quality, live, staging, rollback, at, raised, tries, faults>>

\* "staged dataset is empty" is raised before the try block.
CheckStaged(r) ==
  /\ pc[r] = "promote"
  /\ \/ /\ Absent \in {staging[r][d] : d \in Datasets}
        /\ TaskFails(r)
        /\ UNCHANGED entered
     \/ /\ Absent \notin {staging[r][d] : d \in Datasets}
        /\ Goto(r, "backup")
        /\ entered' = entered \cup {r}
        /\ UNCHANGED <<at, raised, tries>>
  /\ UNCHANGED <<quality, live, staging, rollback, faults>>

Backup(r) ==
  /\ pc[r] = "backup"
  /\ rollback' = [rollback EXCEPT ![r] = _copy_prefix(@, at[r], live[at[r]])]
  /\ NextDataset(r, "backup", "clear")
  /\ UNCHANGED <<quality, live, staging, entered, faults>>

\* clear_minio_prefix of a published prefix, promoting or restoring.
ClearLive(r) ==
  /\ pc[r] \in {"clear", "undoClear"}
  /\ live' = [live EXCEPT ![at[r]] = Absent]
  /\ Goto(r, IF pc[r] = "clear" THEN "copy" ELSE "undoCopy")
  /\ UNCHANGED <<quality, staging, rollback, at, raised, tries, entered, faults>>

CopyStaged(r) ==
  /\ pc[r] = "copy"
  /\ live' = _copy_prefix(live, at[r], staging[r][at[r]])
  /\ NextDataset(r, "clear", "cleanStaging")
  /\ UNCHANGED <<quality, staging, rollback, entered, faults>>

Restore(r) ==
  /\ pc[r] = "undoCopy"
  /\ live' = _copy_prefix(live, at[r], rollback[r][at[r]])
  /\ NextDataset(r, "undoClear", "cleanStaging")
  /\ UNCHANGED <<quality, staging, rollback, entered, faults>>

\* The finally block.
CleanStaging(r) ==
  /\ pc[r] = "cleanStaging"
  /\ staging' = [staging EXCEPT ![r] = Everywhere(Absent)]
  /\ Goto(r, "cleanRollback")
  /\ UNCHANGED <<quality, live, rollback, at, raised, tries, entered, faults>>

CleanRollback(r) ==
  /\ pc[r] = "cleanRollback"
  /\ rollback' = [rollback EXCEPT ![r] = Everywhere(Absent)]
  /\ IF raised[r] THEN TaskFails(r) ELSE TaskSucceeds(r, "published")
  /\ UNCHANGED <<quality, live, staging, entered, faults>>

Fault(what) ==
  /\ Len(faults) < MaxFaults
  /\ faults' = Append(faults, what)

\* A MinIO call raises without effect: inside the try block the except block
\* takes over, inside except the finally block, elsewhere the task fails.
CallRaises(r) ==
  /\ pc[r] \in Promoting \cup {"compute", "promote"}
  /\ Fault(pc[r])
  /\ CASE pc[r] \in {"backup", "clear", "copy"} ->
            /\ Goto(r, "undoClear")
            /\ at' = [at EXCEPT ![r] = 1]
            /\ raised' = [raised EXCEPT ![r] = TRUE]
            /\ UNCHANGED tries
       [] pc[r] \in {"undoClear", "undoCopy"} ->
            /\ Goto(r, "cleanStaging")
            /\ UNCHANGED <<at, raised, tries>>
       [] OTHER -> TaskFails(r)
  /\ UNCHANGED <<quality, live, staging, rollback, entered>>

\* The task process is killed: no except, no finally.
Killed(r) ==
  /\ pc[r] \in Promoting \cup {"compute", "promote"}
  /\ Fault("killed")
  /\ TaskFails(r)
  /\ UNCHANGED <<quality, live, staging, rollback, entered>>

publish_manifest(r) ==
  \/ CheckStaged(r) \/ Backup(r) \/ ClearLive(r) \/ CopyStaged(r)
  \/ Restore(r) \/ CleanStaging(r) \/ CleanRollback(r)

Step(r) ==
  compute_offline_features(r) \/ validate_point_in_time_features(r) \/ publish_manifest(r)

Next == \E r \in Runs : Step(r) \/ CallRaises(r) \/ Killed(r)

Spec == Init /\ [][Next]_vars

\* Airflow keeps scheduling the tasks of a run.
FairSpec == Spec /\ \A r \in Runs : WF_vars(Step(r))
-----------------------------------------------------------------------------
Content == Runs \cup {Absent, Previous}

TypeOK ==
  /\ quality \in [Runs -> {"good", "leaky", "empty"}]
  /\ live \in [Datasets -> Content]
  /\ staging \in [Runs -> [Datasets -> Content]]
  /\ rollback \in [Runs -> [Datasets -> Content]]
  /\ pc \in [Runs -> Promoting \cup {"compute", "validate", "promote", "published", "failed"}]
  /\ at \in [Runs -> Datasets]
  /\ raised \in [Runs -> BOOLEAN]
  /\ tries \in [Runs -> 0..Retries]
  /\ entered \subseteq Runs
  /\ faults \in Seq(Promoting \cup {"compute", "promote", "killed"}) /\ Len(faults) <= MaxFaults

\* Whatever overlaps, fails or is retried, readers never see a dataset of a
\* run that the gates rejected (validate_feature_snapshot after staging,
\* validate_point_in_time_features before promotion).
OnlyGatedData == \A d \in Datasets : live[d] \in Runs => quality[live[d]] = "good"

\* A run that was the only one to promote and that reports success has
\* published every dataset, even when it was killed and started again.
SuccessIsWhole ==
  \A r \in Runs : pc[r] = "published" /\ entered = {r} => live = Everywhere(r)

\* One call that fails while the datasets are being swapped is undone: the
\* run fails and the previous snapshot is back, whole.
FailedSwapRestores ==
  \A r \in Runs :
    pc[r] = "failed" /\ entered = {r} /\ faults \in {<<"clear">>, <<"copy">>} =>
      live = Everywhere(Previous)

\* As long as one run promotes at a time, a promotion is all or nothing.
PromotionIsWhole == SuccessIsWhole /\ FailedSwapRestores

\* Every run ends, and a good one ends published unless something failed.
RunsEnd ==
  \A r \in Runs : <>[](\/ pc[r] = "published"
                       \/ pc[r] = "failed" /\ (quality[r] # "good" \/ faults # <<>>))
-----------------------------------------------------------------------------
(* Statements of the repository that the code does not keep.               *)

\* "restore the previous snapshot on failure": no published dataset is gone
\* once a run has failed.
PublishedDataSurvives ==
  \A r \in Runs : pc[r] = "failed" => \A d \in Datasets : live[d] # Absent

\* "atomically promotes all four staged prefixes": while nobody promotes, the
\* published datasets come from one run.
PromotedTogether ==
  (\A r \in Runs : pc[r] \notin Promoting) => \E c \in Content : live = Everywhere(c)

\* "retries transient failures": a good run survives one failed call.
TransientFailuresAreRetried ==
  \A r \in Runs : quality[r] = "good" ~> pc[r] = "published"
=============================================================================
