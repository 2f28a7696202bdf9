----------------------- MODULE FeaturePublicationProofs -----------------------
(***************************************************************************)
(* Readers see gated data only, and a promotion that runs alone is all or  *)
(* nothing, for any number of runs, datasets, retries and faults.          *)
(*                                                                         *)
(* GateInv says where data may come from: a run stages its own data, and   *)
(* what it copies aside or promotes has passed the gates.  WholeInv says,  *)
(* step by step, how far a promotion that runs alone has come, forwards    *)
(* and, after a first failed call, backwards.                              *)
(***************************************************************************)
EXTENDS FeaturePublication, TLAPS

Swapping == {"backup", "clear", "copy"}
Undoing == {"undoClear", "undoCopy"}

GateInv ==
  /\ TypeOK
  /\ OnlyGatedData
  /\ \A r \in Runs, d \in Datasets : staging[r][d] \in {Absent, r}
  /\ \A r \in Runs, d \in Datasets :
       rollback[r][d] \in Runs => quality[rollback[r][d]] = "good"
  /\ \A r \in Runs : pc[r] = "validate" => quality[r] # "leaky"
  /\ \A r \in Runs : pc[r] \in Promoting \cup {"promote", "published"} => quality[r] = "good"

\* The loop of the promotion of r is past dataset d.
Past(r, d) == d < at[r]

OneSwapFault == faults \in {<<"clear">>, <<"copy">>}

\* Where run r stands in publish_manifest, whatever other runs do.
Frame(r) ==
  /\ pc[r] \in Promoting \cup {"published"} => r \in entered
  /\ pc[r] \in Swapping => staging[r] = Everywhere(r) /\ ~raised[r]
  /\ pc[r] \in Undoing => raised[r]
  /\ pc[r] \in {"compute", "validate", "promote"} => at[r] = 1 /\ ~raised[r]
  /\ pc[r] = "cleanRollback" => staging[r] = Everywhere(Absent)
  /\ pc[r] \in {"compute", "validate"} => r \notin entered
  /\ raised[r] => faults # <<>>

\* What holds of a run that is the only one to have entered its promotion:
\* how far it has come, and, after one failed call of the swap, how far back.
Alone(r) ==
  /\ pc[r] \in {"promote", "failed"} => faults # <<>>
  /\ pc[r] \in {"clear", "copy"} => \A d \in Datasets : Past(r, d) => live[d] = r
  /\ pc[r] \in {"cleanStaging", "cleanRollback"} /\ ~raised[r] => live = Everywhere(r)
  /\ pc[r] = "published" => live = Everywhere(r)
  /\ pc[r] = "backup" /\ faults = <<>> =>
       /\ live = Everywhere(Previous)
       /\ \A d \in Datasets : Past(r, d) => rollback[r][d] = Previous
  /\ pc[r] \in {"clear", "copy"} /\ faults = <<>> => rollback[r] = Everywhere(Previous)
  /\ OneSwapFault =>
       /\ pc[r] \notin Swapping
       /\ pc[r] \in Undoing =>
            /\ rollback[r] = Everywhere(Previous)
            /\ \A d \in Datasets : Past(r, d) => live[d] = Previous
       /\ pc[r] \in {"cleanStaging", "cleanRollback"} => raised[r]
       /\ pc[r] \notin Undoing => live = Everywhere(Previous)
       /\ pc[r] = "promote" => staging[r] = Everywhere(Absent)

WholeInv ==
  /\ GateInv
  /\ \A r \in Runs : Frame(r)
  /\ entered = {} => live = Everywhere(Previous) /\ ~OneSwapFault
  /\ \A r \in Runs : entered = {r} => Alone(r)
-----------------------------------------------------------------------------
(* Faults and the frame.                                                   *)

Marks == Promoting \cup {"compute", "promote", "killed"}

\* A fault leaves a trace, and the only fault is the first.
LEMMA FaultsGrow ==
  ASSUME NEW what \in Marks, faults \in Seq(Marks), Fault(what)
  PROVE  /\ faults' \in Seq(Marks) /\ Len(faults') <= MaxFaults
         /\ faults' # <<>>
         /\ \A x : faults' = <<x>> => faults = <<>> /\ what = x
<1>1. faults' = Append(faults, what) /\ Len(faults) < MaxFaults /\ Len(faults) \in Nat
  BY DEF Fault
<1>2. faults' \in Seq(Marks) /\ Len(faults') = Len(faults) + 1
  BY <1>1
<1>3. Len(faults') <= MaxFaults
  BY <1>1, <1>2, PublicationAssumption
<1>4. ASSUME NEW x, faults' = <<x>> PROVE faults = <<>> /\ what = x
  <2>1. Len(faults) = 0
    BY <1>1, <1>2, <1>4
  <2>2. faults = <<>>
    BY <2>1
  <2>3. faults'[Len(faults')] = what /\ Len(faults') = 1
    BY <1>1, <1>2, <2>1
  <2> QED
    BY <1>4, <2>2, <2>3
<1>5. faults' # <<>>
  BY <1>1, <1>2
<1> QED
  BY <1>2, <1>3, <1>4, <1>5

\* There is a dataset, so a full prefix and an empty one differ.
LEMMA SomeDataset == 1 \in Datasets /\ \A c : Everywhere(c)[1] = c
BY PublicationAssumption DEF Datasets, Everywhere

\* Where a failed task goes on.
LEMMA WhenTaskFails ==
  ASSUME TypeOK, NEW r \in Runs, TaskFails(r)
  PROVE  /\ pc' = [pc EXCEPT ![r] = pc'[r]]
         /\ pc'[r] = "failed" \/ pc'[r] = (IF pc[r] \in Promoting THEN "promote" ELSE pc[r])
         /\ at' = [at EXCEPT ![r] = 1] /\ at' \in [Runs -> Datasets]
         /\ raised' = [raised EXCEPT ![r] = FALSE]
         /\ tries' \in [Runs -> 0..Retries]
<1>1. at' = [at EXCEPT ![r] = 1] /\ raised' = [raised EXCEPT ![r] = FALSE]
  BY DEF TaskFails
<1>2. 1 \in Datasets
  BY SomeDataset
<1>3. CASE tries[r] < Retries
  <2>1. tries' = [tries EXCEPT ![r] = tries[r] + 1] /\ tries[r] \in 0..Retries
    BY <1>3 DEF TaskFails, TypeOK
  <2>2. tries[r] + 1 \in 0..Retries
    BY <1>3, <2>1, PublicationAssumption
  <2> QED
    BY <1>1, <1>2, <1>3, <2>1, <2>2 DEF TaskFails, TaskStart, Goto, TypeOK
<1>4. CASE ~(tries[r] < Retries)
  BY <1>1, <1>2, <1>4 DEF TaskFails, Goto, TypeOK
<1> QED
  BY <1>3, <1>4

LEMMA WhenTaskSucceeds ==
  ASSUME TypeOK, NEW r \in Runs, NEW next, TaskSucceeds(r, next)
  PROVE  /\ pc' = [pc EXCEPT ![r] = next]
         /\ tries' \in [Runs -> 0..Retries]
         /\ UNCHANGED <<at, raised>>
BY PublicationAssumption DEF TaskSucceeds, Goto, TypeOK

-----------------------------------------------------------------------------
(* The gates.                                                              *)

LEMMA InitGate == Init => GateInv
BY PublicationAssumption DEF Init, GateInv, TypeOK, OnlyGatedData, Everywhere, Absent, Previous, Content,
   Datasets, Promoting

Labels == Promoting \cup {"compute", "validate", "promote", "published", "failed"}

\* A task that ends keeps the gates closed, whatever it has staged or cleaned before.
LEMMA TaskEndKeepsGate ==
  ASSUME GateInv, NEW r \in Runs, UNCHANGED <<quality, live>>,
         staging' = staging \/ staging' = [staging EXCEPT ![r] = Everywhere(r)],
         rollback' = rollback \/ rollback' = [rollback EXCEPT ![r] = Everywhere(Absent)],
         entered' = entered, faults' \in Seq(Marks), Len(faults') <= MaxFaults,
         pc' = [pc EXCEPT ![r] = pc'[r]], pc'[r] \in Labels,
         pc'[r] = "validate" => quality[r] # "leaky",
         pc'[r] \in Promoting \cup {"promote", "published"} => quality[r] = "good",
         at' \in [Runs -> Datasets], raised' \in [Runs -> BOOLEAN], tries' \in [Runs -> 0..Retries]
  PROVE  GateInv'
<1>1. Everywhere(r) \in [Datasets -> Content] /\ Everywhere(Absent) \in [Datasets -> Content]
  BY DEF Everywhere, Content
<1>2. /\ staging' \in [Runs -> [Datasets -> Content]]
      /\ \A q \in Runs, d \in Datasets : staging'[q][d] \in {Absent, q}
  <2>1. CASE staging' = staging
    BY <2>1 DEF GateInv, TypeOK
  <2>2. CASE staging' = [staging EXCEPT ![r] = Everywhere(r)]
    <3>1. \A q \in Runs : staging'[q] = IF q = r THEN Everywhere(r) ELSE staging[q]
      BY <2>2 DEF GateInv, TypeOK
    <3>2. \A d \in Datasets : Everywhere(r)[d] = r
      BY DEF Everywhere
    <3>3. staging' \in [Runs -> [Datasets -> Content]]
      BY <1>1, <2>2 DEF GateInv, TypeOK
    <3> QED
      BY <3>1, <3>2, <3>3 DEF GateInv
  <2> QED
    BY <2>1, <2>2
<1>3. /\ rollback' \in [Runs -> [Datasets -> Content]]
      /\ \A q \in Runs, d \in Datasets :
           rollback'[q][d] \in Runs => quality[rollback'[q][d]] = "good"
  <2>1. CASE rollback' = rollback
    BY <2>1 DEF GateInv, TypeOK
  <2>2. CASE rollback' = [rollback EXCEPT ![r] = Everywhere(Absent)]
    <3>1. \A q \in Runs : rollback'[q] = IF q = r THEN Everywhere(Absent) ELSE rollback[q]
      BY <2>2 DEF GateInv, TypeOK
    <3>2. \A d \in Datasets : Everywhere(Absent)[d] \notin Runs
      BY PublicationAssumption DEF Everywhere, Absent
    <3>3. rollback' \in [Runs -> [Datasets -> Content]]
      BY <1>1, <2>2 DEF GateInv, TypeOK
    <3> QED
      BY <3>1, <3>2, <3>3 DEF GateInv
  <2> QED
    BY <2>1, <2>2
<1>4. /\ pc' \in [Runs -> Labels]
      /\ \A q \in Runs : pc'[q] = IF q = r THEN pc'[r] ELSE pc[q]
  <2>1. pc \in [Runs -> Labels]
    BY DEF GateInv, TypeOK, Labels
  <2> QED
    BY <2>1
<1>5. TypeOK'
  BY <1>2, <1>3, <1>4 DEF GateInv, TypeOK, Marks, Labels
<1>6. /\ \A q \in Runs : pc'[q] = "validate" => quality[q] # "leaky"
      /\ \A q \in Runs : pc'[q] \in Promoting \cup {"promote", "published"} => quality[q] = "good"
  BY <1>4 DEF GateInv
<1> QED
  BY <1>2, <1>3, <1>5, <1>6 DEF GateInv, OnlyGatedData

\* A failed task is started again or given up, which opens no gate.
LEMMA FailedTaskKeepsGate ==
  ASSUME GateInv, NEW r \in Runs, TaskFails(r), UNCHANGED <<quality, live, entered>>,
         staging' = staging \/ staging' = [staging EXCEPT ![r] = Everywhere(r)],
         rollback' = rollback \/ rollback' = [rollback EXCEPT ![r] = Everywhere(Absent)],
         faults' \in Seq(Marks), Len(faults') <= MaxFaults
  PROVE  GateInv'
<1>1. /\ pc' = [pc EXCEPT ![r] = pc'[r]]
      /\ pc'[r] = "failed" \/ pc'[r] = (IF pc[r] \in Promoting THEN "promote" ELSE pc[r])
      /\ at' \in [Runs -> Datasets] /\ raised' = [raised EXCEPT ![r] = FALSE]
      /\ tries' \in [Runs -> 0..Retries]
  BY WhenTaskFails DEF GateInv
<1>2. raised' \in [Runs -> BOOLEAN]
  BY <1>1 DEF GateInv, TypeOK
<1>3. pc[r] \in Labels
  BY DEF GateInv, TypeOK, Labels
<1>4. /\ pc'[r] \in Labels
      /\ pc'[r] = "validate" => quality[r] # "leaky"
      /\ pc'[r] \in Promoting \cup {"promote", "published"} => quality[r] = "good"
  BY <1>1, <1>3 DEF GateInv, Labels, Promoting
<1> QED
  BY <1>1, <1>2, <1>4, TaskEndKeepsGate

LEMMA FinishedTaskKeepsGate ==
  ASSUME GateInv, NEW r \in Runs, NEW next \in {"validate", "promote", "published"},
         TaskSucceeds(r, next), UNCHANGED <<quality, live, entered, faults>>,
         staging' = staging \/ staging' = [staging EXCEPT ![r] = Everywhere(r)],
         rollback' = rollback \/ rollback' = [rollback EXCEPT ![r] = Everywhere(Absent)],
         next = "validate" => quality[r] # "leaky",
         next # "validate" => quality[r] = "good"
  PROVE  GateInv'
<1>1. /\ pc' = [pc EXCEPT ![r] = next] /\ tries' \in [Runs -> 0..Retries]
      /\ UNCHANGED <<at, raised>>
  BY WhenTaskSucceeds DEF GateInv
<1>2. pc' = [pc EXCEPT ![r] = pc'[r]] /\ pc'[r] = next
  BY <1>1 DEF GateInv, TypeOK
<1>3. /\ at' \in [Runs -> Datasets] /\ raised' \in [Runs -> BOOLEAN]
      /\ faults' \in Seq(Marks) /\ Len(faults') <= MaxFaults
  BY <1>1 DEF GateInv, TypeOK, Marks
<1>4. /\ pc'[r] \in Labels
      /\ pc'[r] = "validate" => quality[r] # "leaky"
      /\ pc'[r] \in Promoting \cup {"promote", "published"} => quality[r] = "good"
  BY <1>2 DEF Labels, Promoting
<1> QED
  BY <1>1, <1>2, <1>3, <1>4, TaskEndKeepsGate

LEMMA StepKeepsGate ==
  ASSUME GateInv, NEW r \in Runs, Step(r) \/ CallRaises(r) \/ Killed(r)
  PROVE  GateInv'
<1>0. /\ faults \in Seq(Marks) /\ Len(faults) <= MaxFaults
      /\ quality[r] \in {"good", "leaky", "empty"}
  BY DEF GateInv, TypeOK, Marks
<1>1. CASE compute_offline_features(r)
  <2>1. UNCHANGED <<quality, live, rollback, entered, faults>> /\ staging' = [staging EXCEPT ![r] = Everywhere(r)]
    BY <1>1 DEF compute_offline_features
  <2>2. CASE quality[r] = "leaky" /\ TaskFails(r)
    BY <1>0, <2>1, <2>2, FailedTaskKeepsGate
  <2>3. CASE quality[r] # "leaky" /\ TaskSucceeds(r, "validate")
    BY <2>1, <2>3, FinishedTaskKeepsGate
  <2> QED
    BY <1>1, <2>2, <2>3 DEF compute_offline_features
<1>2. CASE validate_point_in_time_features(r)
  <2>1. UNCHANGED <<quality, live, staging, rollback, entered, faults>> /\ quality[r] # "leaky"
    BY <1>2 DEF validate_point_in_time_features, GateInv
  <2>2. CASE TaskFails(r)
    BY <1>0, <2>1, <2>2, FailedTaskKeepsGate
  <2>3. CASE quality[r] # "empty" /\ TaskSucceeds(r, "promote")
    BY <1>0, <2>1, <2>3, FinishedTaskKeepsGate
  <2> QED
    BY <1>2, <2>2, <2>3 DEF validate_point_in_time_features
<1>3. CASE CheckStaged(r)
  <2>1. UNCHANGED <<quality, live, staging, rollback, faults>> /\ quality[r] = "good"
    BY <1>3 DEF CheckStaged, GateInv
  <2>2. CASE TaskFails(r) /\ UNCHANGED entered
    BY <1>0, <2>1, <2>2, FailedTaskKeepsGate
  <2>3. CASE Goto(r, "backup") /\ entered' = entered \cup {r} /\ UNCHANGED <<at, raised, tries>>
    BY <2>1, <2>3 DEF Goto, GateInv, TypeOK, OnlyGatedData, Promoting
  <2> QED
    BY <1>3, <2>2, <2>3 DEF CheckStaged
<1>9. CASE CleanRollback(r)
  <2>1. /\ UNCHANGED <<quality, live, staging, entered, faults>> /\ quality[r] = "good"
        /\ rollback' = [rollback EXCEPT ![r] = Everywhere(Absent)]
    BY <1>9 DEF CleanRollback, GateInv, Promoting
  <2>2. CASE TaskFails(r)
    BY <1>0, <2>1, <2>2, FailedTaskKeepsGate
  <2>3. CASE TaskSucceeds(r, "published")
    BY <2>1, <2>3, FinishedTaskKeepsGate
  <2> QED
    BY <1>9, <2>2, <2>3 DEF CleanRollback
<1>11. ASSUME TaskFails(r), UNCHANGED <<quality, live, staging, rollback, entered>>,
              NEW what \in Marks, Fault(what)
       PROVE  GateInv'
  <2>1. faults' \in Seq(Marks) /\ Len(faults') <= MaxFaults
    BY <1>0, <1>11, FaultsGrow
  <2> QED
    BY <1>11, <2>1, FailedTaskKeepsGate
<1>10. CASE CallRaises(r)
  <2>1. pc[r] \in Marks /\ Fault(pc[r]) /\ UNCHANGED <<quality, live, staging, rollback, entered>>
    BY <1>10 DEF CallRaises, Marks
  <2>2. faults' \in Seq(Marks) /\ Len(faults') <= MaxFaults
    BY <1>0, <2>1, FaultsGrow
  <2>3. CASE TaskFails(r)
    BY <1>11, <2>1, <2>3
  <2>4. CASE /\ pc[r] \in {"backup", "clear", "copy"} /\ Goto(r, "undoClear")
             /\ at' = [at EXCEPT ![r] = 1]
             /\ raised' = [raised EXCEPT ![r] = TRUE]
             /\ UNCHANGED tries
    BY <2>1, <2>2, <2>4, SomeDataset DEF Goto, GateInv, TypeOK, OnlyGatedData, Promoting, Marks
  <2>5. CASE /\ pc[r] \in {"undoClear", "undoCopy"} /\ Goto(r, "cleanStaging")
             /\ UNCHANGED <<at, raised, tries>>
    BY <2>1, <2>2, <2>5 DEF Goto, GateInv, TypeOK, OnlyGatedData, Promoting, Marks
  <2> QED
    BY <1>10, <2>3, <2>4, <2>5 DEF CallRaises
<1>12. CASE Killed(r)
  BY <1>11, <1>12 DEF Killed, Marks
<1> USE PublicationAssumption DEF GateInv, TypeOK, Goto, Content, Absent, Previous, Everywhere
<1>4. CASE Backup(r)
  BY <1>4 DEF Backup, _copy_prefix, NextDataset, OnlyGatedData, Datasets, Promoting
<1>5. CASE ClearLive(r)
  BY <1>5 DEF ClearLive, OnlyGatedData, Datasets, Promoting
<1>6. CASE CopyStaged(r)
  BY <1>6 DEF CopyStaged, _copy_prefix, NextDataset, OnlyGatedData, Datasets, Promoting
<1>7. CASE Restore(r)
  BY <1>7 DEF Restore, _copy_prefix, NextDataset, OnlyGatedData, Datasets, Promoting
<1>8. CASE CleanStaging(r)
  BY <1>8 DEF CleanStaging, OnlyGatedData, Datasets, Promoting
<1> QED
  BY <1>1, <1>2, <1>3, <1>4, <1>5, <1>6, <1>7, <1>8, <1>9, <1>10, <1>12 DEF Step, publish_manifest

LEMMA StutterKeepsGate == GateInv /\ UNCHANGED vars => GateInv'
BY DEF GateInv, vars, TypeOK, OnlyGatedData

\* The gate invariant holds in every reachable state.
THEOREM GateInvariant == Spec => []GateInv
<1>1. GateInv /\ [Next]_vars => GateInv'
  BY StepKeepsGate, StutterKeepsGate DEF Next
<1> QED
  BY <1>1, InitGate, PTL DEF Spec

\* Readers never see a dataset of a run the gates rejected (promote_staged_prefixes).
THEOREM GatedDataOnly == Spec => []OnlyGatedData
<1>1. GateInv => OnlyGatedData
  BY DEF GateInv
<1> QED
  BY <1>1, GateInvariant, PTL
-----------------------------------------------------------------------------
(* A promotion that runs alone is all or nothing.                          *)

LEMMA InitWhole == Init => WholeInv
<1>1. Init => GateInv
  BY InitGate
<1> QED
  BY <1>1 DEF Init, WholeInv, Frame, Promoting, Swapping, Undoing, OneSwapFault

\* A fault is recorded; if it is the only one, it is where it hit.
LEMMA RaisedCallLeavesTrace ==
  ASSUME TypeOK, NEW r \in Runs, CallRaises(r)
  PROVE  faults' # <<>> /\ \A x : faults' = <<x>> => faults = <<>> /\ pc[r] = x
<1>1. faults \in Seq(Marks)
  BY DEF TypeOK, Marks
<1>2. pc[r] \in Marks /\ Fault(pc[r])
  BY DEF CallRaises, Marks
<1> QED
  BY <1>1, <1>2, FaultsGrow

LEMMA KillLeavesTrace ==
  ASSUME TypeOK, NEW r \in Runs, Killed(r)
  PROVE  faults' # <<>> /\ \A x : faults' = <<x>> => x = "killed"
<1>1. faults \in Seq(Marks) /\ "killed" \in Marks
  BY DEF TypeOK, Marks
<1>2. Fault("killed")
  BY DEF Killed
<1> QED
  BY <1>1, <1>2, FaultsGrow

\* A step of r touches the row of r only, and enters r or nobody.
LEMMA StepIsLocal ==
  ASSUME TypeOK, NEW r \in Runs, Step(r) \/ CallRaises(r) \/ Killed(r)
  PROVE  /\ \A q \in Runs : q # r => /\ pc'[q] = pc[q] /\ at'[q] = at[q] /\ raised'[q] = raised[q]
                                     /\ staging'[q] = staging[q] /\ rollback'[q] = rollback[q]
         /\ entered' \in {entered, entered \cup {r}}
         /\ UNCHANGED faults \/ faults' # <<>>
<1>2. ASSUME CallRaises(r) \/ Killed(r) PROVE faults' # <<>>
  BY <1>2, RaisedCallLeavesTrace, KillLeavesTrace
<1>3. ASSUME Step(r) PROVE UNCHANGED faults
  BY <1>3 DEF Step, publish_manifest, compute_offline_features, validate_point_in_time_features,
     CheckStaged, Backup, ClearLive, CopyStaged, Restore, CleanStaging, CleanRollback
<1>4. ASSUME TaskFails(r) \/ (\E next \in {"validate", "promote", "published"} : TaskSucceeds(r, next))
      PROVE  \A q \in Runs : q # r => pc'[q] = pc[q] /\ at'[q] = at[q] /\ raised'[q] = raised[q]
  BY <1>4 DEF TypeOK, TaskFails, TaskSucceeds, Goto
<1>5. ASSUME NEW again, NEW next, NextDataset(r, again, next)
      PROVE  \A q \in Runs : q # r => pc'[q] = pc[q] /\ at'[q] = at[q] /\ raised'[q] = raised[q]
  BY <1>5 DEF TypeOK, NextDataset, Goto
<1>6. \A q \in Runs : q # r => pc'[q] = pc[q] /\ at'[q] = at[q] /\ raised'[q] = raised[q]
  <2>1. CASE compute_offline_features(r) \/ validate_point_in_time_features(r)
    BY <1>4, <2>1 DEF compute_offline_features, validate_point_in_time_features
  <2>2. CASE CheckStaged(r)
    BY <1>4, <2>2 DEF CheckStaged, Goto, TypeOK
  <2>3. CASE Backup(r) \/ CopyStaged(r) \/ Restore(r)
    BY <1>5, <2>3 DEF Backup, CopyStaged, Restore
  <2>4. CASE ClearLive(r) \/ CleanStaging(r)
    BY <2>4 DEF ClearLive, CleanStaging, Goto, TypeOK
  <2>5. CASE CleanRollback(r)
    BY <1>4, <2>5 DEF CleanRollback
  <2>6. CASE CallRaises(r)
    BY <1>4, <2>6 DEF CallRaises, Goto, TypeOK
  <2>7. CASE Killed(r)
    BY <1>4, <2>7 DEF Killed
  <2> QED
    BY <2>1, <2>2, <2>3, <2>4, <2>5, <2>6, <2>7 DEF Step, publish_manifest
<1>7. \A q \in Runs : q # r => staging'[q] = staging[q] /\ rollback'[q] = rollback[q]
  BY DEF TypeOK, Step, publish_manifest, compute_offline_features, validate_point_in_time_features,
     CheckStaged, Backup, ClearLive, CopyStaged, Restore, CleanStaging, CleanRollback, CallRaises, Killed
<1>8. entered' \in {entered, entered \cup {r}}
  <2>1. CASE CheckStaged(r)
    BY <2>1 DEF CheckStaged
  <2>2. ASSUME compute_offline_features(r) \/ validate_point_in_time_features(r) PROVE entered' = entered
    BY <2>2 DEF compute_offline_features, validate_point_in_time_features
  <2>3. ASSUME \/ Backup(r) \/ ClearLive(r) \/ CopyStaged(r) \/ Restore(r) \/ CleanStaging(r) \/ CleanRollback(r)
               \/ CallRaises(r) \/ Killed(r)
        PROVE  entered' = entered
    BY <2>3 DEF Backup, ClearLive, CopyStaged, Restore, CleanStaging, CleanRollback, CallRaises, Killed
  <2> QED
    BY <2>1, <2>2, <2>3 DEF Step, publish_manifest
<1> QED
  BY <1>2, <1>3, <1>6, <1>7, <1>8

\* Where run r stands after a step of its own.
LEMMA StepKeepsOwnFrame ==
  ASSUME GateInv, NEW r \in Runs, Frame(r), Step(r) \/ CallRaises(r) \/ Killed(r)
  PROVE  Frame(r)'
<1>0. TypeOK
  BY DEF GateInv
<1>1. /\ UNCHANGED faults \/ faults' # <<>>
      /\ entered' \in {entered, entered \cup {r}}
  BY <1>0, StepIsLocal
<1>2. ASSUME TaskFails(r), UNCHANGED entered
      PROVE  Frame(r)'
  <2>1. /\ pc'[r] = "failed" \/ pc'[r] = (IF pc[r] \in Promoting THEN "promote" ELSE pc[r])
        /\ at'[r] = 1 /\ ~raised'[r]
    BY <1>0, <1>2, WhenTaskFails DEF TypeOK
  <2> QED
    BY <1>1, <1>2, <2>1 DEF Frame, Promoting, Swapping, Undoing
<1>3. ASSUME NEW next \in {"validate", "promote", "published"}, TaskSucceeds(r, next), UNCHANGED entered,
             next # "published" => pc[r] \in {"compute", "validate"},
             next = "published" => pc[r] = "cleanRollback"
      PROVE  Frame(r)'
  <2>1. pc'[r] = next /\ at'[r] = at[r] /\ raised'[r] = raised[r]
    BY <1>0, <1>3, WhenTaskSucceeds DEF TypeOK
  <2> QED
    BY <1>1, <1>3, <2>1 DEF Frame, Promoting, Swapping, Undoing
<1>4. CASE compute_offline_features(r) \/ validate_point_in_time_features(r)
  BY <1>2, <1>3, <1>4 DEF compute_offline_features, validate_point_in_time_features
<1>5. CASE CheckStaged(r)
  <2>1. CASE TaskFails(r) /\ UNCHANGED entered
    BY <1>2, <2>1
  <2>2. CASE /\ Absent \notin {staging[r][d] : d \in Datasets} /\ Goto(r, "backup")
             /\ entered' = entered \cup {r} /\ UNCHANGED <<at, raised, tries>>
    <3>1. staging[r] = Everywhere(r)
      BY <2>2 DEF GateInv, TypeOK, Everywhere
    <3>2. pc'[r] = "backup" /\ UNCHANGED <<staging, faults>>
      BY <1>0, <1>5, <2>2 DEF CheckStaged, Goto, TypeOK
    <3> QED
      BY <1>5, <2>2, <3>1, <3>2 DEF CheckStaged, Frame, Promoting, Swapping, Undoing
  <2> QED
    BY <1>5, <2>1, <2>2 DEF CheckStaged
<1>6. ASSUME NEW again, NEW next, NextDataset(r, again, next), UNCHANGED <<staging, entered, faults>>,
             \/ pc[r] \in Swapping /\ again \in Swapping /\ next \in {"clear", "cleanStaging"}
             \/ pc[r] \in Undoing /\ again = "undoClear" /\ next = "cleanStaging"
      PROVE  Frame(r)'
  <2>1. pc'[r] \in {again, next} /\ raised' = raised
    BY <1>0, <1>6 DEF NextDataset, Goto, TypeOK
  <2> QED
    BY <1>6, <2>1 DEF Frame, Promoting, Swapping, Undoing
<1>7. CASE Backup(r) \/ CopyStaged(r) \/ Restore(r)
  <2>1. CASE Backup(r)
    BY <1>6, <2>1 DEF Backup, Swapping
  <2>2. CASE CopyStaged(r)
    BY <1>6, <2>2 DEF CopyStaged, Swapping
  <2>3. CASE Restore(r)
    BY <1>6, <2>3 DEF Restore, Undoing
  <2> QED
    BY <1>7, <2>1, <2>2, <2>3
<1>8. CASE ClearLive(r)
  <2>1. /\ pc'[r] = (IF pc[r] = "clear" THEN "copy" ELSE "undoCopy") /\ pc[r] \in {"clear", "undoClear"}
        /\ UNCHANGED <<staging, raised, entered, faults>>
    BY <1>0, <1>8 DEF ClearLive, Goto, TypeOK
  <2> QED
    BY <2>1 DEF Frame, Promoting, Swapping, Undoing
<1>9. CASE CleanStaging(r)
  <2>1. /\ pc[r] = "cleanStaging" /\ pc'[r] = "cleanRollback" /\ staging'[r] = Everywhere(Absent)
        /\ UNCHANGED <<raised, entered, faults>>
    BY <1>0, <1>9 DEF CleanStaging, Goto, TypeOK
  <2> QED
    BY <2>1 DEF Frame, Promoting, Swapping, Undoing
<1>10. CASE CleanRollback(r)
  BY <1>2, <1>3, <1>10 DEF CleanRollback
<1>11. CASE CallRaises(r)
  <2>1. UNCHANGED <<staging, entered>>
    BY <1>11 DEF CallRaises
  <2>2. faults' # <<>>
    BY <1>0, <1>11, RaisedCallLeavesTrace
  <2>3. CASE TaskFails(r)
    BY <1>2, <2>1, <2>3
  <2>4. CASE pc[r] \in Swapping /\ Goto(r, "undoClear") /\ raised' = [raised EXCEPT ![r] = TRUE]
    <3>1. pc'[r] = "undoClear" /\ raised'[r]
      BY <1>0, <2>4 DEF Goto, TypeOK
    <3> QED
      BY <2>1, <2>2, <2>4, <3>1 DEF Frame, Promoting, Swapping, Undoing
  <2>5. CASE pc[r] \in Undoing /\ Goto(r, "cleanStaging") /\ UNCHANGED <<at, raised, tries>>
    <3>1. pc'[r] = "cleanStaging"
      BY <1>0, <2>5 DEF Goto, TypeOK
    <3> QED
      BY <2>1, <2>2, <2>5, <3>1 DEF Frame, Promoting, Swapping, Undoing
  <2> QED
    BY <1>11, <2>3, <2>4, <2>5 DEF CallRaises, Swapping, Undoing
<1>12. CASE Killed(r)
  BY <1>2, <1>12 DEF Killed
<1> QED
  BY <1>4, <1>5, <1>7, <1>8, <1>9, <1>10, <1>11, <1>12 DEF Step, publish_manifest

\* A run that has not entered its promotion touches nothing of the others,
\* and a fault it leaves is not one of a swap.
LEMMA OutsideIsHarmless ==
  ASSUME GateInv, NEW r \in Runs, Frame(r), Step(r) \/ CallRaises(r) \/ Killed(r), r \notin entered'
  PROVE  /\ live' = live /\ entered' = entered
         /\ UNCHANGED faults \/ (faults' # <<>> /\ ~OneSwapFault')
<1>0. TypeOK /\ r \notin entered /\ pc[r] \notin Promoting
  BY StepIsLocal DEF GateInv, Frame
<1>1. entered' = entered
  BY <1>0, StepIsLocal
<1>2. CASE CallRaises(r)
  <2>1. pc[r] \in {"compute", "promote"} /\ live' = live
    BY <1>0, <1>2 DEF CallRaises
  <2>2. faults' # <<>> /\ \A x : faults' = <<x>> => pc[r] = x
    BY <1>0, <1>2, RaisedCallLeavesTrace
  <2> QED
    BY <1>1, <2>1, <2>2 DEF OneSwapFault
<1>3. CASE Killed(r)
  <2>1. live' = live
    BY <1>3 DEF Killed
  <2>2. faults' # <<>> /\ \A x : faults' = <<x>> => x = "killed"
    BY <1>0, <1>3, KillLeavesTrace
  <2> QED
    BY <1>1, <2>1, <2>2 DEF OneSwapFault
<1>4. CASE compute_offline_features(r) \/ validate_point_in_time_features(r) \/ CheckStaged(r)
  BY <1>1, <1>4 DEF compute_offline_features, validate_point_in_time_features, CheckStaged
<1>5. CASE Backup(r) \/ ClearLive(r) \/ CopyStaged(r) \/ Restore(r) \/ CleanStaging(r) \/ CleanRollback(r)
  BY <1>0, <1>5 DEF Backup, ClearLive, CopyStaged, Restore, CleanStaging, CleanRollback, Promoting
<1> QED
  BY <1>2, <1>3, <1>4, <1>5 DEF Step, publish_manifest

\* How the promotion of r moves on while r is alone.
LEMMA StepKeepsAlone ==
  ASSUME GateInv, NEW r \in Runs, Frame(r), Alone(r), entered = {r},
         Step(r) \/ CallRaises(r) \/ Killed(r)
  PROVE  Alone(r)'
<1>0. TypeOK /\ pc[r] \notin {"compute", "validate"} /\ at[r] \in Datasets /\ Datasets = 1..NDatasets
  BY DEF GateInv, Frame, TypeOK, Datasets
<1>1. /\ live \in [Datasets -> Content] /\ rollback[r] \in [Datasets -> Content]
      /\ staging[r] \in [Datasets -> Content]
  BY DEF GateInv, TypeOK
<1>2. \A f \in [Datasets -> Content] : \A c : (\A d \in Datasets : f[d] = c) => f = Everywhere(c)
  BY DEF Everywhere
<1>3. Absent # r /\ Absent # Previous
  BY PublicationAssumption DEF Absent, Previous
<1>4. ASSUME TaskFails(r), UNCHANGED <<live, staging>>, faults' # <<>>, pc[r] \in Promoting \cup {"promote"},
             OneSwapFault' => OneSwapFault /\ pc[r] \in {"promote", "cleanRollback"}
      PROVE  Alone(r)'
  <2>1. pc'[r] \in {"failed", "promote"}
    BY <1>0, <1>4, WhenTaskFails
  <2>2. OneSwapFault' => live = Everywhere(Previous) /\ staging[r] = Everywhere(Absent)
    BY <1>4 DEF Alone, Frame, Undoing
  <2>3. pc'[r] \notin Swapping \cup Undoing \cup {"cleanStaging", "cleanRollback", "published"}
    BY <2>1 DEF Swapping, Undoing
  <2> QED
    BY <1>4, <2>1, <2>2, <2>3 DEF Alone, Swapping, Undoing
<1>5. CASE CheckStaged(r)
  <2>1. pc[r] = "promote" /\ UNCHANGED <<live, staging, rollback, faults>>
    BY <1>5 DEF CheckStaged
  <2>2. CASE TaskFails(r)
    BY <1>4, <2>1, <2>2 DEF Alone, Undoing, OneSwapFault
  <2>3. CASE Absent \notin {staging[r][d] : d \in Datasets} /\ Goto(r, "backup")
    <3>1. pc'[r] = "backup"
      BY <1>0, <2>3 DEF Goto, TypeOK
    <3>2. staging[r] # Everywhere(Absent)
      BY <2>3, SomeDataset
    <3> QED
      BY <2>1, <3>1, <3>2 DEF Alone, OneSwapFault
  <2> QED
    BY <1>5, <2>2, <2>3 DEF CheckStaged
<1>6. ASSUME NEW again, NEW next, NextDataset(r, again, next)
      PROVE  /\ raised' = raised
             /\ \/ at[r] < NDatasets /\ pc'[r] = again /\ at'[r] = at[r] + 1
                \/ at[r] = NDatasets /\ pc'[r] = next /\ at'[r] = 1
  BY <1>0, <1>6, PublicationAssumption DEF NextDataset, Goto, TypeOK
<1>7. CASE Backup(r)
  <2>1. pc[r] = "backup" /\ UNCHANGED <<live, staging, faults>> /\ NextDataset(r, "backup", "clear") /\ ~OneSwapFault
    BY <1>7 DEF Backup, Alone, Swapping
  <2>2. rollback'[r] = _copy_prefix(rollback[r], at[r], live[at[r]])
    BY <1>0, <1>7 DEF Backup, TypeOK
  <2>3. rollback'[r] \in [Datasets -> Content]
    BY <1>0, <1>1, <2>2 DEF _copy_prefix
  <2>4. ASSUME faults = <<>>
        PROVE  live = Everywhere(Previous) /\ \A d \in Datasets : d <= at[r] => rollback'[r][d] = Previous
    <3>1. live = Everywhere(Previous) /\ \A d \in Datasets : d < at[r] => rollback[r][d] = Previous
      BY <2>1, <2>4 DEF Alone, Past
    <3>2. live[at[r]] = Previous
      BY <1>0, <3>1 DEF Everywhere
    <3>3. rollback'[r] = [rollback[r] EXCEPT ![at[r]] = Previous]
      BY <1>3, <2>2, <3>2 DEF _copy_prefix
    <3>4. \A d \in Datasets : rollback'[r][d] = IF d = at[r] THEN Previous ELSE rollback[r][d]
      BY <1>0, <1>1, <3>3
    <3> QED
      BY <1>0, <3>1, <3>4
  <2>5. CASE at[r] < NDatasets /\ pc'[r] = "backup" /\ at'[r] = at[r] + 1
    BY <1>0, <2>1, <2>4, <2>5 DEF Alone, Past, OneSwapFault
  <2>6. CASE at[r] = NDatasets /\ pc'[r] = "clear" /\ at'[r] = 1
    <3>1. faults = <<>> => rollback'[r] = Everywhere(Previous)
      BY <1>0, <1>2, <2>3, <2>4, <2>6
    <3> QED
      BY <1>0, <2>1, <2>6, <3>1 DEF Alone, Past, OneSwapFault
  <2> QED
    BY <1>6, <2>1, <2>5, <2>6
<1>8. CASE ClearLive(r)
  <2>1. /\ UNCHANGED <<staging, rollback, at, raised, faults>> /\ live' = [live EXCEPT ![at[r]] = Absent]
        /\ pc[r] \in {"clear", "undoClear"}
    BY <1>8 DEF ClearLive
  <2>2. pc'[r] = IF pc[r] = "clear" THEN "copy" ELSE "undoCopy"
    BY <1>0, <1>8 DEF ClearLive, Goto, TypeOK
  <2>3. \A d \in Datasets : d < at[r] => live'[d] = live[d]
    BY <1>0, <1>1, <2>1
  <2> QED
    BY <2>1, <2>2, <2>3 DEF Alone, Past, Swapping, Undoing, OneSwapFault
<1>9. CASE CopyStaged(r)
  <2>1. pc[r] = "copy" /\ UNCHANGED <<staging, rollback, faults>> /\ NextDataset(r, "clear", "cleanStaging") /\ ~OneSwapFault
    BY <1>9 DEF CopyStaged, Alone, Swapping
  <2>2. staging[r][at[r]] = r
    BY <1>0, <2>1 DEF Frame, Swapping, Everywhere
  <2>3. live' = [live EXCEPT ![at[r]] = r]
    BY <1>3, <1>9, <2>2 DEF CopyStaged, _copy_prefix
  <2>4. \A d \in Datasets : d <= at[r] => live'[d] = r
    BY <1>0, <1>1, <2>1, <2>3 DEF Alone, Past
  <2>5. CASE at[r] < NDatasets /\ pc'[r] = "clear" /\ at'[r] = at[r] + 1
    BY <1>0, <2>1, <2>4, <2>5 DEF Alone, Past, OneSwapFault
  <2>6. CASE at[r] = NDatasets /\ pc'[r] = "cleanStaging" /\ at'[r] = 1
    <3>1. live' = Everywhere(r)
      <4>1. live' \in [Datasets -> Content]
        BY <1>1, <2>3 DEF Content
      <4> QED
        BY <1>0, <1>2, <2>4, <2>6, <4>1
    <3> QED
      BY <2>1, <2>6, <3>1 DEF Alone, OneSwapFault
  <2> QED
    BY <1>6, <2>1, <2>5, <2>6
<1>10. CASE Restore(r)
  <2>1. pc[r] = "undoCopy" /\ UNCHANGED <<staging, rollback, faults>> /\ NextDataset(r, "undoClear", "cleanStaging")
    BY <1>10 DEF Restore
  <2>2. raised[r] /\ faults # <<>>
    BY <2>1 DEF Frame, Undoing
  <2>3. live' \in [Datasets -> Content]
    BY <1>0, <1>1, <1>10 DEF Restore, _copy_prefix
  <2>4. ASSUME OneSwapFault
        PROVE  rollback[r] = Everywhere(Previous) /\ \A d \in Datasets : d <= at[r] => live'[d] = Previous
    <3>1. rollback[r] = Everywhere(Previous) /\ \A d \in Datasets : d < at[r] => live[d] = Previous
      BY <2>1, <2>4 DEF Alone, Past, Undoing
    <3>2. rollback[r][at[r]] = Previous
      BY <1>0, <3>1 DEF Everywhere
    <3>3. live' = [live EXCEPT ![at[r]] = Previous]
      BY <1>3, <1>10, <3>2 DEF Restore, _copy_prefix
    <3>4. \A d \in Datasets : live'[d] = IF d = at[r] THEN Previous ELSE live[d]
      BY <1>0, <1>1, <3>3
    <3> QED
      BY <1>0, <3>1, <3>4
  <2>5. CASE at[r] < NDatasets /\ pc'[r] = "undoClear" /\ at'[r] = at[r] + 1
    BY <1>0, <2>1, <2>2, <2>4, <2>5 DEF Alone, Past, Swapping, Undoing, OneSwapFault
  <2>6. CASE at[r] = NDatasets /\ pc'[r] = "cleanStaging" /\ at'[r] = 1 /\ raised' = raised
    <3>1. OneSwapFault => live' = Everywhere(Previous)
      BY <1>0, <1>2, <2>3, <2>4, <2>6
    <3> QED
      BY <2>1, <2>2, <2>6, <3>1 DEF Alone, Swapping, Undoing, OneSwapFault
  <2> QED
    BY <1>6, <2>1, <2>5, <2>6
<1>11. CASE CleanStaging(r)
  <2>1. /\ pc[r] = "cleanStaging" /\ pc'[r] = "cleanRollback"
        /\ UNCHANGED <<live, rollback, at, raised, faults>>
    BY <1>0, <1>11 DEF CleanStaging, Goto, TypeOK
  <2> QED
    BY <2>1 DEF Alone, Swapping, Undoing, OneSwapFault
<1>12. CASE CleanRollback(r)
  <2>1. pc[r] = "cleanRollback" /\ UNCHANGED <<live, staging, faults>>
    BY <1>12 DEF CleanRollback
  <2>2. CASE raised[r] /\ TaskFails(r)
    BY <1>4, <2>1, <2>2 DEF Frame, Promoting, OneSwapFault
  <2>3. CASE ~raised[r] /\ TaskSucceeds(r, "published")
    <3>1. pc'[r] = "published"
      BY <1>0, <2>3, WhenTaskSucceeds DEF TypeOK
    <3> QED
      BY <2>1, <2>3, <3>1 DEF Alone, Swapping, Undoing, OneSwapFault
  <2> QED
    BY <1>12, <2>2, <2>3 DEF CleanRollback
<1>13. CASE CallRaises(r)
  <2>1. UNCHANGED <<live, staging, rollback>>
    BY <1>13 DEF CallRaises
  <2>2. faults' # <<>> /\ \A x : faults' = <<x>> => faults = <<>> /\ pc[r] = x
    BY <1>0, <1>13, RaisedCallLeavesTrace
  <2>3. OneSwapFault' => faults = <<>> /\ pc[r] \in {"clear", "copy"}
    BY <2>2 DEF OneSwapFault
  <2>4. CASE TaskFails(r) /\ pc[r] \notin Swapping
    BY <1>0, <1>4, <1>13, <2>1, <2>2, <2>3, <2>4 DEF CallRaises, Swapping
  <2>5. CASE pc[r] \in Swapping /\ Goto(r, "undoClear") /\ at' = [at EXCEPT ![r] = 1]
    <3>1. pc'[r] = "undoClear" /\ at'[r] = 1
      BY <1>0, <2>5 DEF Goto, TypeOK
    <3>2. OneSwapFault' => rollback'[r] = Everywhere(Previous)
      BY <2>1, <2>3 DEF Alone
    <3> QED
      BY <1>0, <2>2, <3>1, <3>2 DEF Alone, Past, Swapping, Undoing
  <2>6. CASE pc[r] \in Undoing /\ Goto(r, "cleanStaging") /\ UNCHANGED <<at, raised, tries>>
    <3>1. pc'[r] = "cleanStaging" /\ ~OneSwapFault' /\ raised'[r]
      BY <1>0, <2>3, <2>6 DEF Goto, TypeOK, Frame, Undoing
    <3> QED
      BY <2>2, <3>1 DEF Alone
  <2> QED
    BY <1>13, <2>4, <2>5, <2>6 DEF CallRaises, Swapping, Undoing
<1>14. CASE Killed(r)
  <2>1. faults' # <<>> /\ \A x : faults' = <<x>> => x = "killed"
    BY <1>0, <1>14, KillLeavesTrace
  <2>2. ~OneSwapFault'
    BY <2>1 DEF OneSwapFault
  <2> QED
    BY <1>0, <1>4, <1>14, <2>1, <2>2 DEF Killed
<1>15. ~(compute_offline_features(r) \/ validate_point_in_time_features(r))
  BY <1>0 DEF compute_offline_features, validate_point_in_time_features
<1> QED
  BY <1>5, <1>7, <1>8, <1>9, <1>10, <1>11, <1>12, <1>13, <1>14, <1>15 DEF Step, publish_manifest

\* A run enters its promotion by the check of the staged datasets only.
LEMMA EnteringIsChecked ==
  ASSUME TypeOK, NEW r \in Runs, Step(r) \/ CallRaises(r) \/ Killed(r), r \in entered', r \notin entered
  PROVE  CheckStaged(r)
<1>1. ~(compute_offline_features(r) \/ validate_point_in_time_features(r))
  BY DEF compute_offline_features, validate_point_in_time_features
<1>2. ~(Backup(r) \/ ClearLive(r) \/ CopyStaged(r) \/ Restore(r) \/ CleanStaging(r) \/ CleanRollback(r))
  BY DEF Backup, ClearLive, CopyStaged, Restore, CleanStaging, CleanRollback
<1>3. ~(CallRaises(r) \/ Killed(r))
  BY DEF CallRaises, Killed
<1> QED
  BY <1>1, <1>2, <1>3 DEF Step, publish_manifest

LEMMA StepKeepsWhole ==
  ASSUME WholeInv, NEW r \in Runs, Step(r) \/ CallRaises(r) \/ Killed(r)
  PROVE  WholeInv'
<1>0. GateInv /\ TypeOK /\ Frame(r) /\ r \in Runs
  BY DEF WholeInv, GateInv
<1>1. GateInv'
  BY <1>0, StepKeepsGate
<1>2. /\ \A q \in Runs : q # r => /\ pc'[q] = pc[q] /\ at'[q] = at[q] /\ raised'[q] = raised[q]
                                  /\ staging'[q] = staging[q] /\ rollback'[q] = rollback[q]
      /\ entered' \in {entered, entered \cup {r}}
      /\ UNCHANGED faults \/ faults' # <<>>
  BY <1>0, StepIsLocal
<1>3. Frame(r)'
  BY <1>0, StepKeepsOwnFrame
<1>4. ASSUME NEW q \in Runs, q # r PROVE Frame(q)'
  <2>1. Frame(q)
    BY DEF WholeInv
  <2> QED
    BY <1>2, <1>4, <2>1 DEF Frame
<1>5. CASE r \notin entered'
  <2>1. /\ live' = live /\ entered' = entered
        /\ UNCHANGED faults \/ (faults' # <<>> /\ ~OneSwapFault')
    BY <1>0, <1>5, OutsideIsHarmless
  <2>2. (entered = {} => live = Everywhere(Previous) /\ ~OneSwapFault)'
    BY <2>1 DEF WholeInv, OneSwapFault
  <2>3. ASSUME NEW q \in Runs, entered' = {q} PROVE Alone(q)'
    <3>1. q # r /\ Alone(q)
      BY <1>5, <2>1, <2>3 DEF WholeInv
    <3>2. CASE UNCHANGED faults
      BY <1>2, <2>1, <3>1, <3>2 DEF Alone, Past, OneSwapFault
    <3>3. CASE faults' # <<>> /\ ~OneSwapFault'
      BY <1>2, <2>1, <3>1, <3>3 DEF Alone, Past
    <3> QED
      BY <2>1, <3>2, <3>3
  <2> QED
    BY <1>1, <1>3, <1>4, <2>2, <2>3 DEF WholeInv
<1>6. CASE r \in entered'
  <2>1. entered' = {r} => Alone(r)'
    <3>1. CASE entered' = {r} /\ entered = {r}
      <4>1. Alone(r)
        BY <3>1 DEF WholeInv
      <4> QED
        BY <1>0, <3>1, <4>1, StepKeepsAlone
    <3>2. CASE entered' = {r} /\ r \notin entered
      <4>1. entered = {} /\ live = Everywhere(Previous) /\ ~OneSwapFault
        BY <1>2, <3>2 DEF WholeInv
      <4>2. CheckStaged(r)
        BY <1>0, <1>6, <4>1, EnteringIsChecked
      <4>3. pc'[r] = "backup" /\ at'[r] = 1 /\ UNCHANGED <<live, faults>>
        BY <1>0, <3>2, <4>1, <4>2 DEF CheckStaged, Goto, TypeOK, Frame
      <4> QED
        BY <4>1, <4>3 DEF Alone, Past, OneSwapFault, Datasets
    <3> QED
      BY <1>2, <3>1, <3>2
  <2>2. \A q \in Runs : entered' = {q} => q = r
    BY <1>6
  <2> QED
    BY <1>1, <1>3, <1>4, <1>6, <2>1, <2>2 DEF WholeInv
<1> QED
  BY <1>5, <1>6

\* As long as one run promotes at a time, a promotion is all or nothing
\* (promote_staged_prefixes).
THEOREM PromotionsAreWhole == Spec => []PromotionIsWhole
<1>1. WholeInv /\ [Next]_vars => WholeInv'
  <2>1. WholeInv /\ UNCHANGED vars => WholeInv'
    <3>1. WholeInv /\ UNCHANGED vars => GateInv'
      BY StutterKeepsGate DEF WholeInv
    <3> QED
      BY <3>1 DEF WholeInv, vars, Frame, Alone, Past, OneSwapFault
  <2> QED
    BY <2>1, StepKeepsWhole DEF Next
<1>2. WholeInv => PromotionIsWhole
  <2>1. ASSUME WholeInv, NEW r \in Runs, entered = {r} PROVE Alone(r)
    BY <2>1 DEF WholeInv
  <2>2. WholeInv => SuccessIsWhole
    BY <2>1 DEF SuccessIsWhole, Alone
  <2>3. WholeInv => FailedSwapRestores
    BY <2>1 DEF FailedSwapRestores, Alone, OneSwapFault, Undoing
  <2> QED
    BY <2>2, <2>3 DEF PromotionIsWhole
<1> QED
  BY <1>1, <1>2, InitWhole, PTL DEF Spec
=============================================================================
