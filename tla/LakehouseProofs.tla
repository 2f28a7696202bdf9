-------------------------- MODULE LakehouseProofs --------------------------
(***************************************************************************)
(* Proofs about the batch lakehouse.  First StageOne, for every finite set *)
(* of DAG runs and events, any topics and numbers of retries, copies and   *)
(* faults.  Then GoldTables, for any quarters, release dates, statements,  *)
(* prices and snapshots, in any number and order.                          *)
(***************************************************************************)
EXTENDS StageOne, GoldTables, FiniteSetTheorems, TLAPS

-----------------------------------------------------------------------------
(* Counting records.                                                       *)

\* The slots whose number Total gives.
Slots(f) == {c \in Events \X (1 .. MaxCopies) : c[2] <= f[c[1]]}

LEMMA SlotsFinite == ASSUME NEW f PROVE IsFiniteSet(Slots(f))
<1>1. IsFiniteSet(1 .. MaxCopies)
  BY FS_Interval, StageOneAssumption
<1>2. IsFiniteSet(Events \X (1 .. MaxCopies))
  BY <1>1, FS_Product, StageOneAssumption
<1>3. Slots(f) \in SUBSET (Events \X (1 .. MaxCopies))
  BY DEF Slots
<1> QED BY <1>2, <1>3, FS_Subset

\* A number of records is a natural number, and more copies never make it less.
LEMMA TotalGrows ==
  ASSUME NEW f \in [Events -> Nat], NEW g \in [Events -> Nat], \A e \in Events : f[e] <= g[e]
  PROVE  Total(f) \in Nat /\ Total(g) \in Nat /\ Total(f) <= Total(g)
<1>1. Slots(f) \in SUBSET Slots(g)
  BY StageOneAssumption DEF Slots
<1>2. Total(f) = Cardinality(Slots(f)) /\ Total(g) = Cardinality(Slots(g))
  BY DEF Total, Slots
<1> QED BY <1>1, <1>2, SlotsFinite, FS_Subset, FS_CardinalityType

\* As many records as events, and none twice: every event is among them.
LEMMA EnoughWithoutCopies ==
  ASSUME NEW f \in [Events -> Nat], \A e \in Events : f[e] <= 1, Total(f) = Expected
  PROVE  \A e \in Events : f[e] = 1
<1>1. IsFiniteSet({1}) /\ Cardinality({1}) = 1
  BY FS_Singleton
<1>2. IsFiniteSet(Events \X {1}) /\ Cardinality(Events \X {1}) = Cardinality(Events) * 1
  BY <1>1, FS_Product, StageOneAssumption
<1>3. Slots(f) \in SUBSET (Events \X {1})
  BY StageOneAssumption DEF Slots
<1>4. Cardinality(Slots(f)) = Cardinality(Events \X {1})
  <2>1. Cardinality(Events) \in Nat
    BY FS_CardinalityType, StageOneAssumption
  <2> QED BY <1>2, <2>1 DEF Total, Slots, Expected
<1>5. Slots(f) = Events \X {1}
  BY <1>2, <1>3, <1>4, FS_Subset
<1>6. ASSUME NEW e \in Events PROVE f[e] = 1
  <2>1. <<e, 1>> \in Slots(f)
    BY <1>5
  <2>2. 1 <= f[e]
    BY <2>1 DEF Slots
  <2> QED BY <2>2
<1> QED BY <1>6

\* The rows a build derives from the stream are counted by natural numbers.
LEMMA CopiesFinite ==
  ASSUME bronze \in [Runs -> [Events -> Nat]], NEW e \in Events
  PROVE  Cardinality(Copies(e)) \in Nat
<1> DEFINE part == [q \in Runs |-> {q} \X (1 .. bronze[q][e])]
           parts == {{q} \X (1 .. bronze[q][e]) : q \in Runs}
<1>1. part \in Surjection(Runs, parts)
  BY DEF Surjection
<1>2. IsFiniteSet(parts)
  BY <1>1, FS_Surjection, StageOneAssumption
<1>3. ASSUME NEW q \in Runs PROVE IsFiniteSet({q} \X (1 .. bronze[q][e]))
  <2>1. bronze[q][e] \in Nat
    OBVIOUS
  <2>2. IsFiniteSet(1 .. bronze[q][e])
    BY <2>1, FS_Interval
  <2>3. IsFiniteSet({q})
    BY FS_Singleton
  <2> QED BY <2>2, <2>3, FS_Product
<1>4. IsFiniteSet(UNION parts)
  <2> HIDE DEF parts
  <2>1. \A S \in parts : IsFiniteSet(S)
    BY <1>3 DEF parts
  <2> QED BY <1>2, <2>1, FS_UNION
<1> QED BY <1>4, FS_CardinalityType DEF Copies

LEMMA RowsType ==
  ASSUME TypeOK, NEW r \in Runs, NEW t \in Topics
  PROVE  StreamRows(r, t) \in [Events -> Nat]
<1>1. \A e \in Events : Cardinality(Copies(e)) \in Nat
  BY CopiesFinite DEF TypeOK
<1> QED BY <1>1 DEF StreamRows, TypeOK
-----------------------------------------------------------------------------
(* Where a run goes.                                                       *)

Live == Steps \ {"done", "failed"}

\* The chains of the three DAGs, step by step.
LEMMA Chain ==
  ASSUME NEW r
  PROVE  /\ After(r, "resolve") = IF kind[r] = "ingest" THEN "batch" ELSE "clear"
         /\ After(r, "batch") = "produce"
         /\ After(r, "produce") = "consume"
         /\ After(r, "consume") = "store"
         /\ After(r, "store") = IF kind[r] = "ingest" THEN "validate" ELSE "clear"
         /\ After(r, "clear") = "write"
         /\ After(r, "write") = IF kind[r] = "build" THEN "validate" ELSE "gate"
         /\ After(r, "gate") = "log"
         /\ After(r, "log") = "checkpoint"
         /\ After(r, "checkpoint") = "report"
         /\ After(r, "validate") = "publish"
         /\ After(r, "publish") = "done"
         /\ After(r, "report") = "done"
  BY DEF After

LEMMA Starts ==
  ASSUME NEW r
  PROVE  /\ TaskStart(r, "batch") = "batch"
         /\ TaskStart(r, "produce") = "produce"
         /\ TaskStart(r, "consume") = IF kind[r] = "ingest" THEN "produce" ELSE "consume"
         /\ TaskStart(r, "store") = IF kind[r] = "ingest" THEN "produce" ELSE "consume"
         /\ TaskStart(r, "clear") = "clear"
         /\ TaskStart(r, "write") = "clear"
         /\ TaskStart(r, "gate") = "gate"
         /\ TaskStart(r, "log") = "log"
         /\ TaskStart(r, "checkpoint") = "log"
         /\ \A step \in {"resolve", "validate", "publish", "report"} : TaskStart(r, step) = step
  BY DEF TaskStart

\* What a step to the next one, a visit of a loop and a failure do to a run's control.
LEMMA AdvanceMoves ==
  ASSUME TypeOK, NEW r \in Runs, pc[r] \in Live, Advance(r)
  PROVE  /\ pc' \in [Runs -> Steps]
         /\ tries' \in [Runs -> Nat] /\ \A q \in Runs : tries'[q] <= Retries[kind[q]]
         /\ pc'[r] = After(r, pc[r])
         /\ \A q \in Runs \ {r} : pc'[q] = pc[q]
<1>1. After(r, pc[r]) \in Steps
  BY Chain DEF Live, Steps
<1>2. Retries[kind[r]] \in Nat
  BY StageOneAssumption DEF TypeOK
<1> QED BY <1>1, <1>2 DEF Advance, TypeOK

LEMMA LoopMoves ==
  ASSUME TypeOK, NEW r \in Runs, pc[r] \in Live, Loop(r)
  PROVE  /\ pc' \in [Runs -> Steps]
         /\ tries' \in [Runs -> Nat] /\ \A q \in Runs : tries'[q] <= Retries[kind[q]]
         /\ todo' \in [Runs -> SUBSET Topics]
         /\ pc'[r] = After(r, pc[r]) /\ todo'[r] = Topics
         /\ \A q \in Runs \ {r} : pc'[q] = pc[q] /\ todo'[q] = todo[q]
  BY AdvanceMoves DEF Loop, TypeOK

LEMMA VisitMoves ==
  ASSUME TypeOK, NEW r \in Runs, pc[r] \in Live, NEW t \in todo[r], Visit(r, t)
  PROVE  /\ pc' \in [Runs -> Steps]
         /\ tries' \in [Runs -> Nat] /\ \A q \in Runs : tries'[q] <= Retries[kind[q]]
         /\ todo' \in [Runs -> SUBSET Topics]
         /\ \A q \in Runs \ {r} : pc'[q] = pc[q] /\ todo'[q] = todo[q]
         /\ \/ /\ todo[r] = {t}
               /\ pc'[r] = After(r, pc[r]) /\ todo'[r] = Topics
            \/ /\ todo[r] # {t}
               /\ pc'[r] = pc[r] /\ todo'[r] = todo[r] \ {t} /\ todo'[r] # Topics
<1>1. CASE todo[r] = {t}
  BY <1>1, LoopMoves DEF Visit
<1>2. CASE todo[r] # {t}
  <2>1. todo' = [todo EXCEPT ![r] = @ \ {t}] /\ pc' = pc /\ tries' = tries
    BY <1>2 DEF Visit
  <2>2. todo[r] \subseteq Topics /\ t \in Topics
    BY DEF TypeOK
  <2> QED BY <1>2, <2>1, <2>2 DEF TypeOK
<1> QED BY <1>1, <1>2

LEMMA FailMoves ==
  ASSUME TypeOK, NEW r \in Runs, pc[r] \in Live, Fail(r)
  PROVE  /\ pc' \in [Runs -> Steps]
         /\ tries' \in [Runs -> Nat] /\ \A q \in Runs : tries'[q] <= Retries[kind[q]]
         /\ todo' \in [Runs -> SUBSET Topics]
         /\ got' \in [Runs -> [Events -> Nat]]
         /\ pc'[r] \in {"failed", TaskStart(r, pc[r])} /\ todo'[r] = Topics
         /\ \A q \in Runs \ {r} : pc'[q] = pc[q] /\ todo'[q] = todo[q] /\ got'[q] = got[q]
<1>1. TaskStart(r, pc[r]) \in Steps
  BY Starts DEF Live, Steps
<1>2. Retries[kind[r]] \in Nat
  BY StageOneAssumption DEF TypeOK
<1>3. got' \in [Runs -> [Events -> Nat]]
  BY DEF Fail, TypeOK, Nothing
<1>4. /\ todo' \in [Runs -> SUBSET Topics] /\ todo'[r] = Topics
      /\ \A q \in Runs \ {r} : todo'[q] = todo[q] /\ got'[q] = got[q]
  BY DEF Fail, TypeOK
<1>5. CASE tries[r] < Retries[kind[r]]
  <2>1. /\ pc' = [pc EXCEPT ![r] = TaskStart(r, @)]
        /\ tries' = [tries EXCEPT ![r] = @ + 1]
    BY <1>5 DEF Fail, TaskFails
  <2> QED BY <1>1, <1>2, <1>3, <1>4, <1>5, <2>1 DEF TypeOK
<1>6. CASE ~(tries[r] < Retries[kind[r]])
  <2>1. pc' = [pc EXCEPT ![r] = "failed"] /\ tries' = tries
    BY <1>6 DEF Fail, TaskFails
  <2> QED BY <1>3, <1>4, <2>1 DEF TypeOK, Steps
<1> QED BY <1>5, <1>6
-----------------------------------------------------------------------------
(* Types.                                                                  *)

LEMMA FailTypes ==
  ASSUME TypeOK, NEW r \in Runs, pc[r] \in Live, Fail(r),
         table' \in [Topics -> Contents \cup {None}], faults' \in 0 .. MaxFaults
  PROVE  TypeOK'
<1>1. /\ pc' \in [Runs -> Steps]
      /\ tries' \in [Runs -> Nat] /\ \A q \in Runs : tries'[q] <= Retries[kind[q]]
      /\ todo' \in [Runs -> SUBSET Topics]
      /\ got' \in [Runs -> [Events -> Nat]]
  BY FailMoves
<1> QED BY <1>1 DEF Fail, TypeOK, broker, metadata

\* The runs, the stores and the records keep their types, and no task is tried more
\* often than its DAG says.
THEOREM LakehouseTypeCorrect == Spec => []TypeOK
<1>1. Init => TypeOK
  <2> SUFFICES ASSUME Init PROVE TypeOK
    OBVIOUS
  <2>1. /\ pc \in [Runs -> Steps] /\ todo \in [Runs -> SUBSET Topics]
        /\ seen \in [Runs -> [Topics -> Contents \cup {None}]]
        /\ table \in [Topics -> Contents \cup {None}]
    BY DEF Init, Steps
  <2>2. /\ got \in [Runs -> [Events -> Nat]] /\ bronze \in [Runs -> [Events -> Nat]]
        /\ topic \in [Runs -> [Events -> 0 .. MaxCopies]]
    BY StageOneAssumption DEF Init, Nothing
  <2>3. tries \in [Runs -> Nat] /\ \A r \in Runs : tries[r] <= Retries[kind[r]]
    BY StageOneAssumption DEF Init
  <2>4. /\ kind \in [Runs -> Kinds] /\ batch \subseteq UNION {DatasetsOf(k) : k \in Kinds}
        /\ dq \subseteq Runs \X Topics /\ runlog \subseteq Runs /\ checkpoint \in Runs \cup {None}
        /\ overlapped \in BOOLEAN /\ stored \subseteq Runs /\ rejected \subseteq Runs
    BY DEF Init, Kinds, BatchInputs, DatasetsOf
  <2>5. faults \in 0 .. MaxFaults
    BY StageOneAssumption DEF Init
  <2> QED BY <2>1, <2>2, <2>3, <2>4, <2>5 DEF TypeOK
<1>2. TypeOK /\ [Next]_vars => TypeOK'
  <2> SUFFICES ASSUME TypeOK, [Next]_vars PROVE TypeOK'
    OBVIOUS
  <2>1. ASSUME NEW r \in Runs, ingest_batch_to_bronze(r) PROVE TypeOK'
    <3>1. pc[r] \in Live /\ Advance(r)
      BY <2>1 DEF ingest_batch_to_bronze, Live, Steps
    <3>2. batch' \subseteq UNION {DatasetsOf(k) : k \in Kinds}
      BY <2>1 DEF ingest_batch_to_bronze, TypeOK
    <3> QED BY <2>1, <3>1, <3>2, AdvanceMoves
         DEF ingest_batch_to_bronze, TypeOK, broker, metadata, history
  <2>2. ASSUME NEW r \in Runs, produce_events(r) PROVE TypeOK'
    <3>1. pc[r] \in Live /\ Advance(r)
      BY <2>2 DEF produce_events, Live, Steps
    <3>2. topic' \in [Runs -> [Events -> 0 .. MaxCopies]]
      BY <2>2, StageOneAssumption DEF produce_events, TypeOK
    <3> QED BY <2>2, <3>1, <3>2, AdvanceMoves DEF produce_events, TypeOK, metadata, history
  <2>3. ASSUME NEW r \in Runs, consume_stage1_stream_events(r) PROVE TypeOK'
    <3>1. pc[r] \in Live /\ Loop(r)
      BY <2>3 DEF consume_stage1_stream_events, Live, Steps
    <3>2. got' \in [Runs -> [Events -> Nat]]
      BY <2>3, StageOneAssumption DEF consume_stage1_stream_events, TypeOK
    <3> QED BY <2>3, <3>1, <3>2, LoopMoves
         DEF consume_stage1_stream_events, TypeOK, broker, metadata, history
  <2>4. ASSUME NEW r \in Runs, write_bronze_batch(r) PROVE TypeOK'
    <3>1. PICK t \in todo[r] :
            /\ bronze' = [bronze EXCEPT ![r] =
                 [e \in Events |-> @[e] + (IF TopicOf[e] = t THEN got[r][e] ELSE 0)]]
            /\ Visit(r, t)
            /\ stored' = IF todo[r] = {t} THEN stored \cup {r} ELSE stored
            /\ got' = IF todo[r] = {t} THEN [got EXCEPT ![r] = Nothing] ELSE got
      BY <2>4 DEF write_bronze_batch
    <3>2. pc[r] \in Live
      BY <2>4 DEF write_bronze_batch, Live, Steps
    <3>3. bronze' \in [Runs -> [Events -> Nat]]
      BY <3>1 DEF TypeOK
    <3>4. got' \in [Runs -> [Events -> Nat]] /\ stored' \subseteq Runs
      BY <3>1 DEF TypeOK, Nothing
    <3> QED BY <2>4, <3>1, <3>2, <3>3, <3>4, VisitMoves DEF write_bronze_batch, TypeOK, metadata
  <2>5. ASSUME NEW r \in Runs, clear_output_prefixes(r) PROVE TypeOK'
    <3>1. PICK t \in todo[r] : table' = Cleared(t) /\ Visit(r, t)
      BY <2>5 DEF clear_output_prefixes
    <3>2. pc[r] \in Live
      BY <2>5 DEF clear_output_prefixes, Live, Steps
    <3>3. table' \in [Topics -> Contents \cup {None}]
      BY <3>1 DEF Cleared, TypeOK
    <3>4. overlapped' \in BOOLEAN
      BY <2>5 DEF clear_output_prefixes, TypeOK
    <3> QED BY <2>5, <3>1, <3>2, <3>3, <3>4, VisitMoves
         DEF clear_output_prefixes, TypeOK, broker, metadata
  <2>6. ASSUME NEW r \in Runs, write_table(r) PROVE TypeOK'
    <3>1. PICK t \in todo[r], unread \in BOOLEAN :
            /\ unread => faults < MaxFaults
            /\ faults' = IF unread THEN faults + 1 ELSE faults
            /\ table' = [table EXCEPT ![t] =
                 [by |-> r, rows |-> IF unread THEN Nothing ELSE StreamRows(r, t)]]
            /\ Visit(r, t)
      BY <2>6 DEF write_table
    <3>2. pc[r] \in Live /\ t \in Topics
      BY <2>6 DEF write_table, Live, Steps, TypeOK
    <3>3. [by |-> r, rows |-> IF unread THEN Nothing ELSE StreamRows(r, t)] \in Contents
      BY <3>2, RowsType DEF Contents, Nothing
    <3>4. table' \in [Topics -> Contents \cup {None}]
      BY <3>1, <3>3 DEF TypeOK
    <3>5. faults' \in 0 .. MaxFaults
      BY <3>1, StageOneAssumption DEF TypeOK
    <3> QED BY <2>6, <3>1, <3>2, <3>4, <3>5, VisitMoves DEF write_table, TypeOK, broker, metadata
  <2>7. ASSUME NEW r \in Runs, read_table(r) PROVE TypeOK'
    BY <2>7 DEF read_table, TypeOK, broker, metadata, history
  <2>8. ASSUME NEW r \in Runs, run_dq_checks(r) PROVE TypeOK'
    <3>1. pc[r] \in Live
      BY <2>8 DEF run_dq_checks, Live, Steps
    <3>2. dq' \subseteq Runs \X Topics
      BY <2>8 DEF run_dq_checks, log_dq_result, Violated, TypeOK
    <3>3. CASE Violated(r) = {}
      BY <2>8, <3>1, <3>2, <3>3, LoopMoves DEF run_dq_checks, TypeOK, broker
    <3>4. CASE Violated(r) # {}
      BY <2>8, <3>2, <3>4 DEF run_dq_checks, TypeOK, broker, Steps
    <3> QED BY <3>3, <3>4
  <2>9. ASSUME NEW r \in Runs, write_postgres_metadata(r) PROVE TypeOK'
    <3>1. pc[r] \in Live /\ Advance(r)
      BY <2>9 DEF write_postgres_metadata, Live, Steps
    <3>2. runlog' \subseteq Runs /\ checkpoint' \in Runs \cup {None}
      BY <2>9 DEF write_postgres_metadata, _execute, TypeOK
    <3> QED BY <2>9, <3>1, <3>2, AdvanceMoves
         DEF write_postgres_metadata, TypeOK, broker, history
  <2>10. ASSUME NEW r \in Runs, Raise(r) PROVE TypeOK'
    <3>1. pc[r] \in Live
      BY <2>10 DEF Raise, Live, Steps
    <3> QED BY <2>10, <3>1, FailTypes DEF Raise, TypeOK
  <2>11. ASSUME NEW r \in Runs, Fault(r) PROVE TypeOK'
    <3>1. pc[r] \in Live
      BY <2>11 DEF Fault, Live, TypeOK
    <3>2. table' \in [Topics -> Contents \cup {None}]
      BY <2>11 DEF Fault, TypeOK, Cleared
    <3>3. faults' \in 0 .. MaxFaults
      BY <2>11, StageOneAssumption DEF Fault, TypeOK
    <3> QED BY <2>11, <3>1, <3>2, <3>3, FailTypes DEF Fault
  <2>12. ASSUME NEW r \in Runs, run_check_task(r) PROVE TypeOK'
    <3>1. pc[r] \in Live /\ Loop(r)
      BY <2>12 DEF run_check_task, Live, Steps
    <3> QED BY <2>12, <3>1, LoopMoves DEF run_check_task, TypeOK, broker, metadata, history
  <2>13. ASSUME NEW r \in Runs, run_duckdb_validation(r) PROVE TypeOK'
    <3>1. pc[r] \in Live /\ Loop(r)
      BY <2>13 DEF run_duckdb_validation, Live, Steps
    <3> QED BY <2>13, <3>1, LoopMoves
         DEF run_duckdb_validation, TypeOK, broker, metadata, history
  <2>14. CASE UNCHANGED vars
    BY <2>14 DEF vars, local, broker, metadata, history, TypeOK
  <2> QED BY <2>1, <2>2, <2>3, <2>4, <2>5, <2>6, <2>7, <2>8, <2>9, <2>10, <2>11, <2>12,
             <2>13, <2>14
       DEF Next, Step
<1> QED BY <1>1, <1>2, PTL DEF Spec
-----------------------------------------------------------------------------
(* What reaches Bronze.                                                    *)

\* A run that is writing its batches holds as many records as the run has events, none
\* of them that the broker does not hold, and Bronze has those of the topics behind it.
TakenIsEnough ==
  \A r \in Runs :
    pc[r] = "store" =>
      /\ \A e \in Events : got[r][e] <= topic[r][e]
      /\ Total(got[r]) = Expected
      /\ \A e \in Events : TopicOf[e] \notin todo[r] => bronze[r][e] >= got[r][e]

BronzeInv == TakenIsEnough /\ EventsReachBronze

\* A step that leaves the broker and Bronze alone, and brings no run to its batches.
LEMMA BronzeUntouched ==
  ASSUME TypeOK, BronzeInv, NEW r \in Runs, UNCHANGED <<broker, stored>>,
         pc'[r] # "store",
         \A q \in Runs \ {r} : pc'[q] = pc[q] /\ todo'[q] = todo[q] /\ got'[q] = got[q]
  PROVE  BronzeInv'
<1>1. TakenIsEnough'
  BY DEF BronzeInv, TakenIsEnough, Total, Expected, broker
<1> QED BY <1>1 DEF BronzeInv, EventsReachBronze, LossNeedsACopy, ShortfallWritesNothing,
                    Total, Expected, broker, Nothing

LEMMA ProduceKeepsBronze ==
  ASSUME TypeOK, BronzeInv, NEW r \in Runs, produce_events(r)
  PROVE  BronzeInv'
<1>1. PICK sent \in [Events -> 0 .. MaxCopies] :
        /\ \A e \in Events : topic[r][e] + sent[e] <= MaxCopies
        /\ topic' = [topic EXCEPT ![r] = [e \in Events |-> @[e] + sent[e]]]
  BY DEF produce_events
<1>2. /\ \A q \in Runs : topic[q] \in [Events -> Nat] /\ topic'[q] \in [Events -> Nat]
      /\ \A q \in Runs : \A e \in Events : topic[q][e] <= topic'[q][e]
  BY <1>1, StageOneAssumption DEF TypeOK
<1>3. /\ pc'[r] # "store" /\ \A q \in Runs \ {r} : pc'[q] = pc[q]
      /\ UNCHANGED <<got, todo, bronze, stored>>
  <2>1. pc[r] \in Live /\ Advance(r)
    BY DEF produce_events, Live, Steps
  <2> QED BY <2>1, AdvanceMoves, Chain DEF produce_events, history
<1>4. TakenIsEnough'
  <2> SUFFICES ASSUME NEW q \in Runs, pc'[q] = "store"
               PROVE  /\ \A e \in Events : got[q][e] <= topic'[q][e]
                      /\ Total(got[q]) = Expected
                      /\ \A e \in Events : TopicOf[e] \notin todo[q] => bronze[q][e] >= got[q][e]
    BY <1>3 DEF TakenIsEnough, Total, Expected
  <2>1. pc[q] = "store"
    BY <1>3
  <2> QED BY <2>1, <1>2 DEF BronzeInv, TakenIsEnough, TypeOK
<1>5. LossNeedsACopy'
  <2> SUFFICES ASSUME NEW q \in stored, \A e \in Events : topic'[q][e] <= 1, NEW e \in Events
               PROVE  bronze[q][e] > 0
    BY <1>3 DEF LossNeedsACopy
  <2>1. \A d \in Events : topic[q][d] <= 1
    <3> SUFFICES ASSUME NEW d \in Events PROVE topic[q][d] <= 1
      OBVIOUS
    <3>1. q \in Runs
      BY DEF TypeOK
    <3>2. topic[q][d] \in Nat /\ topic'[q][d] \in Nat /\ topic[q][d] <= topic'[q][d]
      BY <1>2, <3>1
    <3>3. topic'[q][d] <= 1
      OBVIOUS
    <3> QED BY <3>2, <3>3
  <2> QED BY <2>1 DEF BronzeInv, EventsReachBronze, LossNeedsACopy
<1>6. ShortfallWritesNothing'
  <2> SUFFICES ASSUME NEW q \in Runs, Total(topic'[q]) < Expected PROVE bronze[q] = Nothing
    BY <1>3 DEF ShortfallWritesNothing, Total, Expected, Nothing
  <2>1. Total(topic[q]) \in Nat /\ Total(topic'[q]) \in Nat /\ Total(topic[q]) <= Total(topic'[q])
    BY <1>2, TotalGrows
  <2>2. Expected \in Nat
    BY FS_CardinalityType, StageOneAssumption DEF Expected
  <2> QED BY <2>1, <2>2 DEF BronzeInv, EventsReachBronze, ShortfallWritesNothing
<1> QED BY <1>4, <1>5, <1>6 DEF BronzeInv, EventsReachBronze

LEMMA ConsumeKeepsBronze ==
  ASSUME TypeOK, BronzeInv, NEW r \in Runs, consume_stage1_stream_events(r)
  PROVE  BronzeInv'
<1>1. PICK taken \in [Events -> 0 .. MaxCopies] :
        Matches(r, taken) /\ got' = [got EXCEPT ![r] = taken]
  BY DEF consume_stage1_stream_events
<1>2. pc[r] \in Live /\ Loop(r) /\ UNCHANGED <<bronze, topic, stored>>
  BY DEF consume_stage1_stream_events, Live, Steps, broker, history
<1>3. TakenIsEnough'
  <2> SUFFICES ASSUME NEW q \in Runs, pc'[q] = "store"
               PROVE  /\ \A e \in Events : got'[q][e] <= topic[q][e]
                      /\ Total(got'[q]) = Expected
                      /\ \A e \in Events : TopicOf[e] \notin todo'[q] => bronze[q][e] >= got'[q][e]
    BY <1>2 DEF TakenIsEnough, Total, Expected
  <2>1. CASE q = r
    <3>1. got'[r] = taken /\ todo'[r] = Topics
      BY <1>1, <1>2, LoopMoves DEF TypeOK
    <3>2. \A e \in Events : TopicOf[e] \in Topics
      BY StageOneAssumption
    <3> QED BY <1>1, <2>1, <3>1, <3>2 DEF Matches
  <2>2. CASE q # r
    BY <1>1, <1>2, <2>2, LoopMoves DEF BronzeInv, TakenIsEnough, TypeOK
  <2> QED BY <2>1, <2>2
<1> QED BY <1>2, <1>3 DEF BronzeInv, EventsReachBronze, LossNeedsACopy, ShortfallWritesNothing,
                          Total, Expected, Nothing

LEMMA StoreKeepsBronze ==
  ASSUME TypeOK, BronzeInv, NEW r \in Runs, write_bronze_batch(r)
  PROVE  BronzeInv'
<1>1. PICK t \in todo[r] :
        /\ bronze' = [bronze EXCEPT ![r] =
             [e \in Events |-> @[e] + (IF TopicOf[e] = t THEN got[r][e] ELSE 0)]]
        /\ Visit(r, t)
        /\ stored' = IF todo[r] = {t} THEN stored \cup {r} ELSE stored
        /\ got' = IF todo[r] = {t} THEN [got EXCEPT ![r] = Nothing] ELSE got
  BY DEF write_bronze_batch
<1>2. pc[r] = "store" /\ pc[r] \in Live /\ UNCHANGED topic
  BY DEF write_bronze_batch, Live, Steps
<1>3. /\ \A e \in Events : got[r][e] <= topic[r][e]
      /\ Total(got[r]) = Expected
      /\ \A e \in Events : TopicOf[e] \notin todo[r] => bronze[r][e] >= got[r][e]
  BY <1>2 DEF BronzeInv, TakenIsEnough
<1>4. /\ \A q \in Runs \ {r} : bronze'[q] = bronze[q] /\ got'[q] = got[q]
      /\ \A q \in Runs : \A e \in Events : bronze'[q][e] >= bronze[q][e]
      /\ \A e \in Events : TopicOf[e] = t => bronze'[r][e] >= got[r][e]
      /\ \A q \in Runs : bronze[q] \in [Events -> Nat] /\ bronze'[q] \in [Events -> Nat]
      /\ \A q \in Runs : got[q] \in [Events -> Nat] /\ topic[q] \in [Events -> Nat]
  BY <1>1, StageOneAssumption DEF TypeOK
<1>5. TakenIsEnough'
  <2> SUFFICES ASSUME NEW q \in Runs, pc'[q] = "store"
               PROVE  /\ \A e \in Events : got'[q][e] <= topic[q][e]
                      /\ Total(got'[q]) = Expected
                      /\ \A e \in Events : TopicOf[e] \notin todo'[q] => bronze'[q][e] >= got'[q][e]
    BY <1>2 DEF TakenIsEnough, Total, Expected
  <2>1. CASE q = r
    <3>1. todo[r] # {t} /\ todo'[r] = todo[r] \ {t}
      BY <1>1, <1>2, <2>1, VisitMoves, Chain
    <3>2. got' = got
      BY <1>1, <3>1
    <3>3. \A e \in Events : TopicOf[e] \notin todo'[r] => bronze'[r][e] >= got[r][e]
      <4> SUFFICES ASSUME NEW e \in Events, TopicOf[e] \notin todo'[r]
                   PROVE  bronze'[r][e] >= got[r][e]
        OBVIOUS
      <4>1. TopicOf[e] = t \/ TopicOf[e] \notin todo[r]
        BY <3>1
      <4>2. CASE TopicOf[e] = t
        BY <1>4, <4>2
      <4>3. CASE TopicOf[e] \notin todo[r]
        <5>1. bronze[r][e] >= got[r][e] /\ bronze'[r][e] >= bronze[r][e]
          BY <1>3, <1>4, <4>3
        <5>2. bronze[r][e] \in Nat /\ bronze'[r][e] \in Nat /\ got[r][e] \in Nat
          BY <1>4
        <5> QED BY <5>1, <5>2
      <4> QED BY <4>1, <4>2, <4>3
    <3> QED BY <1>3, <2>1, <3>2, <3>3
  <2>2. CASE q # r
    <3>1. pc[q] = "store" /\ todo'[q] = todo[q]
      BY <1>1, <1>2, <2>2, VisitMoves
    <3> QED BY <1>4, <2>2, <3>1 DEF BronzeInv, TakenIsEnough
  <2> QED BY <2>1, <2>2
<1>6. LossNeedsACopy'
  <2> SUFFICES ASSUME NEW q \in stored', \A e \in Events : topic[q][e] <= 1, NEW e \in Events
               PROVE  bronze'[q][e] > 0
    BY <1>2 DEF LossNeedsACopy
  <2>0. q \in Runs
    BY <1>1 DEF TypeOK
  <2>1. CASE q \in stored
    <3>1. bronze[q][e] > 0
      BY <2>1 DEF BronzeInv, EventsReachBronze, LossNeedsACopy
    <3>2. bronze[q][e] \in Nat /\ bronze'[q][e] \in Nat
      BY <1>4, <2>0
    <3>3. bronze'[q][e] = bronze[q][e] \/ bronze'[q][e] >= bronze[q][e]
      BY <1>4, <2>0
    <3> QED BY <3>1, <3>2, <3>3
  <2>2. CASE q \notin stored
    <3>1. q = r /\ todo[r] = {t}
      BY <1>1, <2>2
    <3>2. \A d \in Events : got[r][d] <= 1
      BY <1>3, <1>4, <3>1
    <3>3. got[r][e] = 1
      BY <1>3, <1>4, <3>2, EnoughWithoutCopies
    <3>4. bronze'[r][e] >= got[r][e]
      <4>1. CASE TopicOf[e] = t
        BY <1>4, <4>1
      <4>2. CASE TopicOf[e] # t
        <5>1. bronze[r][e] >= got[r][e] /\ bronze'[r][e] >= bronze[r][e]
          BY <1>3, <1>4, <3>1, <4>2
        <5>2. bronze[r][e] \in Nat /\ bronze'[r][e] \in Nat /\ got[r][e] \in Nat
          BY <1>4
        <5> QED BY <5>1, <5>2
      <4> QED BY <4>1, <4>2
    <3> QED BY <1>4, <3>1, <3>3, <3>4
  <2> QED BY <2>1, <2>2
<1>7. ShortfallWritesNothing'
  <2> SUFFICES ASSUME NEW q \in Runs, Total(topic[q]) < Expected PROVE bronze'[q] = Nothing
    BY <1>2 DEF ShortfallWritesNothing, Total, Expected, Nothing
  <2>1. Total(got[r]) \in Nat /\ Total(topic[r]) \in Nat /\ Total(got[r]) <= Total(topic[r])
    BY <1>3, <1>4, TotalGrows
  <2>2. q # r
    BY <1>3, <2>1
  <2> QED BY <1>4, <2>2 DEF BronzeInv, EventsReachBronze, ShortfallWritesNothing
<1> QED BY <1>5, <1>6, <1>7 DEF BronzeInv, EventsReachBronze

\* A run's events reach Bronze together or not at all, but for those a copy has displaced,
\* in every interleaving of any number of runs, faults and retries.
THEOREM BronzeIsComplete == Spec => []EventsReachBronze
<1>1. Init => BronzeInv
  <2> SUFFICES ASSUME Init PROVE BronzeInv
    OBVIOUS
  <2>1. TakenIsEnough
    BY DEF Init, TakenIsEnough
  <2> QED BY <2>1 DEF Init, BronzeInv, EventsReachBronze, LossNeedsACopy, ShortfallWritesNothing
<1>2. TypeOK /\ BronzeInv /\ [Next]_vars => BronzeInv'
  <2> SUFFICES ASSUME TypeOK, BronzeInv, [Next]_vars PROVE BronzeInv'
    OBVIOUS
  <2>1. ASSUME NEW r \in Runs, ingest_batch_to_bronze(r) PROVE BronzeInv'
    <3>1. pc[r] \in Live /\ Advance(r) /\ UNCHANGED <<broker, stored, todo, got>>
      BY <2>1 DEF ingest_batch_to_bronze, Live, Steps, history
    <3>2. pc'[r] # "store"
      BY <2>1, <3>1, AdvanceMoves, Chain DEF ingest_batch_to_bronze
    <3> QED BY <3>1, <3>2, AdvanceMoves, BronzeUntouched
  <2>2. ASSUME NEW r \in Runs, clear_output_prefixes(r) PROVE BronzeInv'
    <3>1. PICK t \in todo[r] : Visit(r, t)
      BY <2>2 DEF clear_output_prefixes
    <3>2. pc[r] = "clear" /\ pc[r] \in Live /\ UNCHANGED <<broker, stored, got>>
      BY <2>2 DEF clear_output_prefixes, Live, Steps
    <3>3. pc'[r] # "store"
      BY <3>1, <3>2, VisitMoves, Chain
    <3> QED BY <3>1, <3>2, <3>3, VisitMoves, BronzeUntouched
  <2>3. ASSUME NEW r \in Runs, write_table(r) PROVE BronzeInv'
    <3>1. PICK t \in todo[r] : Visit(r, t)
      BY <2>3 DEF write_table
    <3>2. pc[r] = "write" /\ pc[r] \in Live /\ UNCHANGED <<broker, stored, got>>
      BY <2>3 DEF write_table, Live, Steps
    <3>3. pc'[r] # "store"
      BY <3>1, <3>2, VisitMoves, Chain
    <3> QED BY <3>1, <3>2, <3>3, VisitMoves, BronzeUntouched
  <2>4. ASSUME NEW r \in Runs, read_table(r) PROVE BronzeInv'
    BY <2>4, BronzeUntouched DEF read_table, history, TypeOK
  <2>5. ASSUME NEW r \in Runs, run_dq_checks(r) PROVE BronzeInv'
    <3>1. pc[r] = "gate" /\ pc[r] \in Live /\ UNCHANGED <<broker, stored, got>>
      BY <2>5 DEF run_dq_checks, Live, Steps
    <3>2. CASE Violated(r) = {}
      <4>1. Loop(r)
        BY <2>5, <3>2 DEF run_dq_checks
      <4>2. pc'[r] # "store"
        BY <3>1, <4>1, LoopMoves, Chain
      <4> QED BY <3>1, <4>1, <4>2, LoopMoves, BronzeUntouched
    <3>3. CASE Violated(r) # {}
      <4>1. pc' = [pc EXCEPT ![r] = "failed"] /\ UNCHANGED todo
        BY <2>5, <3>3 DEF run_dq_checks
      <4> QED BY <3>1, <4>1, BronzeUntouched DEF TypeOK
    <3> QED BY <3>2, <3>3
  <2>6. ASSUME NEW r \in Runs, write_postgres_metadata(r) PROVE BronzeInv'
    <3>1. pc[r] \in Live /\ Advance(r) /\ UNCHANGED <<broker, stored, todo, got>>
      BY <2>6 DEF write_postgres_metadata, Live, Steps, history
    <3>2. pc'[r] # "store"
      BY <2>6, <3>1, AdvanceMoves, Chain DEF write_postgres_metadata
    <3> QED BY <3>1, <3>2, AdvanceMoves, BronzeUntouched
  <2>7. ASSUME NEW r \in Runs, Raise(r) \/ Fault(r) PROVE BronzeInv'
    <3>1. pc[r] \in Live /\ Fail(r)
      BY <2>7 DEF Raise, Fault, Live, Steps, TypeOK
    <3>2. pc'[r] # "store"
      BY <3>1, FailMoves, Starts DEF Live, Steps
    <3>3. UNCHANGED <<broker, stored>>
      BY <3>1 DEF Fail
    <3> QED BY <3>1, <3>2, <3>3, FailMoves, BronzeUntouched
  <2>8. ASSUME NEW r \in Runs, run_check_task(r) PROVE BronzeInv'
    <3>1. pc[r] \in Live /\ Loop(r) /\ UNCHANGED <<broker, stored, got>>
      BY <2>8 DEF run_check_task, Live, Steps, history
    <3>2. pc'[r] # "store"
      BY <2>8, <3>1, LoopMoves, Chain DEF run_check_task
    <3> QED BY <3>1, <3>2, LoopMoves, BronzeUntouched
  <2>9. ASSUME NEW r \in Runs, run_duckdb_validation(r) PROVE BronzeInv'
    <3>1. pc[r] = "report" /\ pc[r] \in Live /\ Loop(r) /\ UNCHANGED <<broker, stored, got>>
      BY <2>9 DEF run_duckdb_validation, Live, Steps, history
    <3>2. pc'[r] # "store"
      BY <3>1, LoopMoves, Chain
    <3> QED BY <3>1, <3>2, LoopMoves, BronzeUntouched
  <2>10. CASE UNCHANGED vars
    BY <2>10 DEF vars, local, broker, history, BronzeInv, TakenIsEnough, EventsReachBronze,
                LossNeedsACopy, ShortfallWritesNothing, Total, Expected, Nothing
  <2> QED BY <2>1, <2>2, <2>3, <2>4, <2>5, <2>6, <2>7, <2>8, <2>9, <2>10, ProduceKeepsBronze,
             ConsumeKeepsBronze, StoreKeepsBronze DEF Next, Step
<1>3. BronzeInv => EventsReachBronze
  BY DEF BronzeInv
<1> QED BY <1>1, <1>2, <1>3, LakehouseTypeCorrect, PTL DEF Spec
-----------------------------------------------------------------------------
(* Whose tables they are.                                                  *)

\* While no builds have overlapped: nobody else builds next to a build or to a gate,
\* a clearing run has emptied the tables behind it, a writing run has filled them and
\* finds the others empty, a run at its gate finds all of them its own.
Alone(r) == \A q \in Runs \ {r} : ~Building(q) /\ pc[q] # "gate"
ClearsBehind(r) == \A t \in Topics \ todo[r] : table[t] = None
WritesBehind(r) ==
  \A t \in Topics :
    IF t \in todo[r] THEN table[t] = None ELSE table[t] # None /\ table[t].by = r
OwnsTables(r) == \A t \in Topics : table[t] # None /\ table[t].by = r

BuildInv ==
  ~overlapped =>
    /\ \A r \in Runs : Building(r) => Alone(r)
    /\ \A r \in Runs : pc[r] = "clear" => ClearsBehind(r)
    /\ \A r \in Runs : pc[r] = "write" => WritesBehind(r)
    /\ \A r \in Runs : pc[r] = "gate" => OwnsTables(r)
    /\ OneBuild

\* A step that leaves the tables alone and takes its run out of a build, or no further
\* into one.
LEMMA BuildUntouched ==
  ASSUME TypeOK, BuildInv, NEW r \in Runs, UNCHANGED <<table, overlapped>>,
         pc'[r] # "write",
         pc'[r] = "clear" => todo'[r] = Topics,
         pc'[r] = "gate" => pc[r] = "gate",
         \A q \in Runs \ {r} : pc'[q] = pc[q] /\ todo'[q] = todo[q]
  PROVE  BuildInv'
<1> SUFFICES ASSUME ~overlapped PROVE BuildInv'
  BY DEF BuildInv
<1>1. ASSUME NEW q \in Runs, Building(q)' PROVE q # r /\ Building(q) /\ Alone(q)'
  <2>1. q # r /\ Building(q)
    BY <1>1 DEF Building
  <2>2. Alone(q)
    BY <2>1 DEF BuildInv
  <2>3. ASSUME NEW p \in Runs \ {q} PROVE ~Building(p)' /\ pc'[p] # "gate"
    BY <2>2, <2>3 DEF Alone, Building
  <2> QED BY <2>1, <2>3 DEF Alone
<1>2. ASSUME NEW q \in Runs, pc'[q] = "clear" PROVE ClearsBehind(q)'
  BY <1>2 DEF BuildInv, ClearsBehind
<1>3. ASSUME NEW q \in Runs, pc'[q] = "write" PROVE WritesBehind(q)'
  BY <1>3 DEF BuildInv, WritesBehind
<1>4. ASSUME NEW q \in Runs, pc'[q] = "gate" PROVE OwnsTables(q)'
  BY <1>4 DEF BuildInv, OwnsTables
<1>5. OneBuild'
  BY DEF BuildInv, OneBuild
<1> QED BY <1>1, <1>2, <1>3, <1>4, <1>5 DEF BuildInv

LEMMA ClearKeepsBuilds ==
  ASSUME TypeOK, BuildInv, NEW r \in Runs, clear_output_prefixes(r)
  PROVE  BuildInv'
<1>1. PICK t \in todo[r] : table' = Cleared(t) /\ Visit(r, t)
  BY DEF clear_output_prefixes
<1>2. pc[r] = "clear" /\ pc[r] \in Live /\ t \in Topics
  BY DEF clear_output_prefixes, Live, Steps, TypeOK
<1> SUFFICES ASSUME ~overlapped' PROVE BuildInv'
  BY DEF BuildInv
<1>3. ~overlapped /\ Alone(r)
  BY DEF clear_output_prefixes, Alone
<1>4. /\ table'[t] = None /\ \A u \in Topics \ {t} : table'[u] = table[u]
  BY <1>1, <1>2 DEF Cleared, TypeOK
<1>5. ClearsBehind(r)
  BY <1>2, <1>3 DEF BuildInv
<1>6. \A q \in Runs \ {r} : pc'[q] = pc[q] /\ todo'[q] = todo[q]
  BY <1>1, <1>2, VisitMoves
<1>7. \/ todo[r] = {t} /\ pc'[r] = "write" /\ todo'[r] = Topics
      \/ todo[r] # {t} /\ pc'[r] = "clear" /\ todo'[r] = todo[r] \ {t}
  BY <1>1, <1>2, VisitMoves, Chain
<1>8. Alone(r)'
  BY <1>3, <1>6 DEF Alone, Building
<1>9. ASSUME NEW q \in Runs, Building(q)' PROVE Alone(q)'
  <2>1. q = r
    BY <1>8, <1>9 DEF Alone
  <2> QED BY <2>1, <1>8
<1>10. ASSUME NEW q \in Runs, pc'[q] = "clear" PROVE ClearsBehind(q)'
  <2>1. CASE q = r
    BY <1>4, <1>5, <1>7, <1>10, <2>1 DEF ClearsBehind
  <2>2. CASE q # r
    <3>1. pc[q] = "clear" /\ todo'[q] = todo[q] /\ ~Building(q)
      BY <1>3, <1>6, <1>10, <2>2 DEF Alone
    <3>2. todo'[q] = Topics
      BY <3>1 DEF Building
    <3> QED BY <3>2 DEF ClearsBehind
  <2> QED BY <2>1, <2>2
<1>11. ASSUME NEW q \in Runs, pc'[q] = "write" PROVE WritesBehind(q)'
  <2>1. q = r
    BY <1>8, <1>11 DEF Alone, Building
  <2>2. todo[r] = {t} /\ todo'[r] = Topics
    BY <1>7, <1>11, <2>1
  <2>3. \A u \in Topics : table'[u] = None
    BY <1>4, <1>5, <2>2 DEF ClearsBehind
  <2> QED BY <2>1, <2>2, <2>3 DEF WritesBehind
<1>12. ASSUME NEW q \in Runs, pc'[q] = "gate" PROVE OwnsTables(q)'
  BY <1>7, <1>8, <1>12 DEF Alone
<1>13. OneBuild'
  BY <1>3, <1>4 DEF BuildInv, OneBuild
<1> QED BY <1>9, <1>10, <1>11, <1>12, <1>13 DEF BuildInv

LEMMA WriteKeepsBuilds ==
  ASSUME TypeOK, BuildInv, NEW r \in Runs, write_table(r)
  PROVE  BuildInv'
<1>1. PICK t \in todo[r], unread \in BOOLEAN :
        /\ table' = [table EXCEPT ![t] =
             [by |-> r, rows |-> IF unread THEN Nothing ELSE StreamRows(r, t)]]
        /\ Visit(r, t)
  BY DEF write_table
<1>2. pc[r] = "write" /\ pc[r] \in Live /\ t \in Topics
  BY DEF write_table, Live, Steps, TypeOK
<1> SUFFICES ASSUME ~overlapped' PROVE BuildInv'
  BY DEF BuildInv
<1>3. ~overlapped /\ Alone(r) /\ WritesBehind(r)
  BY <1>2 DEF write_table, BuildInv, Building
<1>4. /\ table'[t] = [by |-> r, rows |-> IF unread THEN Nothing ELSE StreamRows(r, t)]
      /\ \A u \in Topics \ {t} : table'[u] = table[u]
  BY <1>1, <1>2 DEF TypeOK
<1>5. table'[t] # None /\ table'[t].by = r
  <2>1. table'[t].by = r
    BY <1>4
  <2>2. table'[t] # None
    BY <1>2, <1>4, RowsType, StageOneAssumption DEF Contents, Nothing
  <2> QED BY <2>1, <2>2
<1>6. \A q \in Runs \ {r} : pc'[q] = pc[q] /\ todo'[q] = todo[q]
  BY <1>1, <1>2, VisitMoves
<1>7. \/ todo[r] = {t} /\ pc'[r] \in {"validate", "gate"}
      \/ todo[r] # {t} /\ pc'[r] = "write" /\ todo'[r] = todo[r] \ {t}
  BY <1>1, <1>2, VisitMoves, Chain
<1>8. Alone(r)'
  BY <1>3, <1>6 DEF Alone, Building
<1>9. ASSUME NEW q \in Runs, Building(q)' PROVE Alone(q)'
  <2>1. q = r
    BY <1>8, <1>9 DEF Alone
  <2> QED BY <2>1, <1>8
<1>10. ASSUME NEW q \in Runs, pc'[q] = "clear" PROVE ClearsBehind(q)'
  <2>1. q # r
    BY <1>7, <1>10
  <2>2. ~Building(q)' 
    BY <1>8, <2>1 DEF Alone
  <2> QED BY <1>10, <2>2 DEF Building, ClearsBehind
<1>11. ASSUME NEW q \in Runs, pc'[q] = "write" PROVE WritesBehind(q)'
  <2>1. q = r
    BY <1>8, <1>11 DEF Alone, Building
  <2>2. todo'[r] = todo[r] \ {t}
    BY <1>7, <1>11, <2>1
  <2> QED BY <1>3, <1>4, <1>5, <2>1, <2>2 DEF WritesBehind
<1>12. ASSUME NEW q \in Runs, pc'[q] = "gate" PROVE OwnsTables(q)'
  <2>1. q = r
    BY <1>8, <1>12 DEF Alone
  <2>2. todo[r] = {t}
    BY <1>7, <1>12, <2>1
  <2> QED BY <1>3, <1>4, <1>5, <2>1, <2>2 DEF WritesBehind, OwnsTables
<1>13. OneBuild'
  <2>1. \A u \in Topics : table'[u] # None => table'[u].by = r
    BY <1>3, <1>4, <1>5 DEF WritesBehind
  <2> QED BY <2>1 DEF OneBuild
<1> QED BY <1>9, <1>10, <1>11, <1>12, <1>13 DEF BuildInv

LEMMA FailureKeepsBuilds ==
  ASSUME TypeOK, BuildInv, NEW r \in Runs, Raise(r) \/ Fault(r)
  PROVE  BuildInv'
<1>1. pc[r] \in Live /\ Fail(r)
  BY DEF Raise, Fault, Live, Steps, TypeOK
<1>2. UNCHANGED overlapped
  BY <1>1 DEF Fail
<1> SUFFICES ASSUME ~overlapped PROVE BuildInv'
  BY <1>2 DEF BuildInv
<1>3. UNCHANGED table
  <2>1. CASE pc[r] = "write" /\ \E t \in todo[r] : table' = Cleared(t)
    <3>1. PICK t \in todo[r] : table' = Cleared(t)
      BY <2>1
    <3>2. t \in Topics /\ table[t] = None
      BY <2>1 DEF BuildInv, WritesBehind, TypeOK
    <3> QED BY <3>1, <3>2 DEF Cleared, TypeOK
  <2> QED BY <2>1 DEF Raise, Fault
<1>4. /\ pc'[r] # "write" /\ (pc'[r] = "gate" => pc[r] = "gate") /\ todo'[r] = Topics
      /\ \A q \in Runs \ {r} : pc'[q] = pc[q] /\ todo'[q] = todo[q]
  BY <1>1, FailMoves, Starts DEF Live, Steps
<1> QED BY <1>2, <1>3, <1>4, BuildUntouched

\* The builds of every behaviour.
THEOREM BuildInvariant == Spec => []BuildInv
<1>1. Init => BuildInv
  BY DEF Init, BuildInv, Building, ClearsBehind, OneBuild, Kinds
<1>2. TypeOK /\ BuildInv /\ [Next]_vars => BuildInv'
  <2> SUFFICES ASSUME TypeOK, BuildInv, [Next]_vars PROVE BuildInv'
    OBVIOUS
  <2>1. ASSUME NEW r \in Runs, ingest_batch_to_bronze(r) PROVE BuildInv'
    <3>1. pc[r] \in Live /\ Advance(r) /\ UNCHANGED <<table, overlapped, todo>>
      BY <2>1 DEF ingest_batch_to_bronze, Live, Steps, history
    <3>2. pc'[r] = "produce"
      BY <2>1, <3>1, AdvanceMoves, Chain DEF ingest_batch_to_bronze
    <3> QED BY <3>1, <3>2, AdvanceMoves, BuildUntouched
  <2>2. ASSUME NEW r \in Runs, produce_events(r) PROVE BuildInv'
    <3>1. pc[r] \in Live /\ Advance(r) /\ UNCHANGED <<table, overlapped, todo>>
      BY <2>2 DEF produce_events, Live, Steps, history
    <3>2. pc'[r] = "consume"
      BY <2>2, <3>1, AdvanceMoves, Chain DEF produce_events
    <3> QED BY <3>1, <3>2, AdvanceMoves, BuildUntouched
  <2>3. ASSUME NEW r \in Runs, consume_stage1_stream_events(r) PROVE BuildInv'
    <3>1. pc[r] \in Live /\ Loop(r) /\ UNCHANGED <<table, overlapped>>
      BY <2>3 DEF consume_stage1_stream_events, Live, Steps, history
    <3>2. pc'[r] = "store"
      BY <2>3, <3>1, LoopMoves, Chain DEF consume_stage1_stream_events
    <3> QED BY <3>1, <3>2, LoopMoves, BuildUntouched
  <2>4. ASSUME NEW r \in Runs, write_bronze_batch(r) PROVE BuildInv'
    <3>1. PICK t \in todo[r] : Visit(r, t)
      BY <2>4 DEF write_bronze_batch
    <3>2. pc[r] = "store" /\ pc[r] \in Live /\ UNCHANGED <<table, overlapped>>
      BY <2>4 DEF write_bronze_batch, Live, Steps
    <3>3. pc'[r] = "store" \/ (pc'[r] \in {"validate", "clear"} /\ todo'[r] = Topics)
      BY <3>1, <3>2, VisitMoves, Chain
    <3> QED BY <3>1, <3>2, <3>3, VisitMoves, BuildUntouched
  <2>5. ASSUME NEW r \in Runs, read_table(r) PROVE BuildInv'
    BY <2>5, BuildUntouched DEF read_table, history, TypeOK
  <2>6. ASSUME NEW r \in Runs, run_dq_checks(r) PROVE BuildInv'
    <3>1. pc[r] = "gate" /\ pc[r] \in Live /\ UNCHANGED <<table, overlapped>>
      BY <2>6 DEF run_dq_checks, Live, Steps
    <3>2. CASE Violated(r) = {}
      <4>1. Loop(r)
        BY <2>6, <3>2 DEF run_dq_checks
      <4>2. pc'[r] = "log"
        BY <3>1, <4>1, LoopMoves, Chain
      <4> QED BY <3>1, <4>1, <4>2, LoopMoves, BuildUntouched
    <3>3. CASE Violated(r) # {}
      <4>1. pc' = [pc EXCEPT ![r] = "failed"] /\ UNCHANGED todo
        BY <2>6, <3>3 DEF run_dq_checks
      <4> QED BY <3>1, <4>1, BuildUntouched DEF TypeOK
    <3> QED BY <3>2, <3>3
  <2>7. ASSUME NEW r \in Runs, write_postgres_metadata(r) PROVE BuildInv'
    <3>1. pc[r] \in Live /\ Advance(r) /\ UNCHANGED <<table, overlapped, todo>>
      BY <2>7 DEF write_postgres_metadata, Live, Steps, history
    <3>2. pc'[r] \in {"checkpoint", "report"}
      BY <2>7, <3>1, AdvanceMoves, Chain DEF write_postgres_metadata
    <3> QED BY <3>1, <3>2, AdvanceMoves, BuildUntouched
  <2>8. ASSUME NEW r \in Runs, run_check_task(r) PROVE BuildInv'
    <3>1. pc[r] \in Live /\ Loop(r) /\ UNCHANGED <<table, overlapped>>
      BY <2>8 DEF run_check_task, Live, Steps, history
    <3>2. pc'[r] \in {"batch", "clear", "publish", "done"}
      BY <2>8, <3>1, LoopMoves, Chain DEF run_check_task
    <3> QED BY <3>1, <3>2, LoopMoves, BuildUntouched
  <2>9. ASSUME NEW r \in Runs, run_duckdb_validation(r) PROVE BuildInv'
    <3>1. pc[r] = "report" /\ pc[r] \in Live /\ Loop(r) /\ UNCHANGED <<table, overlapped>>
      BY <2>9 DEF run_duckdb_validation, Live, Steps, history
    <3>2. pc'[r] = "done"
      BY <3>1, LoopMoves, Chain
    <3> QED BY <3>1, <3>2, LoopMoves, BuildUntouched
  <2>10. CASE UNCHANGED vars
    BY <2>10 DEF vars, local, history, BuildInv, Alone, Building, ClearsBehind, WritesBehind,
                OwnsTables, OneBuild
  <2> QED BY <2>1, <2>2, <2>3, <2>4, <2>5, <2>6, <2>7, <2>8, <2>9, <2>10, ClearKeepsBuilds,
             WriteKeepsBuilds, FailureKeepsBuilds DEF Next, Step
<1> QED BY <1>1, <1>2, LakehouseTypeCorrect, PTL DEF Spec

\* Builds that do not overlap never leave tables of two builds side by side.
THEOREM BuildsStayWhole == Spec => []OneBuild
<1>1. BuildInv => OneBuild
  BY DEF BuildInv, OneBuild
<1> QED BY <1>1, BuildInvariant, PTL
-----------------------------------------------------------------------------
(* What the records say.                                                   *)

\* A run at its gate has read every table behind it, a table of its own unless builds
\* overlapped; the checkpoint is written after the run.
ReadBehind(r) ==
  \A t \in Topics \ todo[r] : seen[r][t] # None /\ (~overlapped => seen[r][t].by = r)

PastGate == {"log", "checkpoint", "report", "done"}

\* The tasks of the other two DAGs that write nothing.
Checks == {"resolve", "validate", "publish"}

RecordsInv ==
  /\ \A r \in Runs : kind[r] = "e2e" => pc[r] \notin Checks
  /\ \A r \in Runs : pc[r] = "gate" => ReadBehind(r)
  /\ \A r \in Runs : pc[r] = "checkpoint" => r \in runlog
  /\ RecordsAreTrue

\* A step that writes no record, reads no table and brings no run to its gate, or past
\* it, with tables unread.
LEMMA RecordsUntouched ==
  ASSUME TypeOK, RecordsInv, NEW r \in Runs,
         UNCHANGED <<kind, seen, metadata, rejected>>, overlapped => overlapped',
         pc'[r] = "gate" => todo'[r] = Topics,
         pc'[r] # "checkpoint",
         pc'[r] \in PastGate => kind[r] # "e2e" \/ pc[r] \in PastGate,
         pc'[r] \in Checks => kind[r] # "e2e" \/ pc[r] \in Checks,
         \A q \in Runs \ {r} : pc'[q] = pc[q] /\ todo'[q] = todo[q]
  PROVE  RecordsInv'
<1>0. \A q \in Runs : kind'[q] = "e2e" => pc'[q] \notin Checks
  BY DEF RecordsInv
<1>1. ASSUME NEW q \in Runs, pc'[q] = "gate" PROVE ReadBehind(q)'
  <2>1. CASE q = r
    BY <1>1, <2>1 DEF ReadBehind
  <2>2. CASE q # r
    BY <1>1, <2>2 DEF RecordsInv, ReadBehind
  <2> QED BY <2>1, <2>2
<1>2. \A q \in Runs : pc'[q] = "checkpoint" => q \in runlog'
  BY DEF RecordsInv, metadata, Checks
<1>3. GateCertifies'
  <2> SUFFICES ASSUME NEW q \in Runs, kind[q] = "e2e", pc'[q] \in PastGate
               PROVE  \A t \in Topics : /\ seen[q][t] # None
                                        /\ \A e \in Events : seen[q][t].rows[e] <= 1
                                        /\ ~overlapped' => seen[q][t].by = q
    BY DEF GateCertifies, PastGate
  <2>1. pc[q] \in PastGate
    OBVIOUS
  <2> QED BY <2>1 DEF RecordsInv, RecordsAreTrue, GateCertifies, PastGate
<1>4. RejectionIsRecorded' /\ CheckpointIsLogged'
  BY DEF RecordsInv, RecordsAreTrue, RejectionIsRecorded, CheckpointIsLogged, metadata
<1> QED BY <1>0, <1>1, <1>2, <1>3, <1>4 DEF RecordsInv, RecordsAreTrue

LEMMA ReadKeepsRecords ==
  ASSUME TypeOK, BuildInv, RecordsInv, NEW r \in Runs, read_table(r)
  PROVE  RecordsInv'
<1>1. PICK t \in todo[r] :
        /\ table[t] # None
        /\ seen' = [seen EXCEPT ![r][t] = table[t]]
        /\ todo' = [todo EXCEPT ![r] = @ \ {t}]
  BY DEF read_table
<1>2. /\ pc[r] = "gate" /\ t \in Topics
      /\ UNCHANGED <<kind, pc, dq, runlog, checkpoint, rejected, overlapped>>
  BY DEF read_table, metadata, history, TypeOK
<1>3. /\ seen'[r][t] = table[t]
      /\ \A u \in Topics \ {t} : seen'[r][u] = seen[r][u]
      /\ \A q \in Runs \ {r} : seen'[q] = seen[q] /\ todo'[q] = todo[q]
      /\ todo'[r] = todo[r] \ {t}
  BY <1>1, <1>2 DEF TypeOK
<1>4. ~overlapped => table[t].by = r
  BY <1>2 DEF BuildInv, OwnsTables
<1>5. ASSUME NEW q \in Runs, pc'[q] = "gate" PROVE ReadBehind(q)'
  <2>1. CASE q = r
    <3> SUFFICES ASSUME NEW u \in Topics \ todo'[r]
                 PROVE  seen'[r][u] # None /\ (~overlapped => seen'[r][u].by = r)
      BY <1>2, <2>1 DEF ReadBehind
    <3>1. CASE u = t
      BY <1>1, <1>3, <1>4, <3>1
    <3>2. CASE u # t
      BY <1>2, <1>3, <3>2 DEF RecordsInv, ReadBehind
    <3> QED BY <3>1, <3>2
  <2>2. CASE q # r
    BY <1>2, <1>3, <1>5, <2>2 DEF RecordsInv, ReadBehind
  <2> QED BY <2>1, <2>2
<1>6. GateCertifies'
  <2> SUFFICES ASSUME NEW q \in Runs, kind[q] = "e2e", pc[q] \in PastGate
               PROVE  \A u \in Topics : /\ seen'[q][u] # None
                                        /\ \A e \in Events : seen'[q][u].rows[e] <= 1
                                        /\ ~overlapped => seen'[q][u].by = q
    BY <1>2 DEF GateCertifies, PastGate
  <2>1. seen'[q] = seen[q]
    BY <1>2, <1>3 DEF PastGate
  <2> QED BY <2>1 DEF RecordsInv, RecordsAreTrue, GateCertifies, PastGate
<1>7. RejectionIsRecorded' /\ CheckpointIsLogged'
  BY <1>2 DEF RecordsInv, RecordsAreTrue, RejectionIsRecorded, CheckpointIsLogged
<1>8. /\ \A q \in Runs : pc'[q] = "checkpoint" => q \in runlog'
      /\ \A q \in Runs : kind'[q] = "e2e" => pc'[q] \notin Checks
  BY <1>2 DEF RecordsInv
<1> QED BY <1>5, <1>6, <1>7, <1>8 DEF RecordsInv, RecordsAreTrue

LEMMA GateKeepsRecords ==
  ASSUME TypeOK, RecordsInv, NEW r \in Runs, run_dq_checks(r)
  PROVE  RecordsInv'
<1>1. /\ pc[r] = "gate" /\ pc[r] \in Live /\ todo[r] = {}
      /\ UNCHANGED <<kind, seen, runlog, checkpoint, overlapped>>
      /\ dq' = log_dq_result(r)
  BY DEF run_dq_checks, Live, Steps
<1>2. /\ pc'[r] \in {"log", "failed"}
      /\ pc'[r] = "log" => Violated(r) = {}
      /\ \A q \in Runs \ {r} : pc'[q] = pc[q] /\ todo'[q] = todo[q]
      /\ rejected' = IF Violated(r) = {} THEN rejected ELSE rejected \cup {r}
  <2>1. CASE Violated(r) = {}
    BY <1>1, <2>1, LoopMoves, Chain DEF run_dq_checks
  <2>2. CASE Violated(r) # {}
    BY <1>1, <2>2 DEF run_dq_checks, TypeOK
  <2> QED BY <2>1, <2>2
<1>3. \A q \in Runs : pc'[q] = "gate" => ReadBehind(q)'
  <2> SUFFICES ASSUME NEW q \in Runs, pc'[q] = "gate" PROVE ReadBehind(q)'
    OBVIOUS
  <2>1. q # r /\ pc[q] = "gate" /\ todo'[q] = todo[q]
    BY <1>2
  <2> QED BY <1>1, <2>1 DEF RecordsInv, ReadBehind
<1>4. /\ \A q \in Runs : pc'[q] = "checkpoint" => q \in runlog'
      /\ \A q \in Runs : kind'[q] = "e2e" => pc'[q] \notin Checks
  BY <1>1, <1>2 DEF RecordsInv, Checks
<1>5. GateCertifies'
  <2> SUFFICES ASSUME NEW q \in Runs, kind[q] = "e2e", pc'[q] \in PastGate
               PROVE  \A t \in Topics : /\ seen[q][t] # None
                                        /\ \A e \in Events : seen[q][t].rows[e] <= 1
                                        /\ ~overlapped => seen[q][t].by = q
    BY <1>1 DEF GateCertifies, PastGate
  <2>1. CASE q = r
    <3>1. \A t \in Topics : seen[r][t] # None /\ (~overlapped => seen[r][t].by = r)
      BY <1>1 DEF RecordsInv, ReadBehind
    <3>2. \A t \in Topics : check_unique(seen[r][t], t)
      BY <1>2, <2>1 DEF Violated, PastGate
    <3> QED BY <2>1, <3>1, <3>2 DEF check_unique
  <2>2. CASE q # r
    BY <1>2, <2>2 DEF RecordsInv, RecordsAreTrue, GateCertifies, PastGate
  <2> QED BY <2>1, <2>2
<1>6. RejectionIsRecorded'
  <2> SUFFICES ASSUME NEW q \in rejected' PROVE \E t \in Topics : <<q, t>> \in dq'
    BY DEF RejectionIsRecorded
  <2>1. CASE q \in rejected
    BY <1>1, <2>1 DEF RecordsInv, RecordsAreTrue, RejectionIsRecorded, log_dq_result
  <2>2. CASE q \notin rejected
    <3>1. q = r /\ Violated(r) # {}
      BY <1>2, <2>2
    <3> QED BY <1>1, <3>1 DEF log_dq_result, Violated
  <2> QED BY <2>1, <2>2
<1>7. CheckpointIsLogged'
  BY <1>1 DEF RecordsInv, RecordsAreTrue, CheckpointIsLogged
<1> QED BY <1>3, <1>4, <1>5, <1>6, <1>7 DEF RecordsInv, RecordsAreTrue

LEMMA MetadataKeepsRecords ==
  ASSUME TypeOK, RecordsInv, NEW r \in Runs, write_postgres_metadata(r)
  PROVE  RecordsInv'
<1>1. /\ pc[r] \in {"log", "checkpoint"} /\ pc[r] \in Live /\ _execute(r) /\ Advance(r)
      /\ UNCHANGED <<kind, seen, todo, dq, rejected, overlapped>>
  BY DEF write_postgres_metadata, Live, Steps, history
<1>2. /\ \/ pc[r] = "log" /\ pc'[r] = "checkpoint" /\ runlog' = runlog \cup {r} /\ checkpoint' = checkpoint
         \/ pc[r] = "checkpoint" /\ pc'[r] = "report" /\ runlog' = runlog /\ checkpoint' = r
      /\ \A q \in Runs \ {r} : pc'[q] = pc[q]
  BY <1>1, AdvanceMoves, Chain DEF _execute
<1>3. \A q \in Runs : pc'[q] = "gate" => ReadBehind(q)'
  BY <1>1, <1>2 DEF RecordsInv, ReadBehind
<1>4. /\ \A q \in Runs : pc'[q] = "checkpoint" => q \in runlog'
      /\ \A q \in Runs : kind'[q] = "e2e" => pc'[q] \notin Checks
  BY <1>1, <1>2 DEF RecordsInv, Checks
<1>5. CheckpointIsLogged'
  BY <1>2 DEF RecordsInv, RecordsAreTrue, CheckpointIsLogged
<1>6. RejectionIsRecorded'
  BY <1>1 DEF RecordsInv, RecordsAreTrue, RejectionIsRecorded
<1>7. GateCertifies'
  <2> SUFFICES ASSUME NEW q \in Runs, kind[q] = "e2e", pc'[q] \in PastGate
               PROVE  \A t \in Topics : /\ seen[q][t] # None
                                        /\ \A e \in Events : seen[q][t].rows[e] <= 1
                                        /\ ~overlapped => seen[q][t].by = q
    BY <1>1 DEF GateCertifies, PastGate
  <2>1. pc[q] \in PastGate
    BY <1>2 DEF PastGate
  <2> QED BY <2>1 DEF RecordsInv, RecordsAreTrue, GateCertifies, PastGate
<1> QED BY <1>3, <1>4, <1>5, <1>6, <1>7 DEF RecordsInv, RecordsAreTrue

\* What the metadata say of a run is so, whatever overlapped, failed or was retried.
THEOREM RecordsAreRight == Spec => []RecordsAreTrue
<1>1. Init => RecordsInv
  BY DEF Init, RecordsInv, RecordsAreTrue, GateCertifies, RejectionIsRecorded,
         CheckpointIsLogged, Kinds, Checks
<1>2. TypeOK /\ BuildInv /\ RecordsInv /\ [Next]_vars => RecordsInv'
  <2> SUFFICES ASSUME TypeOK, BuildInv, RecordsInv, [Next]_vars PROVE RecordsInv'
    OBVIOUS
  <2>1. ASSUME NEW r \in Runs, ingest_batch_to_bronze(r) PROVE RecordsInv'
    <3>1. /\ pc[r] \in Live /\ Advance(r)
          /\ UNCHANGED <<kind, seen, metadata, rejected, overlapped, todo>>
      BY <2>1 DEF ingest_batch_to_bronze, Live, Steps, history
    <3>2. pc'[r] = "produce"
      BY <2>1, <3>1, AdvanceMoves, Chain DEF ingest_batch_to_bronze
    <3> QED BY <3>1, <3>2, AdvanceMoves, RecordsUntouched DEF PastGate, Checks
  <2>2. ASSUME NEW r \in Runs, produce_events(r) PROVE RecordsInv'
    <3>1. /\ pc[r] \in Live /\ Advance(r)
          /\ UNCHANGED <<kind, seen, metadata, rejected, overlapped, todo>>
      BY <2>2 DEF produce_events, Live, Steps, history
    <3>2. pc'[r] = "consume"
      BY <2>2, <3>1, AdvanceMoves, Chain DEF produce_events
    <3> QED BY <3>1, <3>2, AdvanceMoves, RecordsUntouched DEF PastGate, Checks
  <2>3. ASSUME NEW r \in Runs, consume_stage1_stream_events(r) PROVE RecordsInv'
    <3>1. /\ pc[r] \in Live /\ Loop(r)
          /\ UNCHANGED <<kind, seen, metadata, rejected, overlapped>>
      BY <2>3 DEF consume_stage1_stream_events, Live, Steps, history
    <3>2. pc'[r] = "store"
      BY <2>3, <3>1, LoopMoves, Chain DEF consume_stage1_stream_events
    <3> QED BY <3>1, <3>2, LoopMoves, RecordsUntouched DEF PastGate, Checks
  <2>4. ASSUME NEW r \in Runs, write_bronze_batch(r) PROVE RecordsInv'
    <3>1. PICK t \in todo[r] : Visit(r, t)
      BY <2>4 DEF write_bronze_batch
    <3>2. /\ pc[r] = "store" /\ pc[r] \in Live
          /\ UNCHANGED <<kind, seen, metadata, rejected, overlapped>>
      BY <2>4 DEF write_bronze_batch, Live, Steps
    <3>3. /\ pc'[r] \in {"store", "clear", "validate"}
          /\ pc'[r] = "validate" => kind[r] # "e2e"
      BY <3>1, <3>2, VisitMoves, Chain
    <3> QED BY <3>1, <3>2, <3>3, VisitMoves, RecordsUntouched DEF PastGate, Checks
  <2>5. ASSUME NEW r \in Runs, clear_output_prefixes(r) PROVE RecordsInv'
    <3>1. PICK t \in todo[r] : Visit(r, t)
      BY <2>5 DEF clear_output_prefixes
    <3>2. /\ pc[r] = "clear" /\ pc[r] \in Live /\ (overlapped => overlapped')
          /\ UNCHANGED <<kind, seen, metadata, rejected>>
      BY <2>5 DEF clear_output_prefixes, Live, Steps
    <3>3. pc'[r] \in {"clear", "write"}
      BY <3>1, <3>2, VisitMoves, Chain
    <3> QED BY <3>1, <3>2, <3>3, VisitMoves, RecordsUntouched DEF PastGate, Checks
  <2>6. ASSUME NEW r \in Runs, write_table(r) PROVE RecordsInv'
    <3>1. PICK t \in todo[r] : Visit(r, t)
      BY <2>6 DEF write_table
    <3>2. /\ pc[r] = "write" /\ pc[r] \in Live
          /\ UNCHANGED <<kind, seen, metadata, rejected, overlapped>>
      BY <2>6 DEF write_table, Live, Steps
    <3>3. /\ pc'[r] \in {"write", "gate", "validate"}
          /\ pc'[r] = "gate" => todo'[r] = Topics
          /\ pc'[r] = "validate" => kind[r] # "e2e"
      BY <3>1, <3>2, VisitMoves, Chain
    <3> QED BY <3>1, <3>2, <3>3, VisitMoves, RecordsUntouched DEF PastGate, Checks
  <2>7. ASSUME NEW r \in Runs, Raise(r) \/ Fault(r) PROVE RecordsInv'
    <3>1. pc[r] \in Live /\ Fail(r)
      BY <2>7 DEF Raise, Fault, Live, Steps, TypeOK
    <3>2. /\ pc'[r] # "checkpoint" /\ pc'[r] # "done" /\ todo'[r] = Topics
          /\ pc'[r] = "log" => pc[r] \in {"log", "checkpoint"}
          /\ pc'[r] = "report" => pc[r] = "report"
          /\ pc'[r] \in Checks => pc'[r] = pc[r]
      BY <3>1, FailMoves, Starts DEF Live, Steps, Checks
    <3>3. UNCHANGED <<kind, seen, metadata, rejected, overlapped>>
      BY <3>1, <2>7 DEF Fail
    <3> QED BY <3>1, <3>2, <3>3, FailMoves, RecordsUntouched DEF PastGate, Checks
  <2>8. ASSUME NEW r \in Runs, run_check_task(r) PROVE RecordsInv'
    <3>1. /\ pc[r] \in Checks /\ pc[r] \in Live /\ Loop(r)
          /\ UNCHANGED <<kind, seen, metadata, rejected, overlapped>>
      BY <2>8 DEF run_check_task, Live, Steps, Checks, history
    <3>2. kind[r] # "e2e" /\ pc'[r] \in {"batch", "clear", "publish", "done"}
      BY <3>1, LoopMoves, Chain DEF RecordsInv, Checks
    <3> QED BY <3>1, <3>2, LoopMoves, RecordsUntouched
  <2>9. ASSUME NEW r \in Runs, run_duckdb_validation(r) PROVE RecordsInv'
    <3>1. /\ pc[r] = "report" /\ pc[r] \in Live /\ Loop(r)
          /\ UNCHANGED <<kind, seen, metadata, rejected, overlapped>>
      BY <2>9 DEF run_duckdb_validation, Live, Steps, history
    <3>2. pc'[r] = "done"
      BY <3>1, LoopMoves, Chain
    <3> QED BY <3>1, <3>2, LoopMoves, RecordsUntouched DEF PastGate, Checks
  <2>10. CASE UNCHANGED vars
    BY <2>10 DEF vars, local, metadata, history, RecordsInv, ReadBehind, RecordsAreTrue,
                GateCertifies, RejectionIsRecorded, CheckpointIsLogged
  <2> QED BY <2>1, <2>2, <2>3, <2>4, <2>5, <2>6, <2>7, <2>8, <2>9, <2>10, ReadKeepsRecords,
             GateKeepsRecords, MetadataKeepsRecords DEF Next, Step
<1>3. RecordsInv => RecordsAreTrue
  BY DEF RecordsInv
<1> QED BY <1>1, <1>2, <1>3, LakehouseTypeCorrect, BuildInvariant, PTL DEF Spec
-----------------------------------------------------------------------------
(* The Gold tables: what arrives in Bronze.                                *)

StatementRow == [report_period : Quarters, created_ts : Versions, figures : Profiles,
                 event_timestamp : Nat \cup {Null}]
PriceRow == [event_timestamp : Moments, created_ts : Versions]
CompanyRow == [created_ts : Versions, attributes : Attributes, delisted_flag : BOOLEAN \cup {Null}]

\* Among any of the rows one is the newest, and one the oldest.  That a finite set of
\* numbers has a maximum is an induction; that rows keep it when one more arrives is not.
HasNewest(rows) ==
  \A some \in SUBSET rows :
    some # {} => \E r \in some : \A s \in some : s.created_ts <= r.created_ts
HasOldest(rows) ==
  \A some \in SUBSET rows :
    some # {} => \E r \in some : \A s \in some : r.created_ts <= s.created_ts

StatementsInv ==
  /\ statements \subseteq StatementRow
  /\ \A r \in statements : r.event_timestamp \in {Null, Release[r.report_period]}
  /\ \A r, s \in statements :
       r.report_period = s.report_period /\ r.created_ts = s.created_ts => r = s
  /\ HasNewest(statements)

PricesInv ==
  /\ prices \subseteq PriceRow
  /\ \A p, o \in prices : TradingDate(p) = TradingDate(o) /\ p.created_ts = o.created_ts => p = o
  /\ HasNewest(prices)

CompaniesInv ==
  /\ companies \subseteq CompanyRow
  /\ \A c, d \in companies : c.created_ts = d.created_ts => c = d
  /\ HasNewest(companies) /\ HasOldest(companies)

RowsInv == StatementsInv /\ PricesInv /\ CompaniesInv

LEMMA NewestOfMore ==
  ASSUME NEW rows, NEW x, HasNewest(rows), \A r \in rows \cup {x} : r.created_ts \in Nat
  PROVE  HasNewest(rows \cup {x})
<1> SUFFICES ASSUME NEW some \in SUBSET (rows \cup {x}), some # {}
             PROVE  \E r \in some : \A s \in some : s.created_ts <= r.created_ts
  BY DEF HasNewest
<1>1. CASE some \ {x} = {}
  BY <1>1
<1>2. CASE some \ {x} # {}
  <2>1. PICK m \in some \ {x} : \A s \in some \ {x} : s.created_ts <= m.created_ts
    BY <1>2 DEF HasNewest
  <2>2. CASE x \in some /\ x.created_ts > m.created_ts
    BY <2>1, <2>2
  <2>3. CASE ~(x \in some /\ x.created_ts > m.created_ts)
    BY <2>1, <2>3
  <2> QED BY <2>2, <2>3
<1> QED BY <1>1, <1>2

LEMMA OldestOfMore ==
  ASSUME NEW rows, NEW x, HasOldest(rows), \A r \in rows \cup {x} : r.created_ts \in Nat
  PROVE  HasOldest(rows \cup {x})
<1> SUFFICES ASSUME NEW some \in SUBSET (rows \cup {x}), some # {}
             PROVE  \E r \in some : \A s \in some : r.created_ts <= s.created_ts
  BY DEF HasOldest
<1>1. CASE some \ {x} = {}
  BY <1>1
<1>2. CASE some \ {x} # {}
  <2>1. PICK m \in some \ {x} : \A s \in some \ {x} : m.created_ts <= s.created_ts
    BY <1>2 DEF HasOldest
  <2>2. CASE x \in some /\ x.created_ts < m.created_ts
    BY <2>1, <2>2
  <2>3. CASE ~(x \in some /\ x.created_ts < m.created_ts)
    BY <2>1, <2>3
  <2> QED BY <2>2, <2>3
<1> QED BY <1>1, <1>2

\* The rows that have arrived are typed and told apart by their keys and created_ts.
THEOREM RowsInvariant == GoldSpec => []RowsInv
<1>1. GoldInit => RowsInv
  BY DEF GoldInit, RowsInv, StatementsInv, PricesInv, CompaniesInv, HasNewest, HasOldest
<1>2. RowsInv /\ [GoldNext]_goldVars => RowsInv'
  <2> SUFFICES ASSUME RowsInv, [GoldNext]_goldVars PROVE RowsInv'
    OBVIOUS
  <2>1. ASSUME NEW q \in Quarters, NEW v \in Versions, NEW figures \in Profiles,
               StatementArrives(q, v, figures)
        PROVE  RowsInv'
    <3> DEFINE row == [report_period |-> q, created_ts |-> v, figures |-> figures,
                       event_timestamp |-> IF figures.dated THEN Release[q] ELSE Null]
    <3>1. statements' = statements \cup {row} /\ UNCHANGED <<prices, companies>>
      BY <2>1 DEF StatementArrives
    <3>2. row \in StatementRow /\ row.event_timestamp \in {Null, Release[row.report_period]}
      BY GoldAssumption DEF StatementRow
    <3>3. \A r \in statements : r.report_period # row.report_period \/ r.created_ts # row.created_ts
      BY <2>1 DEF StatementArrives
    <3> HIDE DEF row
    <3>4. HasNewest(statements \cup {row})
      <4>1. \A r \in statements \cup {row} : r.created_ts \in Nat
        BY <3>2, GoldAssumption DEF RowsInv, StatementsInv, StatementRow
      <4> QED BY <4>1, NewestOfMore DEF RowsInv, StatementsInv
    <3>5. StatementsInv'
      BY <3>1, <3>2, <3>3, <3>4 DEF RowsInv, StatementsInv
    <3>6. PricesInv' /\ CompaniesInv'
      BY <3>1 DEF RowsInv, PricesInv, CompaniesInv, TradingDate, Day
    <3> QED BY <3>5, <3>6 DEF RowsInv
  <2>2. ASSUME NEW t \in Moments, NEW v \in Versions, PriceArrives(t, v)
        PROVE  RowsInv'
    <3> DEFINE row == [event_timestamp |-> t, created_ts |-> v]
    <3>1. prices' = prices \cup {row} /\ UNCHANGED <<statements, companies>>
      BY <2>2 DEF PriceArrives
    <3>2. row \in PriceRow
      BY DEF PriceRow
    <3>3. \A p \in prices : TradingDate(p) # TradingDate(row) \/ p.created_ts # row.created_ts
      BY <2>2 DEF PriceArrives, TradingDate
    <3> HIDE DEF row
    <3>4. HasNewest(prices \cup {row})
      <4>1. \A r \in prices \cup {row} : r.created_ts \in Nat
        BY <3>2, GoldAssumption DEF RowsInv, PricesInv, PriceRow
      <4> QED BY <4>1, NewestOfMore DEF RowsInv, PricesInv
    <3>5. PricesInv'
      BY <3>1, <3>2, <3>3, <3>4 DEF RowsInv, PricesInv
    <3>6. StatementsInv' /\ CompaniesInv'
      BY <3>1 DEF RowsInv, StatementsInv, CompaniesInv
    <3> QED BY <3>5, <3>6 DEF RowsInv
  <2>3. ASSUME NEW v \in Versions, NEW attributes \in Attributes, NEW flag \in BOOLEAN \cup {Null},
               SnapshotArrives(v, attributes, flag)
        PROVE  RowsInv'
    <3> DEFINE row == [created_ts |-> v, attributes |-> attributes, delisted_flag |-> flag]
    <3>1. companies' = companies \cup {row} /\ UNCHANGED <<statements, prices>>
      BY <2>3 DEF SnapshotArrives
    <3>2. row \in CompanyRow
      BY DEF CompanyRow
    <3>3. \A c \in companies : c.created_ts # row.created_ts
      BY <2>3 DEF SnapshotArrives
    <3> HIDE DEF row
    <3>4. HasNewest(companies \cup {row}) /\ HasOldest(companies \cup {row})
      <4>1. \A r \in companies \cup {row} : r.created_ts \in Nat
        BY <3>2, GoldAssumption DEF RowsInv, CompaniesInv, CompanyRow
      <4> QED BY <4>1, NewestOfMore, OldestOfMore DEF RowsInv, CompaniesInv
    <3>5. CompaniesInv'
      BY <3>1, <3>2, <3>3, <3>4 DEF RowsInv, CompaniesInv
    <3>6. StatementsInv' /\ PricesInv'
      BY <3>1 DEF RowsInv, StatementsInv, PricesInv, TradingDate, Day
    <3> QED BY <3>5, <3>6 DEF RowsInv
  <2>4. CASE UNCHANGED goldVars
    BY <2>4 DEF goldVars, RowsInv, StatementsInv, PricesInv, CompaniesInv, TradingDate, Day
  <2> QED BY <2>1, <2>2, <2>3, <2>4 DEF GoldNext
<1> QED BY <1>1, <1>2, PTL DEF GoldSpec

-----------------------------------------------------------------------------
(* Silver: the two programs keep the same rows.                            *)

\* What both keep of rows with the given keys.
LEMMA SilverAgrees ==
  ASSUME NEW rows, NEW key, DOMAIN key = rows, HasNewest(rows),
         \A r \in rows : r.created_ts \in Nat,
         \A r, s \in rows : key[r] = key[s] /\ r.created_ts = s.created_ts => r = s
  PROVE  bronze_to_silver_spark(key) = deduplicate_latest(key)
<1> DEFINE Like(r) == {s \in rows : key[s] = key[r]}
<1>1. ASSUME NEW r \in rows
      PROVE  /\ Newest(Like(r)) \in rows /\ key[Newest(Like(r))] = key[r]
             /\ \A s \in Like(r) : s.created_ts <= Newest(Like(r)).created_ts
  <2>1. \E m \in Like(r) : \A s \in Like(r) : s.created_ts <= m.created_ts
    <3>1. Like(r) # {} /\ Like(r) \in SUBSET rows
      OBVIOUS
    <3> HIDE DEF Like
    <3> QED BY <3>1 DEF HasNewest
  <2>2. /\ Newest(Like(r)) \in Like(r)
        /\ \A s \in Like(r) : s.created_ts <= Newest(Like(r)).created_ts
    <3> HIDE DEF Like
    <3> QED BY <2>1 DEF Newest
  <2> QED BY <2>2
<1>2. ASSUME NEW r \in deduplicate_latest(key) PROVE r = Newest(Like(r))
  <2>1. r \in rows /\ \A s \in Like(r) : s.created_ts <= r.created_ts
    BY <1>2 DEF deduplicate_latest
  <2>2. r.created_ts = Newest(Like(r)).created_ts
    <3>1. r.created_ts <= Newest(Like(r)).created_ts /\ Newest(Like(r)).created_ts <= r.created_ts
      BY <1>1, <2>1
    <3>2. r.created_ts \in Nat /\ Newest(Like(r)).created_ts \in Nat
      BY <1>1, <2>1
    <3> HIDE DEF Like
    <3> QED BY <3>1, <3>2
  <2> QED BY <1>1, <2>1, <2>2
<1>3. ASSUME NEW r \in rows PROVE Newest(Like(r)) \in deduplicate_latest(key)
  <2> DEFINE m == Newest(Like(r))
  <2>1. m \in rows /\ key[m] = key[r] /\ \A s \in Like(r) : s.created_ts <= m.created_ts
    BY <1>1
  <2> HIDE DEF m
  <2>2. \A s \in rows : key[s] = key[m] => s.created_ts <= m.created_ts
    BY <2>1
  <2>3. m \in deduplicate_latest(key)
    BY <2>1, <2>2 DEF deduplicate_latest
  <2> QED BY <2>3 DEF m
<1>4. bronze_to_silver_spark(key) = {Newest(Like(r)) : r \in rows}
  BY DEF bronze_to_silver_spark
<1>5. deduplicate_latest(key) \subseteq rows
  BY DEF deduplicate_latest
<1> HIDE DEF Like
<1> QED BY <1>2, <1>3, <1>4, <1>5
-----------------------------------------------------------------------------
(* Facts.                                                                  *)

\* The columns of a fact row, the required ones never null, and none of a sector.
FactTyped(f) ==
  /\ f.report_period \in Quarters /\ f.report_period \in Int
  /\ f.report_release_date = Release[f.report_period]
  /\ f.event_timestamp \in {Null, Release[f.report_period]}
  /\ f.total_assets \in Int /\ f.total_liabilities \in Int /\ f.equity \in Int
  /\ \A n \in {f.current_assets, f.current_liabilities, f.retained_earnings, f.ebit,
               f.interest_expense, f.net_income} : n \in Figure
  /\ DOMAIN f \cap (SectorTexts \cup SectorCodes) = {}

OnePerPeriod(facts) == \A f, g \in facts : Period(f) = Period(g) => f = g

\* The facts of rows that Silver accepts.
FactsFrom(sound) == {Fact(r) : r \in deduplicate_latest(ByPeriod(sound))}

LEMMA FactsFromSound ==
  ASSUME RowsInv, NEW sound \in SUBSET align_to_schema(statements)
  PROVE  /\ bronze_to_silver_spark(ByPeriod(sound)) = deduplicate_latest(ByPeriod(sound))
         /\ \A f \in FactsFrom(sound) : FactTyped(f)
         /\ OnePerPeriod(FactsFrom(sound))
<1> DEFINE key == ByPeriod(sound)
<1>1. sound \subseteq statements
  BY DEF align_to_schema
<1>2. DOMAIN key = sound /\ \A r \in sound : key[r] = r.report_period
  BY DEF ByPeriod, Period
<1>3. HasNewest(sound) /\ \A r \in sound : r.created_ts \in Nat
  BY <1>1, GoldAssumption DEF RowsInv, StatementsInv, StatementRow, HasNewest
<1>4. \A r, s \in sound : key[r] = key[s] /\ r.created_ts = s.created_ts => r = s
  <2> HIDE DEF key
  <2> QED BY <1>1, <1>2 DEF RowsInv, StatementsInv
<1>5. bronze_to_silver_spark(key) = deduplicate_latest(key)
  <2> HIDE DEF key
  <2> QED BY <1>2, <1>3, <1>4, SilverAgrees
<1>7. ASSUME NEW f \in FactsFrom(sound)
      PROVE  \E r \in sound : r \in deduplicate_latest(key) /\ f = Fact(r)
  BY <1>7 DEF FactsFrom, deduplicate_latest, ByPeriod
<1>8. ASSUME NEW f \in FactsFrom(sound) PROVE FactTyped(f)
  <2>1. PICK r \in sound : f = Fact(r)
    BY <1>7
  <2>2. /\ r \in StatementRow /\ r.figures \in Figures
        /\ r.event_timestamp \in {Null, Release[r.report_period]}
        /\ Null \notin {r.figures.total_assets, r.figures.total_liabilities, r.figures.equity}
    BY <1>1, GoldAssumption DEF RowsInv, StatementsInv, StatementRow, align_to_schema
  <2>3. r.report_period \in Quarters /\ r.report_period \in Int
    BY <2>2, GoldAssumption DEF StatementRow
  <2>4. DOMAIN f \cap (SectorTexts \cup SectorCodes) = {}
    BY <2>1 DEF Fact, SectorTexts, SectorCodes
  <2> QED BY <2>1, <2>2, <2>3, <2>4 DEF Fact, FactTyped, Figures, Figure
<1>9. ASSUME NEW f \in FactsFrom(sound), NEW g \in FactsFrom(sound), Period(f) = Period(g)
      PROVE  f = g
  <2>1. PICK r \in sound : r \in deduplicate_latest(key) /\ f = Fact(r)
    BY <1>7
  <2>2. PICK s \in sound : s \in deduplicate_latest(key) /\ g = Fact(s)
    BY <1>7
  <2>3. key[r] = key[s]
    BY <1>2, <1>9, <2>1, <2>2 DEF Fact, Period
  <2>4. r.created_ts <= s.created_ts /\ s.created_ts <= r.created_ts
    <3> HIDE DEF key
    <3> QED BY <1>2, <2>1, <2>2, <2>3 DEF deduplicate_latest
  <2>5. r.created_ts = s.created_ts
    BY <1>3, <2>4
  <2> QED BY <1>4, <2>1, <2>2, <2>3, <2>5
<1> QED BY <1>5, <1>8, <1>9 DEF OnePerPeriod

\* Both programs take the facts of the rows they accept.
LEMMA FactsOf ==
  ASSUME RowsInv, NEW rows \in SUBSET statements
  PROVE  /\ PythonFacts(rows) = FactsFrom(validate_row(rows))
         /\ SparkFacts(rows) = FactsFrom(align_to_schema(rows))
         /\ \A f \in PythonFacts(rows) \cup SparkFacts(rows) : FactTyped(f)
         /\ OnePerPeriod(PythonFacts(rows)) /\ OnePerPeriod(SparkFacts(rows))
<1>1. /\ align_to_schema(rows) \in SUBSET align_to_schema(statements)
      /\ validate_row(rows) \in SUBSET align_to_schema(statements)
  BY DEF align_to_schema, validate_row
<1>2. PythonFacts(rows) = FactsFrom(validate_row(rows))
  BY DEF PythonFacts, FactsFrom
<1>3. SparkFacts(rows) = FactsFrom(align_to_schema(rows))
  BY <1>1, FactsFromSound DEF SparkFacts, FactsFrom
<1> QED BY <1>1, <1>2, <1>3, FactsFromSound

\* Statements of other quarters decide nothing of a quarter's fact row.
LEMMA FactsOfPeriods ==
  ASSUME RowsInv, NEW rows \in SUBSET statements, NEW periods
  PROVE  LET near == {r \in rows : Period(r) \in periods}
         IN  /\ PythonFacts(near) = {f \in PythonFacts(rows) : Period(f) \in periods}
             /\ SparkFacts(near) = {f \in SparkFacts(rows) : Period(f) \in periods}
<1> DEFINE near == {r \in rows : Period(r) \in periods}
           Near(some) == {r \in some : Period(r) \in periods}
<1>1. /\ align_to_schema(near) = Near(align_to_schema(rows))
      /\ validate_row(near) = Near(validate_row(rows))
  BY DEF align_to_schema, validate_row
<1>2. ASSUME NEW sound
      PROVE  FactsFrom(Near(sound)) = {f \in FactsFrom(sound) : Period(f) \in periods}
  <2>1. deduplicate_latest(ByPeriod(Near(sound))) = Near(deduplicate_latest(ByPeriod(sound)))
    BY DEF deduplicate_latest, ByPeriod
  <2>2. \A r : Period(Fact(r)) = Period(r)
    BY DEF Period, Fact
  <2> QED BY <2>1, <2>2 DEF FactsFrom
<1>3. near \in SUBSET statements
  OBVIOUS
<1> HIDE DEF near, Near
<1>4. /\ PythonFacts(near) = FactsFrom(validate_row(near))
      /\ SparkFacts(near) = FactsFrom(align_to_schema(near))
  BY <1>3, FactsOf
<1> QED BY <1>1, <1>2, <1>4, FactsOf DEF near

-----------------------------------------------------------------------------
(* Labels.                                                                 *)

LEMMA RoundType ==
  ASSUME NEW n \in Int, NEW d \in Int, d # 0
  PROVE  RoundHalfUp(n, d) \in Int
<1> DEFINE an == IF n < 0 THEN -n ELSE n
           ad == IF d < 0 THEN -d ELSE d
           sign == IF (n < 0) = (d < 0) THEN 1 ELSE -1
<1>1. an \in Nat /\ ad \in Nat \ {0} /\ sign \in {1, -1}
  OBVIOUS
<1>2. RoundHalfUp(n, d) = sign * ((2 * an + ad) \div (2 * ad))
  BY DEF RoundHalfUp
<1> HIDE DEF an, ad, sign
<1>3. 2 * an + ad \in Int /\ 2 * ad \in Int /\ 2 * ad > 0
  BY <1>1
<1>4. (2 * an + ad) \div (2 * ad) \in Int
  BY <1>3
<1> QED BY <1>1, <1>2, <1>4

LEMMA ProductsOfIntegers ==
  ASSUME NEW a \in Int, NEW b \in Int
  PROVE  a * b \in Int /\ (a # 0 /\ b # 0 => a * b # 0)
  OBVIOUS

LEMMA ZType ==
  ASSUME NEW f, FactTyped(f), NEW over, over \subseteq Int \ {0}
  PROVE  Z(f, over) \in Int \cup {Null}
<1> DEFINE ta == f.total_assets
           tl == f.total_liabilities
           sum == 656 * (f.current_assets - f.current_liabilities)
                  + 326 * f.retained_earnings + 672 * f.ebit
<1> SUFFICES ASSUME Null \notin {f.current_assets, f.current_liabilities,
                                 f.retained_earnings, f.ebit},
                    Divides(f.ebit, ta, over)
             PROVE  (IF tl = 0 THEN RoundHalfUp(100 * (sum + 105 * 99 * ta), ta)
                     ELSE RoundHalfUp(100 * (sum * tl + 105 * f.equity * ta), ta * tl)) \in Int
  BY DEF Z
<1>1. ta \in Int /\ ta # 0 /\ tl \in Int /\ f.equity \in Int
  BY DEF FactTyped, Divides
<1>2. sum \in Int
  BY DEF FactTyped, Figure
<1> HIDE DEF ta, tl, sum
<1>3. CASE tl = 0
  BY <1>1, <1>2, <1>3, RoundType
<1>4. CASE tl # 0
  <2>1. ta * tl \in Int /\ ta * tl # 0
    BY <1>1, <1>4, ProductsOfIntegers
  <2>2. sum * tl \in Int /\ 105 * f.equity \in Int
    BY <1>1, <1>2, ProductsOfIntegers
  <2>3. (105 * f.equity) * ta \in Int
    BY <1>1, <2>2, ProductsOfIntegers
  <2>4. 100 * (sum * tl + 105 * f.equity * ta) \in Int
    BY <2>2, <2>3
  <2> QED BY <1>4, <2>1, <2>4, RoundType
<1> QED BY <1>3, <1>4

\* Without negative denominators both programs divide alike.
LEMMA SameScores ==
  ASSUME NEW f, FactTyped(f), DivisorsNotNegative(f), NEW prev
  PROVE  /\ Z(f, SparkDenominators) = Z(f, PythonDenominators)
         /\ Warnings(f, prev, SparkDenominators) = Warnings(f, prev, PythonDenominators)
<1>1. \A n, d : d = Null \/ d \in Nat =>
        (Divides(n, d, SparkDenominators) <=> Divides(n, d, PythonDenominators))
  BY DEF Divides, SparkDenominators, PythonDenominators
<1>2. \A d \in {f.total_assets, f.current_liabilities, f.interest_expense} : d = Null \/ d \in Nat
  BY DEF FactTyped, Figure, DivisorsNotNegative
<1>3. \A n, d : d \in {f.total_assets, f.current_liabilities, f.interest_expense} =>
        (Divides(n, d, SparkDenominators) <=> Divides(n, d, PythonDenominators))
  BY <1>1, <1>2
<1>4. Z(f, SparkDenominators) = Z(f, PythonDenominators)
  BY <1>3 DEF Z
<1>5. Warnings(f, prev, SparkDenominators) = Warnings(f, prev, PythonDenominators)
  BY <1>3 DEF Warnings
<1> QED BY <1>4, <1>5
\* The branches of one program and the columns of the other come to the same label.
LEMMA SameLabel ==
  ASSUME NEW f, FactTyped(f), DivisorsNotNegative(f), NEW prev
  PROVE  spark_label(f, prev) = AlsoGray(compute_distress_label(f, prev))
<1>0. ~is_fin(f) /\ ~is_financial_sector(f)
  BY DEF is_fin, is_financial_sector, FactTyped
<1> DEFINE z == Z(f, PythonDenominators)
           w == Warnings(f, prev, PythonDenominators)
           many == Cardinality(w) >= 2
           capped == Capped(f, z)
<1>1. z \in Int \cup {Null}
  BY ZType DEF PythonDenominators
<1>2. z \in Int => z # Null
  BY GoldAssumption
<1>3. /\ Z(f, SparkDenominators) = z /\ Warnings(f, prev, SparkDenominators) = w
      /\ z_double_prime(f) = z /\ warning_rules(f, prev) = w
  BY SameScores DEF z_double_prime, warning_rules
<1> HIDE DEF z, w, many, capped
<1> DEFINE Branches ==
             CASE z = Null /\ many ->
                    Label(1, "medium", z, w \cup {"z_score_null"} \cup capped)
               [] z = Null /\ ~many ->
                    Label(Null, Null, z, w \cup {"insufficient_data"} \cup capped)
               [] z # Null /\ z < DistressZone ->
                    Label(1, "high", z, w \cup {"z_score_distress_zone"} \cup capped)
               [] z # Null /\ z >= DistressZone /\ many ->
                    Label(1, "medium", z, w \cup {} \cup capped)
               [] z # Null /\ z > SafeZone /\ ~many ->
                    Label(0, "high", z, w \cup {"z_score_safe_zone"} \cup capped)
               [] OTHER -> Label(0, "low", z, w \cup {"gray_zone_monitor"} \cup capped)
           distress == z # Null /\ z < DistressZone
           safe == z # Null /\ z > SafeZone /\ ~many
           zone == (IF distress THEN {"z_score_distress_zone"} ELSE {})
                   \cup (IF safe THEN {"z_score_safe_zone"} ELSE {})
                   \cup (IF z # Null /\ ~distress /\ ~safe THEN {"gray_zone_monitor"} ELSE {})
                   \cup (IF z = Null /\ many THEN {"z_score_null"} ELSE {})
                   \cup (IF z = Null /\ ~many THEN {"insufficient_data"} ELSE {})
           label == IF distress \/ many THEN 1 ELSE IF z = Null THEN Null ELSE 0
           confidence == IF distress \/ safe THEN "high"
                         ELSE IF many THEN "medium"
                         ELSE IF z = Null THEN Null ELSE "low"
           Columns == Label(label, confidence, z, w \cup zone \cup capped)
<1>4. compute_distress_label(f, prev) = Branches
  BY <1>0, <1>3 DEF compute_distress_label, many, capped
<1>5. spark_label(f, prev) = Columns
  BY <1>0, <1>3 DEF spark_label, many, capped
<1>6. Columns = AlsoGray(Branches)
  <2>1. CASE z = Null /\ many
    <3>1. Branches = Label(1, "medium", z, w \cup {"z_score_null"} \cup capped)
      BY <2>1
    <3>2. zone = {"z_score_null"} /\ label = 1 /\ confidence = "medium"
      BY <2>1
    <3> HIDE DEF Branches, zone, label, confidence
    <3> QED BY <2>1, <3>1, <3>2 DEF AlsoGray, Label
  <2>2. CASE z = Null /\ ~many
    <3>1. Branches = Label(Null, Null, z, w \cup {"insufficient_data"} \cup capped)
      BY <2>2
    <3>2. zone = {"insufficient_data"} /\ label = Null /\ confidence = Null
      BY <2>2
    <3> HIDE DEF Branches, zone, label, confidence
    <3> QED BY <2>2, <3>1, <3>2 DEF AlsoGray, Label
  <2>3. CASE z # Null /\ z < DistressZone
    <3>2. ~(z > SafeZone) /\ ~(z >= DistressZone)
      BY <1>1, <2>3 DEF DistressZone, SafeZone
    <3>1. Branches = Label(1, "high", z, w \cup {"z_score_distress_zone"} \cup capped)
      BY <2>3, <3>2
    <3>3. zone = {"z_score_distress_zone"} /\ label = 1 /\ confidence = "high"
      BY <2>3, <3>2
    <3> HIDE DEF Branches, zone, label, confidence
    <3> QED BY <2>3, <3>1, <3>3 DEF AlsoGray, Label
  <2>4. CASE z # Null /\ z >= DistressZone /\ many
    <3>0. ~(z < DistressZone)
      BY <1>1, <2>4 DEF DistressZone
    <3>1. Branches = Label(1, "medium", z, w \cup {} \cup capped)
      BY <2>4, <3>0
    <3>2. zone = {"gray_zone_monitor"} /\ label = 1 /\ confidence = "medium"
      BY <2>4, <3>0
    <3>3. w \cup zone \cup capped = (w \cup {} \cup capped) \cup {"gray_zone_monitor"}
      BY <3>2
    <3> HIDE DEF Branches, zone, label, confidence
    <3> QED BY <2>4, <3>1, <3>2, <3>3 DEF AlsoGray, Label
  <2>5. CASE z # Null /\ z > SafeZone /\ ~many
    <3>0. ~(z < DistressZone)
      BY <1>1, <2>5 DEF DistressZone, SafeZone
    <3>1. Branches = Label(0, "high", z, w \cup {"z_score_safe_zone"} \cup capped)
      BY <2>5, <3>0
    <3>2. zone = {"z_score_safe_zone"} /\ label = 0 /\ confidence = "high"
      BY <2>5, <3>0
    <3> HIDE DEF Branches, zone, label, confidence
    <3> QED BY <2>5, <3>1, <3>2 DEF AlsoGray, Label
  <2>6. CASE /\ z # Null /\ ~many
             /\ ~(z < DistressZone) /\ ~(z > SafeZone)
    <3>1. Branches = Label(0, "low", z, w \cup {"gray_zone_monitor"} \cup capped)
      BY <2>6
    <3>2. zone = {"gray_zone_monitor"} /\ label = 0 /\ confidence = "low"
      BY <2>6
    <3> HIDE DEF Branches, zone, label, confidence
    <3> QED BY <2>6, <3>1, <3>2 DEF AlsoGray, Label
  <2>7. z # Null /\ ~(z < DistressZone) => z >= DistressZone
    BY <1>1 DEF DistressZone
  <2> HIDE DEF Branches, Columns
  <2> QED BY <2>1, <2>2, <2>3, <2>4, <2>5, <2>6, <2>7
<1> QED BY <1>4, <1>5, <1>6

\* A label is its fact's, given the last fact before it.
LEMMA LabelsOf ==
  ASSUME NEW facts, \A f, g \in facts : Period(f) = Period(g) => f = g, NEW f \in facts
  PROVE  /\ (CHOOSE g \in facts : g.report_period = Period(f)) = f
         /\ compute_labels(facts)[Period(f)] = compute_distress_label(f, Previous(facts, f))
         /\ compute_labels_spark(facts)[Period(f)] = spark_label(f, Previous(facts, f))
<1> DEFINE q == Period(f)
<1>1. (CHOOSE g \in facts : g.report_period = q) = f
  BY DEF Period
<1>2. q \in {g.report_period : g \in facts}
  BY DEF Period
<1> HIDE DEF q
<1>3. compute_labels(facts)[q] = compute_distress_label(f, Previous(facts, f))
  BY <1>1, <1>2 DEF compute_labels
<1>4. compute_labels_spark(facts)[q] = spark_label(f, Previous(facts, f))
  BY <1>1, <1>2 DEF compute_labels_spark
<1> QED BY <1>1, <1>3, <1>4 DEF q

\* A label knows the row before only by the two losses.
LEMMA LabelKnowsLosses ==
  ASSUME NEW f, NEW p, NEW q, two_quarter_net_loss(f, p) <=> two_quarter_net_loss(f, q)
  PROVE  /\ compute_distress_label(f, p) = compute_distress_label(f, q)
         /\ spark_label(f, p) = spark_label(f, q)
<1>1. \A over : Warnings(f, p, over) = Warnings(f, q, over)
  BY DEF Warnings
<1>2. compute_distress_label(f, p) = compute_distress_label(f, q)
  <2>1. warning_rules(f, p) = warning_rules(f, q)
    BY <1>1 DEF warning_rules
  <2> QED BY <2>1 DEF compute_distress_label
<1>3. spark_label(f, p) = spark_label(f, q)
  <2>1. Warnings(f, p, SparkDenominators) = Warnings(f, q, SparkDenominators)
    BY <1>1
  <2> QED BY <2>1 DEF spark_label
<1> QED BY <1>2, <1>3

\* Among facts that include every one of the quarter before, the losses are the same.
LEMMA LossesAreLocal ==
  ASSUME NEW facts, \A f \in facts : f.report_period \in Int, NEW f \in facts,
         NEW near \in SUBSET facts, f \in near,
         \A g \in facts : f.report_period - g.report_period = 1 => g \in near
  PROVE  two_quarter_net_loss(f, Previous(facts, f)) <=> two_quarter_net_loss(f, Previous(near, f))
<1>1. \A g \in facts : f.report_period - g.report_period = 1 =>
        \A h \in facts : h.report_period < f.report_period => h.report_period <= g.report_period
  OBVIOUS
<1>2. \A g : f.report_period - g.report_period = 1 =>
        (g \in Previous(facts, f) <=> g \in Previous(near, f))
  <2> SUFFICES ASSUME NEW g, f.report_period - g.report_period = 1
               PROVE  g \in Previous(facts, f) <=> g \in Previous(near, f)
    OBVIOUS
  <2>1. g \in Previous(facts, f) => g \in Previous(near, f)
    BY DEF Previous
  <2>2. g \in Previous(near, f) => g \in Previous(facts, f)
    BY <1>1 DEF Previous
  <2> QED BY <2>1, <2>2
<1> QED BY <1>2 DEF two_quarter_net_loss
-----------------------------------------------------------------------------
(* Prices and features.                                                    *)

LEMMA MarketOf ==
  ASSUME RowsInv, NEW rows \in SUBSET prices
  PROVE  /\ SparkMarket(rows) = deduplicate_latest(ByTradingDate(rows))
         /\ SparkMarket(rows) \subseteq prices /\ PythonMarket(rows) \subseteq prices
<1> DEFINE key == ByTradingDate(rows)
<1>1. DOMAIN key = rows /\ \A r \in rows : key[r] = TradingDate(r)
  BY DEF ByTradingDate
<1>2. HasNewest(rows) /\ \A r \in rows : r.created_ts \in Nat
  BY GoldAssumption DEF RowsInv, PricesInv, PriceRow, HasNewest
<1>3. \A r, s \in rows : key[r] = key[s] /\ r.created_ts = s.created_ts => r = s
  <2> HIDE DEF key
  <2> QED BY <1>1 DEF RowsInv, PricesInv
<1>4. bronze_to_silver_spark(key) = deduplicate_latest(key)
  <2> HIDE DEF key
  <2> QED BY <1>1, <1>2, <1>3, SilverAgrees
<1>5. deduplicate_latest(key) \subseteq prices
  BY DEF deduplicate_latest, ByTradingDate
<1>6. PythonMarket(rows) \subseteq prices
  BY DEF PythonMarket, deduplicate_latest, ByTradingDate, Daily
<1> QED BY <1>4, <1>5, <1>6 DEF SparkMarket

\* Prices of later days decide nothing of what is kept of the days so far.
LEMMA MarketSoFar ==
  ASSUME NEW rows, NEW day
  PROVE  LET sofar == {p \in rows : TradingDate(p) <= day}
         IN  /\ deduplicate_latest(ByTradingDate(sofar))
                  = {p \in deduplicate_latest(ByTradingDate(rows)) : TradingDate(p) <= day}
             /\ PythonMarket(sofar) = {p \in PythonMarket(rows) : TradingDate(p) <= day}
<1>1. ASSUME NEW some
      PROVE  deduplicate_latest(ByTradingDate({p \in some : TradingDate(p) <= day}))
               = {p \in deduplicate_latest(ByTradingDate(some)) : TradingDate(p) <= day}
  BY DEF deduplicate_latest, ByTradingDate
<1>2. Daily({p \in rows : TradingDate(p) <= day}) = {p \in Daily(rows) : TradingDate(p) <= day}
  BY DEF Daily
<1> QED BY <1>1, <1>2 DEF PythonMarket

LEMMA JoinSoFar ==
  ASSUME NEW market, \A p \in market : p.event_timestamp \in Nat, NEW t \in Nat
  PROVE  pit_join_features({p \in market : TradingDate(p) <= Day(t)}, t)
           = pit_join_features(market, t)
<1>1. \A p \in market : p.event_timestamp <= t => TradingDate(p) <= Day(t)
  BY DEF TradingDate, Day
<1> QED BY <1>1 DEF pit_join_features

LEMMA FeaturesOf ==
  ASSUME NEW facts, \A f, g \in facts : Period(f) = Period(g) => f = g, NEW f \in facts, NEW market
  PROVE  /\ build_feat_company_unified(facts, market)[Period(f)]
              = pit_join_features(market, f.report_release_date)
         /\ build_feat_company_unified_spark(facts, market)[Period(f)]
              = IF f.event_timestamp = Null THEN {} ELSE pit_join_features(market, f.event_timestamp)
<1> DEFINE q == Period(f)
<1>1. (CHOOSE g \in facts : g.report_period = q) = f
  BY LabelsOf
<1>2. q \in {g.report_period : g \in facts}
  BY DEF Period
<1> HIDE DEF q
<1>3. build_feat_company_unified(facts, market)[q] = pit_join_features(market, f.report_release_date)
  BY <1>1, <1>2 DEF build_feat_company_unified
<1>4. build_feat_company_unified_spark(facts, market)[q]
        = IF f.event_timestamp = Null THEN {} ELSE pit_join_features(market, f.event_timestamp)
  BY <1>1, <1>2 DEF build_feat_company_unified_spark
<1> QED BY <1>3, <1>4 DEF q

\* The fact of a quarter and its release date.
LEMMA FactsNow ==
  ASSUME RowsInv
  PROVE  /\ Conforming => SparkFacts(statements) = PythonFacts(statements)
         /\ \A f \in PythonFacts(statements) \cup SparkFacts(statements) :
              FactTyped(f) /\ f.report_release_date = Release[Period(f)]
              /\ Release[Period(f)] \in Nat
         /\ OnePerPeriod(PythonFacts(statements)) /\ OnePerPeriod(SparkFacts(statements))
<1>1. statements \in SUBSET statements
  OBVIOUS
<1>2. /\ Conforming => SparkFacts(statements) = PythonFacts(statements)
      /\ \A f \in PythonFacts(statements) \cup SparkFacts(statements) : FactTyped(f)
      /\ OnePerPeriod(PythonFacts(statements)) /\ OnePerPeriod(SparkFacts(statements))
  BY <1>1, FactsOf DEF Conforming
<1> QED BY <1>2, GoldAssumption DEF FactTyped, Period

-----------------------------------------------------------------------------
(* The two programs agree.                                                 *)

LEMMA LabelsDoAgree == ASSUME RowsInv PROVE LabelsAgree
<1> SUFFICES ASSUME Conforming, NEW f \in PythonFacts(statements), DivisorsNotNegative(f)
             PROVE  compute_labels_spark(SparkFacts(statements))[Period(f)]
                      = AlsoGray(compute_labels(PythonFacts(statements))[Period(f)])
  BY DEF LabelsAgree
<1> DEFINE facts == PythonFacts(statements)
<1>1. /\ SparkFacts(statements) = facts /\ FactTyped(f)
      /\ \A g, h \in facts : Period(g) = Period(h) => g = h
  BY FactsNow DEF OnePerPeriod
<1> HIDE DEF facts
<1>2. f \in facts
  BY DEF facts
<1>3. /\ compute_labels(facts)[Period(f)] = compute_distress_label(f, Previous(facts, f))
      /\ compute_labels_spark(facts)[Period(f)] = spark_label(f, Previous(facts, f))
  BY <1>1, <1>2, LabelsOf
<1>4. spark_label(f, Previous(facts, f)) = AlsoGray(compute_distress_label(f, Previous(facts, f)))
  BY <1>1, SameLabel
<1>5. compute_labels_spark(facts)[Period(f)] = AlsoGray(compute_labels(facts)[Period(f)])
  BY <1>3, <1>4
<1> QED BY <1>1, <1>5 DEF facts

LEMMA RatioAgrees ==
  ASSUME NEW n, NEW d \in Figure
  PROVE  LET p == Ratio(n, d, PythonDenominators)
         IN  Ratio(n, d, SparkDenominators) = IF p # Null /\ p[2] < 0 THEN Null ELSE p
<1>1. CASE Divides(n, d, PythonDenominators)
  <2>1. Ratio(n, d, PythonDenominators) = <<n, d>> /\ d \in Int /\ d # 0
    BY <1>1 DEF Ratio, Divides, PythonDenominators
  <2>2. CASE d < 0
    <3>1. Ratio(n, d, SparkDenominators) = Null
      BY <2>1, <2>2 DEF Ratio, Divides, SparkDenominators
    <3> QED BY <2>1, <2>2, <3>1
  <2>3. CASE ~(d < 0)
    <3>1. Ratio(n, d, SparkDenominators) = <<n, d>>
      BY <1>1, <2>1, <2>3 DEF Ratio, Divides, SparkDenominators
    <3> QED BY <2>1, <2>3, <3>1
  <2> QED BY <2>2, <2>3
<1>2. CASE ~Divides(n, d, PythonDenominators)
  BY <1>2 DEF Ratio, Divides, PythonDenominators, SparkDenominators
<1> QED BY <1>1, <1>2

LEMMA RatiosDoAgree == ASSUME RowsInv PROVE RatiosAgree
<1> SUFFICES ASSUME NEW p \in build_obt_company_quarter_risk(PythonFacts(statements)),
                    NEW s \in build_obt_company_quarter_risk_spark(SparkFacts(statements)),
                    p.fact = s.fact, NEW n \in DOMAIN p.ratios
             PROVE  s.ratios[n] = IF p.ratios[n] # Null /\ p.ratios[n][2] < 0
                                  THEN Null ELSE p.ratios[n]
  BY DEF RatiosAgree
<1>1. PICK f \in PythonFacts(statements) : p = [fact |-> f, ratios |-> Ratios(f, PythonDenominators)]
  BY DEF build_obt_company_quarter_risk
<1>2. s.ratios = Ratios(f, SparkDenominators) /\ p.ratios = Ratios(f, PythonDenominators)
  BY <1>1 DEF build_obt_company_quarter_risk_spark
<1>3. \A d \in {f.total_assets, f.equity, f.current_liabilities, f.interest_expense} : d \in Figure
  BY FactsNow DEF FactTyped, Figure
<1>4. ASSUME NEW a, NEW d \in {f.total_assets, f.equity, f.current_liabilities, f.interest_expense}
      PROVE  Ratio(a, d, SparkDenominators)
               = IF /\ Ratio(a, d, PythonDenominators) # Null
                    /\ Ratio(a, d, PythonDenominators)[2] < 0
                 THEN Null ELSE Ratio(a, d, PythonDenominators)
  BY <1>3, RatioAgrees
<1>5. n \in {"current_ratio", "debt_to_asset", "debt_to_equity", "roa", "roe",
             "ebit_interest_coverage"}
  BY <1>2 DEF Ratios
<1> QED BY <1>2, <1>4, <1>5 DEF Ratios

LEMMA FeaturesDoAgree == ASSUME RowsInv PROVE FeaturesAgree
<1> SUFFICES ASSUME Conforming, prices = Daily(prices), NEW f \in PythonFacts(statements),
                    f.event_timestamp # Null
             PROVE  PythonFeatures(statements, prices)[Period(f)]
                      = SparkFeatures(statements, prices)[Period(f)]
  BY DEF FeaturesAgree
<1>1. SparkMarket(prices) = PythonMarket(prices)
  BY MarketOf DEF PythonMarket
<1>2. /\ SparkFacts(statements) = PythonFacts(statements)
      /\ \A g, h \in PythonFacts(statements) : Period(g) = Period(h) => g = h
      /\ f.event_timestamp = f.report_release_date
  BY FactsNow DEF FactTyped, OnePerPeriod
<1> QED BY <1>1, <1>2, FeaturesOf DEF PythonFeatures, SparkFeatures

LEMMA NewestIsOne ==
  ASSUME NEW rows, HasNewest(rows), NEW some \in SUBSET rows, some # {}
  PROVE  Newest(some) \in some /\ \A s \in some : s.created_ts <= Newest(some).created_ts
<1>1. \E r \in some : \A s \in some : s.created_ts <= r.created_ts
  BY DEF HasNewest
<1> QED BY <1>1 DEF Newest

LEMMA DimsDoAgree == ASSUME RowsInv PROVE DimsAgree
<1> SUFFICES ASSUME \A c \in companies : Null \notin {c.attributes, c.delisted_flag}
             PROVE  merge_dim_company(companies) = build_dim_company_spark(companies)
  BY DEF DimsAgree
<1> DEFINE Merged(prev, r) == \/ prev.attributes # r.attributes
                              \/ Flag(prev.delisted_flag) # r.delisted_flag
           Filtered(prev, r) == \/ SparkChanged(prev.attributes, r.attributes)
                                \/ SparkChanged(prev.delisted_flag, r.delisted_flag)
<1>1. ASSUME NEW r \in companies, Before(companies, r) # {}
      PROVE  Newest(Before(companies, r)) \in companies
  BY <1>1, NewestIsOne DEF RowsInv, CompaniesInv, Before
<1>2. \A p, r \in companies : Merged(p, r) <=> Filtered(p, r)
  BY DEF SparkChanged, Flag
<1>3. Opening(companies, Merged) = Opening(companies, Filtered)
  <2> HIDE DEF Merged, Filtered
  <2> QED BY <1>1, <1>2 DEF Opening
<1> QED BY <1>3 DEF merge_dim_company, build_dim_company_spark

\* In whatever number and order rows arrive, the two programs build the same Gold tables
\* but for the named inputs.
THEOREM PipelinesDoAgree == GoldSpec => []PipelinesAgree
<1>1. RowsInv => PipelinesAgree
  BY LabelsDoAgree, RatiosDoAgree, FeaturesDoAgree, DimsDoAgree DEF PipelinesAgree
<1> QED BY <1>1, RowsInvariant, PTL
-----------------------------------------------------------------------------
(* No quarter looks ahead.                                                 *)

\* A quarter's label is the one its fact and the facts of the quarter before give.
LEMMA LabelsAreLocal ==
  ASSUME NEW facts, OnePerPeriod(facts), \A g \in facts : g.report_period \in Int,
         NEW f \in facts, NEW near,
         near = {g \in facts : Period(g) \in {Period(f) - 1, Period(f)}}
  PROVE  /\ f \in near /\ OnePerPeriod(near)
         /\ compute_labels(facts)[Period(f)] = compute_labels(near)[Period(f)]
         /\ compute_labels_spark(facts)[Period(f)] = compute_labels_spark(near)[Period(f)]
<1>1. /\ near \in SUBSET facts /\ f \in near /\ OnePerPeriod(near)
      /\ \A g \in facts : f.report_period - g.report_period = 1 => g \in near
  BY DEF Period, OnePerPeriod
<1>2. two_quarter_net_loss(f, Previous(facts, f)) <=> two_quarter_net_loss(f, Previous(near, f))
  BY <1>1, LossesAreLocal
<1>3. /\ compute_distress_label(f, Previous(facts, f)) = compute_distress_label(f, Previous(near, f))
      /\ spark_label(f, Previous(facts, f)) = spark_label(f, Previous(near, f))
  BY <1>2, LabelKnowsLosses
<1>4. /\ compute_labels(facts)[Period(f)] = compute_distress_label(f, Previous(facts, f))
      /\ compute_labels_spark(facts)[Period(f)] = spark_label(f, Previous(facts, f))
  BY LabelsOf DEF OnePerPeriod
<1>5. /\ compute_labels(near)[Period(f)] = compute_distress_label(f, Previous(near, f))
      /\ compute_labels_spark(near)[Period(f)] = spark_label(f, Previous(near, f))
  BY <1>1, LabelsOf DEF OnePerPeriod
<1> QED BY <1>1, <1>3, <1>4, <1>5

\* Prices after the day of a moment do not matter to what is joined at that moment.
LEMMA FeaturesAreLocal ==
  ASSUME RowsInv, NEW t \in Nat
  PROVE  LET sofar == {p \in prices : TradingDate(p) <= Day(t)}
         IN  /\ pit_join_features(PythonMarket(sofar), t) = pit_join_features(PythonMarket(prices), t)
             /\ pit_join_features(SparkMarket(sofar), t) = pit_join_features(SparkMarket(prices), t)
<1> DEFINE sofar == {p \in prices : TradingDate(p) <= Day(t)}
<1>1. prices \in SUBSET prices /\ sofar \in SUBSET prices
  OBVIOUS
<1>2. /\ PythonMarket(sofar) = {p \in PythonMarket(prices) : TradingDate(p) <= Day(t)}
      /\ SparkMarket(sofar) = {p \in SparkMarket(prices) : TradingDate(p) <= Day(t)}
  <2>1. /\ SparkMarket(prices) = deduplicate_latest(ByTradingDate(prices))
        /\ SparkMarket(sofar) = deduplicate_latest(ByTradingDate(sofar))
    <3> HIDE DEF sofar
    <3> QED BY <1>1, MarketOf
  <2> QED BY <2>1, MarketSoFar
<1>3. /\ \A p \in PythonMarket(prices) : p.event_timestamp \in Nat
      /\ \A p \in SparkMarket(prices) : p.event_timestamp \in Nat
  <2>1. SparkMarket(prices) \subseteq prices /\ PythonMarket(prices) \subseteq prices
    BY <1>1, MarketOf
  <2> QED BY <2>1, GoldAssumption DEF RowsInv, PricesInv, PriceRow
<1> HIDE DEF sofar
<1>4. /\ pit_join_features(PythonMarket(sofar), t) = pit_join_features(PythonMarket(prices), t)
      /\ pit_join_features(SparkMarket(sofar), t) = pit_join_features(SparkMarket(prices), t)
  BY <1>2, <1>3, JoinSoFar
<1> QED BY <1>4 DEF sofar

LEMMA QuarterStandsAlone == ASSUME RowsInv PROVE QuartersStandAlone
<1> SUFFICES ASSUME NEW q \in Quarters
             PROVE
               LET near == {r \in statements : Period(r) \in {q - 1, q}}
                   sofar == {p \in prices : TradingDate(p) <= Day(Release[q])}
                   Of(facts) == \E f \in facts : Period(f) = q
               IN  /\ Of(PythonFacts(statements)) =>
                        /\ compute_labels(PythonFacts(statements))[q]
                             = compute_labels(PythonFacts(near))[q]
                        /\ PythonFeatures(statements, prices)[q] = PythonFeatures(near, sofar)[q]
                   /\ Of(SparkFacts(statements)) =>
                        /\ compute_labels_spark(SparkFacts(statements))[q]
                             = compute_labels_spark(SparkFacts(near))[q]
                        /\ SparkFeatures(statements, prices)[q] = SparkFeatures(near, sofar)[q]
  BY DEF QuartersStandAlone
<1> DEFINE t == Release[q]
           near == {r \in statements : Period(r) \in {q - 1, q}}
           sofar == {p \in prices : TradingDate(p) <= Day(t)}
<1>1. /\ \A g \in PythonFacts(statements) : FactTyped(g) /\ g.report_period \in Int
      /\ \A g \in SparkFacts(statements) : FactTyped(g) /\ g.report_period \in Int
      /\ OnePerPeriod(PythonFacts(statements)) /\ OnePerPeriod(SparkFacts(statements))
  BY FactsNow DEF FactTyped
<1>2. /\ PythonFacts(near) = {g \in PythonFacts(statements) : Period(g) \in {q - 1, q}}
      /\ SparkFacts(near) = {g \in SparkFacts(statements) : Period(g) \in {q - 1, q}}
  <2>1. statements \in SUBSET statements
    OBVIOUS
  <2> QED BY <2>1, FactsOfPeriods
<1>3. t \in Nat
  BY GoldAssumption
<1>4. /\ pit_join_features(PythonMarket(sofar), t) = pit_join_features(PythonMarket(prices), t)
      /\ pit_join_features(SparkMarket(sofar), t) = pit_join_features(SparkMarket(prices), t)
  BY <1>3, FeaturesAreLocal
<1> HIDE DEF near, sofar
<1>5. ASSUME NEW f \in PythonFacts(statements), Period(f) = q
      PROVE  /\ compute_labels(PythonFacts(statements))[q] = compute_labels(PythonFacts(near))[q]
             /\ PythonFeatures(statements, prices)[q] = PythonFeatures(near, sofar)[q]
  <2>1. /\ f \in PythonFacts(near) /\ OnePerPeriod(PythonFacts(near))
        /\ compute_labels(PythonFacts(statements))[q] = compute_labels(PythonFacts(near))[q]
    BY <1>1, <1>2, <1>5, LabelsAreLocal
  <2>2. f.report_release_date = t
    BY <1>1, <1>5 DEF FactTyped, Period
  <2>3. PythonFeatures(statements, prices)[q] = pit_join_features(PythonMarket(prices), t)
    BY <1>1, <1>5, <2>2, FeaturesOf DEF PythonFeatures, OnePerPeriod
  <2>4. PythonFeatures(near, sofar)[q] = pit_join_features(PythonMarket(sofar), t)
    BY <1>5, <2>1, <2>2, FeaturesOf DEF PythonFeatures, OnePerPeriod
  <2> QED BY <1>4, <2>1, <2>3, <2>4
<1>6. ASSUME NEW f \in SparkFacts(statements), Period(f) = q
      PROVE  /\ compute_labels_spark(SparkFacts(statements))[q]
                  = compute_labels_spark(SparkFacts(near))[q]
             /\ SparkFeatures(statements, prices)[q] = SparkFeatures(near, sofar)[q]
  <2>1. /\ f \in SparkFacts(near) /\ OnePerPeriod(SparkFacts(near))
        /\ compute_labels_spark(SparkFacts(statements))[q]
             = compute_labels_spark(SparkFacts(near))[q]
    BY <1>1, <1>2, <1>6, LabelsAreLocal
  <2>2. f.event_timestamp \in {Null, t}
    BY <1>1, <1>6 DEF FactTyped, Period
  <2>3. SparkFeatures(statements, prices)[q]
          = IF f.event_timestamp = Null THEN {}
            ELSE pit_join_features(SparkMarket(prices), f.event_timestamp)
    BY <1>1, <1>6, FeaturesOf DEF SparkFeatures, OnePerPeriod
  <2>4. SparkFeatures(near, sofar)[q]
          = IF f.event_timestamp = Null THEN {}
            ELSE pit_join_features(SparkMarket(sofar), f.event_timestamp)
    BY <1>6, <2>1, FeaturesOf DEF SparkFeatures, OnePerPeriod
  <2> QED BY <1>4, <2>1, <2>2, <2>3, <2>4
<1> QED BY <1>5, <1>6 DEF near, sofar

LEMMA FeaturesDoNotLookAhead == ASSUME RowsInv PROVE NoFutureFeatures
<1>1. ASSUME NEW q \in DOMAIN PythonFeatures(statements, prices)
      PROVE  validate_feature_snapshot(PythonFeatures(statements, prices)[q], Release[q])
  <2>1. PICK f \in PythonFacts(statements) : q = Period(f)
    BY <1>1 DEF PythonFeatures, build_feat_company_unified, Period
  <2>2. PythonFeatures(statements, prices)[q] = pit_join_features(PythonMarket(prices), Release[q])
    BY <2>1, FactsNow, FeaturesOf DEF PythonFeatures, OnePerPeriod
  <2> QED BY <2>2 DEF validate_feature_snapshot, pit_join_features
<1>2. ASSUME NEW q \in DOMAIN SparkFeatures(statements, prices)
      PROVE  validate_feature_snapshot(SparkFeatures(statements, prices)[q], Release[q])
  <2>1. PICK f \in SparkFacts(statements) : q = Period(f)
    BY <1>2 DEF SparkFeatures, build_feat_company_unified_spark, Period
  <2>2. /\ f.event_timestamp \in {Null, Release[q]}
        /\ \A g, h \in SparkFacts(statements) : Period(g) = Period(h) => g = h
    BY <2>1, FactsNow DEF FactTyped, Period, OnePerPeriod
  <2>3. SparkFeatures(statements, prices)[q]
          = IF f.event_timestamp = Null THEN {}
            ELSE pit_join_features(SparkMarket(prices), f.event_timestamp)
    BY <2>1, <2>2, FeaturesOf DEF SparkFeatures
  <2> QED BY <2>2, <2>3 DEF validate_feature_snapshot, pit_join_features
<1> QED BY <1>1, <1>2 DEF NoFutureFeatures

\* No label and no feature knows anything of the time after its row was released.
THEOREM NothingLooksAhead == GoldSpec => []NoLookAhead
<1>1. RowsInv => NoLookAhead
  BY QuarterStandsAlone, FeaturesDoNotLookAhead DEF NoLookAhead
<1> QED BY <1>1, RowsInvariant, PTL

-----------------------------------------------------------------------------
(* The history of a company.                                               *)

\* A version opens at r, given the fields that the version so far stores.
ChangesAt(r) ==
  LET before == Before(companies, r)
  IN  \/ before = {}
      \/ Newest(before).attributes # r.attributes
      \/ Flag(Newest(before).delisted_flag) # r.delisted_flag
Opens == {r \in companies : ChangesAt(r)}

SameFields(r, s) ==
  r.attributes = s.attributes /\ Flag(r.delisted_flag) = Flag(s.delisted_flag)

\* A snapshot carries the fields of the last one that opened a version.
LEMMA LastOpening ==
  ASSUME RowsInv, NEW c \in companies
  PROVE  \E o \in Opens : /\ o.created_ts <= c.created_ts /\ SameFields(o, c)
                         /\ \A p \in Opens : p.created_ts <= c.created_ts
                                             => p.created_ts <= o.created_ts
<1> DEFINE upto == {r \in companies : r.created_ts <= c.created_ts}
           opened == {o \in Opens : o.created_ts <= c.created_ts}
<1>1. /\ \A r \in companies : r.created_ts \in Nat
      /\ HasNewest(companies) /\ HasOldest(companies)
      /\ \A r, s \in companies : r.created_ts = s.created_ts => r = s
  BY GoldAssumption DEF RowsInv, CompaniesInv, CompanyRow
<1>2. opened # {}
  <2>1. PICK r \in upto : \A s \in upto : r.created_ts <= s.created_ts
    <3>1. upto \in SUBSET companies /\ c \in upto
      BY <1>1
    <3> HIDE DEF upto
    <3> QED BY <1>1, <3>1 DEF HasOldest
  <2>2. Before(companies, r) = {}
    BY <1>1, <2>1 DEF Before
  <2> QED BY <2>1, <2>2 DEF Opens, ChangesAt
<1>3. PICK o \in opened : \A p \in opened : p.created_ts <= o.created_ts
  <2>1. opened \in SUBSET companies
    BY DEF Opens
  <2> HIDE DEF opened
  <2> QED BY <1>1, <1>2, <2>1 DEF HasNewest
<1> DEFINE odd == {r \in upto : o.created_ts <= r.created_ts /\ ~SameFields(o, r)}
<1>4. odd = {}
  <2> SUFFICES ASSUME odd # {} PROVE FALSE
    OBVIOUS
  <2>1. PICK r \in odd : \A s \in odd : r.created_ts <= s.created_ts
    <3>1. odd \in SUBSET companies
      OBVIOUS
    <3> HIDE DEF odd
    <3> QED BY <1>1, <3>1 DEF HasOldest
  <2>2. o \in companies /\ r \in companies /\ o.created_ts < r.created_ts
    <3>1. o \in companies /\ r \in companies /\ r # o /\ o.created_ts <= r.created_ts
      BY <2>1 DEF Opens, SameFields
    <3> QED BY <1>1, <3>1
  <2> DEFINE p == Newest(Before(companies, r))
  <2>3. /\ p \in Before(companies, r)
        /\ \A s \in Before(companies, r) : s.created_ts <= p.created_ts
    <3>1. Before(companies, r) \in SUBSET companies /\ o \in Before(companies, r)
      BY <2>2 DEF Before
    <3> QED BY <1>1, <3>1, NewestIsOne
  <2>4. p \in companies /\ p.created_ts < r.created_ts /\ o.created_ts <= p.created_ts
    BY <2>2, <2>3 DEF Before
  <2>5. ~ChangesAt(r)
    <3> SUFFICES ASSUME ChangesAt(r) PROVE FALSE
      OBVIOUS
    <3>1. r \in opened
      BY <2>1, <2>2 DEF Opens
    <3>2. r.created_ts <= o.created_ts
      BY <1>3, <3>1
    <3> QED BY <1>1, <2>2, <3>2
  <2>6. SameFields(p, r)
    BY <2>5 DEF ChangesAt, SameFields, Flag
  <2> HIDE DEF p
  <2>7. p \in odd
    BY <1>1, <2>1, <2>4, <2>6 DEF SameFields
  <2> QED BY <1>1, <2>1, <2>4, <2>7
<1>5. c \in upto /\ o.created_ts <= c.created_ts
  BY <1>1
<1>6. SameFields(o, c)
  BY <1>4, <1>5
<1> QED BY <1>3, <1>6

\* Until when a version holds.
LEMMA ValidTo ==
  ASSUME RowsInv, NEW o \in Opens, NEW c \in companies
  PROVE  LET v == Version(Opens, o)
         IN  (v.valid_to_ts = Null \/ c.created_ts < v.valid_to_ts)
               <=> \A p \in Opens : p.created_ts > o.created_ts => c.created_ts < p.created_ts
<1> DEFINE later == Later(Opens, o)
           next == Following(Opens, o)
<1>1. \A r \in companies : r.created_ts \in Nat
  BY GoldAssumption DEF RowsInv, CompaniesInv, CompanyRow
<1>2. Opens \subseteq companies
  BY DEF Opens
<1>3. CASE later = {}
  <2>1. Version(Opens, o).valid_to_ts = Null
    BY <1>3 DEF Version
  <2>2. \A p \in Opens : ~(p.created_ts > o.created_ts)
    BY <1>3 DEF Later
  <2> QED BY <2>1, <2>2
<1>4. CASE later # {}
  <2>1. Version(Opens, o).valid_to_ts = next.created_ts
    BY <1>4 DEF Version
  <2>2. next \in later /\ \A p \in later : next.created_ts <= p.created_ts
    <3>1. later \in SUBSET companies
      BY <1>2 DEF Later
    <3>2. \E s \in later : \A p \in later : s.created_ts <= p.created_ts
      <4> HIDE DEF later
      <4> QED BY <1>4, <3>1 DEF RowsInv, CompaniesInv, HasOldest
    <3> QED BY <3>2 DEF Following
  <2>3. next \in Opens /\ next.created_ts > o.created_ts /\ next.created_ts \in Nat
    BY <1>1, <1>2, <2>2 DEF Later
  <2>4. next.created_ts # Null
    BY <2>3, GoldAssumption
  <2>5. \A p \in Opens : p.created_ts > o.created_ts => next.created_ts <= p.created_ts
    BY <2>2 DEF Later
  <2> HIDE DEF next, later
  <2> QED BY <1>1, <1>2, <2>1, <2>3, <2>4, <2>5
<1> QED BY <1>3, <1>4

LEMMA HistoryOf == ASSUME RowsInv PROVE AsOfHistory
<1>1. /\ \A r \in companies : r.created_ts \in Nat
      /\ \A r, s \in companies : r.created_ts = s.created_ts => r = s
      /\ Opens \subseteq companies /\ HasNewest(companies)
  BY GoldAssumption DEF RowsInv, CompaniesInv, CompanyRow, Opens
<1>2. merge_dim_company(companies) = {Version(Opens, r) : r \in Opens}
  BY DEF merge_dim_company, Versioned, Opening, Opens, ChangesAt
<1> DEFINE dim == {Version(Opens, r) : r \in Opens}
           At(c) == {v \in dim : /\ v.valid_from_ts <= c.created_ts
                                 /\ v.valid_to_ts = Null \/ c.created_ts < v.valid_to_ts}
<1>3. \A r : Version(Opens, r).valid_from_ts = r.created_ts
            /\ Version(Opens, r).attributes = r.attributes
            /\ Version(Opens, r).delisted_flag = Flag(r.delisted_flag)
            /\ Version(Opens, r).is_current = (Later(Opens, r) = {})
  BY DEF Version
<1>4. ASSUME NEW c \in companies
      PROVE  \E v \in dim : /\ v.attributes = c.attributes /\ v.delisted_flag = Flag(c.delisted_flag)
                            /\ At(c) = {v}
  <2>1. PICK o \in Opens : /\ o.created_ts <= c.created_ts /\ SameFields(o, c)
                          /\ \A p \in Opens : p.created_ts <= c.created_ts
                                              => p.created_ts <= o.created_ts
    BY LastOpening
  <2>2. Version(Opens, o) \in At(c)
    <3>1. \A p \in Opens : p.created_ts > o.created_ts => c.created_ts < p.created_ts
      BY <1>1, <2>1
    <3>2. \/ Version(Opens, o).valid_to_ts = Null
          \/ c.created_ts < Version(Opens, o).valid_to_ts
      BY <3>1, ValidTo
    <3> QED BY <1>3, <2>1, <3>2
  <2>3. ASSUME NEW v \in At(c) PROVE v = Version(Opens, o)
    <3>1. PICK p \in Opens : v = Version(Opens, p)
      OBVIOUS
    <3>2. p.created_ts <= c.created_ts
      BY <1>3, <3>1
    <3>3. \A r \in Opens : r.created_ts > p.created_ts => c.created_ts < r.created_ts
      BY <3>1, ValidTo
    <3>4. p.created_ts <= o.created_ts /\ ~(o.created_ts > p.created_ts)
      BY <1>1, <2>1, <3>2, <3>3
    <3>5. p = o
      BY <1>1, <3>4
    <3> QED BY <3>1, <3>5
  <2> HIDE DEF At
  <2>4. At(c) = {Version(Opens, o)}
    BY <2>2, <2>3
  <2> QED BY <1>3, <2>1, <2>4 DEF SameFields
<1>5. ASSUME companies # {} PROVE Cardinality({v \in dim : v.is_current}) = 1
  <2>1. PICK c \in companies : TRUE
    BY <1>5
  <2>2. Opens # {}
    BY <2>1, LastOpening
  <2>3. PICK o \in Opens : \A p \in Opens : p.created_ts <= o.created_ts
    BY <1>1, <2>2 DEF HasNewest
  <2>4. \A p \in Opens : Later(Opens, p) = {} <=> p = o
    BY <1>1, <2>3 DEF Later
  <2>5. {v \in dim : v.is_current} = {Version(Opens, o)}
    <3>1. ASSUME NEW v \in dim, v.is_current PROVE v = Version(Opens, o)
      <4>1. PICK p \in Opens : v = Version(Opens, p)
        OBVIOUS
      <4>2. Later(Opens, p) = {}
        BY <3>1, <4>1 DEF Version
      <4> QED BY <2>4, <4>1, <4>2
    <3>2. Version(Opens, o) \in dim /\ Version(Opens, o).is_current
      BY <2>4 DEF Version
    <3> QED BY <3>1, <3>2
  <2> QED BY <2>5, FS_Singleton
<1> QED BY <1>2, <1>4, <1>5 DEF AsOfHistory

\* The company dimension answers an as-of lookup at any snapshot with that snapshot's
\* fields, and has one current version.
THEOREM HistoryAnswers == GoldSpec => []AsOfHistory
<1>1. RowsInv => AsOfHistory
  BY HistoryOf
<1> QED BY <1>1, RowsInvariant, PTL
=============================================================================
