--------------------------- MODULE StreamWindows ---------------------------
(***************************************************************************)
(* The PyFlink price-event job (price_event_job.build_pipeline) over a     *)
(* finite replay of its topic, and the deterministic oracle                *)
(* flink_contract.process_bounded_events over the same records.            *)
(*                                                                         *)
(* The window operator sees a record under some watermark that the source  *)
(* had emitted by then: watermarks are periodic and the slowest channel    *)
(* counts, so it may be any older one.  A watermark w stands for Flink's   *)
(* 1000 * w - 1 ms.  Checkpoints hold offsets, operator state and what     *)
(* the sinks have been given since the last one; watermarks are not in     *)
(* them.  Without checkpointing Flink does not restart a job.              *)
(***************************************************************************)
EXTENDS Integers, Sequences, FiniteSets

CONSTANTS
  Records,         \* records of the topic: [id, time, form]
  MaxLog,          \* bound: length of the replay
  Window, OutOfOrderness, Lateness,   \* of flink-streaming.yaml, in seconds
  MaxCrashes       \* bound: failures of the cluster

\* "zulu" has a timestamp that ends in Z, "opaque" is JSON but not an object.
Forms == {"valid", "invalid", "zulu", "opaque"}

\* An event id is a hash of the payload, the event time included (_stable_event_id).
ASSUME StreamAssumption ==
  /\ \A r \in Records : r.time \in Nat \ {0} /\ r.form \in Forms
  /\ \A r, q \in Records : r.id = q.id => r.time = q.time
  /\ Window \in Nat \ {0} /\ OutOfOrderness \in Nat /\ Lateness \in Nat
  /\ MaxLog \in Nat /\ MaxCrashes \in Nat

VARIABLES
  log, optimized,  \* the replay and the variant, chosen once
  status,          \* "running", "finished" or "failed"
  job,             \* what a checkpoint holds: offset, seen ids and the sinks' records
  saved,           \* the last checkpoint
  newest,          \* largest event time the watermark generator has seen
  watermark,       \* of the window operator
  expired,         \* ids whose deduplication state has expired
  crashes

input == <<log, optimized>>
vars == <<input, status, job, saved, newest, watermark, expired, crashes>>

Fresh == [offset |-> 0, seen |-> {}, kept |-> {}, late |-> {}, dups |-> {}, bad |-> {}]
WindowEnd(time) == (time \div Window + 1) * Window
Max(a, b) == IF a > b THEN a ELSE b

\* Mutant: the types of the fields are not tried.
UntriedTypes(r) == FALSE

\* A timestamp that ends in Z is valid: _timestamp replaces the Z.  On an opaque record
\* the contract returns nothing, it raises: in the oracle, and in the job (below).
price_event_error(r) == r.form = "invalid"
-----------------------------------------------------------------------------
\* The oracle reads record n: it skips what is invalid or a duplicate, notes the id,
\* and accepts the record unless it is too late after the largest time accepted.
read_event(s, n) ==
  LET r == log[n]
      bound == s.max - OutOfOrderness
      noted == [s EXCEPT !.seen = @ \cup {r.id}]
  IN IF price_event_error(r) \/ (optimized /\ r.id \in s.seen) THEN s
     ELSE IF s.max > 0 /\ r.time + Lateness < bound THEN noted
     ELSE [noted EXCEPT !.accepted = @ \cup {n}, !.max = Max(@, r.time)]

\* The oracle after the first n records of the log.
Oracle[n \in 0 .. Len(log)] ==
  IF n = 0 THEN [seen |-> {}, accepted |-> {}, max |-> 0]
  ELSE read_event(Oracle[n - 1], n)
process_bounded_events == Oracle[Len(log)].accepted
-----------------------------------------------------------------------------
Init ==
  /\ log \in UNION {[1 .. n -> Records] : n \in 1 .. MaxLog}
  /\ optimized \in BOOLEAN
  /\ status = "running"
  /\ job = Fresh /\ saved = Fresh
  /\ newest = 0 /\ watermark = 0
  /\ expired = {}
  /\ crashes = 0

Cursor == job.offset + 1
Ready == status = "running" /\ job.offset < Len(log)

\* ParsePriceEvent: the invalid side output.
parse_invalid ==
  /\ Ready
  /\ price_event_error(log[Cursor])
  /\ job' = [job EXCEPT !.offset = Cursor, !.bad = @ \cup {Cursor}]
  /\ UNCHANGED <<input, status, saved, newest, watermark, expired, crashes>>

DeduplicateEvents(r) == optimized /\ r.id \in job.seen

\* Mutant: allowed_lateness is not set.
LateAtOnce(r) == WindowEnd(r.time) <= watermark

\* A record is late when its window, lateness included, has passed the watermark.
side_output_late_data(r) == WindowEnd(r.time) + Lateness <= watermark

\* The assigner, the keyed deduplication and the window, for one valid record.
process_element ==
  /\ Ready
  /\ LET r == log[Cursor]
         done == [job EXCEPT !.offset = Cursor, !.seen = @ \cup {r.id}]
     IN /\ r.form = "valid"
        /\ newest' = Max(newest, r.time)
        /\ job' = IF DeduplicateEvents(r) THEN [done EXCEPT !.dups = @ \cup {Cursor}]
                  ELSE IF side_output_late_data(r) THEN [done EXCEPT !.late = @ \cup {Cursor}]
                  ELSE [done EXCEPT !.kept = @ \cup {Cursor}]
  /\ UNCHANGED <<input, status, saved, watermark, expired, crashes>>

\* The periodic watermark, as the slowest channel delivers it.
assign_watermark ==
  /\ status = "running"
  /\ watermark' \in watermark + 1 .. newest - OutOfOrderness
  /\ UNCHANGED <<input, status, job, saved, newest, expired, crashes>>

\* The deduplication state has a time to live in processing time.
expire_state ==
  /\ status = "running"
  /\ \E id \in job.seen :
       /\ job' = [job EXCEPT !.seen = @ \ {id}]
       /\ expired' = expired \cup {id}
  /\ UNCHANGED <<input, status, saved, newest, watermark, crashes>>

checkpoint ==
  /\ status = "running" /\ optimized
  /\ saved # job
  /\ saved' = job
  /\ UNCHANGED <<input, status, job, newest, watermark, expired, crashes>>

\* Mutant: only the source's offset goes back.
OffsetOnly == [job EXCEPT !.offset = saved.offset]

restored == saved

Restart ==
  IF optimized
  THEN /\ job' = restored
       /\ newest' = 0 /\ watermark' = 0
       /\ UNCHANGED status
  ELSE status' = "failed" /\ UNCHANGED <<job, newest, watermark>>

crash ==
  /\ status = "running"
  /\ crashes < MaxCrashes
  /\ crashes' = crashes + 1
  /\ Restart
  /\ UNCHANGED <<input, saved, expired>>

\* What an operator cannot read fails the job: ParsePriceEvent catches TypeError and
\* ValueError, not the AttributeError of an opaque record; EventTimestampAssigner takes
\* the timestamp as it stands, and the image's Python does not read a final Z.
operator_raises ==
  /\ Ready
  /\ ~price_event_error(log[Cursor])
  /\ log[Cursor].form # "valid"
  /\ Restart
  /\ UNCHANGED <<input, saved, expired, crashes>>

\* The end of the bounded input: the last checkpoint commits the sinks.
finish ==
  /\ status = "running"
  /\ job.offset = Len(log)
  /\ status' = "finished"
  /\ saved' = job
  /\ UNCHANGED <<input, job, newest, watermark, expired, crashes>>

Terminated == status # "running" /\ UNCHANGED vars

Work == parse_invalid \/ process_element \/ operator_raises \/ finish
Next ==
  \/ Work \/ assign_watermark \/ expire_state \/ checkpoint \/ crash
  \/ Terminated
Spec == Init /\ [][Next]_vars
FairSpec == Spec /\ WF_vars(Work)
-----------------------------------------------------------------------------
Indexes == 1 .. Len(log)

\* The values the variables may have.
TypeOK ==
  /\ log \in Seq(Records) /\ Len(log) <= MaxLog /\ optimized \in BOOLEAN
  /\ status \in {"running", "finished", "failed"}
  /\ \A j \in {job, saved} :
       /\ j.offset \in 0 .. Len(log)
       /\ \A s \in {j.kept, j.late, j.dups, j.bad} : s \subseteq 1 .. j.offset
  /\ newest \in Nat /\ watermark \in 0 .. Max(0, newest - OutOfOrderness)
  /\ crashes \in 0 .. MaxCrashes

\* Whatever the restarts, each record up to the offset went to exactly one output:
\* none is dropped, none is written twice.
EachRecordOnce ==
  \A i \in 1 .. job.offset :
    Cardinality({o \in {"kept", "late", "dups", "bad"} : i \in job[o]}) = 1

\* The optimized job counts an event id in a window at most once, unless the state
\* that remembers it has expired.
CountedOnce ==
  optimized =>
    \A i, k \in job.kept : i # k /\ log[i].id = log[k].id => log[i].id \in expired

\* Neither a replay after a crash nor a duplicate makes the job count an event twice, and
\* neither makes it lose one.
CountsAreExact == EachRecordOnce /\ CountedOnce

\* The oracle is no more lenient than the job: what it accepts, a finished job has
\* counted, so a record the job rejects as too late is one the oracle rejects too.
OracleIsStricter == status = "finished" => process_bounded_events \subseteq job.kept

\* The job comes to an end unless a record no operator catches stops it.
JobEnds == (\A i \in Indexes : log[i].form \in {"valid", "invalid"}) => <>(status # "running")
=============================================================================
