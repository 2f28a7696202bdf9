------------------------- MODULE StreamWindowsProofs -------------------------
(***************************************************************************)
(* The counts of the price-event job are exact whatever the replay, the    *)
(* watermarks and the crashes.                                             *)
(*                                                                         *)
(* A crash puts the saved ledger in place of the running one, so the       *)
(* invariant says the same of both: each record up to the offset is in one *)
(* output, and the ids of the counted records are remembered or expired.   *)
(***************************************************************************)
EXTENDS StreamWindows, FiniteSetTheorems, TLAPS

Outputs == {"kept", "late", "dups", "bad"}

Ids == {r.id : r \in Records}

Ledgers == [offset : Nat, seen : SUBSET Ids, kept : SUBSET Nat, late : SUBSET Nat,
            dups : SUBSET Nat, bad : SUBSET Nat]

\* Record i is in exactly one output of ledger j.
InOneOutput(j, i) ==
  \/ i \in j.kept /\ i \notin j.late /\ i \notin j.dups /\ i \notin j.bad
  \/ i \notin j.kept /\ i \in j.late /\ i \notin j.dups /\ i \notin j.bad
  \/ i \notin j.kept /\ i \notin j.late /\ i \in j.dups /\ i \notin j.bad
  \/ i \notin j.kept /\ i \notin j.late /\ i \notin j.dups /\ i \in j.bad

\* The ledger j accounts for the records up to its offset and for no other.
Accounted(j) ==
  /\ j \in Ledgers /\ j.offset <= Len(log)
  /\ \A i \in 1 .. j.offset : InOneOutput(j, i)
  /\ \A i \in Nat : i \in j.kept \cup j.late \cup j.dups \cup j.bad => i \in 1 .. j.offset

\* The ids ledger j counted are remembered, and counted twice only once forgotten.
Remembered(j) ==
  optimized =>
    /\ \A i \in j.kept : log[i].id \in j.seen \cup expired
    /\ \A i, k \in j.kept : i # k /\ log[i].id = log[k].id => log[i].id \in expired

LedgerInv ==
  /\ log \in Seq(Records) /\ optimized \in BOOLEAN
  /\ Accounted(job) /\ Accounted(saved)
  /\ Remembered(job) /\ Remembered(saved)
-----------------------------------------------------------------------------
LEMMA FreshIsAccounted ==
  ASSUME log \in Seq(Records)
  PROVE  Accounted(Fresh) /\ Remembered(Fresh)
BY DEF Accounted, Remembered, Fresh, Ledgers

LEMMA InitLedger == Init => LedgerInv
<1> SUFFICES ASSUME Init PROVE LedgerInv
  OBVIOUS
<1>1. log \in Seq(Records)
  BY StreamAssumption DEF StreamAssumption, Init
<1> QED
  BY <1>1, FreshIsAccounted DEF Init, LedgerInv

\* One more record, put into one output: whichever it is, the ledger stays exact.
LEMMA OneMoreRecord ==
  ASSUME LedgerInv, Ready, NEW new \in Ledgers, new.offset = Cursor,
         \/ new.kept = job.kept \cup {Cursor} /\ new.late = job.late /\ new.dups = job.dups /\ new.bad = job.bad
         \/ new.kept = job.kept /\ new.late = job.late \cup {Cursor} /\ new.dups = job.dups /\ new.bad = job.bad
         \/ new.kept = job.kept /\ new.late = job.late /\ new.dups = job.dups \cup {Cursor} /\ new.bad = job.bad
         \/ new.kept = job.kept /\ new.late = job.late /\ new.dups = job.dups /\ new.bad = job.bad \cup {Cursor}
  PROVE  Accounted(new)
<1>1. /\ Cursor \in Nat \ {0} /\ Cursor = job.offset + 1 /\ job.offset \in Nat /\ Cursor <= Len(log)
      /\ job \in Ledgers
  BY DEF LedgerInv, Accounted, Ledgers, Ready, Cursor
<1>2. Cursor \notin job.kept \cup job.late \cup job.dups \cup job.bad
  BY <1>1 DEF LedgerInv, Accounted
<1>3. \A i \in 1 .. job.offset : InOneOutput(new, i)
  BY <1>1 DEF LedgerInv, Accounted, InOneOutput
<1>4. InOneOutput(new, Cursor)
  BY <1>2 DEF InOneOutput
<1>5. \A i \in 1 .. Cursor : i \in 1 .. job.offset \/ i = Cursor
  BY <1>1
<1>6. \A i \in Nat : i \in new.kept \cup new.late \cup new.dups \cup new.bad => i \in 1 .. Cursor
  BY <1>1 DEF LedgerInv, Accounted
<1> QED
  BY <1>1, <1>3, <1>4, <1>5, <1>6 DEF Accounted
\* A record that is not counted again unless its id was forgotten.
LEMMA ProcessKeepsLedger ==
  ASSUME LedgerInv, process_element
  PROVE  Accounted(job)' /\ Remembered(job)'
<1> DEFINE r == log[Cursor]
<1>1. /\ Ready /\ UNCHANGED <<log, optimized, expired>>
      /\ job \in Ledgers /\ Cursor \in 1 .. Len(log) /\ Cursor \in Nat /\ log \in Seq(Records)
  BY DEF process_element, input, LedgerInv, Accounted, Ledgers, Ready, Cursor
<1>2. r.id \in Ids
  BY <1>1 DEF Ids
<1>3. Cursor \notin job.kept
  BY <1>1 DEF LedgerInv, Accounted, Ledgers, Cursor
<1>4. CASE /\ DeduplicateEvents(r)
           /\ job' = [job EXCEPT !.offset = Cursor, !.seen = @ \cup {r.id}, !.dups = @ \cup {Cursor}]
  <2>1. /\ job' \in Ledgers /\ job'.offset = Cursor /\ job'.seen = job.seen \cup {r.id}
        /\ job'.kept = job.kept /\ job'.late = job.late /\ job'.dups = job.dups \cup {Cursor} /\ job'.bad = job.bad
    BY <1>1, <1>2, <1>4 DEF Ledgers
  <2>2. Accounted(job')
    BY <1>1, <2>1, OneMoreRecord
  <2> QED
    BY <1>1, <2>1, <2>2 DEF Accounted, Remembered, LedgerInv
<1>5. CASE job' = [job EXCEPT !.offset = Cursor, !.seen = @ \cup {r.id}, !.late = @ \cup {Cursor}]
  <2>1. /\ job' \in Ledgers /\ job'.offset = Cursor /\ job'.seen = job.seen \cup {r.id}
        /\ job'.kept = job.kept /\ job'.late = job.late \cup {Cursor} /\ job'.dups = job.dups /\ job'.bad = job.bad
    BY <1>1, <1>2, <1>5 DEF Ledgers
  <2>2. Accounted(job')
    BY <1>1, <2>1, OneMoreRecord
  <2> QED
    BY <1>1, <2>1, <2>2 DEF Accounted, Remembered, LedgerInv
<1>6. CASE /\ ~DeduplicateEvents(r)
           /\ job' = [job EXCEPT !.offset = Cursor, !.seen = @ \cup {r.id}, !.kept = @ \cup {Cursor}]
  <2>1. /\ job' \in Ledgers /\ job'.offset = Cursor /\ job'.seen = job.seen \cup {r.id}
        /\ job'.kept = job.kept \cup {Cursor} /\ job'.late = job.late /\ job'.dups = job.dups /\ job'.bad = job.bad
    BY <1>1, <1>2, <1>6 DEF Ledgers
  <2>2. Accounted(job')
    BY <1>1, <2>1, OneMoreRecord
  <2>3. ASSUME optimized
        PROVE  /\ r.id \notin job.seen
               /\ \A i \in job.kept : log[i].id \in job.seen \cup expired
               /\ \A i, k \in job.kept : i # k /\ log[i].id = log[k].id => log[i].id \in expired
    BY <1>6, <2>3 DEF DeduplicateEvents, LedgerInv, Remembered
  <2>4. ASSUME optimized, NEW i \in job.kept \cup {Cursor} PROVE log[i].id \in job.seen \cup {r.id} \cup expired
    BY <2>3, <2>4
  <2>5. ASSUME optimized, NEW i \in job.kept \cup {Cursor}, NEW k \in job.kept \cup {Cursor},
               i # k, log[i].id = log[k].id
        PROVE  log[i].id \in expired
    BY <2>3, <2>5
  <2> QED
    BY <1>1, <2>1, <2>2, <2>4, <2>5 DEF Accounted, Remembered
<1> QED
  BY <1>4, <1>5, <1>6 DEF process_element

LEMMA StepKeepsLedger ==
  ASSUME LedgerInv, Next
  PROVE  LedgerInv'
<1>0. UNCHANGED input /\ expired \subseteq expired' /\ log' = log /\ optimized' = optimized
  BY DEF Next, Work, parse_invalid, process_element, operator_raises, finish, assign_watermark,
     expire_state, checkpoint, crash, Terminated, vars, input
<1>2. UNCHANGED saved => Accounted(saved)' /\ Remembered(saved)'
  BY <1>0 DEF LedgerInv, Accounted, Remembered
<1>3. UNCHANGED job => Accounted(job)' /\ Remembered(job)'
  BY <1>0 DEF LedgerInv, Accounted, Remembered
<1>4. saved' = job => Accounted(saved)' /\ Remembered(saved)'
  BY <1>0 DEF LedgerInv, Accounted, Remembered
<1>5. job' = saved => Accounted(job)' /\ Remembered(job)'
  BY <1>0 DEF LedgerInv, Accounted, Remembered
<1>6. (log \in Seq(Records) /\ optimized \in BOOLEAN)'
  BY <1>0 DEF LedgerInv
<1>7. CASE parse_invalid
  <2>1. /\ job' \in Ledgers /\ job'.offset = Cursor /\ job'.seen = job.seen
        /\ job'.kept = job.kept /\ job'.late = job.late /\ job'.dups = job.dups /\ job'.bad = job.bad \cup {Cursor}
    <3>1. job \in Ledgers /\ Cursor \in Nat /\ job' = [job EXCEPT !.offset = Cursor, !.bad = @ \cup {Cursor}]
      BY <1>7 DEF parse_invalid, LedgerInv, Accounted, Ledgers, Cursor
    <3> QED
      BY <3>1 DEF Ledgers
  <2>2. Accounted(job')
    BY <1>7, <2>1, OneMoreRecord DEF parse_invalid
  <2>3. Accounted(job)' /\ Remembered(job)'
    BY <1>0, <2>1, <2>2 DEF Accounted, Remembered, LedgerInv
  <2> QED
    BY <1>2, <1>6, <1>7, <2>3 DEF parse_invalid, LedgerInv
<1>8. CASE process_element
  BY <1>2, <1>6, <1>8, ProcessKeepsLedger DEF process_element, LedgerInv
<1>9. CASE expire_state
  <2>1. PICK id \in job.seen : job' = [job EXCEPT !.seen = @ \ {id}] /\ expired' = expired \cup {id}
    BY <1>9 DEF expire_state
  <2>2. /\ job' \in Ledgers /\ job'.offset = job.offset /\ job'.seen = job.seen \ {id}
        /\ job'.kept = job.kept /\ job'.late = job.late /\ job'.dups = job.dups /\ job'.bad = job.bad
    BY <2>1 DEF LedgerInv, Accounted, Ledgers
  <2>3. Accounted(job)'
    BY <1>0, <2>2 DEF LedgerInv, Accounted, InOneOutput
  <2>4. Remembered(job)'
    BY <1>0, <2>1, <2>2 DEF LedgerInv, Remembered
  <2> QED
    BY <1>2, <1>6, <1>9, <2>3, <2>4 DEF expire_state, LedgerInv
<1>10. CASE crash \/ operator_raises
  <2>1. UNCHANGED saved /\ (job' = saved \/ job' = job)
    BY <1>10 DEF crash, operator_raises, Restart, restored
  <2> QED
    BY <1>2, <1>3, <1>5, <1>6, <2>1 DEF LedgerInv
<1>11. CASE checkpoint \/ finish
  BY <1>3, <1>4, <1>6, <1>11 DEF checkpoint, finish, LedgerInv
<1>12. CASE assign_watermark \/ Terminated
  BY <1>2, <1>3, <1>6, <1>12 DEF assign_watermark, Terminated, vars, LedgerInv
<1> QED
  BY <1>7, <1>8, <1>9, <1>10, <1>11, <1>12 DEF Next, Work

\* The invariant in the words of the property.
LEMMA LedgerIsExact == LedgerInv => CountsAreExact
<1>1. ASSUME LedgerInv, NEW i \in 1 .. job.offset
      PROVE  Cardinality({o \in Outputs : i \in job[o]}) = 1
  <2>1. InOneOutput(job, i) /\ job \in Ledgers
    BY <1>1 DEF LedgerInv, Accounted
  <2>2. /\ job["kept"] = job.kept /\ job["late"] = job.late
        /\ job["dups"] = job.dups /\ job["bad"] = job.bad
    OBVIOUS
  <2>3. \E o \in Outputs : {p \in Outputs : i \in job[p]} = {o}
    <3>1. CASE i \in job.kept
      <4>1. {p \in Outputs : i \in job[p]} = {"kept"}
        BY <2>1, <2>2, <3>1 DEF InOneOutput, Outputs
      <4> QED
        BY <4>1 DEF Outputs
    <3>2. CASE i \in job.late
      <4>1. {p \in Outputs : i \in job[p]} = {"late"}
        BY <2>1, <2>2, <3>2 DEF InOneOutput, Outputs
      <4> QED
        BY <4>1 DEF Outputs
    <3>3. CASE i \in job.dups
      <4>1. {p \in Outputs : i \in job[p]} = {"dups"}
        BY <2>1, <2>2, <3>3 DEF InOneOutput, Outputs
      <4> QED
        BY <4>1 DEF Outputs
    <3>4. CASE i \in job.bad
      <4>1. {p \in Outputs : i \in job[p]} = {"bad"}
        BY <2>1, <2>2, <3>4 DEF InOneOutput, Outputs
      <4> QED
        BY <4>1 DEF Outputs
    <3> QED
      BY <2>1, <3>1, <3>2, <3>3, <3>4 DEF InOneOutput
  <2> QED
    BY <2>3, FS_Singleton
<1>2. LedgerInv => EachRecordOnce
  BY <1>1 DEF EachRecordOnce, Outputs
<1>3. LedgerInv => CountedOnce
  BY DEF LedgerInv, Remembered, CountedOnce
<1> QED
  BY <1>2, <1>3 DEF CountsAreExact

\* Each record goes to exactly one output and no event is counted twice while it is
\* remembered, whatever the checkpoints and crashes (build_pipeline).
THEOREM CountsHold == Spec => []CountsAreExact
<1>1. LedgerInv /\ [Next]_vars => LedgerInv'
  <2>1. LedgerInv /\ UNCHANGED vars => LedgerInv'
    BY DEF LedgerInv, vars, input, Accounted, Remembered
  <2> QED
    BY <2>1, StepKeepsLedger
<1> QED
  BY <1>1, InitLedger, LedgerIsExact, PTL DEF Spec
-----------------------------------------------------------------------------
(* The oracle is a recursive function of the replay.  The records the job  *)
(* has consumed are the induction: at every offset there is a function     *)
(* that solves the recursion so far, and whatever solves it accepts no     *)
(* record the job has not counted.  At the end of the replay the oracle    *)
(* itself is such a function.                                              *)

Unread == [seen |-> {}, accepted |-> {}, max |-> 0]

OracleStates == [seen : SUBSET Ids, accepted : SUBSET Nat, max : Nat]

\* g is the oracle on the first m records.
Solves(g, m) == g[0] = Unread /\ \A n \in 1 .. m : g[n] = read_event(g[n - 1], n)

\* What the oracle has noted is no newer than the newest it has accepted.
Ordered(s) == s \in OracleStates /\ \A r \in Records : r.id \in s.seen => r.time <= s.max

\* The job remembers no id the oracle has not noted, and has counted all it accepted.
Judged(j) ==
  /\ \E g : Solves(g, j.offset)
  /\ \A g : Solves(g, j.offset) =>
       /\ Ordered(g[j.offset])
       /\ j.seen \subseteq g[j.offset].seen
       /\ g[j.offset].accepted \subseteq j.kept

\* The watermark lags the newest record by OutOfOrderness, and the newest record
\* the job has seen is no newer than the newest the oracle has accepted.
WatermarkInv ==
  /\ newest \in Nat /\ watermark \in Nat
  /\ watermark > 0 => watermark <= newest - OutOfOrderness
  /\ \A g : Solves(g, job.offset) => newest <= g[job.offset].max

OracleInv ==
  /\ Judged(job) /\ Judged(saved)
  /\ WatermarkInv
  /\ status = "finished" => job.offset = Len(log)

\* A record's window ends after it.
LEMMA WindowEndsLater ==
  ASSUME NEW t \in Nat
  PROVE  WindowEnd(t) \in Nat /\ t < WindowEnd(t)
<1>1. \A w \in Nat \ {0} : t \div w \in Nat /\ t < (t \div w + 1) * w /\ (t \div w + 1) * w \in Nat
  OBVIOUS
<1> QED BY <1>1, StreamAssumption DEF WindowEnd

\* One record read: the oracle's states stay ordered.
LEMMA ReadKeepsOrder ==
  ASSUME NEW s, Ordered(s), log \in Seq(Records), NEW n \in 1 .. Len(log)
  PROVE  /\ Ordered(read_event(s, n))
         /\ read_event(s, n).seen = IF price_event_error(log[n]) THEN s.seen ELSE s.seen \cup {log[n].id}
         /\ read_event(s, n).max >= s.max
         /\ ~price_event_error(log[n]) => log[n].time <= read_event(s, n).max
         /\ read_event(s, n).accepted \subseteq s.accepted \cup {n}
         /\ n \in read_event(s, n).accepted \ s.accepted =>
              /\ ~price_event_error(log[n])
              /\ ~(optimized /\ log[n].id \in s.seen)
              /\ ~(s.max > 0 /\ log[n].time + Lateness < s.max - OutOfOrderness)
<1> DEFINE r == log[n]
           t == read_event(s, n)
<1>1. /\ r \in Records /\ r.time \in Nat /\ r.id \in Ids /\ n \in Nat
      /\ OutOfOrderness \in Nat /\ Lateness \in Nat
      /\ \A q \in Records : q.time \in Nat /\ (q.id = r.id => q.time = r.time)
  BY StreamAssumption DEF Ids
<1>2. /\ s \in OracleStates /\ s.seen \subseteq Ids /\ s.accepted \subseteq Nat /\ s.max \in Nat
      /\ \A q \in Records : q.id \in s.seen => q.time <= s.max
  BY DEF Ordered, OracleStates
<1>3. CASE price_event_error(r) \/ (optimized /\ r.id \in s.seen)
  <2>1. t = s
    BY <1>3 DEF read_event
  <2>2. ~price_event_error(r) => s.seen = s.seen \cup {r.id} /\ r.time <= s.max
    BY <1>1, <1>2, <1>3
  <2>3. s.max >= s.max /\ Ordered(s) /\ s.accepted \subseteq s.accepted \cup {n}
    BY <1>2
  <2>4. n \notin s.accepted \ s.accepted
    OBVIOUS
  <2>5. s.seen = IF price_event_error(r) THEN s.seen ELSE s.seen \cup {r.id}
    BY <2>2
  <2>6. ~price_event_error(r) => r.time <= s.max
    BY <2>2
  <2> HIDE DEF t, r
  <2>7. read_event(s, n) = s
    BY <2>1 DEF t
  <2> QED BY <2>3, <2>4, <2>5, <2>6, <2>7 DEF r
<1>4. CASE /\ ~(price_event_error(r) \/ (optimized /\ r.id \in s.seen))
           /\ s.max > 0 /\ r.time + Lateness < s.max - OutOfOrderness
  <2>1. t = [s EXCEPT !.seen = @ \cup {r.id}]
    BY <1>4 DEF read_event
  <2>2. t \in OracleStates /\ t.seen = s.seen \cup {r.id} /\ t.max = s.max /\ t.accepted = s.accepted
    BY <1>1, <1>2, <2>1 DEF OracleStates
  <2>3. r.time <= s.max
    BY <1>1, <1>2, <1>4
  <2>4. \A q \in Records : q.id \in t.seen => q.time <= t.max
    BY <1>1, <1>2, <2>2, <2>3
  <2> QED BY <1>2, <1>4, <2>2, <2>3, <2>4 DEF Ordered
<1>5. CASE /\ ~(price_event_error(r) \/ (optimized /\ r.id \in s.seen))
           /\ ~(s.max > 0 /\ r.time + Lateness < s.max - OutOfOrderness)
  <2>1. t = [s EXCEPT !.seen = @ \cup {r.id}, !.accepted = @ \cup {n}, !.max = Max(@, r.time)]
    BY <1>2, <1>5 DEF read_event, OracleStates
  <2>2. Max(s.max, r.time) \in Nat /\ s.max <= Max(s.max, r.time) /\ r.time <= Max(s.max, r.time)
    BY <1>1, <1>2 DEF Max
  <2>3. /\ t \in OracleStates /\ t.seen = s.seen \cup {r.id} /\ t.max = Max(s.max, r.time)
        /\ t.accepted = s.accepted \cup {n}
    BY <1>1, <1>2, <2>1, <2>2 DEF OracleStates
  <2>4. \A q \in Records : q.id \in t.seen => q.time <= t.max
    <3>1. ASSUME NEW q \in Records, q.id \in t.seen
          PROVE  q.time <= t.max
      <4>1. CASE q.id \in s.seen
        <5>1. q.time \in Nat /\ q.time <= s.max
          BY <1>1, <1>2, <4>1
        <5> QED BY <1>2, <2>2, <2>3, <5>1
      <4>2. CASE q.id = r.id
        BY <1>1, <2>2, <2>3, <4>2
      <4> QED BY <2>3, <3>1, <4>1, <4>2
    <3> QED BY <3>1
  <2> QED BY <1>2, <1>5, <2>2, <2>3, <2>4 DEF Ordered
<1> QED BY <1>3, <1>4, <1>5

\* What solves the recursion up to m solves it up to m - 1, and can be extended.
LEMMA SolutionsGrow ==
  ASSUME NEW m \in Nat
  PROVE  /\ \A g : Solves(g, m + 1) => Solves(g, m) /\ g[m + 1] = read_event(g[m], m + 1)
         /\ (\E g : Solves(g, m)) => \E g : Solves(g, m + 1)
<1>1. ASSUME NEW g, Solves(g, m + 1)
      PROVE  Solves(g, m) /\ g[m + 1] = read_event(g[m], m + 1)
  <2>1. \A n \in 1 .. m : n \in 1 .. m + 1
    OBVIOUS
  <2>2. m + 1 \in 1 .. m + 1 /\ (m + 1) - 1 = m
    OBVIOUS
  <2> QED BY <1>1, <2>1, <2>2 DEF Solves
<1>2. ASSUME NEW g, Solves(g, m)
      PROVE  \E h : Solves(h, m + 1)
  <2> DEFINE h == [n \in 0 .. m + 1 |-> IF n = m + 1 THEN read_event(g[m], m + 1) ELSE g[n]]
  <2>1. \A n \in 0 .. m : h[n] = g[n]
    OBVIOUS
  <2>2. h[m + 1] = read_event(g[m], m + 1)
    OBVIOUS
  <2> HIDE DEF h
  <2>3. h[0] = Unread
    BY <1>2, <2>1 DEF Solves
  <2>4. ASSUME NEW n \in 1 .. m + 1
        PROVE  h[n] = read_event(h[n - 1], n)
    <3>1. CASE n = m + 1
      <4>1. n - 1 = m /\ m \in 0 .. m
        BY <3>1
      <4>2. h[n - 1] = g[m]
        BY <2>1, <4>1
      <4> QED BY <2>2, <3>1, <4>2
    <3>2. CASE n # m + 1
      <4>1. n \in 1 .. m /\ n \in 0 .. m /\ n - 1 \in 0 .. m
        BY <3>2
      <4>2. h[n] = g[n] /\ h[n - 1] = g[n - 1] /\ g[n] = read_event(g[n - 1], n)
        BY <1>2, <2>1, <4>1 DEF Solves
      <4> QED BY <4>2
    <3> QED BY <3>1, <3>2
  <2> QED BY <2>3, <2>4 DEF Solves
<1> QED BY <1>1, <1>2

\* A record the job rejects as late, or as a duplicate, the oracle rejects too.
LEMMA RejectedByBoth ==
  ASSUME LedgerInv, OracleInv, Ready, NEW g, Solves(g, Cursor),
         ~price_event_error(log[Cursor]),
         DeduplicateEvents(log[Cursor]) \/ side_output_late_data(log[Cursor])
  PROVE  g[Cursor].accepted \subseteq job.kept
<1> DEFINE s == g[job.offset]
           r == log[Cursor]
<1>1. /\ job.offset \in Nat /\ Cursor = job.offset + 1 /\ Cursor \in 1 .. Len(log) /\ log \in Seq(Records)
      /\ r \in Records /\ r.time \in Nat /\ Lateness \in Nat /\ OutOfOrderness \in Nat
  BY StreamAssumption DEF LedgerInv, Accounted, Ledgers, Ready, Cursor
<1>2. Solves(g, job.offset) /\ g[Cursor] = read_event(s, Cursor)
  BY <1>1, SolutionsGrow
<1>3. /\ Ordered(s) /\ job.seen \subseteq s.seen /\ s.accepted \subseteq job.kept
      /\ newest <= s.max /\ s.max \in Nat
  BY <1>2 DEF OracleInv, Judged, WatermarkInv, Ordered, OracleStates
<1> HIDE DEF s
<1>0. /\ g[Cursor].accepted \subseteq s.accepted \cup {Cursor}
      /\ Cursor \in g[Cursor].accepted \ s.accepted =>
           /\ ~(optimized /\ r.id \in s.seen)
           /\ ~(s.max > 0 /\ r.time + Lateness < s.max - OutOfOrderness)
  BY <1>1, <1>2, <1>3, ReadKeepsOrder
<1>4. SUFFICES Cursor \notin g[Cursor].accepted \ s.accepted
  BY <1>0, <1>3
<1>5. CASE DeduplicateEvents(r)
  BY <1>0, <1>3, <1>5 DEF DeduplicateEvents
<1>6. CASE side_output_late_data(r)
  <2>1. /\ WindowEnd(r.time) \in Nat /\ r.time < WindowEnd(r.time)
        /\ WindowEnd(r.time) + Lateness <= watermark
    BY <1>1, <1>6, WindowEndsLater DEF side_output_late_data
  <2>2. newest \in Nat /\ watermark \in Nat /\ (watermark > 0 => watermark <= newest - OutOfOrderness)
    BY DEF OracleInv, WatermarkInv
  <2>3. \A t, e, x, w, n \in Nat :
          t < e /\ e + Lateness <= w /\ (w > 0 => w <= n - OutOfOrderness) /\ n <= x
            => x > 0 /\ t + Lateness < x - OutOfOrderness
    BY StreamAssumption
  <2>4. s.max > 0 /\ r.time + Lateness < s.max - OutOfOrderness
    BY <1>1, <1>3, <2>1, <2>2, <2>3
  <2> QED BY <1>0, <1>3, <2>4
<1> QED BY <1>5, <1>6

\* A record consumed by the job and read by the oracle: the ledger stays judged.
LEMMA ConsumeKeepsJudged ==
  ASSUME LedgerInv, OracleInv, Ready, NEW new, NEW top \in Nat,
         new.offset = Cursor,
         IF price_event_error(log[Cursor])
           THEN new.seen = job.seen /\ new.kept = job.kept /\ top = newest
           ELSE /\ new.seen = job.seen \cup {log[Cursor].id} /\ top = Max(newest, log[Cursor].time)
                /\ IF DeduplicateEvents(log[Cursor]) \/ side_output_late_data(log[Cursor])
                     THEN new.kept = job.kept ELSE new.kept = job.kept \cup {Cursor}
  PROVE  Judged(new) /\ \A g : Solves(g, new.offset) => top <= g[new.offset].max
<1> DEFINE r == log[Cursor]
<1>1. /\ job.offset \in Nat /\ Cursor = job.offset + 1 /\ Cursor \in 1 .. Len(log) /\ log \in Seq(Records)
      /\ r \in Records /\ r.time \in Nat /\ newest \in Nat
  BY StreamAssumption DEF LedgerInv, Accounted, Ledgers, Ready, Cursor, OracleInv, WatermarkInv
<1>2. \E g : Solves(g, Cursor)
  <2>1. \E g : Solves(g, job.offset)
    BY DEF OracleInv, Judged
  <2>2. \E g : Solves(g, job.offset + 1)
    BY <1>1, <2>1, SolutionsGrow
  <2> QED BY <1>1, <2>2
<1>3. ASSUME NEW g, Solves(g, Cursor)
      PROVE  /\ Ordered(g[Cursor])
             /\ new.seen \subseteq g[Cursor].seen
             /\ g[Cursor].accepted \subseteq new.kept
             /\ top <= g[Cursor].max
  <2> DEFINE s == g[job.offset]
  <2>1. Solves(g, job.offset) /\ g[Cursor] = read_event(s, Cursor)
    BY <1>1, <1>3, SolutionsGrow
  <2>2. /\ Ordered(s) /\ job.seen \subseteq s.seen /\ s.accepted \subseteq job.kept
        /\ newest <= s.max /\ s.max \in Nat
    BY <2>1 DEF OracleInv, Judged, WatermarkInv, Ordered, OracleStates
  <2> HIDE DEF s
  <2>0. /\ Ordered(read_event(s, Cursor))
        /\ read_event(s, Cursor).seen = IF price_event_error(r) THEN s.seen ELSE s.seen \cup {r.id}
        /\ read_event(s, Cursor).max >= s.max
        /\ ~price_event_error(r) => r.time <= read_event(s, Cursor).max
        /\ read_event(s, Cursor).accepted \subseteq s.accepted \cup {Cursor}
        /\ Cursor \in read_event(s, Cursor).accepted \ s.accepted => ~price_event_error(r)
    BY <1>1, <2>2, ReadKeepsOrder
  <2>3. /\ Ordered(g[Cursor])
        /\ g[Cursor].seen = IF price_event_error(r) THEN s.seen ELSE s.seen \cup {r.id}
        /\ g[Cursor].max >= s.max
        /\ ~price_event_error(r) => r.time <= g[Cursor].max
        /\ g[Cursor].accepted \subseteq s.accepted \cup {Cursor}
        /\ Cursor \in g[Cursor].accepted \ s.accepted => ~price_event_error(r)
    BY <2>0, <2>1
  <2>4. new.seen \subseteq g[Cursor].seen
    BY <2>2, <2>3
  <2>5. g[Cursor].accepted \subseteq new.kept
    <3>1. CASE price_event_error(r)
      BY <2>2, <2>3, <3>1
    <3>2. CASE ~price_event_error(r) /\ (DeduplicateEvents(r) \/ side_output_late_data(r))
      BY <1>3, <3>2, RejectedByBoth
    <3>3. CASE ~price_event_error(r) /\ ~(DeduplicateEvents(r) \/ side_output_late_data(r))
      BY <2>2, <2>3, <3>3
    <3> QED BY <3>1, <3>2, <3>3
  <2>6. top <= g[Cursor].max
    <3>1. g[Cursor].max \in Nat
      BY <2>3 DEF Ordered, OracleStates
    <3> QED BY <1>1, <2>2, <2>3, <3>1 DEF Max
  <2> QED BY <2>3, <2>4, <2>5, <2>6
<1> QED BY <1>2, <1>3 DEF Judged

LEMMA InitOracle == Init => OracleInv
<1> SUFFICES ASSUME Init
             PROVE  OracleInv
  OBVIOUS
<1>1. \A g : Solves(g, 0) <=> g[0] = Unread
  BY DEF Solves
<1>2. \E g : Solves(g, 0)
  <2>1. [n \in 0 .. 0 |-> Unread][0] = Unread
    OBVIOUS
  <2> QED BY <1>1, <2>1
<1>3. Ordered(Unread) /\ Unread.seen = {} /\ Unread.accepted = {} /\ Unread.max = 0
  BY DEF Unread, Ordered, OracleStates
<1>4. Fresh.offset = 0 /\ Fresh.seen = {} /\ Fresh.kept = {}
  BY DEF Fresh
<1>5. Judged(Fresh) /\ \A g : Solves(g, 0) => g[0].max = 0
  BY <1>1, <1>2, <1>3, <1>4 DEF Judged
<1> QED BY <1>4, <1>5 DEF Init, OracleInv, WatermarkInv

LEMMA StepKeepsOracle ==
  ASSUME LedgerInv, OracleInv, Next
  PROVE  OracleInv'
<1>0. UNCHANGED <<log, optimized>>
  BY DEF Next, Work, parse_invalid, process_element, operator_raises, finish, assign_watermark,
     expire_state, checkpoint, crash, Terminated, vars, input
<1>1. \A g, m : Solves(g, m)' <=> Solves(g, m)
  BY <1>0 DEF Solves, read_event
<1>2. \A j : Judged(j) => Judged(j)'
  BY <1>1 DEF Judged, Ordered
<1>3. UNCHANGED saved => Judged(saved)'
  BY <1>2 DEF OracleInv
<1>4. UNCHANGED job => Judged(job)'
  BY <1>2 DEF OracleInv
<1>5. saved' = job => Judged(saved)'
  BY <1>2 DEF OracleInv
<1>6. UNCHANGED <<job, newest, watermark>> => WatermarkInv'
  BY <1>1 DEF OracleInv, WatermarkInv
<1>7. Ready => Cursor = job.offset + 1 /\ job.offset \in Nat /\ job \in Ledgers
  BY DEF Ready, Cursor, LedgerInv, Accounted, Ledgers
<1>8. CASE parse_invalid
  <2>1. /\ Ready /\ price_event_error(log[Cursor])
        /\ job' = [job EXCEPT !.offset = Cursor, !.bad = @ \cup {Cursor}]
        /\ UNCHANGED <<status, saved, newest, watermark>>
    BY <1>8 DEF parse_invalid
  <2>2. job'.offset = Cursor /\ job'.seen = job.seen /\ job'.kept = job.kept
    BY <1>7, <2>1 DEF Ledgers
  <2>3. newest \in Nat
    BY DEF OracleInv, WatermarkInv
  <2>4. Judged(job') /\ \A g : Solves(g, job'.offset) => newest <= g[job'.offset].max
    BY <2>1, <2>2, <2>3, ConsumeKeepsJudged
  <2>5. Judged(job)'
    BY <1>2, <2>4
  <2>6. WatermarkInv'
    BY <1>1, <2>1, <2>4 DEF OracleInv, WatermarkInv
  <2>7. status' # "finished"
    BY <2>1 DEF Ready
  <2> QED BY <1>3, <2>1, <2>5, <2>6, <2>7 DEF OracleInv
<1>9. CASE process_element
  <2> DEFINE r == log[Cursor]
  <2>1. /\ Ready /\ r.form = "valid" /\ newest' = Max(newest, r.time)
        /\ UNCHANGED <<status, saved, watermark>>
    BY <1>9 DEF process_element
  <2>2. /\ job'.offset = Cursor /\ job'.seen = job.seen \cup {r.id}
        /\ IF DeduplicateEvents(r) \/ side_output_late_data(r)
             THEN job'.kept = job.kept ELSE job'.kept = job.kept \cup {Cursor}
    BY <1>7, <1>9, <2>1 DEF process_element, Ledgers
  <2>3. ~price_event_error(r) /\ newest' \in Nat /\ newest \in Nat /\ newest <= newest'
    <3>1. Cursor \in 1 .. Len(log) /\ log \in Seq(Records)
      BY <1>7, <2>1 DEF Ready, LedgerInv
    <3>2. r.time \in Nat
      BY <3>1, StreamAssumption
    <3>3. newest \in Nat
      BY DEF OracleInv, WatermarkInv
    <3> QED BY <2>1, <3>2, <3>3 DEF price_event_error, Max
  <2>4. Judged(job') /\ \A g : Solves(g, job'.offset) => newest' <= g[job'.offset].max
    BY <2>1, <2>2, <2>3, ConsumeKeepsJudged
  <2>5. Judged(job)'
    BY <1>2, <2>4
  <2>6. WatermarkInv'
    <3>1. watermark' > 0 => watermark' <= newest' - OutOfOrderness
      BY <2>1, <2>3, StreamAssumption DEF OracleInv, WatermarkInv
    <3> QED BY <1>1, <2>1, <2>3, <2>4, <3>1 DEF OracleInv, WatermarkInv
  <2>7. status' # "finished"
    BY <2>1 DEF Ready
  <2> QED BY <1>3, <2>1, <2>5, <2>6, <2>7 DEF OracleInv
<1>10. CASE assign_watermark
  <2>1. UNCHANGED <<status, job, saved, newest>> /\ watermark' \in watermark + 1 .. newest - OutOfOrderness
    BY <1>10 DEF assign_watermark
  <2>2. watermark' \in Nat /\ watermark' <= newest - OutOfOrderness
    BY <2>1, StreamAssumption DEF OracleInv, WatermarkInv
  <2>3. WatermarkInv'
    BY <1>1, <2>1, <2>2 DEF OracleInv, WatermarkInv
  <2> QED BY <1>0, <1>3, <1>4, <2>1, <2>3 DEF OracleInv
<1>11. CASE expire_state
  <2>1. PICK id \in job.seen : job' = [job EXCEPT !.seen = @ \ {id}]
    BY <1>11 DEF expire_state
  <2>2. job'.offset = job.offset /\ job'.seen \subseteq job.seen /\ job'.kept = job.kept
    BY <2>1 DEF LedgerInv, Accounted, Ledgers
  <2>3. UNCHANGED <<status, saved, newest, watermark>> /\ status = "running"
    BY <1>11 DEF expire_state
  <2>4. Judged(job')
    BY <2>2 DEF OracleInv, Judged
  <2>5. Judged(job)'
    BY <1>2, <2>4
  <2>6. WatermarkInv'
    BY <1>1, <2>2, <2>3 DEF OracleInv, WatermarkInv
  <2> QED BY <1>3, <2>3, <2>5, <2>6 DEF OracleInv
<1>12. CASE checkpoint
  <2>1. UNCHANGED <<status, job, newest, watermark>> /\ saved' = job
    BY <1>12 DEF checkpoint
  <2> QED BY <1>0, <1>4, <1>5, <1>6, <2>1 DEF OracleInv
<1>13. CASE finish
  <2>1. UNCHANGED <<job, newest, watermark>> /\ saved' = job /\ job.offset = Len(log)
    BY <1>13 DEF finish
  <2> QED BY <1>0, <1>4, <1>5, <1>6, <2>1 DEF OracleInv
<1>14. CASE crash \/ operator_raises
  <2>1. status = "running" /\ UNCHANGED saved /\ Restart
    BY <1>14 DEF crash, operator_raises, Ready
  <2>2. CASE optimized
    <3>1. job' = saved /\ newest' = 0 /\ watermark' = 0 /\ UNCHANGED status
      BY <2>1, <2>2 DEF Restart, restored
    <3>2. Judged(job)'
      BY <1>2, <3>1 DEF OracleInv
    <3>3. \A g : Solves(g, job'.offset) => 0 <= g[job'.offset].max
      BY <3>1 DEF OracleInv, Judged, Ordered, OracleStates
    <3>4. WatermarkInv'
      BY <1>1, <3>1, <3>3 DEF WatermarkInv
    <3> QED BY <1>3, <2>1, <3>1, <3>2, <3>4 DEF OracleInv
  <2>3. CASE ~optimized
    <3>1. UNCHANGED <<job, newest, watermark>> /\ status' = "failed"
      BY <2>1, <2>3 DEF Restart
    <3> QED BY <1>3, <1>4, <1>6, <2>1, <3>1 DEF OracleInv
  <2> QED BY <2>2, <2>3
<1>15. CASE Terminated
  BY <1>0, <1>3, <1>4, <1>6, <1>15 DEF Terminated, vars, OracleInv
<1> QED
  BY <1>8, <1>9, <1>10, <1>11, <1>12, <1>13, <1>14, <1>15 DEF Next, Work

\* At the end of the replay the oracle is a solution of its own recursion.
LEMMA OracleSolves ==
  ASSUME log \in Seq(Records), NEW g, Solves(g, Len(log))
  PROVE  Solves(Oracle, Len(log))
<1> DEFINE Defines(f) == f = [n \in 0 .. Len(log) |-> IF n = 0 THEN Unread ELSE read_event(f[n - 1], n)]
           h == [n \in 0 .. Len(log) |-> g[n]]
<1>1. Len(log) \in Nat
  OBVIOUS
<1>2. Defines(h)
  <2>1. ASSUME NEW n \in 0 .. Len(log)
        PROVE  h[n] = IF n = 0 THEN Unread ELSE read_event(h[n - 1], n)
    <3>1. CASE n = 0
      BY <3>1 DEF Solves
    <3>2. CASE n # 0
      <4>1. n \in 1 .. Len(log) /\ n - 1 \in 0 .. Len(log)
        BY <1>1, <3>2
      <4>2. h[n] = g[n] /\ h[n - 1] = g[n - 1] /\ g[n] = read_event(g[n - 1], n)
        BY <4>1 DEF Solves
      <4> QED BY <3>2, <4>2
    <3> QED BY <3>1, <3>2
  <2> QED BY <2>1
<1>3. Oracle = CHOOSE f : Defines(f)
  BY Zenon DEF Oracle, Unread
<1> HIDE DEF h
<1>4. Defines(Oracle)
  BY <1>2, <1>3, Zenon
<1>5. Oracle[0] = Unread
  BY <1>1, <1>4
<1>6. ASSUME NEW n \in 1 .. Len(log)
      PROVE  Oracle[n] = read_event(Oracle[n - 1], n)
  <2>1. n \in 0 .. Len(log) /\ n # 0
    BY <1>1
  <2> QED BY <1>4, <2>1
<1> QED BY <1>5, <1>6 DEF Solves

\* What the oracle accepts a finished job has counted, for every replay, window,
\* bound and schedule of watermarks, checkpoints and crashes (process_bounded_events
\* against build_pipeline).
THEOREM OracleJudges == Spec => []OracleIsStricter
<1>1. Init => LedgerInv /\ OracleInv
  BY InitLedger, InitOracle
<1>2. LedgerInv /\ OracleInv /\ [Next]_vars => LedgerInv' /\ OracleInv'
  <2> SUFFICES ASSUME LedgerInv, OracleInv, UNCHANGED vars
               PROVE  LedgerInv' /\ OracleInv'
    BY StepKeepsLedger, StepKeepsOracle
  <2>1. LedgerInv'
    BY DEF LedgerInv, vars, input, Accounted, Remembered
  <2>2. \A g, m : Solves(g, m)' <=> Solves(g, m)
    BY DEF vars, input, Solves, read_event
  <2>3. Judged(job)' /\ Judged(saved)' /\ WatermarkInv'
    BY <2>2 DEF vars, OracleInv, Judged, WatermarkInv, Ordered
  <2> QED BY <2>1, <2>3 DEF vars, input, OracleInv
<1>3. LedgerInv /\ OracleInv => OracleIsStricter
  <2> SUFFICES ASSUME LedgerInv, OracleInv, status = "finished"
               PROVE  Oracle[Len(log)].accepted \subseteq job.kept
    BY DEF OracleIsStricter, process_bounded_events
  <2>1. job.offset = Len(log) /\ log \in Seq(Records)
    BY DEF OracleInv, LedgerInv
  <2>2. Solves(Oracle, Len(log))
    BY <2>1, OracleSolves DEF OracleInv, Judged
  <2> QED BY <2>1, <2>2 DEF OracleInv, Judged
<1> QED BY <1>1, <1>2, <1>3, PTL DEF Spec
=============================================================================
