------------------------ MODULE EvidenceProofs -------------------------------
(***************************************************************************)
(* Proofs about the session write path and about the workers composed with *)
(* it, for every set of sessions, keys and workers, every batch size,      *)
(* attempt limit and bound.  The argument about the write path rests on    *)
(* the fencing tokens: they are issued in increasing order, so a token a   *)
(* transition was admitted with lies strictly below the session's token    *)
(* ever after.                                                             *)
(***************************************************************************)
EXTENDS EvidenceOutbox, TLAPS

\* What appending a row does to a table.
LEMMA AppendedRow ==
  ASSUME NEW S, NEW table \in Seq(S), NEW row \in S
  PROVE  /\ Append(table, row) \in Seq(S)
         /\ DOMAIN Append(table, row) = 1..(Len(table) + 1)
         /\ DOMAIN table = 1..Len(table)
         /\ Len(table) \in Nat
         /\ \A i \in 1..Len(table) : Append(table, row)[i] = table[i]
         /\ Append(table, row)[Len(table) + 1] = row
  OBVIOUS

\* The rows written by an admitted transition have the tables' types.
LEMMA NewRowTypes ==
  ASSUME SessionTypeOK, NEW r \in requests
  PROVE  /\ r \in Request
         /\ NewTransition(r) \in TransitionRow
         /\ NewEvent(r) \in EventRow
         /\ NewSessionRow(r) \in SessionRow
  BY DEF SessionTypeOK, Request, SessionRow, TransitionRow, EventRow,
         NewTransition, NewEvent, NewSessionRow

\* The tables and the forms in flight keep their types.
THEOREM SessionTypeCorrect == SessionSpec => []SessionTypeOK
<1> USE DEF SessionTypeOK, SessionRow, TransitionRow, EventRow, Request, Exists
<1>1. SessionInit => SessionTypeOK
  BY DEF SessionInit, NoSession, SessionStates
<1>2. SessionTypeOK /\ [SessionNext]_sessionVars => SessionTypeOK'
  <2> SUFFICES ASSUME SessionTypeOK, [SessionNext]_sessionVars
               PROVE  SessionTypeOK'
    OBVIOUS
  <2>1. ASSUME NEW s \in Sessions, NEW k \in Keys, create_evidence_session(s, k)
        PROVE  SessionTypeOK'
    BY <2>1 DEF create_evidence_session, SessionStates
  <2>2. ASSUME NEW s \in Sessions, NEW t \in SessionStates, NEW k \in Keys,
               PostTransitionForm(s, t, k)
        PROVE  SessionTypeOK'
    BY <2>2 DEF PostTransitionForm
  <2>3. ASSUME NEW r \in requests, request_session_transition(r)
        PROVE  SessionTypeOK'
    <3>2. CASE Replay(r)
      BY <2>3, <3>2 DEF request_session_transition, Replay
    <3>3. CASE Transition(r)
      <4>1. \A s \in Sessions : session'[s] = session[s] \/ session'[s].version > 0
        BY <3>3 DEF Transition, NewSessionRow
      <4> HIDE DEF TransitionRow, EventRow, SessionRow
      <4> QED BY <2>3, <3>3, <4>1, NewRowTypes DEF request_session_transition, Transition
    <3> QED BY <2>3, <3>2, <3>3 DEF request_session_transition
  <2>4. CASE UNCHANGED sessionVars
    BY <2>4 DEF sessionVars
  <2> QED BY <2>1, <2>2, <2>3, <2>4 DEF SessionNext
<1> QED BY <1>1, <1>2, PTL DEF SessionSpec

-----------------------------------------------------------------------------
\* The inductive invariant: types, fences and what they imply.
SessionInv ==
  /\ SessionTypeOK
  /\ TokensAreFences
  /\ RequestAppliedAtMostOnce
  /\ TransitionLeavesSeenState
  /\ CurrentEventIsNewest

\* create_evidence_session preserves the invariant.
LEMMA CreatePreservesInv ==
  ASSUME SessionInv, SessionTypeOK', NEW s \in Sessions, NEW k \in Keys,
         create_evidence_session(s, k)
  PROVE  SessionInv'
<1> USE DEF SessionInv, create_evidence_session, Exists
<1>1. \A x \in Sessions : x # s => session'[x] = session[x]
  BY DEF SessionTypeOK
<1>2. session'[s].state = "OFF" /\ session'[s].version = 1 /\ session'[s].token = issued + 1
  BY DEF SessionTypeOK
<1>3. /\ \A r \in requests : r \in Request /\ r.session # s
      /\ \A i \in DOMAIN log : log[i] \in TransitionRow
      /\ \A i \in DOMAIN outbox : outbox[i] \in EventRow /\ outbox[i].session # s
      /\ \A x \in Sessions : session[x] \in SessionRow
  BY DEF SessionTypeOK, TokensAreFences
<1>4. TokensAreFences'
  <2>1. \A x \in Sessions : /\ session[x].token \in Nat /\ session'[x].token \in Nat
                           /\ session[x].token <= session'[x].token
                           /\ session'[x].token <= issued'
    BY <1>1, <1>2, <1>3 DEF TokensAreFences, SessionTypeOK, SessionRow
  <2>2. \A i \in DOMAIN log : log[i].token < session'[log[i].session].token
    BY <1>3, <2>1 DEF TokensAreFences, TransitionRow
  <2>3. \A r \in requests : session'[r.session] = session[r.session]
    BY <1>1, <1>3 DEF Request
  <2>4. \A i \in DOMAIN outbox : session'[outbox[i].session] = session[outbox[i].session]
    BY <1>1, <1>3 DEF EventRow
  <2> QED BY <2>1, <2>2, <2>3, <2>4 DEF TokensAreFences
<1>5. RequestAppliedAtMostOnce' /\ TransitionLeavesSeenState'
  BY DEF RequestAppliedAtMostOnce, TransitionLeavesSeenState
<1>6. CurrentEventIsNewest'
  BY <1>1, <1>3 DEF CurrentEventIsNewest, EventRow
<1> QED BY <1>4, <1>5, <1>6

\* Posting a form preserves the invariant.
LEMMA PostPreservesInv ==
  ASSUME SessionInv, SessionTypeOK', NEW s \in Sessions, NEW t \in SessionStates,
         NEW k \in Keys, PostTransitionForm(s, t, k)
  PROVE  SessionInv'
<1> USE DEF SessionInv, PostTransitionForm
<1>1. TokensAreFences'
  BY DEF TokensAreFences, Exists, SessionTypeOK, SessionRow
<1>2. RequestAppliedAtMostOnce' /\ TransitionLeavesSeenState' /\ CurrentEventIsNewest'
  BY DEF RequestAppliedAtMostOnce, TransitionLeavesSeenState, CurrentEventIsNewest
<1> QED BY <1>1, <1>2

\* An admitted transition preserves the invariant: the row it appends was
\* admitted with the session's present token, and rotating the token puts it,
\* and every older row and form, below the new one.
LEMMA TransitionPreservesInv ==
  ASSUME SessionInv, SessionTypeOK', NEW r \in requests, Transition(r), UNCHANGED requests
  PROVE  SessionInv'
<1> DEFINE n == Len(log) + 1
           m == Len(outbox) + 1
           s == r.session
<1> USE DEF SessionInv
<1>1. /\ r \in Request
      /\ NewTransition(r) \in TransitionRow
      /\ NewEvent(r) \in EventRow
      /\ NewSessionRow(r) \in SessionRow
  BY NewRowTypes
<1>2. /\ s \in Sessions
      /\ \A x \in Sessions : session[x] \in SessionRow
      /\ session'[s] = NewSessionRow(r)
      /\ \A x \in Sessions : x # s => session'[x] = session[x]
      /\ issued \in Nat /\ issued' = issued + 1
  BY <1>1 DEF SessionTypeOK, Transition, Request
<1>3. /\ DOMAIN log = 1..Len(log) /\ DOMAIN log' = 1..n /\ Len(log) \in Nat
      /\ \A i \in 1..Len(log) : log'[i] = log[i] /\ log[i] \in TransitionRow
      /\ log'[n] = NewTransition(r)
  BY <1>1, AppendedRow DEF SessionTypeOK, Transition
<1>4. /\ DOMAIN outbox = 1..Len(outbox) /\ DOMAIN outbox' = 1..m /\ Len(outbox) \in Nat
      /\ \A i \in 1..Len(outbox) : outbox'[i] = outbox[i] /\ outbox[i] \in EventRow
      /\ outbox'[m] = NewEvent(r)
  BY <1>1, AppendedRow DEF SessionTypeOK, Transition
<1>5. /\ session[s].token = r.token /\ session[s].state = r.seen
      /\ session[s].token \in Nat /\ session[s].token <= issued
      /\ session'[s].token = issued + 1 /\ session'[s].state = r.target
      /\ Exists(s) /\ Exists(s)'
  BY <1>1, <1>2 DEF Transition, Admits, TokensAreFences, NewSessionRow, SessionRow, Exists
<1> HIDE DEF n, m, s
<1>6. TokensAreFences'
  <2>1. \A x \in Sessions : session'[x].token <= issued'
    BY <1>2, <1>5 DEF TokensAreFences, SessionRow
  <2>2. ASSUME NEW q \in requests
        PROVE  /\ Exists(q.session)'
               /\ q.token <= session'[q.session].token
               /\ q.token = session'[q.session].token => q.seen = session'[q.session].state
    <3>1. q \in Request
      BY DEF SessionTypeOK
    <3> QED BY <1>2, <1>5, <3>1 DEF TokensAreFences, Exists, Request
  <2>3. ASSUME NEW i \in DOMAIN log'
        PROVE  log'[i].token < session'[log'[i].session].token
    <3>1. CASE i = n
      <4>1. log'[i].session = s /\ log'[i].token = r.token
        BY <1>3, <3>1 DEF NewTransition, s
      <4> QED BY <1>2, <1>5, <4>1
    <3>2. CASE i \in 1..Len(log)
      BY <1>2, <1>3, <1>5, <3>2 DEF TokensAreFences, TransitionRow
    <3> QED BY <1>3, <3>1, <3>2 DEF n
  <2>4. ASSUME NEW i \in DOMAIN outbox'
        PROVE  /\ Exists(outbox[i].session)'
               /\ outbox'[i].token <= session'[outbox'[i].session].token
    <3>1. CASE i = m
      BY <1>2, <1>4, <1>5, <3>1 DEF NewEvent, s, Exists
    <3>2. CASE i \in 1..Len(outbox)
      BY <1>2, <1>4, <1>5, <3>2 DEF TokensAreFences, EventRow, Exists
    <3> QED BY <1>4, <3>1, <3>2 DEF m
  <2>5. ASSUME NEW i \in DOMAIN outbox', NEW j \in DOMAIN outbox', i < j,
               outbox'[i].session = outbox'[j].session
        PROVE  outbox'[i].token < outbox'[j].token
    <3>1. i \in 1..Len(outbox)
      BY <1>4, <2>5 DEF m
    <3>2. CASE j = m
      <4>1. outbox[i].session = s /\ outbox[i].token \in Nat
        BY <1>4, <2>5, <3>1, <3>2 DEF NewEvent, s, EventRow
      <4>2. outbox[i].token <= session[s].token
        BY <1>4, <3>1, <4>1 DEF TokensAreFences
      <4> QED BY <1>2, <1>4, <1>5, <3>1, <3>2, <4>1, <4>2 DEF NewEvent
    <3>3. CASE j \in 1..Len(outbox)
      BY <1>4, <2>5, <3>1, <3>3 DEF TokensAreFences
    <3> QED BY <1>4, <3>2, <3>3 DEF m
  <2> QED BY <2>1, <2>2, <2>3, <2>4, <2>5 DEF TokensAreFences
<1>7. RequestAppliedAtMostOnce'
  <2> SUFFICES ASSUME NEW i \in DOMAIN log', NEW j \in DOMAIN log', i < j,
                      log'[i].session = log'[j].session
               PROVE  log'[i].token < log'[j].token
    BY DEF RequestAppliedAtMostOnce
  <2>1. i \in 1..Len(log)
    BY <1>3 DEF n
  <2>2. CASE j = n
    BY <1>3, <1>5, <2>1, <2>2 DEF TokensAreFences, NewTransition, s
  <2>3. CASE j \in 1..Len(log)
    BY <1>3, <2>1, <2>3 DEF RequestAppliedAtMostOnce
  <2> QED BY <1>3, <2>2, <2>3 DEF n
<1>8. TransitionLeavesSeenState'
  BY <1>3, <1>5 DEF TransitionLeavesSeenState, NewTransition, n, s
<1>9. CurrentEventIsNewest'
  <2> SUFFICES ASSUME NEW i \in DOMAIN outbox'
               PROVE  LET row == session'[outbox'[i].session]
                          newest == \A j \in DOMAIN outbox' :
                                      j > i => outbox'[j].session # outbox'[i].session
                      IN /\ (outbox'[i].token = row.token) <=> newest
                         /\ newest => outbox'[i].target = row.state
    BY DEF CurrentEventIsNewest
  <2>1. CASE i = m
    BY <1>2, <1>4, <1>5, <2>1 DEF NewEvent, s, m
  <2>2. CASE i \in 1..Len(outbox) /\ outbox[i].session = s
    <3>1. m \in DOMAIN outbox' /\ m > i /\ outbox'[m].session = outbox'[i].session
      BY <1>4, <2>2 DEF NewEvent, s, m
    <3>2. outbox'[i].token <= session[s].token /\ outbox'[i].token \in Nat
      BY <1>4, <2>2 DEF TokensAreFences, EventRow
    <3> QED BY <1>2, <1>4, <1>5, <2>2, <3>1, <3>2
  <2>3. CASE i \in 1..Len(outbox) /\ outbox[i].session # s
    <3>1. outbox'[m].session # outbox'[i].session
      BY <1>4, <2>3 DEF NewEvent, s
    <3>2. /\ outbox'[i] = outbox[i]
          /\ session'[outbox[i].session] = session[outbox[i].session]
      BY <1>2, <1>4, <2>3 DEF EventRow
    <3>3. (\A j \in DOMAIN outbox' : j > i => outbox'[j].session # outbox'[i].session)
          <=> (\A j \in DOMAIN outbox : j > i => outbox[j].session # outbox[i].session)
      BY <1>4, <2>3, <3>1 DEF m
    <3> QED BY <1>4, <2>3, <3>2, <3>3 DEF CurrentEventIsNewest
  <2> QED BY <1>4, <2>1, <2>2, <2>3 DEF m
<1> QED BY <1>6, <1>7, <1>8, <1>9

\* Every behaviour of the write path keeps the inductive invariant.
THEOREM SessionInvariant == SessionSpec => []SessionInv
<1>1. SessionInit => SessionInv
  BY DEF SessionInit, SessionInv, SessionTypeOK, SessionRow, TransitionRow, EventRow,
         NoSession, SessionStates, TokensAreFences, RequestAppliedAtMostOnce,
         TransitionLeavesSeenState, CurrentEventIsNewest
<1>2. SessionInv /\ SessionTypeOK' /\ [SessionNext]_sessionVars => SessionInv'
  <2> SUFFICES ASSUME SessionInv, SessionTypeOK', [SessionNext]_sessionVars
               PROVE  SessionInv'
    OBVIOUS
  <2>1. ASSUME NEW r \in requests, request_session_transition(r)
        PROVE  SessionInv'
    <3>1. CASE Replay(r)
      BY <2>1, <3>1 DEF request_session_transition, Replay, SessionInv, TokensAreFences, Exists,
           RequestAppliedAtMostOnce, TransitionLeavesSeenState, CurrentEventIsNewest
    <3> QED BY <2>1, <3>1, TransitionPreservesInv DEF request_session_transition
  <2>2. CASE UNCHANGED sessionVars
    BY <2>2 DEF sessionVars, SessionInv, TokensAreFences, Exists,
         RequestAppliedAtMostOnce, TransitionLeavesSeenState, CurrentEventIsNewest
  <2> QED BY <2>1, <2>2, CreatePreservesInv, PostPreservesInv DEF SessionNext
<1> QED BY <1>1, <1>2, SessionTypeCorrect, PTL DEF SessionSpec

\* A form is applied at most once, however often and late it is delivered.
THEOREM AppliedAtMostOnce == SessionSpec => []RequestAppliedAtMostOnce
  BY SessionInvariant, PTL DEF SessionInv

\* An applied form leaves the state its operator saw.
THEOREM LeavesSeenState == SessionSpec => []TransitionLeavesSeenState
  BY SessionInvariant, PTL DEF SessionInv

\* The fence accepts exactly the event of a session's newest transition.
THEOREM CurrentIsNewest == SessionSpec => []CurrentEventIsNewest
  BY SessionInvariant, PTL DEF SessionInv

\* The write path implements the session machine: a committed transition is a
\* move along a legal edge, an insert a creation, everything else a stutter.
THEOREM WritePathIsSessionMachine == SessionSpec => ImplementsSessionMachine
<1> DEFINE st == [x \in Sessions |-> session[x].state]
           ve == [x \in Sessions |-> session[x].version]
<1>1. SessionInit => Machine!Init
  BY DEF SessionInit, Machine!Init, NoSession
<1>2. SessionInv /\ [SessionNext]_sessionVars 
        => [Machine!Next]_<<[s \in Sessions |-> session[s].state],
                            [s \in Sessions |-> session[s].version]>>
  <2> SUFFICES ASSUME SessionInv, [SessionNext]_sessionVars
               PROVE  Machine!Next \/ UNCHANGED <<st, ve>>
    OBVIOUS
  <2>1. session \in [Sessions -> SessionRow]
    BY DEF SessionInv, SessionTypeOK
  <2>2. ASSUME NEW s \in Sessions, NEW k \in Keys, create_evidence_session(s, k)
        PROVE  Machine!Next
    <3>1. /\ session[s].version = 0
          /\ \A x \in Sessions : x # s => session'[x] = session[x]
          /\ session'[s].state = "OFF"
          /\ session'[s].version = 1
      BY <2>1, <2>2 DEF create_evidence_session, Exists, SessionRow
    <3>2. session[s].state = "OFF"
      BY <2>2, <3>1 DEF SessionInv, SessionTypeOK, NoSession, create_evidence_session
    <3>3. UNCHANGED st
      BY <3>1, <3>2
    <3>4. ve[s] = 0 /\ ve' = [ve EXCEPT ![s] = 1]
      BY <3>1
    <3> QED BY <3>3, <3>4 DEF Machine!Next, Machine!Create
  <2>3. ASSUME NEW r \in requests, Transition(r)
        PROVE  Machine!Next
    <3>1. r \in Request /\ r.session \in Sessions
      BY DEF SessionInv, SessionTypeOK, Request
    <3>2. ve[r.session] > 0
      BY <3>1 DEF SessionInv, TokensAreFences, Exists
    <3>3. r.target \in Successors[st[r.session]]
      BY <2>3, <3>1 DEF Transition, Admits, session_transition_rule
    <3>4. /\ st' = [st EXCEPT ![r.session] = r.target]
          /\ ve' = [ve EXCEPT ![r.session] = @ + 1]
      BY <2>1, <2>3, <3>1 DEF Transition, NewSessionRow
    <3> QED BY <3>1, <3>2, <3>3, <3>4 DEF Machine!Next, Machine!Move, Machine!Successors, Successors
  <2>4. CASE UNCHANGED session
    BY <2>4
  <2> QED BY <2>2, <2>3, <2>4 DEF SessionNext, sessionVars, PostTransitionForm,
                                 request_session_transition, Replay
<1> QED BY <1>1, <1>2, SessionInvariant, PTL
        DEF SessionSpec, ImplementsSessionMachine, Machine!Spec

-----------------------------------------------------------------------------
(* The history.                                                            *)

\* Row i is the newest of session s.
Newest(s, i) ==
  /\ i \in DOMAIN log /\ log[i].session = s
  /\ \A j \in DOMAIN log : j > i => log[j].session # s

\* The session row shows its newest transition, or its creation.
Shows(s) ==
  \/ /\ \A i \in DOMAIN log : log[i].session # s
     /\ Exists(s) => session[s].state = "OFF" /\ session[s].version = 1
  \/ \E i \in DOMAIN log :
       /\ Newest(s, i)
       /\ session[s].state = log[i].to /\ session[s].version = log[i].version /\ session[s].key = log[i].key

\* Rows of a session chain, from OFF at version 2 on.
Chained ==
  /\ \A i \in DOMAIN log :
       (\A j \in DOMAIN log : j < i => log[j].session # log[i].session) =>
         log[i].from = "OFF" /\ log[i].version = 2
  /\ \A i, j \in DOMAIN log :
       /\ i < j /\ log[j].session = log[i].session
       /\ \A k \in DOMAIN log : k > i /\ log[k].session = log[i].session => j <= k
       => log[j].from = log[i].to /\ log[j].version = log[i].version + 1

HistoryInv == (\A s \in Sessions : Shows(s)) /\ Chained /\ AcceptedFormLanded

LEMMA LogIndexes ==
  ASSUME SessionTypeOK
  PROVE  /\ DOMAIN log = 1 .. Len(log) /\ Len(log) \in Nat
         /\ \A i \in DOMAIN log : log[i] \in TransitionRow
  BY DEF SessionTypeOK

\* A session that is created has no rows yet.
LEMMA CreateKeepsHistory ==
  ASSUME SessionInv, HistoryInv, NEW s \in Sessions, NEW k \in Keys, create_evidence_session(s, k)
  PROVE  HistoryInv'
<1>1. UNCHANGED <<log, accepted>> /\ \A x \in Sessions : x # s => session'[x] = session[x]
  BY DEF create_evidence_session, SessionInv, SessionTypeOK
<1>2. session'[s].state = "OFF" /\ session'[s].version = 1
  BY DEF create_evidence_session, SessionInv, SessionTypeOK
<1>3. ASSUME NEW i \in DOMAIN log PROVE log[i].session # s
  <2>1. log[i] \in TransitionRow /\ session[s] = NoSession
    BY LogIndexes DEF SessionInv, SessionTypeOK, create_evidence_session
  <2>2. log[i].token \in Nat /\ log[i].token < session[log[i].session].token
    BY <2>1 DEF TransitionRow, SessionInv, TokensAreFences
  <2> QED BY <2>1, <2>2 DEF NoSession
<1>4. ASSUME NEW x \in Sessions PROVE Shows(x)'
  <2>1. CASE x = s
    BY <1>1, <1>2, <1>3, <2>1 DEF Shows
  <2>2. CASE x # s
    BY <1>1, <2>2 DEF HistoryInv, Shows, Newest, Exists
  <2> QED BY <2>1, <2>2
<1> QED BY <1>1, <1>4 DEF HistoryInv, Chained, AcceptedFormLanded

\* A transition adds a row behind the newest one of its session.
LEMMA TransitionKeepsHistory ==
  ASSUME SessionInv, HistoryInv, NEW r \in requests, Transition(r), accepted' = accepted \cup {r}
  PROVE  HistoryInv'
<1> DEFINE n == Len(log) + 1
           s == r.session
<1>1. /\ r \in Request /\ s \in Sessions /\ Exists(s)
      /\ NewTransition(r) \in TransitionRow
  BY NewRowTypes DEF SessionInv, Request, TokensAreFences
<1>2. /\ DOMAIN log = 1..Len(log) /\ DOMAIN log' = 1..n /\ Len(log) \in Nat
      /\ \A i \in 1..Len(log) : log'[i] = log[i]
      /\ log'[n] = NewTransition(r)
  BY <1>1, AppendedRow DEF SessionInv, SessionTypeOK, Transition
<1>3. /\ log'[n].session = s /\ log'[n].to = r.target /\ log'[n].key = r.key
      /\ log'[n].from = session[s].state /\ log'[n].version = session[s].version + 1
  BY <1>2 DEF NewTransition
<1>4. /\ \A x \in Sessions : x # s => session'[x] = session[x]
      /\ session'[s].state = r.target /\ session'[s].key = r.key /\ session'[s].version = session[s].version + 1
  BY <1>1 DEF Transition, NewSessionRow, SessionInv, SessionTypeOK
<1> HIDE DEF n, s
<1>5. n = Len(log) + 1
  BY DEF n
<1>6. ASSUME NEW x \in Sessions PROVE Shows(x)'
  <2>1. CASE x = s
    <3>1. n \in DOMAIN log' /\ log'[n].session = x /\ \A j \in DOMAIN log' : ~ (j > n)
      BY <1>2, <1>3, <1>5, <2>1
    <3>2. /\ session'[x].state = log'[n].to /\ session'[x].version = log'[n].version
          /\ session'[x].key = log'[n].key
      BY <1>3, <1>4, <2>1
    <3>3. PICK i \in DOMAIN log' : i = n
      BY <3>1
    <3>4. Newest(x, i)'
      BY <3>1, <3>3 DEF Newest
    <3> QED BY <3>2, <3>3, <3>4 DEF Shows
  <2>2. CASE x # s
    <3>1. Shows(x)
      BY DEF HistoryInv
    <3>2. CASE \A i \in DOMAIN log : log[i].session # x
      BY <1>2, <1>3, <1>4, <1>5, <2>2, <3>1, <3>2 DEF Shows, Exists, Newest
    <3>3. CASE \E i \in DOMAIN log : Newest(x, i)
      <4>1. PICK i \in DOMAIN log :
              /\ Newest(x, i)
              /\ session[x].state = log[i].to /\ session[x].version = log[i].version /\ session[x].key = log[i].key
        BY <3>1, <3>3 DEF Shows, Newest
      <4>2. i \in DOMAIN log' /\ log'[i] = log[i] /\ Newest(x, i)'
        BY <1>2, <1>3, <1>5, <2>2, <4>1 DEF Newest
      <4> QED BY <1>4, <2>2, <4>1, <4>2 DEF Shows
    <3> QED BY <3>1, <3>2, <3>3 DEF Shows
  <2> QED BY <2>1, <2>2
<1>7. Shows(s)
  BY <1>1 DEF HistoryInv
<1>8. Chained'
  <2>1. ASSUME NEW i \in DOMAIN log', \A j \in DOMAIN log' : j < i => log'[j].session # log'[i].session
        PROVE  log'[i].from = "OFF" /\ log'[i].version = 2
    <3>1. CASE i = n
      <4>1. \A j \in DOMAIN log : log[j].session # s
        BY <1>2, <1>3, <1>5, <2>1, <3>1
      <4>2. session[s].state = "OFF" /\ session[s].version = 1
        BY <1>1, <1>7, <4>1 DEF Shows, Newest
      <4> QED BY <1>3, <3>1, <4>2
    <3>2. CASE i \in DOMAIN log
      <4>1. \A j \in DOMAIN log : j < i => log[j].session # log[i].session
        BY <1>2, <1>5, <2>1, <3>2
      <4> QED BY <1>2, <3>2, <4>1 DEF HistoryInv, Chained
    <3> QED BY <1>2, <1>5, <3>1, <3>2
  <2>2. ASSUME NEW i \in DOMAIN log', NEW j \in DOMAIN log',
               i < j, log'[j].session = log'[i].session,
               \A k \in DOMAIN log' : k > i /\ log'[k].session = log'[i].session => j <= k
        PROVE  log'[j].from = log'[i].to /\ log'[j].version = log'[i].version + 1
    <3>1. i \in DOMAIN log /\ log'[i] = log[i]
      BY <1>2, <1>5, <2>2
    <3>2. \A k \in DOMAIN log : k > i /\ log[k].session = log[i].session => j <= k
      BY <1>2, <1>5, <2>2, <3>1
    <3>3. CASE j = n
      <4>1. log[i].session = s /\ \A k \in DOMAIN log : k > i => log[k].session # s
        BY <1>2, <1>3, <1>5, <2>2, <3>1, <3>2, <3>3
      <4>2. PICK m \in DOMAIN log :
              Newest(s, m) /\ session[s].state = log[m].to /\ session[s].version = log[m].version
        BY <1>7, <3>1, <4>1 DEF Shows
      <4>3. m = i
        BY <1>2, <3>1, <4>1, <4>2 DEF Newest
      <4> QED BY <1>3, <3>1, <3>3, <4>2, <4>3
    <3>4. CASE j \in DOMAIN log
      <4>1. log'[j] = log[j]
        BY <1>2, <3>4
      <4> QED BY <2>2, <3>1, <3>2, <3>4, <4>1 DEF HistoryInv, Chained
    <3> QED BY <1>2, <1>5, <3>3, <3>4
  <2> QED BY <2>1, <2>2 DEF Chained
<1>9. AcceptedFormLanded'
  <2> SUFFICES ASSUME NEW q \in accepted'
               PROVE  \/ \E i \in DOMAIN log' : /\ log'[i].session = q.session
                                                 /\ log'[i].to = q.target
                                                 /\ log'[i].key = q.key
                      \/ q.target = "OFF"
    BY DEF AcceptedFormLanded
  <2>1. CASE q = r
    BY <1>2, <1>3, <1>5, <2>1 DEF s
  <2>2. CASE q \in accepted
    BY <1>2, <1>5, <2>2 DEF HistoryInv, AcceptedFormLanded
  <2> QED BY <2>1, <2>2
<1> QED BY <1>6, <1>8, <1>9 DEF HistoryInv

\* A retried form is answered from the row its first delivery left.
LEMMA ReplayKeepsHistory ==
  ASSUME SessionInv, HistoryInv, NEW r \in requests, Replay(r), accepted' = accepted \cup {r}
  PROVE  HistoryInv'
<1>1. UNCHANGED <<session, log>> /\ session[r.session].key = r.key /\ session[r.session].state = r.target
  BY DEF Replay, Replays
<1>2. r.session \in Sessions /\ Exists(r.session)
  BY DEF SessionInv, SessionTypeOK, TokensAreFences, Request
<1>3. Shows(r.session)
  BY <1>2 DEF HistoryInv
<1>4. (\E i \in DOMAIN log : log[i].session = r.session /\ log[i].to = r.target /\ log[i].key = r.key) \/ r.target = "OFF"
  BY <1>1, <1>2, <1>3 DEF Shows, Newest
<1>5. AcceptedFormLanded'
  BY <1>1, <1>4 DEF HistoryInv, AcceptedFormLanded
<1> QED BY <1>1, <1>5 DEF HistoryInv, Shows, Newest, Chained, Exists

\* The invariant in the words of the property.
LEMMA HistoryIsTold == SessionInv /\ HistoryInv => HistoryHoldsForms
<1> SUFFICES ASSUME SessionInv, HistoryInv PROVE HistoryHoldsForms
  OBVIOUS
<1>1. /\ DOMAIN log = 1 .. Len(log) /\ Len(log) \in Nat
      /\ \A i \in DOMAIN log : log[i] \in TransitionRow /\ log[i].session \in Sessions
  BY LogIndexes DEF SessionInv, TransitionRow
<1>2. ASSUME NEW i \in DOMAIN log
      PROVE  LET later == {j \in DOMAIN log : j > i /\ log[j].session = log[i].session}
                 earlier == {j \in DOMAIN log : j < i /\ log[j].session = log[i].session}
             IN /\ later = {} => /\ session[log[i].session].state = log[i].to
                                 /\ session[log[i].session].version = log[i].version
                /\ earlier = {} => log[i].from = "OFF" /\ log[i].version = 2
                /\ \A j \in later :
                     (\A k \in later : j <= k) =>
                       log[j].from = log[i].to /\ log[j].version = log[i].version + 1
  <2> DEFINE later == {j \in DOMAIN log : j > i /\ log[j].session = log[i].session}
             earlier == {j \in DOMAIN log : j < i /\ log[j].session = log[i].session}
  <2>1. ASSUME later = {}
        PROVE  session[log[i].session].state = log[i].to /\ session[log[i].session].version = log[i].version
    <3>1. Shows(log[i].session)
      BY <1>1 DEF HistoryInv
    <3>2. PICK m \in DOMAIN log :
            /\ Newest(log[i].session, m)
            /\ session[log[i].session].state = log[m].to /\ session[log[i].session].version = log[m].version
      BY <3>1 DEF Shows
    <3>3. m = i
      BY <1>1, <2>1, <3>2 DEF Newest
    <3> QED BY <3>2, <3>3
  <2>2. earlier = {} => log[i].from = "OFF" /\ log[i].version = 2
    BY DEF HistoryInv, Chained
  <2>3. ASSUME NEW j \in later, \A k \in later : j <= k
        PROVE  log[j].from = log[i].to /\ log[j].version = log[i].version + 1
    <3>1. i < j /\ j \in DOMAIN log /\ log[j].session = log[i].session
      BY <1>1
    <3>2. \A k \in DOMAIN log : k > i /\ log[k].session = log[i].session => j <= k
      BY <2>3
    <3> QED BY <3>1, <3>2 DEF HistoryInv, Chained
  <2> QED BY <2>1, <2>2, <2>3
<1>3. LogIsHistory
  BY <1>2 DEF LogIsHistory
<1> QED BY <1>3 DEF HistoryInv, HistoryHoldsForms

\* The transition table is the history of its sessions, and holds every form that
\* was answered ok (request_session_transition).
THEOREM HistoryHolds == SessionSpec => []HistoryHoldsForms
<1>1. SessionInit => HistoryInv
  BY DEF SessionInit, HistoryInv, Shows, Newest, Chained, AcceptedFormLanded, Exists, NoSession
<1>2. SessionInv /\ HistoryInv /\ [SessionNext]_sessionVars => HistoryInv'
  <2> SUFFICES ASSUME SessionInv, HistoryInv, [SessionNext]_sessionVars
               PROVE  HistoryInv'
    OBVIOUS
  <2>1. UNCHANGED <<session, log, accepted>> => HistoryInv'
    BY DEF HistoryInv, Shows, Newest, Chained, AcceptedFormLanded, Exists
  <2>2. ASSUME NEW s \in Sessions, NEW k \in Keys, create_evidence_session(s, k) PROVE HistoryInv'
    BY <2>2, CreateKeepsHistory
  <2>3. ASSUME NEW r \in requests, request_session_transition(r) PROVE HistoryInv'
    BY <2>3, TransitionKeepsHistory, ReplayKeepsHistory DEF request_session_transition
  <2> QED BY <2>1, <2>2, <2>3 DEF SessionNext, PostTransitionForm, sessionVars
<1> QED BY <1>1, <1>2, SessionInvariant, HistoryIsTold, PTL DEF SessionSpec
-----------------------------------------------------------------------------

\* Nothing a worker does touches the tables of the write path, so the
\* composition implements the write path's specification.
THEOREM OutboxKeepsWritePath == Spec => SessionSpec
<1>1. Init => SessionInit
  BY DEF Init
<1>2. [Next]_vars => [SessionNext]_sessionVars
  BY DEF Next, vars, sessionVars, Progress, claim_outbox_events, Handle, complete_outbox_event,
         fail_outbox_event, Backoff, finishBatch, Restart, requestShutdown, Crash,
         LoseAnswer, CommitCompletion, AbortCompletion, LeaseLapses, LeaseOverrun
<1> QED BY <1>1, <1>2, PTL DEF Spec, SessionSpec

WorkerTypeOK ==
  /\ job \in [Events -> JobRow]
  /\ call \in [Events -> Call]
  /\ \A e \in Events : call[e].open => e \in DOMAIN outbox /\ call[e].after <= Len(log)
  /\ pc \in [Workers -> {"claim", "handle", "complete", "await", "fail", "backoff", "exited"}]
  /\ batch \in [Workers -> SUBSET Events]
  /\ at \in [Workers -> Events \cup {NoEvent}]
  /\ \A w \in Workers :
       /\ batch[w] \subseteq DOMAIN outbox
       /\ pc[w] \in {"handle", "complete", "await", "fail"} <=> batch[w] # {}
       /\ pc[w] \in {"complete", "await", "fail"} => at[w] \in batch[w]
  /\ shutdown \in [Workers -> {"running", "draining", "stopped", "crashed"}]
  /\ disruptions \in Nat
  /\ signals \in Nat

\* The tables the worker functions leave behind are well typed.
LEMMA JobTypes ==
  ASSUME job \in [Events -> JobRow]
  PROVE  /\ \A w \in Workers : \A S : Leased(w, S) \in [Events -> JobRow]
         /\ \A e \in Events : Completed(e) \in [Events -> JobRow]
         /\ \A w \in Workers, e \in Events : Failed(w, e) \in [Events -> JobRow]
<1>1. ASSUME NEW w \in Workers, NEW S
      PROVE  Leased(w, S) \in [Events -> JobRow]
  BY DEF Leased, JobRow
<1>2. ASSUME NEW e \in Events
      PROVE  Completed(e) \in [Events -> JobRow]
  BY DEF Completed, JobRow
<1>3. ASSUME NEW w \in Workers, NEW e \in Events
      PROVE  Failed(w, e) \in [Events -> JobRow]
  BY DEF Failed, JobRow
<1> QED BY <1>1, <1>2, <1>3

\* Leaving an event, for the next one or by abandoning the batch, keeps the
\* bookkeeping of a worker consistent.
LEMMA ControlTypes ==
  ASSUME WorkerTypeOK, NEW w \in Workers, NextEvent(w) \/ AbandonBatch(w),
         UNCHANGED <<outbox, log>>, job' \in [Events -> JobRow], call' \in [Events -> Call],
         \A e \in Events : call'[e].open => call'[e] = call[e],
         UNCHANGED shutdown, disruptions' \in Nat, UNCHANGED signals
  PROVE  WorkerTypeOK'
  BY DEF WorkerTypeOK, NextEvent, AbandonBatch, NoEvent

\* What a completion reads, and that it has read nothing.
LEMMA CallTypes ==
  ASSUME WorkerTypeOK, Len(log) \in Nat, NEW e \in Events
  PROVE  /\ [call EXCEPT ![e] = ReadToken(e)] \in [Events -> Call]
         /\ [call EXCEPT ![e] = NoCall] \in [Events -> Call]
<1>1. ReadToken(e) \in Call /\ NoCall \in Call
  BY DEF ReadToken, NoCall, Call, Current
<1> QED BY <1>1 DEF WorkerTypeOK

\* Every step of a worker or of the clock preserves the worker types.
LEMMA WorkerStepTypes ==
  ASSUME WorkerTypeOK, Len(outbox) <= MaxTransitions, outbox \in Seq(EventRow),
         Len(log) \in Nat, Next, UNCHANGED sessionVars
  PROVE  WorkerTypeOK'
<1> USE DEF WorkerTypeOK
<1>0. UNCHANGED <<outbox, log>> /\ DOMAIN outbox \subseteq Events
  BY BoundsAssumption DEF sessionVars, Events
<1>1. CASE UNCHANGED workerVars
  BY <1>0, <1>1 DEF workerVars
<1>2. ASSUME NEW w \in Workers, claim_outbox_events(w)
      PROVE  WorkerTypeOK'
  <2>1. NextBatch \subseteq DOMAIN outbox
    BY DEF NextBatch, Claimable
  <2>2. job' \in [Events -> JobRow]
    BY <1>2, JobTypes DEF claim_outbox_events
  <2>3. CASE AbandonBatch(w) /\ Disrupt
    BY <1>0, <1>2, <2>2, <2>3, ControlTypes DEF claim_outbox_events, Disrupt
  <2>4. CASE ~(AbandonBatch(w) /\ Disrupt)
    <3>1. NextBatch # {}
      BY <1>2 DEF claim_outbox_events
    <3> QED BY <1>0, <1>2, <2>1, <2>2, <2>4, <3>1 DEF claim_outbox_events
  <2> QED BY <2>3, <2>4
<1>3. ASSUME NEW w \in Workers, NEW e \in batch[w], Handle(w, e)
      PROVE  WorkerTypeOK'
  BY <1>0, <1>3 DEF Handle
<1>4. ASSUME NEW w \in Workers, complete_outbox_event(w)
      PROVE  WorkerTypeOK'
  <2> DEFINE e == at[w]
  <2>1. e \in Events /\ e \in DOMAIN outbox /\ e \in batch[w] /\ pc[w] = "complete"
    BY <1>4 DEF complete_outbox_event
  <2>2. pc' = [pc EXCEPT ![w] = "await"] \/ pc' = [pc EXCEPT ![w] = "fail"]
    BY <1>4 DEF complete_outbox_event
  <2>3. disruptions' \in Nat
    BY <1>4 DEF complete_outbox_event, Disrupt
  <2>4. call' = [call EXCEPT ![e] = ReadToken(e)] \/ call' = call
    BY <1>4 DEF complete_outbox_event
  <2>5. call' \in [Events -> Call]
    BY <2>1, <2>4, CallTypes
  <2>6. ASSUME NEW d \in Events, call'[d].open
        PROVE  d \in DOMAIN outbox /\ call'[d].after <= Len(log)
    <3>1. CASE call' = call
      BY <2>6, <3>1
    <3>2. CASE call' = [call EXCEPT ![e] = ReadToken(e)]
      BY <2>1, <2>6, <3>2 DEF ReadToken
    <3> QED BY <2>4, <3>1, <3>2
  <2>7. UNCHANGED <<job, batch, at, shutdown, signals>>
    BY <1>4 DEF complete_outbox_event
  <2> HIDE DEF e
  <2> QED BY <1>0, <2>1, <2>2, <2>3, <2>5, <2>6, <2>7 DEF e
<1>5. ASSUME NEW w \in Workers, fail_outbox_event(w)
      PROVE  WorkerTypeOK'
  <2>1. at[w] \in Events
    BY <1>5 DEF fail_outbox_event
  <2>2. job' \in [Events -> JobRow] /\ call' = call
    BY <1>5, <2>1, JobTypes DEF fail_outbox_event
  <2> QED BY <1>0, <1>5, <2>2, ControlTypes DEF fail_outbox_event, Disrupt
<1>6. ASSUME NEW w \in Workers,
             \/ Backoff(w) \/ finishBatch(w) \/ Restart(w) \/ requestShutdown(w) \/ Crash(w)
      PROVE  WorkerTypeOK'
  <2>1. CASE Backoff(w) \/ finishBatch(w) \/ Restart(w)
    BY <1>0, <2>1 DEF Backoff, finishBatch, Restart
  <2>2. CASE requestShutdown(w)
    BY <1>0, <2>2 DEF requestShutdown
  <2>3. CASE Crash(w)
    BY <1>0, <2>3 DEF Crash, Disrupt, NoEvent
  <2> QED BY <1>6, <2>1, <2>2, <2>3
<1>10. ASSUME NEW w \in Workers, LoseAnswer(w)
       PROVE  WorkerTypeOK'
  BY <1>0, <1>10 DEF LoseAnswer, Disrupt
<1>8. ASSUME NEW e \in Events, CommitCompletion(e)
      PROVE  WorkerTypeOK'
  <2>1. /\ job' \in [Events -> JobRow] /\ call' = [call EXCEPT ![e] = NoCall]
        /\ UNCHANGED <<shutdown, disruptions, signals>>
    BY <1>8, JobTypes DEF CommitCompletion
  <2>2. call' \in [Events -> Call] /\ \A d \in Events : call'[d].open => call'[d] = call[d]
    BY <2>1, CallTypes DEF NoCall
  <2>3. CASE \E w \in Workers : NextEvent(w)
    BY <1>0, <2>1, <2>2, <2>3, ControlTypes
  <2>4. CASE UNCHANGED <<pc, batch, at>>
    BY <1>0, <2>1, <2>2, <2>4
  <2> QED BY <1>8, <2>3, <2>4 DEF CommitCompletion
<1>9. ASSUME NEW e \in Events, AbortCompletion(e)
      PROVE  WorkerTypeOK'
  <2>1. /\ call' = [call EXCEPT ![e] = NoCall] /\ disruptions' \in Nat
        /\ UNCHANGED <<job, batch, at, shutdown, signals>>
    BY <1>9 DEF AbortCompletion, Disrupt
  <2>2. call' \in [Events -> Call] /\ \A d \in Events : call'[d].open => call'[d] = call[d]
    BY <2>1, CallTypes DEF NoCall
  <2>3. pc' = [w \in Workers |-> IF pc[w] = "await" /\ at[w] = e THEN "fail" ELSE pc[w]]
    BY <1>9 DEF AbortCompletion, Awaits
  <2> QED BY <1>0, <2>1, <2>2, <2>3
<1>7. ASSUME NEW e \in Events, LeaseLapses(e) \/ LeaseOverrun(e)
      PROVE  WorkerTypeOK'
  <2>1. job[e] \in JobRow /\ job' = [job EXCEPT ![e].lease = "expired"]
    BY <1>7 DEF LeaseLapses, LeaseOverrun
  <2>2. [job[e] EXCEPT !.lease = "expired"] \in JobRow
    BY <2>1 DEF JobRow
  <2>3. job' \in [Events -> JobRow]
    BY <2>1, <2>2
  <2> QED BY <1>0, <1>7, <2>3 DEF LeaseLapses, LeaseOverrun, Disrupt
<1> QED BY <1>1, <1>2, <1>3, <1>4, <1>5, <1>6, <1>7, <1>8, <1>9, <1>10 DEF Next, Progress

\* The composed system is type correct.
THEOREM TypeCorrect == Spec => []TypeOK
<1> DEFINE Size == Len(outbox) = Len(log) /\ Len(log) <= MaxTransitions
<1>1. Init => WorkerTypeOK /\ Size
  BY BoundsAssumption DEF Init, SessionInit, WorkerTypeOK, NewJob, JobRow, NoCall, Call, NoEvent
<1>2. SessionTypeOK /\ SessionTypeOK' /\ WorkerTypeOK /\ Size /\ [Next]_vars
      => WorkerTypeOK' /\ Size'
  <2> SUFFICES ASSUME SessionTypeOK, SessionTypeOK', WorkerTypeOK, Size, [Next]_vars
               PROVE  WorkerTypeOK' /\ Size'
    OBVIOUS
  <2>1. outbox \in Seq(EventRow) /\ log \in Seq(TransitionRow) /\ Len(outbox) <= MaxTransitions
    BY DEF SessionTypeOK
  <2>2. CASE SessionNext /\ UNCHANGED workerVars
    <3>1. CASE UNCHANGED <<outbox, log>>
      BY <2>2, <3>1 DEF workerVars, WorkerTypeOK
    <3>2. ASSUME NEW r \in requests, Transition(r)
          PROVE  WorkerTypeOK' /\ Size'
      <4>1. /\ Len(outbox') = Len(outbox) + 1 /\ Len(log') = Len(log) + 1
            /\ Len(log) + 1 <= MaxTransitions
            /\ DOMAIN outbox \subseteq DOMAIN outbox'
        BY <2>1, <3>2, NewRowTypes, BoundsAssumption DEF Transition
      <4>2. \A e \in Events : call[e].open => call[e].after \in Nat /\ Len(log) \in Nat
        BY <2>1 DEF WorkerTypeOK, Call
      <4> QED BY <2>2, <4>1, <4>2 DEF workerVars, WorkerTypeOK
    <3> QED BY <2>2, <3>1, <3>2 DEF SessionNext, create_evidence_session, PostTransitionForm,
                                   request_session_transition, Replay
  <2>3. CASE Next /\ UNCHANGED sessionVars
    BY <2>1, <2>3, WorkerStepTypes DEF sessionVars
  <2>4. CASE UNCHANGED vars
    BY <2>4 DEF vars, sessionVars, workerVars, WorkerTypeOK
  <2>5. Next => (SessionNext /\ UNCHANGED workerVars) \/ UNCHANGED sessionVars
    BY DEF Next, Progress, claim_outbox_events, Handle, complete_outbox_event,
           fail_outbox_event, Backoff, finishBatch, Restart, requestShutdown, Crash,
           LoseAnswer, CommitCompletion, AbortCompletion, LeaseLapses, LeaseOverrun
  <2> QED BY <2>2, <2>3, <2>4, <2>5
<1>3. SessionTypeOK /\ WorkerTypeOK /\ Size => TypeOK
  BY DEF WorkerTypeOK, TypeOK
<1> HIDE DEF Size
<1> QED BY <1>1, <1>2, <1>3, OutboxKeepsWritePath, SessionTypeCorrect, PTL DEF Spec

\* A completion that found its token current speaks of a session that is still in the state
\* the event asked for, or has a transition committed since.
CallsReadFresh ==
  \A e \in Events : call[e].open /\ call[e].current =>
    \/ Current(e)
    \/ \E i \in DOMAIN log : i > call[e].after /\ log[i].session = outbox[e].session

\* A step of the workers opens a call with a fresh reading, closes one or leaves it.
LEMMA CallStep ==
  ASSUME TypeOK, Next, UNCHANGED sessionVars, NEW e \in Events, call'[e].open
  PROVE  call'[e] \in {call[e], ReadToken(e)}
<1>0. call \in [Events -> Call] /\ \A w \in Workers : pc[w] = "complete" => at[w] \in Events
  BY DEF TypeOK
<1>1. ASSUME NEW w \in Workers, complete_outbox_event(w)
      PROVE  call'[e] \in {call[e], ReadToken(e)}
  <2>1. at[w] \in Events /\ (call' = call \/ call' = [call EXCEPT ![at[w]] = ReadToken(at[w])])
    BY <1>0, <1>1 DEF complete_outbox_event
  <2> QED BY <1>0, <2>1
<1>2. ASSUME NEW d \in Events, call' = [call EXCEPT ![d] = NoCall]
      PROVE  call'[e] = call[e]
  BY <1>0, <1>2 DEF NoCall
<1>3. \A w \in Workers :
        claim_outbox_events(w) \/ fail_outbox_event(w) \/ Backoff(w) \/ finishBatch(w) \/ Restart(w)
        \/ requestShutdown(w) \/ Crash(w) \/ LoseAnswer(w) \/ (\E d \in batch[w] : Handle(w, d))
        => call' = call
  BY DEF claim_outbox_events, fail_outbox_event, Backoff, finishBatch, Restart, requestShutdown,
         Crash, LoseAnswer, Handle
<1>4. \A d \in Events : LeaseLapses(d) \/ LeaseOverrun(d) => call' = call
  BY DEF LeaseLapses, LeaseOverrun
<1>5. \A d \in Events : CommitCompletion(d) \/ AbortCompletion(d) => call' = [call EXCEPT ![d] = NoCall]
  BY DEF CommitCompletion, AbortCompletion
<1>6. UNCHANGED workerVars => call' = call
  BY DEF workerVars
<1> QED BY <1>1, <1>2, <1>3, <1>4, <1>5, <1>6 DEF Next, Progress

\* No step makes a reading staler than a committed transition explains.
LEMMA StepKeepsCallsFresh ==
  ASSUME TypeOK, TypeOK', SessionInv, CallsReadFresh, [Next]_vars
  PROVE  CallsReadFresh'
<1>0. /\ log \in Seq(TransitionRow) /\ outbox \in Seq(EventRow)
      /\ \A e \in Events : call[e].open =>
           e \in DOMAIN outbox /\ call[e].after \in Nat /\ call[e].after <= Len(log)
      /\ session \in [Sessions -> SessionRow]
  BY DEF TypeOK, SessionTypeOK, Call
<1>5. \A e \in DOMAIN outbox : outbox[e].session \in Sessions
  <2>1. \A e \in DOMAIN outbox : outbox[e] \in EventRow
    BY <1>0
  <2> QED BY <2>1 DEF EventRow
<1>1. CASE Next /\ UNCHANGED sessionVars
  <2> SUFFICES ASSUME NEW e \in Events, call'[e].open, call'[e].current
               PROVE  \/ Current(e)'
                      \/ \E i \in DOMAIN log' : i > call'[e].after /\ log'[i].session = outbox'[e].session
    BY DEF CallsReadFresh
  <2>1. call'[e] \in {call[e], ReadToken(e)}
    BY <1>1, CallStep
  <2>2. Current(e)' <=> Current(e)
    BY <1>1 DEF sessionVars, Current, Session
  <2> QED BY <1>1, <2>1, <2>2 DEF CallsReadFresh, sessionVars, ReadToken
<1>2. ASSUME SessionNext, UNCHANGED workerVars
      PROVE  CallsReadFresh'
  <2>0. call' = call
    BY <1>2 DEF workerVars
  <2>1. CASE UNCHANGED <<session, log, outbox>>
    BY <2>0, <2>1 DEF CallsReadFresh, Current, Session
  <2>2. ASSUME NEW s \in Sessions, NEW k \in Keys, create_evidence_session(s, k)
        PROVE  CallsReadFresh'
    <3>1. UNCHANGED <<log, outbox>> /\ \A x \in Sessions : x # s => session'[x] = session[x]
      BY <1>0, <2>2 DEF create_evidence_session
    <3>2. \A e \in DOMAIN outbox : outbox[e].session \in Sessions /\ outbox[e].session # s
      BY <1>0, <1>5, <2>2 DEF SessionInv, TokensAreFences, create_evidence_session
    <3> QED BY <1>0, <2>0, <3>1, <3>2 DEF CallsReadFresh, Current, Session
  <2>3. ASSUME NEW r \in requests, Transition(r)
        PROVE  CallsReadFresh'
    <3> SUFFICES ASSUME NEW e \in Events, call[e].open, call[e].current
                 PROVE  \/ Current(e)'
                        \/ \E i \in DOMAIN log' : i > call[e].after /\ log'[i].session = outbox'[e].session
      BY <2>0 DEF CallsReadFresh
    <3>1. r \in Request /\ NewTransition(r) \in TransitionRow /\ NewEvent(r) \in EventRow
      BY NewRowTypes DEF SessionInv
    <3>2. /\ Len(log) \in Nat /\ DOMAIN log = 1..Len(log) /\ DOMAIN log' = 1..(Len(log) + 1)
          /\ \A i \in DOMAIN log : log'[i] = log[i]
          /\ log'[Len(log) + 1].session = r.session
      BY <1>0, <2>3, <3>1, AppendedRow DEF Transition, NewTransition
    <3>3. outbox'[e] = outbox[e] /\ e \in DOMAIN outbox
      BY <1>0, <2>3, <3>1, AppendedRow DEF Transition
    <3>4. CASE outbox[e].session = r.session
      <4>1. Len(log) + 1 \in DOMAIN log' /\ Len(log) + 1 > call[e].after
        BY <1>0, <3>2
      <4> QED BY <3>2, <3>3, <3>4, <4>1
    <3>5. CASE outbox[e].session # r.session
      <4>1. outbox[e].session \in Sessions
        BY <1>5, <3>3
      <4>2. session'[outbox[e].session] = session[outbox[e].session]
        BY <1>0, <2>3, <3>5, <4>1 DEF Transition
      <4>3. Current(e)' <=> Current(e)
        BY <3>3, <4>2 DEF Current, Session
      <4> QED BY <3>2, <3>3, <4>3 DEF CallsReadFresh
    <3> QED BY <3>4, <3>5
  <2> QED BY <1>2, <2>1, <2>2, <2>3
          DEF SessionNext, PostTransitionForm, request_session_transition, Replay
<1>3. CASE UNCHANGED vars
  BY <1>3 DEF vars, sessionVars, workerVars, CallsReadFresh, Current, Session
<1>4. Next => (SessionNext /\ UNCHANGED workerVars) \/ UNCHANGED sessionVars
  BY DEF Next, Progress, claim_outbox_events, Handle, complete_outbox_event,
         fail_outbox_event, Backoff, finishBatch, Restart, requestShutdown, Crash,
         LoseAnswer, CommitCompletion, AbortCompletion, LeaseLapses, LeaseOverrun
<1> QED BY <1>1, <1>2, <1>3, <1>4

\* An event reaches DONE only through a completion that read the session's token as its own.
\* By CurrentIsNewest the session was then in the state the event asked for; if it has
\* left it by the time the verdict commits, the history shows the transition.
THEOREM DoneIsCurrent == Spec => DoneWasCurrent
<1>1. Init => CallsReadFresh
  BY DEF Init, CallsReadFresh, NoCall
<1>2. TypeOK /\ CurrentEventIsNewest /\ CallsReadFresh /\ [Next]_vars =>
        [\A e \in DOMAIN outbox :
           job[e].status # "DONE" /\ job'[e].status = "DONE" =>
             \/ outbox[e].target = Session(e).state
             \/ \E i \in DOMAIN log : i > call[e].after /\ log[i].session = outbox[e].session]_vars
  <2> SUFFICES ASSUME TypeOK, CurrentEventIsNewest, CallsReadFresh, Next, NEW e \in DOMAIN outbox,
                      job[e].status # "DONE", job'[e].status = "DONE"
               PROVE  \/ outbox[e].target = Session(e).state
                      \/ \E i \in DOMAIN log : i > call[e].after /\ log[i].session = outbox[e].session
    OBVIOUS
  <2>1. DOMAIN outbox \subseteq Events /\ job \in [Events -> JobRow]
    BY BoundsAssumption DEF TypeOK, SessionTypeOK, Events
  <2>2. ASSUME NEW d \in Events, CommitCompletion(d)
        PROVE  call[e].open /\ call[e].current
    BY <2>1, <2>2 DEF CommitCompletion, Completed, Locked, JobRow
  <2>3. ASSUME NEW w \in Workers, NEW d \in Events, job' \in {job, Failed(w, d)}
        PROVE  FALSE
    BY <2>1, <2>3 DEF Failed, JobRow
  <2>4. ASSUME NEW w \in Workers, job' = Leased(w, NextBatch)
        PROVE  FALSE
    BY <2>1, <2>4 DEF Leased, JobRow
  <2>5. ASSUME NEW d \in Events, job' = [job EXCEPT ![d].lease = "expired"]
        PROVE  FALSE
    BY <2>1, <2>5 DEF JobRow
  <2>6. job' # job
    OBVIOUS
  <2>7. \E d \in Events : CommitCompletion(d)
    <3>1. \A w \in Workers : ~fail_outbox_event(w)
      <4>1. \A w \in Workers : fail_outbox_event(w) =>
              at[w] \in Events /\ job' \in {job, Failed(w, at[w])}
        BY <2>1 DEF fail_outbox_event, TypeOK
      <4> QED BY <4>1, <2>3
    <3>2. \A w \in Workers : ~claim_outbox_events(w)
      BY <2>4 DEF claim_outbox_events
    <3>3. \A d \in Events : ~LeaseLapses(d) /\ ~LeaseOverrun(d) /\ ~AbortCompletion(d)
      BY <2>5, <2>6 DEF LeaseLapses, LeaseOverrun, AbortCompletion
    <3>4. \A w \in Workers : ~Backoff(w) /\ ~finishBatch(w) /\ ~Restart(w) /\ ~requestShutdown(w)
                             /\ ~Crash(w) /\ ~complete_outbox_event(w) /\ ~LoseAnswer(w)
      BY <2>6 DEF Backoff, finishBatch, Restart, requestShutdown, Crash, complete_outbox_event, LoseAnswer
    <3>5. \A w \in Workers : \A d \in batch[w] : ~Handle(w, d)
      BY <2>6 DEF Handle
    <3>6. ~UNCHANGED workerVars
      BY <2>6 DEF workerVars
    <3> QED BY <3>1, <3>2, <3>3, <3>4, <3>5, <3>6 DEF Next, Progress
  <2>8. call[e].open /\ call[e].current
    BY <2>2, <2>7
  <2> QED BY <2>1, <2>8 DEF CallsReadFresh, Current, Session, CurrentEventIsNewest
<1> QED BY <1>1, <1>2, StepKeepsCallsFresh, TypeCorrect, SessionInvariant, CurrentIsNewest,
           OutboxKeepsWritePath, PTL DEF Spec, DoneWasCurrent

\* Reporting an event, by completion or by failure, takes it out of the batch
\* and off the worker's pending claims at once.
LEMMA ReportKeepsMatch ==
  ASSUME TypeOK, ClaimsMatchBatches, disruptions = 0,
         NEW w \in Workers, at[w] \in batch[w],
         NextEvent(w), job' \in {Completed(at[w]), Failed(w, at[w])},
         \A e \in Events : Locked(e)' => Locked(e) /\ e # at[w],
         \A v \in Workers, e \in Events : e # at[w] /\ Awaits(v, e) => Awaits(v, e)'
  PROVE  ClaimsMatchBatches'
<1>1. at[w] \in Events /\ job \in [Events -> JobRow] /\ batch \in [Workers -> SUBSET Events]
  BY DEF TypeOK
<1>2. job[at[w]].claimed_by = w /\ job[at[w]].status = "PENDING"
  BY <1>1 DEF ClaimsMatchBatches
<1>3. \A d \in Events : d # at[w] => job'[d] = job[d]
  BY <1>1 DEF Completed, Failed
<1>4. \/ job'[at[w]].claimed_by = w /\ job'[at[w]].status # "PENDING"
      \/ job'[at[w]].claimed_by = NoWorker
  BY <1>1, <1>2 DEF Completed, Failed, JobRow
<1>5. \A v \in Workers, d \in Events :
        d \in batch'[v] <=> d \in batch[v] /\ ~(v = w /\ d = at[w])
  BY <1>1 DEF NextEvent
<1> QED BY <1>1, <1>2, <1>3, <1>4, <1>5, WorkerAssumption DEF ClaimsMatchBatches, NoWorker

\* While nothing was disrupted, a worker's pending claims are its batch and
\* their leases hold.
THEOREM ClaimsMatch == Spec => []ClaimsMatchBatches
<1>1. Init => ClaimsMatchBatches
  BY WorkerAssumption DEF Init, ClaimsMatchBatches, NewJob, NoWorker, NoCall, Locked
<1>2. TypeOK /\ ClaimsMatchBatches /\ [Next]_vars => ClaimsMatchBatches'
  <2> SUFFICES ASSUME TypeOK, ClaimsMatchBatches, [Next]_vars, disruptions' = 0
               PROVE  ClaimsMatchBatches'
    BY DEF ClaimsMatchBatches
  <2>0. /\ job \in [Events -> JobRow] /\ batch \in [Workers -> SUBSET Events]
        /\ call \in [Events -> Call] /\ DOMAIN pc = Workers /\ DOMAIN at = Workers
        /\ disruptions \in Nat
    BY DEF TypeOK
  <2>1. ~Disrupt
    BY <2>0 DEF Disrupt
  <2>2. CASE /\ UNCHANGED <<job, call, batch, disruptions>>
             /\ \A v \in Workers, e \in Events : Awaits(v, e) => Awaits(v, e)'
    BY <2>2 DEF ClaimsMatchBatches, Locked
  <2>3. ASSUME NEW w \in Workers, claim_outbox_events(w)
        PROVE  ClaimsMatchBatches'
    <3>1. /\ job' = Leased(w, NextBatch) /\ disruptions = 0
          /\ batch' = [batch EXCEPT ![w] = NextBatch] /\ call' = call
          /\ pc' = [pc EXCEPT ![w] = "handle"] /\ at' = at /\ pc[w] = "claim"
      BY <2>1, <2>3 DEF claim_outbox_events
    <3>2. batch[w] = {}
      BY <2>3 DEF claim_outbox_events, TypeOK
    <3>3. \A d \in NextBatch : job[d].status = "PENDING" /\ \A v \in Workers : d \notin batch[v]
      BY <2>0, <3>1 DEF NextBatch, Claimable, ClaimsMatchBatches
    <3>4. \A d \in Events : d \notin NextBatch => job'[d] = job[d]
      BY <3>1 DEF Leased
    <3>5. \A d \in Events : d \in NextBatch =>
            job'[d].claimed_by = w /\ job'[d].status = "PENDING" /\ job'[d].lease = "held"
      BY <3>1, <3>3 DEF Leased
    <3>6. \A v \in Workers, d \in Events :
            d \in batch'[v] <=> (IF v = w THEN d \in NextBatch ELSE d \in batch[v])
      BY <2>0, <3>1
    <3>7. \A v \in Workers, d \in Events : Awaits(v, d) => Awaits(v, d)'
      BY <2>0, <3>1 DEF Awaits
    <3> QED BY <2>0, <3>1, <3>2, <3>3, <3>4, <3>5, <3>6, <3>7 DEF ClaimsMatchBatches, Locked
  <2>4. ASSUME NEW w \in Workers, fail_outbox_event(w)
        PROVE  ClaimsMatchBatches'
    <3>1. at[w] \in batch[w] /\ at[w] \in Events /\ disruptions = 0 /\ pc[w] = "fail"
      BY <2>1, <2>4 DEF fail_outbox_event, TypeOK
    <3>2. job[at[w]].claimed_by = w
      BY <2>0, <3>1 DEF ClaimsMatchBatches
    <3>3. NextEvent(w) /\ job' = Failed(w, at[w]) /\ ~Locked(at[w]) /\ call' = call
      BY <2>1, <2>4, <3>2 DEF fail_outbox_event
    <3>4. \A v \in Workers, e \in Events : Awaits(v, e) => Awaits(v, e)'
      BY <2>0, <3>1, <3>3 DEF Awaits, NextEvent
    <3> QED BY <3>1, <3>3, <3>4, ReportKeepsMatch DEF Locked
  <2>10. ASSUME NEW d \in Events, CommitCompletion(d)
         PROVE  ClaimsMatchBatches'
    <3>1. /\ Locked(d) /\ job' = Completed(d) /\ call' = [call EXCEPT ![d] = NoCall]
          /\ disruptions = 0
      BY <2>10 DEF CommitCompletion
    <3>2. \E w \in Workers : Awaits(w, d)
      BY <3>1 DEF ClaimsMatchBatches
    <3>3. PICK w \in Workers : Awaits(w, d) /\ NextEvent(w)
      BY <2>10, <3>2 DEF CommitCompletion
    <3>4. at[w] = d /\ d \in batch[w] /\ pc[w] = "await"
      BY <3>3 DEF Awaits, TypeOK
    <3>5. \A e \in Events : Locked(e)' => Locked(e) /\ e # d
      BY <2>0, <3>1 DEF Locked, NoCall
    <3>6. \A v \in Workers, e \in Events : e # d /\ Awaits(v, e) => Awaits(v, e)'
      BY <2>0, <3>3, <3>4 DEF Awaits, NextEvent
    <3> QED BY <3>1, <3>3, <3>4, <3>5, <3>6, ReportKeepsMatch
  <2>11. ASSUME NEW w \in Workers, complete_outbox_event(w)
         PROVE  ClaimsMatchBatches'
    <3>1. /\ UNCHANGED <<job, batch, at, disruptions>> /\ at[w] \in batch[w] /\ at[w] \in Events
          /\ disruptions = 0 /\ pc[w] = "complete"
      BY <2>1, <2>11 DEF complete_outbox_event, TypeOK
    <3>2. job[at[w]].claimed_by = w
      BY <2>0, <3>1 DEF ClaimsMatchBatches
    <3>3. call' = [call EXCEPT ![at[w]] = ReadToken(at[w])] /\ pc' = [pc EXCEPT ![w] = "await"]
      BY <2>1, <2>11, <3>2 DEF complete_outbox_event
    <3>4. Awaits(w, at[w])' /\ \A v \in Workers, e \in Events : Awaits(v, e) => Awaits(v, e)'
      BY <2>0, <3>1, <3>3 DEF Awaits
    <3>5. \A e \in Events : Locked(e)' => Locked(e) \/ e = at[w]
      BY <2>0, <3>3 DEF Locked
    <3> QED BY <3>1, <3>4, <3>5 DEF ClaimsMatchBatches
  <2>5. ASSUME NEW w \in Workers, Crash(w) \/ LoseAnswer(w)
        PROVE  FALSE
    BY <2>1, <2>5 DEF Crash, LoseAnswer
  <2>6. ASSUME NEW d \in Events, LeaseOverrun(d) \/ AbortCompletion(d)
        PROVE  FALSE
    BY <2>1, <2>6 DEF LeaseOverrun, AbortCompletion
  <2>7. ASSUME NEW d \in Events, LeaseLapses(d)
        PROVE  ClaimsMatchBatches'
    <3>1. \A v \in Workers : d \notin batch[v]
      BY <2>0, <2>7 DEF LeaseLapses, Working, ClaimsMatchBatches
    <3>2. /\ UNCHANGED <<call, pc, batch, at, disruptions>>
          /\ \A c \in Events : c # d => job'[c] = job[c]
          /\ job'[d].status = job[d].status /\ job'[d].claimed_by = job[d].claimed_by
      BY <2>0, <2>7 DEF LeaseLapses, JobRow
    <3> QED BY <2>0, <3>1, <3>2 DEF ClaimsMatchBatches, Locked, Awaits
  <2>8. \A w \in Workers :
          Backoff(w) \/ finishBatch(w) \/ Restart(w) \/ requestShutdown(w)
          \/ (\E d \in batch[w] : Handle(w, d))
          => /\ UNCHANGED <<job, call, batch, disruptions>>
             /\ \A v \in Workers, e \in Events : Awaits(v, e) => Awaits(v, e)'
    BY <2>0 DEF Backoff, finishBatch, Restart, requestShutdown, Handle, Awaits
  <2>9. UNCHANGED workerVars \/ UNCHANGED vars =>
          /\ UNCHANGED <<job, call, batch, disruptions>>
          /\ \A v \in Workers, e \in Events : Awaits(v, e) => Awaits(v, e)'
    BY DEF workerVars, vars, Awaits
  <2> QED BY <2>2, <2>3, <2>4, <2>5, <2>6, <2>7, <2>8, <2>9, <2>10, <2>11 DEF Next, Progress
<1> QED BY <1>1, <1>2, TypeCorrect, PTL DEF Spec

\* Two undisrupted workers never hold the same event.
THEOREM BatchesDisjoint == Spec => []HealthyBatchesDisjoint
<1>1. TypeOK /\ ClaimsMatchBatches => HealthyBatchesDisjoint
  BY DEF TypeOK, ClaimsMatchBatches, HealthyBatchesDisjoint
<1> QED BY <1>1, TypeCorrect, ClaimsMatch, PTL

\* A worker that stopped on a signal left no pending claim behind.
THEOREM StopReports == Spec => []StopReportsBatch
<1> DEFINE Stopped == \A w \in Workers : shutdown[w] = "stopped" => pc[w] = "exited"
<1>1. Init => Stopped
  BY DEF Init
<1>2. TypeOK /\ Stopped /\ [Next]_vars => Stopped'
  BY DEF TypeOK, Next, vars, workerVars, Progress, claim_outbox_events, Handle,
         complete_outbox_event, fail_outbox_event, Backoff, finishBatch, Restart,
         requestShutdown, Crash, LoseAnswer, CommitCompletion, AbortCompletion, Awaits,
         LeaseLapses, LeaseOverrun, NextEvent, AbandonBatch
<1>3. TypeOK /\ Stopped /\ ClaimsMatchBatches => StopReportsBatch
  BY DEF TypeOK, ClaimsMatchBatches, StopReportsBatch
<1> HIDE DEF Stopped
<1> QED BY <1>1, <1>2, <1>3, TypeCorrect, ClaimsMatch, PTL DEF Spec

\* While nothing was disrupted, DONE and FAILED are final: whoever reports an
\* event holds it pending.
THEOREM HealthyOutcomes == Spec => HealthyOutcomeIsFinal
<1>1. TypeOK /\ ClaimsMatchBatches /\ [Next]_vars =>
        [disruptions' = 0 =>
           \A e \in Events : job[e].status # "PENDING" => job'[e].status = job[e].status]_vars
  <2> SUFFICES ASSUME TypeOK, ClaimsMatchBatches, Next, disruptions' = 0,
                      NEW e \in Events, job[e].status # "PENDING"
               PROVE  job'[e].status = job[e].status
    OBVIOUS
  <2>0. /\ job \in [Events -> JobRow] /\ batch \in [Workers -> SUBSET Events]
        /\ disruptions \in Nat
    BY DEF TypeOK
  <2>1. ~Disrupt
    BY <2>0 DEF Disrupt
  <2>2. CASE UNCHANGED job
    BY <2>2
  <2>3. ASSUME NEW w \in Workers, claim_outbox_events(w)
        PROVE  job'[e].status = job[e].status
    BY <2>3 DEF claim_outbox_events, Leased
  <2>4. ASSUME NEW w \in Workers, fail_outbox_event(w)
        PROVE  job'[e].status = job[e].status
    <3>1. at[w] \in batch[w] /\ disruptions = 0
      BY <2>1, <2>4 DEF fail_outbox_event, TypeOK
    <3>2. at[w] # e /\ at[w] \in Events
      BY <2>0, <3>1 DEF ClaimsMatchBatches
    <3>3. job' \in {job, Failed(w, at[w])}
      BY <2>1, <2>4 DEF fail_outbox_event
    <3> QED BY <2>0, <3>2, <3>3 DEF Failed
  <2>8. ASSUME NEW d \in Events, CommitCompletion(d)
        PROVE  job'[e].status = job[e].status
    <3>1. Locked(d) /\ job' = Completed(d) /\ disruptions = 0
      BY <2>8 DEF CommitCompletion
    <3>2. PICK w \in Workers : Awaits(w, d)
      BY <3>1 DEF ClaimsMatchBatches
    <3>3. d \in batch[w]
      BY <3>2 DEF Awaits, TypeOK
    <3>4. d # e
      BY <3>1, <3>3 DEF ClaimsMatchBatches
    <3> QED BY <2>0, <3>1, <3>4 DEF Completed
  <2>5. ASSUME NEW d \in Events, LeaseLapses(d) \/ LeaseOverrun(d)
        PROVE  job'[e].status = job[e].status
    BY <2>0, <2>5 DEF LeaseLapses, LeaseOverrun, JobRow
  <2>6. \A w \in Workers :
          Backoff(w) \/ finishBatch(w) \/ Restart(w) \/ requestShutdown(w) \/ Crash(w)
          \/ (\E d \in batch[w] : Handle(w, d)) \/ complete_outbox_event(w) \/ LoseAnswer(w)
          => UNCHANGED job
    BY DEF Backoff, finishBatch, Restart, requestShutdown, Crash, Handle, complete_outbox_event, LoseAnswer
  <2>9. \A d \in Events : AbortCompletion(d) => UNCHANGED job
    BY DEF AbortCompletion
  <2>7. UNCHANGED workerVars => UNCHANGED job
    BY DEF workerVars
  <2> QED BY <2>2, <2>3, <2>4, <2>5, <2>6, <2>7, <2>8, <2>9 DEF Next, Progress
<1> QED BY <1>1, TypeCorrect, ClaimsMatch, PTL DEF Spec, HealthyOutcomeIsFinal
=============================================================================
