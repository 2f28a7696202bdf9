--------------------------- MODULE EvidenceSession ---------------------------
(***************************************************************************)
(* The write path of an evidence session: operators load a page, post a    *)
(* transition form, and request_session_transition (the version installed  *)
(* by 20260804150000_phase2_outbox_worker.sql) locks the session row,      *)
(* checks idempotency key, fencing token and state graph, and commits the  *)
(* transition row, the outbox row and the session update together.  Each   *)
(* function is one database transaction, hence one action.                 *)
(*                                                                         *)
(* A posted form stays in `requests` for ever: it may be delivered late,   *)
(* more than once (browser and proxy retries) or never.                    *)
(***************************************************************************)
EXTENDS SessionRules, Naturals, Sequences, FiniteSets

CONSTANTS
  Sessions,        \* ids of evidence_session rows
  Keys,            \* idempotency keys callers pass
  MaxTransitions,  \* bound: rows of evidence_session_transition
  MaxRequests      \* bound: distinct forms posted

ASSUME BoundsAssumption ==
  /\ MaxTransitions \in Nat
  /\ MaxRequests \in Nat

VARIABLES
  session,   \* evidence_session, one row per id (NoSession before its insert)
  log,       \* evidence_session_transition, in commit order
  outbox,    \* outbox_events, the columns written by the insert, in commit order
  requests,  \* the forms posted so far
  accepted,  \* the forms the function answered without an exception
  issued     \* number of fencing tokens gen_random_uuid() has handed out

sessionVars == <<session, log, outbox, requests, accepted, issued>>

\* A column that is null, or a row that is absent.
NoKey == "none"
NoSession == [state |-> "OFF", version |-> 0, key |-> NoKey, token |-> 0]

Request == [session : Sessions, target : SessionStates,
            key : Keys, token : Nat, seen : SessionStates]

Exists(s) == session[s].version > 0

-----------------------------------------------------------------------------
SessionInit ==
  /\ session = [s \in Sessions |-> NoSession]
  /\ log = <<>>
  /\ outbox = <<>>
  /\ requests = {}
  /\ accepted = {}
  /\ issued = 0

\* Insert with the column defaults: state OFF, version 1, a fresh token.
create_evidence_session(s, k) ==
  /\ ~Exists(s)
  /\ session' = [session EXCEPT
       ![s] = [state |-> "OFF", version |-> 1, key |-> k, token |-> issued + 1]]
  /\ issued' = issued + 1
  /\ UNCHANGED <<log, outbox, requests, accepted>>

\* An operator's page shows the row; its form posts the fencing token of that
\* rendering.  `seen` remembers the state the operator was looking at.
PostTransitionForm(s, t, k) ==
  /\ Exists(s)
  /\ Cardinality(requests) < MaxRequests
  /\ requests' = requests \cup
       {[session |-> s, target |-> t, key |-> k,
         token |-> session[s].token, seen |-> session[s].state]}
  /\ UNCHANGED <<session, log, outbox, accepted, issued>>

\* Mutant: a known key is answered whatever destination it names.
ReplaysAnyTarget(r) == session[r.session].key = r.key

\* Same key, same destination: the caller is retrying what already landed.
Replays(r) ==
  /\ session[r.session].key = r.key
  /\ session[r.session].state = r.target

\* Mutants: the fencing token, or the state graph, is not consulted.
AdmitsWithoutFence(r) ==
  /\ session[r.session].key # r.key
  /\ <<session[r.session].state, r.target>> \in session_transition_rule
AdmitsAnyEdge(r) ==
  /\ session[r.session].key # r.key
  /\ session[r.session].token = r.token

\* Every check of request_session_transition passes.
Admits(r) ==
  /\ session[r.session].key # r.key
  /\ session[r.session].token = r.token
  /\ <<session[r.session].state, r.target>> \in session_transition_rule

\* Mutants: the event carries the caller's token; the update does not rotate the token.
EventWithOldToken(r) == [session |-> r.session, target |-> r.target, token |-> r.token]
RowWithoutRotation(r) ==
  [state |-> r.target, version |-> session[r.session].version + 1,
   key |-> r.key, token |-> session[r.session].token]

\* The rows an admitted transition writes; the event carries the NEW token.
NewTransition(r) ==
  [session |-> r.session, from |-> session[r.session].state, to |-> r.target,
   version |-> session[r.session].version + 1, key |-> r.key, token |-> r.token,
   seen |-> r.seen]
NewEvent(r) == [session |-> r.session, target |-> r.target, token |-> issued + 1]
NewSessionRow(r) ==
  [state |-> r.target, version |-> session[r.session].version + 1,
   key |-> r.key, token |-> issued + 1]

Replay(r) ==
  /\ Replays(r)
  /\ UNCHANGED <<session, log, outbox, issued>>

Transition(r) ==
  /\ Admits(r)
  /\ Len(log) < MaxTransitions
  /\ log' = Append(log, NewTransition(r))
  /\ outbox' = Append(outbox, NewEvent(r))
  /\ session' = [session EXCEPT ![r.session] = NewSessionRow(r)]
  /\ issued' = issued + 1

\* One call of the function; any other request raises and writes nothing.
request_session_transition(r) ==
  /\ Replay(r) \/ Transition(r)
  /\ accepted' = accepted \cup {r}
  /\ UNCHANGED requests

SessionNext ==
  \/ \E s \in Sessions, k \in Keys : create_evidence_session(s, k)
  \/ \E s \in Sessions, t \in SessionStates, k \in Keys : PostTransitionForm(s, t, k)
  \/ \E r \in requests : request_session_transition(r)

SessionSpec == SessionInit /\ [][SessionNext]_sessionVars

-----------------------------------------------------------------------------
SessionRow == [state : SessionStates, version : Nat, key : Keys \cup {NoKey}, token : Nat]
TransitionRow == [session : Sessions, from : SessionStates, to : SessionStates,
                  version : Nat, key : Keys, token : Nat, seen : SessionStates]
EventRow == [session : Sessions, target : SessionStates, token : Nat]

\* Type invariant of the tables and of the forms in flight.
SessionTypeOK ==
  /\ session \in [Sessions -> SessionRow]
  /\ \A s \in Sessions : ~Exists(s) => session[s] = NoSession
  /\ log \in Seq(TransitionRow)
  /\ outbox \in Seq(EventRow)
  /\ requests \subseteq Request
  /\ accepted \subseteq requests
  /\ issued \in Nat

\* A form delivered twice, late, or after the session came back to the same
\* state is applied at most once: no two transition rows of a session were
\* admitted with the same fencing token.
RequestAppliedAtMostOnce ==
  \A i, j \in DOMAIN log :
    i < j /\ log[i].session = log[j].session => log[i].token < log[j].token

\* Whoever's form is applied was looking at the state it is applied to: no
\* other operator's transition slips in between page load and row lock.
TransitionLeavesSeenState ==
  \A i \in DOMAIN log : log[i].from = log[i].seen

\* The transition table is the session's history: consecutive rows of a
\* session chain from one state to the next with versions one apart, the
\* first leaves OFF at version 2, and the last one is what the row shows.
LogIsHistory ==
  \A i \in DOMAIN log :
    LET later == {j \in DOMAIN log : j > i /\ log[j].session = log[i].session}
        earlier == {j \in DOMAIN log : j < i /\ log[j].session = log[i].session}
    IN /\ later = {} => /\ session[log[i].session].state = log[i].to
                        /\ session[log[i].session].version = log[i].version
       /\ earlier = {} => log[i].from = "OFF" /\ log[i].version = 2
       /\ \A j \in later :
            (\A k \in later : j <= k) =>
              log[j].from = log[i].to /\ log[j].version = log[i].version + 1

\* Only the event of the newest transition carries the session's token, and
\* that event asks for the state the session is in: the worker's fence test
\* (event token = session token) accepts exactly the newest event.
CurrentEventIsNewest ==
  \A i \in DOMAIN outbox :
    LET row == session[outbox[i].session]
        newest == \A j \in DOMAIN outbox :
                    j > i => outbox[j].session # outbox[i].session
    IN /\ (outbox[i].token = row.token) <=> newest
       /\ newest => outbox[i].target = row.state

Machine == INSTANCE SessionMachine WITH
  state <- [s \in Sessions |-> session[s].state],
  version <- [s \in Sessions |-> session[s].version]

\* Whatever forms are posted, delayed or repeated, each session moves along
\* one edge of session_transition_rule per committed transition.
ImplementsSessionMachine == Machine!Spec

\* The inductive strengthening behind the three invariants above.  Tokens are
\* issued in increasing order, so what a form or a table row remembers of a
\* session's token lies at or below the present one, strictly below it once a
\* transition was admitted with it; a form holding the present token saw the
\* present state.
TokensAreFences ==
  /\ \A s \in Sessions : session[s].token <= issued
  /\ \A r \in requests :
       /\ Exists(r.session)
       /\ r.token <= session[r.session].token
       /\ r.token = session[r.session].token => r.seen = session[r.session].state
  /\ \A i \in DOMAIN log : log[i].token < session[log[i].session].token
  /\ \A i \in DOMAIN outbox :
       /\ Exists(outbox[i].session)
       /\ outbox[i].token <= session[outbox[i].session].token
       /\ \A j \in DOMAIN outbox :
            i < j /\ outbox[i].session = outbox[j].session => outbox[i].token < outbox[j].token

\* A form answered ok has its transition row, or asked for OFF: a session that never
\* left OFF answers so with the key it was created with (every OFF is exempt here).
AcceptedFormLanded ==
  \A r \in accepted :
    \/ \E i \in DOMAIN log : /\ log[i].session = r.session
                              /\ log[i].to = r.target
                              /\ log[i].key = r.key
    \/ r.target = "OFF"

\* The tables tell one story of all operators: transition rows chain into the
\* session's history and hold what each operator was told had been done.
HistoryHoldsForms == LogIsHistory /\ AcceptedFormLanded
=============================================================================
