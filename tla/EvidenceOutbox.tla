--------------------------- MODULE EvidenceOutbox ---------------------------
(***************************************************************************)
(* The outbox workers (scripts/phase2/outbox-worker.ts calling             *)
(* lib/server/outbox-worker.ts) composed with the session write path.      *)
(* Workers claim leases on outbox rows, run the handler registered for the *)
(* target state and report with complete_outbox_event or                   *)
(* fail_outbox_event, in the versions installed by                         *)
(* 20260805100000_phase2_outbox_worker_service_role_access.sql.            *)
(*                                                                         *)
(* Row i of `outbox` and `job[i]` are one row of outbox_events: the first  *)
(* holds the columns the insert writes, the second the columns the worker  *)
(* functions update, at their table defaults until then.  The clock is     *)
(* abstracted to whether a lease has passed lease_expiry.  Each function   *)
(* is one transaction; row locks and skip locked make transactions on the  *)
(* same row take effect one after the other.  complete_outbox_event locks  *)
(* the outbox row only: it reads the session's token in one statement and  *)
(* writes its verdict in a later one, and transitions commit in between.   *)
(*                                                                         *)
(* What the environment does to the workers -- crashes, RPC requests or    *)
(* replies lost on the way, a batch outliving its lease -- is counted in   *)
(* `disruptions` and bounded by MaxDisruptions; orderly shutdown signals   *)
(* are bounded by MaxSignals.                                              *)
(***************************************************************************)
EXTENDS EvidenceSession

CONSTANTS
  Workers,         \* worker ids (hostname-pid)
  BatchSize,       \* p_limit of claim_outbox_events
  MaxAttempts,     \* p_max_attempts of fail_outbox_event
  MaxDisruptions,  \* bound: crashes, lost RPCs, overrun leases
  MaxSignals       \* bound: SIGTERMs and SIGINTs

ASSUME WorkerAssumption ==
  /\ BatchSize \in Nat \ {0}
  /\ MaxAttempts \in Nat \ {0}
  /\ MaxDisruptions \in Nat
  /\ MaxSignals \in Nat
  /\ "none" \notin Workers

VARIABLES
  job,         \* outbox_events, the columns the worker functions update
  call,        \* the open complete_outbox_event transaction on each row
  pc,          \* where each worker's loop is
  batch,       \* the claimed events a worker still has to report
  at,          \* the event of its batch a worker is at (NoEvent: none)
  shutdown,    \* ShutdownController.state of each worker's process
  disruptions, \* number of disruptions so far
  signals      \* number of shutdown signals so far

workerVars == <<job, call, pc, batch, at, shutdown, disruptions, signals>>
vars == <<sessionVars, workerVars>>

Events == 1..MaxTransitions
NoEvent == 0
NoWorker == "none"
NewJob == [status |-> "PENDING", claimed_by |-> NoWorker, lease |-> "none", attempts |-> 0]
NoCall == [open |-> FALSE, current |-> FALSE, after |-> 0]

\* createDefaultOutboxHandlerRegistry: the targets that have a handler.
HandledTargets == {"REQUESTED", "PROVISIONING", "SYNCING", "CAPTURING", "DESTROYING"}

Session(e) == session[outbox[e].session]
Current(e) == outbox[e].token = Session(e).token

\* Mutants: leases are ignored; rows already settled are claimed again; a
\* lease that ran out is never claimed again.
ClaimableDespiteLease == {e \in DOMAIN outbox : job[e].status = "PENDING"}
ClaimableSettled == {e \in DOMAIN outbox : job[e].lease # "held"}
ClaimableOnce == {e \in DOMAIN outbox : job[e].status = "PENDING" /\ job[e].lease = "none"}

\* A transaction holds the lock of the row.
Locked(e) == call[e].open

\* status = 'PENDING' and (lease_expiry is null or lease_expiry < now()), skip locked
Claimable ==
  {e \in DOMAIN outbox : job[e].status = "PENDING" /\ job[e].lease # "held" /\ ~Locked(e)}

\* order by created_at limit p_limit
NextBatch == {e \in Claimable : Cardinality({d \in Claimable : d < e}) < BatchSize}

Disrupt ==
  /\ disruptions < MaxDisruptions
  /\ disruptions' = disruptions + 1
-----------------------------------------------------------------------------
\* The database functions, as the table each leaves behind.

\* Mutant: completion does not compare tokens.
ReadUnfenced(e) == [open |-> TRUE, current |-> TRUE, after |-> Len(log)]

\* The select of fencing_token, without a lock on the session.  `after` is history: how
\* many transitions had been committed by then.
ReadToken(e) == [open |-> TRUE, current |-> Current(e), after |-> Len(log)]

Leased(w, claimed) ==
  [e \in Events |->
    IF e \in claimed
    THEN [status |-> job[e].status, claimed_by |-> w, lease |-> "held",
          attempts |-> job[e].attempts + 1]
    ELSE job[e]]

Completed(e) ==
  IF call[e].current THEN [job EXCEPT ![e].status = "DONE", ![e].lease = "none"]
  ELSE [job EXCEPT ![e].status = "FAILED"]

Failed(w, e) ==
  IF job[e].claimed_by # w THEN job
  ELSE [job EXCEPT ![e] =
         [status |-> IF job[e].attempts >= MaxAttempts THEN "FAILED" ELSE "PENDING",
          claimed_by |-> NoWorker, lease |-> "none", attempts |-> job[e].attempts]]
-----------------------------------------------------------------------------
\* Control of one worker process.

\* drainOutbox goes on with the next event, or returns to the loop.
NextEvent(w) ==
  /\ batch' = [batch EXCEPT ![w] = @ \ {at[w]}]
  /\ at' = [at EXCEPT ![w] = NoEvent]
  /\ pc' = [pc EXCEPT ![w] = IF batch[w] \ {at[w]} = {} THEN "claim" ELSE "handle"]

\* drainOutbox throws: what is left of the batch is forgotten, its leases stay.
AbandonBatch(w) ==
  /\ batch' = [batch EXCEPT ![w] = {}]
  /\ at' = [at EXCEPT ![w] = NoEvent]
  /\ pc' = [pc EXCEPT ![w] = "backoff"]

\* The claim RPC; an empty answer changes nothing, a lost one abandons it.
claim_outbox_events(w) ==
  /\ pc[w] = "claim"
  /\ shutdown[w] = "running"
  /\ NextBatch # {}
  /\ job' = Leased(w, NextBatch)
  /\ \/ /\ batch' = [batch EXCEPT ![w] = NextBatch]
        /\ pc' = [pc EXCEPT ![w] = "handle"]
        /\ UNCHANGED <<at, disruptions>>
     \/ /\ AbandonBatch(w)
        /\ Disrupt
  /\ UNCHANGED <<sessionVars, call, shutdown, signals>>

\* registry.handle: no handler for the target throws; a handler may throw too.
\* The update ... returning * of the claim gives the batch in no fixed order.
Handle(w, e) ==
  /\ pc[w] = "handle"
  /\ e \in batch[w]
  /\ at' = [at EXCEPT ![w] = e]
  /\ \/ /\ outbox[e].target \in HandledTargets
        /\ pc' = [pc EXCEPT ![w] = "complete"]
     \/ pc' = [pc EXCEPT ![w] = "fail"]
  /\ UNCHANGED <<sessionVars, job, call, batch, shutdown, disruptions, signals>>

\* The completion RPC up to the read of the token.  A row not claimed by w raises and is
\* reported with fail_outbox_event, as is a request lost on the way.
complete_outbox_event(w) ==
  LET e == at[w]
  IN /\ pc[w] = "complete"
     /\ \/ /\ ~Locked(e)
           /\ job[e].claimed_by = w
           /\ call' = [call EXCEPT ![e] = ReadToken(e)]
           /\ pc' = [pc EXCEPT ![w] = "await"]
           /\ UNCHANGED disruptions
        \/ /\ ~Locked(e)
           /\ job[e].claimed_by # w
           /\ pc' = [pc EXCEPT ![w] = "fail"]
           /\ UNCHANGED <<call, disruptions>>
        \/ /\ pc' = [pc EXCEPT ![w] = "fail"]
           /\ Disrupt
           /\ UNCHANGED call
     /\ UNCHANGED <<sessionVars, job, batch, at, shutdown, signals>>

Awaits(w, e) == pc[w] = "await" /\ at[w] = e

\* The rest of the function: the update, the commit, and the answer if anybody waits.
CommitCompletion(e) ==
  /\ Locked(e)
  /\ job' = Completed(e)
  /\ call' = [call EXCEPT ![e] = NoCall]
  /\ \/ \E w \in Workers : Awaits(w, e) /\ NextEvent(w)
     \/ ~(\E w \in Workers : Awaits(w, e)) /\ UNCHANGED <<pc, batch, at>>
  /\ UNCHANGED <<sessionVars, shutdown, disruptions, signals>>

\* The database fails the transaction.
AbortCompletion(e) ==
  /\ Locked(e)
  /\ call' = [call EXCEPT ![e] = NoCall]
  /\ pc' = [w \in Workers |-> IF Awaits(w, e) THEN "fail" ELSE pc[w]]
  /\ Disrupt
  /\ UNCHANGED <<sessionVars, job, batch, at, shutdown, signals>>

\* The answer is lost or late; the transaction goes on without its caller.
LoseAnswer(w) ==
  /\ pc[w] = "await"
  /\ pc' = [pc EXCEPT ![w] = "fail"]
  /\ Disrupt
  /\ UNCHANGED <<sessionVars, job, call, batch, at, shutdown, signals>>

\* The failure RPC.  If it raises or is lost, drainOutbox throws.
fail_outbox_event(w) ==
  LET e == at[w]
  IN /\ pc[w] = "fail"
     /\ \/ /\ ~Locked(e)
           /\ job[e].claimed_by = w
           /\ job' = Failed(w, e)
           /\ NextEvent(w)
           /\ UNCHANGED disruptions
        \/ /\ ~Locked(e)
           /\ job[e].claimed_by # w
           /\ AbandonBatch(w)
           /\ UNCHANGED <<job, disruptions>>
        \/ /\ (job' = job \/ (~Locked(e) /\ job' = Failed(w, e)))
           /\ AbandonBatch(w)
           /\ Disrupt
     /\ UNCHANGED <<sessionVars, call, shutdown, signals>>

\* sleep(backoff) after drainOutbox threw.
Backoff(w) ==
  /\ pc[w] = "backoff"
  /\ pc' = [pc EXCEPT ![w] = "claim"]
  /\ UNCHANGED <<sessionVars, job, call, batch, at, shutdown, disruptions, signals>>

\* SIGTERM or SIGINT: the batch in flight is finished first.
requestShutdown(w) ==
  /\ shutdown[w] = "running"
  /\ shutdown' = [shutdown EXCEPT ![w] = "draining"]
  /\ signals < MaxSignals
  /\ signals' = signals + 1
  /\ UNCHANGED <<sessionVars, job, call, pc, batch, at, disruptions>>

\* Mutant: the process exits on the signal, in the middle of its batch.
ExitMidBatch(w) ==
  /\ pc[w] # "exited"
  /\ shutdown[w] = "draining"
  /\ shutdown' = [shutdown EXCEPT ![w] = "stopped"]
  /\ pc' = [pc EXCEPT ![w] = "exited"]
  /\ batch' = [batch EXCEPT ![w] = {}]
  /\ at' = [at EXCEPT ![w] = NoEvent]
  /\ UNCHANGED <<sessionVars, job, call, disruptions, signals>>

\* The loop sees shouldStop between two drains.
finishBatch(w) ==
  /\ pc[w] = "claim"
  /\ shutdown[w] = "draining"
  /\ shutdown' = [shutdown EXCEPT ![w] = "stopped"]
  /\ pc' = [pc EXCEPT ![w] = "exited"]
  /\ UNCHANGED <<sessionVars, job, call, batch, at, disruptions, signals>>

\* The process dies between two steps; its memory is gone, its leases are not.
Crash(w) ==
  /\ pc[w] # "exited"
  /\ pc' = [pc EXCEPT ![w] = "exited"]
  /\ shutdown' = [shutdown EXCEPT ![w] = "crashed"]
  /\ batch' = [batch EXCEPT ![w] = {}]
  /\ at' = [at EXCEPT ![w] = NoEvent]
  /\ Disrupt
  /\ UNCHANGED <<sessionVars, job, call, signals>>

\* The supervisor starts the process again, under the same id (a container
\* keeps its hostname and pid); another id is another member of Workers.
Restart(w) ==
  /\ pc[w] = "exited"
  /\ pc' = [pc EXCEPT ![w] = "claim"]
  /\ shutdown' = [shutdown EXCEPT ![w] = "running"]
  /\ UNCHANGED <<sessionVars, job, call, batch, at, disruptions, signals>>

\* Somebody still works on the event on the strength of its present lease.
Working(e) ==
  \E w \in Workers : job[e].claimed_by = w /\ e \in batch[w]

\* A lease nobody works under any more passes lease_expiry.
LeaseLapses(e) ==
  /\ job[e].lease = "held"
  /\ ~Working(e)
  /\ job' = [job EXCEPT ![e].lease = "expired"]
  /\ UNCHANGED <<sessionVars, call, pc, batch, at, shutdown, disruptions, signals>>

\* The batch takes longer than p_lease_seconds.
LeaseOverrun(e) ==
  /\ job[e].lease = "held"
  /\ Working(e)
  /\ job' = [job EXCEPT ![e].lease = "expired"]
  /\ Disrupt
  /\ UNCHANGED <<sessionVars, call, pc, batch, at, shutdown, signals>>
-----------------------------------------------------------------------------
Init ==
  /\ SessionInit
  /\ job = [e \in Events |-> NewJob]
  /\ call = [e \in Events |-> NoCall]
  /\ pc = [w \in Workers |-> "claim"]
  /\ batch = [w \in Workers |-> {}]
  /\ at = [w \in Workers |-> NoEvent]
  /\ shutdown = [w \in Workers |-> "running"]
  /\ disruptions = 0
  /\ signals = 0

Progress(w) ==
  \/ claim_outbox_events(w)
  \/ \E e \in batch[w] : Handle(w, e)
  \/ complete_outbox_event(w)
  \/ fail_outbox_event(w)
  \/ Backoff(w)
  \/ finishBatch(w)

Next ==
  \/ SessionNext /\ UNCHANGED workerVars
  \/ \E w \in Workers : Progress(w) \/ requestShutdown(w) \/ Crash(w) \/ Restart(w) \/ LoseAnswer(w)
  \/ \E e \in Events : \/ CommitCompletion(e) \/ AbortCompletion(e)
                       \/ LeaseLapses(e) \/ LeaseOverrun(e)

Spec == Init /\ [][Next]_vars

\* Processes that are up run, the database ends transactions and clocks advance.
\* Operators owe nothing, nor does anybody have to restart a process.
Fairness ==
  /\ \A w \in Workers : WF_vars(Progress(w))
  /\ \A e \in Events : WF_vars(CommitCompletion(e)) /\ WF_vars(LeaseLapses(e))

FairSpec == Spec /\ Fairness

-----------------------------------------------------------------------------
JobRow == [status : {"PENDING", "DONE", "FAILED"}, claimed_by : Workers \cup {NoWorker},
           lease : {"none", "held", "expired"}, attempts : Nat]
Call == [open : BOOLEAN, current : BOOLEAN, after : Nat]

\* Type invariant of the worker side; a worker past its claim has an event.
TypeOK ==
  /\ SessionTypeOK
  /\ Len(outbox) = Len(log)
  /\ Len(log) <= MaxTransitions
  /\ job \in [Events -> JobRow]
  /\ call \in [Events -> Call]
  /\ \A e \in Events : call[e].open => e \in DOMAIN outbox /\ call[e].after <= Len(log)
  /\ pc \in [Workers -> {"claim", "handle", "complete", "await", "fail", "backoff", "exited"}]
  /\ batch \in [Workers -> SUBSET Events]
  /\ at \in [Workers -> Events \cup {NoEvent}]
  /\ \A w \in Workers :
       /\ batch[w] \subseteq DOMAIN outbox
       /\ pc[w] \in {"handle", "complete", "await", "fail"} <=> batch[w] # {}
       /\ pc[w] \in {"complete", "await", "fail"} => at[w] \in batch[w]
  /\ shutdown \in [Workers -> {"running", "draining", "stopped", "crashed"}]
  /\ disruptions \in Nat
  /\ signals \in Nat

\* An event is marked DONE only if its session is in the state the event asked for, or
\* left it after the completing call had read its token: a worker that stalled through
\* another operator's transition cannot report success (complete_outbox_event).
DoneWasCurrent ==
  [][\A e \in DOMAIN outbox :
       job[e].status # "DONE" /\ job'[e].status = "DONE" =>
         \/ outbox[e].target = Session(e).state
         \/ \E i \in DOMAIN log : i > call[e].after /\ log[i].session = outbox[e].session]_vars

\* Two workers have the same event in hand only after a disruption: leases
\* keep the batches of healthy workers disjoint.
HealthyBatchesDisjoint ==
  disruptions = 0 => \A v, w \in Workers : v # w => batch[v] \cap batch[w] = {}

\* A process that stops on a signal has reported every event it claimed:
\* "the in-flight batch still finishes and reports" (outbox-worker-loop.ts).
StopReportsBatch ==
  disruptions = 0 =>
    \A w \in Workers, e \in Events :
      shutdown[w] = "stopped" /\ job[e].claimed_by = w => job[e].status # "PENDING"

\* Without a disruption an outcome is final: DONE and FAILED events stay so.
HealthyOutcomeIsFinal ==
  [][disruptions' = 0 =>
       \A e \in Events : job[e].status # "PENDING" => job'[e].status = job[e].status]_vars

\* Retries stop: claims beyond MaxAttempts are each paid for by a disruption.
RetriesBounded ==
  \A e \in Events : job[e].attempts <= MaxAttempts + disruptions

\* Every event is eventually DONE or FAILED for good, whatever crashed on the
\* way, as long as some worker is up from some point on: "a crashed worker must not
\* strand infrastructure work forever".
EveryEventSettles ==
  <>[](\E w \in Workers : pc[w] # "exited") =>
    \A e \in Events : (e \in DOMAIN outbox) ~> [](job[e].status # "PENDING")

\* Why undisrupted workers stay out of each other's way: the pending rows a
\* worker has claimed are exactly its batch, their leases hold, and an open
\* completion has its caller waiting.
ClaimsMatchBatches ==
  disruptions = 0 =>
    /\ \A w \in Workers, e \in Events :
         /\ e \in batch[w] <=> job[e].claimed_by = w /\ job[e].status = "PENDING"
         /\ e \in batch[w] => job[e].lease = "held"
    /\ \A e \in Events : Locked(e) => \E w \in Workers : Awaits(w, e)

-----------------------------------------------------------------------------
(* Statements of the repository that the code does not keep.               *)

\* "stale fencing token: session advanced past this event" is how an event fails whose
\* session has moved on; so DONE means that the session is where the event sent it.
DoneMatchesSession ==
  [][\A e \in DOMAIN outbox :
       job[e].status # "DONE" /\ job'[e].status = "DONE" =>
         outbox[e].target = Session(e).state]_vars

\* A recorded outcome is never taken back.
OutcomeIsFinal ==
  [][\A e \in Events : job[e].status # "PENDING" => job'[e].status = job[e].status]_vars

\* No event is attempted more than MaxAttempts times.
AttemptsCapped == \A e \in Events : job[e].attempts <= MaxAttempts

\* A handler runs only for an event whose token is still the session's.
ActsOnlyWhileCurrent ==
  [][\A w \in Workers : pc[w] = "handle" /\ pc'[w] = "complete" => Current(at'[w])]_vars

\* Every event the write path produces has a handler.
EveryTargetHandled == \A e \in DOMAIN outbox : outbox[e].target \in HandledTargets
=============================================================================
