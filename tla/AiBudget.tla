------------------------------ MODULE AiBudget ------------------------------
(***************************************************************************)
(* The per-user AI budget: consume_ai_quota of                             *)
(* 20260805090000_phase2_ai_usage_audit.sql, called by consumeAiBudget     *)
(* (lib/server/ai-budget.ts).                                              *)
(*                                                                         *)
(* The upserts lock the caller's counter rows, and calls that share a rate *)
(* window share the quota window, so calls that meet run one after the     *)
(* other: one action.  But now() is the time a call's transaction BEGAN;   *)
(* a call that waited, for a lock or a connection, counts in the window it *)
(* began in while others have moved on and pruned.  MaxDelay is how long   *)
(* the statement timeout lets it wait.                                     *)
(***************************************************************************)
EXTENDS Integers, FiniteSets

CONSTANTS
  Users,
  Calls,        \* slots for calls in flight
  QuotaLimit, QuotaWindow, RateLimit, RateWindow,   \* AI_BUDGET_DEFAULTS
  MaxDelay,     \* longest a call is in flight
  MaxTime       \* bound: the clock

ASSUME BudgetAssumption ==
  /\ QuotaLimit \in Nat /\ RateLimit \in Nat
  /\ RateWindow \in Nat \ {0}
  /\ QuotaWindow \in Nat \ {0}
  /\ RateWindow <= QuotaWindow
  /\ MaxDelay \in 0..RateWindow
  /\ MaxTime \in Nat
  /\ "none" \notin Users

VARIABLES
  clock,
  call,     \* per slot: the caller and its now(), or Idle
  usage,    \* ai_request_usage: rows <<user, kind, window_start>> -> used
  granted,  \* history: requests allowed per user, kind and window
  answer    \* the last decision: user, now and denial ("none": allowed)

vars == <<clock, call, usage, granted, answer>>

Kinds == {"QUOTA", "RATE_LIMIT"}
Window(kind) == IF kind = "QUOTA" THEN QuotaWindow ELSE RateWindow
Limit(kind) == IF kind = "QUOTA" THEN QuotaLimit ELSE RateLimit

Nobody == "none"
Idle == [user |-> Nobody, now |-> 0]
Time == 0..MaxTime
Key(u, kind, start) == <<u, kind, start>>
Keys == Users \X Kinds \X Time
-----------------------------------------------------------------------------
\* floor(epoch / window) * window
WindowStart(kind, now) == (now \div Window(kind)) * Window(kind)

\* The counter as the upsert returns it: a missing row counts from zero.
UsedBefore(u, kind, now) ==
  LET row == Key(u, kind, WindowStart(kind, now))
  IN IF row \in DOMAIN usage THEN usage[row] ELSE 0

\* The rows both upserts touch.
Touched(u, now) == {Key(u, kind, WindowStart(kind, now)) : kind \in Kinds}

\* The table after the upserts and, when `spend` is 1, the two increments.
Counted(u, now, spend) ==
  [row \in DOMAIN usage \cup Touched(u, now) |->
     (IF row \in DOMAIN usage THEN usage[row] ELSE 0)
       + (IF row \in Touched(u, now) THEN spend ELSE 0)]

\* Mutant: counters are dropped after one window.
StaleAfterOne(u, now) ==
  {row \in Keys : row[1] = u /\ row[3] < now - Window(row[2])}

\* Rows of the caller older than two windows of their kind.
Stale(u, now) ==
  {row \in Keys : row[1] = u /\ row[3] < now - 2 * Window(row[2])}

Pruned(table, u, now) == [row \in DOMAIN table \ Stale(u, now) |-> table[row]]

\* Mutant: the last unit of a limit is refused.
DenialTooEarly(u, now) ==
  IF UsedBefore(u, "RATE_LIMIT", now) + 1 >= RateLimit THEN "RATE_LIMITED"
  ELSE IF UsedBefore(u, "QUOTA", now) + 1 >= QuotaLimit THEN "QUOTA_EXHAUSTED"
  ELSE "none"

\* The rate limit is tested before the quota.
Denial(u, now) ==
  IF UsedBefore(u, "RATE_LIMIT", now) >= RateLimit THEN "RATE_LIMITED"
  ELSE IF UsedBefore(u, "QUOTA", now) >= QuotaLimit THEN "QUOTA_EXHAUSTED"
  ELSE "none"
-----------------------------------------------------------------------------
Init ==
  /\ clock = 0
  /\ call = [c \in Calls |-> Idle]
  /\ usage = [row \in {} |-> 0]
  /\ granted = [row \in Keys |-> 0]
  /\ answer = [user |-> Nobody, now |-> 0, denial |-> "none"]

\* A request's transaction begins.
Begin(c, u) ==
  /\ call[c] = Idle
  /\ call' = [call EXCEPT ![c] = [user |-> u, now |-> clock]]
  /\ UNCHANGED <<clock, usage, granted, answer>>

\* Mutant: a refused request is charged like an allowed one.
ChargeRefused(c) ==
  LET u == call[c].user
      now == call[c].now
  IN /\ call[c] # Idle
     /\ usage' = Pruned(Counted(u, now, 1), u, now)
     /\ granted' = [row \in Keys |->
          granted[row] + (IF Denial(u, now) = "none" /\ row \in Touched(u, now) THEN 1 ELSE 0)]
     /\ answer' = [user |-> u, now |-> now, denial |-> Denial(u, now)]
     /\ call' = [call EXCEPT ![c] = Idle]
     /\ UNCHANGED clock

\* The body of the function, with the caller's rows locked.
consume_ai_quota(c) ==
  LET u == call[c].user
      now == call[c].now
  IN /\ call[c] # Idle
     /\ \/ /\ Denial(u, now) # "none"
           /\ usage' = Counted(u, now, 0)
           /\ UNCHANGED granted
        \/ /\ Denial(u, now) = "none"
           /\ usage' = Pruned(Counted(u, now, 1), u, now)
           /\ granted' = [row \in Keys |->
                granted[row] + (IF row \in Touched(u, now) THEN 1 ELSE 0)]
     /\ answer' = [user |-> u, now |-> now, denial |-> Denial(u, now)]
     /\ call' = [call EXCEPT ![c] = Idle]
     /\ UNCHANGED clock

Tick ==
  /\ clock < MaxTime
  /\ \A c \in Calls : call[c] # Idle => clock < call[c].now + MaxDelay
  /\ clock' = clock + 1
  /\ UNCHANGED <<call, usage, granted, answer>>

Next ==
  \/ \E c \in Calls : consume_ai_quota(c) \/ \E u \in Users : Begin(c, u)
  \/ Tick

Spec == Init /\ [][Next]_vars
-----------------------------------------------------------------------------
\* Type invariant; rows exist for window starts only.
TypeOK ==
  /\ clock \in Time
  /\ call \in [Calls -> {Idle} \cup [user : Users, now : Time]]
  /\ DOMAIN usage \subseteq Keys
  /\ \A row \in DOMAIN usage : usage[row] \in Nat
  /\ granted \in [Keys -> Nat]
  /\ answer \in [user : Users \cup {Nobody}, now : Time,
                 denial : {"none", "RATE_LIMITED", "QUOTA_EXHAUSTED"}]

\* However calls of a user overlap, wait across a window boundary and prune
\* each other's rows, no window of either kind ever grants more than its
\* limit ("two concurrent requests cannot both take the last unit").
WithinLimits ==
  \A row \in Keys : granted[row] <= Limit(row[2])

\* A counter row says what was granted in its window, and a missing row means
\* nothing was granted there or nobody can still begin or be in flight in it.
\* (The inductive strengthening of WithinLimits.)
CountersMatchGrants ==
  \A row \in Keys :
    IF row \in DOMAIN usage
    THEN usage[row] = granted[row]
    ELSE granted[row] = 0 \/ row[3] < clock - 2 * Window(row[2])

\* A refusal is justified when it is given: the window it names was full of
\* granted requests, and no refused request spent anything.
RefusalsAreJustified ==
  [][answer' # answer =>
       /\ answer'.denial = "RATE_LIMITED" =>
            granted[Key(answer'.user, "RATE_LIMIT", WindowStart("RATE_LIMIT", answer'.now))] = RateLimit
       /\ answer'.denial = "QUOTA_EXHAUSTED" =>
            granted[Key(answer'.user, "QUOTA", WindowStart("QUOTA", answer'.now))] = QuotaLimit]_vars
-----------------------------------------------------------------------------
(* A statement of the repository that the code does not keep.              *)

\* "a bounded counter table whose old rows are pruned by the consuming RPC
\* itself": a user has at most four rows of a kind, three windows within the
\* retention and one of a call that waited.
TableBounded ==
  \A u \in Users, kind \in Kinds :
    Cardinality({row \in DOMAIN usage : row[1] = u /\ row[2] = kind}) <= 4
=============================================================================
