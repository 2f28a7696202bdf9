--------------------------- MODULE AssistantProofs ---------------------------
(***************************************************************************)
(* The assistant's server side: the AI budget that admits a request and    *)
(* the request itself.                                                     *)
(*                                                                         *)
(* The budget holds for all users, limits, windows and numbers of calls in *)
(* flight, as long as no call waits longer than a rate window.  A request  *)
(* is audited once and shown for what it was for all timeouts and answers  *)
(* of any length.                                                          *)
(***************************************************************************)
EXTENDS AiBudget, AssistantStream, TLAPS

\* A window contains the instant it was computed from.
LEMMA WindowContainsNow ==
  ASSUME NEW kind \in Kinds, NEW now \in Time
  PROVE  /\ WindowStart(kind, now) \in Time
         /\ WindowStart(kind, now) <= now
         /\ now < WindowStart(kind, now) + Window(kind)
         /\ Window(kind) \in Nat /\ RateWindow <= Window(kind)
<1>1. Window(kind) \in Nat \ {0} /\ RateWindow <= Window(kind)
  BY BudgetAssumption DEF Window, Kinds
<1>2. \A w \in Nat \ {0} : (now \div w) * w <= now /\ now < (now \div w) * w + w /\ now \div w \in Nat
  BY BudgetAssumption DEF Time
<1> QED BY <1>1, <1>2, BudgetAssumption DEF WindowStart, Time

\* Calls in flight began no later than now and no earlier than MaxDelay ago.
CallsAreRecent ==
  \A c \in Calls : call[c] # Idle => call[c].now <= clock /\ clock <= call[c].now + MaxDelay

BudgetInv == TypeOK /\ CallsAreRecent /\ CountersMatchGrants /\ WithinLimits

\* The rows a call touches are rows of the table, and none that granted
\* something has been pruned while the call was waiting.
LEMMA TouchedRows ==
  ASSUME BudgetInv, NEW u \in Users, NEW now \in Time, now <= clock, clock <= now + MaxDelay,
         NEW row \in Touched(u, now)
  PROVE  /\ row \in Keys
         /\ row = Key(u, row[2], WindowStart(row[2], now))
         /\ row \notin DOMAIN usage => granted[row] = 0
         /\ UsedBefore(u, row[2], now) = granted[row]
<1>1. PICK kind \in Kinds : row = Key(u, kind, WindowStart(kind, now))
  BY DEF Touched
<1>2. /\ row[1] = u /\ row[2] = kind /\ row[3] = WindowStart(kind, now)
      /\ row \in Keys
  BY <1>1, WindowContainsNow DEF Key, Keys
<1>3. row \notin DOMAIN usage => granted[row] = 0
  <2>1. ~(row[3] < clock - 2 * Window(kind))
    BY <1>2, WindowContainsNow, BudgetAssumption DEF Time, BudgetInv, TypeOK
  <2> QED BY <1>2, <2>1 DEF BudgetInv, CountersMatchGrants
<1>4. UsedBefore(u, kind, now) = granted[row]
  BY <1>1, <1>2, <1>3 DEF UsedBefore, BudgetInv, CountersMatchGrants
<1> QED BY <1>1, <1>2, <1>3, <1>4

\* A call's decision keeps the counters in step with the grants.
LEMMA ConsumeKeepsInv ==
  ASSUME BudgetInv, NEW c \in Calls, consume_ai_quota(c)
  PROVE  BudgetInv'
<1> DEFINE u == call[c].user
           now == call[c].now
<1>1. /\ u \in Users /\ now \in Time /\ now <= clock /\ clock <= now + MaxDelay
      /\ clock \in Time /\ clock' = clock
  BY DEF consume_ai_quota, BudgetInv, TypeOK, CallsAreRecent
<1>2. Touched(u, now) \subseteq Keys
  BY <1>1, TouchedRows
<1>3. /\ DOMAIN usage \subseteq Keys /\ granted \in [Keys -> Nat]
      /\ \A row \in DOMAIN usage : usage[row] \in Nat
  BY DEF BudgetInv, TypeOK
<1>4. CallsAreRecent'
  BY <1>1 DEF consume_ai_quota, CallsAreRecent, BudgetInv, TypeOK, Idle
<1>5. /\ call' \in [Calls -> {Idle} \cup [user : Users, now : Time]]
      /\ answer' \in [user : Users \cup {Nobody}, now : Time,
                      denial : {"none", "RATE_LIMITED", "QUOTA_EXHAUSTED"}]
  BY <1>1 DEF consume_ai_quota, BudgetInv, TypeOK, Denial
<1>6. CASE Denial(u, now) # "none"
  <2>1. usage' = Counted(u, now, 0) /\ granted' = granted
    BY <1>6 DEF consume_ai_quota
  <2>2. /\ DOMAIN usage' = DOMAIN usage \cup Touched(u, now)
        /\ \A row \in DOMAIN usage' :
             usage'[row] = IF row \in DOMAIN usage THEN usage[row] ELSE 0
    BY <2>1, <1>3 DEF Counted
  <2>3. \A row \in Touched(u, now) : row \notin DOMAIN usage => granted[row] = 0
    BY <1>1, TouchedRows
  <2>4. CountersMatchGrants'
    BY <1>1, <1>2, <1>3, <2>1, <2>2, <2>3 DEF CountersMatchGrants, BudgetInv
  <2>5. TypeOK'
    BY <1>1, <1>2, <1>3, <1>5, <2>1, <2>2 DEF TypeOK
  <2>6. WithinLimits'
    BY <2>1 DEF BudgetInv, WithinLimits
  <2> QED BY <1>4, <2>4, <2>5, <2>6 DEF BudgetInv
<1>7. CASE Denial(u, now) = "none"
  <2>1. /\ usage' = Pruned(Counted(u, now, 1), u, now)
        /\ granted' = [row \in Keys |->
             granted[row] + (IF row \in Touched(u, now) THEN 1 ELSE 0)]
    BY <1>7 DEF consume_ai_quota
  <2>2. /\ DOMAIN usage' = (DOMAIN usage \cup Touched(u, now)) \ Stale(u, now)
        /\ \A row \in DOMAIN usage' :
             usage'[row] = (IF row \in DOMAIN usage THEN usage[row] ELSE 0)
                             + (IF row \in Touched(u, now) THEN 1 ELSE 0)
    BY <2>1 DEF Pruned, Counted
  <2>3. \A row \in Touched(u, now) : row \notin DOMAIN usage => granted[row] = 0
    BY <1>1, TouchedRows
  <2>4. \A row \in Stale(u, now) : row \in Keys /\ row[3] < clock - 2 * Window(row[2])
    <3>1. \A row \in Keys : row[3] \in Time /\ Window(row[2]) \in Nat
      BY BudgetAssumption DEF Keys, Kinds, Window
    <3> QED BY <1>1, <3>1, BudgetAssumption DEF Stale, Time
  <2>5. ASSUME NEW row \in Keys
        PROVE  IF row \in DOMAIN usage' THEN usage'[row] = granted'[row]
               ELSE granted'[row] = 0 \/ row[3] < clock - 2 * Window(row[2])
    <3>1. granted'[row] = granted[row] + (IF row \in Touched(u, now) THEN 1 ELSE 0)
      BY <2>1
    <3>2. IF row \in DOMAIN usage THEN usage[row] = granted[row]
          ELSE granted[row] = 0 \/ row[3] < clock - 2 * Window(row[2])
      BY DEF BudgetInv, CountersMatchGrants
    <3>3. CASE row \in Stale(u, now)
      BY <2>2, <2>4, <3>3
    <3>4. CASE row \notin Stale(u, now) /\ row \in Touched(u, now)
      BY <1>3, <2>2, <2>3, <3>1, <3>2, <3>4
    <3>5. CASE row \notin Stale(u, now) /\ row \notin Touched(u, now)
      BY <1>3, <2>2, <3>1, <3>2, <3>5
    <3> QED BY <3>3, <3>4, <3>5
  <2>6. CountersMatchGrants'
    BY <1>1, <2>5 DEF CountersMatchGrants
  <2>7. TypeOK'
    <3>1. DOMAIN usage' \subseteq Keys /\ \A row \in DOMAIN usage' : usage'[row] \in Nat
      BY <1>2, <1>3, <2>2
    <3>2. granted' \in [Keys -> Nat]
      BY <1>3, <2>1
    <3> QED BY <1>1, <1>5, <3>1, <3>2 DEF TypeOK
  <2>8. \A row \in Touched(u, now) : granted[row] < Limit(row[2])
    <3>1. ASSUME NEW row \in Touched(u, now)
          PROVE  granted[row] < Limit(row[2])
      <4>1. row[2] \in Kinds /\ granted[row] \in Nat /\ UsedBefore(u, row[2], now) = granted[row]
        BY <1>1, <1>2, <1>3, TouchedRows DEF Keys
      <4>2. UsedBefore(u, "RATE_LIMIT", now) < RateLimit \/ row[2] = "QUOTA"
        BY <1>7, <4>1, BudgetAssumption DEF Denial, Kinds
      <4>3. UsedBefore(u, "QUOTA", now) < QuotaLimit \/ row[2] = "RATE_LIMIT"
        BY <1>7, <4>1, BudgetAssumption DEF Denial, Kinds
      <4> QED BY <4>1, <4>2, <4>3 DEF Limit, Kinds
    <3> QED BY <3>1
  <2>9. WithinLimits'
    <3>1. \A row \in Keys : Limit(row[2]) \in Nat
      BY BudgetAssumption DEF Limit
    <3> QED BY <1>3, <2>1, <2>8, <3>1 DEF BudgetInv, WithinLimits
  <2> QED BY <1>4, <2>6, <2>7, <2>9 DEF BudgetInv
<1> QED BY <1>6, <1>7

\* The inductive invariant of the budget.
THEOREM BudgetInvariant == Spec => []BudgetInv
<1>1. Init => BudgetInv
  BY BudgetAssumption DEF Init, BudgetInv, TypeOK, CallsAreRecent, CountersMatchGrants,
                          WithinLimits, Time, Limit
<1>2. BudgetInv /\ [Next]_vars => BudgetInv'
  <2> SUFFICES ASSUME BudgetInv, [Next]_vars
               PROVE  BudgetInv'
    OBVIOUS
  <2>1. ASSUME NEW c \in Calls, consume_ai_quota(c)
        PROVE  BudgetInv'
    BY <2>1, ConsumeKeepsInv
  <2>2. ASSUME NEW c \in Calls, NEW u \in Users, Begin(c, u)
        PROVE  BudgetInv'
    BY <2>2, BudgetAssumption DEF Begin, BudgetInv, TypeOK, CallsAreRecent, CountersMatchGrants,
                                  WithinLimits, Time, Idle
  <2>3. CASE Tick
    <3>1. clock \in Nat /\ clock' = clock + 1 /\ clock' \in Time
      BY <2>3, BudgetAssumption DEF Tick, BudgetInv, TypeOK, Time
    <3>2. CountersMatchGrants'
      <4>1. \A row \in Keys : row[3] \in Time /\ Window(row[2]) \in Nat
        BY BudgetAssumption DEF Keys, Window
      <4> QED BY <2>3, <3>1, <4>1, BudgetAssumption DEF Tick, BudgetInv, CountersMatchGrants, Time
    <3>3. CallsAreRecent'
      BY <2>3, <3>1, BudgetAssumption DEF Tick, BudgetInv, TypeOK, CallsAreRecent, Time, Idle
    <3> QED BY <2>3, <3>1, <3>2, <3>3 DEF Tick, BudgetInv, TypeOK, WithinLimits
  <2>4. CASE UNCHANGED vars
    BY <2>4 DEF vars, BudgetInv, TypeOK, CallsAreRecent, CountersMatchGrants, WithinLimits
  <2> QED BY <2>1, <2>2, <2>3, <2>4 DEF Next
<1> QED BY <1>1, <1>2, PTL DEF Spec

\* No window of any user ever grants more than its limit.
THEOREM LimitsHold == Spec => []WithinLimits
  BY BudgetInvariant, PTL DEF BudgetInv

\* The counters always agree with what was granted.
THEOREM CountersMatch == Spec => []CountersMatchGrants
  BY BudgetInvariant, PTL DEF BudgetInv

\* The types of the budget.
THEOREM BudgetTypeCorrect == Spec => []TypeOK
  BY BudgetInvariant, PTL DEF BudgetInv

\* A counter that refuses a call is full of granted requests.
LEMMA RefusedWindowIsFull ==
  ASSUME BudgetInv, NEW c \in Calls, consume_ai_quota(c), NEW kind \in Kinds,
         UsedBefore(call[c].user, kind, call[c].now) >= Limit(kind)
  PROVE  granted[Key(call[c].user, kind, WindowStart(kind, call[c].now))] = Limit(kind)
<1> DEFINE u == call[c].user
           now == call[c].now
           row == Key(u, kind, WindowStart(kind, now))
<1>1. u \in Users /\ now \in Time /\ now <= clock /\ clock <= now + MaxDelay
  BY DEF consume_ai_quota, BudgetInv, TypeOK, CallsAreRecent
<1>2. row \in Touched(u, now) /\ row[2] = kind
  BY DEF Touched, Key
<1>3. row \in Keys /\ granted[row] = UsedBefore(u, kind, now)
  BY <1>1, <1>2, TouchedRows
<1>4. granted[row] \in Nat /\ granted[row] <= Limit(kind) /\ Limit(kind) \in Nat
  BY <1>2, <1>3, BudgetAssumption DEF BudgetInv, TypeOK, WithinLimits, Limit
<1> QED BY <1>3, <1>4

\* A call is refused only when the window the denial names is full of granted
\* requests: refused ones spend nothing (consume_ai_quota).
THEOREM RefusalsHold == Spec => RefusalsAreJustified
<1> DEFINE Justified ==
      answer' # answer =>
        /\ answer'.denial = "RATE_LIMITED" =>
             granted[Key(answer'.user, "RATE_LIMIT", WindowStart("RATE_LIMIT", answer'.now))] = RateLimit
        /\ answer'.denial = "QUOTA_EXHAUSTED" =>
             granted[Key(answer'.user, "QUOTA", WindowStart("QUOTA", answer'.now))] = QuotaLimit
<1>1. ASSUME BudgetInv, NEW c \in Calls, consume_ai_quota(c)
      PROVE  Justified
  <2> DEFINE u == call[c].user
             now == call[c].now
  <2>1. answer'.user = u /\ answer'.now = now /\ answer'.denial = Denial(u, now)
    BY <1>1 DEF consume_ai_quota
  <2>2. Denial(u, now) = "RATE_LIMITED" => UsedBefore(u, "RATE_LIMIT", now) >= Limit("RATE_LIMIT")
    BY DEF Denial, Limit
  <2>3. Denial(u, now) = "QUOTA_EXHAUSTED" => UsedBefore(u, "QUOTA", now) >= Limit("QUOTA")
    BY DEF Denial, Limit
  <2>4. Denial(u, now) = "RATE_LIMITED" => granted[Key(u, "RATE_LIMIT", WindowStart("RATE_LIMIT", now))] = RateLimit
    BY <1>1, <2>2, RefusedWindowIsFull DEF Kinds, Limit
  <2>5. Denial(u, now) = "QUOTA_EXHAUSTED" => granted[Key(u, "QUOTA", WindowStart("QUOTA", now))] = QuotaLimit
    BY <1>1, <2>3, RefusedWindowIsFull DEF Kinds, Limit
  <2> QED BY <2>1, <2>4, <2>5
<1>2. BudgetInv /\ [Next]_vars => [Justified]_vars
  BY <1>1 DEF Next, vars, Begin, Tick
<1> QED BY <1>2, BudgetInvariant, PTL DEF RefusalsAreJustified, Spec
-----------------------------------------------------------------------------
\* The steps before the response starts, and those with an open stream.
Checks == {"guard", "parse", "budget", "plane"}
Streaming == {"connect", "stream"}

\* What the route has decided, written to the log and answered, at each step.
RouteInv ==
  /\ route \in Checks => status = 0 /\ sent = <<>>
  /\ route \in Streaming \cup {"finally", "killed"} => status = 200
  /\ route # "closed" => audit = <<>>
  /\ route = "closed" => audit = IF CanAudit THEN <<outcome>> ELSE <<>>
  /\ route \in Checks \cup Streaming \cup {"killed"} => outcome = "ALLOWED"
  /\ route = "finally" => outcome \in {"ALLOWED", "FAILED"}

\* What the status of the response says of the outcome.
StatusInv ==
  /\ route = "closed" => status # 0
  /\ status = 200 => outcome \in {"ALLOWED", "FAILED", "PLANE_OFF"}
  /\ status = 400 => outcome = "FAILED"
  /\ status = 500 => outcome = "FAILED" \/ ~Acknowledged
  /\ status \in {403, 429} => outcome \in {"FORBIDDEN", "RATE_LIMITED", "QUOTA_EXHAUSTED"} /\ CanAudit
  /\ status = 200 /\ outcome = "PLANE_OFF" => CanAudit
  /\ status \notin {0, 200} => route = "closed"

\* What a frame says of the outcome: an error frame of a failure, a closing
\* done frame of an answer or of a stopped plane; and a failure that the
\* browser can still read about has a terminal frame.
FramesInv ==
  /\ outcome = "PLANE_OFF" => sent \in {<<>>, <<"eks_off", "done">>}
  /\ \A i \in 1..Len(sent) :
       /\ sent[i] = "streaming" => i = 1
       /\ sent[i] = "eks_off" => outcome = "PLANE_OFF"
       /\ sent[i] = "error" => outcome = "FAILED"
       /\ sent[i] = "done" => outcome \in {"ALLOWED", "PLANE_OFF"} /\ route \in {"finally", "closed"}
  /\ status = 200 /\ outcome \in {"FAILED", "PLANE_OFF"} /\ ~Gone =>
       \E i \in 1..Len(sent) : sent[i] \in Terminal

\* What the turn says of the frames that were read and of the outcome.
TurnInv ==
  /\ client = "waiting" => read = 0 /\ turn = "streaming"
  /\ client = "reading" => status = 200
  /\ turn = "streaming" => \A i \in 1..read : sent[i] \notin Terminal \cup {"done"}
  /\ turn = "complete" =>
       /\ outcome = "ALLOWED" /\ route \in {"finally", "closed"}
       /\ \A i \in 1..read : sent[i] \notin Terminal
  /\ turn = "error" => broken \/ outcome = "FAILED" \/ (status = 500 /\ ~Acknowledged)
  /\ turn = "unavailable" => outcome = "PLANE_OFF" /\ status = 200
  /\ turn = "policy_blocked" => status \in {200, 403, 429} /\ outcome # "PLANE_OFF"
  /\ client = "done" /\ turn # "timeout" => route = "closed" \/ (turn = "error" /\ broken)

StreamInv == StreamTypeOK /\ RouteInv /\ StatusInv /\ FramesInv /\ TurnInv

\* The steps of the route, each in one phase.
LEMMA Phases ==
  ASSUME StreamTypeOK
  PROVE  /\ route \in Checks \cup Streaming \cup {"finally", "closed", "killed"}
         /\ Frames = {"streaming", "token", "done", "quota", "error", "timeout", "policy_blocked", "eks_off"}
         /\ Terminal = {"error", "timeout", "policy_blocked", "eks_off"}
BY DEF StreamTypeOK, Checks, Streaming, Ended, Frames, Terminal

\* What is read of a stream stays what it is when frames are added.
LEMMA AddedFrames ==
  ASSUME NEW s \in Seq(Frames), NEW f \in Seq(Frames)
  PROVE  /\ s \o f \in Seq(Frames)
         /\ Len(s \o f) = Len(s) + Len(f)
         /\ Len(s) \in Nat /\ Len(f) \in Nat
         /\ \A i \in 1..Len(s) : (s \o f)[i] = s[i]
         /\ \A i \in 1..Len(f) : (s \o f)[Len(s) + i] = f[i]
         /\ \A i \in 1..Len(s \o f) :
              \/ i \in 1..Len(s)
              \/ \E j \in 1..Len(f) : i = Len(s) + j
<1>1. /\ s \o f \in Seq(Frames) /\ Len(s \o f) = Len(s) + Len(f)
      /\ Len(s) \in Nat /\ Len(f) \in Nat
  OBVIOUS
<1>2. \A i \in 1..Len(s) : (s \o f)[i] = s[i]
  OBVIOUS
<1>3. \A i \in 1..Len(f) : (s \o f)[Len(s) + i] = f[i]
  OBVIOUS
<1>4. ASSUME NEW i \in 1..Len(s \o f), i \notin 1..Len(s)
      PROVE  \E j \in 1..Len(f) : i = Len(s) + j
  <2>1. i - Len(s) \in 1..Len(f) /\ i = Len(s) + (i - Len(s))
    BY <1>1, <1>4
  <2> QED BY <2>1
<1> QED BY <1>1, <1>2, <1>3, <1>4

\* The answers without a stream: outcome, status and frames.
Answered(result, code, frames) ==
  \/ result = "FORBIDDEN" /\ code = 403 /\ frames = <<"policy_blocked">>
  \/ result = "FAILED" /\ code \in {400, 500} /\ frames = <<"error">>
  \/ result = "RATE_LIMITED" /\ code = 429 /\ frames = <<"policy_blocked">>
  \/ result = "QUOTA_EXHAUSTED" /\ code = 429 /\ frames = <<"quota", "policy_blocked">>
  \/ result = "PLANE_OFF" /\ code = 200 /\ frames = <<"eks_off", "done">>

\* Such an answer says of its outcome only what is true.
LEMMA AnswersAreTrue ==
  ASSUME NEW result, NEW code, NEW frames, Answered(result, code, frames)
  PROVE  /\ result \in Outcomes \ {"ALLOWED"} /\ code \in {200, 400, 403, 429, 500}
         /\ code = 200 <=> result = "PLANE_OFF"
         /\ code \in {400, 500} <=> result = "FAILED"
         /\ code = 200 => frames = <<"eks_off", "done">>
         /\ frames \in Seq(Frames)
         /\ \A i \in 1..Len(frames) :
              /\ frames[i] # "streaming"
              /\ frames[i] = "eks_off" => result = "PLANE_OFF"
              /\ frames[i] = "error" => result = "FAILED"
              /\ frames[i] = "done" => result = "PLANE_OFF"
<1>1. \A s \in Frames, t \in Frames :
        /\ <<s>> \in Seq(Frames) /\ Len(<<s>>) = 1 /\ <<s>>[1] = s
        /\ <<s, t>> \in Seq(Frames) /\ Len(<<s, t>>) = 2 /\ <<s, t>>[1] = s /\ <<s, t>>[2] = t
  OBVIOUS
<1>2. {"policy_blocked", "error", "quota", "eks_off", "done"} \subseteq Frames
  BY DEF Frames, Terminal
<1>3. CASE result \in {"FORBIDDEN", "RATE_LIMITED"} /\ code \in {403, 429} /\ frames = <<"policy_blocked">>
  BY <1>1, <1>2, <1>3 DEF Outcomes
<1>4. CASE result = "FAILED" /\ code \in {400, 500} /\ frames = <<"error">>
  BY <1>1, <1>2, <1>4 DEF Outcomes
<1>5. CASE result = "QUOTA_EXHAUSTED" /\ code = 429 /\ frames = <<"quota", "policy_blocked">>
  BY <1>1, <1>2, <1>5 DEF Outcomes
<1>6. CASE result = "PLANE_OFF" /\ code = 200 /\ frames = <<"eks_off", "done">>
  BY <1>1, <1>2, <1>6 DEF Outcomes
<1> QED BY <1>3, <1>4, <1>5, <1>6 DEF Answered

\* An answer without a stream keeps the invariant: its status and its frames
\* say what its outcome is.
LEMMA AnswerKeepsInv ==
  ASSUME StreamInv, route \in Checks, NEW result, NEW code, NEW frames,
         Answered(result, code, frames), Answer(result, code, frames)
  PROVE  StreamInv'
<1>0. /\ result \in Outcomes \ {"ALLOWED"} /\ code \in {200, 400, 403, 429, 500}
      /\ code = 200 <=> result = "PLANE_OFF"
      /\ code \in {400, 500} <=> result = "FAILED"
      /\ code = 200 => frames = <<"eks_off", "done">>
      /\ frames \in Seq(Frames)
      /\ \A i \in 1..Len(frames) :
           /\ frames[i] # "streaming"
           /\ frames[i] = "eks_off" => result = "PLANE_OFF"
           /\ frames[i] = "error" => result = "FAILED"
           /\ frames[i] = "done" => result = "PLANE_OFF"
  BY AnswersAreTrue
<1>1. /\ outcome' = result /\ route' = "closed"
      /\ audit' = IF CanAudit THEN <<result>> ELSE <<>>
      /\ status' = IF Acknowledged THEN code ELSE 500
      /\ sent' = IF Acknowledged THEN frames ELSE <<>>
      /\ UNCHANGED <<role, plane, auditLog, time, deadline, chunks, finished, client, read, turn, broken>>
      /\ CanAudit' = CanAudit /\ Acknowledged' = Acknowledged /\ (Acknowledged => CanAudit)
  <2>1. audit = <<>> /\ <<>> \o <<result>> = <<result>> /\ <<>> \o <<>> = <<>>
    BY DEF StreamInv, RouteInv, Checks
  <2>2. CanAudit' = CanAudit /\ Acknowledged' = Acknowledged /\ (Acknowledged => CanAudit)
    BY DEF Answer, CanAudit, Acknowledged, environment
  <2>3. audit' = IF CanAudit THEN <<result>> ELSE <<>>
    BY <2>1 DEF Answer, recordAudit, Row
  <2> QED BY <2>2, <2>3 DEF Answer, environment, clientVars
<1>2. status = 0 /\ sent = <<>> /\ outcome = "ALLOWED"
  BY Phases DEF StreamInv, RouteInv
<1>3. read = 0 /\ client # "reading" /\ turn \notin {"complete", "policy_blocked"}
  BY <1>2 DEF StreamInv, StreamTypeOK, TurnInv, Checks
<1>4. StreamTypeOK'
  <2>1. route' \in Ended /\ status' \in {0, 200, 400, 403, 429, 500} /\ outcome' \in Outcomes
    BY <1>0, <1>1 DEF Ended
  <2>2. audit' \in Seq(Outcomes)
    BY <1>0, <1>1
  <2>3. sent' \in Seq(Frames) /\ read' \in 0..Len(sent')
    BY <1>0, <1>1, <1>3
  <2> QED BY <1>1, <2>1, <2>2, <2>3 DEF StreamInv, StreamTypeOK
<1>5. RouteInv'
  BY <1>1 DEF RouteInv, Checks, Streaming
<1>6. StatusInv'
  BY <1>0, <1>1 DEF StatusInv, Outcomes
<1>7. FramesInv'
  <2>1. CASE Acknowledged
    <3>1. sent' = frames
      BY <1>1, <2>1
    <3>2. result = "PLANE_OFF" => sent' = <<"eks_off", "done">>
      BY <1>0, <3>1
    <3>3. status' = 200 /\ outcome' \in {"FAILED", "PLANE_OFF"} => sent' = <<"eks_off", "done">>
      BY <1>0, <1>1, <2>1, <3>1
    <3>4. sent' = <<"eks_off", "done">> => 1 \in 1..Len(sent') /\ sent'[1] \in Terminal
      BY DEF Terminal
    <3> HIDE DEF Terminal
    <3> QED BY <1>0, <1>1, <3>1, <3>2, <3>3, <3>4 DEF FramesInv
  <2>2. CASE ~Acknowledged
    BY <1>1, <2>2 DEF FramesInv
  <2> QED BY <2>1, <2>2
<1>8. TurnInv'
  <2>1. turn \notin {"complete", "unavailable", "policy_blocked"} /\ (turn = "error" => broken)
    BY <1>2, <1>3 DEF StreamInv, TurnInv, Checks
  <2> QED BY <1>0, <1>1, <1>3, <2>1 DEF StreamInv, TurnInv
<1> QED BY <1>4, <1>5, <1>6, <1>7, <1>8 DEF StreamInv

\* The end of the stream keeps the invariant: a failure that somebody reads
\* about ends in a terminal frame, and done is only said of an answer.
LEMMA EndStreamKeepsInv ==
  ASSUME StreamInv, route \in Streaming, finished' \in BOOLEAN,
         NEW result \in {"ALLOWED", "FAILED"}, NEW frames \in Seq(Frames),
         EndStream(result, frames),
         \A i \in 1..Len(frames) :
           /\ frames[i] \notin {"streaming", "eks_off"}
           /\ frames[i] = "error" => result = "FAILED"
           /\ frames[i] = "done" => result = "ALLOWED",
         result = "FAILED" => Gone \/ \E i \in 1..Len(frames) : frames[i] \in Terminal
  PROVE  StreamInv'
<1>1. /\ sent' = sent \o frames /\ outcome' = result /\ route' = "finally" /\ deadline' = 0
      /\ UNCHANGED <<role, plane, auditLog, time, audit, status, chunks, client, read, turn, broken>>
      /\ CanAudit' = CanAudit /\ Acknowledged' = Acknowledged /\ Gone' = Gone
  BY DEF EndStream, CanAudit, Acknowledged, Gone, environment, clientVars
<1>2. status = 200 /\ outcome = "ALLOWED" /\ audit = <<>> /\ route \notin {"finally", "closed", "killed"}
  BY DEF StreamInv, RouteInv, Streaming
<1>3. /\ sent \in Seq(Frames) /\ read \in 0..Len(sent) /\ sent' \in Seq(Frames)
      /\ Len(sent) \in Nat /\ Len(sent') = Len(sent) + Len(frames) /\ Len(frames) \in Nat
      /\ \A i \in 1..Len(sent) : sent'[i] = sent[i]
      /\ \A i \in 1..Len(frames) : sent'[Len(sent) + i] = frames[i]
      /\ \A i \in 1..Len(sent') : i \in 1..Len(sent) \/ \E j \in 1..Len(frames) : i = Len(sent) + j
  BY <1>1, AddedFrames DEF StreamInv, StreamTypeOK
<1>4. StreamTypeOK'
  <2>1. read' \in 0..Len(sent')
    BY <1>1, <1>3
  <2>2. outcome' \in Outcomes /\ deadline' \in Nat
    BY <1>1 DEF Outcomes
  <2> QED BY <1>1, <1>3, <2>1, <2>2 DEF StreamInv, StreamTypeOK
<1>5. RouteInv'
  BY <1>1, <1>2 DEF RouteInv, Checks, Streaming
<1>6. StatusInv'
  BY <1>1, <1>2 DEF StatusInv
<1>7. FramesInv'
  <2>1. ASSUME NEW i \in 1..Len(sent')
        PROVE  /\ sent'[i] = "streaming" => i = 1
               /\ sent'[i] = "eks_off" => outcome' = "PLANE_OFF"
               /\ sent'[i] = "error" => outcome' = "FAILED"
               /\ sent'[i] = "done" => outcome' \in {"ALLOWED", "PLANE_OFF"} /\ route' \in {"finally", "closed"}
    <3>1. CASE i \in 1..Len(sent)
      BY <1>1, <1>2, <1>3, <3>1 DEF StreamInv, FramesInv
    <3>2. CASE i \notin 1..Len(sent)
      <4>1. PICK j \in 1..Len(frames) : i = Len(sent) + j
        BY <1>3, <3>2
      <4>2. sent'[i] = frames[j]
        BY <1>3, <4>1
      <4> QED BY <1>1, <4>2
    <3> QED BY <3>1, <3>2
  <2>2. ASSUME outcome' \in {"FAILED", "PLANE_OFF"}, ~Gone'
        PROVE  \E i \in 1..Len(sent') : sent'[i] \in Terminal
    <3>1. PICK j \in 1..Len(frames) : frames[j] \in Terminal
      BY <1>1, <2>2
    <3>2. Len(sent) + j \in 1..Len(sent') /\ sent'[Len(sent) + j] \in Terminal
      BY <1>3, <3>1
    <3> QED BY <3>2
  <2>3. outcome' # "PLANE_OFF"
    BY <1>1
  <2> QED BY <2>1, <2>2, <2>3 DEF FramesInv
<1>8. TurnInv'
  <2>1. \A i \in 1..read : i \in 1..Len(sent) /\ sent'[i] = sent[i]
    BY <1>3
  <2>2. turn \notin {"complete", "unavailable"} /\ (turn = "error" => broken)
    BY <1>2 DEF StreamInv, TurnInv
  <2> QED BY <1>1, <1>2, <2>1, <2>2 DEF StreamInv, TurnInv
<1> QED BY <1>4, <1>5, <1>6, <1>7, <1>8 DEF StreamInv

\* The transport ends its turn in a state that the outcome justifies.
LEMMA FinishKeepsInv ==
  ASSUME StreamInv, client # "done",
         NEW state \in {"complete", "unavailable", "error", "timeout", "policy_blocked"}, Finish(state),
         broken' \in BOOLEAN, broken => broken',
         state = "complete" => outcome = "ALLOWED" /\ \A i \in 1..read : sent[i] \notin Terminal,
         state = "error" => broken' \/ outcome = "FAILED" \/ (status = 500 /\ ~Acknowledged),
         state = "unavailable" => outcome = "PLANE_OFF" /\ status = 200,
         state = "policy_blocked" => status \in {200, 403, 429} /\ outcome # "PLANE_OFF",
         state # "timeout" => route = "closed" \/ (state = "error" /\ broken')
  PROVE  StreamInv'
<1>1. /\ client' = "done" /\ turn' = state
      /\ UNCHANGED <<role, plane, auditLog, time, route, deadline, outcome, audit, status, sent, chunks, finished, read>>
      /\ CanAudit' = CanAudit /\ Acknowledged' = Acknowledged /\ ~Gone
  BY DEF Finish, CanAudit, Acknowledged, Gone, environment
<1>2. StreamTypeOK'
  BY <1>1 DEF StreamInv, StreamTypeOK, Terminal
<1>3. RouteInv' /\ StatusInv'
  BY <1>1 DEF StreamInv, RouteInv, StatusInv
<1>4. FramesInv'
  BY <1>1 DEF StreamInv, FramesInv
<1>5. TurnInv'
  BY <1>1 DEF TurnInv
<1> QED BY <1>2, <1>3, <1>4, <1>5 DEF StreamInv

\* One frame read: the turn is reduced to what the frame says, and the frame
\* says it of the outcome.
LEMMA ReadKeepsInv ==
  ASSUME StreamInv, ReadFrame
  PROVE  StreamInv'
<1> DEFINE frame == sent[read + 1]
<1>1. /\ client = "reading" /\ read' = read + 1 /\ turn' = reduceFrame(turn, frame)
      /\ UNCHANGED <<role, plane, auditLog, time, route, deadline, outcome, audit, status, sent, chunks, finished, client, broken>>
      /\ CanAudit' = CanAudit /\ Acknowledged' = Acknowledged /\ ~Gone /\ ~Gone'
  BY DEF ReadFrame, CanAudit, Acknowledged, Gone, environment
<1>2. /\ read \in Nat /\ read + 1 \in 1..Len(sent) /\ Len(sent) \in Nat /\ status = 200
      /\ frame \in Frames
  BY <1>1 DEF ReadFrame, StreamInv, StreamTypeOK, TurnInv
<1>3. /\ frame = "streaming" => read = 0
      /\ frame = "eks_off" => outcome = "PLANE_OFF"
      /\ frame = "error" => outcome = "FAILED"
      /\ frame = "done" => outcome \in {"ALLOWED", "PLANE_OFF"} /\ route \in {"finally", "closed"}
  BY <1>2 DEF StreamInv, FramesInv
<1>4. outcome = "PLANE_OFF" => sent = <<"eks_off", "done">>
  BY <1>2 DEF StreamInv, FramesInv
<1>5. StreamTypeOK'
  <2>1. turn' \in {"streaming", "complete", "unavailable"} \cup (Terminal \ {"eks_off"})
    BY <1>1, <1>2 DEF reduceFrame, Frames, Terminal, StreamInv, StreamTypeOK
  <2> QED BY <1>1, <1>2, <2>1 DEF StreamInv, StreamTypeOK
<1>6. RouteInv' /\ StatusInv'
  BY <1>1 DEF StreamInv, RouteInv, StatusInv
<1>7. FramesInv'
  BY <1>1 DEF StreamInv, FramesInv
<1>8. \A i \in 1..read' : i \in 1..read \/ i = read + 1
  BY <1>1, <1>2
<1>9. ASSUME turn' = "streaming"
      PROVE  \A i \in 1..read' : sent[i] \notin Terminal \cup {"done"}
  <2>1. frame \notin Terminal \cup {"done"} /\ (turn = "streaming" \/ read = 0)
    BY <1>1, <1>3, <1>9 DEF reduceFrame, Terminal
  <2>2. \A i \in 1..read : sent[i] \notin Terminal \cup {"done"}
    BY <1>2, <2>1 DEF StreamInv, TurnInv
  <2> QED BY <1>8, <2>1, <2>2
<1>10. ASSUME turn' = "complete"
       PROVE  /\ outcome = "ALLOWED" /\ route \in {"finally", "closed"}
              /\ \A i \in 1..read' : sent[i] \notin Terminal
  <2>1. CASE frame = "done" /\ turn = "streaming"
    <3>1. \A i \in 1..read : sent[i] \notin Terminal
      BY <2>1 DEF StreamInv, TurnInv
    <3>2. outcome # "PLANE_OFF"
      <4>1. SUFFICES ASSUME sent = <<"eks_off", "done">>
                     PROVE  FALSE
        BY <1>4
      <4>2. read = 1
        BY <1>2, <2>1, <4>1
      <4>3. sent[1] = "eks_off" /\ 1 \in 1..read
        BY <4>1, <4>2
      <4> QED BY <3>1, <4>3 DEF Terminal
    <3>3. frame \notin Terminal
      BY <2>1 DEF Terminal
    <3> QED BY <1>3, <1>8, <2>1, <3>1, <3>2, <3>3
  <2>2. CASE turn = "complete" /\ frame \notin Terminal
    BY <1>8, <2>2 DEF StreamInv, TurnInv
  <2>3. (frame = "done" /\ turn = "streaming") \/ (turn = "complete" /\ frame \notin Terminal)
    BY <1>1, <1>10 DEF reduceFrame, Terminal
  <2> QED BY <2>1, <2>2, <2>3
<1>11. turn' = "error" => broken \/ outcome = "FAILED" \/ (status = 500 /\ ~Acknowledged)
  BY <1>1, <1>3 DEF reduceFrame, StreamInv, TurnInv
<1>12. turn' = "unavailable" => outcome = "PLANE_OFF"
  BY <1>1, <1>3 DEF reduceFrame, StreamInv, TurnInv
<1>13. turn' = "policy_blocked" => outcome # "PLANE_OFF"
  <2>1. frame = "policy_blocked" => outcome # "PLANE_OFF"
    <3> SUFFICES ASSUME sent = <<"eks_off", "done">>
                 PROVE  frame # "policy_blocked"
      BY <1>4
    <3>1. read + 1 \in {1, 2}
      BY <1>2
    <3> QED BY <3>1
  <2> QED BY <1>1, <2>1 DEF reduceFrame, StreamInv, TurnInv
<1>14. TurnInv'
  BY <1>1, <1>2, <1>9, <1>10, <1>11, <1>12, <1>13 DEF TurnInv
<1> QED BY <1>5, <1>6, <1>7, <1>14 DEF StreamInv

\* The steps that only move the route on.
LEMMA RouteStepsKeepInv ==
  ASSUME StreamInv,
         \/ \E next \in {"parse", "budget", "plane"} : route \in Checks /\ Pass(next)
         \/ PlatformKills
  PROVE  StreamInv'
<1>1. UNCHANGED <<role, plane, auditLog, time, deadline, outcome, audit, status, sent, chunks, finished, client, read, turn, broken>>
  BY DEF Pass, PlatformKills, environment, clientVars
<1>2. route \in Checks \cup Streaming /\ route' \in Checks \cup {"killed"}
  BY DEF Pass, PlatformKills, Checks, Streaming
<1>3. route' \in Checks => route \in Checks
  BY DEF Pass, PlatformKills, Checks
<1>4. route' = "killed" => route \in Streaming
  BY DEF Pass, PlatformKills, Checks, Streaming
<1>5. StreamTypeOK'
  BY <1>1, <1>2 DEF StreamInv, StreamTypeOK, Checks, Ended
<1>6. CanAudit' = CanAudit /\ Acknowledged' = Acknowledged /\ Gone' = Gone
  BY <1>1 DEF CanAudit, Acknowledged, Gone
<1>7. route \notin {"finally", "closed", "killed"} /\ route' \notin {"finally", "closed", "connect", "stream"}
  BY <1>2 DEF Checks, Streaming
<1>8. RouteInv'
  BY <1>1, <1>3, <1>4, <1>6, <1>7, <1>2 DEF StreamInv, RouteInv, Streaming
<1>9. StatusInv'
  BY <1>1, <1>6, <1>7 DEF StreamInv, StatusInv
<1>10. FramesInv'
  <2>1. \A i \in 1..Len(sent) : sent[i] # "done"
    BY <1>7 DEF StreamInv, FramesInv
  <2> QED BY <1>1, <1>6, <2>1 DEF StreamInv, FramesInv
<1>11. TurnInv'
  BY <1>1, <1>6, <1>7 DEF StreamInv, TurnInv
<1> QED BY <1>5, <1>8, <1>9, <1>10, <1>11 DEF StreamInv

\* The response starts: its first frame is the streaming one.
LEMMA OpenKeepsInv ==
  ASSUME StreamInv, OpenStream, plane # "off"
  PROVE  StreamInv'
<1>1. /\ status' = 200 /\ sent' = <<"streaming">> /\ route' = "connect" /\ deadline' = time + RouteTimeout
      /\ UNCHANGED <<role, plane, auditLog, time, outcome, audit, chunks, finished, client, read, turn, broken>>
      /\ route = "plane" /\ CanAudit' = CanAudit /\ Acknowledged' = Acknowledged
  BY DEF OpenStream, Answer, environment, clientVars, CanAudit, Acknowledged
<1>2. status = 0 /\ sent = <<>> /\ outcome = "ALLOWED" /\ audit = <<>>
  BY <1>1 DEF StreamInv, RouteInv, Checks
<1>3. read = 0 /\ client # "reading" /\ turn \notin {"complete", "policy_blocked", "unavailable"}
  BY <1>1, <1>2 DEF StreamInv, StreamTypeOK, TurnInv
<1>4. StreamTypeOK'
  <2>1. deadline' \in Nat
    BY <1>1, TimeoutAssumption DEF StreamInv, StreamTypeOK
  <2>2. sent' \in Seq(Frames) /\ read' \in 0..Len(sent')
    BY <1>1, <1>3 DEF Frames
  <2> QED BY <1>1, <2>1, <2>2 DEF StreamInv, StreamTypeOK
<1>5. RouteInv' /\ StatusInv'
  BY <1>1, <1>2 DEF RouteInv, StatusInv, Checks, Streaming
<1>6. FramesInv'
  BY <1>1, <1>2 DEF FramesInv
<1>7. TurnInv'
  BY <1>1, <1>2, <1>3 DEF StreamInv, TurnInv
<1> QED BY <1>4, <1>5, <1>6, <1>7 DEF StreamInv

\* What one payload of the inference stream shows.
LEMMA PayloadFrames ==
  ASSUME NEW frames \in Payloads
  PROVE  frames \in Seq(Frames) /\ \A i \in 1..Len(frames) : frames[i] \in {"token", "policy_blocked"}
<1>1. CASE frames = <<>>
  BY <1>1
<1>2. CASE frames = <<"token">>
  BY <1>2 DEF Frames
<1>3. CASE frames = <<"policy_blocked">>
  BY <1>3 DEF Frames, Terminal
<1> QED BY <1>1, <1>2, <1>3 DEF Payloads

\* One chunk: text, a refusal or nothing is added to the stream.
LEMMA ChunkKeepsInv ==
  ASSUME StreamInv, Chunk
  PROVE  StreamInv'
<1>1. PICK frames \in Payloads : sent' = sent \o frames
  BY DEF Chunk
<1>2. /\ route = "stream" /\ chunks < MaxChunks /\ chunks' = chunks + 1
      /\ UNCHANGED <<role, plane, auditLog, time, route, deadline, outcome, audit, status, finished, client, read, turn, broken>>
      /\ CanAudit' = CanAudit /\ Acknowledged' = Acknowledged /\ Gone' = Gone
  BY DEF Chunk, CanAudit, Acknowledged, Gone, environment, clientVars
<1>3. status = 200 /\ outcome = "ALLOWED"
  BY <1>2 DEF StreamInv, RouteInv, Streaming
<1>4. frames \in Seq(Frames) /\ \A i \in 1..Len(frames) : frames[i] \in {"token", "policy_blocked"}
  BY PayloadFrames
<1>5. /\ sent \in Seq(Frames) /\ read \in 0..Len(sent) /\ sent' \in Seq(Frames)
      /\ Len(sent) \in Nat /\ Len(sent') = Len(sent) + Len(frames) /\ Len(frames) \in Nat
      /\ \A i \in 1..Len(sent) : sent'[i] = sent[i]
      /\ \A i \in 1..Len(sent') : i \in 1..Len(sent) \/ sent'[i] \in {"token", "policy_blocked"}
  BY <1>1, <1>4, AddedFrames DEF StreamInv, StreamTypeOK
<1>6. StreamTypeOK'
  <2>1. chunks' \in 0..MaxChunks
    BY <1>2, TimeoutAssumption DEF StreamInv, StreamTypeOK
  <2>2. read' \in 0..Len(sent')
    BY <1>2, <1>5
  <2> QED BY <1>2, <1>5, <2>1, <2>2 DEF StreamInv, StreamTypeOK
<1>7. RouteInv' /\ StatusInv'
  BY <1>2 DEF StreamInv, RouteInv, StatusInv, Checks, Streaming
<1>8. FramesInv'
  BY <1>2, <1>3, <1>5 DEF StreamInv, FramesInv
<1>9. TurnInv'
  <2>1. \A i \in 1..read : i \in 1..Len(sent) /\ sent'[i] = sent[i]
    BY <1>5
  <2> QED BY <1>2, <2>1 DEF StreamInv, TurnInv
<1> QED BY <1>6, <1>7, <1>8, <1>9 DEF StreamInv

\* The finally block writes the row of the outcome.
LEMMA CloseKeepsInv ==
  ASSUME StreamInv, CloseStream
  PROVE  StreamInv'
<1>1. /\ route = "finally" /\ route' = "closed"
      /\ UNCHANGED <<role, plane, auditLog, time, deadline, outcome, status, sent, chunks, finished, client, read, turn, broken>>
      /\ CanAudit' = CanAudit /\ Acknowledged' = Acknowledged /\ Gone' = Gone
  BY DEF CloseStream, CanAudit, Acknowledged, Gone, environment, clientVars
<1>2. status = 200 /\ audit = <<>> /\ outcome \in {"ALLOWED", "FAILED"}
  BY <1>1 DEF StreamInv, RouteInv
<1>3. audit' = IF CanAudit THEN <<outcome>> ELSE <<>>
  <2>1. <<>> \o <<outcome>> = <<outcome>> /\ <<>> \o <<>> = <<>>
    OBVIOUS
  <2> QED BY <1>2, <2>1 DEF CloseStream, recordAudit, Row
<1>4. StreamTypeOK'
  <2>1. audit' \in Seq(Outcomes)
    <3>1. outcome \in Outcomes
      BY <1>2 DEF Outcomes
    <3> QED BY <1>3, <3>1
  <2> QED BY <1>1, <2>1 DEF StreamInv, StreamTypeOK, Ended
<1>5. RouteInv' /\ StatusInv'
  BY <1>1, <1>2, <1>3 DEF StreamInv, RouteInv, StatusInv, Checks, Streaming
<1>6. FramesInv'
  BY <1>1 DEF StreamInv, FramesInv
<1>7. TurnInv'
  BY <1>1 DEF StreamInv, TurnInv
<1> QED BY <1>4, <1>5, <1>6, <1>7 DEF StreamInv

\* Every step of the route, the model, the browser and the clock keeps it.
LEMMA StreamStepKeepsInv ==
  ASSUME StreamInv, StreamNext
  PROVE  StreamInv'
<1>1. CASE guardRequest
  <2>0. route \in Checks
    BY <1>1 DEF guardRequest, Checks
  <2>1. ASSUME Answer("FORBIDDEN", 403, <<"policy_blocked">>)
        PROVE  StreamInv'
    BY <2>0, <2>1, AnswerKeepsInv DEF Answered
  <2>2. ASSUME Pass("parse")
        PROVE  StreamInv'
    BY <1>1, <2>2, RouteStepsKeepInv DEF guardRequest, Checks
  <2> QED BY <1>1, <2>1, <2>2 DEF guardRequest
<1>2. CASE parseBody
  <2>0. route \in Checks
    BY <1>2 DEF parseBody, Checks
  <2>1. ASSUME Answer("FAILED", 400, <<"error">>)
        PROVE  StreamInv'
    BY <2>0, <2>1, AnswerKeepsInv DEF Answered
  <2>2. ASSUME Pass("budget")
        PROVE  StreamInv'
    BY <1>2, <2>2, RouteStepsKeepInv DEF parseBody, Checks
  <2> QED BY <1>2, <2>1, <2>2 DEF parseBody
<1>3. CASE consumeBudget
  <2>0. route \in Checks
    BY <1>3 DEF consumeBudget, Checks
  <2>1. ASSUME Answer("FAILED", 500, <<"error">>)
        PROVE  StreamInv'
    BY <2>0, <2>1, AnswerKeepsInv DEF Answered
  <2>2. ASSUME Answer("RATE_LIMITED", 429, <<"policy_blocked">>)
        PROVE  StreamInv'
    BY <2>0, <2>2, AnswerKeepsInv DEF Answered
  <2>3. ASSUME Answer("QUOTA_EXHAUSTED", 429, <<"quota", "policy_blocked">>)
        PROVE  StreamInv'
    BY <2>0, <2>3, AnswerKeepsInv DEF Answered
  <2>4. ASSUME Pass("plane")
        PROVE  StreamInv'
    BY <1>3, <2>4, RouteStepsKeepInv DEF consumeBudget, Checks
  <2> QED BY <1>3, <2>1, <2>2, <2>3, <2>4 DEF consumeBudget
<1>4. CASE OpenStream
  <2>0. route \in Checks
    BY <1>4 DEF OpenStream, Checks
  <2>1. ASSUME plane = "off", Answer("PLANE_OFF", 200, <<"eks_off", "done">>)
        PROVE  StreamInv'
    BY <2>0, <2>1, AnswerKeepsInv DEF Answered
  <2> QED BY <1>4, <2>1, OpenKeepsInv DEF OpenStream
<1>5. CASE Deadline
  <2> DEFINE last == <<"timeout">>
  <2>1. /\ last \in Seq(Frames) /\ 1 \in 1..Len(last) /\ last[1] \in Terminal
        /\ \A i \in 1..Len(last) : last[i] = "timeout"
    BY DEF Frames, Terminal
  <2>2. route \in Streaming /\ finished' \in BOOLEAN /\ EndStream("FAILED", last)
    BY <1>5 DEF Deadline, Streaming, StreamInv, StreamTypeOK
  <2> HIDE DEF last
  <2> QED BY <1>5, <2>1, <2>2, EndStreamKeepsInv
<1>6. ASSUME route \in Streaming, EndStream("FAILED", <<"error">>), UNCHANGED finished
      PROVE  StreamInv'
  <2> DEFINE last == <<"error">>
  <2>1. /\ last \in Seq(Frames) /\ 1 \in 1..Len(last) /\ last[1] \in Terminal
        /\ \A i \in 1..Len(last) : last[i] = "error"
    BY DEF Frames, Terminal
  <2>2. finished' \in BOOLEAN /\ EndStream("FAILED", last)
    BY <1>6 DEF StreamInv, StreamTypeOK
  <2> HIDE DEF last
  <2> QED BY <1>6, <2>1, <2>2, EndStreamKeepsInv
<1>7. CASE Connect
  <2>1. CASE EndStream("FAILED", <<"error">>) /\ UNCHANGED finished
    BY <1>6, <1>7, <2>1 DEF Connect, Streaming
  <2>2. CASE ~(EndStream("FAILED", <<"error">>) /\ UNCHANGED finished)
    <3>1. /\ route = "connect" /\ route' = "stream"
          /\ deadline' = IF plane = "inference" THEN time + RouteTimeout ELSE 0
          /\ UNCHANGED <<role, plane, auditLog, time, outcome, audit, status, sent, chunks, finished, client, read, turn, broken>>
          /\ CanAudit' = CanAudit /\ Acknowledged' = Acknowledged /\ Gone' = Gone
      BY <1>7, <2>2 DEF Connect, CanAudit, Acknowledged, Gone, environment, clientVars
    <3>2. deadline' \in Nat
      BY <3>1, TimeoutAssumption DEF StreamInv, StreamTypeOK
    <3>3. StreamTypeOK'
      BY <3>1, <3>2 DEF StreamInv, StreamTypeOK
    <3>4. RouteInv' /\ StatusInv'
      BY <3>1 DEF StreamInv, RouteInv, StatusInv, Checks, Streaming
    <3>5. FramesInv'
      BY <3>1 DEF StreamInv, FramesInv
    <3>6. TurnInv'
      BY <3>1 DEF StreamInv, TurnInv
    <3> QED BY <3>3, <3>4, <3>5, <3>6 DEF StreamInv
  <2> QED BY <2>1, <2>2
<1>8. CASE CoordinatorAnswers
  <2>1. ASSUME EndStream("ALLOWED", <<"token", "done">>), finished' = TRUE
        PROVE  StreamInv'
    <3>1. /\ <<"token", "done">> \in Seq(Frames)
          /\ \A i \in 1..Len(<<"token", "done">>) : <<"token", "done">>[i] \in {"token", "done"}
      BY DEF Frames
    <3> QED BY <1>8, <2>1, <3>1, EndStreamKeepsInv DEF CoordinatorAnswers, Streaming
  <2> QED BY <1>6, <1>8, <2>1 DEF CoordinatorAnswers, Streaming
<1>9. CASE Chunk
  BY <1>9, ChunkKeepsInv
<1>10. CASE LastChunk
  <2>1. ASSUME NEW frames \in Payloads, EndStream("ALLOWED", <<"done">> \o frames), finished' = TRUE
        PROVE  StreamInv'
    <3> DEFINE last == <<"done">> \o frames
    <3>1. frames \in Seq(Frames) /\ \A i \in 1..Len(frames) : frames[i] \in {"token", "policy_blocked"}
      BY PayloadFrames
    <3>2. /\ <<"done">> \in Seq(Frames) /\ Len(<<"done">>) = 1 /\ <<"done">>[1] = "done"
      BY DEF Frames
    <3>3. last \in Seq(Frames) /\ \A i \in 1..Len(last) : last[i] \in {"done", "token", "policy_blocked"}
      <4>1. \A i \in 1..1 : i = 1
        OBVIOUS
      <4> QED BY <3>1, <3>2, <4>1, AddedFrames
    <3>4. EndStream("ALLOWED", last)
      BY <2>1
    <3> HIDE DEF last
    <3> QED BY <1>10, <2>1, <3>3, <3>4, EndStreamKeepsInv DEF LastChunk, Streaming
  <2> QED BY <1>6, <1>10, <2>1 DEF LastChunk, Streaming
<1>11. ASSUME route \in Streaming, NEW result \in {"ALLOWED", "FAILED"}, EndStream(result, <<>>),
              UNCHANGED finished, result = "FAILED" => Gone
       PROVE  StreamInv'
  <2> DEFINE last == <<>>
  <2>1. last \in Seq(Frames) /\ \A i \in 1..Len(last) : FALSE
    OBVIOUS
  <2>2. finished' \in BOOLEAN /\ EndStream(result, last)
    BY <1>11 DEF StreamInv, StreamTypeOK
  <2> HIDE DEF last
  <2> QED BY <1>11, <2>1, <2>2, EndStreamKeepsInv
<1>12. CASE UpstreamEnds
  BY <1>11, <1>12 DEF UpstreamEnds, Streaming
<1>13. CASE SeeAbort
  BY <1>11, <1>13 DEF SeeAbort, Streaming
<1>14. CASE CloseStream
  BY <1>14, CloseKeepsInv
<1>15. CASE PlatformKills
  BY <1>15, RouteStepsKeepInv
<1>16. CASE Response
  <2>1. client = "waiting" /\ status # 0
    BY <1>16 DEF Response
  <2>2. ASSUME status \in {403, 429}, Finish("policy_blocked"), UNCHANGED broken
        PROVE  StreamInv'
    <3>1. outcome # "PLANE_OFF" /\ route = "closed" /\ broken \in BOOLEAN
      BY <2>2 DEF StreamInv, StatusInv, StreamTypeOK
    <3> QED BY <2>1, <2>2, <3>1, FinishKeepsInv
  <2>3. ASSUME status \in {400, 500}, Finish("error"), UNCHANGED broken
        PROVE  StreamInv'
    <3>1. (outcome = "FAILED" \/ (status = 500 /\ ~Acknowledged)) /\ route = "closed" /\ broken \in BOOLEAN
      BY <2>3 DEF StreamInv, StatusInv, StreamTypeOK
    <3> QED BY <2>1, <2>3, <3>1, FinishKeepsInv
  <2>4. ASSUME status = 200, client' = "reading",
               UNCHANGED <<environment, time, route, deadline, outcome, audit, status, sent, chunks, finished, read, turn, broken>>
        PROVE  StreamInv'
    <3>1. /\ UNCHANGED <<role, plane, auditLog>>
          /\ CanAudit' = CanAudit /\ Acknowledged' = Acknowledged /\ ~Gone
      BY <2>1, <2>4 DEF environment, CanAudit, Acknowledged, Gone
    <3>2. StreamTypeOK'
      BY <2>4, <3>1 DEF StreamInv, StreamTypeOK
    <3>3. RouteInv' /\ StatusInv'
      BY <2>4, <3>1 DEF StreamInv, RouteInv, StatusInv
    <3>4. FramesInv'
      BY <2>4, <3>1 DEF StreamInv, FramesInv
    <3>5. TurnInv'
      BY <2>1, <2>4, <3>1 DEF StreamInv, TurnInv
    <3> QED BY <3>2, <3>3, <3>4, <3>5 DEF StreamInv
  <2> QED BY <1>16, <2>2, <2>3, <2>4 DEF Response
<1>17. CASE ReadFrame
  BY <1>17, ReadKeepsInv
<1>18. CASE EndOfStream
  <2>1. /\ client = "reading" /\ read = Len(sent) /\ route = "closed" /\ status = 200 /\ ~Gone
        /\ Finish(IF turn = "streaming" THEN "complete" ELSE turn)
        /\ broken \in BOOLEAN /\ UNCHANGED broken
    BY <1>18 DEF EndOfStream, StreamInv, TurnInv, StreamTypeOK, Gone
  <2>2. CASE turn = "streaming"
    <3>1. \A i \in 1..Len(sent) : sent[i] \notin Terminal
      BY <2>1, <2>2 DEF StreamInv, TurnInv
    <3>2. outcome = "ALLOWED"
      BY <2>1, <3>1 DEF StreamInv, StatusInv, FramesInv
    <3> QED BY <2>1, <2>2, <3>1, <3>2, FinishKeepsInv
  <2>3. CASE turn # "streaming"
    <3>1. turn \in {"complete", "unavailable", "error", "timeout", "policy_blocked"}
      BY <2>3 DEF StreamInv, StreamTypeOK, Terminal
    <3>2. /\ turn = "complete" => /\ outcome = "ALLOWED"
                                  /\ \A i \in 1..read : sent[i] \notin Terminal
          /\ turn = "error" => broken \/ outcome = "FAILED" \/ (status = 500 /\ ~Acknowledged)
          /\ turn = "unavailable" => outcome = "PLANE_OFF" /\ status = 200
          /\ turn = "policy_blocked" => status \in {200, 403, 429} /\ outcome # "PLANE_OFF"
      BY DEF StreamInv, TurnInv
    <3> QED BY <2>1, <2>3, <3>1, <3>2, FinishKeepsInv
  <2> QED BY <2>2, <2>3
<1>19. CASE ConnectionFails
  BY <1>19, FinishKeepsInv DEF ConnectionFails
<1>20. CASE Abort
  BY <1>20, FinishKeepsInv DEF Abort, StreamInv, StreamTypeOK
<1>21. CASE StreamTick
  <2>1. /\ time < ClientTimeout /\ time' = time + 1
        /\ UNCHANGED <<role, plane, auditLog, route, deadline, outcome, audit, status, sent, chunks, finished, client, read, turn, broken>>
        /\ CanAudit' = CanAudit /\ Acknowledged' = Acknowledged /\ Gone' = Gone
    BY <1>21 DEF StreamTick, CanAudit, Acknowledged, Gone, environment, clientVars
  <2>2. time' \in 0..ClientTimeout
    BY <2>1, TimeoutAssumption DEF StreamInv, StreamTypeOK
  <2>3. StreamTypeOK'
    BY <2>1, <2>2 DEF StreamInv, StreamTypeOK
  <2>4. RouteInv' /\ StatusInv'
    BY <2>1 DEF StreamInv, RouteInv, StatusInv
  <2>5. FramesInv'
    BY <2>1 DEF StreamInv, FramesInv
  <2>6. TurnInv'
    BY <2>1 DEF StreamInv, TurnInv
  <2> QED BY <2>3, <2>4, <2>5, <2>6 DEF StreamInv
<1> QED
  BY <1>1, <1>2, <1>3, <1>4, <1>5, <1>7, <1>8, <1>9, <1>10, <1>12, <1>13, <1>14, <1>15,
     <1>16, <1>17, <1>18, <1>19, <1>20, <1>21
  DEF StreamNext, RouteStep, ModelStep, ClientStep

\* The inductive invariant of one request: what was decided, written, answered,
\* sent, read and shown agree at every moment.
THEOREM StreamInvariant == StreamSpec => []StreamInv
<1>1. StreamInit => StreamInv
  <2> SUFFICES ASSUME StreamInit
               PROVE  StreamInv
    OBVIOUS
  <2>1. StreamTypeOK
    <3>1. <<>> \in Seq(Outcomes) /\ <<>> \in Seq(Frames) /\ Len(<<>>) = 0
      OBVIOUS
    <3>2. audit \in Seq(Outcomes) /\ sent \in Seq(Frames) /\ read \in 0..Len(sent)
      BY <3>1 DEF StreamInit
    <3>3. time \in 0..ClientTimeout /\ chunks \in 0..MaxChunks
      BY TimeoutAssumption DEF StreamInit
    <3> QED BY <3>2, <3>3 DEF StreamInit, StreamTypeOK, Outcomes
  <2>2. RouteInv /\ StatusInv /\ FramesInv
    BY DEF StreamInit, RouteInv, StatusInv, FramesInv, Checks, Streaming
  <2>3. TurnInv
    BY DEF StreamInit, TurnInv
  <2> QED BY <2>1, <2>2, <2>3 DEF StreamInv
<1>2. StreamInv /\ [StreamNext]_streamVars => StreamInv'
  <2> SUFFICES ASSUME StreamInv, UNCHANGED streamVars
               PROVE  StreamInv'
    BY StreamStepKeepsInv
  <2>1. UNCHANGED <<CanAudit, Acknowledged, Gone>>
    BY DEF streamVars, CanAudit, Acknowledged, Gone
  <2>2. StreamTypeOK'
    BY DEF streamVars, StreamInv, StreamTypeOK
  <2>3. RouteInv' /\ StatusInv'
    BY <2>1 DEF streamVars, StreamInv, RouteInv, StatusInv
  <2>4. FramesInv' /\ TurnInv'
    BY <2>1 DEF streamVars, StreamInv, FramesInv, TurnInv
  <2> QED BY <2>2, <2>3, <2>4 DEF StreamInv
<1> QED BY <1>1, <1>2, PTL DEF StreamSpec

\* The types of a request.
THEOREM StreamTypeCorrect == StreamSpec => []StreamTypeOK
  BY StreamInvariant, PTL DEF StreamInv

\* A request writes one audit row at most, and exactly one when it ran to its
\* end for a caller the log accepts (recordAuditEvent, handleAssistantStream).
THEOREM AuditedOnce == StreamSpec => []RequestAuditedOnce
<1>1. StreamInv => RequestAuditedOnce
  <2> SUFFICES ASSUME StreamInv
               PROVE  RequestAuditedOnce
    OBVIOUS
  <2>1. audit = <<>> => Len(audit) = 0 /\ ~(route = "closed" /\ CanAudit)
    BY DEF StreamInv, RouteInv
  <2>2. audit = <<outcome>> => Len(audit) = 1
    OBVIOUS
  <2>3. audit = <<>> \/ audit = <<outcome>>
    BY DEF StreamInv, RouteInv
  <2>4. CASE audit = <<>>
    BY <2>1, <2>4 DEF RequestAuditedOnce
  <2>5. CASE audit = <<outcome>>
    BY <2>2, <2>5 DEF RequestAuditedOnce
  <2> QED BY <2>3, <2>4, <2>5
<1> QED BY <1>1, StreamInvariant, PTL

\* What the panel shows agrees with the audit log and with every frame that was
\* read (reduceFrame, reduceNonOk, handleAssistantStream).
THEOREM TurnsAreHonest == StreamSpec => []TurnIsHonest
<1>1. StreamInv => TurnIsHonest
  <2> SUFFICES ASSUME StreamInv
               PROVE  TurnIsHonest
    OBVIOUS
  <2>1. ASSUME client = "done", turn # "timeout", ~(turn = "error" /\ broken)
        PROVE  audit = Row(outcome)
    BY <2>1 DEF StreamInv, RouteInv, TurnInv, Row
  <2>2. ASSUME client = "done", turn = "policy_blocked"
        PROVE  IF status = 200 THEN audit \in {Row("ALLOWED"), Row("FAILED")}
               ELSE audit \in {<<"FORBIDDEN">>, <<"RATE_LIMITED">>, <<"QUOTA_EXHAUSTED">>}
    <3>1. audit = Row(outcome) /\ outcome # "PLANE_OFF" /\ status \in {200, 403, 429}
      BY <2>1, <2>2 DEF StreamInv, TurnInv
    <3>2. status = 200 => outcome \in {"ALLOWED", "FAILED"}
      BY <3>1 DEF StreamInv, StatusInv
    <3>3. status # 200 => CanAudit /\ outcome \in {"FORBIDDEN", "RATE_LIMITED", "QUOTA_EXHAUSTED"}
      BY <3>1 DEF StreamInv, StatusInv
    <3>4. CanAudit => audit = <<outcome>>
      BY <3>1 DEF Row
    <3> QED BY <3>1, <3>2, <3>3, <3>4
  <2>4. ASSUME client = "done"
        PROVE  /\ turn = "complete" => audit = Row("ALLOWED")
               /\ turn = "unavailable" => audit = <<"PLANE_OFF">>
               /\ turn = "error" => broken \/ audit = Row("FAILED") \/ (status = 500 /\ ~Acknowledged)
    BY <2>1, <2>4 DEF StreamInv, TurnInv, StatusInv, Row
  <2>5. TurnAgreesWithAudit
    BY <2>2, <2>4 DEF TurnAgreesWithAudit
  <2>3. TerminalOutranksDone
    BY DEF StreamInv, TurnInv, TerminalOutranksDone
  <2> QED BY <2>3, <2>5 DEF TurnIsHonest
<1> QED BY <1>1, StreamInvariant, PTL
=============================================================================
