--------------------------- MODULE AssistantStream ---------------------------
(***************************************************************************)
(* One assistant request: the browser's StreamingAssistantTransport, the   *)
(* route POST /api/assistant/stream and the model behind it, running       *)
(* concurrently and joined by a byte stream of frames.                     *)
(*                                                                         *)
(* Frames are reduced to what decides a turn's state: text, citations and  *)
(* tool entries are all "token".  Time is counted in ticks; a timer that   *)
(* is due fires before the clock moves on.  Database calls take no time.   *)
(* The hosting platform ends a route that runs into its limit, without     *)
(* running the route's finally block.                                      *)
(***************************************************************************)
EXTENDS Naturals, Sequences

CONSTANTS
  Planes,         \* deployments: "off", "inference", "coordinator"
  RouteTimeout,   \* config.timeoutMs (at most MAX_ASSISTANT_TIMEOUT_MS)
  PlatformLimit,  \* response limit of the hosting platform
  ClientTimeout,  \* ASSISTANT_CLIENT_TIMEOUT_MS
  MaxChunks       \* bound: chunks the model sends

ASSUME TimeoutAssumption ==
  /\ Planes \subseteq {"off", "inference", "coordinator"}
  /\ RouteTimeout \in Nat \ {0}
  /\ PlatformLimit \in Nat /\ RouteTimeout < PlatformLimit
  /\ ClientTimeout \in Nat /\ PlatformLimit < ClientTimeout
  /\ MaxChunks \in Nat

VARIABLES
  role,      \* the caller: guest, viewer or analyst
  plane,     \* what answers: off, inference or coordinator
  auditLog,  \* record_audit_event answers (up), commits but its answer is lost (mute), or fails (down)
  time,
  route,     \* the step the route is at
  deadline,  \* when the wait the route is in times out (0: never)
  outcome,   \* the audit outcome so far
  audit,     \* rows this request wrote to audit_log
  status,    \* HTTP status of the response (0: no response yet)
  sent,      \* every frame the route sent
  chunks,    \* number of chunks received from the model
  finished,  \* the model said it was finished
  client,    \* the transport: waiting, reading or done
  read,      \* number of frames the transport has reduced
  turn,      \* the state of the turn the panel shows
  broken     \* the connection between transport and route failed (history)

streamVars == <<role, plane, auditLog, time, route, deadline, outcome, audit, status, sent,
          chunks, finished, client, read, turn, broken>>
environment == <<role, plane, auditLog>>
clientVars == <<client, read, turn, broken>>

Terminal == {"error", "timeout", "policy_blocked", "eks_off"}

\* While the route still works on the answer: the analyst cancelled, the transport gave up, or
\* the connection failed.
Gone == client = "done"
Ended == {"closed", "killed"}
-----------------------------------------------------------------------------
StreamInit ==
  /\ role \in {"guest", "viewer", "analyst"}
  /\ plane \in Planes
  /\ auditLog \in {"up", "mute", "down"}
  /\ time = 0
  /\ route = "guard"
  /\ deadline = 0
  /\ outcome = "ALLOWED"
  /\ audit = <<>>
  /\ status = 0
  /\ sent = <<>>
  /\ chunks = 0
  /\ finished = FALSE
  /\ client = "waiting"
  /\ read = 0
  /\ turn = "streaming"
  /\ broken = FALSE

\* record_audit_event raises for a caller without a role.  recordAuditEvent throws also
\* when only the answer is lost: the row is there and the caller does not know.
CanAudit == auditLog # "down" /\ role # "guest"
Acknowledged == CanAudit /\ auditLog = "up"

\* Mutant: the row is written before and after the answer.
AuditTwice(result) ==
  audit' = IF CanAudit THEN audit \o <<result, result>> ELSE audit

\* What one call leaves in the log.
Row(result) == IF CanAudit THEN <<result>> ELSE <<>>
recordAudit(result) == audit' = audit \o Row(result)

\* An answer without a stream: the row first, and when that throws the handler
\* rejects and the framework answers 500.
Answer(result, code, frames) ==
  /\ recordAudit(result)
  /\ outcome' = result
  /\ status' = IF Acknowledged THEN code ELSE 500
  /\ sent' = IF Acknowledged THEN frames ELSE <<>>
  /\ route' = "closed"
  /\ UNCHANGED <<environment, time, deadline, chunks, finished, clientVars>>

\* Goes on to the next check without answering.
Pass(next) ==
  /\ route' = next
  /\ UNCHANGED <<environment, time, deadline, outcome, audit, status, sent,
                 chunks, finished, clientVars>>

guardRequest ==
  /\ route = "guard"
  /\ \/ Answer("FORBIDDEN", 403, <<"policy_blocked">>)   \* role or origin
     \/ role = "analyst" /\ Pass("parse")

parseBody ==
  /\ route = "parse"
  /\ Answer("FAILED", 400, <<"error">>) \/ Pass("budget")

consumeBudget ==
  /\ route = "budget"
  /\ \/ Answer("FAILED", 500, <<"error">>)
     \/ Answer("RATE_LIMITED", 429, <<"policy_blocked">>)
     \/ Answer("QUOTA_EXHAUSTED", 429, <<"quota", "policy_blocked">>)
     \/ Pass("plane")

\* Plane gate; behind it the response starts and fetch waits for headers.
OpenStream ==
  /\ route = "plane"
  /\ \/ plane = "off" /\ Answer("PLANE_OFF", 200, <<"eks_off", "done">>)
     \/ /\ plane # "off"
        /\ status' = 200
        /\ sent' = <<"streaming">>
        /\ route' = "connect"
        /\ deadline' = time + RouteTimeout
        /\ UNCHANGED <<environment, time, outcome, audit, chunks, finished, clientVars>>

\* The start() function of the stream ends with a result and some last frames;
\* the finally block follows.
EndStream(result, frames) ==
  /\ sent' = sent \o frames
  /\ outcome' = result
  /\ route' = "finally"
  /\ deadline' = 0
  /\ UNCHANGED <<environment, time, audit, status, chunks, clientVars>>

\* withDeadline or raceNext: the wait took too long.
Deadline ==
  /\ route \in {"connect", "stream"}
  /\ deadline # 0 /\ time >= deadline
  /\ EndStream("FAILED", <<"timeout">>)
  /\ UNCHANGED finished

\* fetch answers: an error status, a rejection, or headers.  The translator
\* starts a deadline of its own; response.json() of the coordinator has none.
Connect ==
  /\ route = "connect"
  /\ \/ EndStream("FAILED", <<"error">>) /\ UNCHANGED finished
     \/ /\ route' = "stream"
        /\ deadline' = IF plane = "inference" THEN time + RouteTimeout ELSE 0
        /\ UNCHANGED <<environment, time, outcome, audit, status, sent,
                       chunks, finished, clientVars>>

\* streamCoordinatorResponse: the whole answer at once, or none.
CoordinatorAnswers ==
  /\ route = "stream" /\ plane = "coordinator"
  /\ \/ EndStream("ALLOWED", <<"token", "done">>) /\ finished' = TRUE
     \/ EndStream("FAILED", <<"error">>) /\ UNCHANGED finished

\* One payload of the inference stream: nothing to show, text, or a refusal.
Payloads == {<<>>, <<"token">>, <<"policy_blocked">>}

Chunk ==
  /\ route = "stream" /\ plane = "inference"
  /\ chunks < MaxChunks
  /\ chunks' = chunks + 1
  /\ \E frames \in Payloads : sent' = sent \o frames
  /\ UNCHANGED <<environment, time, route, deadline, outcome, audit, status,
                 finished, clientVars>>

\* Mutant: a malformed payload is reported but not counted as a failure.
ErrorNotCounted ==
  /\ route = "stream" /\ plane = "inference"
  /\ \/ \E frames \in Payloads : EndStream("ALLOWED", <<"done">> \o frames) /\ finished' = TRUE
     \/ EndStream("ALLOWED", <<"error">>) /\ UNCHANGED finished

\* The last payload: finish_reason (its done frame precedes the payload's own),
\* or one that is not a JSON object.
LastChunk ==
  /\ route = "stream" /\ plane = "inference"
  /\ \/ \E frames \in Payloads : EndStream("ALLOWED", <<"done">> \o frames) /\ finished' = TRUE
     \/ EndStream("FAILED", <<"error">>) /\ UNCHANGED finished

\* The connection to the model ends or breaks: ssePayloads just returns.
UpstreamEnds ==
  /\ route = "stream" /\ plane = "inference"
  /\ EndStream("ALLOWED", <<>>)
  /\ UNCHANGED finished

\* The server learns that the client is gone: fetch and response.json() reject,
\* a pending read just ends the stream, and a frame cannot be enqueued any more.
\* It may learn it late, or never: the route listens for the abort only once the
\* response has started.
SeeAbort ==
  /\ route \in {"connect", "stream"}
  /\ Gone
  /\ \/ EndStream("FAILED", <<>>)
     \/ route = "stream" /\ plane = "inference" /\ EndStream("ALLOWED", <<>>)
  /\ UNCHANGED finished

\* Mutant: a failed audit write is not caught and the stream is never closed.
CloseIfAudited ==
  /\ route = "finally"
  /\ CanAudit
  /\ recordAudit(outcome)
  /\ route' = "closed"
  /\ UNCHANGED <<environment, time, deadline, outcome, status, sent,
                 chunks, finished, clientVars>>

\* The finally block: a failed audit write is swallowed.
CloseStream ==
  /\ route = "finally"
  /\ recordAudit(outcome)
  /\ route' = "closed"
  /\ UNCHANGED <<environment, time, deadline, outcome, status, sent,
                 chunks, finished, clientVars>>

PlatformKills ==
  /\ route \in {"connect", "stream"}
  /\ time >= PlatformLimit
  /\ route' = "killed"
  /\ UNCHANGED <<environment, time, deadline, outcome, audit, status, sent,
                 chunks, finished, clientVars>>
-----------------------------------------------------------------------------
\* The transport.

Finish(state) ==
  /\ client' = "done"
  /\ turn' = state
  /\ UNCHANGED <<environment, time, route, deadline, outcome, audit, status, sent,
                 chunks, finished, read>>

\* fetch resolved: reduceNonOk answers at once, a 200 is read as a stream.
Response ==
  /\ client = "waiting"
  /\ status # 0
  /\ \/ status \in {403, 429} /\ Finish("policy_blocked")
     \/ status \in {400, 500} /\ Finish("error")
     \/ /\ status = 200
        /\ client' = "reading"
        /\ UNCHANGED <<environment, time, route, deadline, outcome, audit, status, sent,
                       chunks, finished, read, turn>>
  /\ UNCHANGED broken

\* Mutant: the plane-off state reaches the panel under the server's name.
ReduceUntranslated(state, frame) ==
  CASE frame = "done" -> IF state = "streaming" THEN "complete" ELSE state
    [] frame \in {"error", "timeout", "policy_blocked", "streaming", "eks_off"} -> frame
    [] OTHER -> state

\* What a frame does to the state of the turn.
reduceFrame(state, frame) ==
  CASE frame = "done" -> IF state = "streaming" THEN "complete" ELSE state
    [] frame = "eks_off" -> "unavailable"
    [] frame \in {"error", "timeout", "policy_blocked", "streaming"} -> frame
    [] OTHER -> state

ReadFrame ==
  /\ client = "reading"
  /\ read < Len(sent)
  /\ read' = read + 1
  /\ turn' = reduceFrame(turn, sent[read + 1])
  /\ UNCHANGED <<environment, time, route, deadline, outcome, audit, status, sent,
                 chunks, finished, client, broken>>

\* The stream ended: a turn still streaming is complete.
EndOfStream ==
  /\ client = "reading"
  /\ read = Len(sent) /\ route = "closed"
  /\ Finish(IF turn = "streaming" THEN "complete" ELSE turn)
  /\ UNCHANGED broken

\* fetch or response.text() rejects, or a read fails: the connection is lost, at any time and
\* whatever the route is doing.  A killed route loses it, too.
ConnectionFails ==
  /\ client # "done"
  /\ Finish("error")
  /\ broken' = TRUE

\* The user cancels, or the transport's own timer fires.
Abort ==
  /\ client # "done"
  /\ Finish("timeout")
  /\ UNCHANGED broken

\* The timer part of Abort, which must happen when it is due.
ClientDeadline == time >= ClientTimeout /\ Abort

Due ==
  \/ /\ route \in {"connect", "stream"}
     /\ (deadline # 0 /\ time >= deadline) \/ time >= PlatformLimit
  \/ client # "done" /\ time >= ClientTimeout

StreamTick ==
  /\ time < ClientTimeout
  /\ ~Due
  /\ route \in {"connect", "stream"} \cup Ended
  /\ time' = time + 1
  /\ UNCHANGED <<environment, route, deadline, outcome, audit, status, sent,
                 chunks, finished, clientVars>>

RouteStep ==
  \/ guardRequest \/ parseBody \/ consumeBudget \/ OpenStream
  \/ Deadline \/ CloseStream \/ PlatformKills
ModelStep == SeeAbort \/ Connect \/ CoordinatorAnswers \/ Chunk \/ LastChunk \/ UpstreamEnds
ClientStep == Response \/ ReadFrame \/ EndOfStream

StreamNext ==
  \/ RouteStep \/ ModelStep
  \/ ClientStep \/ Abort \/ ConnectionFails
  \/ StreamTick

StreamSpec == StreamInit /\ [][StreamNext]_streamVars

\* Route and browser run and timers fire; the model and the network owe nothing.
FairSpec == StreamSpec /\ WF_streamVars(RouteStep) /\ WF_streamVars(ClientStep)
                 /\ WF_streamVars(ClientDeadline) /\ WF_streamVars(StreamTick)
-----------------------------------------------------------------------------
Frames == {"streaming", "token", "done", "quota"} \cup Terminal
Outcomes == {"ALLOWED", "RATE_LIMITED", "QUOTA_EXHAUSTED", "FORBIDDEN", "PLANE_OFF", "FAILED"}

StreamTypeOK ==
  /\ role \in {"guest", "viewer", "analyst"}
  /\ plane \in Planes
  /\ auditLog \in {"up", "mute", "down"}
  /\ time \in 0..ClientTimeout
  /\ route \in {"guard", "parse", "budget", "plane", "connect", "stream", "finally"} \cup Ended
  /\ deadline \in Nat
  /\ outcome \in Outcomes
  /\ audit \in Seq(Outcomes)
  /\ status \in {0, 200, 400, 403, 429, 500}
  /\ sent \in Seq(Frames)
  /\ chunks \in 0..MaxChunks
  /\ finished \in BOOLEAN
  /\ client \in {"waiting", "reading", "done"}
  /\ read \in 0..Len(sent)
  /\ turn \in {"streaming", "complete", "unavailable"} \cup (Terminal \ {"eks_off"})
  /\ broken \in BOOLEAN

\* Whatever is aborted, timed out or refused, a request never writes two
\* audit rows, and one that ran to its end for a known caller wrote one.
RequestAuditedOnce ==
  /\ Len(audit) <= 1
  /\ route = "closed" /\ CanAudit => Len(audit) = 1

\* What the analyst is shown agrees with the audit log.  Complete, unavailable and refused
\* are never shown for another outcome, although the panel is told before the row is
\* written; an error that is not a failure of the route is a lost connection or a lost
\* answer of the log.
TurnAgreesWithAudit ==
  client = "done" =>
    /\ turn = "complete" => audit = Row("ALLOWED")
    /\ turn = "unavailable" => audit = <<"PLANE_OFF">>
    /\ turn = "policy_blocked" =>
         IF status = 200 THEN audit \in {Row("ALLOWED"), Row("FAILED")}
         ELSE audit \in {<<"FORBIDDEN">>, <<"RATE_LIMITED">>, <<"QUOTA_EXHAUSTED">>}
    /\ turn = "error" =>
         broken \/ audit = Row("FAILED") \/ (status = 500 /\ ~Acknowledged)

\* A terminal state outranks the closing done frame: a stream that carried an
\* error, a timeout, a refusal or the plane-off notice is never complete.
TerminalOutranksDone ==
  turn = "complete" => \A i \in 1..read : sent[i] \notin Terminal

\* What the analyst sees agrees with the audit log and with every frame that was read.
\* Whether the model had finished is another question (TruncationReported).
TurnIsHonest == TurnAgreesWithAudit /\ TerminalOutranksDone

\* The panel never hangs and the route never outlives the platform limit,
\* whatever the model does.
RequestEnds == <>(client = "done") /\ <>(route \in Ended)
-----------------------------------------------------------------------------
(* Statements of the repository that the code does not keep.               *)

\* "every branch writes exactly one audit row", with the log reachable.
EveryBranchAudited == route = "closed" /\ auditLog # "down" => Len(audit) = 1

\* "An upstream read error is treated as stream end; the route reports it as
\* UPSTREAM_UNAVAILABLE": a turn shown as complete had its model finish.
TruncationReported ==
  client = "done" /\ turn = "complete" => finished

\* "The route's timeout must fire and emit a timeout frame before the
\* platform kills the request."
TimeoutBeforePlatform == route # "killed"
=============================================================================
