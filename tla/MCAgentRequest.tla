-------------------------- MODULE MCAgentRequest --------------------------
EXTENDS AgentRequest, TLC
CONSTANTS q1, q2, c1, c2

\* q1 cites an s3 object; q2 asks for a chunk that is gone and its drift
\* payload is invalid.
MCHops == {-1, 1, 2}
MCChunk == q1 :> c1 @@ q2 :> c2
MCValid == Runs \ {<<q2, "drift">>}
=============================================================================
