--------------------------- MODULE MCEvidenceOutbox ---------------------------
(* Workers draining the outbox while operators move sessions.                 *)
EXTENDS EvidenceOutbox
=============================================================================
