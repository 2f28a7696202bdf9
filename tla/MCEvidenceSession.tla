-------------------------- MODULE MCEvidenceSession --------------------------
(* The session write path alone: two sessions, late and repeated forms.      *)
EXTENDS EvidenceSession, TLC

Interchangeable == Permutations(Sessions) \cup Permutations(Keys)
=============================================================================
