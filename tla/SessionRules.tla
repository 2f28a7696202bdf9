---------------------------- MODULE SessionRules ----------------------------
(***************************************************************************)
(* The state graph of an evidence session: the pairs seeded into           *)
(* session_transition_rule by 20260803214500_phase2_schema.sql, which      *)
(* packages/contracts reads from session-transitions.json.                 *)
(***************************************************************************)

SessionStates ==
  {"OFF", "REQUESTED", "PROVISIONING", "SYNCING", "READY",
   "CAPTURING", "DESTROYING", "FAILED", "EXPIRED"}

Successors ==
  [OFF          |-> {"REQUESTED"},
   REQUESTED    |-> {"PROVISIONING", "DESTROYING", "FAILED"},
   PROVISIONING |-> {"SYNCING", "DESTROYING", "FAILED"},
   SYNCING      |-> {"READY", "DESTROYING", "FAILED"},
   READY        |-> {"CAPTURING", "DESTROYING", "EXPIRED"},
   CAPTURING    |-> {"DESTROYING", "FAILED"},
   DESTROYING   |-> {"OFF", "FAILED"},
   FAILED       |-> {"REQUESTED", "DESTROYING", "OFF"},
   EXPIRED      |-> {"DESTROYING", "OFF"}]

\* The rows of session_transition_rule.
session_transition_rule ==
  {edge \in SessionStates \X SessionStates : edge[2] \in Successors[edge[1]]}
=============================================================================
