--------------------------- MODULE SessionMachine ---------------------------
(***************************************************************************)
(* What the write path promises about each session, without requests,      *)
(* tokens, keys or tables: it is created in OFF at version 1 and then      *)
(* moves along one edge of the state graph at a time, each move            *)
(* incrementing the version, one session per step.                         *)
(***************************************************************************)
EXTENDS SessionRules, Naturals

CONSTANT Sessions
VARIABLES state, version

Init == /\ state = [s \in Sessions |-> "OFF"]
        /\ version = [s \in Sessions |-> 0]

Create(s) ==
  /\ version[s] = 0
  /\ version' = [version EXCEPT ![s] = 1]
  /\ UNCHANGED state

Move(s) ==
  /\ version[s] > 0
  /\ \E t \in Successors[state[s]] : state' = [state EXCEPT ![s] = t]
  /\ version' = [version EXCEPT ![s] = @ + 1]

Next == \E s \in Sessions : Create(s) \/ Move(s)

Spec == Init /\ [][Next]_<<state, version>>
=============================================================================
