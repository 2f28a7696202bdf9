-------------------------- MODULE MCStreamWindows --------------------------
EXTENDS StreamWindows

\* Two copies of an event, events on both sides of the lateness bounds, one that
\* breaks the contract, one with a timestamp in Z and one that is not an object.
MCRecords ==
  {[id |-> "a", time |-> 1, form |-> "valid"],
   [id |-> "b", time |-> 3, form |-> "valid"],
   [id |-> "c", time |-> 5, form |-> "valid"],
   [id |-> "d", time |-> 8, form |-> "valid"],
   [id |-> "x", time |-> 1, form |-> "invalid"],
   [id |-> "z", time |-> 4, form |-> "zulu"],
   [id |-> "o", time |-> 4, form |-> "opaque"]}
=============================================================================
