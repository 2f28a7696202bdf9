------------------------------ MODULE MCAiBudget ------------------------------
(* Three interchangeable call slots.                                            *)
EXTENDS AiBudget, TLC

Interchangeable == Permutations(Calls)
=============================================================================
