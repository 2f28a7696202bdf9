---------------------------- MODULE MCIcebergTable ----------------------------
(* Two interchangeable clients and cells.                                     *)
EXTENDS IcebergTable, TLC

Interchangeable == Permutations(Clients) \cup Permutations(Values)
=============================================================================
