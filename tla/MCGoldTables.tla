---------------------------- MODULE MCGoldTables ----------------------------
EXTENDS GoldTables

MCRelease == [q \in 1..3 |-> 2 * q]

F(dated, ta, tl, eq, ca, cl, re, ebit, int, ni) ==
  [dated |-> dated, conforms |-> TRUE, total_assets |-> ta, total_liabilities |-> tl,
   equity |-> eq, current_assets |-> ca,
   current_liabilities |-> cl, retained_earnings |-> re, ebit |-> ebit,
   interest_expense |-> int, net_income |-> ni]

\* In order: the fixture's sound and stressed company, one in the gray zone with a loss,
\* one whose warnings outvote Z'', one without liabilities or interest, one with gaps in
\* the nullable columns, one with net interest income, one that misses a required figure, one
\* whose statement_type is not in the contract.
MCProfiles ==
  {F(TRUE, 100, 50, 50, 30, 20, 15, 12, 2, 8),
   F(TRUE, 100, 90, -5, 10, 25, -10, 1, 2, -3),
   F(TRUE, 100, 70, 30, 30, 20, 10, 5, 2, -1),
   F(TRUE, 100, 85, 15, 60, 10, 20, 1, 2, 1),
   F(TRUE, 100, 0, 100, 40, 0, 5, 3, 0, 2),
   F(FALSE, 100, 95, 5, 10, 20, Null, 4, Null, -2),
   F(TRUE, 100, 60, 40, 30, 20, 5, 4, -1, 3),
   F(TRUE, 100, 50, Null, 30, 20, 15, 12, 2, -1),
   [F(TRUE, 100, 50, 50, 30, 20, 15, 12, 2, -8) EXCEPT !.conforms = FALSE]}
=============================================================================
