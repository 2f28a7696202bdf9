---------------------------- MODULE MCStageOne ----------------------------
EXTENDS StageOne, TLC
CONSTANTS p, n, r1, r2

MCTopicOf == p :> "price" @@ n :> "news"
MCRetries == [ingest |-> 2, build |-> 2, e2e |-> 0]

\* The names of two runs are interchangeable: of two different kinds, r1 has the first.
KindsInOrder ==
  <<kind[r1], kind[r2]>> \notin
    {<<"build", "ingest">>, <<"e2e", "ingest">>, <<"e2e", "build">>}
=============================================================================
