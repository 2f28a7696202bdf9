-------------------------- MODULE MCRagIngestion --------------------------
EXTENDS RagIngestion, TLC
CONSTANTS t1, t2, s1, s2, s3, d1, d2, a, b, p

\* s2 delivers the same bytes as s1 under a license that is not allowed; the
\* document of s3 holds the texts of s1 in the other order and a private one.
MCDoc == s1 :> d1 @@ s2 :> d1 @@ s3 :> d2
MCBody == d1 :> <<a, b>> @@ d2 :> <<b, p, a>>
=============================================================================
