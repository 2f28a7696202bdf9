----------------------------- MODULE ChunkStore -----------------------------
(***************************************************************************)
(* What ingestion promises about the rag tables, without tasks, loops,     *)
(* transactions or retries: a source registers its document, all of its    *)
(* admissible chunks that are missing under a version appear in one step,  *)
(* a chunk that is not admissible goes to quarantine, and a source and     *)
(* version are reported ingested once nothing is missing.  Rows stay as    *)
(* they are written.                                                       *)
(***************************************************************************)
CONSTANTS Sources, Documents, Texts, Versions, Doc, Body, Licensed, Open, Private, None

VARIABLES
  document,    \* rag_document: the source that registered each document
  chunk,       \* rag_chunk: the source behind the row of each key
  quarantine,  \* rag_quarantine: texts with a row
  ingested     \* sources and versions a task has reported success for

storeVars == <<document, chunk, quarantine, ingested>>

Delivered(s) == {Body[Doc[s]][i] : i \in DOMAIN Body[Doc[s]]}
Admits(s, x) == s \in Licensed \cap Open /\ x \notin Private
Missing(s, v) == {x \in Delivered(s) : Admits(s, x) /\ chunk[<<x, v>>] = None}

Init ==
  /\ document = [d \in Documents |-> None]
  /\ chunk = [k \in Texts \X Versions |-> None]
  /\ quarantine = {}
  /\ ingested = {}

\* A document has one row, from the first source with something to publish.
Register(s) ==
  /\ document[Doc[s]] = None
  /\ \E x \in Delivered(s) : Admits(s, x)
  /\ document' = [document EXCEPT ![Doc[s]] = s]
  /\ UNCHANGED <<chunk, quarantine, ingested>>

Refuse(s) ==
  /\ \E x \in Delivered(s) : ~Admits(s, x) /\ quarantine' = quarantine \cup {x}
  /\ UNCHANGED <<document, chunk, ingested>>

Insert(s, v) ==
  /\ document[Doc[s]] # None
  /\ chunk' = [k \in Texts \X Versions |->
                 IF k[1] \in Missing(s, v) /\ k[2] = v THEN s ELSE chunk[k]]
  /\ UNCHANGED <<document, quarantine, ingested>>

Report(s, v) ==
  /\ Missing(s, v) = {}
  /\ \A x \in Delivered(s) : chunk[<<x, v>>] # None \/ x \in quarantine
  /\ ingested' = ingested \cup {<<s, v>>}
  /\ UNCHANGED <<document, chunk, quarantine>>

Next ==
  \E s \in Sources : \/ Register(s) \/ Refuse(s)
                     \/ \E v \in Versions : Insert(s, v) \/ Report(s, v)

Spec == Init /\ [][Next]_storeVars
=============================================================================
