------------------------ MODULE RagIngestionProofs ------------------------
(***************************************************************************)
(* What overlapping, failing and retried ingestions leave in the store,    *)
(* for every number of tasks, sources, documents, texts and faults.        *)
(***************************************************************************)
EXTENDS RagIngestion, TLAPS

Holds(s, x) == \E i \in 1..Len(s) : s[i] = x

\* A chunk of t that is in the store, or that governance refused for good.
Stored(t, x) == chunk[Key(t, x)] # None
Refused(t, x) == ~Admissible(t, x) /\ x \in quarantine

\* Governance: what a task may still insert was admitted, and what is registered or stored
\* was put there by a task whose source the allowlists let through.
Governed ==
  /\ \A t \in Tasks, x \in Texts :
       Holds(kept[t], x) /\ pc[t] = "govern" => Admissible(t, x)
  /\ \A t \in Tasks, x \in Texts :
       Holds(todo[t], x) /\ pc[t] \in {"register", "embed", "insert"} => Admissible(t, x)
  /\ \A t \in Tasks : \A k \in written[t] : \E x \in Texts : k = Key(t, x) /\ Admissible(t, x)
  /\ \A t \in Tasks :
       pc[t] \in {"embed", "insert"} => document[Doc[source[t]]] # None
  /\ \A d \in Documents : document[d] # None => document[d] \in Licensed \cap Open

\* Completeness: wherever a task is, each chunk of its source is still in its hands, in
\* its open transaction, in the store or refused.
Accounted(t, x) ==
  /\ pc[t] = "deduplicate" =>
       Holds(todo[t], x) \/ Holds(kept[t], x) \/ Stored(t, x)
  /\ pc[t] = "govern" =>
       Holds(todo[t], x) \/ Holds(kept[t], x) \/ Stored(t, x) \/ Refused(t, x)
  /\ pc[t] \in {"register", "embed"} =>
       Holds(todo[t], x) \/ Stored(t, x) \/ Refused(t, x)
  /\ pc[t] = "insert" =>
       Holds(todo[t], x) \/ Key(t, x) \in written[t] \/ Stored(t, x) \/ Refused(t, x)
  /\ pc[t] \in {"lineage", "done"} => Stored(t, x) \/ Refused(t, x)

Complete == \A t \in Tasks : \A x \in TextsOf(t) : Accounted(t, x)

IngestionInv == TypeOK /\ Governed /\ Complete /\ GovernedStore /\ OneWriterPerKey

-----------------------------------------------------------------------------
(* Sequences.                                                              *)

\* A loop's first chunk and the chunks after it are all there are.
LEMMA HoldsSplit ==
  ASSUME NEW s \in Seq(Texts), s # <<>>, NEW x
  PROVE  /\ Head(s) \in Texts
         /\ Tail(s) \in Seq(Texts)
         /\ Holds(s, Head(s))
         /\ Holds(Tail(s), x) => Holds(s, x)
         /\ Holds(s, x) => x = Head(s) \/ Holds(Tail(s), x)
<1>1. Len(s) \in Nat \ {0} /\ Head(s) = s[1] /\ Head(s) \in Texts /\ Tail(s) \in Seq(Texts)
  OBVIOUS
<1>2. Len(Tail(s)) = Len(s) - 1 /\ \A i \in 1..Len(s) - 1 : Tail(s)[i] = s[i + 1]
  OBVIOUS
<1>3. Holds(s, Head(s))
  BY <1>1 DEF Holds
<1>4. Holds(Tail(s), x) => Holds(s, x)
  <2>1. \A i \in 1..Len(s) - 1 : i + 1 \in 1..Len(s)
    BY <1>1
  <2> QED
    BY <1>2, <2>1 DEF Holds
<1>5. Holds(s, x) => x = Head(s) \/ Holds(Tail(s), x)
  <2> SUFFICES ASSUME NEW i \in 1..Len(s), s[i] = x, i # 1
               PROVE  Holds(Tail(s), x)
    BY <1>1 DEF Holds
  <2>1. i - 1 \in 1..Len(s) - 1 /\ Tail(s)[i - 1] = x
    BY <1>1, <1>2
  <2> QED
    BY <1>2, <2>1 DEF Holds
<1> QED
  BY <1>1, <1>3, <1>4, <1>5

\* Appending keeps the chunks there were and adds one.
LEMMA HoldsAppend ==
  ASSUME NEW s \in Seq(Texts), NEW y \in Texts, NEW x
  PROVE  /\ Append(s, y) \in Seq(Texts)
         /\ Append(s, y) # <<>>
         /\ Holds(Append(s, y), x) <=> Holds(s, x) \/ x = y
<1> DEFINE a == Append(s, y)
<1>1. /\ a \in Seq(Texts) /\ Len(a) = Len(s) + 1 /\ Len(s) \in Nat /\ a # <<>>
      /\ a[Len(s) + 1] = y /\ \A i \in 1..Len(s) : a[i] = s[i]
  OBVIOUS
<1>2. 1..Len(s) + 1 = 1..Len(s) \cup {Len(s) + 1}
  BY <1>1
<1> HIDE DEF a
<1>3. Holds(a, x) <=> Holds(s, x) \/ x = y
  BY <1>1, <1>2 DEF Holds
<1> QED
  BY <1>1, <1>3 DEF a

\* A loop that has nothing left holds nothing.
LEMMA HoldsNothing == \A x : ~Holds(<<>>, x)
BY DEF Holds

\* The only chunk left is the first one.
LEMMA HoldsLast ==
  ASSUME NEW s \in Seq(Texts), s # <<>>, ~(Len(s) > 1), NEW x, Holds(s, x)
  PROVE  x = Head(s)
BY DEF Holds

-----------------------------------------------------------------------------
\* No task starts anywhere but at the beginning, with an empty store.
LEMMA InitInv == Init => IngestionInv
<1> SUFFICES ASSUME Init PROVE IngestionInv
  OBVIOUS
<1> USE RagAssumption DEF Init
<1>1. TypeOK
  BY DEF TypeOK
<1>2. Governed
  BY DEF Governed
<1>3. Complete
  BY DEF Complete, Accounted
<1>4. GovernedStore /\ OneWriterPerKey
  BY DEF GovernedStore, OneWriterPerKey
<1> QED
  BY <1>1, <1>2, <1>3, <1>4 DEF IngestionInv

\* The start of an attempt puts all chunks of the source in the task's hands.
LEMMA FetchKeepsInv ==
  ASSUME IngestionInv, NEW t \in Tasks, fetch_documents(t)
  PROVE  IngestionInv'
<1> USE RagAssumption DEF IngestionInv, fetch_documents, config, store, Goto
<1>1. Chunks(t) \in Seq(Texts) /\ Chunks(t) # <<>>
  BY DEF TypeOK, Chunks
<1>2. TypeOK'
  BY <1>1 DEF TypeOK, Keys
<1>3. Governed'
  BY DEF TypeOK, Governed, Admissible, Key, detect_pii
<1>4. Complete'
  <2>1. \A x \in TextsOf(t) : Holds(Chunks(t), x)
    BY <1>1 DEF TextsOf, Holds
  <2> QED
    BY <2>1 DEF TypeOK, Complete, Accounted, Stored, Refused, Key, Admissible, TextsOf, Chunks, detect_pii
<1>5. GovernedStore' /\ OneWriterPerKey'
  BY DEF TypeOK, GovernedStore, OneWriterPerKey, Keys
<1> QED
  BY <1>2, <1>3, <1>4, <1>5

\* A list of more than one chunk has another one after the first.
LEMMA MoreToVisit ==
  ASSUME NEW s \in Seq(Texts), Len(s) > 1
  PROVE  Tail(s) # <<>>
<1>1. /\ Tail(s) \in Seq(Texts)
      /\ \A i \in 1..Len(s) - 1 : i \in 1..Len(Tail(s))
      /\ 1 \in 1..Len(s) - 1
  OBVIOUS
<1>2. 1 \notin 1..Len(<<>>)
  OBVIOUS
<1> QED
  BY <1>1, <1>2, Zenon

\* What a visit does: the first chunk leaves the list and is kept or not; after the last
\* one the kept chunks become the list, of the step that goes on if there are any.
Visited(t, keeps, onEmpty, onRest) ==
  /\ todo' \in [Tasks -> Seq(Texts)] /\ kept' \in [Tasks -> Seq(Texts)]
  /\ \A u \in Tasks \ {t} : pc'[u] = pc[u] /\ todo'[u] = todo[u] /\ kept'[u] = kept[u]
  /\ Head(todo[t]) \in Texts /\ Holds(todo[t], Head(todo[t]))
  /\ \/ /\ pc' = pc /\ todo'[t] # <<>>
        /\ \A x : Holds(todo'[t], x) => Holds(todo[t], x)
        /\ \A x : Holds(todo[t], x) => x = Head(todo[t]) \/ Holds(todo'[t], x)
        /\ \A x : Holds(kept'[t], x) <=> Holds(kept[t], x) \/ (keeps /\ x = Head(todo[t]))
     \/ /\ pc' = [pc EXCEPT ![t] = onRest]
        /\ todo'[t] # <<>> /\ kept'[t] = <<>>
        /\ \A x : Holds(todo[t], x) => x = Head(todo[t])
        /\ \A x : Holds(todo'[t], x) <=> Holds(kept[t], x) \/ (keeps /\ x = Head(todo[t]))
     \/ /\ pc' = [pc EXCEPT ![t] = onEmpty]
        /\ todo'[t] = <<>> /\ kept'[t] = <<>>
        /\ \A x : Holds(todo[t], x) => x = Head(todo[t])
        /\ \A x : ~(Holds(kept[t], x) \/ (keeps /\ x = Head(todo[t])))

\* Visit does what Visited says.
LEMMA VisitMovesChunks ==
  ASSUME TypeOK, NEW t \in Tasks, pc[t] \in {"deduplicate", "govern"}, NEW keeps \in BOOLEAN,
         NEW onEmpty, NEW onRest,
         Visit(t, keeps, [e \in BOOLEAN |-> IF e THEN onEmpty ELSE onRest])
  PROVE  Visited(t, keeps, onEmpty, onRest)
<1> DEFINE s == todo[t]
           left == IF keeps THEN Append(kept[t], Head(s)) ELSE kept[t]
<1>1. /\ s \in Seq(Texts) /\ s # <<>> /\ kept[t] \in Seq(Texts)
      /\ todo \in [Tasks -> Seq(Texts)] /\ kept \in [Tasks -> Seq(Texts)] /\ pc = [u \in Tasks |-> pc[u]]
  BY DEF TypeOK
<1>2. Head(s) \in Texts /\ Tail(s) \in Seq(Texts) /\ Holds(s, Head(s))
  BY <1>1, HoldsSplit
<1>3. left \in Seq(Texts) /\ \A x : Holds(left, x) <=> Holds(kept[t], x) \/ (keeps /\ x = Head(s))
  BY <1>1, <1>2, HoldsAppend
<1>4. CASE Len(s) > 1
  <2>1. /\ todo' = [todo EXCEPT ![t] = Tail(s)] /\ kept' = [kept EXCEPT ![t] = left] /\ pc' = pc
    BY <1>4, <1>1 DEF Visit
  <2>2. Tail(s) # <<>>
    BY <1>1, <1>4, MoreToVisit
  <2>3. \A x : /\ Holds(Tail(s), x) => Holds(s, x)
               /\ Holds(s, x) => x = Head(s) \/ Holds(Tail(s), x)
    BY <1>1, HoldsSplit
  <2> HIDE DEF left
  <2> QED
    BY <1>1, <1>2, <1>3, <2>1, <2>2, <2>3 DEF Visited
<1>5. CASE ~(Len(s) > 1)
  <2>1. /\ todo' = [todo EXCEPT ![t] = left] /\ kept' = [kept EXCEPT ![t] = <<>>]
        /\ pc' = [pc EXCEPT ![t] = IF left = <<>> THEN onEmpty ELSE onRest]
    BY <1>5 DEF Visit, Goto
  <2>2. \A x : Holds(s, x) => x = Head(s)
    BY <1>1, <1>5, HoldsLast
  <2>4. <<>> \in Seq(Texts)
    OBVIOUS
  <2> HIDE DEF left
  <2>3. left = <<>> => \A x : ~(Holds(kept[t], x) \/ (keeps /\ x = Head(s)))
    BY <1>3, HoldsNothing
  <2> QED
    BY <1>1, <1>2, <1>3, <2>1, <2>2, <2>3, <2>4 DEF Visited
<1> QED
  BY <1>4, <1>5

\* A chunk leaves the hands of the deduplication only when it is stored.
LEMMA DeduplicateKeepsInv ==
  ASSUME IngestionInv, NEW t \in Tasks, deduplicate_chunks(t)
  PROVE  IngestionInv'
<1> USE RagAssumption DEF IngestionInv
<1> DEFINE keeps == chunk[Key(t, Head(todo[t]))] = None
<1>1. /\ pc[t] = "deduplicate"
      /\ UNCHANGED <<source, version, written, tries, document, chunk, quarantine, late, faults>>
  BY DEF deduplicate_chunks, config, store
<1>2. Visited(t, keeps, "lineage", "govern")
  <2>1. Visit(t, keeps, [e \in BOOLEAN |-> IF e THEN "lineage" ELSE "govern"])
    BY DEF deduplicate_chunks, content_hash_exists
  <2>2. keeps \in BOOLEAN
    OBVIOUS
  <2> QED
    BY <1>1, <2>1, <2>2, VisitMovesChunks
<1> HIDE DEF keeps
<1>3. TypeOK'
  <2>1. pc' \in [Tasks -> {"fetch", "deduplicate", "govern", "register", "embed",
                           "insert", "lineage", "done", "failed"}]
    BY <1>1, <1>2 DEF TypeOK, Visited
  <2>2. ASSUME NEW u \in Tasks
        PROVE  /\ pc'[u] \in {"deduplicate", "govern", "register", "embed"} => todo'[u] # <<>>
               /\ pc'[u] \notin {"deduplicate", "govern"} => kept'[u] = <<>>
               /\ pc'[u] # "insert" => written'[u] = {}
    <3>1. CASE u # t
      BY <1>1, <1>2, <3>1 DEF TypeOK, Visited
    <3>2. CASE u = t
      BY <1>1, <1>2, <3>2 DEF TypeOK, Visited
    <3> QED
      BY <3>1, <3>2
  <2> QED
    BY <1>1, <1>2, <2>1, <2>2 DEF TypeOK, Visited, Keys
<1>4. Governed'
  <2>1. ASSUME NEW u \in Tasks, NEW x \in Texts
        PROVE  /\ Holds(kept[u], x)' /\ pc'[u] = "govern" => Admissible(u, x)
               /\ Holds(todo[u], x)' /\ pc'[u] \in {"register", "embed", "insert"} =>
                    Admissible(u, x)
    <3>1. CASE u # t
      <4>1. /\ Holds(kept[u], x)' <=> Holds(kept[u], x)
            /\ Holds(todo[u], x)' <=> Holds(todo[u], x)
        BY <1>2, <3>1 DEF Visited, Holds
      <4> QED
        BY <1>2, <3>1, <4>1 DEF Governed, Visited
    <3>2. CASE u = t
      BY <1>1, <1>2, <3>2, HoldsNothing DEF Governed, Visited, TypeOK
    <3> QED
      BY <3>1, <3>2
  <2>2. \A u \in Tasks, x \in Texts : Admissible(u, x)' <=> Admissible(u, x)
    BY <1>1 DEF Admissible, detect_pii
  <2>3. \A u \in Tasks : pc'[u] \in {"embed", "insert"} => pc[u] \in {"embed", "insert"}
    BY <1>1, <1>2 DEF TypeOK, Visited
  <2>4. \A u \in Tasks : \A k \in written'[u] : \E x \in Texts : k = Key(u, x)' /\ Admissible(u, x)'
    BY <1>1, <2>2 DEF Governed, Key
  <2> QED
    BY <1>1, <2>1, <2>2, <2>3, <2>4 DEF Governed
<1>5. Complete'
  <2> SUFFICES ASSUME NEW u \in Tasks, NEW x \in TextsOf(u)
               PROVE  Accounted(u, x)'
    BY <1>1 DEF Complete, TextsOf, Chunks
  <2> USE DEF Accounted, Stored, Key
  <2>1. Refused(u, x) => Refused(u, x)'
    BY <1>1 DEF Refused, Admissible, detect_pii
  <2>2. CASE u # t
    BY <1>1, <1>2, <2>1, <2>2 DEF Complete, Visited
  <2>3. CASE u = t
    <3>1. x = Head(todo[t]) => keeps \/ Stored(t, x)
      BY <1>1, <2>3 DEF keeps, Stored
    <3> QED
      BY <1>1, <1>2, <2>1, <2>3, <3>1 DEF Complete, Visited, TypeOK
  <2> QED
    BY <2>2, <2>3
<1>6. GovernedStore' /\ OneWriterPerKey'
  BY <1>1 DEF GovernedStore, OneWriterPerKey, Keys
<1> QED
  BY <1>3, <1>4, <1>5, <1>6

\* A chunk leaves the hands of governance only with a quarantine row; what stays was admitted.
LEMMA GovernKeepsInv ==
  ASSUME IngestionInv, NEW t \in Tasks, enforce_licensing_and_metadata(t)
  PROVE  IngestionInv'
<1> USE RagAssumption DEF IngestionInv
<1> DEFINE keeps == Admissible(t, Head(todo[t]))
<1>1. /\ pc[t] = "govern"
      /\ quarantine' = IF keeps THEN quarantine ELSE quarantine \cup {Head(todo[t])}
      /\ UNCHANGED <<source, version, written, tries, document, chunk, late, faults>>
  BY DEF enforce_licensing_and_metadata, enforce_chunk_governance, config
<1>2. Visited(t, keeps, "lineage", "register")
  <2>1. Visit(t, keeps, [e \in BOOLEAN |-> IF e THEN "lineage" ELSE "register"])
    BY DEF enforce_licensing_and_metadata, enforce_chunk_governance
  <2>2. keeps \in BOOLEAN
    BY DEF Admissible
  <2> QED
    BY <1>1, <2>1, <2>2, VisitMovesChunks
<1> HIDE DEF keeps
<1>3. TypeOK'
  <2>1. pc' \in [Tasks -> {"fetch", "deduplicate", "govern", "register", "embed",
                           "insert", "lineage", "done", "failed"}]
    BY <1>1, <1>2 DEF TypeOK, Visited
  <2>2. ASSUME NEW u \in Tasks
        PROVE  /\ pc'[u] \in {"deduplicate", "govern", "register", "embed"} => todo'[u] # <<>>
               /\ pc'[u] \notin {"deduplicate", "govern"} => kept'[u] = <<>>
               /\ pc'[u] # "insert" => written'[u] = {}
    <3>1. CASE u # t
      BY <1>1, <1>2, <3>1 DEF TypeOK, Visited
    <3>2. CASE u = t
      BY <1>1, <1>2, <3>2 DEF TypeOK, Visited
    <3> QED
      BY <3>1, <3>2
  <2> QED
    BY <1>1, <1>2, <2>1, <2>2 DEF TypeOK, Visited, Keys
<1>4. Governed'
  <2>1. ASSUME NEW u \in Tasks, NEW x \in Texts
        PROVE  /\ Holds(kept[u], x)' /\ pc'[u] = "govern" => Admissible(u, x)
               /\ Holds(todo[u], x)' /\ pc'[u] \in {"register", "embed", "insert"} =>
                    Admissible(u, x)
    <3>1. CASE u # t
      <4>1. /\ Holds(kept[u], x)' <=> Holds(kept[u], x)
            /\ Holds(todo[u], x)' <=> Holds(todo[u], x)
        BY <1>2, <3>1 DEF Visited, Holds
      <4> QED
        BY <1>2, <3>1, <4>1 DEF Governed, Visited
    <3>2. CASE u = t
      BY <1>1, <1>2, <3>2, HoldsNothing DEF Governed, Visited, TypeOK, keeps
    <3> QED
      BY <3>1, <3>2
  <2>2. \A u \in Tasks, x \in Texts : Admissible(u, x)' <=> Admissible(u, x)
    BY <1>1 DEF Admissible, detect_pii
  <2>3. \A u \in Tasks : pc'[u] \in {"embed", "insert"} => pc[u] \in {"embed", "insert"}
    BY <1>1, <1>2 DEF TypeOK, Visited
  <2>4. \A u \in Tasks : \A k \in written'[u] : \E x \in Texts : k = Key(u, x)' /\ Admissible(u, x)'
    BY <1>1, <2>2 DEF Governed, Key
  <2> QED
    BY <1>1, <2>1, <2>2, <2>3, <2>4 DEF Governed
<1>5. Complete'
  <2> SUFFICES ASSUME NEW u \in Tasks, NEW x \in TextsOf(u)
               PROVE  Accounted(u, x)'
    BY <1>1 DEF Complete, TextsOf, Chunks
  <2> USE DEF Accounted, Stored, Key
  <2>1. Refused(u, x) => Refused(u, x)'
    BY <1>1 DEF Refused, Admissible, detect_pii
  <2>2. CASE u # t
    BY <1>1, <1>2, <2>1, <2>2 DEF Complete, Visited
  <2>3. CASE u = t
    <3>1. x = Head(todo[t]) => keeps \/ Refused(t, x)'
      BY <1>1, <2>3 DEF keeps, Refused, Admissible, detect_pii
    <3> QED
      BY <1>1, <1>2, <2>1, <2>3, <3>1 DEF Complete, Visited, TypeOK
  <2> QED
    BY <2>2, <2>3
<1>6. GovernedStore' /\ OneWriterPerKey'
  BY <1>1 DEF GovernedStore, OneWriterPerKey, Keys
<1> QED
  BY <1>3, <1>4, <1>5, <1>6

\* A task that registers holds chunks its source may publish.
LEMMA RegisterKeepsInv ==
  ASSUME IngestionInv, NEW t \in Tasks, upsert_document(t)
  PROVE  IngestionInv'
<1> USE RagAssumption DEF IngestionInv
<1>1. /\ pc[t] = "register" /\ pc' = [pc EXCEPT ![t] = "embed"]
      /\ document' = [document EXCEPT ![Doc[source[t]]] = IF @ = None THEN source[t] ELSE @]
      /\ UNCHANGED <<source, version, todo, kept, written, tries, chunk, quarantine, late, faults>>
  BY DEF upsert_document, config, Goto
<1>2. TypeOK'
  BY <1>1 DEF TypeOK, Keys
<1>3. source[t] \in Licensed \cap Open
  <2>1. Head(todo[t]) \in Texts /\ Holds(todo[t], Head(todo[t]))
    BY <1>1, HoldsSplit DEF TypeOK
  <2> QED
    BY <1>1, <2>1 DEF Governed, Admissible
<1>4. \A d \in Documents :
        /\ document[d] # None => document'[d] = document[d]
        /\ document'[d] # None => document'[d] \in Licensed \cap Open
  BY <1>1, <1>3 DEF TypeOK, Governed
<1>5. \A u \in Tasks : pc'[u] \in {"embed", "insert"} => document'[Doc[source[u]]] # None
  <2>1. source[t] # None /\ \A u \in Tasks : Doc[source[u]] \in Documents
    BY DEF TypeOK
  <2> QED
    BY <1>1, <1>4, <2>1 DEF TypeOK, Governed
<1>6. Governed'
  <2>1. \A u \in Tasks, x \in Texts : Holds(todo'[u], x) <=> Holds(todo[u], x)
    BY <1>1
  <2>2. \A u \in Tasks, x \in Texts : Admissible(u, x)' <=> Admissible(u, x)
    BY <1>1 DEF Admissible, detect_pii
  <2>3. \A u \in Tasks, x \in Texts : Key(u, x)' = Key(u, x)
    BY <1>1 DEF Key
  <2> QED
    BY <1>1, <1>4, <1>5, <2>2, <2>3 DEF Governed, Holds, TypeOK
<1>7. Complete'
  BY <1>1 DEF TypeOK, Complete, Accounted, Stored, Refused, Key, Admissible, TextsOf, Chunks,
     detect_pii
<1>8. GovernedStore' /\ OneWriterPerKey'
  <2>1. \A k \in Keys : chunk[k] # None => Doc[source[chunk[k]]] \in Documents
    BY DEF TypeOK
  <2>2. GovernedStore'
    BY <1>1, <1>4, <2>1 DEF GovernedStore, Keys
  <2> QED
    BY <1>1, <2>2 DEF OneWriterPerKey
<1> QED
  BY <1>2, <1>6, <1>7, <1>8

\* The embedding call changes nothing the others see.
LEMMA EmbedKeepsInv ==
  ASSUME IngestionInv, NEW t \in Tasks, embed(t)
  PROVE  IngestionInv'
<1> USE RagAssumption DEF IngestionInv
<1>1. /\ pc[t] = "embed" /\ pc' = [pc EXCEPT ![t] = "insert"]
      /\ UNCHANGED <<source, version, todo, kept, written, tries, store, late, faults>>
  BY DEF embed, config, Goto
<1>2. TypeOK'
  BY <1>1 DEF TypeOK, Keys, store
<1>3. Governed'
  BY <1>1 DEF Governed, Admissible, Key, TypeOK, detect_pii, store
<1>4. Complete'
  BY <1>1 DEF TypeOK, Complete, Accounted, Stored, Refused, Key, Admissible, TextsOf, Chunks,
     detect_pii, store
<1>5. GovernedStore' /\ OneWriterPerKey'
  BY <1>1 DEF GovernedStore, OneWriterPerKey, Keys, store
<1> QED
  BY <1>2, <1>3, <1>4, <1>5

\* An insert waits for every transaction that holds its key, so keys stay apart.
LEMMA InsertChunkKeepsInv ==
  ASSUME IngestionInv, NEW t \in Tasks, InsertChunk(t)
  PROVE  IngestionInv'
<1> USE RagAssumption DEF IngestionInv
<1> DEFINE x0 == Head(todo[t])
           rows == IF chunk[Key(t, x0)] # None THEN written[t] ELSE written[t] \cup {Key(t, x0)}
<1>1. /\ pc[t] = "insert" /\ todo[t] # <<>>
      /\ \A u \in Tasks \ {t} : Key(t, x0) \notin written[u]
      /\ written' = [written EXCEPT ![t] = rows]
      /\ todo' = [todo EXCEPT ![t] = Tail(todo[t])]
      /\ UNCHANGED <<source, version, pc, kept, tries, document, chunk, quarantine, late, faults>>
  BY DEF InsertChunk, WaitsFor, config, store
<1>2. /\ x0 \in Texts /\ Tail(todo[t]) \in Seq(Texts) /\ Holds(todo[t], x0)
      /\ \A x : /\ Holds(Tail(todo[t]), x) => Holds(todo[t], x)
                /\ Holds(todo[t], x) => x = x0 \/ Holds(Tail(todo[t]), x)
  BY <1>1, HoldsSplit DEF TypeOK
<1>3. Key(t, x0) \in Keys
  BY <1>2 DEF TypeOK, Key, Keys
<1>4. Admissible(t, x0)
  BY <1>1, <1>2 DEF Governed
<1> HIDE DEF x0
<1>5. TypeOK'
  <2>1. rows \subseteq Keys
    BY <1>3 DEF TypeOK
  <2> HIDE DEF rows
  <2> QED
    BY <1>1, <1>2, <2>1 DEF TypeOK, Keys
<1>6. Governed'
  <2>1. \A u \in Tasks, x \in Texts : Holds(todo'[u], x) => Holds(todo[u], x)
    BY <1>1, <1>2 DEF TypeOK
  <2>2. \A u \in Tasks, x \in Texts :
          (Admissible(u, x)' <=> Admissible(u, x)) /\ Key(u, x)' = Key(u, x)
    BY <1>1 DEF Admissible, detect_pii, Key
  <2>3. ASSUME NEW u \in Tasks, NEW k \in written'[u]
        PROVE  \E x \in Texts : k = Key(u, x) /\ Admissible(u, x)
    BY <1>1, <1>2, <1>4, <2>3 DEF Governed, TypeOK
  <2> QED
    BY <1>1, <2>1, <2>2, <2>3 DEF Governed, Holds
<1>7. Complete'
  <2> SUFFICES ASSUME NEW u \in Tasks, NEW x \in TextsOf(u)
               PROVE  Accounted(u, x)'
    BY <1>1 DEF Complete, TextsOf, Chunks
  <2>1. (Refused(u, x)' <=> Refused(u, x)) /\ (Stored(u, x)' <=> Stored(u, x)) /\ Key(u, x)' = Key(u, x)
    BY <1>1 DEF Refused, Stored, Admissible, detect_pii, Key
  <2>2. CASE u # t
    BY <1>1, <2>1, <2>2 DEF Complete, Accounted, TypeOK, Holds
  <2>3. CASE u = t
    <3>1. x = x0 => Stored(t, x) \/ Key(t, x) \in written'[t]
      BY <1>1 DEF Stored, TypeOK
    <3>2. Holds(todo[t], x) => x = x0 \/ Holds(todo'[t], x)
      BY <1>1, <1>2 DEF TypeOK
    <3>3. written[t] \subseteq written'[t]
      BY <1>1 DEF TypeOK
    <3> QED
      BY <1>1, <2>1, <2>3, <3>1, <3>2, <3>3 DEF Complete, Accounted
  <2> QED
    BY <2>2, <2>3
<1>8. GovernedStore' /\ OneWriterPerKey'
  BY <1>1 DEF GovernedStore, OneWriterPerKey, Keys, TypeOK
<1> QED
  BY <1>5, <1>6, <1>7, <1>8

\* The commit stores the rows of the transaction, all of them admitted ones.
LEMMA CommitKeepsInv ==
  ASSUME IngestionInv, NEW t \in Tasks, insert_chunks(t)
  PROVE  IngestionInv'
<1> USE RagAssumption DEF IngestionInv
<1>1. /\ pc[t] = "insert" /\ todo[t] = <<>> /\ pc' = [pc EXCEPT ![t] = "lineage"]
      /\ chunk' = [k \in Keys |-> IF k \in written[t] THEN t ELSE chunk[k]]
      /\ written' = [written EXCEPT ![t] = {}]
      /\ UNCHANGED <<source, version, todo, kept, tries, document, quarantine, late, faults>>
  BY DEF insert_chunks, config, Goto
<1>2. TypeOK'
  BY <1>1 DEF TypeOK, Keys
<1>3. \A k \in Keys : chunk[k] # None => chunk'[k] # None
  BY <1>1 DEF TypeOK
<1>4. Governed'
  <2>1. \A u \in Tasks, x \in Texts :
          (Admissible(u, x)' <=> Admissible(u, x)) /\ Key(u, x)' = Key(u, x)
    BY <1>1 DEF Admissible, detect_pii, Key
  <2>2. \A u \in Tasks : written'[u] \subseteq written[u]
    BY <1>1 DEF TypeOK
  <2>3. \A u \in Tasks :
          /\ pc'[u] \in {"register", "embed", "insert"} =>
               pc[u] \in {"register", "embed", "insert"}
          /\ pc'[u] \in {"embed", "insert"} => pc[u] \in {"embed", "insert"}
          /\ pc'[u] = "govern" => pc[u] = "govern"
    BY <1>1 DEF TypeOK
  <2> QED
    BY <1>1, <2>1, <2>2, <2>3 DEF Governed, Holds
<1>5. Complete'
  <2> SUFFICES ASSUME NEW u \in Tasks, NEW x \in TextsOf(u)
               PROVE  Accounted(u, x)'
    BY <1>1 DEF Complete, TextsOf, Chunks
  <2>1. Key(u, x) \in Keys /\ Key(u, x)' = Key(u, x)
    BY <1>1 DEF TypeOK, Key, Keys, TextsOf, Chunks
  <2>2. (Refused(u, x)' <=> Refused(u, x)) /\ (Stored(u, x) => Stored(u, x)')
    BY <1>1, <1>3, <2>1 DEF Refused, Stored, Admissible, detect_pii
  <2>3. CASE u # t
    BY <1>1, <2>1, <2>2, <2>3 DEF Complete, Accounted, TypeOK, Holds
  <2>4. CASE u = t
    <3>1. Key(t, x) \in written[t] => Stored(t, x)'
      BY <1>1, <2>1, <2>4 DEF Stored
    <3>2. ~Holds(todo[t], x)
      BY <1>1, HoldsNothing
    <3> QED
      BY <1>1, <2>2, <2>4, <3>1, <3>2 DEF Complete, Accounted, TypeOK
  <2> QED
    BY <2>3, <2>4
<1>6. GovernedStore'
  <2> SUFFICES ASSUME NEW k \in Keys, chunk'[k] # None
               PROVE  /\ source[chunk'[k]] \in Licensed \cap Open
                      /\ k[1] \notin Private
                      /\ document[Doc[source[chunk'[k]]]] \in Licensed \cap Open
    BY <1>1 DEF GovernedStore, Keys
  <2>1. CASE k \in written[t]
    <3>1. chunk'[k] = t
      BY <1>1, <2>1
    <3>2. PICK x \in Texts : k = Key(t, x) /\ Admissible(t, x)
      BY <2>1 DEF Governed
    <3>3. document[Doc[source[t]]] \in Licensed \cap Open
      BY <1>1 DEF Governed, TypeOK
    <3> QED
      BY <3>1, <3>2, <3>3 DEF Key, Admissible, detect_pii
  <2>2. CASE k \notin written[t]
    BY <1>1, <2>2 DEF GovernedStore
  <2> QED
    BY <2>1, <2>2
<1>7. OneWriterPerKey'
  BY <1>1 DEF OneWriterPerKey, TypeOK
<1> QED
  BY <1>2, <1>4, <1>5, <1>6, <1>7

\* Lineage is emitted when the store is already as it will be.
LEMMA LineageKeepsInv ==
  ASSUME IngestionInv, NEW t \in Tasks, run_ingestion_task(t)
  PROVE  IngestionInv'
<1> USE RagAssumption DEF IngestionInv
<1>1. /\ pc[t] = "lineage" /\ pc' = [pc EXCEPT ![t] = "done"]
      /\ UNCHANGED <<source, version, todo, kept, written, tries, store, late, faults>>
  BY DEF run_ingestion_task, config, Goto
<1>2. TypeOK'
  BY <1>1 DEF TypeOK, Keys, store
<1>3. Governed'
  BY <1>1 DEF Governed, Admissible, Key, TypeOK, detect_pii, store
<1>4. Complete'
  BY <1>1 DEF TypeOK, Complete, Accounted, Stored, Refused, Key, Admissible, TextsOf, Chunks,
     detect_pii, store
<1>5. GovernedStore' /\ OneWriterPerKey'
  BY <1>1 DEF GovernedStore, OneWriterPerKey, Keys, store
<1> QED
  BY <1>2, <1>3, <1>4, <1>5

\* An attempt that fails, or loses a deadlock, leaves what was committed and nothing else.
LEMMA FailureKeepsInv ==
  ASSUME IngestionInv, NEW t \in Tasks, AttemptFails(t), faults' \in 0..MaxFaults
  PROVE  IngestionInv'
<1> USE RagAssumption DEF IngestionInv
<1>1. /\ pc' = [pc EXCEPT ![t] = pc'[t]] /\ pc'[t] \in {"fetch", "failed"}
      /\ tries' \in [Tasks -> 0..Retries]
      /\ todo' = [todo EXCEPT ![t] = <<>>] /\ kept' = [kept EXCEPT ![t] = <<>>]
      /\ written' = [written EXCEPT ![t] = {}]
      /\ UNCHANGED <<source, version, document, chunk, quarantine, late>>
  <2>1. CASE tries[t] < Retries
    <3>1. pc' = [pc EXCEPT ![t] = "fetch"] /\ tries' = [tries EXCEPT ![t] = tries[t] + 1]
      BY <2>1 DEF AttemptFails, Goto
    <3>2. tries[t] + 1 \in 0..Retries
      BY <2>1 DEF TypeOK
    <3> QED
      BY <3>1, <3>2 DEF AttemptFails, config, store, TypeOK
  <2>2. CASE ~(tries[t] < Retries)
    BY <2>2 DEF AttemptFails, config, store, TypeOK, Goto
  <2> QED
    BY <2>1, <2>2
<1>2. TypeOK'
  <2>1. <<>> \in Seq(Texts)
    OBVIOUS
  <2> QED
    BY <1>1, <2>1 DEF TypeOK, Keys
<1>3. Governed'
  <2>1. \A u \in Tasks, x \in Texts :
          (Admissible(u, x)' <=> Admissible(u, x)) /\ Key(u, x)' = Key(u, x)
    BY <1>1 DEF Admissible, detect_pii, Key
  <2>2. \A u \in Tasks, x \in Texts :
          /\ pc'[u] = "govern" => pc[u] = "govern" /\ kept'[u] = kept[u]
          /\ pc'[u] \in {"register", "embed", "insert"} => pc'[u] = pc[u] /\ todo'[u] = todo[u]
    BY <1>1 DEF TypeOK
  <2>3. \A u \in Tasks : written'[u] \subseteq written[u]
    BY <1>1 DEF TypeOK
  <2>4. \A u \in Tasks : pc'[u] \in {"embed", "insert"} => pc[u] = pc'[u]
    BY <1>1 DEF TypeOK
  <2> QED
    BY <1>1, <2>1, <2>2, <2>3, <2>4 DEF Governed, Holds
<1>4. Complete'
  <2> SUFFICES ASSUME NEW u \in Tasks, NEW x \in TextsOf(u)
               PROVE  Accounted(u, x)'
    BY <1>1 DEF Complete, TextsOf, Chunks
  <2>1. CASE u # t
    <3>1. /\ Refused(u, x)' <=> Refused(u, x)
          /\ Stored(u, x)' <=> Stored(u, x)
          /\ Key(u, x)' = Key(u, x)
      BY <1>1 DEF Refused, Stored, Admissible, detect_pii, Key
    <3>2. /\ Holds(todo[u], x)' <=> Holds(todo[u], x)
          /\ Holds(kept[u], x)' <=> Holds(kept[u], x)
          /\ pc'[u] = pc[u] /\ written'[u] = written[u]
      BY <1>1, <2>1 DEF TypeOK, Holds
    <3> QED
      BY <3>1, <3>2 DEF Complete, Accounted
  <2>2. CASE u = t
    BY <1>1, <2>2 DEF Accounted, TypeOK
  <2> QED
    BY <2>1, <2>2
<1>5. GovernedStore' /\ OneWriterPerKey'
  BY <1>1 DEF GovernedStore, OneWriterPerKey, Keys, TypeOK
<1> QED
  BY <1>2, <1>3, <1>4, <1>5

-----------------------------------------------------------------------------
\* Every step keeps the inductive invariant.
LEMMA NextKeepsInv == IngestionInv /\ [Next]_vars => IngestionInv'
<1> SUFFICES ASSUME IngestionInv, [Next]_vars
             PROVE  IngestionInv'
  OBVIOUS
<1>1. ASSUME NEW t \in Tasks, Step(t)
      PROVE  IngestionInv'
  <2>1. ASSUME DeadlockVictim(t)
        PROVE  IngestionInv'
    BY <2>1, FailureKeepsInv DEF DeadlockVictim, IngestionInv, TypeOK
  <2> QED
    BY <1>1, <2>1, FetchKeepsInv, DeduplicateKeepsInv, GovernKeepsInv, RegisterKeepsInv,
       EmbedKeepsInv, InsertChunkKeepsInv, CommitKeepsInv, LineageKeepsInv DEF Step
<1>2. ASSUME NEW t \in Tasks, Fault(t)
      PROVE  IngestionInv'
  <2>1. faults' \in 0..MaxFaults
    BY <1>2, RagAssumption DEF Fault, IngestionInv, TypeOK
  <2> QED
    BY <1>2, <2>1, FailureKeepsInv DEF Fault
<1>3. CASE UNCHANGED vars
  <2> USE <1>3 DEF vars, config, local, store, IngestionInv
  <2>1. TypeOK'
    BY DEF TypeOK, Keys
  <2>2. Governed'
    BY DEF Governed, Key, Admissible, detect_pii, Holds
  <2>3. Complete'
    BY DEF Complete, Accounted, Key, Admissible, detect_pii, Stored, Refused, TextsOf, Chunks, Holds
  <2>4. GovernedStore' /\ OneWriterPerKey'
    BY DEF GovernedStore, OneWriterPerKey, Keys
  <2> QED
    BY <2>1, <2>2, <2>3, <2>4
<1> QED
  BY <1>1, <1>2, <1>3 DEF Next

\* The inductive invariant holds in every reachable state.
THEOREM IngestionInvariant == Spec => []IngestionInv
BY InitInv, NextKeepsInv, PTL DEF Spec

\* Whatever fails and overlaps, the store holds only chunks that may be published, under
\* a document registered by a source that may publish it (enforce_chunk_governance,
\* upsert_document).
THEOREM StoreIsGoverned == Spec => []GovernedStore
<1>1. IngestionInv => GovernedStore
  BY DEF IngestionInv
<1> QED
  BY <1>1, IngestionInvariant, PTL

\* A task that reports success left nothing out (deduplicate_chunks, insert_chunks).
THEOREM SuccessLeavesNothingOut == Spec => []SuccessIsComplete
<1>1. IngestionInv => SuccessIsComplete
  BY DEF IngestionInv, Complete, Accounted, Stored, Refused, SuccessIsComplete
<1> QED
  BY <1>1, IngestionInvariant, PTL

\* No two open transactions hold a key, and none holds a stored one: a task that commits
\* overwrites nobody's row (insert_chunks).
THEOREM WritersAreApart == Spec => []OneWriterPerKey
<1>1. IngestionInv => OneWriterPerKey
  BY DEF IngestionInv
<1> QED
  BY <1>1, IngestionInvariant, PTL
-----------------------------------------------------------------------------
(* Reruns.                                                                 *)

\* Why a late attempt t writes nothing: no chunk of its source is both missing and
\* admissible, so what deduplication keeps governance refuses.
Idle(t) ==
  /\ pc[t] \notin {"register", "embed", "insert"}
  /\ \A x \in TextsOf(t) : Stored(t, x) \/ ~Admissible(t, x)
  /\ pc[t] = "deduplicate" =>
       \A x : /\ Holds(todo[t], x) => x \in TextsOf(t)
              /\ Holds(kept[t], x) => ~Admissible(t, x)
  /\ pc[t] = "govern" =>
       \A x : /\ Holds(todo[t], x) => ~Admissible(t, x)
              /\ ~Holds(kept[t], x)

RerunInv == IngestionInv /\ \A t \in late : Idle(t)

\* The store only grows, and nobody but the task itself moves a task.
LEMMA StepFrame ==
  ASSUME IngestionInv, NEW t \in Tasks, Step(t) \/ Fault(t)
  PROVE  /\ UNCHANGED <<source, version>>
         /\ \A k \in Keys : chunk[k] # None => chunk'[k] # None
         /\ \A u \in Tasks \ {t} : pc'[u] = pc[u] /\ todo'[u] = todo[u] /\ kept'[u] = kept[u]
         /\ late' = late \/ (pc[t] = "fetch" /\ late' = late \cup {t})
<1> USE RagAssumption DEF config, store, Goto, IngestionInv
<1>1. CASE fetch_documents(t)
  BY <1>1 DEF fetch_documents, TypeOK
<1>2. CASE deduplicate_chunks(t)
  BY <1>2 DEF deduplicate_chunks, Visit, TypeOK
<1>3. CASE enforce_licensing_and_metadata(t)
  BY <1>3 DEF enforce_licensing_and_metadata, Visit, TypeOK
<1>4. CASE upsert_document(t) \/ embed(t) \/ run_ingestion_task(t)
  BY <1>4 DEF upsert_document, embed, run_ingestion_task, TypeOK
<1>5. CASE InsertChunk(t)
  BY <1>5 DEF InsertChunk, TypeOK
<1>6. CASE insert_chunks(t)
  BY <1>6 DEF insert_chunks, TypeOK
<1>7. CASE AttemptFails(t)
  BY <1>7 DEF AttemptFails, TypeOK
<1> QED
  BY <1>1, <1>2, <1>3, <1>4, <1>5, <1>6, <1>7 DEF Step, Fault, DeadlockVictim

\* What is stored or refused stays so.
LEMMA SettledForGood ==
  ASSUME IngestionInv, NEW t \in Tasks, UNCHANGED <<source, version>>,
         \A k \in Keys : chunk[k] # None => chunk'[k] # None
  PROVE  /\ TextsOf(t)' = TextsOf(t)
         /\ \A x : Admissible(t, x)' <=> Admissible(t, x)
         /\ \A x \in TextsOf(t) : Stored(t, x) => Stored(t, x)'
<1>1. \A x \in TextsOf(t) : Key(t, x) \in Keys /\ Key(t, x)' = Key(t, x)
  BY RagAssumption DEF IngestionInv, TypeOK, TextsOf, Chunks, Key, Keys
<1> QED
  BY <1>1 DEF TextsOf, Chunks, Admissible, detect_pii, Stored

\* A late attempt stays idle while others move.
LEMMA OthersStayIdle ==
  ASSUME RerunInv, NEW u \in Tasks, u \in late, UNCHANGED <<source, version>>,
         \A k \in Keys : chunk[k] # None => chunk'[k] # None,
         pc'[u] = pc[u], todo'[u] = todo[u], kept'[u] = kept[u]
  PROVE  Idle(u)'
<1>1. /\ TextsOf(u)' = TextsOf(u)
      /\ \A x : Admissible(u, x)' <=> Admissible(u, x)
      /\ \A x \in TextsOf(u) : Stored(u, x) => Stored(u, x)'
  BY SettledForGood DEF RerunInv
<1>2. \A x : Holds(todo[u], x)' <=> Holds(todo[u], x)
  BY DEF Holds
<1>3. \A x : Holds(kept[u], x)' <=> Holds(kept[u], x)
  BY DEF Holds
<1>4. Idle(u)
  BY DEF RerunInv
<1> QED
  BY <1>1, <1>2, <1>3, <1>4 DEF Idle

\* A late attempt stays idle whatever it does, and an attempt that begins late is idle.
LEMMA StepKeepsIdle ==
  ASSUME RerunInv, NEW t \in Tasks, Step(t) \/ Fault(t), t \in late'
  PROVE  Idle(t)'
<1> USE RagAssumption DEF RerunInv
<1>1. /\ UNCHANGED <<source, version>>
      /\ TextsOf(t)' = TextsOf(t)
      /\ \A x : Admissible(t, x)' <=> Admissible(t, x)
      /\ \A x \in TextsOf(t) : Stored(t, x) => Stored(t, x)'
  BY StepFrame, SettledForGood
<1>2. t \notin late => fetch_documents(t)
  BY DEF Step, Fault, deduplicate_chunks, enforce_licensing_and_metadata, upsert_document, embed,
     InsertChunk, insert_chunks, run_ingestion_task, DeadlockVictim, AttemptFails
<1>3. CASE fetch_documents(t)
  <2>1. /\ pc'[t] = "deduplicate" /\ todo'[t] = Chunks(t) /\ kept'[t] = <<>>
    BY <1>3 DEF fetch_documents, Goto, IngestionInv, TypeOK
  <2>2. \A x : Holds(Chunks(t), x) => x \in TextsOf(t)
    <3>1. Chunks(t) \in Seq(Texts)
      BY DEF IngestionInv, TypeOK, Chunks
    <3> QED
      BY <3>1 DEF Holds, TextsOf
  <2>3. \A x \in TextsOf(t) : Stored(t, x) \/ ~Admissible(t, x)
    <3>1. CASE t \in late
      BY <3>1 DEF Idle
    <3>2. CASE t \notin late
      <4>1. PICK u \in Tasks : pc[u] = "done" /\ source[u] = source[t] /\ version[u] = version[t]
        BY <1>3, <3>2 DEF fetch_documents, Settled
      <4>2. TextsOf(u) = TextsOf(t)
        BY <4>1 DEF TextsOf, Chunks
      <4>3. \A x \in TextsOf(u) : Stored(u, x) \/ Refused(u, x)
        BY <4>1 DEF IngestionInv, Complete, Accounted
      <4> QED
        BY <4>1, <4>2, <4>3 DEF Stored, Refused, Key, Admissible
    <3> QED
      BY <3>1, <3>2
  <2> QED
    BY <1>1, <2>1, <2>2, <2>3, HoldsNothing DEF Idle
<1>4. CASE deduplicate_chunks(t)
  <2> DEFINE keeps == chunk[Key(t, Head(todo[t]))] = None
  <2>1. pc[t] = "deduplicate" /\ t \in late /\ chunk' = chunk
    BY <1>4 DEF deduplicate_chunks, store
  <2>2. Visited(t, keeps, "lineage", "govern")
    <3>1. Visit(t, keeps, [e \in BOOLEAN |-> IF e THEN "lineage" ELSE "govern"])
      BY <1>4 DEF deduplicate_chunks, content_hash_exists
    <3>2. keeps \in BOOLEAN
      OBVIOUS
    <3> QED
      BY <2>1, <3>1, <3>2, VisitMovesChunks DEF IngestionInv
  <2>3. keeps => ~Admissible(t, Head(todo[t]))
    BY <2>1, <2>2 DEF Idle, Visited, Stored
  <2> HIDE DEF keeps
  <2>4. /\ \A x : Holds(todo[t], x) => x \in TextsOf(t)
        /\ \A x : Holds(kept[t], x) => ~Admissible(t, x)
        /\ \A x \in TextsOf(t) : Stored(t, x) \/ ~Admissible(t, x)
    BY <2>1 DEF Idle
  <2> QED
    BY <1>1, <2>1, <2>2, <2>3, <2>4, HoldsNothing DEF Visited, Idle, IngestionInv, TypeOK
<1>5. CASE enforce_licensing_and_metadata(t)
  <2> DEFINE keeps == Admissible(t, Head(todo[t]))
  <2>1. pc[t] = "govern" /\ t \in late
    BY <1>5 DEF enforce_licensing_and_metadata, store
  <2>2. Visited(t, keeps, "lineage", "register")
    <3>1. Visit(t, keeps, [e \in BOOLEAN |-> IF e THEN "lineage" ELSE "register"])
      BY <1>5 DEF enforce_licensing_and_metadata, enforce_chunk_governance
    <3>2. keeps \in BOOLEAN
      BY DEF Admissible
    <3> QED
      BY <2>1, <3>1, <3>2, VisitMovesChunks DEF IngestionInv
  <2>3. /\ ~keeps
        /\ \A x : Holds(todo[t], x) => ~Admissible(t, x)
        /\ \A x : ~Holds(kept[t], x)
        /\ \A x \in TextsOf(t) : Stored(t, x) \/ ~Admissible(t, x)
    BY <2>1, <2>2 DEF Idle, Visited
  <2> HIDE DEF keeps
  <2>4. \A s \in Seq(Texts) : s # <<>> => \E x : Holds(s, x)
    BY HoldsSplit
  <2> QED
    BY <1>1, <2>1, <2>2, <2>3, <2>4, HoldsNothing DEF Visited, Idle, IngestionInv, TypeOK
<1>6. CASE upsert_document(t) \/ embed(t) \/ InsertChunk(t) \/ insert_chunks(t)
  <2>1. t \in late /\ pc[t] \in {"register", "embed", "insert"}
    BY <1>6 DEF upsert_document, embed, InsertChunk, insert_chunks
  <2> QED
    BY <2>1 DEF Idle
<1>7. CASE run_ingestion_task(t) \/ AttemptFails(t)
  <2>1. t \in late /\ pc'[t] \in {"done", "fetch", "failed"}
    BY <1>7 DEF run_ingestion_task, AttemptFails, Goto, IngestionInv, TypeOK
  <2> QED
    BY <1>1, <2>1 DEF Idle
<1> QED
  BY <1>3, <1>4, <1>5, <1>6, <1>7 DEF Step, Fault, DeadlockVictim

\* The inductive invariant about reruns holds in every reachable state.
THEOREM RerunInvariant == Spec => []RerunInv
<1>1. Init => RerunInv
  BY InitInv DEF Init, RerunInv
<1>2. RerunInv /\ [Next]_vars => RerunInv'
  <2> SUFFICES ASSUME RerunInv, [Next]_vars
               PROVE  RerunInv'
    OBVIOUS
  <2>1. IngestionInv'
    BY NextKeepsInv DEF RerunInv
  <2>2. late \in SUBSET Tasks
    BY DEF RerunInv, IngestionInv, TypeOK
  <2>3. ASSUME NEW t \in Tasks, Step(t) \/ Fault(t), NEW u \in late'
        PROVE  Idle(u)'
    <3>1. CASE u = t
      BY <2>3, <3>1, StepKeepsIdle
    <3>2. CASE u # t
      <4>1. /\ UNCHANGED <<source, version>>
            /\ \A k \in Keys : chunk[k] # None => chunk'[k] # None
            /\ \A v \in Tasks \ {t} : pc'[v] = pc[v] /\ todo'[v] = todo[v] /\ kept'[v] = kept[v]
            /\ late' = late \/ (pc[t] = "fetch" /\ late' = late \cup {t})
        BY <2>3, StepFrame DEF RerunInv
      <4>2. u \in late
        BY <2>3, <3>2, <4>1
      <4> QED
        BY <2>2, <3>2, <4>1, <4>2, OthersStayIdle
    <3> QED
      BY <3>1, <3>2
  <2>4. ASSUME UNCHANGED vars, NEW u \in late'
        PROVE  Idle(u)'
    <3>1. u \in late /\ u \in Tasks
      BY <2>2, <2>4 DEF vars
    <3>2. /\ UNCHANGED <<source, version>>
          /\ \A k \in Keys : chunk[k] # None => chunk'[k] # None
          /\ pc'[u] = pc[u] /\ todo'[u] = todo[u] /\ kept'[u] = kept[u]
      BY <2>4 DEF vars, config, local, store
    <3> QED
      BY <3>1, <3>2, OthersStayIdle
  <2>5. \A u \in late' : Idle(u)'
    BY <2>3, <2>4 DEF Next
  <2> QED
    BY <2>1, <2>5 DEF RerunInv
<1> QED
  BY <1>1, <1>2, PTL DEF Spec

\* An attempt that begins when its work is done gets as far as governance and writes
\* nothing (deduplicate_chunks, enforce_licensing_and_metadata).
THEOREM RerunsAreIdle == Spec => []RerunWritesNothing
<1>1. RerunInv => RerunWritesNothing
  BY DEF RerunInv, Idle, RerunWritesNothing
<1> QED
  BY <1>1, RerunInvariant, PTL
-----------------------------------------------------------------------------
(* The abstract store.                                                     *)

\* What a task holds, and what it inserts, is what its source delivers.
InHand ==
  /\ \A t \in Tasks : \A x : Holds(todo[t], x) \/ Holds(kept[t], x) => x \in TextsOf(t)
  /\ \A t \in Tasks : \A k \in written[t] : \E x \in TextsOf(t) : k = Key(t, x)

\* No other task's transaction is touched.
LEMMA WrittenFrame ==
  ASSUME IngestionInv, NEW t \in Tasks, Step(t) \/ Fault(t)
  PROVE  \A u \in Tasks \ {t} : written'[u] = written[u]
BY DEF Step, Fault, fetch_documents, deduplicate_chunks, enforce_licensing_and_metadata,
   upsert_document, embed, InsertChunk, insert_chunks, run_ingestion_task, DeadlockVictim,
   AttemptFails, IngestionInv, TypeOK

\* A loop shows a task no other chunks than it had.
LEMMA VisitedStaysInHand ==
  ASSUME IngestionInv, InHand, NEW t \in Tasks, NEW keeps, NEW onEmpty, NEW onRest,
         Visited(t, keeps, onEmpty, onRest), NEW x,
         Holds(todo'[t], x) \/ Holds(kept'[t], x)
  PROVE  x \in TextsOf(t)
<1>1. /\ Holds(todo[t], Head(todo[t]))
      /\ Holds(todo'[t], x) \/ Holds(kept'[t], x) =>
           Holds(todo[t], x) \/ Holds(kept[t], x) \/ x = Head(todo[t])
  BY HoldsNothing DEF Visited
<1> QED
  BY <1>1 DEF InHand

\* Every step leaves a task with chunks of its own source.
LEMMA StepKeepsInHand ==
  ASSUME IngestionInv, InHand, NEW t \in Tasks, Step(t) \/ Fault(t)
  PROVE  InHand'
<1>1. /\ UNCHANGED <<source, version>>
      /\ \A u \in Tasks \ {t} : todo'[u] = todo[u] /\ kept'[u] = kept[u]
      /\ \A u \in Tasks \ {t} : written'[u] = written[u]
  BY StepFrame, WrittenFrame
<1>2. /\ \A u \in Tasks : TextsOf(u)' = TextsOf(u)
      /\ \A u \in Tasks : \A x : Key(u, x)' = Key(u, x)
  BY <1>1 DEF TextsOf, Chunks, Key
<1> DEFINE Hand(T, K) == \A x : Holds(T, x) \/ Holds(K, x) => x \in TextsOf(t)
           Rows(W) == \A k \in W : \E x \in TextsOf(t) : k = Key(t, x)
<1>3. Hand(todo[t], kept[t]) /\ Rows(written[t])
  BY DEF InHand
<1>4. SUFFICES Hand(todo'[t], kept'[t]) /\ Rows(written'[t])
  <2> SUFFICES ASSUME Hand(todo'[t], kept'[t]), Rows(written'[t]), NEW u \in Tasks
               PROVE  /\ \A x : Holds(todo[u], x)' \/ Holds(kept[u], x)' => x \in TextsOf(u)'
                      /\ \A k \in written'[u] : \E x \in TextsOf(u)' : k = Key(u, x)'
    BY DEF InHand
  <2>1. CASE u = t
    BY <1>2, <2>1 DEF Holds
  <2>2. CASE u # t
    BY <1>1, <1>2, <2>2 DEF Holds, InHand
  <2> QED
    BY <2>1, <2>2
<1> USE DEF config, store, Goto
<1>5. CASE fetch_documents(t)
  <2>1. todo'[t] = Chunks(t) /\ kept'[t] = kept[t] /\ written'[t] = written[t]
    BY <1>5 DEF fetch_documents, IngestionInv, TypeOK
  <2>2. Chunks(t) \in Seq(Texts)
    BY RagAssumption DEF IngestionInv, TypeOK, Chunks
  <2>3. \A x : Holds(Chunks(t), x) => x \in TextsOf(t)
    BY <2>2 DEF Holds, TextsOf
  <2> QED
    BY <1>3, <2>1, <2>3
<1>6. CASE deduplicate_chunks(t)
  <2> DEFINE keeps == ~content_hash_exists(t, Head(todo[t]))
  <2>1. pc[t] = "deduplicate" /\ written' = written /\ keeps \in BOOLEAN
    BY <1>6 DEF deduplicate_chunks, content_hash_exists
  <2>2. Visit(t, keeps, [e \in BOOLEAN |-> IF e THEN "lineage" ELSE "govern"])
    BY <1>6 DEF deduplicate_chunks
  <2> HIDE DEF keeps
  <2>3. Visited(t, keeps, "lineage", "govern")
    BY <2>1, <2>2, VisitMovesChunks DEF IngestionInv
  <2> QED
    BY <1>3, <2>1, <2>3, VisitedStaysInHand
<1>7. CASE enforce_licensing_and_metadata(t)
  <2> DEFINE keeps == enforce_chunk_governance(t, Head(todo[t]))
  <2>1. pc[t] = "govern" /\ written' = written /\ keeps \in BOOLEAN
    BY <1>7 DEF enforce_licensing_and_metadata, enforce_chunk_governance, Admissible
  <2>2. Visit(t, keeps, [e \in BOOLEAN |-> IF e THEN "lineage" ELSE "register"])
    BY <1>7 DEF enforce_licensing_and_metadata
  <2> HIDE DEF keeps
  <2>3. Visited(t, keeps, "lineage", "register")
    BY <2>1, <2>2, VisitMovesChunks DEF IngestionInv
  <2> QED
    BY <1>3, <2>1, <2>3, VisitedStaysInHand
<1>8. CASE upsert_document(t) \/ embed(t) \/ run_ingestion_task(t)
  BY <1>3, <1>8 DEF upsert_document, embed, run_ingestion_task
<1>9. CASE InsertChunk(t)
  <2> DEFINE x0 == Head(todo[t])
  <2>1. /\ todo[t] # <<>> /\ todo'[t] = Tail(todo[t]) /\ kept'[t] = kept[t]
        /\ written'[t] \subseteq written[t] \cup {Key(t, x0)}
    BY <1>9 DEF InsertChunk, IngestionInv, TypeOK
  <2>2. Holds(todo[t], x0) /\ \A x : Holds(Tail(todo[t]), x) => Holds(todo[t], x)
    BY <2>1, HoldsSplit DEF IngestionInv, TypeOK
  <2> HIDE DEF x0
  <2> QED
    BY <1>3, <2>1, <2>2
<1>10. CASE insert_chunks(t)
  BY <1>3, <1>10 DEF insert_chunks, IngestionInv, TypeOK
<1>11. CASE AttemptFails(t)
  <2>1. todo'[t] = <<>> /\ kept'[t] = <<>> /\ written'[t] = {}
    BY <1>11 DEF AttemptFails, IngestionInv, TypeOK
  <2> QED
    BY <2>1, HoldsNothing
<1> QED
  BY <1>5, <1>6, <1>7, <1>8, <1>9, <1>10, <1>11 DEF Step, Fault, DeadlockVictim

\* A task holds and inserts only what its source delivers, in every reachable state.
THEOREM HandInvariant == Spec => []InHand
<1>1. Init => InHand
  BY HoldsNothing DEF Init, InHand
<1>2. IngestionInv /\ InHand /\ [Next]_vars => InHand'
  <2> SUFFICES ASSUME IngestionInv, InHand, [Next]_vars
               PROVE  InHand'
    OBVIOUS
  <2>1. CASE UNCHANGED vars
    BY <2>1 DEF vars, config, local, InHand, Holds, TextsOf, Chunks, Key
  <2> QED
    BY <2>1, StepKeepsInHand DEF Next
<1> QED
  BY <1>1, <1>2, IngestionInvariant, PTL DEF Spec

\* A row of the abstract store is there when the table has one.
LEMMA RowsAreThere ==
  ASSUME IngestionInv
  PROVE  /\ \A k \in Keys : RowSource[k] = None <=> chunk[k] = None
         /\ \A t \in Tasks : /\ source[t] \in Sources /\ version[t] \in Versions
                             /\ Store!Delivered(source[t]) = TextsOf(t)
                             /\ TextsOf(t) \subseteq Texts
                             /\ \A x \in Texts : /\ Key(t, x) = <<x, version[t]>>
                                               /\ Key(t, x) \in Keys
                             /\ \A x : Store!Admits(source[t], x) <=> Admissible(t, x)
<1>1. \A k \in Keys : RowSource[k] = None <=> chunk[k] = None
  BY RagAssumption DEF IngestionInv, TypeOK, RowSource
<1>2. ASSUME NEW t \in Tasks
      PROVE  /\ source[t] \in Sources /\ version[t] \in Versions
             /\ Store!Delivered(source[t]) = TextsOf(t)
             /\ TextsOf(t) \subseteq Texts
  BY RagAssumption DEF IngestionInv, TypeOK, TextsOf, Chunks, Store!Delivered
<1>3. \A t \in Tasks, x \in Texts : Key(t, x) = <<x, version[t]>> /\ Key(t, x) \in Keys
  BY <1>2 DEF Key, Keys
<1>4. \A t \in Tasks : \A x : Store!Admits(source[t], x) <=> Admissible(t, x)
  BY DEF Admissible, detect_pii, Store!Admits
<1> QED
  BY <1>1, <1>2, <1>3, <1>4

\* What is missing of a source is what is admissible and not stored.
LEMMA WhatIsMissing ==
  ASSUME IngestionInv, NEW t \in Tasks
  PROVE  Store!Missing(source[t], version[t])
           = {x \in TextsOf(t) : Admissible(t, x) /\ ~Stored(t, x)}
<1>1. \A x \in TextsOf(t) : RowSource[<<x, version[t]>>] = None <=> ~Stored(t, x)
  BY RowsAreThere DEF Stored
<1> QED
  BY <1>1, RowsAreThere DEF Store!Missing

\* Success is reported in one step only.
LEMMA ReportedFrame ==
  ASSUME IngestionInv, NEW t \in Tasks, UNCHANGED <<source, version>>,
         \A u \in Tasks \ {t} : pc'[u] = pc[u], pc[t] # "done", pc'[t] # "done"
  PROVE  Reported' = Reported
<1>1. \A u \in Tasks : pc'[u] = "done" <=> pc[u] = "done"
  OBVIOUS
<1> QED
  BY <1>1 DEF Reported

\* A refused chunk goes to quarantine; nothing else of governance shows.
LEMMA GovernImplements ==
  ASSUME IngestionInv, InHand, NEW t \in Tasks, enforce_licensing_and_metadata(t)
  PROVE  Store!Next \/ UNCHANGED Store!storeVars
<1> DEFINE x0 == Head(todo[t])
<1>1. /\ pc[t] = "govern" /\ todo[t] # <<>>
      /\ quarantine' = IF Admissible(t, x0) THEN quarantine ELSE quarantine \cup {x0}
      /\ UNCHANGED <<source, version, document, chunk>>
  BY DEF enforce_licensing_and_metadata, enforce_chunk_governance, config, IngestionInv, TypeOK
<1>2. pc'[t] # "done" /\ \A u \in Tasks \ {t} : pc'[u] = pc[u]
  BY DEF enforce_licensing_and_metadata, Visit, Goto, IngestionInv, TypeOK
<1>3. UNCHANGED <<document, RowSource, Reported>>
  BY <1>1, <1>2, ReportedFrame DEF RowSource
<1>4. x0 \in TextsOf(t)
  <2>1. Holds(todo[t], x0)
    BY <1>1, HoldsSplit DEF IngestionInv, TypeOK
  <2> QED
    BY <2>1 DEF InHand
<1> HIDE DEF x0
<1>5. CASE Admissible(t, x0)
  BY <1>1, <1>3, <1>5 DEF Store!storeVars
<1>6. CASE ~Admissible(t, x0)
  <2>1. Store!Refuse(source[t])
    BY <1>1, <1>3, <1>4, <1>6, RowsAreThere DEF Store!Refuse
  <2> QED
    BY <2>1, RowsAreThere DEF Store!Next
<1> QED
  BY <1>5, <1>6

\* The first task with something to publish registers the document.
LEMMA RegisterImplements ==
  ASSUME IngestionInv, InHand, NEW t \in Tasks, upsert_document(t)
  PROVE  Store!Next \/ UNCHANGED Store!storeVars
<1> DEFINE d == Doc[source[t]]
<1>1. /\ pc[t] = "register" /\ pc' = [pc EXCEPT ![t] = "embed"]
      /\ document' = [document EXCEPT ![d] = IF document[d] = None THEN source[t] ELSE document[d]]
      /\ UNCHANGED <<source, version, chunk, quarantine>>
  BY DEF upsert_document, config, Goto
<1>2. UNCHANGED <<RowSource, Reported, quarantine>>
  <2>1. pc'[t] # "done" /\ \A u \in Tasks \ {t} : pc'[u] = pc[u]
    BY <1>1 DEF IngestionInv, TypeOK
  <2> QED
    BY <1>1, <2>1, ReportedFrame DEF RowSource
<1>3. \E x \in TextsOf(t) : Admissible(t, x)
  <2>1. Head(todo[t]) \in Texts /\ Holds(todo[t], Head(todo[t]))
    BY <1>1, HoldsSplit DEF IngestionInv, TypeOK
  <2> QED
    BY <1>1, <2>1 DEF IngestionInv, Governed, InHand
<1>4. CASE document[d] # None
  BY <1>1, <1>2, <1>4 DEF Store!storeVars, IngestionInv, TypeOK
<1>5. CASE document[d] = None
  <2>1. Store!Register(source[t])
    BY <1>1, <1>2, <1>3, <1>5, RowsAreThere DEF Store!Register
  <2> QED
    BY <2>1, RowsAreThere DEF Store!Next
<1> QED
  BY <1>4, <1>5

\* A commit stores all that is missing of the source, whatever other tasks have stored
\* since it was looked for.
LEMMA CommitImplements ==
  ASSUME IngestionInv, InHand, NEW t \in Tasks, insert_chunks(t)
  PROVE  Store!Next \/ UNCHANGED Store!storeVars
<1>1. /\ pc[t] = "insert" /\ todo[t] = <<>> /\ pc' = [pc EXCEPT ![t] = "lineage"]
      /\ chunk' = [k \in Keys |-> IF k \in written[t] THEN t ELSE chunk[k]]
      /\ UNCHANGED <<source, version, document, quarantine>>
  BY DEF insert_chunks, config, Goto
<1>2. UNCHANGED <<document, quarantine, Reported>>
  <2>1. pc'[t] # "done" /\ \A u \in Tasks \ {t} : pc'[u] = pc[u]
    BY <1>1 DEF IngestionInv, TypeOK
  <2> QED
    BY <1>1, <2>1, ReportedFrame
<1>3. document[Doc[source[t]]] # None
  BY <1>1 DEF IngestionInv, Governed
<1> DEFINE missing == {x \in TextsOf(t) : Admissible(t, x) /\ ~Stored(t, x)}
<1>4. ASSUME NEW k \in Keys
      PROVE  k \in written[t] <=> k[1] \in missing /\ k[2] = version[t]
  <2>1. ASSUME k \in written[t]
        PROVE  k[1] \in missing /\ k[2] = version[t]
    <3>1. PICK x \in TextsOf(t) : k = Key(t, x)
      BY <2>1 DEF InHand
    <3>2. PICK y \in Texts : k = Key(t, y) /\ Admissible(t, y)
      BY <2>1 DEF IngestionInv, Governed
    <3>3. chunk[k] = None
      BY <2>1 DEF IngestionInv, OneWriterPerKey
    <3> QED
      BY <3>1, <3>2, <3>3 DEF Key, Stored
  <2>2. ASSUME k[1] \in missing, k[2] = version[t]
        PROVE  k \in written[t]
    <3>1. k = Key(t, k[1])
      BY <2>2 DEF Key, Keys
    <3>2. ~Holds(todo[t], k[1]) /\ ~Refused(t, k[1])
      BY <1>1, <2>2, HoldsNothing DEF Refused
    <3>3. Accounted(t, k[1])
      BY <2>2 DEF IngestionInv, Complete
    <3> QED
      BY <1>1, <2>2, <3>1, <3>2, <3>3 DEF Accounted
  <2> QED
    BY <2>1, <2>2
<1> HIDE DEF missing
<1>5. RowSource' = [k \in Texts \X Versions |->
                      IF k[1] \in missing /\ k[2] = version[t] THEN source[t] ELSE RowSource[k]]
  <2>1. t # None
    BY RagAssumption
  <2> QED
    BY <1>1, <1>4, <2>1 DEF RowSource, Keys
<1>6. Store!Insert(source[t], version[t])
  BY <1>2, <1>3, <1>5, WhatIsMissing DEF Store!Insert, missing
<1> QED
  BY <1>6, RowsAreThere DEF Store!Next

\* A task that succeeds leaves nothing missing.
LEMMA LineageImplements ==
  ASSUME IngestionInv, NEW t \in Tasks, run_ingestion_task(t)
  PROVE  Store!Next
<1>1. /\ pc[t] = "lineage" /\ pc' = [pc EXCEPT ![t] = "done"]
      /\ UNCHANGED <<source, version, document, chunk, quarantine>>
  BY DEF run_ingestion_task, config, store, Goto
<1>2. UNCHANGED <<document, RowSource, quarantine>>
  BY <1>1 DEF RowSource
<1>3. Reported' = Reported \cup {<<source[t], version[t]>>}
  <2>1. \A u \in Tasks : pc'[u] = "done" <=> pc[u] = "done" \/ u = t
    BY <1>1 DEF IngestionInv, TypeOK
  <2> QED
    BY <1>1, <2>1 DEF Reported
<1>4. \A x \in TextsOf(t) : Stored(t, x) \/ Refused(t, x)
  BY <1>1 DEF IngestionInv, Complete, Accounted
<1>5. Store!Missing(source[t], version[t]) = {}
  BY <1>4, WhatIsMissing DEF Refused
<1>6. \A x \in TextsOf(t) : RowSource[<<x, version[t]>>] # None \/ x \in quarantine
  BY <1>4, RowsAreThere DEF Stored, Refused
<1>7. Store!Report(source[t], version[t])
  BY <1>2, <1>3, <1>5, <1>6, RowsAreThere DEF Store!Report
<1> QED
  BY <1>7, RowsAreThere DEF Store!Next

\* Every step is one of the abstract store, or does not show.
LEMMA StepImplements ==
  ASSUME IngestionInv, InHand, NEW t \in Tasks, Step(t) \/ Fault(t)
  PROVE  Store!Next \/ UNCHANGED Store!storeVars
<1>1. CASE fetch_documents(t) \/ deduplicate_chunks(t) \/ embed(t) \/ InsertChunk(t) \/ AttemptFails(t)
  <2>1. UNCHANGED <<source, version, document, chunk, quarantine>>
    BY <1>1 DEF fetch_documents, deduplicate_chunks, embed, InsertChunk, AttemptFails, config, store
  <2>2. \A u \in Tasks \ {t} : pc'[u] = pc[u]
    BY StepFrame
  <2>3. pc[t] # "done"
    <3>1. DeadlockVictim(t) => pc[t] = "insert"
      BY DEF DeadlockVictim, WaitsFor
    <3> QED
      BY <3>1 DEF Step, Fault, fetch_documents, deduplicate_chunks, enforce_licensing_and_metadata,
         upsert_document, embed, InsertChunk, insert_chunks, run_ingestion_task
  <2>4. pc'[t] # "done"
    <3>1. CASE fetch_documents(t) \/ embed(t) \/ InsertChunk(t)
      BY <2>3, <3>1 DEF fetch_documents, embed, InsertChunk, Goto, IngestionInv, TypeOK
    <3>2. CASE deduplicate_chunks(t)
      BY <2>3, <3>2 DEF deduplicate_chunks, Visit, Goto, IngestionInv, TypeOK
    <3>3. CASE AttemptFails(t)
      BY <3>3 DEF AttemptFails, Goto, IngestionInv, TypeOK
    <3> QED
      BY <1>1, <3>1, <3>2, <3>3
  <2>5. UNCHANGED <<RowSource, Reported>>
    BY <2>1, <2>2, <2>3, <2>4, ReportedFrame DEF RowSource
  <2> QED
    BY <2>1, <2>5 DEF Store!storeVars
<1> QED
  BY <1>1, GovernImplements, RegisterImplements, CommitImplements, LineageImplements
     DEF Step, Fault, DeadlockVictim

\* Overlapping, failing and retried tasks are an implementation of the abstract store: a
\* commit is a step that stores everything missing and replaces nothing (insert_chunks).
THEOREM TasksAreChunkStore == Spec => ImplementsChunkStore
<1>1. Init => Store!Init
  <2> SUFFICES ASSUME Init
               PROVE  Store!Init
    OBVIOUS
  <2>1. RowSource = [k \in Texts \X Versions |-> None]
    BY DEF Init, RowSource, Keys
  <2>2. Reported = {}
    BY DEF Init, Reported
  <2> QED
    BY <2>1, <2>2 DEF Init, Store!Init
<1>2. IngestionInv /\ InHand /\ [Next]_vars => [Store!Next]_Store!storeVars
  <2> SUFFICES ASSUME IngestionInv, InHand, [Next]_vars
               PROVE  Store!Next \/ UNCHANGED Store!storeVars
    OBVIOUS
  <2>1. CASE UNCHANGED vars
    BY <2>1 DEF vars, config, local, store, Store!storeVars, RowSource, Reported
  <2> QED
    BY <2>1, StepImplements DEF Next
<1> QED
  BY <1>1, <1>2, IngestionInvariant, HandInvariant, PTL DEF Spec, ImplementsChunkStore, Store!Spec
=============================================================================
