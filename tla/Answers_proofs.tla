--------------------------- MODULE Answers_proofs ---------------------------
(***************************************************************************)
(* Proofs about Answers, for every session and every question, every text, *)
(* and all settings within ChunkSettings, RetrievalSettings and            *)
(* ContextSettings.                                                        *)
(***************************************************************************)
EXTENDS Answers, Chunking_proofs

-----------------------------------------------------------------------------
(* From pages to a document. *)

\* The chunks of a document, before they are stored.
Paged == [page : Nat, content : Kept]

LEMMA PagedChunksAre ==
    ASSUME NEW document \in Documents
    PROVE  LET chunks == PagedChunks(document)
           IN /\ chunks \in Seq(Paged)
              /\ \A k \in 1..Len(chunks) : chunks[k].page \in 1..Len(document.pages)
              /\ \A j, k \in 1..Len(chunks) :
                    j < k /\ chunks[j].page = chunks[k].page => ~EndsOnHeading(chunks[j].content)
              /\ \A j, k \in 1..Len(chunks) :
                    j # k /\ chunks[j].page = chunks[k].page => ~Short(chunks[j].content)
<1>. DEFINE pages == document.pages
            n == Len(pages)
            cut(p) == ChunkText(pages[p])
            each == [p \in 1..n |-> [k \in 1..Len(cut(p)) |-> [page |-> p, content |-> cut(p)[k]]]]
            chunks == PagedChunks(document)
<1>1. n \in Nat /\ \A p \in 1..n : pages[p] \in Texts
  <2>1. pages \in Seq(Texts)
    BY DEF Documents
  <2>. HIDE DEF pages
  <2>. QED BY <2>1
<1>2. ASSUME NEW p \in 1..n
      PROVE  /\ cut(p) \in Seq(Kept) /\ Len(cut(p)) \in Nat
             /\ HeadingsMoved(cut(p))
             /\ Len(cut(p)) > 1 => \A k \in 1..Len(cut(p)) : ~Short(cut(p)[k])
  <2>. DEFINE text == pages[p]
  <2>1. text \in Texts
    BY <1>1
  <2>. HIDE DEF text
  <2>2. /\ ChunkText(text) \in Seq(Kept)
        /\ HeadingsMoved(ChunkText(text))
        /\ Len(ChunkText(text)) > 1 => \A k \in 1..Len(ChunkText(text)) : ~Short(ChunkText(text)[k])
    BY <2>1, ChunkTextIs
  <2>3. Len(ChunkText(text)) \in Nat
    BY <2>2
  <2>. QED BY <2>2, <2>3 DEF text
<1>3. chunks = FlattenSeq(each)
  BY DEF PagedChunks
<1>. HIDE DEF pages, n, cut
<1>4. /\ Len(each) = n
      /\ \A p \in 1..n : Len(each[p]) = Len(cut(p))
      /\ \A p \in 1..n : \A k \in 1..Len(cut(p)) : each[p][k] = [page |-> p, content |-> cut(p)[k]]
  BY <1>1, <1>2
<1>5. each \in Seq(Seq(Paged))
  <2>1. ASSUME NEW p \in 1..n PROVE each[p] \in Seq(Paged)
    <3>1. \A k \in 1..Len(cut(p)) : [page |-> p, content |-> cut(p)[k]] \in Paged
      BY <1>1, <1>2 DEF Paged
    <3>. QED BY <1>2, <3>1
  <2>. QED BY <1>1, <2>1
<1>. HIDE DEF each, chunks
<1>6. chunks \in Seq(Paged) /\ \E h : LaidOut(h, each, chunks)
  BY <1>3, <1>5, FlattenedPlaces
<1>7. PICK h : LaidOut(h, each, chunks)
  BY <1>6
<1>. DEFINE w == [p \in 1..n |-> Len(each[p])]
<1>8. /\ Adds(h, w, n) /\ Len(chunks) = h[n]
      /\ \A p \in 1..n : \A k \in 1..Len(each[p]) : chunks[h[p - 1] + k] = each[p][k]
      /\ \A p \in 1..n : w[p] = Len(cut(p))
  BY <1>4, <1>7 DEF LaidOut
<1>9. \A p \in 0..n : h[p] \in Nat
  BY <1>8 DEF Adds
<1>. HIDE DEF w
<1>10. ASSUME NEW j \in 1..Len(chunks)
       PROVE  \E p \in 1..n : \E k \in 1..Len(cut(p)) :
                 j = h[p - 1] + k /\ chunks[j] = [page |-> p, content |-> cut(p)[k]]
  <2>1. PICK p \in 1..n : \E k \in 1..w[p] : j = h[p - 1] + k
    <3>1. EachInAPart(h, w, n)
      BY <1>8, PlacesInParts
    <3>2. j \in 1..h[n]
      BY <1>8
    <3>. QED BY <3>1, <3>2 DEF EachInAPart
  <2>2. PICK k \in 1..w[p] : j = h[p - 1] + k
    BY <2>1
  <2>3. k \in 1..Len(cut(p)) /\ k \in 1..Len(each[p])
    BY <1>4, <1>8, <2>2
  <2>4. chunks[j] = each[p][k]
    BY <1>8, <2>2, <2>3
  <2>. QED BY <1>4, <2>2, <2>3, <2>4
<1>11. ASSUME NEW j \in 1..Len(chunks), NEW k \in 1..Len(chunks), j # k, chunks[j].page = chunks[k].page
       PROVE  /\ j < k => ~EndsOnHeading(chunks[j].content)
              /\ ~Short(chunks[j].content)
  <2>1. PICK p \in 1..n : \E a \in 1..Len(cut(p)) :
                 j = h[p - 1] + a /\ chunks[j] = [page |-> p, content |-> cut(p)[a]]
    BY <1>10
  <2>2. PICK a \in 1..Len(cut(p)) : j = h[p - 1] + a /\ chunks[j] = [page |-> p, content |-> cut(p)[a]]
    BY <2>1
  <2>3. PICK q \in 1..n : \E b \in 1..Len(cut(q)) :
                 k = h[q - 1] + b /\ chunks[k] = [page |-> q, content |-> cut(q)[b]]
    BY <1>10
  <2>4. PICK b \in 1..Len(cut(q)) : k = h[q - 1] + b /\ chunks[k] = [page |-> q, content |-> cut(q)[b]]
    BY <2>3
  <2>5. p = q
    BY <1>11, <2>2, <2>4
  <2>6. h[p - 1] \in Nat /\ Len(cut(p)) \in Nat
    <3>1. p - 1 \in 0..n
      BY <1>1
    <3>. QED BY <1>2, <1>9, <3>1
  <2>7. a # b /\ (j < k => a < b) /\ a \in 1..Len(cut(p)) /\ b \in 1..Len(cut(p))
    BY <1>11, <2>2, <2>4, <2>5, <2>6, SMTT(30)
  <2>8. Len(cut(p)) > 1 /\ (j < k => a \in 1..(Len(cut(p)) - 1))
    BY <2>6, <2>7
  <2>9. chunks[j].content = cut(p)[a]
    BY <2>2
  <2>. QED BY <1>2, <2>7, <2>8, <2>9 DEF HeadingsMoved
<1>12. ASSUME NEW k \in 1..Len(chunks) PROVE chunks[k].page \in 1..n
  <2>1. PICK p \in 1..n : \E a \in 1..Len(cut(p)) :
                 k = h[p - 1] + a /\ chunks[k] = [page |-> p, content |-> cut(p)[a]]
    BY <1>10
  <2>. QED BY <2>1
<1>13. \A j, k \in 1..Len(chunks) : j < k => j # k
  <2>1. Len(chunks) \in Nat
    BY <1>6
  <2>. QED BY <2>1
<1>. QED BY <1>6, <1>11, <1>12, <1>13 DEF chunks, n, pages

-----------------------------------------------------------------------------
(* Embedding. *)

Known == {Miss} \cup [model : Models, text : Seq(Units)]

\* What the cache has given so far is nothing, or right.
Given == \A i \in 1..Len(values) : values[i] \in {Miss, Vector(texts[i])}

\* Every text has its vector, or the provider gave one for it that is still to be set.
Coming ==
    /\ \A k \in 1..Len(fresh) : /\ fresh[k].at \in 1..Len(texts)
                                /\ fresh[k].vector = Vector(texts[fresh[k].at])
    /\ \A i \in 1..Len(texts) :
          values[i] = Vector(texts[i]) \/ \E k \in 1..Len(fresh) : fresh[k].at = i

EmbeddingTypes ==
    /\ model \in Models
    /\ step \in {"idle", "get", "provider", "set", "embedded", "found"}
    /\ texts \in Seq(Seq(Units))
    /\ values \in Seq(Known)
    /\ fresh \in Seq([at : Nat, vector : Known])

\* An entry of the cache is the vector of its key, whichever model wrote it.
CacheIsRight ==
    \A key \in DOMAIN vectors :
        \E m \in Models : \E text \in Seq(Units) :
            key = <<m, text>> /\ vectors[key] = [model |-> m, text |-> text]

EmbeddingInv ==
    /\ EmbeddingTypes
    /\ CacheIsRight
    /\ step = "get" => caching /\ Given /\ Len(values) < Len(texts)
    /\ step = "provider" /\ caching => Given /\ Len(values) = Len(texts)
    /\ step = "set" => Coming /\ Len(values) = Len(texts) /\ fresh # <<>>
    /\ step = "embedded" => values = [i \in 1..Len(texts) |-> Vector(texts[i])]

LEMMA VectorIsKnown ==
    ASSUME EmbeddingTypes, NEW i \in 1..Len(texts)
    PROVE  Vector(texts[i]) \in Known /\ texts[i] \in Seq(Units)
BY DEF EmbeddingTypes, Vector, Known

LEMMA EmbedKeepsInv ==
    ASSUME EmbeddingInv, NEW list \in Seq(Seq(Units)), Embed(list)
    PROVE  EmbeddingInv'
<1>1. EmbeddingTypes'
  BY DEF EmbeddingInv, EmbeddingTypes, Embed
<1>2. CacheIsRight'
  BY DEF EmbeddingInv, CacheIsRight, Embed
<1>3. (step = "get" => caching /\ Given /\ Len(values) < Len(texts))'
  <2>. SUFFICES ASSUME step' = "get" PROVE caching' /\ Given' /\ Len(values)' < Len(texts)'
    OBVIOUS
  <2>1. list # <<>> /\ caching /\ texts' = list /\ values' = <<>> /\ caching' = caching
    BY DEF Embed
  <2>2. Len(list) \in Nat /\ Len(list) > 0
    BY <2>1
  <2>3. Given'
    BY <2>1 DEF Given
  <2>. QED BY <2>1, <2>2, <2>3
<1>4. (step = "provider" /\ caching => Given /\ Len(values) = Len(texts))'
  BY DEF Embed
<1>5. (step = "set" => Coming /\ Len(values) = Len(texts) /\ fresh # <<>>)'
  BY DEF Embed
<1>6. (step = "embedded" => values = [i \in 1..Len(texts) |-> Vector(texts[i])])'
  <2>. SUFFICES ASSUME step' = "embedded" PROVE (values = [i \in 1..Len(texts) |-> Vector(texts[i])])'
    OBVIOUS
  <2>1. texts' = <<>> /\ values' = <<>>
    BY DEF Embed
  <2>2. <<>> = [i \in 1..Len(<<>>) |-> [model |-> model', text |-> <<>>[i]]]
    OBVIOUS
  <2>. QED BY <2>1, <2>2 DEF Vector
<1>. QED BY <1>1, <1>2, <1>3, <1>4, <1>5, <1>6 DEF EmbeddingInv

LEMMA GetKeepsInv ==
    ASSUME EmbeddingInv, Get
    PROVE  EmbeddingInv'
<1>. DEFINE n == Len(values)
            text == texts[n + 1]
            value == IF Key(text) \in DOMAIN vectors THEN vectors[Key(text)] ELSE Miss
<1>1. EmbeddingTypes /\ CacheIsRight /\ caching /\ Given /\ Len(values) < Len(texts)
  BY DEF EmbeddingInv, Get
<1>2. n \in Nat /\ Len(texts) \in Nat /\ n + 1 \in 1..Len(texts) /\ values \in Seq(Known)
  BY <1>1 DEF EmbeddingTypes
<1>3. values' = Append(values, value) /\ UNCHANGED <<model, caching, vectors, texts, fresh>>
  BY DEF Get
<1>4. value \in {Miss, Vector(text)} /\ value \in Known
  <2>1. Vector(text) \in Known
    BY <1>1, <1>2, VectorIsKnown
  <2>2. ASSUME Key(text) \in DOMAIN vectors PROVE vectors[Key(text)] = Vector(text)
    <3>. DEFINE key == Key(text)
    <3>1. PICK m \in Models : \E t \in Seq(Units) :
                 key = <<m, t>> /\ vectors[key] = [model |-> m, text |-> t]
      BY <1>1, <2>2 DEF CacheIsRight
    <3>2. PICK t \in Seq(Units) : key = <<m, t>> /\ vectors[key] = [model |-> m, text |-> t]
      BY <3>1
    <3>3. m = model /\ t = text
      BY <3>2 DEF Key
    <3>. QED BY <3>2, <3>3 DEF Vector
  <2>. QED BY <2>1, <2>2 DEF Known
<1>. HIDE DEF value
<1>5. values' \in Seq(Known) /\ Len(values') = n + 1 /\ values'[n + 1] = value
      /\ \A i \in 1..n : values'[i] = values[i]
  BY <1>2, <1>3, <1>4
<1>6. step' = IF n + 1 = Len(texts) THEN "provider" ELSE "get"
  <2>. HIDE DEF n
  <2>. QED BY <1>5 DEF Get
<1>7. Given'
  <2>. SUFFICES ASSUME NEW i \in 1..(n + 1) PROVE values'[i] \in {Miss, Vector(texts[i])}
    BY <1>3, <1>5 DEF Given, Vector
  <2>1. CASE i = n + 1
    BY <1>4, <1>5, <2>1
  <2>2. CASE i # n + 1
    <3>1. i \in 1..n
      BY <1>2, <2>2
    <3>. QED BY <1>1, <1>5, <3>1 DEF Given
  <2>. QED BY <2>1, <2>2
<1>8. EmbeddingTypes' /\ CacheIsRight'
  BY <1>1, <1>3, <1>5, <1>6 DEF EmbeddingTypes, CacheIsRight
<1>9. (step = "get" => caching /\ Given /\ Len(values) < Len(texts))'
  <2>. HIDE DEF n
  <2>. QED BY <1>1, <1>2, <1>3, <1>5, <1>6, <1>7
<1>10. (step = "provider" /\ caching => Given /\ Len(values) = Len(texts))'
  <2>. HIDE DEF n
  <2>. QED BY <1>2, <1>3, <1>5, <1>6, <1>7
<1>. QED BY <1>6, <1>8, <1>9, <1>10 DEF EmbeddingInv

LEMMA EmbedMissesKeepsInv ==
    ASSUME EmbeddingInv, EmbedMisses
    PROVE  EmbeddingInv'
<1>. DEFINE n == Len(texts)
            F == [at : Nat, vector : Known]
            all == [i \in 1..n |-> [at |-> i, vector |-> Vector(texts[i])]]
            places == {i \in 1..n : values[i] = Miss}
            many == Cardinality(places)
            order == Ascending(places)
<1>1. EmbeddingTypes /\ CacheIsRight /\ Given /\ Len(values) = n /\ n \in Nat
  BY DEF EmbeddingInv, EmbedMisses, EmbeddingTypes
<1>2. fresh' = Chosen(all, places) /\ UNCHANGED <<model, caching, vectors, texts, values>>
      /\ step' = IF fresh' = <<>> THEN "embedded" ELSE "set"
  BY DEF EmbedMisses, Misses
<1>3. all \in Seq(F) /\ Len(all) = n /\ \A i \in 1..n : all[i] = [at |-> i, vector |-> Vector(texts[i])]
  <2>1. \A i \in 1..n : [at |-> i, vector |-> Vector(texts[i])] \in F
    BY <1>1, VectorIsKnown
  <2>. HIDE DEF F, n
  <2>. QED BY <1>1, <2>1
<1>4. places \in SUBSET (1..Len(all))
  BY <1>3
<1>. HIDE DEF F, all, places, many, order, n
<1>5. /\ many \in Nat
      /\ order \in [1..many -> places]
      /\ \A i \in places : \E k \in 1..many : order[k] = i
      /\ fresh' \in Seq(F)
      /\ Len(fresh') = many
      /\ \A k \in 1..many : fresh'[k] = all[order[k]]
  <2>1. LET c == Cardinality(places)
            o == Ascending(places)
        IN /\ c \in Nat /\ c <= Len(all)
           /\ o \in [1..c -> places]
           /\ \A i \in places : \E k \in 1..c : o[k] = i
           /\ \A i, j \in 1..c : i < j => o[i] < o[j]
           /\ Chosen(all, places) \in Seq(F)
           /\ Len(Chosen(all, places)) = c
           /\ \A k \in 1..c : Chosen(all, places)[k] = all[o[k]]
    BY <1>3, <1>4, ChosenIsInOrder
  <2>. QED BY <1>2, <2>1 DEF many, order
<1>6. \A k \in 1..many : /\ order[k] \in 1..n
                         /\ fresh'[k].at = order[k]
                         /\ fresh'[k].vector = Vector(texts[order[k]])
  BY <1>3, <1>5 DEF places
<1>7. \A i \in 1..n : values[i] = Vector(texts[i]) \/ \E k \in 1..many : fresh'[k].at = i
  <2>. SUFFICES ASSUME NEW i \in 1..n, values[i] # Vector(texts[i]) PROVE \E k \in 1..many : fresh'[k].at = i
    OBVIOUS
  <2>1. values[i] = Miss
    BY <1>1 DEF Given
  <2>2. i \in places
    BY <2>1 DEF places
  <2>. QED BY <1>5, <1>6, <2>2
<1>8. \A i \in 1..n : (Vector(texts[i]))' = Vector(texts[i])
  BY <1>2 DEF Vector
<1>9. EmbeddingTypes' /\ CacheIsRight'
  BY <1>1, <1>2, <1>5 DEF EmbeddingTypes, CacheIsRight, F
<1>10. (step = "set" => Coming /\ Len(values) = Len(texts) /\ fresh # <<>>)'
  <2>1. Coming'
    BY <1>2, <1>5, <1>6, <1>7, <1>8 DEF Coming, n
  <2>. QED BY <1>1, <1>2, <2>1 DEF n
<1>11. (step = "embedded" => values = [i \in 1..Len(texts) |-> Vector(texts[i])])'
  <2>. SUFFICES ASSUME step' = "embedded" PROVE (values = [i \in 1..Len(texts) |-> Vector(texts[i])])'
    OBVIOUS
  <2>1. many = 0
    BY <1>2, <1>5
  <2>2. \A i \in 1..n : values[i] = Vector(texts[i])
    BY <1>7, <2>1
  <2>3. values = [i \in 1..n |-> Vector(texts[i])]
    <3>1. values \in [1..n -> Known]
      BY <1>1 DEF EmbeddingTypes
    <3>. QED BY <2>2, <3>1
  <2>. QED BY <1>2, <2>3 DEF n, Vector
<1>. QED BY <1>2, <1>9, <1>10, <1>11 DEF EmbeddingInv

LEMMA EmbedAllKeepsInv ==
    ASSUME EmbeddingInv, EmbedAll
    PROVE  EmbeddingInv'
<1>. DEFINE n == Len(texts)
<1>1. EmbeddingTypes /\ CacheIsRight /\ n \in Nat
  BY DEF EmbeddingInv, EmbeddingTypes
<1>2. /\ values' = [i \in 1..n |-> Vector(texts[i])] /\ step' = "embedded"
      /\ UNCHANGED <<model, caching, vectors, texts, fresh>>
  BY DEF EmbedAll
<1>3. values' \in Seq(Known)
  <2>1. \A i \in 1..n : Vector(texts[i]) \in Known
    BY <1>1, VectorIsKnown
  <2>. HIDE DEF n
  <2>. QED BY <1>1, <1>2, <2>1
<1>4. EmbeddingTypes' /\ CacheIsRight'
  BY <1>1, <1>2, <1>3 DEF EmbeddingTypes, CacheIsRight
<1>5. (values = [i \in 1..Len(texts) |-> Vector(texts[i])])'
  BY <1>2 DEF Vector
<1>. QED BY <1>2, <1>4, <1>5 DEF EmbeddingInv

LEMMA SetKeepsInv ==
    ASSUME EmbeddingInv, Set
    PROVE  EmbeddingInv'
<1>. DEFINE n == Len(texts)
            F == [at : Nat, vector : Known]
            miss == Head(fresh)
            key == Key(texts[miss.at])
            m == Len(fresh)
<1>1. /\ EmbeddingTypes /\ CacheIsRight /\ Coming /\ Len(values) = n /\ fresh # <<>> /\ n \in Nat
      /\ values \in Seq(Known) /\ fresh \in Seq(F) /\ m \in Nat /\ m > 0
  BY DEF EmbeddingInv, Set, EmbeddingTypes
<1>2. /\ values' = [values EXCEPT ![miss.at] = miss.vector]
      /\ vectors' = [k \in DOMAIN vectors \cup {key} |-> IF k = key THEN miss.vector ELSE vectors[k]]
      /\ fresh' = Tail(fresh)
      /\ step' = IF fresh' = <<>> THEN "embedded" ELSE "set"
      /\ UNCHANGED <<model, caching, texts>>
  BY DEF Set
<1>3. miss = fresh[1] /\ 1 \in 1..m /\ miss \in F
  <2>. HIDE DEF F
  <2>. QED BY <1>1
<1>4. fresh' \in Seq(F) /\ Len(fresh') = m - 1 /\ \A k \in 1..(m - 1) : fresh'[k] = fresh[k + 1]
  <2>. HIDE DEF F
  <2>. QED BY <1>1, <1>2
<1>. HIDE DEF miss, F, m
<1>5. miss.at \in 1..n /\ miss.vector = Vector(texts[miss.at]) /\ miss.vector \in Known
  BY <1>1, <1>3 DEF Coming, F, m
<1>6. /\ values' \in Seq(Known) /\ Len(values') = n
      /\ values'[miss.at] = Vector(texts[miss.at])
      /\ \A i \in 1..n : i # miss.at => values'[i] = values[i]
  <2>. HIDE DEF n
  <2>. QED BY <1>1, <1>2, <1>5
<1>7. EmbeddingTypes'
  BY <1>1, <1>2, <1>4, <1>6 DEF EmbeddingTypes, F
<1>8. CacheIsRight'
  <2>. SUFFICES ASSUME NEW k \in DOMAIN vectors \cup {key}
                PROVE  \E mm \in Models : \E text \in Seq(Units) :
                           k = <<mm, text>> /\ vectors'[k] = [model |-> mm, text |-> text]
    BY <1>2 DEF CacheIsRight
  <2>1. CASE k = key
    <3>1. vectors'[k] = Vector(texts[miss.at])
      BY <1>2, <1>5, <2>1
    <3>2. texts[miss.at] \in Seq(Units) /\ model \in Models
      BY <1>1, <1>5 DEF EmbeddingTypes
    <3>3. k = <<model, texts[miss.at]>>
      BY <2>1 DEF Key
    <3>. QED BY <3>1, <3>2, <3>3 DEF Vector
  <2>2. CASE k # key
    BY <1>1, <1>2, <2>2 DEF CacheIsRight
  <2>. QED BY <2>1, <2>2
<1>9. \A i \in 1..n : (Vector(texts[i]))' = Vector(texts[i])
  BY <1>2 DEF Vector
<1>10. Coming'
  <2>1. ASSUME NEW k \in 1..(m - 1)
        PROVE  fresh'[k].at \in 1..n /\ fresh'[k].vector = Vector(texts[fresh'[k].at])
    <3>1. k + 1 \in 1..m
      BY <1>1
    <3>2. fresh[k + 1].at \in 1..n /\ fresh[k + 1].vector = Vector(texts[fresh[k + 1].at])
      BY <1>1, <3>1 DEF Coming, m
    <3>3. fresh'[k] = fresh[k + 1]
      BY <1>4
    <3>. QED BY <3>2, <3>3
  <2>2. ASSUME NEW i \in 1..n
        PROVE  values'[i] = Vector(texts[i]) \/ \E k \in 1..(m - 1) : fresh'[k].at = i
    <3>1. CASE i = miss.at
      BY <1>6, <3>1
    <3>2. CASE i # miss.at /\ values[i] = Vector(texts[i])
      BY <1>6, <3>2
    <3>3. CASE i # miss.at /\ values[i] # Vector(texts[i])
      <4>1. PICK k \in 1..m : fresh[k].at = i
        BY <1>1, <3>3 DEF Coming, m
      <4>2. k # 1
        BY <1>3, <3>3, <4>1
      <4>3. k - 1 \in 1..(m - 1) /\ (k - 1) + 1 = k
        BY <1>1, <4>2
      <4>. QED BY <1>4, <4>1, <4>3
    <3>. QED BY <3>1, <3>2, <3>3
  <2>3. \A k \in 1..Len(fresh') : /\ fresh'[k].at \in 1..Len(texts')
                                  /\ fresh'[k].vector = (Vector(texts[fresh[k].at]))'
    BY <1>2, <1>4, <2>1 DEF Vector
  <2>4. \A i \in 1..Len(texts') :
           values'[i] = (Vector(texts[i]))' \/ \E k \in 1..Len(fresh') : fresh'[k].at = i
    BY <1>2, <1>4, <2>2 DEF Vector
  <2>. QED BY <2>3, <2>4 DEF Coming
<1>11. (step = "embedded" => values = [i \in 1..Len(texts) |-> Vector(texts[i])])'
  <2>. SUFFICES ASSUME step' = "embedded" PROVE (values = [i \in 1..Len(texts) |-> Vector(texts[i])])'
    OBVIOUS
  <2>1. Len(fresh') = 0
    <3>1. fresh' = <<>>
      BY <1>2
    <3>. QED BY <3>1
  <2>2. \A i \in 1..n : values'[i] = Vector(texts[i])
    BY <1>2, <1>9, <1>10, <2>1 DEF Coming
  <2>3. values' = [i \in 1..n |-> Vector(texts[i])]
    <3>1. values' \in [1..n -> Known]
      BY <1>6
    <3>. QED BY <2>2, <3>1
  <2>. QED BY <1>2, <2>3 DEF Vector
<1>. QED BY <1>2, <1>6, <1>7, <1>8, <1>10, <1>11 DEF EmbeddingInv

-----------------------------------------------------------------------------
(* The inductive invariant. *)

Uploads == [kind : {"upload"}, document : Nat, chunks : Seq(Paged)]
AtWork == step \in {"get", "provider", "set", "embedded"}

RequestInv ==
    /\ session \in Sessions
    /\ uploaded \in 0..Len(session.uploads)
    /\ request \in {None} \cup Uploads \cup Questions
    /\ step # "idle" => request \in Uploads \cup Questions
    /\ step = "found" => request \in Questions
    /\ AtWork => found = NothingFound

\* What is embedded is what will be stored, and nothing of the document is stored yet.
UploadInv ==
    AtWork /\ request.kind = "upload" =>
        /\ request.document = uploaded /\ uploaded \in 1..Len(session.uploads)
        /\ request.chunks = PagedChunks(DocumentOf(uploaded))
        /\ texts = [k \in DOMAIN request.chunks |-> request.chunks[k].content]
        /\ \A c \in stored : c.document < uploaded

\* A stored chunk is one of those its document was cut into.
StoredAs(c) ==
    LET chunks == PagedChunks(DocumentOf(c.document))
    IN /\ c.document \in 1..uploaded
       /\ c.index \in Nat
       /\ c.index + 1 \in 1..Len(chunks)
       /\ c.content = chunks[c.index + 1].content
       /\ c.page = IF DocumentOf(c.document).pdf THEN chunks[c.index + 1].page ELSE None
       /\ c.embedding.text = c.content

StoredInv ==
    /\ IsFiniteSet(stored)
    /\ \A c \in stored : StoredAs(c)
    /\ \A c, d \in stored : Place(c) = Place(d) => c = d

\* The arms gave what they may give for the chunks that are stored now.
FoundBy ==
    /\ found = [vector |-> found.vector, keyword |-> found.keyword]
    /\ found.vector \in IF request.mode = "keyword" THEN {<<>>} ELSE VectorSearch(stored, request.scope)
    /\ found.keyword \in IF request.mode = "vector" THEN {<<>>} ELSE Keywords

\* And the answer is made from that.
AnswerIs ==
    LET rows == NoOpRerank(Fused, request.top_k)
        shown == Shown(rows)
    IN answer = [candidates |-> Fused,
                 rows |-> rows,
                 shown |-> shown,
                 explained |-> [i \in DOMAIN rows |->
                     RetrievalInfo(Fused, found.vector, found.keyword, rows[i])],
                 context |-> IF request.kind = "query" THEN BuildContext(shown) ELSE <<>>]

FoundInv ==
    /\ step = "found" => FoundBy
    /\ Answered => FoundBy /\ AnswerIs

AnswersInv == EmbeddingInv /\ RequestInv /\ UploadInv /\ StoredInv /\ FoundInv

LEMMA Documented ==
    ASSUME RequestInv
    PROVE  /\ Len(session.uploads) \in Nat
           /\ \A number \in 1..Len(session.uploads) :
                 /\ DocumentOf(number) \in Documents
                 /\ PagedChunks(DocumentOf(number)) \in Seq(Paged)
<1>1. session.uploads \in Seq(Documents)
  BY SessionsAssumption DEF RequestInv
<1>2. ASSUME NEW number \in 1..Len(session.uploads) PROVE DocumentOf(number) \in Documents
  BY <1>1 DEF DocumentOf
<1>3. ASSUME NEW document \in Documents PROVE PagedChunks(document) \in Seq(Paged)
  BY PagedChunksAre
<1>. QED BY <1>1, <1>2, <1>3

LEMMA InitIsAnswersInv == Init => AnswersInv
<1>. SUFFICES ASSUME Init PROVE AnswersInv
  OBVIOUS
<1>. USE DEF Init, EmbeddingInit
<1>1. EmbeddingInv
  <2>1. EmbeddingTypes
    BY DEF EmbeddingTypes
  <2>2. CacheIsRight
    BY DEF CacheIsRight
  <2>. QED BY <2>1, <2>2 DEF EmbeddingInv
<1>2. RequestInv
  <2>1. session.uploads \in Seq(Documents)
    BY SessionsAssumption
  <2>2. Len(session.uploads) \in Nat
    BY <2>1
  <2>. QED BY <2>2 DEF RequestInv, AtWork
<1>3. UploadInv /\ FoundInv
  BY DEF UploadInv, FoundInv, AtWork, Answered
<1>4. StoredInv
  BY FS_EmptySet DEF StoredInv
<1>. QED BY <1>1, <1>2, <1>3, <1>4 DEF AnswersInv

LEMMA CutUploadKeepsInv ==
    ASSUME AnswersInv, CutUpload
    PROVE  AnswersInv'
<1>. DEFINE number == uploaded + 1
            chunks == PagedChunks(DocumentOf(number))
            list == [k \in DOMAIN chunks |-> chunks[k].content]
<1>1. EmbeddingInv /\ RequestInv /\ StoredInv /\ uploaded < Len(session.uploads) /\ step = "idle"
  BY DEF AnswersInv, CutUpload
<1>2. uploaded \in Nat /\ Len(session.uploads) \in Nat /\ number \in 1..Len(session.uploads)
  BY <1>1, Documented DEF RequestInv
<1>3. chunks \in Seq(Paged)
  BY <1>1, <1>2, Documented
<1>4. /\ uploaded' = number /\ UNCHANGED <<session, stored>>
      /\ request' = [kind |-> "upload", document |-> number, chunks |-> chunks]
      /\ Embed(list)
      /\ found' = NothingFound
  BY DEF CutUpload, DocumentOf
<1>. HIDE DEF chunks, number
<1>5. list \in Seq(Seq(Units))
  <2>1. DOMAIN chunks = 1..Len(chunks) /\ Len(chunks) \in Nat
        /\ \A k \in 1..Len(chunks) : chunks[k] \in Paged
    BY <1>3
  <2>2. \A k \in DOMAIN chunks : chunks[k].content \in Seq(Units)
    <3>1. \A x \in Paged : x.content \in Seq(Units)
      BY DEF Paged, Kept
    <3>. QED BY <2>1, <3>1
  <2>. DEFINE S == Seq(Units)
  <2>3. \A k \in 1..Len(chunks) : chunks[k].content \in S
    BY <2>1, <2>2
  <2>. HIDE DEF S
  <2>4. list \in Seq(S)
    BY <2>1, <2>3
  <2>. QED BY <2>4 DEF S
<1>6. EmbeddingInv'
  BY <1>1, <1>4, <1>5, EmbedKeepsInv
<1>7. texts' = list /\ step' \in {"embedded", "get", "provider"}
  BY <1>4 DEF Embed
<1>8. RequestInv'
  <2>1. request' \in Uploads
    BY <1>2, <1>3, <1>4 DEF Uploads
  <2>. QED BY <1>1, <1>2, <1>4, <1>7, <2>1 DEF RequestInv
<1>9. UploadInv'
  <2>1. \A c \in stored : c.document < number
    BY <1>1, <1>2 DEF StoredInv, StoredAs, number
  <2>2. (DocumentOf(uploaded))' = DocumentOf(number)
    BY <1>4 DEF DocumentOf
  <2>3. request'.chunks = chunks /\ request'.document = number
    BY <1>4
  <2>. QED BY <1>2, <1>4, <1>7, <2>1, <2>2, <2>3 DEF UploadInv, chunks
<1>10. StoredInv'
  <2>1. \A c \in stored : StoredAs(c)'
    BY <1>1, <1>2, <1>4 DEF StoredInv, StoredAs, DocumentOf, number
  <2>. QED BY <1>1, <1>4, <2>1 DEF StoredInv
<1>11. FoundInv'
  BY <1>4, <1>7 DEF FoundInv, Answered
<1>. QED BY <1>6, <1>8, <1>9, <1>10, <1>11 DEF AnswersInv

LEMMA StoreUploadKeepsInv ==
    ASSUME AnswersInv, StoreUpload
    PROVE  AnswersInv'
<1>. DEFINE document == DocumentOf(uploaded)
            chunks == request.chunks
            row(k) == [document |-> uploaded,
                       index |-> k - 1,
                       page |-> IF document.pdf THEN chunks[k].page ELSE None,
                       content |-> chunks[k].content,
                       embedding |-> values[k],
                       groups |-> document.groups]
            new == {row(k) : k \in DOMAIN chunks}
<1>1. /\ EmbeddingInv /\ RequestInv /\ UploadInv /\ StoredInv
      /\ step = "embedded" /\ request.kind = "upload" /\ AtWork
  BY DEF AnswersInv, StoreUpload, AtWork
<1>2. /\ request.document = uploaded /\ uploaded \in 1..Len(session.uploads)
      /\ chunks = PagedChunks(document)
      /\ texts = [k \in DOMAIN chunks |-> chunks[k].content]
      /\ \A c \in stored : c.document < uploaded
  BY <1>1 DEF UploadInv
<1>3. /\ stored' = stored \cup new
      /\ step' = "idle" /\ texts' = <<>> /\ values' = <<>>
      /\ UNCHANGED <<model, caching, vectors, fresh, session, uploaded, request, found, answer>>
  BY <1>2 DEF StoreUpload, StoredChunks
<1>4. chunks \in Seq(Paged) /\ DOMAIN chunks = 1..Len(chunks) /\ Len(chunks) \in Nat
  <2>1. chunks \in Seq(Paged)
    BY <1>1, <1>2, Documented
  <2>. HIDE DEF chunks
  <2>. QED BY <2>1
<1>. HIDE DEF document
<1>5. \A k \in 1..Len(chunks) : values[k].text = chunks[k].content
  <2>. HIDE DEF chunks
  <2>1. values = [i \in 1..Len(texts) |-> Vector(texts[i])]
    BY <1>1 DEF EmbeddingInv
  <2>2. Len(texts) = Len(chunks) /\ \A k \in 1..Len(chunks) : texts[k] = chunks[k].content
    BY <1>2, <1>4
  <2>. QED BY <2>1, <2>2 DEF Vector
<1>. HIDE DEF chunks
<1>6. EmbeddingInv'
  <2>1. EmbeddingTypes' /\ CacheIsRight'
    BY <1>1, <1>3 DEF EmbeddingInv, EmbeddingTypes, CacheIsRight
  <2>. QED BY <1>3, <2>1 DEF EmbeddingInv
<1>7. RequestInv' /\ UploadInv'
  BY <1>1, <1>3 DEF RequestInv, UploadInv, AtWork
<1>8. \A k \in 1..Len(chunks) : /\ row(k).document = uploaded /\ row(k).index = k - 1
                                /\ row(k).content = chunks[k].content
                                /\ row(k).page = IF document.pdf THEN chunks[k].page ELSE None
                                /\ row(k).embedding.text = chunks[k].content
  BY <1>5
<1>. HIDE DEF row
<1>9. \A c \in new : \E k \in 1..Len(chunks) : c = row(k)
  BY <1>4
<1>10. StoredInv'
  <2>1. IsFiniteSet(stored')
    <3>1. IsFiniteSet(1..Len(chunks))
      BY <1>4, FS_Interval
    <3>2. IsFiniteSet(new)
      <4>. DEFINE rows == [k \in 1..Len(chunks) |-> row(k)]
      <4>1. \A k \in 1..Len(chunks) : row(k) \in new
        BY <1>4
      <4>2. rows \in Surjection(1..Len(chunks), new)
        <5>. HIDE DEF new
        <5>. QED BY <1>9, <4>1 DEF Surjection
      <4>. HIDE DEF rows, new
      <4>. QED BY <3>1, <4>2, FS_Surjection
    <3>. HIDE DEF new
    <3>. QED BY <1>1, <1>3, <3>2, FS_Union DEF StoredInv
  <2>. HIDE DEF new
  <2>2. ASSUME NEW c \in new PROVE StoredAs(c)
    <3>1. PICK k \in 1..Len(chunks) : c = row(k)
      BY <1>9
    <3>2. c.document = uploaded /\ c.index = k - 1 /\ c.index + 1 = k /\ c.index \in Nat
      BY <1>4, <1>8, <3>1
    <3>3. DocumentOf(c.document) = document /\ PagedChunks(DocumentOf(c.document)) = chunks
      BY <1>2, <3>2 DEF document
    <3>4. c.document \in 1..uploaded
      BY <1>2, <3>2
    <3>. QED BY <1>8, <3>1, <3>2, <3>3, <3>4 DEF StoredAs
  <2>3. \A c \in stored' : StoredAs(c)'
    <3>1. \A c \in stored' : StoredAs(c)
      BY <1>1, <1>3, <2>2 DEF StoredInv
    <3>2. \A c : StoredAs(c)' <=> StoredAs(c)
      BY <1>3 DEF StoredAs, DocumentOf
    <3>. QED BY <3>1, <3>2
  <2>4. ASSUME NEW c \in stored', NEW d \in stored', Place(c) = Place(d) PROVE c = d
    <3>1. c.document = d.document /\ c.index = d.index
      BY <2>4 DEF Place
    <3>2. \A e \in new : e.document = uploaded
      BY <1>8, <1>9
    <3>3. uploaded \in Int /\ \A e \in stored : e.document # uploaded
      BY <1>1, <1>2 DEF StoredInv, StoredAs
    <3>4. CASE c \in stored
      <4>1. d \in stored
        BY <1>3, <3>1, <3>2, <3>3, <3>4
      <4>. QED BY <1>1, <2>4, <3>4, <4>1 DEF StoredInv
    <3>5. CASE c \notin stored
      <4>1. c \in new /\ d \in new
        BY <1>3, <3>1, <3>2, <3>3, <3>5
      <4>2. PICK j \in 1..Len(chunks) : c = row(j)
        BY <1>9, <4>1
      <4>3. PICK k \in 1..Len(chunks) : d = row(k)
        BY <1>9, <4>1
      <4>4. j - 1 = k - 1
        BY <1>8, <3>1, <4>2, <4>3
      <4>5. j = k
        BY <4>4
      <4>. QED BY <4>2, <4>3, <4>5
    <3>. QED BY <3>4, <3>5
  <2>. QED BY <2>1, <2>3, <2>4 DEF StoredInv, Place
<1>11. FoundInv'
  BY <1>1, <1>3 DEF FoundInv, Answered
<1>. QED BY <1>6, <1>7, <1>10, <1>11 DEF AnswersInv

LEMMA AskKeepsInv ==
    ASSUME AnswersInv, Ask
    PROVE  AnswersInv'
<1>1. EmbeddingInv /\ RequestInv /\ StoredInv /\ step = "idle"
  BY DEF AnswersInv, Ask
<1>2. PICK question \in Questions : request' = question /\ Embed(<<question.text>>)
  BY DEF Ask
<1>3. found' = NothingFound /\ UNCHANGED <<session, stored, uploaded>>
  BY DEF Ask
<1>4. question.kind \in {"search", "query"} /\ question.text \in Seq(Units)
  BY SessionsAssumption
<1>5. <<question.text>> \in Seq(Seq(Units))
  <2>. DEFINE S == Seq(Units)
              text == question.text
  <2>1. text \in S
    BY <1>4
  <2>. HIDE DEF S, text
  <2>2. <<text>> \in Seq(S)
    BY <2>1
  <2>. QED BY <2>2 DEF S, text
<1>6. EmbeddingInv'
  BY <1>1, <1>2, <1>5, EmbedKeepsInv
<1>7. step' \in {"embedded", "get", "provider"}
  BY <1>2 DEF Embed
<1>8. RequestInv'
  BY <1>1, <1>2, <1>3, <1>7 DEF RequestInv
<1>9. UploadInv'
  BY <1>2, <1>4 DEF UploadInv
<1>10. StoredInv'
  BY <1>1, <1>3 DEF StoredInv, StoredAs, DocumentOf
<1>11. FoundInv'
  BY <1>3, <1>7 DEF FoundInv, Answered
<1>. QED BY <1>6, <1>8, <1>9, <1>10, <1>11 DEF AnswersInv

LEMMA SearchKeepsInv ==
    ASSUME AnswersInv, Search
    PROVE  AnswersInv'
<1>1. EmbeddingInv /\ RequestInv /\ StoredInv /\ step = "embedded" /\ request.kind \in {"search", "query"}
  BY DEF AnswersInv, Search
<1>2. /\ step' = "found" /\ texts' = <<>> /\ values' = <<>>
      /\ UNCHANGED <<model, caching, vectors, fresh, session, stored, uploaded, request, answer>>
  BY DEF Search
<1>3. request \in Questions
  BY <1>1 DEF RequestInv, Uploads
<1>4. EmbeddingInv'
  <2>1. EmbeddingTypes' /\ CacheIsRight'
    BY <1>1, <1>2 DEF EmbeddingInv, EmbeddingTypes, CacheIsRight
  <2>. QED BY <1>2, <2>1 DEF EmbeddingInv
<1>5. RequestInv' /\ UploadInv'
  BY <1>1, <1>2, <1>3 DEF RequestInv, UploadInv, AtWork
<1>6. StoredInv'
  BY <1>1, <1>2 DEF StoredInv, StoredAs, DocumentOf
<1>7. FoundInv'
  <2>1. PICK vector \in IF request.mode = "keyword" THEN {<<>>} ELSE VectorSearch(stored, request.scope) :
           \E keyword \in IF request.mode = "vector" THEN {<<>>} ELSE Keywords :
              found' = [vector |-> vector, keyword |-> keyword]
    BY DEF Search
  <2>2. PICK keyword \in IF request.mode = "vector" THEN {<<>>} ELSE Keywords :
              found' = [vector |-> vector, keyword |-> keyword]
    BY <2>1
  <2>3. FoundBy'
    BY <1>2, <2>1, <2>2 DEF FoundBy, Keywords
  <2>. QED BY <1>2, <2>3 DEF FoundInv, Answered
<1>. QED BY <1>4, <1>5, <1>6, <1>7 DEF AnswersInv

LEMMA AnswerKeepsInv ==
    ASSUME AnswersInv, Answer
    PROVE  AnswersInv'
<1>1. EmbeddingInv /\ RequestInv /\ StoredInv /\ FoundInv /\ step = "found"
  BY DEF AnswersInv, Answer
<1>2. /\ step' = "idle"
      /\ UNCHANGED <<model, caching, vectors, texts, values, fresh, session, stored, uploaded, request, found>>
  BY DEF Answer, embeddingVars
<1>3. EmbeddingInv'
  <2>1. EmbeddingTypes' /\ CacheIsRight'
    BY <1>1, <1>2 DEF EmbeddingInv, EmbeddingTypes, CacheIsRight
  <2>. QED BY <1>2, <2>1 DEF EmbeddingInv
<1>4. RequestInv' /\ UploadInv'
  BY <1>1, <1>2 DEF RequestInv, UploadInv, AtWork
<1>5. StoredInv'
  BY <1>1, <1>2 DEF StoredInv, StoredAs, DocumentOf
<1>6. FoundInv'
  <2>1. FoundBy'
    BY <1>1, <1>2 DEF FoundInv, FoundBy, Keywords
  <2>2. AnswerIs'
    BY <1>2 DEF Answer, AnswerIs, Fused, Shown
  <2>. QED BY <1>2, <2>1, <2>2 DEF FoundInv
<1>. QED BY <1>3, <1>4, <1>5, <1>6 DEF AnswersInv

LEMMA EmbeddingStepKeepsInv ==
    ASSUME AnswersInv, EmbeddingStep, UNCHANGED <<session, stored, uploaded, request, found, answer>>
    PROVE  AnswersInv'
<1>1. EmbeddingInv /\ RequestInv /\ UploadInv /\ StoredInv /\ FoundInv
  BY DEF AnswersInv
<1>2. EmbeddingInv'
  <2>1. CASE Get
    BY <1>1, <2>1, GetKeepsInv
  <2>2. CASE EmbedMisses
    BY <1>1, <2>2, EmbedMissesKeepsInv
  <2>3. CASE EmbedAll
    BY <1>1, <2>3, EmbedAllKeepsInv
  <2>4. CASE Set
    BY <1>1, <2>4, SetKeepsInv
  <2>5. CASE EmbedFails
    <3>1. EmbeddingTypes' /\ CacheIsRight'
      BY <1>1, <2>5 DEF EmbedFails, EmbeddingInv, EmbeddingTypes, CacheIsRight
    <3>. QED BY <2>5, <3>1 DEF EmbedFails, EmbeddingInv
  <2>6. CASE Expire
    <3>1. EmbeddingTypes'
      BY <1>1, <2>6 DEF Expire, EmbeddingInv, EmbeddingTypes
    <3>2. CacheIsRight'
      BY <1>1, <2>6 DEF Expire, EmbeddingInv, CacheIsRight
    <3>. QED BY <2>6, <3>1, <3>2 DEF Expire, EmbeddingInv
  <2>7. CASE Restart
    <3>1. EmbeddingTypes' /\ CacheIsRight'
      BY <1>1, <2>7 DEF Restart, EmbeddingInv, EmbeddingTypes, CacheIsRight
    <3>. QED BY <2>7, <3>1 DEF Restart, EmbeddingInv
  <2>. QED BY <2>1, <2>2, <2>3, <2>4, <2>5, <2>6, <2>7 DEF EmbeddingStep
<1>3. \/ step' = "idle" /\ (AtWork \/ step = "idle")
      \/ AtWork /\ AtWork' /\ texts' = texts
  BY DEF EmbeddingStep, Get, EmbedMisses, EmbedAll, Set, EmbedFails, Expire, Restart, AtWork
<1>4. RequestInv'
  BY <1>1, <1>3 DEF RequestInv, AtWork
<1>5. UploadInv'
  BY <1>1, <1>3 DEF UploadInv, DocumentOf, AtWork
<1>6. StoredInv'
  BY <1>1 DEF StoredInv, StoredAs, DocumentOf
<1>7. FoundInv'
  <2>1. CASE AtWork
    <3>1. found' = NothingFound
      BY <1>1, <2>1 DEF RequestInv
    <3>. QED BY <1>3, <3>1 DEF FoundInv, Answered, AtWork
  <2>2. CASE step = "idle"
    <3>1. step' = "idle"
      BY <1>3, <2>2 DEF AtWork
    <3>2. Answered' <=> Answered
      BY <2>2, <3>1 DEF Answered
    <3>3. FoundBy' <=> FoundBy
      BY DEF FoundBy, Keywords
    <3>4. AnswerIs' <=> AnswerIs
      BY DEF AnswerIs, Fused, Shown
    <3>. QED BY <1>1, <3>1, <3>2, <3>3, <3>4 DEF FoundInv
  <2>. QED BY <1>3, <2>1, <2>2
<1>. QED BY <1>2, <1>4, <1>5, <1>6, <1>7 DEF AnswersInv

LEMMA NextKeepsAnswersInv == AnswersInv /\ [Next]_answersVars => AnswersInv'
<1>. SUFFICES ASSUME AnswersInv, [Next]_answersVars PROVE AnswersInv'
  OBVIOUS
<1>1. CASE CutUpload
  BY <1>1, CutUploadKeepsInv
<1>2. CASE StoreUpload
  BY <1>2, StoreUploadKeepsInv
<1>3. CASE Ask
  BY <1>3, AskKeepsInv
<1>4. CASE Search
  BY <1>4, SearchKeepsInv
<1>5. CASE Answer
  BY <1>5, AnswerKeepsInv
<1>6. CASE EmbeddingStep /\ UNCHANGED <<session, stored, uploaded, request, found, answer>>
  BY <1>6, EmbeddingStepKeepsInv
<1>7. CASE UNCHANGED answersVars
  <2>1. UNCHANGED <<model, caching, vectors, texts, values, fresh, step, session, stored, uploaded,
                    request, found, answer>>
    BY <1>7 DEF answersVars, embeddingVars
  <2>2. EmbeddingInv'
    BY <2>1 DEF AnswersInv, EmbeddingInv, EmbeddingTypes, CacheIsRight, Given, Coming, Vector
  <2>3. RequestInv' /\ UploadInv' /\ StoredInv'
    BY <2>1 DEF AnswersInv, RequestInv, UploadInv, StoredInv, StoredAs, DocumentOf, AtWork
  <2>4. FoundInv'
    BY <2>1 DEF AnswersInv, FoundInv, FoundBy, AnswerIs, Keywords, Fused, Shown, Answered
  <2>. QED BY <2>2, <2>3, <2>4 DEF AnswersInv
<1>. QED BY <1>1, <1>2, <1>3, <1>4, <1>5, <1>6, <1>7 DEF Next

LEMMA AlwaysAnswersInv == Spec => []AnswersInv
<1>. QED BY InitIsAnswersInv, NextKeepsAnswersInv, PTL DEF Spec

-----------------------------------------------------------------------------
(* The chunks that are stored. *)

LEMMA StoredChunkIs ==
    ASSUME AnswersInv, NEW c \in stored
    PROVE  LET document == DocumentOf(c.document)
               chunks == PagedChunks(document)
               k == c.index + 1
           IN /\ document \in Documents /\ c.index \in Nat
              /\ k \in 1..Len(chunks) /\ c.content = chunks[k].content
              /\ c.page = IF document.pdf THEN chunks[k].page ELSE None
              /\ chunks[k] \in Paged /\ c.content \in Kept
<1>1. RequestInv /\ StoredAs(c)
  BY DEF AnswersInv, StoredInv
<1>2. c.document \in 1..Len(session.uploads)
  BY <1>1, Documented DEF RequestInv, StoredAs
<1>. DEFINE document == DocumentOf(c.document)
            chunks == PagedChunks(document)
            k == c.index + 1
<1>3. document \in Documents /\ chunks \in Seq(Paged)
  BY <1>1, <1>2, Documented
<1>4. /\ c.index \in Nat /\ k \in 1..Len(chunks) /\ c.content = chunks[k].content
      /\ c.page = IF document.pdf THEN chunks[k].page ELSE None
  BY <1>1 DEF StoredAs
<1>. HIDE DEF chunks, k
<1>5. chunks[k] \in Paged
  BY <1>3, <1>4
<1>6. c.content \in Kept
  BY <1>4, <1>5 DEF Paged
<1>. QED BY <1>3, <1>4, <1>5, <1>6 DEF chunks, k

\* Two stored chunks of one page of a document are two of the chunks its text was cut into.
LEMMA OfOnePage ==
    ASSUME AnswersInv, NEW c \in stored, NEW d \in stored, c.document = d.document, c.page = d.page
    PROVE  /\ c.index < d.index => ~EndsOnHeading(c.content)
           /\ c # d => ~Short(c.content)
<1>. DEFINE document == DocumentOf(c.document)
            chunks == PagedChunks(document)
            j == c.index + 1
            k == d.index + 1
<1>1. /\ document \in Documents /\ c.index \in Nat
      /\ j \in 1..Len(chunks) /\ c.content = chunks[j].content
      /\ c.page = IF document.pdf THEN chunks[j].page ELSE None
  BY StoredChunkIs
<1>2. /\ d.index \in Nat
      /\ k \in 1..Len(chunks) /\ d.content = chunks[k].content
      /\ d.page = IF document.pdf THEN chunks[k].page ELSE None
  BY StoredChunkIs
<1>. HIDE DEF document
<1>3. /\ \A i \in 1..Len(chunks) : chunks[i].page \in 1..Len(document.pages)
      /\ \A a, b \in 1..Len(chunks) :
            a < b /\ chunks[a].page = chunks[b].page => ~EndsOnHeading(chunks[a].content)
      /\ \A a, b \in 1..Len(chunks) :
            a # b /\ chunks[a].page = chunks[b].page => ~Short(chunks[a].content)
  BY <1>1, PagedChunksAre
<1>. HIDE DEF chunks, j, k
<1>4. chunks[j].page = chunks[k].page
  <2>1. CASE document.pdf
    BY <1>1, <1>2, <2>1
  <2>2. CASE ~document.pdf
    <3>1. document.pages \in Seq(Texts) /\ Len(document.pages) <= 1
      BY <1>1, <2>2 DEF Documents
    <3>2. chunks[j].page \in 1..Len(document.pages) /\ chunks[k].page \in 1..Len(document.pages)
      BY <1>1, <1>2, <1>3
    <3>3. Len(document.pages) \in Nat
      BY <3>1
    <3>4. chunks[j].page = 1 /\ chunks[k].page = 1
      BY <3>1, <3>2, <3>3
    <3>. QED BY <3>4
  <2>. QED BY <2>1, <2>2
<1>5. c.index < d.index => j < k
  BY <1>1, <1>2 DEF j, k
<1>6. c # d => j # k
  <2>1. j = k => c.index = d.index
    BY <1>1, <1>2 DEF j, k
  <2>. QED BY <2>1 DEF AnswersInv, StoredInv, Place
<1>. QED BY <1>1, <1>2, <1>3, <1>4, <1>5, <1>6

\* A chunk is longer than chunk_size only where something was joined to it: whatever the text,
\* the settings and the documents before, no packing of pieces and no overlap makes it so.
THEOREM ChunksFit == Spec => []FitsUnlessJoined
<1>1. ASSUME AnswersInv PROVE FitsUnlessJoined
  <2>. SUFFICES ASSUME NEW chunk \in stored, \A unit \in Range(chunk.content) : unit.ends # "blank"
                PROVE  Length(chunk.content) <= ChunkSize
    BY DEF FitsUnlessJoined
  <2>1. chunk.content \in Kept
    BY <1>1, StoredChunkIs
  <2>2. NoBlank(chunk.content)
    <3>1. DOMAIN chunk.content = 1..Len(chunk.content)
      BY <2>1 DEF Kept
    <3>. QED BY <3>1 DEF NoBlank, Range
  <2>. QED BY <2>1, <2>2 DEF Kept
<1>. QED BY <1>1, AlwaysAnswersInv, PTL

\* No chunk but the last of its page ends on a heading, however headings, overlaps and short
\* chunks come together.
THEOREM HeadingsStayWithTheirText == Spec => []NoChunkEndsOnAHeading
<1>1. ASSUME AnswersInv PROVE NoChunkEndsOnAHeading
  <2>. SUFFICES ASSUME NEW chunk \in stored, ~LastOfItsPage(chunk)
                PROVE  TrailingHeadings(chunk.content) = Len(chunk.content) + 1
    BY DEF NoChunkEndsOnAHeading
  <2>1. PICK c \in stored : /\ c.document = chunk.document /\ c.page = chunk.page
                            /\ c.index > chunk.index
    BY DEF LastOfItsPage
  <2>2. chunk.index \in Nat /\ c.index \in Nat
    BY <1>1, StoredChunkIs
  <2>3. chunk.content \in Seq(Units)
    <3>1. chunk.content \in Kept
      BY <1>1, StoredChunkIs
    <3>. QED BY <3>1 DEF Kept
  <2>4. ~EndsOnHeading(chunk.content)
    <3>1. chunk.index < c.index
      BY <2>1, <2>2
    <3>. QED BY <1>1, <2>1, <3>1, OfOnePage
  <2>. QED BY <2>3, <2>4, NoHeadingAtTheEnd
<1>. QED BY <1>1, AlwaysAnswersInv, PTL

\* A chunk shorter than chunk_min_size is all its page has.
THEOREM ShortChunksAreAlone == Spec => []NoShortChunk
<1>1. ASSUME AnswersInv PROVE NoShortChunk
  <2>. SUFFICES ASSUME NEW chunk \in stored, Short(chunk.content), NEW c \in stored,
                       c.document = chunk.document, c.page = chunk.page
                PROVE  c = chunk
    BY DEF NoShortChunk
  <2>. QED BY <1>1, OfOnePage
<1>. QED BY <1>1, AlwaysAnswersInv, PTL

\* Whatever the cache had, whichever models wrote it, and however requests failed half way: a
\* list of texts is embedded by the model in use, in its order, and each chunk is stored with
\* the vector of its own text.
THEOREM VectorsAreTheirTexts == Spec => []VectorsOfTheirTexts
<1>1. ASSUME AnswersInv PROVE VectorsOfTheirTexts
  BY <1>1 DEF AnswersInv, EmbeddingInv, StoredInv, StoredAs, VectorsOfTheirTexts
<1>. QED BY <1>1, AlwaysAnswersInv, PTL

-----------------------------------------------------------------------------
(* What the arms of a search give. *)

\* What an arm gives from a set: some of it, each once, and no more than asked for.
ArmRows(set) ==
    {rows \in Seq(set) : /\ Len(rows) <= Candidates
                         /\ \A i, j \in 1..Len(rows) : rows[i] = rows[j] => i = j}

LEMMA NoRows == \A set : <<>> \in ArmRows(set)
BY RetrievalSettings DEF ArmRows

LEMMA RowsOfSome ==
    ASSUME NEW set, IsFiniteSet(set), NEW some \in SUBSET set, Cardinality(some) <= Candidates,
           NEW rows \in SetToSeqs(some)
    PROVE  rows \in ArmRows(set) /\ Len(rows) = Cardinality(some)
<1>. DEFINE n == Cardinality(some)
<1>1. n \in Nat
  BY FS_Subset, FS_CardinalityType
<1>2. rows \in [1..n -> some] /\ \A i, j \in 1..n : i # j => rows[i] # rows[j]
  BY DEF SetToSeqs
<1>. HIDE DEF n
<1>3. rows \in Seq(set) /\ Len(rows) = n
  BY <1>1, <1>2
<1>. QED BY <1>2, <1>3 DEF ArmRows, n

LEMMA BestOfIs ==
    ASSUME NEW set, IsFiniteSet(set), NEW chunks \in SUBSET set, NEW worth, NEW rows \in BestOf(chunks, worth)
    PROVE  /\ rows \in ArmRows(set)
           /\ chunks # {} => rows # <<>>
<1>. DEFINE n == Min({Candidates, Cardinality(chunks)})
            best(some) == /\ Cardinality(some) = n
                          /\ \A c \in some : \A d \in chunks \ some : worth[c] >= worth[d]
            inOrder(list) == \A i \in 1..(Len(list) - 1) : worth[list[i]] >= worth[list[i + 1]]
<1>1. PICK some \in SUBSET chunks : best(some) /\ rows \in SetToSeqs(some)
  <2>1. BestOf(chunks, worth)
            = UNION {{list \in SetToSeqs(some) : inOrder(list)} : some \in {s \in SUBSET chunks : best(s)}}
    BY DEF BestOf
  <2>. HIDE DEF best, inOrder
  <2>. QED BY <2>1
<1>2. Cardinality(chunks) \in Nat /\ (chunks # {} => Cardinality(chunks) # 0)
  <2>1. IsFiniteSet(chunks)
    BY FS_Subset
  <2>. QED BY <2>1, FS_CardinalityType, FS_EmptySet
<1>3. Candidates \in Nat \ {0}
  BY RetrievalSettings
<1>4. n = IF Candidates <= Cardinality(chunks) THEN Candidates ELSE Cardinality(chunks)
  BY <1>2, <1>3, LesserOf
<1>5. Cardinality(some) = n
  BY <1>1
<1>. HIDE DEF n, best
<1>6. n \in Nat /\ n <= Candidates /\ (chunks # {} => n > 0)
  BY <1>2, <1>3, <1>4
<1>7. rows \in ArmRows(set) /\ Len(rows) = n
  BY <1>1, <1>5, <1>6, RowsOfSome
<1>. QED BY <1>6, <1>7

LEMMA InScopeIs ==
    ASSUME NEW chunks, IsFiniteSet(chunks), NEW scope
    PROVE  InScope(chunks, scope) \in SUBSET chunks /\ IsFiniteSet(InScope(chunks, scope))
<1>1. InScope(chunks, scope) \in SUBSET chunks
  BY DEF InScope
<1>. QED BY <1>1, FS_Subset

LEMMA VectorRowsAre ==
    ASSUME NEW chunks, IsFiniteSet(chunks), NEW scope, NEW rows \in VectorSearch(chunks, scope)
    PROVE  rows \in ArmRows(InScope(chunks, scope))
<1>. DEFINE seen == InScope(chunks, scope)
<1>1. IsFiniteSet(seen)
  BY InScopeIs
<1>2. PICK some \in SUBSET seen : Cardinality(some) <= Candidates /\ rows \in SetToSeqs(some)
  BY DEF VectorSearch
<1>. HIDE DEF seen
<1>3. rows \in ArmRows(seen)
  BY <1>1, <1>2, RowsOfSome
<1>. QED BY <1>3 DEF seen

LEMMA KeywordRowsAre ==
    ASSUME NEW chunks, IsFiniteSet(chunks), NEW query, NEW scope,
           NEW rows \in KeywordSearch(chunks, query, scope)
    PROVE  rows \in ArmRows(InScope(chunks, scope))
<1>. DEFINE seen == InScope(chunks, scope)
            counted == ~Strict(query) /\ (RarityWeighting \/ MaxTermShare[1] < MaxTermShare[2])
            stats == IF counted THEN TermStats(chunks, scope, query.words) ELSE None
            typed == WithoutCommonWords(query, stats)
            words == OrWords(typed)
            exact == {c \in seen : Matches(c, typed)}
            any == {c \in seen : MatchesAny(c, words)}
<1>1. IsFiniteSet(seen)
  BY InScopeIs
<1>2. \/ rows \in KeywordRows(seen, typed)
      \/ rows \in RarityWeightedRows(seen, words, stats)
      \/ rows \in BestOf(any, [c \in any |-> TsRank(c, words)])
  BY DEF KeywordSearch
<1>. HIDE DEF seen, stats, typed, words
<1>3. CASE rows \in KeywordRows(seen, typed)
  <2>1. rows \in BestOf(exact, [c \in exact |-> TsRank(c, typed.words)])
    BY <1>3 DEF KeywordRows
  <2>2. exact \in SUBSET seen
    OBVIOUS
  <2>. HIDE DEF exact
  <2>3. rows \in ArmRows(seen)
    BY <1>1, <2>1, <2>2, BestOfIs
  <2>. QED BY <2>3 DEF seen
<1>4. CASE rows \in RarityWeightedRows(seen, words, stats)
  <2>1. rows \in BestOf(any, [c \in any |-> Rarity(c, words, stats) * (Len(words) + 1) + TsRank(c, words)])
    BY <1>4 DEF RarityWeightedRows
  <2>2. any \in SUBSET seen
    OBVIOUS
  <2>. HIDE DEF any
  <2>3. rows \in ArmRows(seen)
    BY <1>1, <2>1, <2>2, BestOfIs
  <2>. QED BY <2>3 DEF seen
<1>5. CASE rows \in BestOf(any, [c \in any |-> TsRank(c, words)])
  <2>1. any \in SUBSET seen
    OBVIOUS
  <2>. HIDE DEF any
  <2>2. rows \in ArmRows(seen)
    BY <1>1, <1>5, <2>1, BestOfIs
  <2>. QED BY <2>2 DEF seen
<1>. QED BY <1>2, <1>3, <1>4, <1>5

LEMMA ArmsAre ==
    ASSUME AnswersInv, FoundBy
    PROVE  LET seen == InScope(stored, request.scope)
           IN IsFiniteSet(seen) /\ found.vector \in ArmRows(seen) /\ found.keyword \in ArmRows(seen)
<1>1. IsFiniteSet(stored)
  BY DEF AnswersInv, StoredInv
<1>2. found.vector \in ArmRows(InScope(stored, request.scope))
  BY <1>1, VectorRowsAre, NoRows DEF FoundBy
<1>3. found.keyword \in ArmRows(InScope(stored, request.scope))
  BY <1>1, KeywordRowsAre, NoRows DEF FoundBy, Keywords
<1>. QED BY <1>1, <1>2, <1>3, InScopeIs

\* A search by keywords in what a caller may see is one in what there is, were that all.
LEMMA SearchInScope ==
    ASSUME NEW chunks, NEW query, NEW scope
    PROVE  KeywordSearch(chunks, query, scope) = KeywordSearch(InScope(chunks, scope), query, None)
<1>. DEFINE seen == InScope(chunks, scope)
<1>1. InScope(seen, None) = seen
  BY DEF InScope
<1>2. TermStats(chunks, scope, query.words) = TermStats(seen, None, query.words)
  BY <1>1 DEF TermStats
<1>. HIDE DEF seen
<1>. QED BY <1>1, <1>2 DEF KeywordSearch, seen

-----------------------------------------------------------------------------
(* Reciprocal rank fusion. *)

LEMMA Multiplied ==
    ASSUME NEW q \in Nat, NEW m \in Nat \ {0}
    PROVE  (q * m) \div m = q
OBVIOUS

LEMMA LargerPart ==
    ASSUME NEW a \in Nat, NEW b \in Nat \ {0}, NEW m \in Nat \ {0}, NEW n \in Nat, m < n, a * m = b * n
    PROVE  a > b
<1>. SUFFICES ASSUME a <= b PROVE FALSE
  OBVIOUS
<1>1. a * m <= b * m
  OBVIOUS
<1>2. b * m < b * n
  OBVIOUS
<1>3. a * m \in Nat /\ b * m \in Nat /\ b * n \in Nat
  OBVIOUS
<1>. QED BY <1>1, <1>2, <1>3

Ranks == 1..Candidates
RankSeq == [rank \in 1..Candidates |-> rank]

LEMMA RankSeqIs == RankSeq \in Seq(Nat) /\ Len(RankSeq) = Candidates /\ \A k \in Ranks : RankSeq[k] = k
BY RetrievalSettings DEF RankSeq, Ranks

\* Unity, one rank after another.
LEMMA UnitySteps ==
    ASSUME NEW ranks \in Seq(Nat)
    PROVE  \E h : /\ h \in [0..Len(ranks) -> Nat]
                  /\ h[0] = 1
                  /\ \A k \in 1..Len(ranks) : h[k] = h[k - 1] * (K + ranks[k])
                  /\ h[Len(ranks)] = FoldLeft(LAMBDA product, rank : product * (K + rank), 1, ranks)
<1>. DEFINE n == Len(ranks)
            B == Nat
            g == [p \in B \X (1..n) |-> p[1] * (K + ranks[p[2]])]
            Is(it) == it = [s \in SUBSET DOMAIN ranks |->
                               IF s = {} THEN 1
                               ELSE it[s \ {Max(s)}] * (K + ranks[Max(s)])]
            f == CHOOSE it : Is(it)
<1>1. n \in Nat /\ DOMAIN ranks = 1..n /\ \A k \in 1..n : ranks[k] \in Nat
  BY LenProperties
<1>2. 1 \in B /\ \A b \in B, x \in Nat : b * (K + x) \in B
  BY DEF K
<1>3. g \in [B \X (1..n) -> B]
  BY <1>1, <1>2
<1>4. PICK it \in [SUBSET (1..n) -> B] : Folding(it, 1..n, 1, g)
  BY <1>1, <1>2, <1>3, FoldingExists
<1>5. Is(it)
  <2>1. \A s \in SUBSET (1..n) : s # {} => Max(s) \in 1..n /\ s \ {Max(s)} \in SUBSET (1..n)
    BY <1>1, GreatestPlace
  <2>2. \A s \in SUBSET (1..n) : s # {} =>
           g[<<it[s \ {Max(s)}], Max(s)>>] = it[s \ {Max(s)}] * (K + ranks[Max(s)])
    BY <2>1
  <2>. QED BY <1>1, <1>4, <2>2 DEF Folding
<1>6. Is(f)
  BY <1>5
<1>7. FoldLeft(LAMBDA product, rank : product * (K + rank), 1, ranks) = f[1..n]
  BY <1>1 DEF FoldLeft, MapThenFoldSet
<1>. HIDE DEF f
<1>8. FoldsTo(f, n, B, 1, g)
  <2>1. f[{}] = 1
    BY <1>6
  <2>2. \A k \in 1..n : f[1..k] = f[1..(k - 1)] * (K + ranks[k])
    <3>. TAKE k \in 1..n
    <3>1. k \in Nat \ {0} /\ 1..k \in SUBSET (1..n)
      BY <1>1
    <3>2. 1..k # {} /\ Max(1..k) = k /\ (1..k) \ {k} = 1..(k - 1)
      BY <3>1, Spans
    <3>3. f[1..k] = IF 1..k = {} THEN 1 ELSE f[(1..k) \ {Max(1..k)}] * (K + ranks[Max(1..k)])
      BY <1>1, <1>6, <3>1
    <3>. QED BY <3>2, <3>3
  <2>3. \A k \in 1..n : f[1..(k - 1)] \in B => f[1..k] = g[<<f[1..(k - 1)], k>>]
    BY <2>2
  <2>. HIDE DEF g, n, B
  <2>. QED BY <1>1, <1>2, <1>3, <2>1, <2>3 DEF FoldsTo
<1>9. \A k \in 1..n, b \in B : g[<<b, k>>] = b * (K + ranks[k])
  OBVIOUS
<1>. HIDE DEF g, B, n
<1>10. PICK h : Steps(h, n, B, 1, g) /\ h[n] = f[1..n]
  BY <1>8, StepsOfFolding
<1>11. h \in [0..n -> B] /\ h[0] = 1 /\ \A k \in 1..n : h[k] = g[<<h[k - 1], k>>]
  BY <1>10 DEF Steps
<1>12. \A k \in 1..n : h[k] = h[k - 1] * (K + ranks[k])
  <2>1. \A k \in 1..n : h[k - 1] \in B
    BY <1>1, <1>11
  <2>. QED BY <1>9, <1>11, <2>1
<1>. QED BY <1>7, <1>10, <1>11, <1>12 DEF B, n


\* Unity divided by any rank's part is a whole number.
LEMMA UnityIsWhole == \A rank \in Ranks : \E q \in Nat \ {0} : Unity = q * (K + rank)
<1>1. Candidates \in Nat
  BY RetrievalSettings
<1>2. RankSeq \in Seq(Nat) /\ Len(RankSeq) = Candidates /\ \A k \in 1..Candidates : RankSeq[k] = k
  BY RankSeqIs DEF Ranks
<1>3. PICK h : /\ h \in [0..Len(RankSeq) -> Nat]
               /\ h[0] = 1
               /\ \A k \in 1..Len(RankSeq) : h[k] = h[k - 1] * (K + RankSeq[k])
               /\ h[Len(RankSeq)] = FoldLeft(LAMBDA product, rank : product * (K + rank), 1, RankSeq)
  BY <1>2, UnitySteps
<1>4. /\ h \in [0..Candidates -> Nat]
      /\ h[0] = 1
      /\ \A k \in 1..Candidates : h[k] = h[k - 1] * (K + k)
      /\ h[Candidates] = Unity
  BY <1>2, <1>3 DEF Unity, RankSeq
<1>. DEFINE Whole(k) == h[k] # 0 /\ \A j \in 1..k : \E q \in Nat \ {0} : h[k] = q * (K + j)
            T == {k \in 0..Candidates : Whole(k)}
<1>5. 0 \in T
  BY <1>1, <1>4
<1>6. ASSUME NEW k \in 0..(Candidates - 1), Whole(k) PROVE Whole(k + 1)
  <2>1. k \in 0..Candidates /\ k + 1 \in 1..Candidates /\ (k + 1) - 1 = k
    BY <1>1
  <2>2. h[k] \in Nat \ {0} /\ h[k + 1] = h[k] * (K + (k + 1))
    BY <1>4, <1>6, <2>1
  <2>3. K + (k + 1) \in Nat \ {0}
    BY DEF K
  <2>4. h[k + 1] # 0
    <3>. DEFINE m == K + (k + 1)
    <3>. HIDE DEF m
    <3>. QED BY <2>2, <2>3 DEF m
  <2>5. ASSUME NEW j \in 1..k PROVE \E q \in Nat \ {0} : h[k + 1] = q * (K + j)
    <3>1. PICK q \in Nat \ {0} : h[k] = q * (K + j)
      BY <1>6
    <3>. DEFINE m == K + (k + 1)
                n == K + j
    <3>2. m \in Nat \ {0} /\ n \in Nat
      BY <2>3 DEF K
    <3>3. h[k + 1] = (q * n) * m
      BY <2>2, <3>1
    <3>. HIDE DEF m, n
    <3>4. (q * n) * m = (q * m) * n /\ q * m \in Nat \ {0}
      BY <3>2
    <3>5. h[k + 1] = (q * m) * n
      BY <3>3, <3>4
    <3>. QED BY <3>4, <3>5 DEF n
  <2>6. \A j \in 1..(k + 1) : j \in 1..k \/ j = k + 1
    OBVIOUS
  <2>7. \E q \in Nat \ {0} : h[k + 1] = q * (K + (k + 1))
    BY <2>2
  <2>. QED BY <2>4, <2>5, <2>6, <2>7
<1>7. \A k \in 0..(Candidates - 1) : k \in T => k + 1 \in T
  <2>1. \A k \in 0..(Candidates - 1) : k + 1 \in 0..Candidates
    BY <1>1
  <2>. HIDE DEF Whole
  <2>. QED BY <1>6, <2>1
<1>8. 0..Candidates \subseteq T
  <2>. HIDE DEF T
  <2>. QED BY <1>1, <1>5, <1>7, InductionUpTo
<1>9. Candidates \in T
  BY <1>1, <1>8
<1>10. Whole(Candidates)
  <2>. HIDE DEF Whole
  <2>. QED BY <1>9
<1>. QED BY <1>4, <1>10 DEF Ranks

\* An earlier rank has the larger share, and any rank a larger one than none.
LEMMA SharesFall ==
    /\ Share(None) = 0
    /\ \A rank \in Ranks : Share(rank) \in Nat \ {0}
    /\ \A i, j \in Ranks : i < j => Share(i) > Share(j)
<1>1. Share(None) = 0
  BY DEF Share
<1>2. \A rank \in Ranks : rank # None /\ K + rank \in Nat \ {0} /\ rank \in Nat
  BY NoneIsNoRank, RetrievalSettings DEF Ranks, K
<1>3. \A rank \in Ranks : Share(rank) \in Nat \ {0} /\ Unity = Share(rank) * (K + rank)
  <2>. TAKE rank \in Ranks
  <2>1. PICK q \in Nat \ {0} : Unity = q * (K + rank)
    BY UnityIsWhole
  <2>2. (q * (K + rank)) \div (K + rank) = q
    BY <1>2, Multiplied
  <2>3. Share(rank) = Unity \div (K + rank)
    BY <1>2 DEF Share
  <2>4. Share(rank) = q
    BY <2>1, <2>2, <2>3
  <2>. QED BY <2>1, <2>4
<1>4. ASSUME NEW i \in Ranks, NEW j \in Ranks, i < j PROVE Share(i) > Share(j)
  <2>1. Share(i) \in Nat /\ Share(j) \in Nat \ {0} /\ K + i \in Nat \ {0} /\ K + j \in Nat
    BY <1>2, <1>3
  <2>2. K + i < K + j
    BY <1>2, <1>4 DEF K
  <2>3. Share(i) * (K + i) = Share(j) * (K + j)
    BY <1>3
  <2>. QED BY <2>1, <2>2, <2>3, LargerPart
<1>. QED BY <1>1, <1>3, <1>4

LEMMA RankIs ==
    ASSUME NEW set, NEW rows \in ArmRows(set), NEW chunk
    PROVE  RankIn(rows, chunk) \in Ranks \cup {None}
<1>1. Len(rows) \in Nat /\ Len(rows) <= Candidates /\ Candidates \in Nat
  BY RetrievalSettings DEF ArmRows
<1>2. ASSUME Contains(rows, chunk) PROVE RankIn(rows, chunk) \in 1..Len(rows)
  <2>1. \E i \in 1..Len(rows) : rows[i] = chunk
    BY <1>2 DEF Contains
  <2>. QED BY <1>2, <2>1 DEF RankIn
<1>3. ASSUME ~Contains(rows, chunk) PROVE RankIn(rows, chunk) = None
  BY <1>3 DEF RankIn
<1>4. 1..Len(rows) \subseteq Ranks
  BY <1>1 DEF Ranks
<1>. QED BY <1>2, <1>3, <1>4

Hits == [vector_rank : Ranks \cup {None}, keyword_rank : Ranks \cup {None}, fused_score : Nat]

LEMMA ProvenanceIs ==
    ASSUME NEW set, NEW vectorRows \in ArmRows(set), NEW keywordRows \in ArmRows(set), NEW chunk
    PROVE  LET hit == Provenance(vectorRows, keywordRows, chunk)
           IN /\ hit \in Hits
              /\ hit.fused_score = Share(hit.vector_rank) + Share(hit.keyword_rank)
<1>. DEFINE v == RankIn(vectorRows, chunk)
            k == RankIn(keywordRows, chunk)
            hit == Provenance(vectorRows, keywordRows, chunk)
<1>1. v \in Ranks \cup {None} /\ k \in Ranks \cup {None}
  BY RankIs
<1>2. hit = [vector_rank |-> v, keyword_rank |-> k, fused_score |-> Share(v) + Share(k)]
  BY DEF Provenance
<1>. HIDE DEF v, k
<1>3. Share(v) \in Nat /\ Share(k) \in Nat
  BY <1>1, SharesFall
<1>4. Share(v) + Share(k) \in Nat
  BY <1>3
<1>. HIDE DEF hit
<1>5. /\ hit \in Hits
      /\ hit.fused_score = Share(hit.vector_rank) + Share(hit.keyword_rank)
  BY <1>1, <1>2, <1>4 DEF Hits
<1>. QED BY <1>5 DEF hit

\* A hit that is ahead has the higher score.
LEMMA AheadScoresHigher ==
    ASSUME NEW p \in Hits, NEW q \in Hits,
           p.fused_score = Share(p.vector_rank) + Share(p.keyword_rank),
           q.fused_score = Share(q.vector_rank) + Share(q.keyword_rank),
           AheadOf(p, q)
    PROVE  p.fused_score > q.fused_score
<1>. DEFINE Some == Ranks \cup {None}
<1>1. \A i, j \in Some : /\ Share(i) \in Nat
                         /\ NoLater(i, j) => Share(i) >= Share(j)
                         /\ NoLater(i, j) /\ i # j => Share(i) > Share(j)
  <2>1. \A i \in Ranks : i \in Nat /\ i # None
    BY NoneIsNoRank, RetrievalSettings DEF Ranks
  <2>2. \A i \in Some : Share(i) \in Nat
    BY SharesFall
  <2>3. ASSUME NEW i \in Some, NEW j \in Some, NoLater(i, j), i # j PROVE Share(i) > Share(j)
    <3>1. CASE j = None
      BY <2>3, <3>1, SharesFall
    <3>2. CASE j \in Ranks
      <4>1. i \in Ranks /\ i < j
        BY <2>1, <2>3, <3>2 DEF NoLater
      <4>. QED BY <3>2, <4>1, SharesFall
    <3>. QED BY <3>1, <3>2
  <2>. HIDE DEF Some
  <2>. QED BY <2>2, <2>3
<1>2. /\ p.vector_rank \in Some /\ p.keyword_rank \in Some
      /\ q.vector_rank \in Some /\ q.keyword_rank \in Some
  BY DEF Hits
<1>. HIDE DEF Some
<1>3. /\ Better(p) \in Some /\ Worse(p) \in Some /\ Better(q) \in Some /\ Worse(q) \in Some
      /\ p.fused_score = Share(Better(p)) + Share(Worse(p))
      /\ q.fused_score = Share(Better(q)) + Share(Worse(q))
  <2>1. \A i, j \in Some : Share(i) + Share(j) = Share(j) + Share(i)
    BY <1>1
  <2>. QED BY <1>2, <2>1 DEF Better, Worse
<1>4. /\ NoLater(Better(p), Better(q)) /\ NoLater(Worse(p), Worse(q))
      /\ Better(p) # Better(q) \/ Worse(p) # Worse(q)
  BY DEF AheadOf
<1>5. /\ Share(Better(p)) \in Nat /\ Share(Worse(p)) \in Nat
      /\ Share(Better(q)) \in Nat /\ Share(Worse(q)) \in Nat
      /\ Share(Better(p)) >= Share(Better(q)) /\ Share(Worse(p)) >= Share(Worse(q))
      /\ Share(Better(p)) > Share(Better(q)) \/ Share(Worse(p)) > Share(Worse(q))
  BY <1>1, <1>3, <1>4
<1>. QED BY <1>3, <1>5

MergedPlaces(vectorRows, keywordRows) ==
    {i \in DOMAIN keywordRows : ~Contains(vectorRows, keywordRows[i])}

LEMMA MergedIs ==
    ASSUME NEW set, NEW vectorRows \in ArmRows(set), NEW keywordRows \in ArmRows(set)
    PROVE  LET merged == Merged(vectorRows, keywordRows)
           IN merged \in Seq(set) /\ \A i, j \in 1..Len(merged) : merged[i] = merged[j] => i = j
<1>. DEFINE n == Len(vectorRows)
            places == MergedPlaces(vectorRows, keywordRows)
            order == Ascending(places)
            rest == Chosen(keywordRows, places)
            m == Cardinality(places)
            merged == Merged(vectorRows, keywordRows)
<1>1. /\ vectorRows \in Seq(set) /\ \A i, j \in 1..n : vectorRows[i] = vectorRows[j] => i = j
      /\ keywordRows \in Seq(set)
      /\ \A i, j \in 1..Len(keywordRows) : keywordRows[i] = keywordRows[j] => i = j
  BY DEF ArmRows
<1>2. DOMAIN keywordRows = 1..Len(keywordRows) /\ n \in Nat
  BY <1>1
<1>3. places \in SUBSET (1..Len(keywordRows)) /\ \A p \in places : \A i \in 1..n : keywordRows[p] # vectorRows[i]
  BY <1>2 DEF MergedPlaces, Contains
<1>4. merged = vectorRows \o rest
  BY DEF Merged, MergedPlaces
<1>. HIDE DEF places
<1>5. /\ m \in Nat
      /\ order \in [1..m -> places]
      /\ \A i, j \in 1..m : i < j => order[i] < order[j]
      /\ rest \in Seq(set)
      /\ Len(rest) = m
      /\ \A k \in 1..m : rest[k] = keywordRows[order[k]]
  BY <1>1, <1>3, ChosenIsInOrder
<1>. HIDE DEF merged, order, rest, m
<1>6. \A i, j \in 1..m : rest[i] = rest[j] => i = j
  <2>. SUFFICES ASSUME NEW i \in 1..m, NEW j \in 1..m, rest[i] = rest[j], i # j PROVE FALSE
    OBVIOUS
  <2>1. order[i] \in 1..Len(keywordRows) /\ order[j] \in 1..Len(keywordRows)
    BY <1>3, <1>5
  <2>2. order[i] = order[j]
    BY <1>1, <1>5, <2>1
  <2>3. i < j \/ j < i
    BY <1>5
  <2>. QED BY <1>5, <2>1, <2>2, <2>3
<1>7. \A i \in 1..n : \A k \in 1..m : rest[k] # vectorRows[i]
  <2>. TAKE i \in 1..n
  <2>. TAKE k \in 1..m
  <2>1. order[k] \in places /\ rest[k] = keywordRows[order[k]]
    BY <1>5
  <2>. QED BY <1>3, <2>1
<1>8. /\ merged \in Seq(set)
      /\ Len(merged) = n + m
      /\ \A i \in 1..n : merged[i] = vectorRows[i]
      /\ \A k \in 1..m : merged[n + k] = rest[k]
  <2>1. /\ vectorRows \o rest \in Seq(set)
        /\ Len(vectorRows \o rest) = Len(vectorRows) + Len(rest)
        /\ \A i \in 1..Len(vectorRows) : (vectorRows \o rest)[i] = vectorRows[i]
        /\ \A i \in 1..Len(rest) : (vectorRows \o rest)[Len(vectorRows) + i] = rest[i]
    <3>1. vectorRows \in Seq(set) /\ rest \in Seq(set)
      BY <1>1, <1>5
    <3>. QED BY <3>1, Joined
  <2>2. Len(rest) = m /\ Len(vectorRows) = n
    BY <1>5
  <2>3. /\ merged \in Seq(set) /\ Len(merged) = Len(vectorRows) + Len(rest)
        /\ \A i \in 1..Len(vectorRows) : merged[i] = vectorRows[i]
        /\ \A i \in 1..Len(rest) : merged[Len(vectorRows) + i] = rest[i]
    BY <1>4, <2>1, Zenon
  <2>. HIDE DEF n
  <2>. QED BY <2>2, <2>3
<1>9. \A i \in 1..Len(merged) : i \in 1..n \/ \E k \in 1..m : i = n + k
  <2>. SUFFICES ASSUME NEW i \in 1..Len(merged), i \notin 1..n PROVE \E k \in 1..m : i = n + k
    OBVIOUS
  <2>1. i - n \in 1..m /\ i = n + (i - n)
    BY <1>2, <1>5, <1>8
  <2>. QED BY <2>1
<1>. HIDE DEF n
<1>10. ASSUME NEW i \in 1..Len(merged), NEW j \in 1..Len(merged), merged[i] = merged[j] PROVE i = j
  <2>1. CASE i \in 1..n /\ j \in 1..n
    BY <1>1, <1>8, <1>10, <2>1
  <2>2. ASSUME NEW k \in 1..m, NEW l \in 1..m, i = n + k, j = n + l PROVE i = j
    BY <1>6, <1>8, <1>10, <2>2
  <2>3. ASSUME NEW k \in 1..m, i \in 1..n, j = n + k PROVE FALSE
    BY <1>7, <1>8, <1>10, <2>3
  <2>4. ASSUME NEW k \in 1..m, j \in 1..n, i = n + k PROVE FALSE
    BY <1>7, <1>8, <1>10, <2>4
  <2>. QED BY <1>9, <2>1, <2>2, <2>3, <2>4
<1>. QED BY <1>8, <1>10 DEF merged

\* The fused list has no chunk twice, and one that scores higher stands earlier.
FusedInOrder(vectorRows, keywordRows, fused) ==
    /\ \A i, j \in 1..Len(fused) : fused[i] = fused[j] => i = j
    /\ \A i, j \in 1..Len(fused) :
          Provenance(vectorRows, keywordRows, fused[i]).fused_score
              > Provenance(vectorRows, keywordRows, fused[j]).fused_score => i < j

LEMMA FusionIs ==
    ASSUME NEW set, NEW vectorRows \in ArmRows(set), NEW keywordRows \in ArmRows(set)
    PROVE  LET fused == ReciprocalRankFusion(vectorRows, keywordRows)
           IN fused \in Seq(set) /\ FusedInOrder(vectorRows, keywordRows, fused)
<1>. DEFINE merged == Merged(vectorRows, keywordRows)
            n == Len(merged)
            score(i) == Provenance(vectorRows, keywordRows, merged[i]).fused_score
            before == {p \in (1..n) \X (1..n) :
                          \/ score(p[1]) > score(p[2])
                          \/ score(p[1]) = score(p[2]) /\ p[1] < p[2]}
            order == Sorted(1..n, before)
            fused == ReciprocalRankFusion(vectorRows, keywordRows)
<1>1. merged \in Seq(set) /\ \A i, j \in 1..n : merged[i] = merged[j] => i = j
  BY MergedIs
<1>2. n \in Nat
  BY <1>1
<1>3. \A i \in 1..n : score(i) \in Nat
  BY ProvenanceIs DEF Hits
<1>4. fused = [k \in 1..n |-> merged[order[k]]]
  BY DEF ReciprocalRankFusion
<1>5. \A i, j \in 1..n : <<i, j>> \in before <=> score(i) > score(j) \/ (score(i) = score(j) /\ i < j)
  OBVIOUS
<1>. HIDE DEF merged, n, score, before
<1>6. StrictOrder(before, 1..n)
  <2>1. \A i \in 1..n : i \in Nat
    BY <1>2
  <2>2. \A x \in 1..n : <<x, x>> \notin before
    BY <1>3, <1>5, <2>1
  <2>3. \A x, y, z \in 1..n : <<x, y>> \in before /\ <<y, z>> \in before => <<x, z>> \in before
    BY <1>3, <1>5, <2>1
  <2>4. \A x, y \in 1..n : x # y => <<x, y>> \in before \/ <<y, x>> \in before
    BY <1>3, <1>5, <2>1
  <2>. QED BY <2>2, <2>3, <2>4 DEF StrictOrder
<1>7. IsFiniteSet(1..n) /\ Cardinality(1..n) = n
  <2>1. 1 \in Int /\ n \in Int
    BY <1>2
  <2>. QED BY <1>2, <2>1, FS_Interval
<1>8. /\ InOrder(order, 1..n, before)
      /\ \A i, j \in 1..n : /\ order[i] = order[j] => i = j
                            /\ <<order[i], order[j]>> \in before => i < j
  BY <1>6, <1>7, SortedIsInOrder, InOrderTwice
<1>9. order \in [1..n -> 1..n]
  BY <1>7, <1>8 DEF InOrder
<1>. HIDE DEF order, fused
<1>10. fused \in Seq(set) /\ Len(fused) = n /\ \A i \in 1..n : fused[i] = merged[order[i]]
  <2>1. DOMAIN merged = 1..n /\ \A i \in 1..n : merged[i] \in set
    BY <1>1 DEF n
  <2>2. fused \in [1..n -> set]
    BY <1>4, <1>9, <2>1
  <2>. QED BY <1>2, <1>4, <2>2
<1>11. ASSUME NEW i \in 1..n, NEW j \in 1..n, fused[i] = fused[j] PROVE i = j
  <2>1. order[i] \in 1..n /\ order[j] \in 1..n
    BY <1>9
  <2>2. merged[order[i]] = merged[order[j]]
    BY <1>10, <1>11
  <2>3. order[i] = order[j]
    BY <1>1, <2>1, <2>2
  <2>. QED BY <1>8, <2>3
<1>12. ASSUME NEW i \in 1..n, NEW j \in 1..n,
              Provenance(vectorRows, keywordRows, fused[i]).fused_score
                  > Provenance(vectorRows, keywordRows, fused[j]).fused_score
       PROVE  i < j
  <2>1. order[i] \in 1..n /\ order[j] \in 1..n
    BY <1>9
  <2>2. score(order[i]) > score(order[j])
    BY <1>10, <1>12 DEF score
  <2>. QED BY <1>5, <1>8, <2>1, <2>2
<1>13. fused \in Seq(set) /\ FusedInOrder(vectorRows, keywordRows, fused)
  BY <1>10, <1>11, <1>12 DEF FusedInOrder
<1>. QED BY <1>13 DEF fused

LEMMA FusedIs ==
    ASSUME AnswersInv, FoundBy, request \in Questions
    PROVE  Fused \in Seq(InScope(stored, request.scope))
<1>. DEFINE seen == InScope(stored, request.scope)
<1>1. found.vector \in ArmRows(seen) /\ found.keyword \in ArmRows(seen)
  BY ArmsAre
<1>. HIDE DEF seen
<1>2. ReciprocalRankFusion(found.vector, found.keyword) \in Seq(seen)
  BY <1>1, FusionIs
<1>3. found.vector \o found.keyword \in Seq(seen)
  BY <1>1 DEF ArmRows
<1>4. Fused \in Seq(seen)
  BY <1>2, <1>3 DEF Fused
<1>. QED BY <1>4 DEF seen

LEMMA RowsAre ==
    ASSUME NEW set, NEW rows \in Seq(set), NEW top_k \in Nat \ {0}
    PROVE  LET best == NoOpRerank(rows, top_k)
           IN /\ best \in Seq(set)
              /\ Len(best) = IF top_k <= Len(rows) THEN top_k ELSE Len(rows)
              /\ \A i \in 1..Len(best) : best[i] = rows[i] /\ i \in 1..Len(rows)
<1>. DEFINE n == Min({top_k, Len(rows)})
            best == NoOpRerank(rows, top_k)
<1>1. Len(rows) \in Nat
  OBVIOUS
<1>2. n = IF top_k <= Len(rows) THEN top_k ELSE Len(rows)
  BY <1>1, LesserOf
<1>3. n \in Nat /\ n <= Len(rows)
  BY <1>1, <1>2
<1>. HIDE DEF n
<1>4. /\ SubSeq(rows, 1, n) \in Seq(set)
      /\ Len(SubSeq(rows, 1, n)) = n
      /\ \A i \in 1..n : SubSeq(rows, 1, n)[i] = rows[i]
  BY <1>3, Beginning
<1>5. best = SubSeq(rows, 1, n)
  BY DEF NoOpRerank, n
<1>. HIDE DEF best
<1>6. /\ best \in Seq(set)
      /\ Len(best) = IF top_k <= Len(rows) THEN top_k ELSE Len(rows)
      /\ \A i \in 1..Len(best) : best[i] = rows[i] /\ i \in 1..Len(rows)
  BY <1>1, <1>2, <1>3, <1>4, <1>5
<1>. QED BY <1>6 DEF best

\* Fusion goes by the position in each ranking, and treats both alike; and the ranks an
\* explained hit reports are its places in the list (FusedByPosition).
THEOREM FusionGoesByPosition == Spec => []FusedByPosition
<1>1. ASSUME AnswersInv PROVE FusedByPosition
  <2>. SUFFICES ASSUME Answered, request.mode = "hybrid"
                PROVE  /\ \A i, j \in DOMAIN answer.candidates :
                             AheadOf(Provenance(found.vector, found.keyword, answer.candidates[i]),
                                     Provenance(found.vector, found.keyword, answer.candidates[j])) => i < j
                       /\ \A i \in DOMAIN answer.rows : answer.explained[i].rank_before_rerank = i
    BY DEF FusedByPosition
  <2>. DEFINE seen == InScope(stored, request.scope)
              fused == ReciprocalRankFusion(found.vector, found.keyword)
              rows == NoOpRerank(fused, request.top_k)
              hit(chunk) == Provenance(found.vector, found.keyword, chunk)
  <2>1. FoundBy /\ AnswerIs /\ request \in Questions
    BY <1>1 DEF AnswersInv, FoundInv, RequestInv, Answered, Uploads
  <2>2. found.vector \in ArmRows(seen) /\ found.keyword \in ArmRows(seen)
    BY <1>1, <2>1, ArmsAre
  <2>3. /\ answer.candidates = fused /\ answer.rows = rows
        /\ answer.explained = [i \in DOMAIN rows |-> RetrievalInfo(fused, found.vector, found.keyword, rows[i])]
    BY <2>1 DEF AnswerIs, Fused
  <2>4. request.top_k \in Nat \ {0}
    BY <2>1, SessionsAssumption
  <2>. HIDE DEF seen
  <2>5. fused \in Seq(seen) /\ FusedInOrder(found.vector, found.keyword, fused)
    BY <2>2, FusionIs
  <2>6. DOMAIN fused = 1..Len(fused) /\ Len(fused) \in Nat
    BY <2>5
  <2>. HIDE DEF fused
  <2>7. /\ rows \in Seq(seen)
        /\ \A i \in 1..Len(rows) : rows[i] = fused[i] /\ i \in 1..Len(fused)
    BY <2>4, <2>5, RowsAre
  <2>8. DOMAIN rows = 1..Len(rows)
    BY <2>7
  <2>. HIDE DEF rows
  <2>9. ASSUME NEW i \in 1..Len(fused), NEW j \in 1..Len(fused), AheadOf(hit(fused[i]), hit(fused[j]))
        PROVE  i < j
    <3>1. \A chunk : /\ hit(chunk) \in Hits
                     /\ hit(chunk).fused_score = Share(hit(chunk).vector_rank) + Share(hit(chunk).keyword_rank)
      BY <2>2, ProvenanceIs
    <3>. HIDE DEF hit
    <3>2. hit(fused[i]).fused_score > hit(fused[j]).fused_score
      BY <2>9, <3>1, AheadScoresHigher
    <3>. QED BY <2>5, <3>2 DEF FusedInOrder, hit
  <2>10. ASSUME NEW i \in 1..Len(rows) PROVE answer.explained[i].rank_before_rerank = i
    <3>1. answer.explained[i].rank_before_rerank = RankIn(fused, rows[i])
      BY <2>3, <2>8 DEF RetrievalInfo
    <3>2. fused[i] = rows[i] /\ i \in 1..Len(fused)
      BY <2>7
    <3>3. \A j \in 1..Len(fused) : fused[j] = rows[i] => j = i
      BY <2>5, <3>2 DEF FusedInOrder
    <3>4. RankIn(fused, rows[i]) = CHOOSE j \in 1..Len(fused) : fused[j] = rows[i]
      BY <3>2 DEF RankIn, Contains
    <3>. QED BY <3>1, <3>2, <3>3, <3>4
  <2>. QED BY <2>3, <2>6, <2>8, <2>9, <2>10
<1>. QED BY <1>1, AlwaysAnswersInv, PTL

-----------------------------------------------------------------------------
(* Neighbours. *)

\* What a table of chunks is, as far as the context is concerned.
Table(set) ==
    /\ \A c \in set : c.document \in Nat /\ c.index \in Nat /\ c.content \in Seq(Units)
    /\ \A c, d \in set : Place(c) = Place(d) => c = d

LEMMA StoredIsATable == AnswersInv => Table(stored)
<1>. SUFFICES ASSUME AnswersInv PROVE Table(stored)
  OBVIOUS
<1>1. ASSUME NEW c \in stored PROVE c.document \in Nat /\ c.index \in Nat /\ c.content \in Seq(Units)
  <2>1. c.document \in 1..uploaded /\ uploaded \in 0..Len(session.uploads) /\ Len(session.uploads) \in Nat
    BY Documented DEF AnswersInv, StoredInv, StoredAs, RequestInv
  <2>2. c.document \in Nat
    BY <2>1
  <2>3. c.index \in Nat /\ c.content \in Kept
    BY StoredChunkIs
  <2>. QED BY <2>2, <2>3 DEF Kept
<1>. QED BY <1>1 DEF Table, AnswersInv, StoredInv

LEMMA PartOfATable ==
    ASSUME NEW set, Table(set), NEW part \in SUBSET set
    PROVE  Table(part)
BY DEF Table

\* The characters of some rows, one row after another.
LEMMA CharsSteps ==
    ASSUME NEW set, Table(set), NEW rows \in Seq(set)
    PROVE  \E h : /\ h \in [0..Len(rows) -> Nat]
                  /\ h[0] = 0
                  /\ \A k \in 1..Len(rows) : h[k] = h[k - 1] + Length(rows[k].content)
                  /\ h[Len(rows)] = Chars(rows)
<1>. DEFINE n == Len(rows)
            B == Nat
            g == [p \in B \X (1..n) |-> p[1] + Length(rows[p[2]].content)]
            Is(it) == it = [s \in SUBSET DOMAIN rows |->
                               IF s = {} THEN 0
                               ELSE it[s \ {Max(s)}] + Length(rows[Max(s)].content)]
            f == CHOOSE it : Is(it)
<1>1. n \in Nat /\ DOMAIN rows = 1..n /\ \A k \in 1..n : rows[k] \in set
  BY LenProperties
<1>2. 0 \in B /\ \A b \in B, x \in set : b + Length(x.content) \in B
  BY LengthIsNat DEF Table
<1>3. g \in [B \X (1..n) -> B]
  BY <1>1, <1>2
<1>4. PICK it \in [SUBSET (1..n) -> B] : Folding(it, 1..n, 0, g)
  BY <1>1, <1>2, <1>3, FoldingExists
<1>5. Is(it)
  <2>1. \A s \in SUBSET (1..n) : s # {} => Max(s) \in 1..n /\ s \ {Max(s)} \in SUBSET (1..n)
    BY <1>1, GreatestPlace
  <2>2. \A s \in SUBSET (1..n) : s # {} =>
           g[<<it[s \ {Max(s)}], Max(s)>>] = it[s \ {Max(s)}] + Length(rows[Max(s)].content)
    BY <2>1
  <2>. QED BY <1>1, <1>4, <2>2 DEF Folding
<1>6. Is(f)
  BY <1>5
<1>7. Chars(rows) = f[1..n]
  BY <1>1 DEF Chars, FoldLeft, MapThenFoldSet
<1>. HIDE DEF f
<1>8. FoldsTo(f, n, B, 0, g)
  <2>1. f[{}] = 0
    BY <1>6
  <2>2. \A k \in 1..n : f[1..k] = f[1..(k - 1)] + Length(rows[k].content)
    <3>. TAKE k \in 1..n
    <3>1. k \in Nat \ {0} /\ 1..k \in SUBSET (1..n)
      BY <1>1
    <3>2. 1..k # {} /\ Max(1..k) = k /\ (1..k) \ {k} = 1..(k - 1)
      BY <3>1, Spans
    <3>3. f[1..k] = IF 1..k = {} THEN 0 ELSE f[(1..k) \ {Max(1..k)}] + Length(rows[Max(1..k)].content)
      BY <1>1, <1>6, <3>1
    <3>. QED BY <3>2, <3>3
  <2>3. \A k \in 1..n : f[1..(k - 1)] \in B => f[1..k] = g[<<f[1..(k - 1)], k>>]
    BY <2>2
  <2>. HIDE DEF g, n, B
  <2>. QED BY <1>1, <1>2, <1>3, <2>1, <2>3 DEF FoldsTo
<1>9. \A k \in 1..n, b \in B : g[<<b, k>>] = b + Length(rows[k].content)
  OBVIOUS
<1>. HIDE DEF g, B, n
<1>10. PICK h : Steps(h, n, B, 0, g) /\ h[n] = f[1..n]
  BY <1>8, StepsOfFolding
<1>11. h \in [0..n -> B] /\ h[0] = 0 /\ \A k \in 1..n : h[k] = g[<<h[k - 1], k>>]
  BY <1>10 DEF Steps
<1>12. \A k \in 1..n : h[k] = h[k - 1] + Length(rows[k].content)
  <2>1. \A k \in 1..n : h[k - 1] \in B
    BY <1>1, <1>11
  <2>. QED BY <1>9, <1>11, <2>1
<1>. QED BY <1>7, <1>10, <1>11, <1>12 DEF B, n


Contents(rows) == [i \in 1..Len(rows) |-> Length(rows[i].content)]

LEMMA CharsIs ==
    ASSUME NEW set, Table(set), NEW rows \in Seq(set)
    PROVE  \E h : Adds(h, Contents(rows), Len(rows)) /\ h[Len(rows)] = Chars(rows)
<1>1. PICK h : /\ h \in [0..Len(rows) -> Nat]
               /\ h[0] = 0
               /\ \A k \in 1..Len(rows) : h[k] = h[k - 1] + Length(rows[k].content)
               /\ h[Len(rows)] = Chars(rows)
  BY CharsSteps
<1>2. Len(rows) \in Nat /\ \A k \in 1..Len(rows) : rows[k] \in set
  OBVIOUS
<1>3. Contents(rows) \in [1..Len(rows) -> Nat]
  <2>1. \A k \in 1..Len(rows) : Length(rows[k].content) \in Nat
    BY <1>2, LengthIsNat DEF Table
  <2>. QED BY <2>1 DEF Contents
<1>4. \A k \in 1..Len(rows) : h[k] = h[k - 1] + Contents(rows)[k]
  BY <1>1 DEF Contents
<1>5. Adds(h, Contents(rows), Len(rows))
  BY <1>1, <1>2, <1>3, <1>4 DEF Adds
<1>. QED BY <1>1, <1>5

LEMMA CharsIsNat ==
    ASSUME NEW set, Table(set), NEW rows \in Seq(set)
    PROVE  Chars(rows) \in Nat
<1>1. PICK h : Adds(h, Contents(rows), Len(rows)) /\ h[Len(rows)] = Chars(rows)
  BY CharsIs
<1>2. Len(rows) \in 0..Len(rows)
  OBVIOUS
<1>. QED BY <1>1, <1>2 DEF Adds

LEMMA CharsWithOneMore ==
    ASSUME NEW set, Table(set), NEW rows \in Seq(set), NEW c \in set
    PROVE  LET more == rows \o <<c>>
           IN /\ more \in Seq(set) /\ Len(more) = Len(rows) + 1
              /\ \A i \in 1..Len(rows) : more[i] = rows[i]
              /\ more[Len(rows) + 1] = c
              /\ Chars(more) = Chars(rows) + Length(c.content)
<1>. DEFINE n == Len(rows)
            more == rows \o <<c>>
<1>1. /\ more \in Seq(set) /\ Len(more) = n + 1 /\ n \in Nat
      /\ \A i \in 1..n : more[i] = rows[i]
      /\ more[n + 1] = c
  OBVIOUS
<1>. HIDE DEF more
<1>2. PICK h : Adds(h, Contents(rows), Len(rows)) /\ h[Len(rows)] = Chars(rows)
  BY CharsIs
<1>3. PICK h2 : Adds(h2, Contents(more), Len(more)) /\ h2[Len(more)] = Chars(more)
  BY <1>1, CharsIs
<1>4. \A k \in 1..n : Contents(rows)[k] = Contents(more)[k]
  <2>1. \A k \in 1..n : k \in 1..Len(more)
    BY <1>1
  <2>. QED BY <1>1, <2>1 DEF Contents
<1>5. Contents(more)[n + 1] = Length(c.content)
  <2>1. n + 1 \in 1..Len(more)
    BY <1>1
  <2>. QED BY <1>1, <2>1 DEF Contents
<1>6. Adds(h, Contents(rows), n) /\ h[n] = Chars(rows)
  BY <1>2
<1>7. Adds(h2, Contents(more), n + 1) /\ h2[n + 1] = Chars(more)
  BY <1>1, <1>3
<1>. HIDE DEF n
<1>8. n <= n + 1 /\ n \in 0..n /\ n + 1 \in 1..(n + 1) /\ (n + 1) - 1 = n
  BY <1>1
<1>9. h[n] = h2[n]
  BY <1>4, <1>6, <1>7, <1>8, SumsAgree
<1>10. h2[n + 1] = h2[n] + Contents(more)[n + 1]
  BY <1>7, <1>8 DEF Adds
<1>11. Chars(more) = Chars(rows) + Length(c.content)
  BY <1>5, <1>6, <1>7, <1>9, <1>10
<1>. QED BY <1>1, <1>11 DEF more, n

LEMMA OneInASequence == \A c : SetToSeq({c}) = <<c>>
<1>. TAKE c
<1>1. Cardinality({c}) = 1
  BY FS_Singleton
<1>2. <<c>> \in [1..1 -> {c}] /\ IsInjective(<<c>>)
  BY DEF IsInjective
<1>3. \E f \in [1..1 -> {c}] : IsInjective(f)
  BY <1>2
<1>4. SetToSeq({c}) = CHOOSE f \in [1..1 -> {c}] : IsInjective(f)
  BY <1>1 DEF SetToSeq
<1>5. SetToSeq({c}) \in [1..1 -> {c}]
  BY <1>3, <1>4
<1>. DEFINE one == SetToSeq({c})
<1>6. one \in [1..1 -> {c}]
  BY <1>5
<1>. HIDE DEF one
<1>7. DOMAIN one = 1..1 /\ one[1] = c
  BY <1>6
<1>8. one = [i \in 1..1 |-> c] /\ <<c>> = [i \in 1..1 |-> c]
  <2>1. \A i \in 1..1 : i = 1
    OBVIOUS
  <2>2. one = [i \in 1..1 |-> one[i]]
    BY <1>6
  <2>3. <<c>> = [i \in 1..1 |-> c]
    OBVIOUS
  <2>. QED BY <1>7, <2>1, <2>2, <2>3
<1>. QED BY <1>8 DEF one

\* The chunks there are at a place are shown, or none of them fits any more.
Tried(shown, available, place) ==
    \A c \in available :
        Place(c) = place => \/ c \in Range(shown)
                            \/ Chars(shown) + Length(c.content) > MaxContextChars

\* Nothing is added, or one chunk of the place that fits.
LEMMA AddIs ==
    ASSUME NEW set, Table(set), NEW available \in SUBSET set, NEW shown \in Seq(set), NEW rows, NEW place
    PROVE  LET next == AddIfItFits(shown, available, rows, place)
           IN \/ next = shown /\ Tried(shown, available, place)
              \/ \E c \in available :
                    /\ next = shown \o <<c>> /\ Place(c) = place
                    /\ Chars(shown) + Length(c.content) <= MaxContextChars
<1>. DEFINE neighbour == {c \in available : Place(c) = place}
            fits == \A c \in neighbour : Chars(shown) + Length(c.content) <= MaxContextChars
            next == AddIfItFits(shown, available, rows, place)
<1>1. next = IF neighbour \subseteq Range(shown) \/ ~fits THEN shown ELSE shown \o SetToSeq(neighbour)
  BY DEF AddIfItFits
<1>2. \A c, d \in neighbour : c = d
  BY DEF Table
<1>3. ASSUME NEW c \in available PROVE Chars(shown) \in Nat /\ Length(c.content) \in Nat
  BY CharsIsNat, LengthIsNat DEF Table
<1>4. CASE neighbour \subseteq Range(shown)
  <2>1. Tried(shown, available, place)
    BY <1>4 DEF Tried
  <2>. QED BY <1>1, <1>4, <2>1
<1>5. CASE ~fits
  <2>1. PICK c \in neighbour : ~(Chars(shown) + Length(c.content) <= MaxContextChars)
    BY <1>5
  <2>2. \A d \in available : Place(d) = place => d = c
    BY <1>2
  <2>3. Chars(shown) + Length(c.content) > MaxContextChars
    BY <1>3, <2>1, ContextSettings
  <2>4. Tried(shown, available, place)
    BY <2>2, <2>3 DEF Tried
  <2>. QED BY <1>1, <1>5, <2>4
<1>6. CASE ~(neighbour \subseteq Range(shown)) /\ fits
  <2>1. PICK c \in neighbour : c \notin Range(shown)
    BY <1>6
  <2>2. neighbour = {c}
    BY <1>2
  <2>. HIDE DEF neighbour
  <2>3. next = shown \o <<c>>
    BY <1>1, <1>6, <2>2, OneInASequence
  <2>4. c \in available /\ Place(c) = place
    BY DEF neighbour
  <2>. QED BY <1>6, <2>3, <2>4
<1>. QED BY <1>4, <1>5, <1>6

LEMMA AddKeepsRows ==
    ASSUME NEW set, Table(set), NEW available \in SUBSET set, NEW shown \in Seq(set), NEW rows, NEW place
    PROVE  AddIfItFits(shown, available, rows, place) \in Seq(set)
<1>. DEFINE next == AddIfItFits(shown, available, rows, place)
<1>1. \A c \in available : shown \o <<c>> \in Seq(set)
  OBVIOUS
<1>2. \/ next = shown /\ Tried(shown, available, place)
      \/ \E c \in available :
            /\ next = shown \o <<c>> /\ Place(c) = place
            /\ Chars(shown) + Length(c.content) <= MaxContextChars
  BY AddIs
<1>. HIDE DEF next
<1>3. next \in Seq(set)
  BY <1>1, <1>2
<1>. QED BY <1>3 DEF next


AddedAt(places, available, rows) ==
    FoldLeft(LAMBDA shown, place : AddIfItFits(shown, available, rows, place), rows, places)

Growing(h, set, places, available, rows) ==
    /\ h \in [0..Len(places) -> Seq(set)]
    /\ h[0] = rows
    /\ \A k \in 1..Len(places) : h[k] = AddIfItFits(h[k - 1], available, rows, places[k])
    /\ h[Len(places)] = AddedAt(places, available, rows)

\* One place after another.
LEMMA NeighbourSteps ==
    ASSUME NEW set, Table(set), NEW available \in SUBSET set, NEW rows \in Seq(set),
           NEW Places, NEW places \in Seq(Places)
    PROVE  \E h : Growing(h, set, places, available, rows)
<1>. DEFINE n == Len(places)
            B == Seq(set)
            g == [p \in B \X (1..n) |-> AddIfItFits(p[1], available, rows, places[p[2]])]
            Is(it) == it = [s \in SUBSET DOMAIN places |->
                               IF s = {} THEN rows
                               ELSE AddIfItFits(it[s \ {Max(s)}], available, rows, places[Max(s)])]
            f == CHOOSE it : Is(it)
<1>1. n \in Nat /\ DOMAIN places = 1..n /\ \A k \in 1..n : places[k] \in Places
  BY LenProperties
<1>2. rows \in B /\ \A b \in B, x \in Places : AddIfItFits(b, available, rows, x) \in B
  BY AddKeepsRows
<1>3. g \in [B \X (1..n) -> B]
  BY <1>1, <1>2
<1>4. PICK it \in [SUBSET (1..n) -> B] : Folding(it, 1..n, rows, g)
  BY <1>1, <1>2, <1>3, FoldingExists
<1>5. Is(it)
  <2>1. \A s \in SUBSET (1..n) : s # {} => Max(s) \in 1..n /\ s \ {Max(s)} \in SUBSET (1..n)
    BY <1>1, GreatestPlace
  <2>2. \A s \in SUBSET (1..n) : s # {} =>
           g[<<it[s \ {Max(s)}], Max(s)>>] = AddIfItFits(it[s \ {Max(s)}], available, rows, places[Max(s)])
    BY <2>1
  <2>. QED BY <1>1, <1>4, <2>2 DEF Folding
<1>6. Is(f)
  BY <1>5
<1>7. AddedAt(places, available, rows) = f[1..n]
  BY <1>1 DEF AddedAt, FoldLeft, MapThenFoldSet
<1>. HIDE DEF f
<1>8. FoldsTo(f, n, B, rows, g)
  <2>1. f[{}] = rows
    BY <1>6
  <2>2. \A k \in 1..n : f[1..k] = AddIfItFits(f[1..(k - 1)], available, rows, places[k])
    <3>. TAKE k \in 1..n
    <3>1. k \in Nat \ {0} /\ 1..k \in SUBSET (1..n)
      BY <1>1
    <3>2. 1..k # {} /\ Max(1..k) = k /\ (1..k) \ {k} = 1..(k - 1)
      BY <3>1, Spans
    <3>3. f[1..k] = IF 1..k = {} THEN rows ELSE AddIfItFits(f[(1..k) \ {Max(1..k)}], available, rows, places[Max(1..k)])
      BY <1>1, <1>6, <3>1
    <3>. QED BY <3>2, <3>3
  <2>3. \A k \in 1..n : f[1..(k - 1)] \in B => f[1..k] = g[<<f[1..(k - 1)], k>>]
    BY <2>2
  <2>. HIDE DEF g, n, B
  <2>. QED BY <1>1, <1>2, <1>3, <2>1, <2>3 DEF FoldsTo
<1>9. \A k \in 1..n, b \in B : g[<<b, k>>] = AddIfItFits(b, available, rows, places[k])
  OBVIOUS
<1>. HIDE DEF g, B, n
<1>10. PICK h : Steps(h, n, B, rows, g) /\ h[n] = f[1..n]
  BY <1>8, StepsOfFolding
<1>11. h \in [0..n -> B] /\ h[0] = rows /\ \A k \in 1..n : h[k] = g[<<h[k - 1], k>>]
  BY <1>10 DEF Steps
<1>12. \A k \in 1..n : h[k] = AddIfItFits(h[k - 1], available, rows, places[k])
  <2>1. \A k \in 1..n : h[k - 1] \in B
    BY <1>1, <1>11
  <2>. QED BY <1>9, <1>11, <2>1
<1>13. Growing(h, set, places, available, rows)
  BY <1>7, <1>10, <1>11, <1>12 DEF B, n, Growing
<1>. QED BY <1>13

\* Rows with neighbours behind them: none but available ones, and none where it is too long.
WithNeighbours(rows, available, shown) ==
    /\ Len(rows) <= Len(shown) /\ \A i \in 1..Len(rows) : shown[i] = rows[i]
    /\ Range(shown) \subseteq Range(rows) \cup available
    /\ shown = rows \/ Chars(shown) <= MaxContextChars

LEMMA RangeWithOneMore ==
    ASSUME NEW set, NEW rows \in Seq(set), NEW c \in set
    PROVE  Range(rows \o <<c>>) = Range(rows) \cup {c}
<1>. DEFINE more == rows \o <<c>>
            n == Len(rows)
<1>1. n \in Nat /\ DOMAIN rows = 1..n /\ DOMAIN more = 1..(n + 1)
  OBVIOUS
<1>2. more[n + 1] = c /\ \A i \in 1..n : more[i] = rows[i]
  OBVIOUS
<1>. HIDE DEF more, n
<1>3. n + 1 \in 1..(n + 1) /\ \A i \in 1..(n + 1) : i \in 1..n \/ i = n + 1
  BY <1>1
<1>4. \A i \in 1..n : i \in 1..(n + 1)
  BY <1>1
<1>5. Range(more) = Range(rows) \cup {c}
  BY <1>1, <1>2, <1>3, <1>4 DEF Range
<1>. QED BY <1>5 DEF more

LEMMA AddOne ==
    ASSUME NEW set, Table(set), NEW available \in SUBSET set, NEW rows \in Seq(set),
           NEW shown \in Seq(set), WithNeighbours(rows, available, shown), NEW place
    PROVE  LET next == AddIfItFits(shown, available, rows, place)
           IN /\ WithNeighbours(rows, available, next)
              /\ Tried(next, available, place)
              /\ \A other : Tried(shown, available, other) => Tried(next, available, other)
<1>. DEFINE next == AddIfItFits(shown, available, rows, place)
<1>1. \/ next = shown /\ Tried(shown, available, place)
      \/ \E c \in available :
            /\ next = shown \o <<c>> /\ Place(c) = place
            /\ Chars(shown) + Length(c.content) <= MaxContextChars
  BY AddIs
<1>. HIDE DEF next
<1>2. CASE next = shown /\ Tried(shown, available, place)
  BY <1>2 DEF next
<1>3. ASSUME NEW c \in available, next = shown \o <<c>>, Place(c) = place,
             Chars(shown) + Length(c.content) <= MaxContextChars
      PROVE  /\ WithNeighbours(rows, available, next)
             /\ Tried(next, available, place)
             /\ \A other : Tried(shown, available, other) => Tried(next, available, other)
  <2>1. c \in set
    OBVIOUS
  <2>2. /\ next \in Seq(set) /\ Len(next) = Len(shown) + 1
        /\ \A i \in 1..Len(shown) : next[i] = shown[i]
        /\ Chars(next) = Chars(shown) + Length(c.content)
    BY <1>3, <2>1, CharsWithOneMore
  <2>3. Range(next) = Range(shown) \cup {c}
    BY <1>3, <2>1, RangeWithOneMore
  <2>4. Chars(shown) \in Nat /\ \A d \in available : Length(d.content) \in Nat
    BY CharsIsNat, LengthIsNat DEF Table
  <2>5. Len(rows) \in Nat /\ Len(shown) \in Nat
    OBVIOUS
  <2>6. Len(rows) <= Len(next) /\ \A i \in 1..Len(rows) : next[i] = rows[i]
    <3>1. \A i \in 1..Len(rows) : i \in 1..Len(shown) /\ shown[i] = rows[i]
      BY <2>5 DEF WithNeighbours
    <3>2. Len(rows) <= Len(shown)
      BY DEF WithNeighbours
    <3>. QED BY <2>2, <2>5, <3>1, <3>2
  <2>7. WithNeighbours(rows, available, next)
    <3>1. Range(next) \subseteq Range(rows) \cup available
      BY <2>3 DEF WithNeighbours
    <3>2. Chars(next) <= MaxContextChars
      BY <1>3, <2>2
    <3>. QED BY <2>6, <3>1, <3>2 DEF WithNeighbours
  <2>8. Tried(next, available, place)
    <3>1. \A d \in available : Place(d) = place => d = c
      BY <1>3 DEF Table
    <3>. QED BY <2>3, <3>1 DEF Tried
  <2>9. ASSUME NEW other, Tried(shown, available, other) PROVE Tried(next, available, other)
    <3>. SUFFICES ASSUME NEW d \in available, Place(d) = other
                  PROVE  d \in Range(next) \/ Chars(next) + Length(d.content) > MaxContextChars
      BY DEF Tried
    <3>1. d \in Range(shown) \/ Chars(shown) + Length(d.content) > MaxContextChars
      BY <2>9 DEF Tried
    <3>2. Length(c.content) \in Nat /\ Length(d.content) \in Nat
      BY <2>4
    <3>. QED BY <2>2, <2>3, <2>4, <3>1, <3>2, ContextSettings
  <2>. QED BY <2>7, <2>8, <2>9
<1>4. /\ WithNeighbours(rows, available, next)
      /\ Tried(next, available, place)
      /\ \A other : Tried(shown, available, other) => Tried(next, available, other)
  BY <1>1, <1>2, <1>3
<1>. QED BY <1>4 DEF next

\* When all places have been gone through, each was tried.
LEMMA PlacesAreTried ==
    ASSUME NEW set, Table(set), NEW available \in SUBSET set, NEW rows \in Seq(set),
           NEW Places, NEW places \in Seq(Places)
    PROVE  LET shown == AddedAt(places, available, rows)
           IN /\ shown \in Seq(set)
              /\ WithNeighbours(rows, available, shown)
              /\ \A place \in Range(places) : Tried(shown, available, place)
<1>. DEFINE n == Len(places)
            all == AddedAt(places, available, rows)
<1>1. PICK h : /\ h \in [0..n -> Seq(set)]
               /\ h[0] = rows
               /\ \A k \in 1..n : h[k] = AddIfItFits(h[k - 1], available, rows, places[k])
               /\ h[n] = all
  <2>1. \E h : Growing(h, set, places, available, rows)
    BY NeighbourSteps
  <2>. QED BY <2>1 DEF Growing
<1>2. n \in Nat /\ DOMAIN places = 1..n
  OBVIOUS
<1>. HIDE DEF all, n
<1>. DEFINE Good(k) == /\ WithNeighbours(rows, available, h[k])
                       /\ \A j \in 1..k : Tried(h[k], available, places[j])
            T == {k \in 0..n : Good(k)}
<1>3. Good(0)
  <2>1. WithNeighbours(rows, available, rows)
    <3>1. Len(rows) \in Nat
      OBVIOUS
    <3>. QED BY <3>1 DEF WithNeighbours
  <2>. QED BY <1>1, <2>1
<1>4. ASSUME NEW k \in 0..(n - 1), Good(k) PROVE Good(k + 1)
  <2>1. k \in 0..n /\ k + 1 \in 1..n /\ (k + 1) - 1 = k /\ k \in Nat
    BY <1>2
  <2>2. h[k] \in Seq(set) /\ h[k + 1] = AddIfItFits(h[k], available, rows, places[k + 1])
    BY <1>1, <2>1
  <2>3. /\ WithNeighbours(rows, available, h[k + 1])
        /\ Tried(h[k + 1], available, places[k + 1])
        /\ \A other : Tried(h[k], available, other) => Tried(h[k + 1], available, other)
    BY <1>4, <2>2, AddOne
  <2>4. \A j \in 1..(k + 1) : j \in 1..k \/ j = k + 1
    BY <2>1
  <2>. QED BY <1>4, <2>3, <2>4
<1>5. 0 \in T /\ \A k \in 0..(n - 1) : k \in T => k + 1 \in T
  <2>1. 0 \in 0..n /\ \A k \in 0..(n - 1) : k + 1 \in 0..n
    BY <1>2
  <2>. HIDE DEF Good
  <2>. QED BY <1>3, <1>4, <2>1
<1>6. n \in T
  <2>1. n \in 0..n
    BY <1>2
  <2>. HIDE DEF T
  <2>. QED BY <1>2, <1>5, <2>1, InductionUpTo
<1>7. Good(n)
  <2>. HIDE DEF Good
  <2>. QED BY <1>6
<1>8. all \in Seq(set)
  BY <1>1, <1>2
<1>9. \A place \in Range(places) : Tried(all, available, place)
  BY <1>1, <1>2, <1>7 DEF Range
<1>10. WithNeighbours(rows, available, all)
  BY <1>1, <1>7
<1>. QED BY <1>8, <1>9, <1>10 DEF all

\* The places around a chunk, as near as Settings.answer_context_neighbours says.
Around(row) == {<<row.document, row.index - offset>> : offset \in 1..NeighbourDistance}
                   \cup {<<row.document, row.index + offset>> : offset \in 1..NeighbourDistance}

LEMMA AddNeighboursIs ==
    ASSUME NEW set, Table(set), NEW available \in SUBSET set, NEW rows \in Seq(set)
    PROVE  LET shown == AddNeighbours(rows, available)
           IN /\ shown \in Seq(set)
              /\ WithNeighbours(rows, available, shown)
              /\ \A row \in Range(rows) : \A place \in Around(row) : Tried(shown, available, place)
<1>. DEFINE n == Len(rows)
            Places == Nat \X Int
            Pairs == Seq(Places)
            pair(offset, i) == <<<<rows[i].document, rows[i].index - offset>>,
                                 <<rows[i].document, rows[i].index + offset>>>>
            near(offset) == [i \in 1..n |-> pair(offset, i)]
            nested == [offset \in 1..NeighbourDistance |-> near(offset)]
            flat == FlattenSeq(nested)
            places == FlattenSeq(flat)
            shown == AddNeighbours(rows, available)
<1>1. n \in Nat /\ NeighbourDistance \in Nat /\ DOMAIN rows = 1..n
  BY ContextSettings
<1>2. \A i \in 1..n : rows[i].document \in Nat /\ rows[i].index \in Nat
  <2>1. \A i \in 1..n : rows[i] \in set
    OBVIOUS
  <2>. QED BY <2>1 DEF Table
<1>3. ASSUME NEW offset \in 1..NeighbourDistance, NEW i \in 1..n
      PROVE  pair(offset, i) \in Pairs
  <2>1. offset \in Int
    BY <1>1
  <2>2. /\ <<rows[i].document, rows[i].index - offset>> \in Places
        /\ <<rows[i].document, rows[i].index + offset>> \in Places
    BY <1>2, <2>1
  <2>. HIDE DEF Places
  <2>. QED BY <2>2
<1>4. nested \in Seq(Seq(Pairs)) /\ Len(nested) = NeighbourDistance
  <2>. HIDE DEF Pairs, pair
  <2>1. \A offset \in 1..NeighbourDistance : near(offset) \in Seq(Pairs)
    BY <1>1, <1>3
  <2>. DEFINE S == Seq(Pairs)
  <2>. HIDE DEF near, S
  <2>2. nested \in Seq(S) /\ Len(nested) = NeighbourDistance
    BY <1>1, <2>1 DEF S
  <2>. QED BY <2>2 DEF S
<1>5. flat \in Seq(Pairs) /\ Range(flat) = UNION {Range(nested[offset]) : offset \in 1..Len(nested)}
  <2>. HIDE DEF nested, Pairs
  <2>. QED BY <1>4, Flattened
<1>6. places \in Seq(Places) /\ Range(places) = UNION {Range(flat[k]) : k \in 1..Len(flat)}
  <2>. HIDE DEF flat, Places
  <2>. QED BY <1>5, Flattened
<1>7. shown = AddedAt(places, available, rows)
  BY DEF AddNeighbours, AddedAt
<1>. HIDE DEF places
<1>8. /\ shown \in Seq(set)
      /\ WithNeighbours(rows, available, shown)
      /\ \A place \in Range(places) : Tried(shown, available, place)
  <2>. HIDE DEF Places, shown
  <2>. QED BY <1>6, <1>7, PlacesAreTried
<1>9. ASSUME NEW i \in 1..n, NEW offset \in 1..NeighbourDistance
      PROVE  Range(pair(offset, i)) \subseteq Range(places)
  <2>1. pair(offset, i) \in Range(near(offset))
    <3>. HIDE DEF pair
    <3>. QED BY DEF Range
  <2>2. near(offset) = nested[offset] /\ offset \in 1..Len(nested)
    BY <1>4
  <2>. HIDE DEF pair, near, nested, flat
  <2>3. pair(offset, i) \in Range(flat)
    BY <1>5, <2>1, <2>2
  <2>4. \E k \in 1..Len(flat) : flat[k] = pair(offset, i)
    <3>1. DOMAIN flat = 1..Len(flat)
      BY <1>5
    <3>. QED BY <2>3, <3>1 DEF Range
  <2>. QED BY <1>6, <2>4
<1>10. ASSUME NEW i \in 1..n, NEW place \in Around(rows[i]) PROVE place \in Range(places)
  <2>1. PICK offset \in 1..NeighbourDistance :
           \/ place = <<rows[i].document, rows[i].index - offset>>
           \/ place = <<rows[i].document, rows[i].index + offset>>
    BY DEF Around
  <2>2. /\ DOMAIN pair(offset, i) = 1..2
        /\ pair(offset, i)[1] = <<rows[i].document, rows[i].index - offset>>
        /\ pair(offset, i)[2] = <<rows[i].document, rows[i].index + offset>>
    OBVIOUS
  <2>. HIDE DEF pair
  <2>3. place \in Range(pair(offset, i))
    BY <2>1, <2>2 DEF Range
  <2>. QED BY <1>9, <2>3
<1>. HIDE DEF shown
<1>11. \A row \in Range(rows) : \A place \in Around(row) : Tried(shown, available, place)
  BY <1>1, <1>8, <1>10 DEF Range
<1>. QED BY <1>8, <1>11 DEF shown

LEMMA AnsweredWith ==
    ASSUME AnswersInv, Answered
    PROVE  LET seen == InScope(stored, request.scope)
           IN /\ Table(seen)
              /\ answer.rows \in Seq(seen)
              /\ FetchNeighbours(stored, answer.rows, request.scope) \in SUBSET seen
              /\ answer.shown =
                    IF request.kind = "query"
                       THEN AddNeighbours(answer.rows, FetchNeighbours(stored, answer.rows, request.scope))
                       ELSE answer.rows
<1>. DEFINE seen == InScope(stored, request.scope)
            rows == NoOpRerank(Fused, request.top_k)
<1>1. FoundBy /\ AnswerIs /\ request \in Questions
  BY DEF AnswersInv, FoundInv, RequestInv, Answered, Uploads
<1>2. answer.rows = rows /\ answer.shown = Shown(rows)
  BY <1>1 DEF AnswerIs
<1>3. seen \in SUBSET stored
  BY DEF InScope
<1>4. Table(seen)
  BY <1>3, StoredIsATable, PartOfATable
<1>5. request.top_k \in Nat \ {0}
  BY <1>1, SessionsAssumption
<1>6. Fused \in Seq(seen)
  BY <1>1, FusedIs
<1>7. FetchNeighbours(stored, answer.rows, request.scope) \in SUBSET seen
  BY DEF FetchNeighbours
<1>. HIDE DEF seen
<1>8. rows \in Seq(seen)
  BY <1>5, <1>6, RowsAre
<1>9. answer.rows \in Seq(seen)
  BY <1>2, <1>8
<1>. HIDE DEF rows
<1>10. answer.shown =
          IF request.kind = "query"
             THEN AddNeighbours(answer.rows, FetchNeighbours(stored, answer.rows, request.scope))
             ELSE answer.rows
  BY <1>2 DEF Shown
<1>. QED BY <1>4, <1>7, <1>9, <1>10 DEF seen

LEMMA RangeOfRows ==
    ASSUME NEW set, NEW rows \in Seq(set)
    PROVE  Range(rows) \subseteq set
<1>1. DOMAIN rows = 1..Len(rows) /\ \A i \in 1..Len(rows) : rows[i] \in set
  OBVIOUS
<1>. QED BY <1>1 DEF Range

\* What a caller may not see has no part in what is found or shown
\* (HiddenChunksDoNotMatter).
THEOREM NothingHiddenMatters == Spec => []HiddenChunksDoNotMatter
<1>1. ASSUME AnswersInv PROVE HiddenChunksDoNotMatter
  <2>1. Keywords = KeywordSearch(InScope(stored, request.scope), request.query, None)
    BY SearchInScope DEF Keywords
  <2>2. ASSUME Answered PROVE Range(answer.shown) \subseteq InScope(stored, request.scope)
    <3>. DEFINE seen == InScope(stored, request.scope)
                available == FetchNeighbours(stored, answer.rows, request.scope)
    <3>1. /\ Table(seen) /\ answer.rows \in Seq(seen) /\ available \in SUBSET seen
          /\ answer.shown = IF request.kind = "query" THEN AddNeighbours(answer.rows, available)
                                                      ELSE answer.rows
      BY <1>1, <2>2, AnsweredWith
    <3>. HIDE DEF seen, available
    <3>2. AddNeighbours(answer.rows, available) \in Seq(seen)
      BY <3>1, AddNeighboursIs
    <3>3. answer.shown \in Seq(seen)
      BY <3>1, <3>2
    <3>4. Range(answer.shown) \subseteq seen
      BY <3>3, RangeOfRows
    <3>. QED BY <3>4 DEF seen
  <2>. QED BY <2>1, <2>2 DEF HiddenChunksDoNotMatter
<1>. QED BY <1>1, AlwaysAnswersInv, PTL

\* A neighbour that may be fetched stands around one of the rows, and is none of them.
LEMMA FetchedIsAround ==
    ASSUME NEW set, Table(set), NEW rows \in Seq(set), NEW chunks, NEW scope,
           NEW c \in FetchNeighbours(chunks, rows, scope)
    PROVE  c \notin Range(rows) /\ \E row \in Range(rows) : Place(c) \in Around(row)
<1>. DEFINE Offsets == (0 - NeighbourDistance)..NeighbourDistance
            retrieved == {Place(r) : r \in Range(rows)}
<1>1. PICK row \in Range(rows), offset \in Offsets : Place(c) = <<row.document, row.index + offset>>
  BY DEF FetchNeighbours
<1>2. Place(c) \notin retrieved
  BY DEF FetchNeighbours
<1>3. c \notin Range(rows)
  BY <1>2
<1>4. NeighbourDistance \in Nat /\ offset \in Int
  BY ContextSettings
<1>5. row.index \in Nat
  BY RangeOfRows DEF Table
<1>6. offset # 0
  <2>. SUFFICES ASSUME offset = 0 PROVE FALSE
    OBVIOUS
  <2>1. row.index + offset = row.index
    BY <1>5
  <2>2. Place(c) = Place(row)
    BY <1>1, <2>1 DEF Place
  <2>. QED BY <1>2, <2>2
<1>7. CASE offset > 0
  <2>1. offset \in 1..NeighbourDistance
    BY <1>4, <1>7
  <2>. QED BY <1>1, <1>3, <2>1 DEF Around
<1>8. CASE offset < 0
  <2>. DEFINE back == 0 - offset
  <2>1. back \in 1..NeighbourDistance /\ row.index - back = row.index + offset
    BY <1>4, <1>5, <1>8
  <2>. HIDE DEF back
  <2>2. Place(c) = <<row.document, row.index - back>>
    BY <1>1, <2>1
  <2>. QED BY <1>3, <2>1, <2>2 DEF Around
<1>. QED BY <1>4, <1>6, <1>7, <1>8

\* Neighbours come after the rows, only while they fit, and none is left out that would have
\* fitted after all (NeighboursFit).
THEOREM NeighboursComeWhileTheyFit == Spec => []NeighboursFit
<1>1. ASSUME AnswersInv PROVE NeighboursFit
  <2>. SUFFICES ASSUME Answered, request.kind = "query"
                PROVE  LET available == FetchNeighbours(stored, answer.rows, request.scope)
                           added == Range(answer.shown) \ Range(answer.rows)
                       IN /\ IsPrefix(answer.rows, answer.shown)
                          /\ added \subseteq available
                          /\ added # {} => Chars(answer.shown) <= MaxContextChars
                          /\ \A c \in available \ added :
                                Chars(answer.shown) + Length(c.content) > MaxContextChars
    BY DEF NeighboursFit
  <2>. DEFINE seen == InScope(stored, request.scope)
              rows == answer.rows
              shown == answer.shown
              available == FetchNeighbours(stored, rows, request.scope)
              added == Range(shown) \ Range(rows)
  <2>1. /\ Table(seen) /\ rows \in Seq(seen) /\ available \in SUBSET seen
        /\ shown = AddNeighbours(rows, available)
    BY <1>1, AnsweredWith
  <2>. HIDE DEF seen, shown, rows
  <2>2. \A c \in available : c \notin Range(rows) /\ \E row \in Range(rows) : Place(c) \in Around(row)
    BY <2>1, FetchedIsAround
  <2>. HIDE DEF available
  <2>3. /\ shown \in Seq(seen)
        /\ WithNeighbours(rows, available, shown)
        /\ \A row \in Range(rows) : \A place \in Around(row) : Tried(shown, available, place)
    BY <2>1, AddNeighboursIs
  <2>4. IsPrefix(rows, shown)
    <3>1. Len(rows) \in Nat /\ Len(rows) <= Len(shown) /\ \A i \in 1..Len(rows) : shown[i] = rows[i]
      BY <2>1, <2>3 DEF WithNeighbours
    <3>. DEFINE n == Len(rows)
                a == SubSeq(rows, 1, n)
                b == SubSeq(shown, 1, n)
    <3>2. a \in Seq(seen) /\ Len(a) = n /\ \A i \in 1..n : a[i] = rows[i]
      BY <2>1, <3>1, Beginning
    <3>3. b \in Seq(seen) /\ Len(b) = n /\ \A i \in 1..n : b[i] = shown[i]
      BY <2>3, <3>1, Beginning
    <3>. HIDE DEF a, b
    <3>4. a = b
      BY <3>1, <3>2, <3>3
    <3>. QED BY <3>1, <3>4 DEF IsPrefix, a, b
  <2>5. added \subseteq available
    BY <2>3 DEF WithNeighbours
  <2>6. added # {} => Chars(shown) <= MaxContextChars
    BY <2>3 DEF WithNeighbours
  <2>7. \A c \in available \ added : Chars(shown) + Length(c.content) > MaxContextChars
    BY <2>2, <2>3 DEF Tried
  <2>8. /\ IsPrefix(rows, shown)
        /\ added \subseteq available
        /\ added # {} => Chars(shown) <= MaxContextChars
        /\ \A c \in available \ added : Chars(shown) + Length(c.content) > MaxContextChars
    BY <2>4, <2>5, <2>6, <2>7
  <2>. QED BY <2>8 DEF available, rows, shown
<1>. QED BY <1>1, AlwaysAnswersInv, PTL

-----------------------------------------------------------------------------
(* The words of a question. *)

LEMMA ChosenAre ==
    ASSUME NEW S, NEW seq \in Seq(S), NEW places \in SUBSET (1..Len(seq))
    PROVE  LET chosen == Chosen(seq, places)
           IN /\ chosen \in Seq(S)
              /\ \A i \in places : \E k \in 1..Len(chosen) : chosen[k] = seq[i]
              /\ \A k \in 1..Len(chosen) : \E i \in places : chosen[k] = seq[i]
<1>. DEFINE n == Cardinality(places)
            order == Ascending(places)
            chosen == Chosen(seq, places)
<1>1. /\ order \in [1..n -> places]
      /\ \A i \in places : \E k \in 1..n : order[k] = i
      /\ chosen \in Seq(S)
      /\ Len(chosen) = n
      /\ \A k \in 1..n : chosen[k] = seq[order[k]]
  BY ChosenIsInOrder
<1>. HIDE DEF n, order, chosen
<1>2. ASSUME NEW i \in places PROVE \E k \in 1..Len(chosen) : chosen[k] = seq[i]
  <2>1. PICK k \in 1..n : order[k] = i
    BY <1>1
  <2>. QED BY <1>1, <2>1
<1>3. ASSUME NEW k \in 1..Len(chosen) PROVE \E i \in places : chosen[k] = seq[i]
  <2>1. k \in 1..n
    BY <1>1
  <2>2. order[k] \in places /\ chosen[k] = seq[order[k]]
    BY <1>1, <2>1
  <2>. QED BY <2>2
<1>. QED BY <1>1, <1>2, <1>3 DEF chosen

LEMMA WithoutOrIs ==
    ASSUME NEW words \in Seq(Vocabulary)
    PROVE  /\ Range(WithoutOr(words)) = {words[i] : i \in {j \in 1..Len(words) : words[j] # Or}}
           /\ WithoutOr(words) # <<>> => \E i \in 1..Len(words) : words[i] # Or
<1>. DEFINE places == {j \in 1..Len(words) : words[j] # Or}
            rest == WithoutOr(words)
<1>1. rest = Chosen(words, places)
  <2>1. DOMAIN words = 1..Len(words)
    OBVIOUS
  <2>. QED BY <2>1 DEF WithoutOr
<1>2. places \in SUBSET (1..Len(words))
  OBVIOUS
<1>3. /\ rest \in Seq(Vocabulary)
      /\ \A i \in places : \E k \in 1..Len(rest) : rest[k] = words[i]
      /\ \A k \in 1..Len(rest) : \E i \in places : rest[k] = words[i]
  <2>. HIDE DEF places, rest
  <2>. QED BY <1>1, <1>2, ChosenAre
<1>. HIDE DEF rest
<1>4. DOMAIN rest = 1..Len(rest) /\ (rest # <<>> => 1 \in 1..Len(rest))
  BY <1>3
<1>5. Range(rest) = {words[i] : i \in places}
  <2>. HIDE DEF places
  <2>1. ASSUME NEW w \in Range(rest) PROVE \E i \in places : w = words[i]
    BY <1>3, <1>4, <2>1 DEF Range
  <2>2. ASSUME NEW i \in places PROVE words[i] \in Range(rest)
    BY <1>3, <1>4, <2>2 DEF Range
  <2>. QED BY <2>1, <2>2
<1>6. rest # <<>> => \E i \in 1..Len(words) : words[i] # Or
  BY <1>3, <1>4
<1>. QED BY <1>5, <1>6 DEF rest

\* Alternatives of a question while it is read.
Partial == {list \in Seq(SUBSET Vocabulary) : list # <<>>}

NextWord(list, word) ==
    IF word = Or THEN Append(list, {}) ELSE [list EXCEPT ![Len(list)] = @ \cup {word}]

LEMMA NextWordIs ==
    ASSUME NEW list \in Partial, NEW word \in Vocabulary
    PROVE  LET next == NextWord(list, word)
               n == Len(list)
           IN /\ next \in Partial /\ n \in 1..Len(next) /\ n \in Nat \ {0}
              /\ \A i \in 1..(n - 1) : next[i] = list[i]
              /\ word = Or => Len(next) = n + 1 /\ next[n] = list[n] /\ next[n + 1] = {}
              /\ word # Or => Len(next) = n /\ next[n] = list[n] \cup {word}
<1>. DEFINE next == NextWord(list, word)
            n == Len(list)
            S == SUBSET Vocabulary
<1>. HIDE DEF S
<1>1. list \in Seq(S) /\ n \in Nat \ {0}
  BY DEF Partial, S
<1>2. {} \in S /\ (list[n] \in S => list[n] \cup {word} \in S)
  BY DEF S
<1>3. CASE word = Or
  <2>1. next = Append(list, {})
    BY <1>3 DEF NextWord
  <2>. HIDE DEF next
  <2>2. /\ next \in Seq(S) /\ Len(next) = n + 1 /\ next[n + 1] = {}
        /\ \A i \in 1..n : next[i] = list[i]
    BY <1>1, <1>2, <2>1
  <2>3. next # <<>> /\ n \in 1..Len(next) /\ n \in 1..n /\ \A i \in 1..(n - 1) : i \in 1..n
    BY <1>1, <2>2
  <2>. QED BY <1>1, <1>3, <2>2, <2>3 DEF Partial, S, next
<1>4. CASE word # Or
  <2>1. next = [list EXCEPT ![n] = list[n] \cup {word}]
    BY <1>4 DEF NextWord
  <2>. HIDE DEF next
  <2>2. n \in 1..n /\ list[n] \in S /\ \A i \in 1..(n - 1) : i \in 1..n /\ i # n
    BY <1>1
  <2>3. /\ next \in Seq(S) /\ Len(next) = n /\ next[n] = list[n] \cup {word}
        /\ \A i \in 1..n : i # n => next[i] = list[i]
    BY <1>1, <1>2, <2>1, <2>2
  <2>4. next # <<>>
    BY <1>1, <2>3
  <2>. QED BY <1>1, <1>4, <2>2, <2>3, <2>4 DEF Partial, S, next
<1>. QED BY <1>3, <1>4

Split(words) ==
    FoldLeft(LAMBDA list, word : NextWord(list, word), <<{}>>, words)

\* The words, one after another.
LEMMA SplitSteps ==
    ASSUME NEW words \in Seq(Vocabulary)
    PROVE  \E h : /\ h \in [0..Len(words) -> Partial]
                  /\ h[0] = <<{}>>
                  /\ \A k \in 1..Len(words) : h[k] = NextWord(h[k - 1], words[k])
                  /\ h[Len(words)] = Split(words)
<1>. DEFINE n == Len(words)
            B == Partial
            g == [p \in B \X (1..n) |-> NextWord(p[1], words[p[2]])]
            Is(it) == it = [s \in SUBSET DOMAIN words |->
                               IF s = {} THEN <<{}>>
                               ELSE NextWord(it[s \ {Max(s)}], words[Max(s)])]
            f == CHOOSE it : Is(it)
<1>1. n \in Nat /\ DOMAIN words = 1..n /\ \A k \in 1..n : words[k] \in Vocabulary
  BY LenProperties
<1>2. <<{}>> \in B /\ \A b \in B, x \in Vocabulary : NextWord(b, x) \in B
  <2>1. <<{}>> \in Partial
    BY DEF Partial
  <2>. QED BY <2>1, NextWordIs
<1>3. g \in [B \X (1..n) -> B]
  BY <1>1, <1>2
<1>4. PICK it \in [SUBSET (1..n) -> B] : Folding(it, 1..n, <<{}>>, g)
  BY <1>1, <1>2, <1>3, FoldingExists
<1>5. Is(it)
  <2>1. \A s \in SUBSET (1..n) : s # {} => Max(s) \in 1..n /\ s \ {Max(s)} \in SUBSET (1..n)
    BY <1>1, GreatestPlace
  <2>2. \A s \in SUBSET (1..n) : s # {} =>
           g[<<it[s \ {Max(s)}], Max(s)>>] = NextWord(it[s \ {Max(s)}], words[Max(s)])
    BY <2>1
  <2>. QED BY <1>1, <1>4, <2>2 DEF Folding
<1>6. Is(f)
  BY <1>5
<1>7. Split(words) = f[1..n]
  BY <1>1 DEF Split, FoldLeft, MapThenFoldSet
<1>. HIDE DEF f
<1>8. FoldsTo(f, n, B, <<{}>>, g)
  <2>1. f[{}] = <<{}>>
    BY <1>6
  <2>2. \A k \in 1..n : f[1..k] = NextWord(f[1..(k - 1)], words[k])
    <3>. TAKE k \in 1..n
    <3>1. k \in Nat \ {0} /\ 1..k \in SUBSET (1..n)
      BY <1>1
    <3>2. 1..k # {} /\ Max(1..k) = k /\ (1..k) \ {k} = 1..(k - 1)
      BY <3>1, Spans
    <3>3. f[1..k] = IF 1..k = {} THEN <<{}>> ELSE NextWord(f[(1..k) \ {Max(1..k)}], words[Max(1..k)])
      BY <1>1, <1>6, <3>1
    <3>. QED BY <3>2, <3>3
  <2>3. \A k \in 1..n : f[1..(k - 1)] \in B => f[1..k] = g[<<f[1..(k - 1)], k>>]
    BY <2>2
  <2>. HIDE DEF g, n, B
  <2>. QED BY <1>1, <1>2, <1>3, <2>1, <2>3 DEF FoldsTo
<1>9. \A k \in 1..n, b \in B : g[<<b, k>>] = NextWord(b, words[k])
  OBVIOUS
<1>. HIDE DEF g, B, n
<1>10. PICK h : Steps(h, n, B, <<{}>>, g) /\ h[n] = f[1..n]
  BY <1>8, StepsOfFolding
<1>11. h \in [0..n -> B] /\ h[0] = <<{}>> /\ \A k \in 1..n : h[k] = g[<<h[k - 1], k>>]
  BY <1>10 DEF Steps
<1>12. \A k \in 1..n : h[k] = NextWord(h[k - 1], words[k])
  <2>1. \A k \in 1..n : h[k - 1] \in B
    BY <1>1, <1>11
  <2>. QED BY <1>9, <1>11, <2>1
<1>. QED BY <1>7, <1>10, <1>11, <1>12 DEF B, n


\* What the alternatives hold after the first k words: these words, the word Or left out.
HoldWords(list, words, k) ==
    /\ \A j \in 1..Len(list) : \A w \in list[j] : \E i \in 1..k : words[i] = w /\ w # Or
    /\ \A i \in 1..k : words[i] # Or => \E j \in 1..Len(list) : words[i] \in list[j]

LEMMA NextWordHolds ==
    ASSUME NEW words \in Seq(Vocabulary), NEW k \in Nat, k < Len(words), NEW list \in Partial,
           HoldWords(list, words, k)
    PROVE  HoldWords(NextWord(list, words[k + 1]), words, k + 1)
<1>. DEFINE word == words[k + 1]
            next == NextWord(list, word)
            n == Len(list)
<1>1. word \in Vocabulary
  OBVIOUS
<1>2. \A i \in 1..(k + 1) : i \in 1..k \/ i = k + 1
  OBVIOUS
<1>3. k + 1 \in 1..(k + 1) /\ \A i \in 1..k : i \in 1..(k + 1)
  OBVIOUS
<1>. HIDE DEF word
<1>4. /\ next \in Partial /\ n \in 1..Len(next) /\ n \in Nat \ {0}
      /\ \A i \in 1..(n - 1) : next[i] = list[i]
      /\ word = Or => Len(next) = n + 1 /\ next[n] = list[n] /\ next[n + 1] = {}
      /\ word # Or => Len(next) = n /\ next[n] = list[n] \cup {word}
  BY <1>1, NextWordIs
<1>. HIDE DEF next, n
<1>5. \A j \in 1..n : j \in 1..(n - 1) \/ j = n
  BY <1>4
<1>6. n \in 1..n /\ \A j \in 1..(n - 1) : j \in 1..n
  BY <1>4
<1>7. \A j \in 1..n : j \in 1..Len(next) /\ list[j] \subseteq next[j]
  <2>1. \A j \in 1..n : j \in 1..Len(next)
    BY <1>4
  <2>. QED BY <1>4, <1>5, <2>1
<1>8. \A j \in 1..Len(next) : \A w \in next[j] : (j \in 1..n /\ w \in list[j]) \/ (w = word /\ word # Or)
  <2>1. CASE word = Or
    <3>1. \A j \in 1..Len(next) : j \in 1..n \/ j = n + 1
      BY <1>4, <2>1
    <3>. QED BY <1>4, <1>5, <2>1, <3>1
  <2>2. CASE word # Or
    BY <1>4, <1>5, <2>2
  <2>. QED BY <2>1, <2>2
<1>9. \A j \in 1..Len(next) : \A w \in next[j] : \E i \in 1..(k + 1) : words[i] = w /\ w # Or
  <2>. TAKE j \in 1..Len(next)
  <2>. TAKE w \in next[j]
  <2>1. CASE j \in 1..n /\ w \in list[j]
    <3>1. PICK i \in 1..k : words[i] = w /\ w # Or
      BY <2>1 DEF HoldWords, n
    <3>. QED BY <1>3, <3>1
  <2>2. CASE w = word /\ word # Or
    BY <1>3, <2>2 DEF word
  <2>. QED BY <1>8, <2>1, <2>2
<1>10. ASSUME NEW i \in 1..(k + 1), words[i] # Or PROVE \E j \in 1..Len(next) : words[i] \in next[j]
  <2>1. CASE i \in 1..k
    <3>1. PICK j \in 1..n : words[i] \in list[j]
      BY <1>10, <2>1 DEF HoldWords, n
    <3>. QED BY <1>7, <3>1
  <2>2. CASE i = k + 1
    BY <1>4, <1>10, <2>2 DEF word
  <2>. QED BY <1>2, <2>1, <2>2
<1>. QED BY <1>9, <1>10 DEF HoldWords, next, word

LEMMA SplitHolds ==
    ASSUME NEW words \in Seq(Vocabulary)
    PROVE  Split(words) \in Partial /\ HoldWords(Split(words), words, Len(words))
<1>. DEFINE n == Len(words)
<1>1. PICK h : /\ h \in [0..n -> Partial]
               /\ h[0] = <<{}>>
               /\ \A k \in 1..n : h[k] = NextWord(h[k - 1], words[k])
               /\ h[n] = Split(words)
  BY SplitSteps
<1>2. n \in Nat
  OBVIOUS
<1>. DEFINE T == {k \in 0..n : HoldWords(h[k], words, k)}
<1>3. 0 \in T
  <2>1. \A j \in 1..Len(<<{}>>) : <<{}>>[j] = {}
    OBVIOUS
  <2>2. HoldWords(<<{}>>, words, 0)
    BY <2>1 DEF HoldWords
  <2>3. 0 \in 0..n
    BY <1>2
  <2>. HIDE DEF n
  <2>. QED BY <1>1, <2>2, <2>3
<1>4. \A k \in 0..(n - 1) : k \in T => k + 1 \in T
  <2>. SUFFICES ASSUME NEW k \in 0..(n - 1), HoldWords(h[k], words, k)
                PROVE  k + 1 \in 0..n /\ HoldWords(h[k + 1], words, k + 1)
    OBVIOUS
  <2>1. k \in Nat /\ k < Len(words) /\ k \in 0..n /\ k + 1 \in 1..n /\ k + 1 \in 0..n /\ (k + 1) - 1 = k
    BY <1>2
  <2>2. h[k] \in Partial /\ h[k + 1] = NextWord(h[k], words[k + 1])
    BY <1>1, <2>1
  <2>3. HoldWords(NextWord(h[k], words[k + 1]), words, k + 1)
    BY <2>1, <2>2, NextWordHolds
  <2>. QED BY <2>1, <2>2, <2>3
<1>5. n \in T
  <2>1. n \in 0..n
    BY <1>2
  <2>. HIDE DEF T, n
  <2>. QED BY <1>2, <1>3, <1>4, <2>1, InductionUpTo
<1>. QED BY <1>1, <1>2, <1>5

LEMMA AlternativesAre ==
    \A words : Alternatives(words) = {a \ StopWords : a \in Range(Split(words))} \ {{}}
BY DEF Alternatives, Split, NextWord

\* A chunk that holds all words of a question matches what is left of it without common words.
LEMMA StillMatches ==
    ASSUME NEW query \in Queries, NEW stats, NEW chunk, MatchesWhole(chunk, query),
           Range(query.words) \cap StopWords = {}
    PROVE  Matches(chunk, WithoutCommonWords(query, stats))
<1>. DEFINE rare == {i \in DOMAIN query.words : ~Common(stats, query.words[i])}
            reduced == Chosen(query.words, rare)
            typed == WithoutCommonWords(query, stats)
            all == query.words
<1>1. all \in Seq(Vocabulary) /\ DOMAIN all = 1..Len(all)
  BY DEF Queries
<1>2. CASE typed = query
  BY <1>2 DEF MatchesWhole
<1>3. CASE typed # query
  <2>0. WithoutCommonWords(query, stats) =
            IF stats = None \/ MaxTermShare[1] = MaxTermShare[2] THEN query
            ELSE IF WithoutOr(reduced) = <<>> THEN query ELSE [query EXCEPT !.words = reduced]
    BY DEF WithoutCommonWords
  <2>1. WithoutOr(reduced) # <<>> /\ typed = [query EXCEPT !.words = reduced]
    BY <1>3, <2>0
  <2>2. typed.words = reduced /\ typed.excluded = query.excluded
    BY <2>1 DEF Queries
  <2>3. rare \in SUBSET (1..Len(all))
    BY <1>1
  <2>. HIDE DEF rare, typed, all
  <2>4. /\ reduced \in Seq(Vocabulary)
        /\ \A k \in rare : \E l \in 1..Len(reduced) : reduced[l] = all[k]
        /\ \A k \in 1..Len(reduced) : \E l \in rare : reduced[k] = all[l]
    <3>1. reduced = Chosen(all, rare)
      BY DEF all
    <3>. HIDE DEF reduced
    <3>. QED BY <1>1, <2>3, <3>1, ChosenAre
  <2>. HIDE DEF reduced
  <2>5. PICK i \in 1..Len(reduced) : reduced[i] # Or
    BY <2>1, <2>4, WithoutOrIs
  <2>. DEFINE split == Split(reduced)
  <2>6. split \in Partial /\ HoldWords(split, reduced, Len(reduced))
    BY <2>4, SplitHolds
  <2>. HIDE DEF split
  <2>7. DOMAIN split = 1..Len(split)
    BY <2>6 DEF Partial
  <2>8. PICK j \in 1..Len(split) : reduced[i] \in split[j]
    BY <2>5, <2>6 DEF HoldWords
  <2>9. Range(WithoutOr(all)) = {all[k] : k \in {l \in 1..Len(all) : all[l] # Or}}
    BY <1>1, WithoutOrIs
  <2>10. ASSUME NEW w \in split[j] PROVE w \in Words(chunk) /\ w \notin StopWords
    <3>1. PICK k \in 1..Len(reduced) : reduced[k] = w /\ w # Or
      BY <2>6 DEF HoldWords
    <3>2. PICK l \in rare : reduced[k] = all[l]
      BY <2>4
    <3>3. l \in 1..Len(all) /\ w = all[l]
      BY <2>3, <3>1, <3>2
    <3>4. w \in Range(all)
      BY <1>1, <3>3 DEF Range
    <3>5. w \in Range(WithoutOr(all))
      BY <2>9, <3>1, <3>3
    <3>. QED BY <3>4, <3>5 DEF MatchesWhole, all
  <2>. DEFINE alternative == split[j] \ StopWords
  <2>11. alternative \in Alternatives(reduced)
    <3>1. split[j] \in Range(split)
      BY <2>7 DEF Range
    <3>2. alternative # {}
      BY <2>8, <2>10
    <3>3. Alternatives(reduced) = {a \ StopWords : a \in Range(split)} \ {{}}
      BY AlternativesAre DEF split
    <3>. QED BY <3>1, <3>2, <3>3
  <2>12. alternative \subseteq Words(chunk)
    BY <2>10
  <2>13. query.excluded \cap Words(chunk) = {}
    BY DEF MatchesWhole, Matches
  <2>14. Matches(chunk, typed)
    <3>. HIDE DEF alternative
    <3>. QED BY <2>2, <2>11, <2>12, <2>13 DEF Matches
  <2>. QED BY <2>14 DEF typed
<1>. QED BY <1>2, <1>3

LEMMA SearchFinds ==
    ASSUME NEW chunks, IsFiniteSet(chunks), NEW query \in Queries, NEW scope,
           NEW chunk \in InScope(chunks, scope), MatchesWhole(chunk, query),
           Range(query.words) \cap StopWords = {},
           NEW rows \in KeywordSearch(chunks, query, scope)
    PROVE  rows # <<>>
<1>. DEFINE seen == InScope(chunks, scope)
            counted == ~Strict(query) /\ (RarityWeighting \/ MaxTermShare[1] < MaxTermShare[2])
            stats == IF counted THEN TermStats(chunks, scope, query.words) ELSE None
            typed == WithoutCommonWords(query, stats)
            exact == {c \in seen : Matches(c, typed)}
            any == KeywordRows(seen, typed)
<1>1. Matches(chunk, typed)
  BY StillMatches
<1>2. IsFiniteSet(seen) /\ exact \in SUBSET seen
  BY InScopeIs
<1>3. exact # {}
  BY <1>1
<1>4. any = BestOf(exact, [c \in exact |-> TsRank(c, typed.words)])
  BY DEF KeywordRows
<1>. HIDE DEF seen, exact
<1>5. \A list \in any : list # <<>>
  <2>. TAKE list \in any
  <2>1. list \in BestOf(exact, [c \in exact |-> TsRank(c, typed.words)])
    BY <1>4
  <2>. HIDE DEF typed
  <2>. QED BY <1>2, <1>3, <2>1, BestOfIs
<1>6. any # {<<>>}
  BY <1>5
<1>7. any # {<<>>} => rows \in any
  <2>. HIDE DEF stats
  <2>. QED BY DEF KeywordSearch, stats, seen
<1>. QED BY <1>5, <1>6, <1>7

\* Leaving out common words does not leave the keyword arm with nothing (KeywordArmFinds).
THEOREM KeywordsAreFound == Spec => []KeywordArmFinds
<1>1. ASSUME AnswersInv PROVE KeywordArmFinds
  <2>. SUFFICES ASSUME step = "found", request.mode # "vector",
                       Range(request.query.words) \cap StopWords = {},
                       NEW chunk \in InScope(stored, request.scope), MatchesWhole(chunk, request.query)
                PROVE  found.keyword # <<>>
    BY DEF KeywordArmFinds
  <2>1. FoundBy /\ IsFiniteSet(stored) /\ request \in Questions
    BY <1>1 DEF AnswersInv, FoundInv, StoredInv, RequestInv
  <2>2. request.query \in Queries
    BY <2>1, SessionsAssumption
  <2>3. found.keyword \in KeywordSearch(stored, request.query, request.scope)
    BY <2>1 DEF FoundBy, Keywords
  <2>. QED BY <2>1, <2>2, <2>3, SearchFinds
<1>. QED BY <1>1, AlwaysAnswersInv, PTL

-----------------------------------------------------------------------------
(* The order an answer model reads in. *)

LEMMA RangeIsFinite ==
    ASSUME NEW set, NEW rows \in Seq(set)
    PROVE  IsFiniteSet(Range(rows))
<1>. DEFINE n == Len(rows)
<1>1. n \in Nat /\ rows \in [1..n -> Range(rows)]
  BY DEF Range
<1>2. rows \in Surjection(1..n, Range(rows))
  <2>1. \A c \in Range(rows) : \E i \in 1..n : rows[i] = c
    BY DEF Range
  <2>. QED BY <1>1, <2>1 DEF Surjection
<1>. HIDE DEF n
<1>3. IsFiniteSet(1..n)
  <2>1. 1 \in Int /\ n \in Int
    BY <1>1
  <2>. QED BY <2>1, FS_Interval
<1>. QED BY <1>2, <1>3, FS_Surjection

\* Where the best chunk of a document stands.
Best(rows, c) == Min({i \in 1..Len(rows) : rows[i].document = c.document})

LEMMA BestIs ==
    ASSUME NEW set, NEW rows \in Seq(set), NEW c \in Range(rows)
    PROVE  /\ Best(rows, c) \in 1..Len(rows)
           /\ rows[Best(rows, c)].document = c.document
           /\ \A i \in 1..Len(rows) : rows[i].document = c.document => Best(rows, c) <= i
<1>. DEFINE T == {i \in 1..Len(rows) : rows[i].document = c.document}
<1>1. T # {}
  <2>1. PICK i \in 1..Len(rows) : rows[i] = c
    BY DEF Range
  <2>. QED BY <2>1
<1>2. \A i \in T : i \in Int /\ 1 <= i
  OBVIOUS
<1>3. Best(rows, c) = Min(T)
  BY DEF Best
<1>. HIDE DEF T
<1>4. Min(T) \in T /\ \A i \in T : Min(T) <= i
  <2>1. 1 \in Int
    OBVIOUS
  <2>. QED BY <1>1, <1>2, <2>1, LeastIs, Zenon
<1>. QED BY <1>3, <1>4 DEF T

\* Documents by their best chunk, each without a break, and its chunks by their index.
InReadingOrder(order, rows) ==
    /\ order \in Seq(Range(rows))
    /\ \A c \in Range(rows) : \E k \in 1..Len(order) : order[k] = c
    /\ \A i, j \in 1..Len(order) : order[i] = order[j] => i = j
    /\ \A i, j \in 1..Len(order) :
          i < j /\ order[i].document = order[j].document => order[i].index < order[j].index
    /\ \A i, j, k \in 1..Len(order) :
          i < j /\ j < k /\ order[i].document = order[k].document => order[i].document = order[j].document
    /\ rows # <<>> => Len(order) > 0 /\ order[1].document = rows[1].document

LEMMA ReadingOrderIs ==
    ASSUME NEW set, Table(set), NEW rows \in Seq(set)
    PROVE  InReadingOrder(ReadingOrder(rows), rows)
<1>. DEFINE shown == Range(rows)
            before == {p \in shown \X shown :
                          \/ Best(rows, p[1]) < Best(rows, p[2])
                          \/ Best(rows, p[1]) = Best(rows, p[2]) /\ p[1].index < p[2].index}
            order == ReadingOrder(rows)
            n == Cardinality(shown)
<1>1. IsFiniteSet(shown) /\ n \in Nat
  BY RangeIsFinite, FS_CardinalityType
<1>2. shown \subseteq set
  BY RangeOfRows
<1>3. \A c \in shown : /\ Best(rows, c) \in 1..Len(rows)
                       /\ rows[Best(rows, c)].document = c.document
                       /\ \A i \in 1..Len(rows) : rows[i].document = c.document => Best(rows, c) <= i
  BY BestIs
<1>4. \A c \in shown : c.index \in Nat
  BY <1>2 DEF Table
<1>5. order = Sorted(shown, before)
  BY DEF ReadingOrder, Best
<1>6. \A c, d \in shown :
         <<c, d>> \in before <=> (\/ Best(rows, c) < Best(rows, d)
                                  \/ Best(rows, c) = Best(rows, d) /\ c.index < d.index)
  <2>. HIDE DEF shown
  <2>. TAKE c \in shown
  <2>. TAKE d \in shown
  <2>. DEFINE p == <<c, d>>
  <2>1. p \in shown \X shown /\ p[1] = c /\ p[2] = d
    OBVIOUS
  <2>. HIDE DEF p
  <2>2. p \in before <=> \/ Best(rows, c) < Best(rows, d)
                         \/ Best(rows, c) = Best(rows, d) /\ c.index < d.index
    BY <2>1
  <2>. HIDE DEF before
  <2>. QED BY <2>2 DEF p
<1>7. \A c \in shown : Best(rows, c) \in Nat
  BY <1>3
<1>8. \A c, d \in shown : Best(rows, c) = Best(rows, d) <=> c.document = d.document
  <2>. SUFFICES ASSUME NEW c \in shown, NEW d \in shown
                PROVE  Best(rows, c) = Best(rows, d) <=> c.document = d.document
    OBVIOUS
  <2>1. ASSUME c.document = d.document PROVE Best(rows, c) = Best(rows, d)
    <3>1. Best(rows, c) <= Best(rows, d) /\ Best(rows, d) <= Best(rows, c)
      BY <1>3, <2>1
    <3>. QED BY <1>7, <3>1
  <2>2. ASSUME Best(rows, c) = Best(rows, d) PROVE c.document = d.document
    BY <1>3, <2>2
  <2>. QED BY <2>1, <2>2
<1>9. \A c, d \in shown : c.document = d.document /\ c.index = d.index => c = d
  BY <1>2 DEF Table, Place
<1>. HIDE DEF shown, before, order
<1>10. StrictOrder(before, shown)
  <2>1. \A x \in shown : <<x, x>> \notin before
    BY <1>4, <1>6, <1>7
  <2>2. ASSUME NEW x \in shown, NEW y \in shown, NEW z \in shown, <<x, y>> \in before, <<y, z>> \in before
        PROVE  <<x, z>> \in before
    <3>1. /\ Best(rows, x) \in Nat /\ Best(rows, y) \in Nat /\ Best(rows, z) \in Nat
          /\ x.index \in Nat /\ y.index \in Nat /\ z.index \in Nat
      BY <1>4, <1>7
    <3>2. /\ Best(rows, x) < Best(rows, y) \/ (Best(rows, x) = Best(rows, y) /\ x.index < y.index)
          /\ Best(rows, y) < Best(rows, z) \/ (Best(rows, y) = Best(rows, z) /\ y.index < z.index)
      BY <1>6, <2>2
    <3>3. Best(rows, x) < Best(rows, z) \/ (Best(rows, x) = Best(rows, z) /\ x.index < z.index)
      BY <3>1, <3>2
    <3>. QED BY <1>6, <3>3
  <2>3. ASSUME NEW x \in shown, NEW y \in shown, x # y PROVE <<x, y>> \in before \/ <<y, x>> \in before
    <3>1. /\ Best(rows, x) \in Nat /\ Best(rows, y) \in Nat /\ x.index \in Nat /\ y.index \in Nat
          /\ Best(rows, x) # Best(rows, y) \/ x.index # y.index
      BY <1>4, <1>7, <1>8, <1>9, <2>3
    <3>2. \/ Best(rows, x) < Best(rows, y) \/ Best(rows, y) < Best(rows, x)
          \/ Best(rows, x) = Best(rows, y) /\ (x.index < y.index \/ y.index < x.index)
      BY <3>1
    <3>. QED BY <1>6, <3>2
  <2>. QED BY <2>1, <2>2, <2>3 DEF StrictOrder
<1>11. /\ order \in [1..n -> shown]
       /\ \A c \in shown : \E k \in 1..n : order[k] = c
       /\ \A i, j \in 1..n : i < j => <<order[i], order[j]>> \in before
  <2>1. InOrder(order, shown, before)
    BY <1>1, <1>5, <1>10, SortedIsInOrder
  <2>. QED BY <2>1 DEF InOrder
<1>. HIDE DEF n
<1>12. order \in Seq(shown) /\ Len(order) = n
  BY <1>1, <1>11
<1>13. \A i, j \in 1..n : order[i] = order[j] => i = j
  <2>. SUFFICES ASSUME NEW i \in 1..n, NEW j \in 1..n, order[i] = order[j], i # j PROVE FALSE
    OBVIOUS
  <2>1. i < j \/ j < i
    BY <1>1
  <2>2. order[i] \in shown
    BY <1>11
  <2>3. <<order[i], order[i]>> \in before
    BY <1>11, <2>1
  <2>. QED BY <1>10, <2>2, <2>3 DEF StrictOrder
<1>14. ASSUME NEW i \in 1..n, NEW j \in 1..n, i < j
       PROVE  /\ Best(rows, order[i]) <= Best(rows, order[j])
              /\ order[i].document = order[j].document => order[i].index < order[j].index
  <2>1. order[i] \in shown /\ order[j] \in shown /\ <<order[i], order[j]>> \in before
    BY <1>11, <1>14
  <2>. QED BY <1>6, <1>7, <1>8, <2>1
<1>15. ASSUME NEW i \in 1..n, NEW j \in 1..n, NEW k \in 1..n, i < j, j < k,
              order[i].document = order[k].document
       PROVE  order[i].document = order[j].document
  <2>1. order[i] \in shown /\ order[j] \in shown /\ order[k] \in shown
    BY <1>11
  <2>2. /\ Best(rows, order[i]) <= Best(rows, order[j])
        /\ Best(rows, order[j]) <= Best(rows, order[k])
        /\ Best(rows, order[i]) = Best(rows, order[k])
    BY <1>8, <1>14, <1>15, <2>1
  <2>3. Best(rows, order[i]) = Best(rows, order[j])
    BY <1>7, <2>1, <2>2
  <2>. QED BY <1>8, <2>1, <2>3
<1>16. ASSUME rows # <<>> PROVE n > 0 /\ order[1].document = rows[1].document
  <2>1. 1 \in 1..Len(rows) /\ rows[1] \in shown
    BY <1>16 DEF shown, Range
  <2>2. PICK k \in 1..n : order[k] = rows[1]
    BY <1>11, <2>1
  <2>3. n > 0 /\ 1 \in 1..n /\ k \in Nat
    BY <1>1, <2>2
  <2>4. CASE k = 1
    BY <2>2, <2>3, <2>4
  <2>5. CASE k # 1
    <3>1. 1 < k
      BY <2>3, <2>5
    <3>2. Best(rows, order[1]) <= Best(rows, rows[1])
      BY <1>14, <2>2, <2>3, <3>1
    <3>3. Best(rows, rows[1]) <= 1
      BY <1>3, <2>1
    <3>4. order[1] \in shown
      BY <1>11, <2>3
    <3>5. Best(rows, order[1]) \in 1..Len(rows) /\ Best(rows, rows[1]) \in Nat
      BY <1>3, <1>7, <2>1, <3>4
    <3>6. Best(rows, order[1]) = 1
      BY <3>2, <3>3, <3>5
    <3>. QED BY <1>3, <2>3, <3>4, <3>6
  <2>. QED BY <2>4, <2>5
<1>17. InReadingOrder(order, rows)
  BY <1>11, <1>12, <1>13, <1>14, <1>15, <1>16 DEF InReadingOrder, shown
<1>. QED BY <1>17 DEF order

-----------------------------------------------------------------------------
(* Runs of chunks that follow one another. *)

SomeOf(set) == {run \in Seq(set) : run # <<>>}

NextRun(runs, chunk) ==
    IF runs # <<>> /\ Follows(Last(Last(runs)), chunk)
       THEN [runs EXCEPT ![Len(runs)] = Append(@, chunk)]
       ELSE Append(runs, <<chunk>>)

\* The last run grows by the chunk that follows it.
Grows(runs, next, chunk) ==
    LET n == Len(runs)
        m == Len(runs[n])
    IN /\ n \in Nat \ {0} /\ m \in Nat \ {0} /\ Len(next) = n
       /\ \A i \in 1..(n - 1) : next[i] = runs[i]
       /\ Len(next[n]) = m + 1 /\ next[n][m + 1] = chunk
       /\ \A i \in 1..m : next[n][i] = runs[n][i]
       /\ Follows(runs[n][m], chunk)

\* A new run begins with the chunk that does not follow the last one.
Begun(runs, next, chunk) ==
    LET n == Len(runs)
    IN /\ n \in Nat /\ Len(next) = n + 1
       /\ \A i \in 1..n : next[i] = runs[i]
       /\ Len(next[n + 1]) = 1 /\ next[n + 1][1] = chunk
       /\ n > 0 => ~Follows(runs[n][Len(runs[n])], chunk)

LEMMA NextRunIs ==
    ASSUME NEW set, NEW runs \in Seq(SomeOf(set)), NEW chunk \in set
    PROVE  LET next == NextRun(runs, chunk)
           IN next \in Seq(SomeOf(set)) /\ (Grows(runs, next, chunk) \/ Begun(runs, next, chunk))
<1>. DEFINE next == NextRun(runs, chunk)
            n == Len(runs)
            S == SomeOf(set)
            last == runs[n]
            longer == Append(last, chunk)
            m == Len(last)
<1>1. n \in Nat /\ (n = 0 <=> runs = <<>>)
  OBVIOUS
<1>2. ASSUME n # 0 PROVE last \in S /\ last \in Seq(set) /\ m \in Nat \ {0}
  <2>1. runs[n] \in SomeOf(set)
    BY <1>1, <1>2
  <2>. QED BY <2>1 DEF SomeOf
<1>3. CASE n # 0 /\ Follows(last[m], chunk)
  <2>1. next = [runs EXCEPT ![n] = longer]
    BY <1>1, <1>3 DEF NextRun, Last
  <2>2. /\ longer \in Seq(set) /\ Len(longer) = m + 1 /\ longer[m + 1] = chunk
        /\ \A i \in 1..m : longer[i] = last[i]
    BY <1>2, <1>3
  <2>3. longer # <<>>
    BY <1>2, <1>3, <2>2
  <2>4. longer \in S
    BY <2>2, <2>3 DEF SomeOf
  <2>. HIDE DEF next, longer, S
  <2>5. runs \in Seq(S) /\ n \in 1..n
    BY <1>1, <1>3 DEF S
  <2>6. /\ next \in Seq(S) /\ Len(next) = n /\ next[n] = longer
        /\ \A i \in 1..(n - 1) : next[i] = runs[i]
    BY <1>1, <2>1, <2>4, <2>5
  <2>7. Grows(runs, next, chunk)
    BY <1>1, <1>2, <1>3, <2>2, <2>6 DEF Grows
  <2>. QED BY <2>6, <2>7 DEF S, next
<1>4. CASE ~(n # 0 /\ Follows(last[m], chunk))
  <2>1. next = Append(runs, <<chunk>>)
    BY <1>1, <1>4 DEF NextRun, Last
  <2>2. <<chunk>> \in S /\ Len(<<chunk>>) = 1 /\ <<chunk>>[1] = chunk
    BY DEF SomeOf
  <2>. DEFINE one == <<chunk>>
  <2>. HIDE DEF next, S, one
  <2>3. runs \in Seq(S) /\ one \in S
    BY <2>2 DEF S, one
  <2>4. /\ next \in Seq(S) /\ Len(next) = n + 1 /\ next[n + 1] = one
        /\ \A i \in 1..n : next[i] = runs[i]
    BY <1>1, <2>1, <2>3 DEF one
  <2>5. Begun(runs, next, chunk)
    BY <1>1, <1>4, <2>2, <2>4 DEF Begun, one
  <2>. QED BY <2>4, <2>5 DEF S, next
<1>. QED BY <1>3, <1>4

RunsOver(order) == FoldLeft(LAMBDA runs, chunk : NextRun(runs, chunk), <<>>, order)

LEMMA RunsAreOver == \A rows : Runs(rows) = RunsOver(ReadingOrder(rows))
BY DEF Runs, RunsOver, NextRun

\* One chunk after another.
LEMMA RunSteps ==
    ASSUME NEW set, NEW order \in Seq(set)
    PROVE  \E h : /\ h \in [0..Len(order) -> Seq(SomeOf(set))]
                  /\ h[0] = <<>>
                  /\ \A k \in 1..Len(order) : h[k] = NextRun(h[k - 1], order[k])
                  /\ h[Len(order)] = RunsOver(order)
<1>. DEFINE n == Len(order)
            B == Seq(SomeOf(set))
            g == [p \in B \X (1..n) |-> NextRun(p[1], order[p[2]])]
            Is(it) == it = [s \in SUBSET DOMAIN order |->
                               IF s = {} THEN <<>>
                               ELSE NextRun(it[s \ {Max(s)}], order[Max(s)])]
            f == CHOOSE it : Is(it)
<1>1. n \in Nat /\ DOMAIN order = 1..n /\ \A k \in 1..n : order[k] \in set
  BY LenProperties
<1>2. <<>> \in B /\ \A b \in B, x \in set : NextRun(b, x) \in B
  BY NextRunIs
<1>3. g \in [B \X (1..n) -> B]
  BY <1>1, <1>2
<1>4. PICK it \in [SUBSET (1..n) -> B] : Folding(it, 1..n, <<>>, g)
  BY <1>1, <1>2, <1>3, FoldingExists
<1>5. Is(it)
  <2>1. \A s \in SUBSET (1..n) : s # {} => Max(s) \in 1..n /\ s \ {Max(s)} \in SUBSET (1..n)
    BY <1>1, GreatestPlace
  <2>2. \A s \in SUBSET (1..n) : s # {} =>
           g[<<it[s \ {Max(s)}], Max(s)>>] = NextRun(it[s \ {Max(s)}], order[Max(s)])
    BY <2>1
  <2>. QED BY <1>1, <1>4, <2>2 DEF Folding
<1>6. Is(f)
  BY <1>5
<1>7. RunsOver(order) = f[1..n]
  BY <1>1 DEF RunsOver, FoldLeft, MapThenFoldSet
<1>. HIDE DEF f
<1>8. FoldsTo(f, n, B, <<>>, g)
  <2>1. f[{}] = <<>>
    BY <1>6
  <2>2. \A k \in 1..n : f[1..k] = NextRun(f[1..(k - 1)], order[k])
    <3>. TAKE k \in 1..n
    <3>1. k \in Nat \ {0} /\ 1..k \in SUBSET (1..n)
      BY <1>1
    <3>2. 1..k # {} /\ Max(1..k) = k /\ (1..k) \ {k} = 1..(k - 1)
      BY <3>1, Spans
    <3>3. f[1..k] = IF 1..k = {} THEN <<>> ELSE NextRun(f[(1..k) \ {Max(1..k)}], order[Max(1..k)])
      BY <1>1, <1>6, <3>1
    <3>. QED BY <3>2, <3>3
  <2>3. \A k \in 1..n : f[1..(k - 1)] \in B => f[1..k] = g[<<f[1..(k - 1)], k>>]
    BY <2>2
  <2>. HIDE DEF g, n, B
  <2>. QED BY <1>1, <1>2, <1>3, <2>1, <2>3 DEF FoldsTo
<1>9. \A k \in 1..n, b \in B : g[<<b, k>>] = NextRun(b, order[k])
  OBVIOUS
<1>. HIDE DEF g, B, n
<1>10. PICK h : Steps(h, n, B, <<>>, g) /\ h[n] = f[1..n]
  BY <1>8, StepsOfFolding
<1>11. h \in [0..n -> B] /\ h[0] = <<>> /\ \A k \in 1..n : h[k] = g[<<h[k - 1], k>>]
  BY <1>10 DEF Steps
<1>12. \A k \in 1..n : h[k] = NextRun(h[k - 1], order[k])
  <2>1. \A k \in 1..n : h[k - 1] \in B
    BY <1>1, <1>11
  <2>. QED BY <1>9, <1>11, <2>1
<1>. QED BY <1>7, <1>10, <1>11, <1>12 DEF B, n


\* The runs are the first k chunks in their order: run i stands after the first at[i] of them.
RunsAt(runs, at, order, k) ==
    /\ at \in [1..Len(runs) -> Nat]
    /\ \A i \in 1..Len(runs) :
          /\ at[i] + Len(runs[i]) <= k
          /\ \A m \in 1..Len(runs[i]) : runs[i][m] = order[at[i] + m]
          /\ \A m \in 1..(Len(runs[i]) - 1) : Follows(runs[i][m], runs[i][m + 1])
    /\ \A i, j \in 1..Len(runs) : i < j => at[i] + Len(runs[i]) <= at[j]
    /\ \A p \in 1..k : \E i \in 1..Len(runs) : \E m \in 1..Len(runs[i]) : p = at[i] + m
    /\ \A i \in 1..(Len(runs) - 1) : /\ at[i + 1] = at[i] + Len(runs[i])
                                     /\ ~Follows(runs[i][Len(runs[i])], runs[i + 1][1])
    /\ Len(runs) > 0 => at[Len(runs)] + Len(runs[Len(runs)]) = k
    /\ Len(runs) = 0 => k = 0

LEMMA RunGrows ==
    ASSUME NEW set, NEW runs \in Seq(SomeOf(set)), NEW next \in Seq(SomeOf(set)), NEW order, NEW k \in Nat,
           NEW at, RunsAt(runs, at, order, k), Grows(runs, next, order[k + 1])
    PROVE  RunsAt(next, at, order, k + 1)
<1>. DEFINE n == Len(runs)
            m == Len(runs[n])
            size(i) == Len(runs[i])
<1>1. /\ n \in Nat \ {0} /\ m \in Nat \ {0} /\ Len(next) = n
      /\ \A i \in 1..(n - 1) : next[i] = runs[i]
      /\ Len(next[n]) = m + 1 /\ next[n][m + 1] = order[k + 1]
      /\ \A i \in 1..m : next[n][i] = runs[n][i]
      /\ Follows(runs[n][m], order[k + 1])
  BY DEF Grows
<1>2. at[n] + m = k /\ at \in [1..n -> Nat] /\ at[n] \in Nat
  BY <1>1 DEF RunsAt
<1>11. at[n] + (m + 1) = k + 1 /\ m + 1 \in 1..(m + 1)
  <2>. DEFINE a == at[n]
  <2>1. a \in Nat /\ m \in Nat \ {0} /\ a + m = k
    BY <1>1, <1>2
  <2>. HIDE DEF a, m
  <2>2. a + (m + 1) = k + 1 /\ m + 1 \in 1..(m + 1)
    BY <2>1
  <2>. QED BY <2>2 DEF a
<1>3. \A i \in 1..n : size(i) \in Nat \ {0}
  <2>. TAKE i \in 1..n
  <2>1. runs[i] \in SomeOf(set)
    OBVIOUS
  <2>. QED BY <2>1 DEF SomeOf
<1>4. \A i \in 1..n : i \in 1..(n - 1) \/ i = n
  BY <1>1
<1>5. n \in 1..n /\ \A i \in 1..(n - 1) : i \in 1..n /\ i + 1 \in 1..n /\ i # n
  BY <1>1
<1>6. ASSUME NEW i \in 1..n
      PROVE  /\ at[i] + Len(next[i]) <= k + 1
             /\ \A l \in 1..Len(next[i]) : next[i][l] = order[at[i] + l]
             /\ \A l \in 1..(Len(next[i]) - 1) : Follows(next[i][l], next[i][l + 1])
  <2>1. /\ at[i] + size(i) <= k
        /\ \A l \in 1..size(i) : runs[i][l] = order[at[i] + l]
        /\ \A l \in 1..(size(i) - 1) : Follows(runs[i][l], runs[i][l + 1])
    BY DEF RunsAt
  <2>2. CASE i \in 1..(n - 1)
    <3>1. next[i] = runs[i] /\ Len(next[i]) = size(i)
      BY <1>1, <2>2
    <3>2. at[i] \in Nat /\ size(i) \in Nat
      BY <1>2, <1>3
    <3>3. at[i] + size(i) <= k + 1
      BY <2>1, <3>2
    <3>. HIDE DEF size
    <3>. QED BY <2>1, <3>1, <3>3
  <2>3. CASE i = n
    <3>1. \A l \in 1..m : runs[n][l] = order[at[n] + l]
      BY <2>1, <2>3
    <3>2. \A l \in 1..(m - 1) : Follows(runs[n][l], runs[n][l + 1])
      BY <2>1, <2>3
    <3>. HIDE DEF n, m
    <3>3. \A l \in 1..(m + 1) : l \in 1..m \/ l = m + 1
      BY <1>1
    <3>4. at[n] + (m + 1) = k + 1
      BY <1>11
    <3>5. \A l \in 1..(m + 1) : next[n][l] = order[at[n] + l]
      BY <1>1, <3>1, <3>3, <3>4
    <3>6. \A l \in 1..m : l \in 1..(m - 1) \/ l = m
      BY <1>1
    <3>7. \A l \in 1..(m - 1) : l \in 1..m /\ l + 1 \in 1..m
      BY <1>1
    <3>8. m \in 1..m
      BY <1>1
    <3>9. \A l \in 1..m : Follows(next[n][l], next[n][l + 1])
      <4>. TAKE l \in 1..m
      <4>1. CASE l \in 1..(m - 1)
        BY <1>1, <3>2, <3>7, <4>1
      <4>2. CASE l = m
        BY <1>1, <3>8, <4>2
      <4>. QED BY <3>6, <4>1, <4>2
    <3>10. (m + 1) - 1 = m /\ at[n] + Len(next[n]) <= k + 1
      BY <1>1, <3>4
    <3>. QED BY <1>1, <2>3, <3>5, <3>9, <3>10
  <2>. QED BY <1>4, <2>2, <2>3
<1>7. ASSUME NEW i \in 1..n, NEW j \in 1..n, i < j PROVE at[i] + Len(next[i]) <= at[j]
  <2>1. i \in 1..(n - 1)
    BY <1>1, <1>7
  <2>2. next[i] = runs[i]
    BY <1>1, <2>1
  <2>. QED BY <1>7, <2>2 DEF RunsAt
<1>8. ASSUME NEW p \in 1..(k + 1)
      PROVE  \E i \in 1..n : \E l \in 1..Len(next[i]) : p = at[i] + l
  <2>1. CASE p \in 1..k
    <3>1. PICK i \in 1..n : \E l \in 1..size(i) : p = at[i] + l
      BY <2>1 DEF RunsAt
    <3>2. size(i) \in Nat /\ 1..size(i) \subseteq 1..Len(next[i])
      <4>1. CASE i \in 1..(n - 1)
        BY <1>1, <4>1
      <4>2. CASE i = n
        <5>1. m \in Nat /\ size(i) = m /\ Len(next[i]) = m + 1
          BY <1>1, <4>2
        <5>. HIDE DEF m, size
        <5>. QED BY <5>1
      <4>. QED BY <1>3, <1>4, <4>1, <4>2
    <3>. HIDE DEF size
    <3>. QED BY <3>1, <3>2
  <2>2. CASE p = k + 1
    <3>1. p = at[n] + (m + 1) /\ m + 1 \in 1..Len(next[n])
      BY <1>1, <1>11, <2>2
    <3>. QED BY <1>5, <3>1
  <2>3. p \in 1..k \/ p = k + 1
    OBVIOUS
  <2>. QED BY <2>1, <2>2, <2>3
<1>9. ASSUME NEW i \in 1..(n - 1)
      PROVE  at[i + 1] = at[i] + Len(next[i]) /\ ~Follows(next[i][Len(next[i])], next[i + 1][1])
  <2>1. at[i + 1] = at[i] + size(i) /\ ~Follows(runs[i][size(i)], runs[i + 1][1])
    BY DEF RunsAt
  <2>2. next[i] = runs[i]
    BY <1>1
  <2>3. next[i + 1][1] = runs[i + 1][1]
    <3>1. 1 \in 1..m
      BY <1>1
    <3>2. i + 1 \in 1..(n - 1) \/ i + 1 = n
      BY <1>4, <1>5
    <3>. QED BY <1>1, <3>1, <3>2
  <2>. QED BY <2>1, <2>2, <2>3
<1>10. at[n] + Len(next[n]) = k + 1 /\ Len(next) > 0
  BY <1>1, <1>11
<1>. HIDE DEF n, m
<1>. QED BY <1>1, <1>2, <1>6, <1>7, <1>8, <1>9, <1>10 DEF RunsAt

LEMMA RunBegins ==
    ASSUME NEW set, NEW runs \in Seq(SomeOf(set)), NEW next \in Seq(SomeOf(set)), NEW order, NEW k \in Nat,
           NEW at, RunsAt(runs, at, order, k), Begun(runs, next, order[k + 1])
    PROVE  \E after : RunsAt(next, after, order, k + 1)
<1>. DEFINE n == Len(runs)
            size(i) == Len(runs[i])
            after == [i \in 1..(n + 1) |-> IF i <= n THEN at[i] ELSE k]
<1>1. /\ n \in Nat /\ Len(next) = n + 1
      /\ \A i \in 1..n : next[i] = runs[i]
      /\ Len(next[n + 1]) = 1 /\ next[n + 1][1] = order[k + 1]
      /\ n > 0 => ~Follows(runs[n][Len(runs[n])], order[k + 1])
  BY DEF Begun
<1>2. at \in [1..n -> Nat] /\ (n > 0 => at[n] + size(n) = k)
  BY DEF RunsAt
<1>3. \A i \in 1..n : size(i) \in Nat \ {0}
  <2>. TAKE i \in 1..n
  <2>1. runs[i] \in SomeOf(set)
    OBVIOUS
  <2>. QED BY <2>1 DEF SomeOf
<1>4. \A i \in 1..(n + 1) : i \in 1..n \/ i = n + 1
  BY <1>1
<1>5. n + 1 \in 1..(n + 1) /\ \A i \in 1..n : i \in 1..(n + 1) /\ i # n + 1 /\ i <= n
  BY <1>1
<1>6. /\ after \in [1..(n + 1) -> Nat]
      /\ \A i \in 1..n : after[i] = at[i]
      /\ after[n + 1] = k
  <2>1. ~(n + 1 <= n)
    BY <1>1
  <2>. QED BY <1>2, <1>4, <1>5, <2>1
<1>. HIDE DEF after
<1>7. ASSUME NEW i \in 1..(n + 1)
      PROVE  /\ after[i] + Len(next[i]) <= k + 1
             /\ \A l \in 1..Len(next[i]) : next[i][l] = order[after[i] + l]
             /\ \A l \in 1..(Len(next[i]) - 1) : Follows(next[i][l], next[i][l + 1])
  <2>1. CASE i \in 1..n
    <3>1. /\ at[i] + size(i) <= k
          /\ \A l \in 1..size(i) : runs[i][l] = order[at[i] + l]
          /\ \A l \in 1..(size(i) - 1) : Follows(runs[i][l], runs[i][l + 1])
      BY <2>1 DEF RunsAt
    <3>2. next[i] = runs[i] /\ Len(next[i]) = size(i) /\ after[i] = at[i]
      BY <1>1, <1>6, <2>1
    <3>3. at[i] \in Nat /\ size(i) \in Nat
      BY <1>2, <1>3, <2>1
    <3>4. at[i] + size(i) <= k + 1
      BY <3>1, <3>3
    <3>. HIDE DEF size
    <3>. QED BY <3>1, <3>2, <3>4
  <2>2. CASE i = n + 1
    <3>1. after[i] = k /\ Len(next[i]) = 1 /\ next[i][1] = order[k + 1]
      BY <1>1, <1>6, <2>2
    <3>2. 1..1 = {1} /\ 1..(1 - 1) = {}
      OBVIOUS
    <3>. QED BY <3>1, <3>2
  <2>. QED BY <1>4, <2>1, <2>2
<1>8. ASSUME NEW i \in 1..(n + 1), NEW j \in 1..(n + 1), i < j PROVE after[i] + Len(next[i]) <= after[j]
  <2>1. i \in 1..n
    BY <1>1, <1>8
  <2>2. next[i] = runs[i] /\ after[i] = at[i]
    BY <1>1, <1>6, <2>1
  <2>3. CASE j \in 1..n
    BY <1>6, <1>8, <2>1, <2>2, <2>3 DEF RunsAt
  <2>4. CASE j = n + 1
    BY <1>6, <2>1, <2>2, <2>4 DEF RunsAt
  <2>. QED BY <1>4, <2>3, <2>4
<1>9. ASSUME NEW p \in 1..(k + 1)
      PROVE  \E i \in 1..(n + 1) : \E l \in 1..Len(next[i]) : p = after[i] + l
  <2>1. CASE p \in 1..k
    <3>1. PICK i \in 1..n : \E l \in 1..size(i) : p = at[i] + l
      BY <2>1 DEF RunsAt
    <3>2. size(i) = Len(next[i]) /\ after[i] = at[i] /\ i \in 1..(n + 1)
      BY <1>1, <1>5, <1>6
    <3>. HIDE DEF size
    <3>. QED BY <3>1, <3>2
  <2>2. CASE p = k + 1
    <3>1. p = after[n + 1] + 1 /\ 1 \in 1..Len(next[n + 1])
      BY <1>1, <1>6, <2>2
    <3>. QED BY <1>5, <3>1
  <2>3. p \in 1..k \/ p = k + 1
    OBVIOUS
  <2>. QED BY <2>1, <2>2, <2>3
<1>10. ASSUME NEW i \in 1..n
       PROVE  after[i + 1] = after[i] + Len(next[i]) /\ ~Follows(next[i][Len(next[i])], next[i + 1][1])
  <2>1. next[i] = runs[i] /\ after[i] = at[i]
    BY <1>1, <1>6
  <2>2. CASE i \in 1..(n - 1)
    <3>1. at[i + 1] = at[i] + size(i) /\ ~Follows(runs[i][size(i)], runs[i + 1][1])
      BY <2>2 DEF RunsAt
    <3>2. i + 1 \in 1..n
      BY <1>1, <2>2
    <3>3. next[i + 1] = runs[i + 1] /\ after[i + 1] = at[i + 1]
      BY <1>1, <1>6, <3>2
    <3>. QED BY <2>1, <3>1, <3>3
  <2>3. CASE i = n
    <3>1. n > 0
      BY <1>1
    <3>. QED BY <1>1, <1>2, <1>6, <2>1, <2>3, <3>1
  <2>4. i \in 1..(n - 1) \/ i = n
    BY <1>1
  <2>. QED BY <2>2, <2>3, <2>4
<1>11. after[n + 1] + Len(next[n + 1]) = k + 1 /\ (n + 1) - 1 = n /\ n + 1 # 0
  BY <1>1, <1>6
<1>. HIDE DEF n
<1>12. RunsAt(next, after, order, k + 1)
  <2>1. Len(next) = n + 1 /\ Len(next) - 1 = n /\ Len(next) # 0
    BY <1>1, <1>11
  <2>2. after \in [1..Len(next) -> Nat]
    BY <1>6, <2>1
  <2>3. \A i \in 1..Len(next) :
           /\ after[i] + Len(next[i]) <= k + 1
           /\ \A m \in 1..Len(next[i]) : next[i][m] = order[after[i] + m]
           /\ \A m \in 1..(Len(next[i]) - 1) : Follows(next[i][m], next[i][m + 1])
    BY <1>7, <2>1
  <2>4. \A i, j \in 1..Len(next) : i < j => after[i] + Len(next[i]) <= after[j]
    BY <1>8, <2>1
  <2>5. ASSUME NEW p \in 1..(k + 1) PROVE \E i \in 1..Len(next) : \E m \in 1..Len(next[i]) : p = after[i] + m
    <3>1. PICK i \in 1..(n + 1) : \E m \in 1..Len(next[i]) : p = after[i] + m
      BY <1>9
    <3>. QED BY <2>1, <3>1
  <2>6. \A i \in 1..(Len(next) - 1) : /\ after[i + 1] = after[i] + Len(next[i])
                                      /\ ~Follows(next[i][Len(next[i])], next[i + 1][1])
    BY <1>10, <2>1
  <2>7. after[Len(next)] + Len(next[Len(next)]) = k + 1
    BY <1>11, <2>1
  <2>. QED BY <2>1, <2>2, <2>3, <2>4, <2>5, <2>6, <2>7 DEF RunsAt
<1>. QED BY <1>12

LEMMA RunsAre ==
    ASSUME NEW set, NEW order \in Seq(set)
    PROVE  /\ RunsOver(order) \in Seq(SomeOf(set))
           /\ \E at : RunsAt(RunsOver(order), at, order, Len(order))
<1>. DEFINE n == Len(order)
<1>1. PICK h : /\ h \in [0..n -> Seq(SomeOf(set))]
               /\ h[0] = <<>>
               /\ \A k \in 1..n : h[k] = NextRun(h[k - 1], order[k])
               /\ h[n] = RunsOver(order)
  BY RunSteps
<1>2. n \in Nat /\ \A k \in 1..n : order[k] \in set
  OBVIOUS
<1>. DEFINE Good(k) == \E at : RunsAt(h[k], at, order, k)
            T == {k \in 0..n : Good(k)}
<1>3. Good(0)
  <2>1. Len(<<>>) = 0 /\ <<>> \in [1..0 -> Nat]
    OBVIOUS
  <2>2. RunsAt(<<>>, <<>>, order, 0)
    BY <2>1 DEF RunsAt
  <2>. QED BY <1>1, <2>2
<1>. HIDE DEF n
<1>4. ASSUME NEW k \in 0..(n - 1), Good(k) PROVE Good(k + 1)
  <2>1. k \in Nat /\ k \in 0..n /\ k + 1 \in 1..n /\ k + 1 \in 0..n /\ (k + 1) - 1 = k
    BY <1>2
  <2>2. /\ h[k] \in Seq(SomeOf(set)) /\ h[k + 1] \in Seq(SomeOf(set))
        /\ h[k + 1] = NextRun(h[k], order[k + 1]) /\ order[k + 1] \in set
    BY <1>1, <1>2, <2>1
  <2>3. Grows(h[k], h[k + 1], order[k + 1]) \/ Begun(h[k], h[k + 1], order[k + 1])
    <3>1. LET next == NextRun(h[k], order[k + 1])
          IN Grows(h[k], next, order[k + 1]) \/ Begun(h[k], next, order[k + 1])
      BY <2>2, NextRunIs
    <3>. QED BY <2>2, <3>1
  <2>4. PICK at : RunsAt(h[k], at, order, k)
    BY <1>4
  <2>5. CASE Grows(h[k], h[k + 1], order[k + 1])
    BY <2>1, <2>2, <2>4, <2>5, RunGrows
  <2>6. CASE Begun(h[k], h[k + 1], order[k + 1])
    BY <2>1, <2>2, <2>4, <2>6, RunBegins
  <2>. QED BY <2>3, <2>5, <2>6
<1>5. 0 \in T /\ \A k \in 0..(n - 1) : k \in T => k + 1 \in T
  <2>1. 0 \in 0..n /\ \A k \in 0..(n - 1) : k + 1 \in 0..n
    BY <1>2
  <2>. HIDE DEF Good
  <2>. QED BY <1>3, <1>4, <2>1
<1>6. n \in T
  <2>1. n \in 0..n
    BY <1>2
  <2>. HIDE DEF T
  <2>. QED BY <1>2, <1>5, <2>1, InductionUpTo
<1>7. Good(n) /\ h[n] \in Seq(SomeOf(set))
  <2>1. n \in 0..n
    BY <1>2
  <2>. HIDE DEF Good
  <2>. QED BY <1>1, <1>6, <2>1
<1>. QED BY <1>1, <1>7 DEF n

-----------------------------------------------------------------------------
(* Stitching. *)

Letters == (Vocabulary \cup {Or}) \X Int

LEMMA CharactersAre == \A units \in Seq(Units) : Characters(units) \in Seq(Letters)
<1>. TAKE units \in Seq(Units)
<1>. DEFINE letters(i) == [n \in 1..(units[i].to - units[i].from) |-> <<units[i].word, units[i].from + n>>]
            gaps(i) == [n \in 1..Separator[units[i].ends] |-> <<Or, 0>>]
            parts == [i \in 1..Len(units) |-> letters(i) \o gaps(i)]
            S == Seq(Letters)
<1>1. ASSUME NEW i \in 1..Len(units) PROVE letters(i) \o gaps(i) \in S
  <2>. DEFINE unit == units[i]
              a == unit.to - unit.from
              b == Separator[unit.ends]
  <2>1. unit \in Units
    OBVIOUS
  <2>. HIDE DEF unit
  <2>2. a \in Nat /\ b \in Nat /\ unit.word \in Vocabulary /\ unit.from \in Nat
    BY <2>1, SMTT(30) DEF Units, Separator
  <2>3. \A n \in 1..a : <<unit.word, unit.from + n>> \in Letters
    <3>. TAKE n \in 1..a
    <3>1. unit.from + n \in Int
      BY <2>2
    <3>. QED BY <2>2, <3>1 DEF Letters
  <2>4. <<Or, 0>> \in Letters
    BY DEF Letters
  <2>. HIDE DEF a, b
  <2>5. [n \in 1..a |-> <<unit.word, unit.from + n>>] \in Seq(Letters)
    BY <2>2, <2>3
  <2>6. [n \in 1..b |-> <<Or, 0>>] \in Seq(Letters)
    BY <2>2, <2>4
  <2>7. [n \in 1..a |-> <<unit.word, unit.from + n>>] \o [n \in 1..b |-> <<Or, 0>>] \in Seq(Letters)
    BY <2>5, <2>6, Joined
  <2>. QED BY <2>7 DEF unit, a, b
<1>2. Len(units) \in Nat
  OBVIOUS
<1>3. parts \in Seq(S) /\ Characters(units) = FlattenSeq(parts)
  <2>1. Characters(units) = FlattenSeq(parts)
    BY DEF Characters
  <2>. HIDE DEF letters, gaps, S
  <2>2. parts \in Seq(S)
    BY <1>1, <1>2
  <2>. QED BY <2>1, <2>2
<1>. HIDE DEF parts
<1>. QED BY <1>3, Flattened

\* A text holds what stands in it.
LEMMA HoldsAt ==
    ASSUME NEW A, NEW text \in Seq(A), NEW part \in Seq(A), NEW at \in Nat, at + Len(part) <= Len(text),
           \A k \in 1..Len(part) : text[at + k] = part[k]
    PROVE  Holds(text, part)
<1>. DEFINE n == Len(part)
            m == Len(text)
            i == at + 1
            j == i + n - 1
            found_ == SubSeq(text, i, j)
<1>1. n \in Nat /\ m \in Nat
  OBVIOUS
<1>2. i \in Nat \ {0} /\ j \in Int /\ j <= m /\ i \in 1..(m - n + 1) /\ j = at + n
  BY <1>1
<1>3. (IF i <= j THEN j - i + 1 ELSE 0) = n /\ \A k \in 1..n : i + k - 1 = at + k
  BY <1>1
<1>. HIDE DEF n, m, i, j
<1>4. /\ found_ \in Seq(A)
      /\ Len(found_) = IF i <= j THEN j - i + 1 ELSE 0
      /\ \A k \in 1..Len(found_) : found_[k] = text[i + k - 1]
  BY <1>2, Stretch DEF m
<1>. HIDE DEF found_
<1>5. Len(found_) = n /\ \A k \in 1..n : found_[k] = part[k]
  <2>1. Len(found_) = n
    BY <1>3, <1>4
  <2>2. ASSUME NEW k \in 1..n PROVE found_[k] = part[k]
    <3>1. found_[k] = text[i + k - 1]
      BY <1>4, <2>1
    <3>2. i + k - 1 = at + k
      BY <1>3
    <3>. QED BY <1>3, <3>1, <3>2 DEF n
  <2>. QED BY <2>1, <2>2
<1>6. found_ = part
  BY <1>4, <1>5 DEF n
<1>. QED BY <1>2, <1>6 DEF Holds, found_, n, m, i, j

StandsAfter(text, at, part) ==
    /\ at \in Nat /\ at + Len(part) <= Len(text)
    /\ \A k \in 1..Len(part) : text[at + k] = part[k]

LEMMA HoldsFrom ==
    ASSUME NEW A, NEW text \in Seq(A), NEW part \in Seq(A), Holds(text, part)
    PROVE  \E at : StandsAfter(text, at, part)
<1>. DEFINE n == Len(part)
            m == Len(text)
<1>1. n \in Nat /\ m \in Nat
  OBVIOUS
<1>2. PICK i \in 1..(m - n + 1) : SubSeq(text, i, i + n - 1) = part
  BY DEF Holds
<1>. DEFINE at == i - 1
            j == i + n - 1
<1>3. /\ i \in Nat \ {0} /\ j \in Int /\ j <= m
      /\ at \in Nat /\ at + n <= m /\ \A k \in 1..n : i + k - 1 = at + k
  BY <1>1, <1>2
<1>. HIDE DEF n, m, j, at
<1>4. \A k \in 1..Len(SubSeq(text, i, j)) : SubSeq(text, i, j)[k] = text[i + k - 1]
  BY <1>3, Stretch DEF m
<1>5. \A k \in 1..n : part[k] = text[at + k]
  BY <1>2, <1>3, <1>4 DEF n, j
<1>6. StandsAfter(text, at, part)
  BY <1>3, <1>5 DEF n, m, StandsAfter
<1>. QED BY <1>6

LEMMA HoldsItself == \A A : \A text \in Seq(A) : Holds(text, text)
<1>. TAKE A
<1>. TAKE text \in Seq(A)
<1>1. 0 \in Nat /\ 0 + Len(text) <= Len(text) /\ \A k \in 1..Len(text) : 0 + k = k
  OBVIOUS
<1>. QED BY <1>1, HoldsAt

LEMMA StillHolds ==
    ASSUME NEW A, NEW text \in Seq(A), NEW more \in Seq(A), NEW part \in Seq(A), Holds(text, part)
    PROVE  Holds(text \o more, part)
<1>. DEFINE longer == text \o more
<1>1. longer \in Seq(A) /\ Len(longer) = Len(text) + Len(more) /\ \A i \in 1..Len(text) : longer[i] = text[i]
  BY Joined
<1>. HIDE DEF longer
<1>2. PICK at \in Nat : at + Len(part) <= Len(text) /\ \A k \in 1..Len(part) : text[at + k] = part[k]
  <2>1. PICK at : StandsAfter(text, at, part)
    BY HoldsFrom
  <2>. QED BY <2>1 DEF StandsAfter
<1>3. Len(text) \in Nat /\ Len(more) \in Nat /\ Len(part) \in Nat
  OBVIOUS
<1>4. at + Len(part) <= Len(longer) /\ \A k \in 1..Len(part) : at + k \in 1..Len(text)
  BY <1>1, <1>2, <1>3
<1>5. \A k \in 1..Len(part) : longer[at + k] = part[k]
  BY <1>1, <1>2, <1>4
<1>6. Holds(longer, part)
  BY <1>1, <1>4, <1>5, HoldsAt
<1>. QED BY <1>6 DEF longer

LEMMA SuffixIs ==
    ASSUME NEW A, NEW s \in Seq(A), NEW t \in Seq(A), IsSuffix(s, t)
    PROVE  Len(s) <= Len(t) /\ \A i \in 1..Len(s) : s[i] = t[Len(t) - Len(s) + i]
<1>. DEFINE n == Len(s)
            m == Len(t)
            rs == Reverse(s)
            rt == Reverse(t)
<1>1. n \in Nat /\ m \in Nat
  OBVIOUS
<1>2. rs \in Seq(A) /\ Len(rs) = n /\ \A i \in 1..n : rs[i] = s[(n - i) + 1]
  <2>1. \A i \in 1..n : (n - i) + 1 \in 1..n
    BY <1>1
  <2>2. \A i \in 1..n : s[(n - i) + 1] \in A
    BY <2>1
  <2>3. rs = [i \in 1..n |-> s[(n - i) + 1]]
    BY DEF Reverse
  <2>. HIDE DEF n, rs
  <2>. QED BY <1>1, <2>2, <2>3
<1>3. rt \in Seq(A) /\ Len(rt) = m /\ \A i \in 1..m : rt[i] = t[(m - i) + 1]
  <2>1. \A i \in 1..m : (m - i) + 1 \in 1..m
    BY <1>1
  <2>2. \A i \in 1..m : t[(m - i) + 1] \in A
    BY <2>1
  <2>3. rt = [i \in 1..m |-> t[(m - i) + 1]]
    BY DEF Reverse
  <2>. HIDE DEF m, rt
  <2>. QED BY <1>1, <2>2, <2>3
<1>4. Len(rs) <= Len(rt) /\ SubSeq(rs, 1, Len(rs)) = SubSeq(rt, 1, Len(rs))
  BY DEF IsSuffix, IsPrefix
<1>. HIDE DEF rs, rt, n, m
<1>5. n <= m /\ SubSeq(rs, 1, n) = SubSeq(rt, 1, n)
  BY <1>2, <1>3, <1>4
<1>6. \A i \in 1..n : rs[i] = rt[i]
  <2>1. \A i \in 1..n : SubSeq(rs, 1, n)[i] = rs[i]
    BY <1>1, <1>2, Beginning
  <2>2. \A i \in 1..n : SubSeq(rt, 1, n)[i] = rt[i]
    BY <1>1, <1>3, <1>5, Beginning
  <2>. QED BY <1>5, <2>1, <2>2
<1>7. ASSUME NEW i \in 1..n PROVE s[i] = t[m - n + i]
  <2>. DEFINE j == (n - i) + 1
  <2>1. j \in 1..n /\ j \in 1..m /\ (n - j) + 1 = i /\ (m - j) + 1 = m - n + i
    BY <1>1, <1>5
  <2>. HIDE DEF j
  <2>2. rs[j] = s[i] /\ rs[j] = rt[j]
    BY <1>2, <1>6, <2>1
  <2>3. rt[j] = t[m - n + i]
    BY <1>3, <2>1
  <2>. QED BY <2>2, <2>3
<1>. QED BY <1>5, <1>7 DEF n, m

LEMMA OverlapIs ==
    ASSUME NEW A, NEW text \in Seq(A), NEW following \in Seq(A)
    PROVE  LET shared == Overlap(text, following)
           IN /\ shared \in Nat
              /\ shared # 0 => /\ shared <= Len(following) /\ shared <= Len(text)
                               /\ \A k \in 1..shared : following[k] = text[Len(text) - shared + k]
<1>. DEFINE n == Len(following)
            m == Len(text)
            least == Min({m, n})
            T == {0} \cup {k \in MinOverlap..least : IsSuffix(SubSeq(following, 1, k), text)}
            shared == Overlap(text, following)
<1>1. n \in Nat /\ m \in Nat
  OBVIOUS
<1>2. least = IF m <= n THEN m ELSE n
  BY <1>1, LesserOf
<1>3. least \in Nat /\ least <= m /\ least <= n
  BY <1>1, <1>2
<1>4. shared = Max(T)
  BY DEF Overlap
<1>. HIDE DEF least, shared
<1>5. T # {} /\ \A k \in T : k \in Int /\ k <= least
  BY <1>3, ContextSettings
<1>6. Max(T) \in T
  <2>1. least \in Int
    BY <1>3
  <2>. HIDE DEF T
  <2>. QED BY <1>5, <2>1, GreatestIs
<1>7. shared = 0 \/ (shared \in MinOverlap..least /\ IsSuffix(SubSeq(following, 1, shared), text))
  BY <1>4, <1>6
<1>8. shared \in Nat /\ shared <= least
  BY <1>3, <1>7, ContextSettings
<1>9. ASSUME shared # 0 PROVE \A k \in 1..shared : following[k] = text[m - shared + k]
  <2>. DEFINE part == SubSeq(following, 1, shared)
  <2>1. shared <= n /\ shared <= m
    BY <1>1, <1>3, <1>8
  <2>2. part \in Seq(A) /\ Len(part) = shared /\ \A k \in 1..shared : part[k] = following[k]
    BY <1>8, <2>1, Beginning
  <2>3. IsSuffix(part, text)
    BY <1>7, <1>9
  <2>. HIDE DEF part
  <2>4. \A k \in 1..Len(part) : part[k] = text[Len(text) - Len(part) + k]
    BY <2>2, <2>3, SuffixIs
  <2>. QED BY <2>2, <2>4
<1>10. shared <= n /\ shared <= m
  BY <1>1, <1>3, <1>8
<1>. QED BY <1>8, <1>9, <1>10 DEF shared

StitchOn(text, chunk) ==
    LET following == Characters(chunk.content)
        shared == Overlap(text, following)
    IN IF shared = 0 THEN text \o Newline \o following
                     ELSE text \o SubSeq(following, shared + 1, Len(following))

LEMMA StitchOnIs ==
    ASSUME NEW text \in Seq(Letters), NEW chunk, chunk.content \in Seq(Units)
    PROVE  LET next == StitchOn(text, chunk)
           IN /\ next \in Seq(Letters)
              /\ Holds(next, Characters(chunk.content))
              /\ \A part \in Seq(Letters) : Holds(text, part) => Holds(next, part)
<1>. DEFINE following == Characters(chunk.content)
            shared == Overlap(text, following)
            rest == SubSeq(following, shared + 1, Len(following))
            next == StitchOn(text, chunk)
<1>1. following \in Seq(Letters)
  BY CharactersAre
<1>2. next = IF shared = 0 THEN text \o Newline \o following ELSE text \o rest
  BY DEF StitchOn
<1>. HIDE DEF following, next
<1>3. /\ shared \in Nat
      /\ shared # 0 => /\ shared <= Len(following) /\ shared <= Len(text)
                       /\ \A k \in 1..shared : following[k] = text[Len(text) - shared + k]
  BY <1>1, OverlapIs
<1>. HIDE DEF shared, rest
<1>4. CASE shared = 0
  <2>1. Newline \in Seq(Letters)
    BY DEF Newline, Letters
  <2>. DEFINE before == text \o Newline
  <2>2. before \in Seq(Letters)
    BY <2>1, Joined
  <2>. HIDE DEF before
  <2>3. /\ before \o following \in Seq(Letters)
        /\ Len(before \o following) = Len(before) + Len(following)
        /\ \A i \in 1..Len(following) : (before \o following)[Len(before) + i] = following[i]
    BY <1>1, <2>2, Joined
  <2>4. next = before \o following
    BY <1>2, <1>4 DEF before
  <2>5. Len(before) \in Nat /\ Len(before) + Len(following) <= Len(next)
    BY <1>1, <2>2, <2>3, <2>4
  <2>6. Holds(next, following)
    BY <1>1, <2>3, <2>4, <2>5, HoldsAt
  <2>7. ASSUME NEW part \in Seq(Letters), Holds(text, part) PROVE Holds(next, part)
    <3>1. Holds(before, part)
      BY <2>1, <2>7, StillHolds DEF before
    <3>2. Holds(before \o following, part)
      BY <1>1, <2>2, <3>1, StillHolds
    <3>. QED BY <2>4, <3>2
  <2>. QED BY <2>3, <2>4, <2>6, <2>7 DEF next, following
<1>5. CASE shared # 0
  <2>. DEFINE n == Len(following)
              m == Len(text)
              a == shared + 1
              at == m - shared
  <2>0. n \in Nat /\ m \in Nat /\ shared \in Nat \ {0} /\ shared <= n /\ shared <= m
    BY <1>1, <1>3, <1>5
  <2>1. a \in Nat \ {0} /\ n \in Int /\ n <= n
    BY <2>0
  <2>2. next = text \o rest
    BY <1>2, <1>5
  <2>. HIDE DEF a, n
  <2>3. LET part == SubSeq(following, a, n)
        IN /\ part \in Seq(Letters)
           /\ Len(part) = IF a <= n THEN n - a + 1 ELSE 0
           /\ \A i \in 1..Len(part) : part[i] = following[a + i - 1] /\ a + i - 1 \in 1..Len(following)
    <3>1. n <= Len(following)
      BY <2>0 DEF n
    <3>. QED BY <1>1, <2>1, <3>1, Stretch
  <2>4. rest = SubSeq(following, a, n)
    BY DEF rest, a, n
  <2>5. (IF a <= n THEN n - a + 1 ELSE 0) = n - shared
    BY <2>0 DEF a
  <2>6. /\ rest \in Seq(Letters) /\ Len(rest) = n - shared
        /\ \A i \in 1..Len(rest) : rest[i] = following[a + i - 1]
    BY <2>3, <2>4, <2>5
  <2>7. /\ text \o rest \in Seq(Letters)
        /\ Len(text \o rest) = Len(text) + Len(rest)
        /\ \A i \in 1..Len(text) : (text \o rest)[i] = text[i]
        /\ \A i \in 1..Len(rest) : (text \o rest)[Len(text) + i] = rest[i]
    <3>1. text \in Seq(Letters) /\ rest \in Seq(Letters)
      BY <2>6
    <3>. QED BY <3>1, Joined
  <2>8. /\ next \in Seq(Letters) /\ Len(next) = m + (n - shared)
        /\ \A i \in 1..m : next[i] = text[i]
        /\ \A i \in 1..(n - shared) : next[m + i] = following[a + i - 1]
    BY <2>2, <2>6, <2>7
  <2>. HIDE DEF m
  <2>9. at \in Nat /\ at + n <= Len(next)
    BY <2>0, <2>8
  <2>10. ASSUME NEW k \in 1..n PROVE next[at + k] = following[k]
    <3>1. CASE k <= shared
      <4>1. k \in 1..shared /\ at + k \in 1..m /\ at + k = m - shared + k
        BY <2>0, <3>1
      <4>2. following[k] = text[m - shared + k]
        BY <1>3, <1>5, <4>1 DEF m
      <4>. QED BY <2>8, <4>1, <4>2
    <3>2. CASE ~(k <= shared)
      <4>. DEFINE i == k - shared
      <4>1. i \in 1..(n - shared) /\ at + k = m + i /\ a + i - 1 = k
        BY <2>0, <3>2 DEF a
      <4>. HIDE DEF i, at
      <4>. QED BY <2>8, <4>1
    <3>. QED BY <3>1, <3>2
  <2>. HIDE DEF at
  <2>11. Holds(next, following)
    BY <1>1, <2>8, <2>9, <2>10, HoldsAt DEF n
  <2>12. ASSUME NEW part \in Seq(Letters), Holds(text, part) PROVE Holds(next, part)
    BY <2>2, <2>6, <2>12, StillHolds
  <2>. QED BY <2>8, <2>11, <2>12 DEF next, following
<1>. QED BY <1>4, <1>5

Stitched(base, rest) == FoldLeft(LAMBDA text, chunk : StitchOn(text, chunk), base, rest)

LEMMA StitchIs == \A run : Stitch(run) = Stitched(Characters(Head(run).content), Tail(run))
BY DEF Stitch, Stitched, StitchOn

\* One chunk after another.
LEMMA StitchSteps ==
    ASSUME NEW set, Table(set), NEW base \in Seq(Letters), NEW rest \in Seq(set)
    PROVE  \E h : /\ h \in [0..Len(rest) -> Seq(Letters)]
                  /\ h[0] = base
                  /\ \A k \in 1..Len(rest) : h[k] = StitchOn(h[k - 1], rest[k])
                  /\ h[Len(rest)] = Stitched(base, rest)
<1>. DEFINE n == Len(rest)
            B == Seq(Letters)
            g == [p \in B \X (1..n) |-> StitchOn(p[1], rest[p[2]])]
            Is(it) == it = [s \in SUBSET DOMAIN rest |->
                               IF s = {} THEN base
                               ELSE StitchOn(it[s \ {Max(s)}], rest[Max(s)])]
            f == CHOOSE it : Is(it)
<1>1. n \in Nat /\ DOMAIN rest = 1..n /\ \A k \in 1..n : rest[k] \in set
  BY LenProperties
<1>2. base \in B /\ \A b \in B, x \in set : StitchOn(b, x) \in B
  BY StitchOnIs DEF Table
<1>3. g \in [B \X (1..n) -> B]
  BY <1>1, <1>2
<1>4. PICK it \in [SUBSET (1..n) -> B] : Folding(it, 1..n, base, g)
  BY <1>1, <1>2, <1>3, FoldingExists
<1>5. Is(it)
  <2>1. \A s \in SUBSET (1..n) : s # {} => Max(s) \in 1..n /\ s \ {Max(s)} \in SUBSET (1..n)
    BY <1>1, GreatestPlace
  <2>2. \A s \in SUBSET (1..n) : s # {} =>
           g[<<it[s \ {Max(s)}], Max(s)>>] = StitchOn(it[s \ {Max(s)}], rest[Max(s)])
    BY <2>1
  <2>. QED BY <1>1, <1>4, <2>2 DEF Folding
<1>6. Is(f)
  BY <1>5
<1>7. Stitched(base, rest) = f[1..n]
  BY <1>1 DEF Stitched, FoldLeft, MapThenFoldSet
<1>. HIDE DEF f
<1>8. FoldsTo(f, n, B, base, g)
  <2>1. f[{}] = base
    BY <1>6
  <2>2. \A k \in 1..n : f[1..k] = StitchOn(f[1..(k - 1)], rest[k])
    <3>. TAKE k \in 1..n
    <3>1. k \in Nat \ {0} /\ 1..k \in SUBSET (1..n)
      BY <1>1
    <3>2. 1..k # {} /\ Max(1..k) = k /\ (1..k) \ {k} = 1..(k - 1)
      BY <3>1, Spans
    <3>3. f[1..k] = IF 1..k = {} THEN base ELSE StitchOn(f[(1..k) \ {Max(1..k)}], rest[Max(1..k)])
      BY <1>1, <1>6, <3>1
    <3>. QED BY <3>2, <3>3
  <2>3. \A k \in 1..n : f[1..(k - 1)] \in B => f[1..k] = g[<<f[1..(k - 1)], k>>]
    BY <2>2
  <2>. HIDE DEF g, n, B
  <2>. QED BY <1>1, <1>2, <1>3, <2>1, <2>3 DEF FoldsTo
<1>9. \A k \in 1..n, b \in B : g[<<b, k>>] = StitchOn(b, rest[k])
  OBVIOUS
<1>. HIDE DEF g, B, n
<1>10. PICK h : Steps(h, n, B, base, g) /\ h[n] = f[1..n]
  BY <1>8, StepsOfFolding
<1>11. h \in [0..n -> B] /\ h[0] = base /\ \A k \in 1..n : h[k] = g[<<h[k - 1], k>>]
  BY <1>10 DEF Steps
<1>12. \A k \in 1..n : h[k] = StitchOn(h[k - 1], rest[k])
  <2>1. \A k \in 1..n : h[k - 1] \in B
    BY <1>1, <1>11
  <2>. QED BY <1>9, <1>11, <2>1
<1>. QED BY <1>7, <1>10, <1>11, <1>12 DEF B, n


\* Every chunk of a run is whole in its text.
LEMMA StitchHolds ==
    ASSUME NEW set, Table(set), NEW run \in Seq(set), run # <<>>, NEW i \in 1..Len(run)
    PROVE  Holds(Stitch(run), Characters(run[i].content))
<1>. DEFINE n == Len(run)
            rest == Tail(run)
            base == Characters(run[1].content)
            text(k) == Characters(run[k].content)
<1>1. n \in Nat \ {0} /\ \A k \in 1..n : run[k] \in set
  OBVIOUS
<1>2. /\ rest \in Seq(set) /\ Len(rest) = n - 1 /\ \A k \in 1..(n - 1) : rest[k] = run[k + 1]
      /\ Head(run) = run[1]
  OBVIOUS
<1>3. \A k \in 1..n : run[k].content \in Seq(Units) /\ text(k) \in Seq(Letters)
  BY <1>1, CharactersAre DEF Table
<1>4. base \in Seq(Letters) /\ base = text(1)
  BY <1>1, <1>3
<1>5. Stitch(run) = Stitched(base, rest)
  BY <1>2, StitchIs
<1>. HIDE DEF rest, base
<1>6. PICK h : /\ h \in [0..Len(rest) -> Seq(Letters)]
               /\ h[0] = base
               /\ \A k \in 1..Len(rest) : h[k] = StitchOn(h[k - 1], rest[k])
               /\ h[Len(rest)] = Stitched(base, rest)
  BY <1>2, <1>4, StitchSteps, ZenonT(30)
<1>. DEFINE m == n - 1
<1>7. m \in Nat /\ Len(rest) = m /\ m + 1 = n
  BY <1>1, <1>2
<1>8. /\ h \in [0..m -> Seq(Letters)]
      /\ h[0] = base
      /\ \A k \in 1..m : h[k] = StitchOn(h[k - 1], run[k + 1])
      /\ h[m] = Stitched(base, rest)
  BY <1>2, <1>6, <1>7
<1>. HIDE DEF n, m, text
<1>. DEFINE Good(k) == \A j \in 1..(k + 1) : Holds(h[k], text(j))
            T == {k \in 0..m : Good(k)}
<1>9. Good(0)
  <2>1. Holds(base, text(1))
    BY <1>4, HoldsItself
  <2>2. \A j \in 1..(0 + 1) : j = 1
    OBVIOUS
  <2>. QED BY <1>8, <2>1, <2>2
<1>10. ASSUME NEW k \in 0..(m - 1), Good(k) PROVE Good(k + 1)
  <2>1. /\ k \in 0..m /\ k + 1 \in 1..m /\ (k + 1) - 1 = k
        /\ (k + 1) + 1 \in 1..n /\ \A j \in 1..(k + 1) : j \in 1..n
    BY <1>7
  <2>2. h[k] \in Seq(Letters) /\ h[k + 1] = StitchOn(h[k], run[(k + 1) + 1])
    BY <1>8, <2>1
  <2>. DEFINE chunk == run[(k + 1) + 1]
  <2>3. chunk.content \in Seq(Units) /\ text((k + 1) + 1) = Characters(chunk.content)
    BY <1>3, <2>1 DEF text
  <2>. HIDE DEF chunk
  <2>4. LET next == StitchOn(h[k], chunk)
        IN /\ next \in Seq(Letters)
           /\ Holds(next, Characters(chunk.content))
           /\ \A part \in Seq(Letters) : Holds(h[k], part) => Holds(next, part)
    BY <2>2, <2>3, StitchOnIs
  <2>5. /\ Holds(h[k + 1], text((k + 1) + 1))
        /\ \A part \in Seq(Letters) : Holds(h[k], part) => Holds(h[k + 1], part)
    BY <2>2, <2>3, <2>4 DEF chunk
  <2>6. \A j \in 1..(k + 1) : Holds(h[k + 1], text(j))
    BY <1>3, <1>10, <2>1, <2>5
  <2>7. \A j \in 1..((k + 1) + 1) : j \in 1..(k + 1) \/ j = (k + 1) + 1
    BY <1>7
  <2>. QED BY <2>5, <2>6, <2>7
<1>11. 0 \in T /\ \A k \in 0..(m - 1) : k \in T => k + 1 \in T
  <2>1. 0 \in 0..m /\ \A k \in 0..(m - 1) : k + 1 \in 0..m
    BY <1>7
  <2>. HIDE DEF Good
  <2>. QED BY <1>9, <1>10, <2>1
<1>12. m \in T
  <2>1. m \in 0..m
    BY <1>7
  <2>. HIDE DEF T
  <2>. QED BY <1>7, <1>11, <2>1, InductionUpTo
<1>13. \A j \in 1..n : Holds(h[m], text(j))
  <2>1. Good(m)
    <3>. HIDE DEF Good
    <3>. QED BY <1>12
  <2>. QED BY <1>7, <2>1
<1>14. i \in 1..n
  BY DEF n
<1>. QED BY <1>5, <1>8, <1>13, <1>14 DEF text

LEMMA FusedIsFound ==
    ASSUME AnswersInv, FoundBy, found # NothingFound
    PROVE  Len(Fused) # 0
<1>. DEFINE vector == found.vector
            keyword == found.keyword
            seen == InScope(stored, request.scope)
<1>1. vector \in Seq(seen) /\ keyword \in Seq(seen)
  <2>1. found.vector \in ArmRows(seen) /\ found.keyword \in ArmRows(seen)
    BY ArmsAre
  <2>. HIDE DEF seen
  <2>. QED BY <2>1 DEF ArmRows
<1>2. Len(vector) \in Nat /\ Len(keyword) \in Nat
  BY <1>1
<1>3. Len(vector) # 0 \/ Len(keyword) # 0
  <2>1. vector # <<>> \/ keyword # <<>>
    BY DEF FoundBy, NothingFound
  <2>. QED BY <1>1, <2>1
<1>. HIDE DEF vector, keyword, seen
<1>4. Len(vector \o keyword) # 0
  <2>1. Len(vector \o keyword) = Len(vector) + Len(keyword)
    BY <1>1, Joined
  <2>. QED BY <1>2, <1>3, <2>1
<1>5. Len(ReciprocalRankFusion(vector, keyword)) # 0
  <2>. DEFINE places == MergedPlaces(vector, keyword)
              rest == Chosen(keyword, places)
              merged == Merged(vector, keyword)
              m == Cardinality(places)
  <2>1. DOMAIN keyword = 1..Len(keyword)
    BY <1>1
  <2>2. places \in SUBSET (1..Len(keyword))
    BY <2>1 DEF MergedPlaces
  <2>3. Len(vector) = 0 => places = 1..Len(keyword)
    BY <2>1 DEF MergedPlaces, Contains
  <2>4. merged = vector \o rest
    BY DEF Merged, MergedPlaces
  <2>5. ReciprocalRankFusion(vector, keyword) =
           [k \in 1..Len(merged) |-> ReciprocalRankFusion(vector, keyword)[k]]
    BY DEF ReciprocalRankFusion
  <2>. HIDE DEF places, merged
  <2>6. /\ rest \in Seq(seen) /\ Len(rest) = m /\ m \in Nat
        /\ \A i \in places : \E k \in 1..m : Ascending(places)[k] = i
    <3>1. keyword \in Seq(seen) /\ places \in SUBSET (1..Len(keyword))
      BY <1>1, <2>2
    <3>2. /\ m \in Nat
          /\ \A i \in places : \E k \in 1..m : Ascending(places)[k] = i
          /\ Chosen(keyword, places) \in Seq(seen) /\ Len(Chosen(keyword, places)) = m
      BY <3>1, ChosenIsInOrder
    <3>. QED BY <3>2
  <2>. HIDE DEF rest, m
  <2>7. Len(merged) = Len(vector) + m
    <3>1. Len(vector \o rest) = Len(vector) + Len(rest)
      BY <1>1, <2>6, Joined
    <3>. QED BY <2>4, <2>6, <3>1
  <2>8. ASSUME Len(vector) = 0 PROVE m # 0
    <3>1. 1 \in places
      BY <1>2, <1>3, <2>3, <2>8
    <3>. QED BY <2>6, <3>1
  <2>9. Len(merged) \in Nat \ {0}
    BY <1>2, <2>6, <2>7, <2>8
  <2>. HIDE DEF merged
  <2>. DEFINE len == Len(merged)
  <2>. HIDE DEF len
  <2>10. ReciprocalRankFusion(vector, keyword) = [k \in 1..len |-> ReciprocalRankFusion(vector, keyword)[k]]
    BY <2>5 DEF len
  <2>11. len \in Nat \ {0}
    BY <2>9 DEF len
  <2>12. \A f : f = [k \in 1..len |-> f[k]] => Len(f) = len
    BY <2>11
  <2>. QED BY <2>10, <2>11, <2>12
<1>. QED BY <1>4, <1>5 DEF Fused, vector, keyword

\* What is answered starts with the best row found.
LEMMA RowsAreFound ==
    ASSUME AnswersInv, Answered
    PROVE  answer.rows # <<>>
<1>1. FoundBy /\ AnswerIs /\ request \in Questions /\ found # NothingFound
  BY DEF AnswersInv, FoundInv, RequestInv, Answered, Uploads
<1>2. answer.rows = NoOpRerank(Fused, request.top_k)
  BY <1>1 DEF AnswerIs
<1>3. request.top_k \in Nat \ {0}
  BY <1>1, SessionsAssumption
<1>. DEFINE fused == Fused
            rows == NoOpRerank(fused, request.top_k)
<1>4. fused \in Seq(InScope(stored, request.scope)) /\ Len(fused) # 0
  BY <1>1, FusedIs, FusedIsFound
<1>. HIDE DEF fused
<1>5. Len(rows) = IF request.top_k <= Len(fused) THEN request.top_k ELSE Len(fused)
  BY <1>3, <1>4, RowsAre
<1>6. Len(rows) # 0
  BY <1>3, <1>4, <1>5
<1>. QED BY <1>2, <1>6 DEF fused

-----------------------------------------------------------------------------
(* Excerpts. *)

\* A run is a stretch of one document.
LEMMA RunIsAStretch ==
    ASSUME NEW set, Table(set), NEW run \in Seq(set), run # <<>>,
           \A m \in 1..(Len(run) - 1) : Follows(run[m], run[m + 1])
    PROVE  \A m \in 1..Len(run) : /\ run[m].document = run[1].document
                                  /\ run[m].index = run[1].index + (m - 1)
<1>. DEFINE n == Len(run) - 1
            Good(k) == /\ run[k + 1].document = run[1].document
                       /\ run[k + 1].index = run[1].index + k
            T == {k \in 0..n : Good(k)}
<1>1. n \in Nat /\ Len(run) = n + 1 /\ \A m \in 1..Len(run) : run[m] \in set
  OBVIOUS
<1>. HIDE DEF n
<1>2. \A m \in 1..(n + 1) : run[m].index \in Nat
  BY <1>1 DEF Table
<1>3. \A m \in 1..n : run[m].document = run[m + 1].document /\ run[m + 1].index = run[m].index + 1
  BY DEF Follows, n
<1>4. Good(0)
  <2>1. 1 \in 1..(n + 1)
    BY <1>1
  <2>. QED BY <1>2, <2>1
<1>5. ASSUME NEW k \in 0..(n - 1), Good(k) PROVE Good(k + 1)
  <2>1. k + 1 \in 1..n /\ 1 \in 1..(n + 1) /\ k \in Nat
    BY <1>1
  <2>. DEFINE a == run[1].index
              b == run[k + 1].index
              c == run[(k + 1) + 1].index
  <2>2. a \in Nat /\ b = a + k /\ c = b + 1
    BY <1>2, <1>3, <1>5, <2>1
  <2>3. run[(k + 1) + 1].document = run[1].document
    BY <1>3, <1>5, <2>1
  <2>. HIDE DEF a, b, c
  <2>4. c = a + (k + 1)
    BY <2>1, <2>2
  <2>. QED BY <2>3, <2>4 DEF a, c
<1>6. 0 \in T /\ \A k \in 0..(n - 1) : k \in T => k + 1 \in T
  <2>1. 0 \in 0..n /\ \A k \in 0..(n - 1) : k + 1 \in 0..n
    BY <1>1
  <2>. HIDE DEF Good
  <2>. QED BY <1>4, <1>5, <2>1
<1>7. \A k \in 0..n : Good(k)
  <2>1. 0..n \subseteq T
    <3>. HIDE DEF T
    <3>. QED BY <1>1, <1>6, InductionUpTo
  <2>. HIDE DEF Good
  <2>. QED BY <2>1
<1>8. \A m \in 1..(n + 1) : m - 1 \in 0..n /\ (m - 1) + 1 = m
  BY <1>1
<1>9. \A m \in 1..(n + 1) : Good(m - 1)
  BY <1>7, <1>8
<1>. QED BY <1>1, <1>8, <1>9

\* The runs of some rows, each a stretch of a document, at their places in the reading order.
InRuns(runs, at, order, rows) ==
    /\ runs \in Seq(SomeOf(Range(rows)))
    /\ InReadingOrder(order, rows)
    /\ RunsAt(runs, at, order, Len(order))
    /\ \A i \in 1..Len(runs) :
          /\ runs[i] \in Seq(Range(rows)) /\ Len(runs[i]) \in Nat \ {0}
          /\ \A m \in 1..Len(runs[i]) : /\ runs[i][m] \in Range(rows)
                                        /\ runs[i][m].document = runs[i][1].document
                                        /\ runs[i][m].index = runs[i][1].index + (m - 1)

LEMMA RowsInRuns ==
    ASSUME NEW set, Table(set), NEW rows \in Seq(set)
    PROVE  \E at : InRuns(Runs(rows), at, ReadingOrder(rows), rows)
<1>. DEFINE shown == Range(rows)
            order == ReadingOrder(rows)
            runs == Runs(rows)
<1>1. Table(shown)
  BY RangeOfRows, PartOfATable
<1>2. InReadingOrder(order, rows)
  BY ReadingOrderIs
<1>3. order \in Seq(shown)
  BY <1>2 DEF InReadingOrder
<1>4. runs = RunsOver(order)
  BY RunsAreOver
<1>. HIDE DEF shown, order, runs
<1>5. runs \in Seq(SomeOf(shown)) /\ \E at : RunsAt(runs, at, order, Len(order))
  BY <1>3, <1>4, RunsAre
<1>6. PICK at : RunsAt(runs, at, order, Len(order))
  BY <1>5
<1>7. ASSUME NEW i \in 1..Len(runs)
      PROVE  /\ runs[i] \in Seq(shown) /\ Len(runs[i]) \in Nat \ {0}
             /\ \A m \in 1..Len(runs[i]) : /\ runs[i][m] \in shown
                                           /\ runs[i][m].document = runs[i][1].document
                                           /\ runs[i][m].index = runs[i][1].index + (m - 1)
  <2>. DEFINE run == runs[i]
  <2>1. run \in SomeOf(shown)
    BY <1>5
  <2>2. \A m \in 1..(Len(run) - 1) : Follows(run[m], run[m + 1])
    BY <1>6 DEF RunsAt
  <2>. HIDE DEF run
  <2>3. run \in Seq(shown) /\ run # <<>>
    BY <2>1 DEF SomeOf
  <2>4. Len(run) \in Nat \ {0} /\ \A m \in 1..Len(run) : run[m] \in shown
    BY <2>3
  <2>5. \A m \in 1..Len(run) : /\ run[m].document = run[1].document
                               /\ run[m].index = run[1].index + (m - 1)
    BY <1>1, <2>2, <2>3, RunIsAStretch
  <2>. QED BY <2>3, <2>4, <2>5 DEF run
<1>8. InRuns(runs, at, order, rows)
  BY <1>2, <1>5, <1>6, <1>7 DEF InRuns, shown
<1>. QED BY <1>8 DEF runs, order

\* One excerpt for each run.
ExcerptsOf(context, runs) ==
    /\ Len(context) = Len(runs)
    /\ \A i \in 1..Len(runs) :
          /\ context[i].document = runs[i][1].document
          /\ context[i].first = runs[i][1].index
          /\ context[i].last = runs[i][Len(runs[i])].index
          /\ context[i].text = Stitch(runs[i])
          /\ i > 1 /\ runs[i - 1][Len(runs[i - 1])].document = runs[i][1].document =>
                context[i].missing = <<runs[i - 1][Len(runs[i - 1])].index + 1, runs[i][1].index - 1>>

LEMMA ContextIs ==
    ASSUME NEW set, NEW rows, NEW runs, runs = Runs(rows), Len(runs) \in Nat,
           \A i \in 1..Len(runs) : runs[i] \in Seq(set) /\ Len(runs[i]) # 0
    PROVE  ExcerptsOf(BuildContext(rows), runs)
<1>. DEFINE n == Len(runs)
            context == BuildContext(rows)
            entry(i) == [document |-> Head(runs[i]).document,
                         first |-> Head(runs[i]).index,
                         last |-> Last(runs[i]).index,
                         text |-> Stitch(runs[i]),
                         missing |-> IF i > 1 /\ Last(runs[i - 1]).document = Head(runs[i]).document
                                        THEN <<Last(runs[i - 1]).index + 1, Head(runs[i]).index - 1>>
                                        ELSE None]
<1>1. context = [i \in 1..n |-> entry(i)]
  BY DEF BuildContext
<1>2. \A i \in 1..n : Head(runs[i]) = runs[i][1]
  <2>. TAKE i \in 1..n
  <2>1. runs[i] \in Seq(set) /\ Len(runs[i]) # 0
    OBVIOUS
  <2>. QED BY <2>1
<1>3. \A i : Last(runs[i]) = runs[i][Len(runs[i])]
  BY DEF Last
<1>4. Len(context) = n
  <2>. HIDE DEF context, entry, n
  <2>1. n \in Nat
    BY DEF n
  <2>. QED BY <1>1, <2>1
<1>5. ASSUME NEW i \in 1..n
      PROVE  /\ context[i].document = runs[i][1].document
             /\ context[i].first = runs[i][1].index
             /\ context[i].last = runs[i][Len(runs[i])].index
             /\ context[i].text = Stitch(runs[i])
             /\ i > 1 /\ runs[i - 1][Len(runs[i - 1])].document = runs[i][1].document =>
                   context[i].missing = <<runs[i - 1][Len(runs[i - 1])].index + 1, runs[i][1].index - 1>>
  <2>1. context[i] = entry(i)
    BY <1>1
  <2>. HIDE DEF context
  <2>2. Head(runs[i]) = runs[i][1] /\ Last(runs[i]) = runs[i][Len(runs[i])]
        /\ Last(runs[i - 1]) = runs[i - 1][Len(runs[i - 1])]
    BY <1>2, <1>3
  <2>. QED BY <2>1, <2>2
<1>6. ExcerptsOf(context, runs)
  <2>. HIDE DEF context
  <2>. QED BY <1>4, <1>5 DEF ExcerptsOf
<1>. QED BY <1>6

\* A chunk is in one run, and no other run has its place.
InOneRun(runs, c) ==
    \E i \in 1..Len(runs) :
       \E m \in 1..Len(runs[i]) :
          /\ runs[i][m] = c
          /\ \A j \in 1..Len(runs) : \A l \in 1..Len(runs[j]) :
                Place(runs[j][l]) = Place(c) => j = i

LEMMA EveryRowIsInOneRun ==
    ASSUME NEW set, Table(set), NEW rows \in Seq(set), NEW runs, NEW at, NEW order,
           InRuns(runs, at, order, rows), NEW c \in Range(rows)
    PROVE  InOneRun(runs, c)
<1>. DEFINE n == Len(runs)
            size(i) == Len(runs[i])
<1>1. /\ \A d \in Range(rows) : \E k \in 1..Len(order) : order[k] = d
      /\ \A i, j \in 1..Len(order) : order[i] = order[j] => i = j
      /\ order \in Seq(Range(rows))
  BY DEF InRuns, InReadingOrder
<1>2. /\ at \in [1..n -> Nat]
      /\ \A i \in 1..n : /\ at[i] + size(i) <= Len(order)
                         /\ \A m \in 1..size(i) : runs[i][m] = order[at[i] + m]
      /\ \A i, j \in 1..n : i < j => at[i] + size(i) <= at[j]
      /\ \A p \in 1..Len(order) : \E i \in 1..n : \E m \in 1..size(i) : p = at[i] + m
  BY DEF InRuns, RunsAt
<1>3. \A i \in 1..n : size(i) \in Nat \ {0} /\ \A m \in 1..size(i) : runs[i][m] \in Range(rows)
  BY DEF InRuns
<1>4. \A d, e \in Range(rows) : Place(d) = Place(e) => d = e
  BY RangeOfRows DEF Table
<1>5. PICK k \in 1..Len(order) : order[k] = c
  BY <1>1
<1>6. PICK i \in 1..n : \E m \in 1..size(i) : k = at[i] + m
  BY <1>2
<1>7. PICK m \in 1..size(i) : k = at[i] + m
  BY <1>6
<1>8. runs[i][m] = c
  BY <1>2, <1>5, <1>7
<1>9. Len(order) \in Nat
  BY <1>1
<1>10. ASSUME NEW j \in 1..n, NEW l \in 1..size(j), Place(runs[j][l]) = Place(c) PROVE j = i
  <2>1. runs[j][l] = c
    BY <1>3, <1>4, <1>10
  <2>. DEFINE a == at[i]
              b == at[j]
              p == size(i)
              q == size(j)
  <2>2. a \in Nat /\ b \in Nat /\ p \in Nat /\ q \in Nat /\ b + q <= Len(order)
    BY <1>2, <1>3
  <2>3. order[b + l] = c
    BY <1>2, <2>1
  <2>4. m \in 1..p /\ l \in 1..q /\ k = a + m
    BY <1>7
  <2>5. i < j => a + p <= b
    BY <1>2
  <2>6. j < i => b + q <= a
    BY <1>2
  <2>. HIDE DEF a, b, p, q, n
  <2>7. b + l \in 1..Len(order)
    BY <1>9, <2>2, <2>4
  <2>8. b + l = a + m
    BY <1>1, <1>5, <2>3, <2>4, <2>7
  <2>9. ~(i < j) /\ ~(j < i)
    BY <2>2, <2>4, <2>5, <2>6, <2>8
  <2>10. i \in Int /\ j \in Int
    OBVIOUS
  <2>. QED BY <2>9, <2>10
<1>. QED BY <1>8, <1>10 DEF InOneRun

LEMMA FirstExcerpt ==
    ASSUME NEW set, NEW rows \in Seq(set), rows # <<>>, NEW runs, NEW at, NEW order,
           InRuns(runs, at, order, rows)
    PROVE  1 \in 1..Len(runs) /\ runs[1][1].document = rows[1].document
<1>. DEFINE n == Len(runs)
            size(i) == Len(runs[i])
<1>1. Len(order) > 0 /\ order[1].document = rows[1].document /\ Len(order) \in Nat
  BY DEF InRuns, InReadingOrder
<1>2. /\ at \in [1..n -> Nat]
      /\ \A i \in 1..n : \A m \in 1..size(i) : runs[i][m] = order[at[i] + m]
      /\ \A i, j \in 1..n : i < j => at[i] + size(i) <= at[j]
      /\ \A p \in 1..Len(order) : \E i \in 1..n : \E m \in 1..size(i) : p = at[i] + m
  BY DEF InRuns, RunsAt
<1>3. \A i \in 1..n : size(i) \in Nat \ {0}
  BY DEF InRuns
<1>4. 1 \in 1..Len(order)
  BY <1>1
<1>5. PICK i \in 1..n : \E m \in 1..size(i) : 1 = at[i] + m
  BY <1>2, <1>4
<1>6. at[i] = 0
  <2>. DEFINE a == at[i]
  <2>1. a \in Nat
    BY <1>2
  <2>2. PICK m \in 1..size(i) : 1 = a + m
    BY <1>5
  <2>. HIDE DEF a
  <2>3. a = 0
    BY <2>1, <2>2
  <2>. QED BY <2>3 DEF a
<1>7. n \in Nat
  BY DEF InRuns
<1>. HIDE DEF n
<1>8. 1 \in 1..n
  BY <1>7
<1>9. i = 1
  <2>. SUFFICES ASSUME i # 1 PROVE FALSE
    OBVIOUS
  <2>1. 1 < i
    BY <1>7
  <2>2. at[1] + size(1) <= at[i]
    BY <1>2, <1>8, <2>1
  <2>. DEFINE a == at[1]
              s == size(1)
  <2>3. a \in Nat /\ s \in Nat \ {0} /\ a + s <= 0
    BY <1>2, <1>3, <1>6, <1>8, <2>2
  <2>. HIDE DEF a, s
  <2>. QED BY <2>3
<1>10. 1 \in 1..size(1)
  BY <1>3, <1>8
<1>11. runs[1][1] = order[1]
  BY <1>2, <1>6, <1>8, <1>9, <1>10
<1>. QED BY <1>1, <1>8, <1>11 DEF n

LEMMA ExcerptsOfADocument ==
    ASSUME NEW set, Table(set), NEW rows \in Seq(set), NEW runs, NEW at, NEW order,
           InRuns(runs, at, order, rows),
           NEW i \in 1..Len(runs), NEW j \in 1..Len(runs), i < j,
           runs[i][1].document = runs[j][1].document
    PROVE  LET last(r) == runs[r][Len(runs[r])]
           IN /\ j - 1 \in 1..Len(runs) /\ j > 1
              /\ runs[j - 1][1].document = runs[j][1].document
              /\ last(j - 1).document = runs[j][1].document
              /\ last(i).index < runs[j][1].index
              /\ last(j - 1).index + 1 <= runs[j][1].index - 1
<1>. DEFINE n == Len(runs)
            size(r) == Len(runs[r])
            final(r) == runs[r][size(r)]
            start(r) == runs[r][1]
            k == j - 1
<1>1. n \in Nat /\ i \in 1..n /\ j \in 1..n
  BY DEF InRuns
<1>2. k \in 1..n /\ j > 1 /\ k + 1 = j /\ k \in 1..(n - 1) /\ k < j /\ (i < k \/ i = k)
  BY <1>1
<1>3. /\ order \in Seq(Range(rows))
      /\ \A p, q \in 1..Len(order) :
            p < q /\ order[p].document = order[q].document => order[p].index < order[q].index
      /\ \A p, q, r \in 1..Len(order) :
            p < q /\ q < r /\ order[p].document = order[r].document => order[p].document = order[q].document
  BY DEF InRuns, InReadingOrder
<1>4. /\ at \in [1..n -> Nat]
      /\ \A r \in 1..n : /\ at[r] + size(r) <= Len(order)
                         /\ \A m \in 1..size(r) : runs[r][m] = order[at[r] + m]
      /\ \A r, s \in 1..n : r < s => at[r] + size(r) <= at[s]
      /\ ~Follows(final(k), runs[k + 1][1])
  <2>1. \A r \in 1..(Len(runs) - 1) : ~Follows(runs[r][Len(runs[r])], runs[r + 1][1])
    BY DEF InRuns, RunsAt
  <2>2. ~Follows(final(k), runs[k + 1][1])
    BY <1>2, <2>1
  <2>. HIDE DEF k
  <2>. QED BY <2>2 DEF InRuns, RunsAt
<1>5. \A r \in 1..n : /\ size(r) \in Nat \ {0}
                      /\ \A m \in 1..size(r) : /\ runs[r][m] \in Range(rows)
                                               /\ runs[r][m].document = start(r).document
  BY DEF InRuns
<1>6. \A c \in Range(rows) : c.index \in Nat
  BY RangeOfRows DEF Table
<1>7. Len(order) \in Nat
  BY <1>3
<1>. HIDE DEF n, k
\* Where a run starts and where it ends.
<1>8. ASSUME NEW r \in 1..n
      PROVE  /\ at[r] + 1 \in 1..Len(order) /\ at[r] + size(r) \in 1..Len(order)
             /\ start(r) = order[at[r] + 1] /\ final(r) = order[at[r] + size(r)]
             /\ final(r).document = start(r).document
             /\ final(r).index \in Nat /\ start(r).index \in Nat
  <2>. DEFINE a == at[r]
              s == size(r)
  <2>1. a \in Nat /\ s \in Nat \ {0} /\ a + s <= Len(order)
    BY <1>4, <1>5
  <2>2. 1 \in 1..s /\ s \in 1..s
    BY <2>1
  <2>3. start(r) = order[a + 1] /\ final(r) = order[a + s]
    BY <1>4, <2>2
  <2>4. /\ final(r).document = start(r).document
        /\ final(r) \in Range(rows) /\ start(r) \in Range(rows)
    BY <1>5, <2>2
  <2>5. final(r).index \in Nat /\ start(r).index \in Nat
    BY <1>6, <2>4
  <2>. HIDE DEF a, s, final, start
  <2>6. a + 1 \in 1..Len(order) /\ a + s \in 1..Len(order)
    BY <1>7, <2>1
  <2>. QED BY <2>3, <2>4, <2>5, <2>6 DEF a, s
<1>9. ASSUME NEW r \in 1..n, NEW s \in 1..n, r < s
      PROVE  at[r] + size(r) < at[s] + 1 /\ at[r] + 1 < at[s] + 1
  <2>. DEFINE a == at[r]
              b == at[s]
              p == size(r)
  <2>1. a \in Nat /\ b \in Nat /\ p \in Nat \ {0} /\ a + p <= b
    BY <1>4, <1>5, <1>9
  <2>. HIDE DEF a, b, p
  <2>2. a + p < b + 1 /\ a + 1 < b + 1
    BY <2>1
  <2>. QED BY <2>2 DEF a, b, p
<1>. HIDE DEF size, final, start
<1>10. start(i).document = start(j).document
  BY DEF start
<1>11. start(k).document = start(j).document
  <2>1. CASE i = k
    BY <1>10, <2>1
  <2>2. CASE i < k
    <3>. DEFINE p == at[i] + 1
                q == at[k] + 1
                r == at[j] + 1
    <3>1. p \in 1..Len(order) /\ q \in 1..Len(order) /\ r \in 1..Len(order)
      BY <1>1, <1>2, <1>8
    <3>2. p < q /\ q < r
      BY <1>1, <1>2, <1>9, <2>2
    <3>3. start(i) = order[p] /\ start(k) = order[q] /\ start(j) = order[r]
      BY <1>1, <1>2, <1>8
    <3>. HIDE DEF p, q, r
    <3>4. order[p].document = order[r].document
      BY <1>10, <3>3
    <3>5. order[p].document = order[q].document
      BY <1>3, <3>1, <3>2, <3>4
    <3>. QED BY <1>10, <3>3, <3>5
  <2>. QED BY <1>2, <2>1, <2>2
\* An earlier excerpt of the document ends before this one starts.
<1>12. ASSUME NEW r \in 1..n, r < j, start(r).document = start(j).document
       PROVE  final(r).index < start(j).index
  <2>. DEFINE p == at[r] + size(r)
              q == at[j] + 1
  <2>1. p \in 1..Len(order) /\ q \in 1..Len(order) /\ final(r) = order[p] /\ start(j) = order[q]
    BY <1>1, <1>8
  <2>2. p < q
    BY <1>1, <1>9, <1>12
  <2>3. final(r).document = start(j).document
    BY <1>8, <1>12
  <2>. HIDE DEF p, q
  <2>. QED BY <1>3, <2>1, <2>2, <2>3
<1>13. final(i).index < start(j).index
  BY <1>1, <1>10, <1>12
<1>14. final(k).index + 1 <= start(j).index - 1
  <2>1. final(k).index < start(j).index
    BY <1>2, <1>11, <1>12
  <2>2. final(k).index \in Nat /\ start(j).index \in Nat /\ final(k).document = start(j).document
    BY <1>1, <1>2, <1>8, <1>11
  <2>3. ~Follows(final(k), start(j))
    BY <1>2, <1>4 DEF start
  <2>4. start(j).index # final(k).index + 1
    BY <2>2, <2>3 DEF Follows
  <2>. QED BY <2>1, <2>2, <2>4
<1>15. final(k).document = start(j).document
  BY <1>2, <1>8, <1>11
<1>. QED BY <1>2, <1>11, <1>13, <1>14, <1>15 DEF final, start, size, n, k

\* Every excerpt says where its text comes from: its chunks are the indexes it names.
LEMMA ExcerptsAre ==
    ASSUME NEW set, Table(set), NEW rows \in Seq(set), NEW runs, NEW at, NEW order,
           InRuns(runs, at, order, rows), runs = Runs(rows)
    PROVE  /\ Len(runs) \in Nat /\ ExcerptsOf(BuildContext(rows), runs)
           /\ \A i \in 1..Len(runs) : /\ runs[i][Len(runs[i])].index = runs[i][1].index + (Len(runs[i]) - 1)
                                      /\ runs[i][1].index \in Nat
<1>1. Len(runs) \in Nat
  BY DEF InRuns
<1>2. \A i \in 1..Len(runs) :
         /\ runs[i] \in Seq(Range(rows)) /\ Len(runs[i]) \in Nat \ {0}
         /\ \A m \in 1..Len(runs[i]) : /\ runs[i][m] \in Range(rows)
                                       /\ runs[i][m].index = runs[i][1].index + (m - 1)
  BY DEF InRuns
<1>3. \A i \in 1..Len(runs) : runs[i] \in Seq(Range(rows)) /\ Len(runs[i]) # 0
  BY <1>2
<1>4. ExcerptsOf(BuildContext(rows), runs)
  BY <1>1, <1>3, ContextIs
<1>5. ASSUME NEW i \in 1..Len(runs)
      PROVE  /\ runs[i][Len(runs[i])].index = runs[i][1].index + (Len(runs[i]) - 1)
             /\ runs[i][1].index \in Nat
  <2>1. 1 \in 1..Len(runs[i]) /\ Len(runs[i]) \in 1..Len(runs[i])
    BY <1>2
  <2>2. runs[i][1] \in Range(rows)
    BY <1>2, <2>1
  <2>3. runs[i][1].index \in Nat
    BY <2>2, RangeOfRows DEF Table
  <2>. QED BY <1>2, <2>1, <2>3
<1>. QED BY <1>1, <1>4, <1>5

\* A chunk of a run is where its excerpt says.
LEMMA RunIsCovered ==
    ASSUME NEW runs, NEW rows, NEW at, NEW order, InRuns(runs, at, order, rows),
           NEW i \in 1..Len(runs), NEW entry,
           entry.document = runs[i][1].document, entry.first = runs[i][1].index,
           runs[i][1].index \in Nat, entry.last = runs[i][1].index + (Len(runs[i]) - 1)
    PROVE  /\ \A m \in 1..Len(runs[i]) : Covers(entry, runs[i][m])
           /\ \A n \in entry.first..entry.last : \E m \in 1..Len(runs[i]) : Place(runs[i][m]) = <<entry.document, n>>
<1>. DEFINE run == runs[i]
            size == Len(runs[i])
            a == runs[i][1].index
<1>1. size \in Nat \ {0} /\ a \in Nat /\ \A m \in 1..size : /\ run[m].document = entry.document
                                                             /\ run[m].index = a + (m - 1)
  BY DEF InRuns
<1>2. entry.first = a /\ entry.last = a + (size - 1)
  OBVIOUS
<1>. HIDE DEF run, size, a
<1>3. \A m \in 1..size : a + (m - 1) \in a..(a + (size - 1))
  BY <1>1
<1>4. \A m \in 1..size : Covers(entry, run[m])
  BY <1>1, <1>2, <1>3 DEF Covers
<1>5. ASSUME NEW n \in entry.first..entry.last
      PROVE  \E m \in 1..size : Place(run[m]) = <<entry.document, n>>
  <2>. DEFINE m == n - a + 1
  <2>1. m \in 1..size /\ a + (m - 1) = n
    BY <1>1, <1>2
  <2>. HIDE DEF m
  <2>2. run[m].document = entry.document /\ run[m].index = n
    BY <1>1, <2>1
  <2>. QED BY <2>1, <2>2 DEF Place
<1>. QED BY <1>4, <1>5 DEF run, size

\* A question is answered from excerpts, each chunk shown in one of them and whole there, the
\* best document first, each document without a break and in its order, with a note of exactly
\* what is missing between two excerpts (ReadInOrder).
THEOREM ExcerptsAreReadInOrder == Spec => []ReadInOrder
<1>1. ASSUME AnswersInv, Answered, request.kind = "query"
      PROVE  ReadInOrder
  <2>. DEFINE seen == InScope(stored, request.scope)
              available == FetchNeighbours(stored, answer.rows, request.scope)
              rows == answer.shown
              runs == Runs(rows)
              order == ReadingOrder(rows)
              context == answer.context
              entries == 1..Len(context)
  <2>1. /\ Table(seen) /\ answer.rows \in Seq(seen) /\ available \in SUBSET seen
        /\ rows = AddNeighbours(answer.rows, available)
    BY <1>1, AnsweredWith
  <2>2. answer.rows # <<>>
    BY <1>1, RowsAreFound
  <2>3. context = BuildContext(rows)
    <3>1. AnswerIs
      BY <1>1 DEF AnswersInv, FoundInv
    <3>. QED BY <1>1, <3>1 DEF AnswerIs
  <2>. HIDE DEF seen, available, rows
  <2>4. rows \in Seq(seen) /\ WithNeighbours(answer.rows, available, rows)
    BY <2>1, AddNeighboursIs
  <2>5. rows # <<>> /\ rows[1] = answer.rows[1]
    <3>1. Len(answer.rows) \in Nat \ {0} /\ Len(rows) \in Nat
      BY <2>1, <2>2, <2>4
    <3>2. Len(answer.rows) <= Len(rows) /\ \A i \in 1..Len(answer.rows) : rows[i] = answer.rows[i]
      BY <2>4 DEF WithNeighbours
    <3>3. Len(rows) # 0 /\ 1 \in 1..Len(answer.rows)
      BY <3>1, <3>2
    <3>. QED BY <2>4, <3>2, <3>3
  <2>6. PICK at : InRuns(runs, at, order, rows)
    BY <2>1, <2>4, RowsInRuns
  <2>. HIDE DEF order, context
  <2>7. /\ Len(runs) \in Nat /\ Len(context) = Len(runs)
        /\ \A i \in 1..Len(runs) :
              /\ context[i].document = runs[i][1].document
              /\ context[i].first = runs[i][1].index
              /\ context[i].last = runs[i][Len(runs[i])].index
              /\ context[i].last = runs[i][1].index + (Len(runs[i]) - 1)
              /\ runs[i][1].index \in Nat
              /\ context[i].text = Stitch(runs[i])
              /\ i > 1 /\ runs[i - 1][Len(runs[i - 1])].document = runs[i][1].document =>
                    context[i].missing = <<runs[i - 1][Len(runs[i - 1])].index + 1, runs[i][1].index - 1>>
    <3>1. /\ Len(runs) \in Nat /\ ExcerptsOf(context, runs)
          /\ \A i \in 1..Len(runs) : /\ runs[i][Len(runs[i])].index = runs[i][1].index + (Len(runs[i]) - 1)
                                     /\ runs[i][1].index \in Nat
      BY <2>1, <2>3, <2>4, <2>6, ExcerptsAre
    <3>. HIDE DEF runs
    <3>. QED BY <3>1 DEF ExcerptsOf
  <2>. HIDE DEF runs
  <2>8. entries = 1..Len(runs)
    BY <2>7
  <2>9. ASSUME NEW i \in entries
        PROVE  /\ \A m \in 1..Len(runs[i]) : Covers(context[i], runs[i][m])
               /\ \A n \in context[i].first..context[i].last :
                     \E m \in 1..Len(runs[i]) : Place(runs[i][m]) = <<context[i].document, n>>
    <3>1. /\ i \in 1..Len(runs)
          /\ context[i].document = runs[i][1].document /\ context[i].first = runs[i][1].index
          /\ runs[i][1].index \in Nat /\ context[i].last = runs[i][1].index + (Len(runs[i]) - 1)
      BY <2>7, <2>8
    <3>. QED BY <2>6, <3>1, RunIsCovered
  <2>10. \A i \in entries : /\ runs[i] \in Seq(Range(rows)) /\ runs[i] # <<>>
                            /\ \A m \in 1..Len(runs[i]) : runs[i][m] \in Range(rows)
    <3>1. \A i \in 1..Len(runs) : /\ runs[i] \in Seq(Range(rows)) /\ Len(runs[i]) \in Nat \ {0}
                                  /\ \A m \in 1..Len(runs[i]) : runs[i][m] \in Range(rows)
      BY <2>6 DEF InRuns
    <3>2. \A i \in 1..Len(runs) : runs[i] # <<>>
      BY <3>1
    <3>. QED BY <2>8, <3>1, <3>2
  <2>11. Table(Range(rows))
    BY <2>1, <2>4, RangeOfRows, PartOfATable
  <2>12. ASSUME NEW chunk \in Range(rows)
         PROVE  \E i \in entries : /\ Covers(context[i], chunk)
                                   /\ \A j \in entries \ {i} : ~Covers(context[j], chunk)
                                   /\ Holds(context[i].text, Characters(chunk.content))
    <3>1. PICK i \in 1..Len(runs) :
             \E m \in 1..Len(runs[i]) :
                /\ runs[i][m] = chunk
                /\ \A j \in 1..Len(runs) : \A l \in 1..Len(runs[j]) : Place(runs[j][l]) = Place(chunk) => j = i
      <4>1. InOneRun(runs, chunk)
        BY <2>1, <2>4, <2>6, EveryRowIsInOneRun
      <4>. QED BY <4>1 DEF InOneRun
    <3>2. PICK m \in 1..Len(runs[i]) :
             /\ runs[i][m] = chunk
             /\ \A j \in 1..Len(runs) : \A l \in 1..Len(runs[j]) : Place(runs[j][l]) = Place(chunk) => j = i
      BY <3>1, Zenon
    <3>3. i \in entries
      BY <2>8
    <3>4. Covers(context[i], chunk)
      BY <2>9, <3>2, <3>3
    <3>5. ASSUME NEW j \in entries \ {i} PROVE ~Covers(context[j], chunk)
      <4>. SUFFICES ASSUME Covers(context[j], chunk) PROVE FALSE
        OBVIOUS
      <4>1. chunk.document = context[j].document /\ chunk.index \in context[j].first..context[j].last
        BY DEF Covers
      <4>2. PICK l \in 1..Len(runs[j]) : Place(runs[j][l]) = <<context[j].document, chunk.index>>
        BY <2>9, <4>1
      <4>3. Place(runs[j][l]) = Place(chunk)
        BY <4>1, <4>2 DEF Place
      <4>. QED BY <2>8, <3>2, <4>3
    <3>6. Holds(Stitch(runs[i]), Characters(runs[i][m].content))
      <4>1. runs[i] \in Seq(Range(rows)) /\ runs[i] # <<>>
        BY <2>10, <3>3
      <4>. DEFINE run == runs[i]
                  shown == Range(rows)
      <4>2. run \in Seq(shown) /\ run # <<>> /\ m \in 1..Len(run) /\ Table(shown)
        BY <2>11, <4>1
      <4>. HIDE DEF run, shown
      <4>3. Holds(Stitch(run), Characters(run[m].content))
        BY <4>2, StitchHolds
      <4>. QED BY <4>3 DEF run
    <3>7. Holds(context[i].text, Characters(chunk.content))
      BY <2>7, <3>2, <3>6
    <3>. QED BY <3>3, <3>4, <3>5, <3>7
  <2>13. context[1].document = answer.rows[1].document
    <3>1. 1 \in 1..Len(runs) /\ runs[1][1].document = rows[1].document
      BY <2>4, <2>5, <2>6, FirstExcerpt
    <3>. QED BY <2>5, <2>7, <3>1
  <2>14. ASSUME NEW i \in entries, NEW j \in entries, i < j, context[i].document = context[j].document
         PROVE  /\ context[j - 1].document = context[j].document
                /\ context[i].last < context[j].first
                /\ context[j].missing = <<context[j - 1].last + 1, context[j].first - 1>>
                /\ context[j].missing[1] <= context[j].missing[2]
    <3>1. i \in 1..Len(runs) /\ j \in 1..Len(runs) /\ runs[i][1].document = runs[j][1].document
      BY <2>7, <2>8, <2>14
    <3>2. /\ j - 1 \in 1..Len(runs) /\ j > 1
          /\ runs[j - 1][1].document = runs[j][1].document
          /\ runs[j - 1][Len(runs[j - 1])].document = runs[j][1].document
          /\ runs[i][Len(runs[i])].index < runs[j][1].index
          /\ runs[j - 1][Len(runs[j - 1])].index + 1 <= runs[j][1].index - 1
      BY <2>1, <2>4, <2>6, <2>14, <3>1, ExcerptsOfADocument
    <3>. DEFINE k == j - 1
    <3>3. k \in 1..Len(runs) /\ context[k].document = runs[k][1].document
          /\ context[k].last = runs[k][Len(runs[k])].index
      BY <2>7, <3>2
    <3>4. context[j].missing = <<runs[k][Len(runs[k])].index + 1, runs[j][1].index - 1>>
      BY <2>7, <3>1, <3>2
    <3>. HIDE DEF k
    <3>5. context[k].document = context[j].document /\ context[i].last < context[j].first
      BY <2>7, <3>1, <3>2, <3>3 DEF k
    <3>6. context[j].missing = <<context[k].last + 1, context[j].first - 1>>
      BY <2>7, <3>1, <3>3, <3>4
    <3>7. context[j].missing[1] <= context[j].missing[2]
      BY <3>2, <3>4 DEF k
    <3>. QED BY <3>5, <3>6, <3>7 DEF k
  <2>15. ASSUME NEW i \in entries, NEW n \in context[i].first..context[i].last
         PROVE  \E chunk \in Range(rows) : Place(chunk) = <<context[i].document, n>>
    <3>1. PICK m \in 1..Len(runs[i]) : Place(runs[i][m]) = <<context[i].document, n>>
      BY <2>9
    <3>. QED BY <2>10, <3>1
  <2>. QED BY <2>12, <2>13, <2>14, <2>15 DEF ReadInOrder, rows, context
<1>2. ASSUME AnswersInv PROVE ReadInOrder
  <2>1. CASE Answered /\ request.kind = "query"
    BY <1>1, <1>2, <2>1
  <2>2. CASE ~(Answered /\ request.kind = "query")
    BY <2>2 DEF ReadInOrder
  <2>. QED BY <2>1, <2>2
<1>. QED BY <1>2, AlwaysAnswersInv, PTL


-----------------------------------------------------------------------------
(* The chunks of a page are told as the page is. *)

\* The places of a page, without the words that can be mistaken; those of words it has once; and
\* the pairs of words it has once and one before the other.
ToldIn(page) == {x \in PlacesIn(page) : ~Mistakable(page[x[1]][x[2]].word, page)}
OnceIn(page) == {x \in ToldIn(page) :
                    \A y \in ToldIn(page) \ {x} : page[y[1]][y[2]].word # page[x[1]][x[2]].word}
WordsOf(page) == {page[x[1]][x[2]].word : x \in ToldIn(page)}
OrderOf(page) ==
    {pair \in WordsOf(page) \X WordsOf(page) :
        \E x, y \in OnceIn(page) : /\ Earlier(x, y)
                                   /\ page[x[1]][x[2]].word = pair[1]
                                   /\ page[y[1]][y[2]].word = pair[2]}

\* What WordsAreTexts says of a page.
OneTextEach(page) ==
    \A paragraph, other \in Range(page) : \A u \in Range(paragraph), v \in Range(other) :
        u.word = v.word => u.to = v.to

LEMMA PlacesAre ==
    ASSUME NEW page \in Texts
    PROVE  /\ \A k \in 1..Len(page) : \A i \in 1..Len(page[k]) : <<k, i>> \in PlacesIn(page)
           /\ \A x \in PlacesIn(page) : \E k \in 1..Len(page) : \E i \in 1..Len(page[k]) : x = <<k, i>>
           /\ \A k \in 1..Len(page) : /\ page[k] \in Seq(Units) /\ page[k] \in Range(page)
                                      /\ \A i \in 1..Len(page[k]) : /\ page[k][i] \in Range(page[k])
                                                                    /\ page[k][i] \in Units
                                                                    /\ page[k][i].from = 0
<1>1. DOMAIN page = 1..Len(page) /\ \A k \in 1..Len(page) : page[k] \in Paragraphs
  <2>. HIDE DEF Paragraphs
  <2>. QED BY DEF Texts
<1>2. ASSUME NEW k \in 1..Len(page)
      PROVE  /\ page[k] \in Seq(Units) /\ DOMAIN page[k] = 1..Len(page[k])
             /\ \A i \in 1..Len(page[k]) : page[k][i] \in Units /\ page[k][i].from = 0
  <2>. DEFINE paragraph == page[k]
              S == {unit \in Units : unit.from = 0 /\ unit.ends # "blank"}
  <2>1. paragraph \in Seq(S)
    BY <1>1 DEF Paragraphs
  <2>2. \A unit \in S : unit \in Units /\ unit.from = 0
    OBVIOUS
  <2>. HIDE DEF paragraph, S
  <2>3. /\ DOMAIN paragraph = 1..Len(paragraph) /\ Len(paragraph) \in Nat
        /\ \A i \in 1..Len(paragraph) : paragraph[i] \in S
        /\ paragraph = [i \in 1..Len(paragraph) |-> paragraph[i]]
    BY <2>1
  <2>4. \A i \in 1..Len(paragraph) : paragraph[i] \in Units /\ paragraph[i].from = 0
    BY <2>2, <2>3
  <2>5. paragraph \in Seq(Units)
    BY <2>3, <2>4
  <2>. QED BY <2>3, <2>4, <2>5 DEF paragraph
<1>3. \A k \in 1..Len(page) : page[k] \in Range(page)
  BY <1>1 DEF Range
<1>4. \A k \in 1..Len(page) : \A i \in 1..Len(page[k]) : page[k][i] \in Range(page[k])
  BY <1>2 DEF Range
<1>5. \A k \in 1..Len(page) : \A i \in 1..Len(page[k]) : <<k, i>> \in PlacesIn(page)
  BY <1>1, <1>2 DEF PlacesIn
<1>6. ASSUME NEW x \in PlacesIn(page)
      PROVE  \E k \in 1..Len(page) : \E i \in 1..Len(page[k]) : x = <<k, i>>
  <2>1. PICK k \in 1..Len(page) : x \in {k} \X DOMAIN page[k]
    BY <1>1 DEF PlacesIn
  <2>2. PICK i \in DOMAIN page[k] : x = <<k, i>>
    BY <2>1
  <2>. QED BY <1>2, <2>2
<1>. QED BY <1>2, <1>3, <1>4, <1>5, <1>6

\* A place that has the word of a place the page has once is that place.
LEMMA OnceIs ==
    ASSUME NEW page \in Texts, NEW x \in OnceIn(page), NEW k \in 1..Len(page), NEW i \in 1..Len(page[k]),
           page[k][i].word = page[x[1]][x[2]].word
    PROVE  x = <<k, i>>
<1>1. <<k, i>> \in PlacesIn(page)
  BY PlacesAre
<1>2. x \in ToldIn(page) /\ ~Mistakable(page[x[1]][x[2]].word, page)
  BY DEF OnceIn, ToldIn
<1>3. ~Mistakable(page[k][i].word, page)
  BY <1>2
<1>4. <<k, i>> \in ToldIn(page)
  BY <1>1, <1>3 DEF ToldIn
<1>5. <<k, i>>[1] = k /\ <<k, i>>[2] = i
  OBVIOUS
<1>. QED BY <1>4, <1>5 DEF OnceIn

LEMMA PageIsInTurn ==
    ASSUME NEW page \in Texts, OneTextEach(page)
    PROVE  /\ About(OrderOf(page), WordsOf(page)) /\ Unmistaken(WordsOf(page), PartsOf(page))
           /\ OnePartEach(PartsOf(page))
           /\ InTurn(OrderOf(page), {}, page)
           /\ \A k \in 1..Len(page) : Tidy(OrderOf(page), page[k])
<1>. DEFINE B == OrderOf(page)
            W == WordsOf(page)
<1>1. About(B, W)
  BY DEF About, OrderOf
<1>2. Unmistaken(W, PartsOf(page))
  <2>. SUFFICES ASSUME NEW w \in W, NEW p \in PartsOf(page) PROVE <<w, p[1]>> \notin Begins \cup Ends
    BY DEF Unmistaken
  <2>1. PICK k \in 1..Len(page) : \E i \in 1..Len(page[k]) :
                p = <<page[k][i].word, page[k][i].from, page[k][i].to>>
    BY DEF PartsOf, Parts
  <2>2. PICK i \in 1..Len(page[k]) : p = <<page[k][i].word, page[k][i].from, page[k][i].to>>
    BY <2>1
  <2>3. <<k, i>> \in PlacesIn(page) /\ <<k, i>>[1] = k /\ <<k, i>>[2] = i
    BY PlacesAre
  <2>4. ~Mistakable(w, page)
    BY DEF WordsOf, ToldIn
  <2>5. <<w, page[k][i].word>> \notin Begins \cup Ends
    BY <2>3, <2>4 DEF Mistakable
  <2>. QED BY <2>2, <2>5
<1>3. OnePartEach(PartsOf(page))
  <2>1. ASSUME NEW p \in PartsOf(page)
        PROVE  \E k \in 1..Len(page) : \E i \in 1..Len(page[k]) :
                  p = <<page[k][i].word, page[k][i].from, page[k][i].to>>
    BY DEF PartsOf, Parts
  <2>2. ASSUME NEW p \in PartsOf(page), NEW q \in PartsOf(page), p[1] = q[1] PROVE p = q
    <3>1. PICK k \in 1..Len(page) : \E i \in 1..Len(page[k]) :
                  p = <<page[k][i].word, page[k][i].from, page[k][i].to>>
      BY <2>1
    <3>2. PICK i \in 1..Len(page[k]) : p = <<page[k][i].word, page[k][i].from, page[k][i].to>>
      BY <3>1
    <3>3. PICK l \in 1..Len(page) : \E j \in 1..Len(page[l]) :
                  q = <<page[l][j].word, page[l][j].from, page[l][j].to>>
      BY <2>1
    <3>4. PICK j \in 1..Len(page[l]) : q = <<page[l][j].word, page[l][j].from, page[l][j].to>>
      BY <3>3
    <3>5. /\ page[k] \in Range(page) /\ page[l] \in Range(page)
          /\ page[k][i] \in Range(page[k]) /\ page[l][j] \in Range(page[l])
          /\ page[k][i].from = 0 /\ page[l][j].from = 0
      BY PlacesAre
    <3>6. page[k][i].word = page[l][j].word
      BY <2>2, <3>2, <3>4
    <3>7. page[k][i].to = page[l][j].to
      BY <3>5, <3>6 DEF OneTextEach
    <3>. QED BY <3>2, <3>4, <3>5, <3>6, <3>7
  <2>3. ASSUME NEW p \in PartsOf(page) PROVE p[2] \in Nat /\ p[3] \in Nat
    <3>1. PICK k \in 1..Len(page) : \E i \in 1..Len(page[k]) :
                  p = <<page[k][i].word, page[k][i].from, page[k][i].to>>
      BY <2>1
    <3>2. PICK i \in 1..Len(page[k]) : p = <<page[k][i].word, page[k][i].from, page[k][i].to>>
      BY <3>1
    <3>3. page[k][i] \in Units
      BY PlacesAre
    <3>. QED BY <3>2, <3>3 DEF Units
  <2>. QED BY <2>2, <2>3 DEF OnePartEach
\* Where the words of a pair are, there are the two places the page has them once.
<1>4. ASSUME NEW v, NEW w, <<v, w>> \in B
      PROVE  \E x, y \in OnceIn(page) : /\ Earlier(x, y)
                                        /\ page[x[1]][x[2]].word = v /\ page[y[1]][y[2]].word = w
  BY <1>4 DEF OrderOf
<1>. HIDE DEF B
<1>5. ASSUME NEW k \in 1..Len(page), NEW i \in 1..Len(page[k]), NEW v, <<v, page[k][i].word>> \in B
      PROVE  v \in {} \cup Told(page, k - 1) \/ \E a \in 1..(i - 1) : page[k][a].word = v
  <2>1. PICK x \in OnceIn(page), y \in OnceIn(page) :
                /\ Earlier(x, y)
                /\ page[x[1]][x[2]].word = v /\ page[y[1]][y[2]].word = page[k][i].word
    BY <1>4, <1>5
  <2>2. y = <<k, i>>
    BY <2>1, OnceIs
  <2>3. x \in PlacesIn(page)
    BY DEF OnceIn, ToldIn
  <2>4. PICK l \in 1..Len(page) : \E a \in 1..Len(page[l]) : x = <<l, a>>
    BY <2>3, PlacesAre
  <2>5. PICK a \in 1..Len(page[l]) : x = <<l, a>>
    BY <2>4
  <2>6. page[l][a].word = v /\ (l < k \/ (l = k /\ a < i))
    BY <2>1, <2>2, <2>5 DEF Earlier
  <2>7. CASE l < k
    <3>1. l \in 1..(k - 1)
      BY <2>7
    <3>2. v \in Says(page[l])
      BY <2>6 DEF Says
    <3>. QED BY <3>1, <3>2 DEF Told
  <2>8. CASE l = k /\ a < i
    <3>1. a \in 1..(i - 1)
      BY <2>8
    <3>. QED BY <2>6, <2>8, <3>1
  <2>. QED BY <2>6, <2>7, <2>8
<1>6. InTurn(B, {}, page)
  BY <1>5 DEF InTurn, Introduced
<1>7. ASSUME NEW k \in 1..Len(page), NEW a \in 1..Len(page[k]), NEW b \in 1..Len(page[k]),
             <<page[k][a].word, page[k][b].word>> \in B
      PROVE  a < b
  <2>1. PICK x \in OnceIn(page), y \in OnceIn(page) :
                /\ Earlier(x, y)
                /\ page[x[1]][x[2]].word = page[k][a].word /\ page[y[1]][y[2]].word = page[k][b].word
    BY <1>4, <1>7
  <2>2. x = <<k, a>> /\ y = <<k, b>>
    BY <2>1, OnceIs
  <2>. QED BY <2>1, <2>2 DEF Earlier
<1>8. \A k \in 1..Len(page) : Tidy(B, page[k])
  BY <1>7 DEF Tidy
<1>. QED BY <1>1, <1>2, <1>3, <1>6, <1>8 DEF B

LEMMA PageTells ==
    ASSUME NEW page \in Texts, OneTextEach(page)
    PROVE  Carries(OrderOf(page), PartsOf(page), ChunkText(page))
BY PageIsInTurn, ChunkTextTells

-----------------------------------------------------------------------------
(* Where the chunks of a page are among those of its document. *)

PageAt(document, p, start) ==
    LET chunks == PagedChunks(document)
        contents == ChunkText(document.pages[p])
    IN /\ start \in Nat /\ Len(contents) \in Nat
       /\ \A m \in 1..Len(contents) : /\ start + m \in 1..Len(chunks)
                                      /\ chunks[start + m] = [page |-> p, content |-> contents[m]]
       /\ \A k \in 1..Len(chunks) :
              chunks[k].page = p => \E m \in 1..Len(contents) : k = start + m

LEMMA PagesLaidOut ==
    ASSUME NEW document \in Documents, NEW p \in 1..Len(document.pages)
    PROVE  \E start : PageAt(document, p, start)
<1>. DEFINE pages == document.pages
            n == Len(pages)
            cut(q) == ChunkText(pages[q])
            each == [q \in 1..n |-> [k \in 1..Len(cut(q)) |-> [page |-> q, content |-> cut(q)[k]]]]
            chunks == PagedChunks(document)
<1>1. n \in Nat /\ \A q \in 1..n : pages[q] \in Texts
  <2>1. pages \in Seq(Texts)
    BY DEF Documents
  <2>. HIDE DEF pages
  <2>. QED BY <2>1
<1>2. ASSUME NEW q \in 1..n PROVE cut(q) \in Seq(Kept) /\ Len(cut(q)) \in Nat
  <2>. DEFINE text == pages[q]
  <2>1. text \in Texts
    BY <1>1
  <2>. HIDE DEF text
  <2>2. ChunkText(text) \in Seq(Kept)
    BY <2>1, ChunkTextIs
  <2>3. Len(ChunkText(text)) \in Nat
    BY <2>2
  <2>. QED BY <2>2, <2>3 DEF text
<1>3. chunks = FlattenSeq(each)
  BY DEF PagedChunks
<1>. HIDE DEF pages, n, cut
<1>0. p \in 1..n
  BY DEF n, pages
<1>4. /\ Len(each) = n
      /\ \A q \in 1..n : Len(each[q]) = Len(cut(q))
      /\ \A q \in 1..n : \A k \in 1..Len(cut(q)) : each[q][k] = [page |-> q, content |-> cut(q)[k]]
  BY <1>1, <1>2
<1>5. each \in Seq(Seq(Paged))
  <2>1. ASSUME NEW q \in 1..n PROVE each[q] \in Seq(Paged)
    <3>1. \A k \in 1..Len(cut(q)) : [page |-> q, content |-> cut(q)[k]] \in Paged
      BY <1>1, <1>2 DEF Paged
    <3>. QED BY <1>2, <3>1
  <2>. QED BY <1>1, <2>1
<1>. HIDE DEF each, chunks
<1>6. \E h : LaidOut(h, each, chunks)
  BY <1>3, <1>5, FlattenedPlaces
<1>7. PICK h : LaidOut(h, each, chunks)
  BY <1>6
<1>. DEFINE w == [q \in 1..n |-> Len(each[q])]
<1>8. /\ Adds(h, w, n) /\ Len(chunks) = h[n]
      /\ \A q \in 1..n : \A k \in 1..Len(each[q]) : chunks[h[q - 1] + k] = each[q][k]
      /\ \A q \in 1..n : w[q] = Len(cut(q))
  BY <1>4, <1>7 DEF LaidOut
<1>9. (\A q \in 0..n : h[q] \in Nat) /\ p - 1 \in 0..n /\ p \in 0..n /\ n \in 0..n /\ p <= n
  <2>1. n \in Nat
    BY <1>1
  <2>2. p - 1 \in 0..n /\ p \in 0..n /\ n \in 0..n /\ p <= n
    BY <1>0, <2>1
  <2>3. h \in [0..n -> Nat]
    BY <1>8 DEF Adds
  <2>. QED BY <2>2, <2>3
<1>. HIDE DEF w
<1>10. h[p] = h[p - 1] + Len(cut(p)) /\ h[p] <= h[n]
  <2>1. h[p] = h[p - 1] + w[p]
    BY <1>0, <1>8 DEF Adds
  <2>2. h[p] <= h[n]
    BY <1>8, <1>9, SumsGrow
  <2>. QED BY <1>0, <1>8, <2>1, <2>2
<1>11. \A m \in 1..Len(cut(p)) : /\ h[p - 1] + m \in 1..Len(chunks)
                                 /\ chunks[h[p - 1] + m] = [page |-> p, content |-> cut(p)[m]]
  <2>. SUFFICES ASSUME NEW m \in 1..Len(cut(p))
                PROVE  /\ h[p - 1] + m \in 1..Len(chunks)
                       /\ chunks[h[p - 1] + m] = [page |-> p, content |-> cut(p)[m]]
    OBVIOUS
  <2>1. Len(cut(p)) \in Nat /\ h[p - 1] \in Nat /\ h[p] \in Nat /\ h[n] \in Nat
    BY <1>0, <1>2, <1>9
  <2>2. h[p - 1] + m \in 1..h[n]
    BY <1>10, <2>1
  <2>3. m \in 1..Len(each[p])
    BY <1>0, <1>4
  <2>. QED BY <1>0, <1>4, <1>8, <2>2, <2>3
<1>12. ASSUME NEW j \in 1..Len(chunks), chunks[j].page = p
       PROVE  \E m \in 1..Len(cut(p)) : j = h[p - 1] + m
  <2>1. PICK q \in 1..n : \E k \in 1..w[q] : j = h[q - 1] + k
    <3>1. EachInAPart(h, w, n)
      BY <1>8, PlacesInParts
    <3>2. j \in 1..h[n]
      BY <1>8
    <3>. QED BY <3>1, <3>2 DEF EachInAPart
  <2>2. PICK k \in 1..w[q] : j = h[q - 1] + k
    BY <2>1
  <2>3. k \in 1..Len(cut(q)) /\ k \in 1..Len(each[q])
    BY <1>4, <1>8, <2>2
  <2>4. chunks[j] = [page |-> q, content |-> cut(q)[k]]
    BY <1>4, <1>8, <2>2, <2>3
  <2>5. q = p
    BY <1>12, <2>4
  <2>. QED BY <2>2, <2>3, <2>5
<1>13. h[p - 1] \in Nat /\ Len(cut(p)) \in Nat
  BY <1>0, <1>2, <1>9
<1>14. PageAt(document, p, h[p - 1])
  BY <1>11, <1>12, <1>13 DEF PageAt, chunks, cut, pages
<1>. QED BY <1>14

-----------------------------------------------------------------------------
(* Documents are stored whole: a document that has a chunk stored has all of them. *)

Whole ==
    \A c \in stored : \A k \in 1..Len(PagedChunks(DocumentOf(c.document))) :
        \E d \in stored : d.document = c.document /\ d.index = k - 1

LEMMA StoreUploadKeepsWhole ==
    ASSUME AnswersInv, Whole, StoreUpload
    PROVE  Whole'
<1>. DEFINE chunks == PagedChunks(DocumentOf(uploaded))
            rows == StoredChunks(uploaded, chunks)
<1>1. /\ request.document = uploaded /\ request.chunks = chunks
      /\ uploaded \in 1..Len(session.uploads) /\ \A c \in stored : c.document < uploaded
  BY DEF AnswersInv, UploadInv, AtWork, StoreUpload
<1>2. stored' = stored \cup rows /\ session' = session
  BY <1>1 DEF StoreUpload
<1>3. DOMAIN chunks = 1..Len(chunks)
  <2>1. chunks \in Seq(Paged)
    BY <1>1, Documented DEF AnswersInv
  <2>. HIDE DEF chunks
  <2>. QED BY <2>1
<1>4. \A c \in rows : c.document = uploaded
  BY DEF StoredChunks
<1>. HIDE DEF chunks
<1>5. ASSUME NEW k \in 1..Len(chunks)
      PROVE  \E d \in rows : d.document = uploaded /\ d.index = k - 1
  <2>. DEFINE document == DocumentOf(uploaded)
              row == [document |-> uploaded,
                      index |-> k - 1,
                      page |-> IF document.pdf THEN chunks[k].page ELSE None,
                      content |-> chunks[k].content,
                      embedding |-> values[k],
                      groups |-> document.groups]
  <2>1. row \in rows
    BY <1>3 DEF StoredChunks
  <2>2. row.document = uploaded /\ row.index = k - 1
    OBVIOUS
  <2>. QED BY <2>1, <2>2
<1>. HIDE DEF rows
<1>6. \A c : PagedChunks(DocumentOf(c.document))' = PagedChunks(DocumentOf(c.document))
  BY <1>2 DEF DocumentOf
<1>7. ASSUME NEW c \in stored', NEW k \in 1..Len(PagedChunks(DocumentOf(c.document)))
      PROVE  \E d \in stored' : d.document = c.document /\ d.index = k - 1
  <2>1. CASE c \in stored
    BY <1>2, <2>1 DEF Whole
  <2>2. CASE c \in rows
    <3>1. c.document = uploaded /\ k \in 1..Len(chunks)
      BY <1>4, <2>2 DEF chunks
    <3>. QED BY <1>2, <1>5, <3>1
  <2>. QED BY <1>2, <2>1, <2>2
<1>. QED BY <1>6, <1>7 DEF Whole

LEMMA AlwaysWhole == Spec => []Whole
<1>1. Init => Whole
  BY DEF Init, Whole
<1>2. AnswersInv /\ Whole /\ [Next]_answersVars => Whole'
  <2>. SUFFICES ASSUME AnswersInv, Whole, [Next]_answersVars PROVE Whole'
    OBVIOUS
  <2>1. CASE StoreUpload
    BY <2>1, StoreUploadKeepsWhole
  <2>2. CASE UNCHANGED <<session, stored>>
    BY <2>2 DEF Whole, DocumentOf
  <2>3. CASE CutUpload \/ Ask \/ Search \/ Answer
    BY <2>2, <2>3 DEF CutUpload, Ask, Search, Answer
  <2>4. CASE EmbeddingStep /\ UNCHANGED <<session, stored, uploaded, request, found, answer>>
    BY <2>2, <2>4
  <2>5. CASE UNCHANGED answersVars
    BY <2>2, <2>5 DEF answersVars
  <2>. QED BY <2>1, <2>3, <2>4, <2>5 DEF Next
<1>. QED BY <1>1, <1>2, AlwaysAnswersInv, PTL DEF Spec

-----------------------------------------------------------------------------
(* Nothing of the text is lost. *)

\* The stored chunks of a page are the chunks its text was cut into, one each, in their order.
LEMMA StoredPage ==
    ASSUME AnswersInv, Whole, NEW number \in 1..uploaded, NEW p \in PagesOf(number)
    PROVE  LET document == DocumentOf(number)
               contents == ChunkText(document.pages[p])
           IN /\ document.pages[p] \in Texts /\ OneTextEach(document.pages[p])
              /\ contents \in Seq(Kept)
              /\ \E start \in Nat :
                    /\ \A m \in 1..Len(contents) :
                          \E d \in stored : /\ OfPage(d, number, p)
                                            /\ d.index = start + m - 1 /\ d.content = contents[m]
                    /\ \A c \in stored : OfPage(c, number, p) =>
                          \E m \in 1..Len(contents) : c.index = start + m - 1 /\ c.content = contents[m]
<1>. DEFINE document == DocumentOf(number)
            page == document.pages[p]
            contents == ChunkText(page)
            chunks == PagedChunks(document)
<1>1. RequestInv /\ number \in 1..Len(session.uploads)
  <2>1. RequestInv
    BY DEF AnswersInv
  <2>2. Len(session.uploads) \in Nat /\ uploaded \in 0..Len(session.uploads)
    BY <2>1, Documented DEF RequestInv
  <2>. QED BY <2>1, <2>2
<1>2. document \in Documents /\ chunks \in Seq(Paged)
  BY <1>1, Documented
<1>3. p \in 1..Len(document.pages) /\ \E c \in stored : c.document = number
  BY DEF PagesOf
<1>4. document.pages \in Seq(Texts) /\ (document.pdf \/ Len(document.pages) <= 1)
  BY <1>2 DEF Documents
<1>5. page \in Texts /\ page \in Range(document.pages)
  <2>. DEFINE pages == document.pages
  <2>1. pages \in Seq(Texts) /\ p \in 1..Len(pages)
    BY <1>3, <1>4
  <2>. HIDE DEF pages
  <2>2. pages[p] \in Texts /\ p \in DOMAIN pages
    BY <2>1
  <2>. QED BY <2>2 DEF pages, Range
<1>6. OneTextEach(page)
  <2>1. session \in Sessions
    BY <1>1 DEF RequestInv
  <2>2. session.uploads \in Seq(Documents)
    BY <2>1, SessionsAssumption
  <2>3. number \in DOMAIN session.uploads
    BY <1>1, <2>2
  <2>4. document \in Range(session.uploads)
    BY <2>3 DEF DocumentOf, Range
  <2>. QED BY <1>5, <2>1, <2>4, WordsAreTexts DEF OneTextEach
<1>7. contents \in Seq(Kept)
  <2>. HIDE DEF page
  <2>. QED BY <1>5, ChunkTextIs
<1>8. PICK start : PageAt(document, p, start)
  BY <1>2, <1>3, PagesLaidOut
<1>9. /\ start \in Nat /\ Len(contents) \in Nat
      /\ \A m \in 1..Len(contents) : /\ start + m \in 1..Len(chunks)
                                     /\ chunks[start + m] = [page |-> p, content |-> contents[m]]
      /\ \A k \in 1..Len(chunks) : chunks[k].page = p => \E m \in 1..Len(contents) : k = start + m
  BY <1>8 DEF PageAt
\* A chunk of the document is of the page if it was cut from it, and the other way round.
<1>10. ASSUME NEW c \in stored, c.document = number
       PROVE  /\ c.index \in Nat /\ c.index + 1 \in 1..Len(chunks)
              /\ c.content = chunks[c.index + 1].content
              /\ c.page \in {None, p} <=> chunks[c.index + 1].page = p
  <2>. DEFINE k == c.index + 1
  <2>1. /\ c.index \in Nat
        /\ k \in 1..Len(chunks) /\ c.content = chunks[k].content
        /\ c.page = IF document.pdf THEN chunks[k].page ELSE None
        /\ chunks[k] \in Paged
    BY <1>10, StoredChunkIs
  <2>. HIDE DEF chunks, k
  <2>2. CASE document.pdf
    <3>1. c.page = chunks[k].page /\ chunks[k].page \in Nat
      BY <2>1, <2>2 DEF Paged
    <3>. QED BY <2>1, <3>1, NoneIsNoRank DEF k
  <2>3. CASE ~document.pdf
    <3>1. chunks[k].page \in 1..Len(document.pages)
      BY <1>2, <2>1, PagedChunksAre DEF chunks
    <3>2. Len(document.pages) \in Nat /\ Len(document.pages) <= 1
      BY <1>4, <2>3
    <3>3. chunks[k].page = p
      BY <1>3, <3>1, <3>2
    <3>. QED BY <2>1, <2>3, <3>3 DEF k
  <2>. QED BY <2>2, <2>3
<1>11. ASSUME NEW m \in 1..Len(contents)
       PROVE  \E d \in stored : /\ OfPage(d, number, p)
                                /\ d.index = start + m - 1 /\ d.content = contents[m]
  <2>. DEFINE k == start + m
  <2>1. k \in 1..Len(chunks) /\ chunks[k].page = p /\ chunks[k].content = contents[m]
    <3>. HIDE DEF chunks, contents
    <3>1. k \in 1..Len(chunks) /\ chunks[k] = [page |-> p, content |-> contents[m]]
      BY <1>9
    <3>. HIDE DEF k
    <3>. QED BY <3>1
  <2>2. PICK d \in stored : d.document = number /\ d.index = k - 1
    <3>1. PICK c \in stored : c.document = number
      BY <1>3
    <3>. HIDE DEF k
    <3>. QED BY <2>1, <3>1 DEF Whole
  <2>. HIDE DEF chunks, contents
  <2>3. d.index + 1 = k
    BY <1>9, <2>2
  <2>4. d.content = chunks[k].content /\ d.page \in {None, p}
    BY <1>10, <2>1, <2>2, <2>3
  <2>5. d.index = start + m - 1
    BY <1>9, <2>2
  <2>. HIDE DEF k
  <2>6. OfPage(d, number, p)
    BY <2>2, <2>4 DEF OfPage
  <2>7. d.content = contents[m]
    BY <2>1, <2>4
  <2>. QED BY <2>5, <2>6, <2>7
<1>12. ASSUME NEW c \in stored, OfPage(c, number, p)
       PROVE  \E m \in 1..Len(contents) : c.index = start + m - 1 /\ c.content = contents[m]
  <2>. DEFINE k == c.index + 1
  <2>. HIDE DEF chunks, contents
  <2>1. c.index \in Nat /\ k \in 1..Len(chunks) /\ c.content = chunks[k].content /\ chunks[k].page = p
    BY <1>10, <1>12 DEF OfPage
  <2>. HIDE DEF k
  <2>2. PICK m \in 1..Len(contents) : k = start + m
    BY <1>9, <2>1
  <2>3. c.content = contents[m]
    <3>1. chunks[start + m] = [page |-> p, content |-> contents[m]]
      BY <1>9
    <3>2. c.content = chunks[start + m].content
      BY <2>1, <2>2
    <3>. QED BY <3>1, <3>2
  <2>4. c.index = start + m - 1
    BY <1>9, <2>1, <2>2 DEF k
  <2>. QED BY <2>3, <2>4
<1>. QED BY <1>5, <1>6, <1>7, <1>9, <1>11, <1>12

LEMMA PageKept ==
    ASSUME AnswersInv, Whole, NEW number \in 1..uploaded, NEW p \in PagesOf(number)
    PROVE  LET page == DocumentOf(number).pages[p]
               chunks == {c \in stored : OfPage(c, number, p)}
               at(x) == page[x[1]][x[2]]
               has(part, x) == /\ part.word = at(x).word
                               /\ part.from = at(x).from /\ part.to = at(x).to
           IN /\ \A x \in PlacesIn(page) : \A n \in at(x).from..(at(x).to - 1) :
                     \E c \in chunks : \E part \in Range(c.content) :
                         \/ part.word = at(x).word /\ part.from <= n /\ n < part.to
                         \/ \E y \in PlacesIn(page) :
                               <<at(x).word, at(y).word>> \in Inside /\ has(part, y)
              /\ \A x, y \in OnceIn(page) : Earlier(x, y) =>
                     \A c \in chunks : \A j \in DOMAIN c.content :
                         c.content[j].word = page[y[1]][y[2]].word =>
                             \E d \in chunks : \E i \in DOMAIN d.content :
                                 /\ d.content[i].word = page[x[1]][x[2]].word
                                 /\ Earlier(<<d.index, i>>, <<c.index, j>>)
<1>. DEFINE page == DocumentOf(number).pages[p]
            contents == ChunkText(page)
            chunks == {c \in stored : OfPage(c, number, p)}
            B == OrderOf(page)
            W == WordsOf(page)
<1>1. page \in Texts /\ OneTextEach(page) /\ contents \in Seq(Kept)
  BY StoredPage
<1>2. PICK start \in Nat :
          /\ \A m \in 1..Len(contents) :
                \E d \in stored : /\ OfPage(d, number, p)
                                  /\ d.index = start + m - 1 /\ d.content = contents[m]
          /\ \A c \in stored : OfPage(c, number, p) =>
                \E m \in 1..Len(contents) : c.index = start + m - 1 /\ c.content = contents[m]
  BY StoredPage
<1>. HIDE DEF page
<1>3. Carries(B, PartsOf(page), contents)
  BY <1>1, PageTells
<1>. HIDE DEF contents, B, W
<1>4. /\ Len(contents) \in Nat
      /\ \A m \in 1..Len(contents) : DOMAIN contents[m] = 1..Len(contents[m]) /\ Len(contents[m]) \in Nat
  <2>1. Len(contents) \in Nat /\ \A m \in 1..Len(contents) : contents[m] \in Kept
    BY <1>1
  <2>2. \A content \in Kept : DOMAIN content = 1..Len(content) /\ Len(content) \in Nat
    BY DEF Kept
  <2>. QED BY <2>1, <2>2
<1>5. ASSUME NEW m \in 1..Len(contents)
      PROVE  \E d \in chunks : d.index = start + m - 1 /\ d.content = contents[m]
  BY <1>2
<1>6. ASSUME NEW c \in chunks
      PROVE  \E m \in 1..Len(contents) : c.index = start + m - 1 /\ c.content = contents[m]
  BY <1>2
<1>. HIDE DEF chunks
\* A part of the chunks is a part of a chunk that is stored.
<1>7. ASSUME NEW r \in PartsOf(contents)
      PROVE  \E c \in chunks : \E part \in Range(c.content) : r = <<part.word, part.from, part.to>>
  <2>1. PICK m \in 1..Len(contents) : r \in Parts(contents[m])
    BY DEF PartsOf
  <2>2. PICK a \in 1..Len(contents[m]) :
            r = <<contents[m][a].word, contents[m][a].from, contents[m][a].to>>
    BY <2>1 DEF Parts
  <2>3. PICK d \in chunks : d.content = contents[m]
    BY <1>5
  <2>4. contents[m][a] \in Range(d.content)
    BY <1>4, <2>3 DEF Range
  <2>. QED BY <2>2, <2>4
<1>8. ASSUME NEW x \in PlacesIn(page),
             NEW n \in page[x[1]][x[2]].from..(page[x[1]][x[2]].to - 1)
      PROVE  \E c \in chunks : \E part \in Range(c.content) :
                 \/ part.word = page[x[1]][x[2]].word /\ part.from <= n /\ n < part.to
                 \/ \E y \in PlacesIn(page) :
                       /\ <<page[x[1]][x[2]].word, page[y[1]][y[2]].word>> \in Inside
                       /\ part.word = page[y[1]][y[2]].word
                       /\ part.from = page[y[1]][y[2]].from /\ part.to = page[y[1]][y[2]].to
  <2>1. PICK k \in 1..Len(page) : \E i \in 1..Len(page[k]) : x = <<k, i>>
    BY <1>1, PlacesAre
  <2>2. PICK i \in 1..Len(page[k]) : x = <<k, i>>
    BY <2>1
  <2>. DEFINE u == page[k][i]
              q == <<u.word, u.from, u.to>>
  <2>3. page[x[1]][x[2]] = u
    BY <2>2
  <2>4. q \in PartsOf(page)
    BY DEF PartsOf, Parts
  <2>5. n \in q[2]..(q[3] - 1) /\ q[1] = u.word
    BY <2>3
  <2>. HIDE DEF u, q
  <2>6. \/ \E r \in PartsOf(contents) : r[1] = u.word /\ r[2] <= n /\ n < r[3]
        \/ Longer(PartsOf(contents), PartsOf(page), u.word)
    BY <1>3, <2>4, <2>5 DEF Carries, Covered
  <2>7. CASE \E r \in PartsOf(contents) : r[1] = u.word /\ r[2] <= n /\ n < r[3]
    <3>1. PICK r \in PartsOf(contents) : r[1] = u.word /\ r[2] <= n /\ n < r[3]
      BY <2>7
    <3>2. PICK c \in chunks : \E part \in Range(c.content) : r = <<part.word, part.from, part.to>>
      BY <1>7
    <3>3. PICK part \in Range(c.content) : r = <<part.word, part.from, part.to>>
      BY <3>2
    <3>4. part.word = u.word /\ part.from <= n /\ n < part.to
      BY <3>1, <3>3
    <3>. QED BY <2>3, <3>4
  <2>8. CASE Longer(PartsOf(contents), PartsOf(page), u.word)
    <3>1. PICK r \in PartsOf(contents) : r \in PartsOf(page) /\ <<u.word, r[1]>> \in Inside
      BY <2>8 DEF Longer
    <3>2. PICK c \in chunks : \E part \in Range(c.content) : r = <<part.word, part.from, part.to>>
      BY <1>7
    <3>3. PICK part \in Range(c.content) : r = <<part.word, part.from, part.to>>
      BY <3>2
    <3>4. PICK l \in 1..Len(page) : \E j \in 1..Len(page[l]) :
                  r = <<page[l][j].word, page[l][j].from, page[l][j].to>>
      BY <3>1 DEF PartsOf, Parts
    <3>5. PICK j \in 1..Len(page[l]) : r = <<page[l][j].word, page[l][j].from, page[l][j].to>>
      BY <3>4
    <3>. DEFINE y == <<l, j>>
    <3>6. y \in PlacesIn(page) /\ page[y[1]][y[2]] = page[l][j]
      BY <1>1, PlacesAre
    <3>. HIDE DEF y
    <3>7. /\ r[1] = page[l][j].word /\ r[2] = page[l][j].from /\ r[3] = page[l][j].to
      BY <3>5
    <3>8. r[1] = part.word /\ r[2] = part.from /\ r[3] = part.to
      BY <3>3
    <3>9. /\ part.word = page[l][j].word /\ part.from = page[l][j].from /\ part.to = page[l][j].to
          /\ <<u.word, page[l][j].word>> \in Inside
      BY <3>1, <3>7, <3>8
    <3>. QED BY <2>3, <3>6, <3>9
  <2>. QED BY <2>6, <2>7, <2>8
<1>9. ASSUME NEW x \in OnceIn(page), NEW y \in OnceIn(page), Earlier(x, y),
             NEW c \in chunks, NEW j \in DOMAIN c.content,
             c.content[j].word = page[y[1]][y[2]].word
      PROVE  \E d \in chunks : \E i \in DOMAIN d.content :
                 /\ d.content[i].word = page[x[1]][x[2]].word
                 /\ Earlier(<<d.index, i>>, <<c.index, j>>)
  <2>. DEFINE v == page[x[1]][x[2]].word
              w == page[y[1]][y[2]].word
  <2>1. <<v, w>> \in B
    <3>1. v \in W /\ w \in W
      BY DEF OnceIn, W, WordsOf
    <3>. QED BY <1>9, <3>1 DEF B, OrderOf, W
  <2>2. PICK m \in 1..Len(contents) : c.index = start + m - 1 /\ c.content = contents[m]
    BY <1>6
  <2>3. j \in 1..Len(contents[m]) /\ contents[m][j].word = w
    <3>1. j \in DOMAIN contents[m] /\ contents[m][j].word = w
      BY <1>9, <2>2
    <3>. HIDE DEF v, w
    <3>. QED BY <1>4, <3>1
  <2>. HIDE DEF v, w
  <2>4. v \in {} \cup Told(contents, m - 1) \/ \E a \in 1..(j - 1) : contents[m][a].word = v
    <3>1. InTurn(B, {}, contents)
      BY <1>3 DEF Carries
    <3>2. Introduced(B, {} \cup Told(contents, m - 1), contents[m])
      BY <3>1 DEF InTurn
    <3>3. <<v, contents[m][j].word>> \in B
      BY <2>1, <2>3
    <3>. QED BY <2>3, <3>2, <3>3 DEF Introduced
  <2>5. CASE \E a \in 1..(j - 1) : contents[m][a].word = v
    <3>1. PICK a \in 1..(j - 1) : contents[m][a].word = v
      BY <2>5
    <3>2. a \in DOMAIN c.content /\ a < j
      BY <1>4, <2>2, <2>3
    <3>3. Earlier(<<c.index, a>>, <<c.index, j>>)
      BY <3>2 DEF Earlier
    <3>4. c.content[a].word = v
      BY <2>2, <3>1
    <3>. QED BY <3>2, <3>3, <3>4 DEF v
  <2>6. CASE v \in Told(contents, m - 1)
    <3>1. PICK l \in 1..(m - 1) : v \in Says(contents[l])
      BY <2>6 DEF Told
    <3>2. l \in 1..Len(contents) /\ l < m
      BY <1>4
    <3>3. PICK a \in 1..Len(contents[l]) : contents[l][a].word = v
      BY <3>1 DEF Says
    <3>4. PICK d \in chunks : d.index = start + l - 1 /\ d.content = contents[l]
      BY <1>5, <3>2
    <3>5. d.index < c.index
      BY <2>2, <3>2, <3>4
    <3>6. Earlier(<<d.index, a>>, <<c.index, j>>)
      BY <3>5 DEF Earlier
    <3>7. a \in DOMAIN d.content /\ d.content[a].word = v
      BY <1>4, <3>2, <3>3, <3>4
    <3>. QED BY <3>6, <3>7 DEF v
  <2>. QED BY <2>4, <2>5, <2>6
<1>. QED BY <1>8, <1>9 DEF page, chunks

\* Whatever the text, the settings and the documents before: every character of every word of a
\* document that is stored is in one of its chunks, in that word or, where a heading is dropped
\* because its text stands in the next chunk, in a longer word of the page that is there whole and
\* has that text; and words first occur in the order of the text, but for those that begin or end
\* others of the page: however pieces are packed and cut in windows, overlaps are repeated,
\* headings carried and short chunks joined.
THEOREM NothingIsLost == Spec => []TextKept
<1>1. ASSUME AnswersInv, Whole PROVE TextKept
  BY <1>1, PageKept DEF TextKept, ToldIn, OnceIn
<1>. QED BY <1>1, AlwaysAnswersInv, AlwaysWhole, PTL
=============================================================================
