------------------------------- MODULE Answers -------------------------------
(***************************************************************************)
(* From uploaded text to the text an answer is made from: build_chunks     *)
(* with the chunks of Chunking and the vectors of Embeddings, and then     *)
(* POST /search and POST /query with Retrieval and Context. Requests come  *)
(* one after the other; what happens when they overlap is in Documents and *)
(* AnswerCache. The answer cache is off and the reranker is the default    *)
(* one, which only cuts the list (module Judge has the others).            *)
(***************************************************************************)
EXTENDS Context, Embeddings

CONSTANTS
    Sessions,   \* what clients do and how the service runs: [uploads: a sequence of documents,
                \* asks: whether a question follows, caching: Settings.embedding_cache_ttl > 0,
                \* changes: whether entries expire and the service restarts in between]
    Questions   \* of which one is asked: [kind, query, text, mode, top_k, scope]

\* parse_pages: only a PDF has more than one page.
Documents == {document \in [pages : Seq(Texts), pdf : BOOLEAN, groups : SUBSET STRING] :
                 document.pdf \/ Len(document.pages) <= 1}

ASSUME SessionsAssumption ==
    /\ Sessions \subseteq [uploads : Seq(Documents), asks : BOOLEAN, caching : BOOLEAN, changes : BOOLEAN]
    /\ Questions \subseteq [kind : {"search", "query"}, query : Queries, text : Seq(Units),
                            mode : {"vector", "keyword", "hybrid"}, top_k : Nat \ {0},
                            scope : {None} \cup SUBSET STRING]

\* A word is a text: wherever it stands in a page it has as many characters.
ASSUME WordsAreTexts ==
    \A s \in Sessions : \A document \in Range(s.uploads) : \A page \in Range(document.pages) :
        \A paragraph, other \in Range(page) : \A u \in Range(paragraph), v \in Range(other) :
            u.word = v.word => u.to = v.to

VARIABLES
    session,    \* the session that runs; a document is [pages, pdf, groups]
    stored,     \* the chunks in the database
    uploaded,   \* documents uploaded so far, failed ones included
    request,    \* the request at work, or the last one
    found,      \* what the arms gave it: [vector, keyword]
    answer      \* what it was answered: [candidates, rows, shown, explained, context]

answersVars == <<embeddingVars, step, session, stored, uploaded, request, found, answer>>

NothingFound == [vector |-> <<>>, keyword |-> <<>>]
NoAnswer == [candidates |-> <<>>, rows |-> <<>>, shown |-> <<>>,
             explained |-> <<>>, context |-> <<>>]

Init ==
    /\ session \in Sessions
    /\ EmbeddingInit
    /\ caching = session.caching
    /\ stored = {}
    /\ uploaded = 0
    /\ request = None
    /\ found = NothingFound
    /\ answer = NoAnswer

DocumentOf(number) == session.uploads[number]

\* The chunks of all pages, in order, each with its page.
PagedChunks(document) ==
    FlattenSeq([p \in 1..Len(document.pages) |->
        LET contents == ChunkText(document.pages[p])
        IN [k \in 1..Len(contents) |-> [page |-> p, content |-> contents[k]]]])

\* build_chunks, up to its call of the embedder.
CutUpload ==
    /\ step = "idle"
    /\ uploaded < Len(session.uploads)
    /\ uploaded' = uploaded + 1
    /\ request' = [kind |-> "upload", document |-> uploaded',
                   chunks |-> PagedChunks(DocumentOf(uploaded'))]
    /\ Embed([k \in DOMAIN request'.chunks |-> request'.chunks[k].content])
    /\ found' = NothingFound /\ answer' = NoAnswer
    /\ UNCHANGED <<session, stored>>

\* The rest of build_chunks, and the rows store_chunks adds.
StoredChunks(number, chunks) ==
    LET document == DocumentOf(number)
    IN {[document |-> number,
         index |-> k - 1,
         page |-> IF document.pdf THEN chunks[k].page ELSE None,
         content |-> chunks[k].content,
         embedding |-> values[k],
         groups |-> document.groups] : k \in DOMAIN chunks}

StoreUpload ==
    /\ step = "embedded" /\ request.kind = "upload"
    /\ stored' = stored \cup StoredChunks(request.document, request.chunks)
    /\ step' = "idle"
    /\ texts' = <<>> /\ values' = <<>>
    /\ UNCHANGED <<model, caching, vectors, fresh, session, uploaded, request, found, answer>>

\* A question arrives, and is embedded.
Ask ==
    /\ step = "idle"
    /\ session.asks /\ uploaded = Len(session.uploads) /\ request.kind = "upload"
    /\ \E question \in Questions :
          /\ request' = question
          /\ Embed(<<question.text>>)
    /\ found' = NothingFound /\ answer' = NoAnswer
    /\ UNCHANGED <<session, stored, uploaded>>

Keywords == KeywordSearch(stored, request.query, request.scope)

\* hybrid_search_with_provenance: one arm, or both.
Search ==
    /\ step = "embedded" /\ request.kind \in {"search", "query"}
    /\ \E vector \in IF request.mode = "keyword" THEN {<<>>} ELSE VectorSearch(stored, request.scope) :
       \E keyword \in IF request.mode = "vector" THEN {<<>>} ELSE Keywords :
          found' = [vector |-> vector, keyword |-> keyword]
    /\ step' = "found"
    /\ texts' = <<>> /\ values' = <<>>
    /\ UNCHANGED <<model, caching, vectors, fresh, session, stored, uploaded, request, answer>>

Fused == IF request.mode = "hybrid" THEN ReciprocalRankFusion(found.vector, found.keyword)
                                    ELSE found.vector \o found.keyword

\* POST /query shows neighbours too, POST /search does not.
Shown(rows) == IF request.kind = "query"
                  THEN AddNeighbours(rows, FetchNeighbours(stored, rows, request.scope))
                  ELSE rows

NoOpRerank(rows, top_k) == SubSeq(rows, 1, Min({top_k, Len(rows)}))

Answer ==
    /\ step = "found"
    /\ LET rows == NoOpRerank(Fused, request.top_k)
           shown == Shown(rows)
       IN answer' = [candidates |-> Fused,
                     rows |-> rows,
                     shown |-> shown,
                     explained |-> [i \in DOMAIN rows |->
                         RetrievalInfo(Fused, found.vector, found.keyword, rows[i])],
                     context |-> IF request.kind = "query" THEN BuildContext(shown) ELSE <<>>]
    /\ step' = "idle"
    /\ UNCHANGED <<embeddingVars, session, stored, uploaded, request, found>>

\* Expiry and restarts come between the uploads of a session that has them.
MayChange == session.changes /\ uploaded < Len(session.uploads)

Next == \/ CutUpload \/ StoreUpload \/ Ask \/ Search \/ Answer
        \/ /\ step # "idle" \/ MayChange
           /\ EmbeddingStep
           /\ UNCHANGED <<session, stored, uploaded, request, found, answer>>

Spec == Init /\ [][Next]_answersVars

-----------------------------------------------------------------------------
(* Properties of the chunks. *)

PagesOf(number) == {p \in 1..Len(DocumentOf(number).pages) : \E c \in stored : c.document = number}
OfPage(chunk, number, p) == chunk.document = number /\ chunk.page \in {None, p}

PlacesIn(page) == UNION {{k} \X DOMAIN page[k] : k \in DOMAIN page}
Earlier(x, y) == x[1] < y[1] \/ (x[1] = y[1] /\ x[2] < y[2])

\* A word whose text begins or ends another word of the page: Repeats can take the one for the
\* other, and a heading for repeated that is not.
Mistakable(word, page) ==
    \E x \in PlacesIn(page) : <<word, page[x[1]][x[2]].word>> \in Begins \cup Ends

\* "Every word of the text is in some chunk and the order is kept" (test_chunking.py:63), for
\* headings, overlaps, joined chunks and words cut in windows alike. Every character of every
\* word is in a chunk: in that word, or, as the code drops a heading whose text happens to stand
\* in the next chunk ("# API" before "## API keys"), in a longer word of the page that is whole in
\* a chunk and has the text of this one in it. And words first occur in the order of the text:
\* before a word that the text has once come all those that it has once, and earlier; left out
\* of the order are words that can be mistaken for others of the page.
TextKept ==
    step = "idle" =>
        \A number \in 1..uploaded : \A p \in PagesOf(number) :
            LET page == DocumentOf(number).pages[p]
                at(x) == page[x[1]][x[2]]
                told == {x \in PlacesIn(page) : ~Mistakable(at(x).word, page)}
                once == {x \in told : \A y \in told \ {x} : at(y).word # at(x).word}
                chunks == {c \in stored : OfPage(c, number, p)}
                \* A part of a chunk that is the whole word at x.
                has(part, x) == /\ part.word = at(x).word
                                /\ part.from = at(x).from /\ part.to = at(x).to
            IN /\ \A x \in PlacesIn(page) : \A n \in at(x).from..(at(x).to - 1) :
                      \E c \in chunks : \E part \in Range(c.content) :
                          \/ part.word = at(x).word /\ part.from <= n /\ n < part.to
                          \/ \E y \in PlacesIn(page) :
                                <<at(x).word, at(y).word>> \in Inside /\ has(part, y)
               /\ \A x, y \in once : Earlier(x, y) =>
                      \A c \in chunks : \A j \in DOMAIN c.content : c.content[j].word = at(y).word =>
                          \E d \in chunks : \E i \in DOMAIN d.content :
                              /\ d.content[i].word = at(x).word
                              /\ Earlier(<<d.index, i>>, <<c.index, j>>)

LastOfItsPage(chunk) ==
    ~\E c \in stored : /\ c.document = chunk.document /\ c.page = chunk.page
                       /\ c.index > chunk.index

\* "No chunk ends on one: the heading moves to the start of the next chunk" (chunking.py:19),
\* whatever runs of headings, overlaps and short chunks come together; the last chunk of a
\* page has none to move it to.
NoChunkEndsOnAHeading ==
    \A chunk \in stored :
        ~LastOfItsPage(chunk) => TrailingHeadings(chunk.content) = Len(chunk.content) + 1

\* A chunk shorter than min_size "competes with real content in search" (chunking.py:16): none
\* is left, first, last or between headings, unless it is all its page has.
NoShortChunk ==
    \A chunk \in stored :
        Short(chunk.content) =>
            \A c \in stored : c.document = chunk.document /\ c.page = chunk.page => c = chunk

\* "Chunks of at most chunk_size characters" (chunking.py:40), overlap included: a chunk is only
\* longer where a carried heading or a short neighbour was joined to it.
FitsUnlessJoined ==
    \A chunk \in stored :
        (\A unit \in Range(chunk.content) : unit.ends # "blank") => Length(chunk.content) <= ChunkSize

\* "A merged chunk can be longer than chunk_size by less than min_size" (chunking.py:193), even
\* if its headings and all the spaces between its words are not counted.
Body(content) ==
    LET line(i) == Max({k \in LineStarts(content) : k <= i})
    IN {i \in 1..Len(content) : ~IsHeading(content, line(i))}
MergedWithinBound ==
    \A chunk \in stored :
        MapThenSumSet(LAMBDA i : chunk.content[i].to - chunk.content[i].from, Body(chunk.content))
            < ChunkSize + ChunkMinSize

\* "One embedding vector per input text, in the same order" (embeddings.py:26), of the model in
\* use, with hits, misses, failures half way and restarts before: and each stored chunk has the
\* vector of its own text.
VectorsOfTheirTexts ==
    /\ step = "embedded" => values = [i \in 1..Len(texts) |-> Vector(texts[i])]
    /\ \A chunk \in stored : chunk.embedding.text = chunk.content

-----------------------------------------------------------------------------
(* Properties of the answers. *)

Answered == request # None /\ request.kind # "upload" /\ found # NothingFound /\ step = "idle"

\* "A word's frequency over chunks it cannot see would change which of its query words are
\* dropped or weighted, and so its ranking" (retrieval.py:171): what the keyword arm may give a
\* caller is what it would give were the chunks outside the scope not there, and nothing
\* outside it is shown, as a hit or as a neighbour.
HiddenChunksDoNotMatter ==
    /\ step = "found" =>
          Keywords = KeywordSearch(InScope(stored, request.scope), request.query, None)
    /\ Answered => Range(answer.shown) \subseteq InScope(stored, request.scope)

\* "Nothing but common words: keep them rather than search for nothing" (retrieval.py:206): if
\* some chunk in scope matches a question and holds all its words, leaving out the common ones
\* does not leave the keyword arm with nothing. Questions with stop words are left out: what a
\* stop word and a common word leave behind is a stop word, which finds nothing. So is a chunk
\* that matches one alternative of an "or" only: the common words of that one go, and a word
\* that is nowhere may be all that is left.
MatchesWhole(chunk, query) ==
    Matches(chunk, query) /\ Range(WithoutOr(query.words)) \subseteq Words(chunk)
KeywordArmFinds ==
    step = "found" /\ request.mode # "vector" /\ Range(request.query.words) \cap StopWords = {} =>
        ((\E chunk \in InScope(stored, request.scope) : MatchesWhole(chunk, request.query))
            => found.keyword # <<>>)

\* Fusion uses "only an item's position in each ranking" (retrieval.py:323), and both rankings
\* alike: a candidate whose better rank and whose worse rank are no later than those of another
\* and not the same is ahead of it, whichever arm they come from. The ranks are those an
\* explained hit reports, which also says that nothing was reranked (explain.py:28).
NoLater(i, j) == j = None \/ (i # None /\ i <= j)
Better(hit) == IF NoLater(hit.vector_rank, hit.keyword_rank) THEN hit.vector_rank ELSE hit.keyword_rank
Worse(hit) == IF NoLater(hit.vector_rank, hit.keyword_rank) THEN hit.keyword_rank ELSE hit.vector_rank
AheadOf(p, q) == /\ NoLater(Better(p), Better(q)) /\ NoLater(Worse(p), Worse(q))
                 /\ <<Better(p), Worse(p)>> # <<Better(q), Worse(q)>>
FusedByPosition ==
    Answered /\ request.mode = "hybrid" =>
        /\ \A i, j \in DOMAIN answer.candidates :
              AheadOf(Provenance(found.vector, found.keyword, answer.candidates[i]),
                      Provenance(found.vector, found.keyword, answer.candidates[j])) => i < j
        /\ \A i \in DOMAIN answer.rows : answer.explained[i].rank_before_rerank = i

\* "Neighbours come after the retrieved rows ... and only while the context stays within
\* max_chars" (context.py:110): they pass it only if the rows alone did, and one that is left
\* out, though in reach and in scope, would not have fitted after all.
NeighboursFit ==
    Answered /\ request.kind = "query" =>
        LET available == FetchNeighbours(stored, answer.rows, request.scope)
            added == Range(answer.shown) \ Range(answer.rows)
        IN /\ IsPrefix(answer.rows, answer.shown)
           /\ added \subseteq available
           /\ added # {} => Chars(answer.shown) <= MaxContextChars
           /\ \A c \in available \ added : Chars(answer.shown) + Length(c.content) > MaxContextChars

Covers(entry, chunk) == /\ entry.document = chunk.document
                        /\ chunk.index \in entry.first..entry.last

Holds(text, part) ==
    \E i \in 1..(Len(text) - Len(part) + 1) : SubSeq(text, i, i + Len(part) - 1) = part

\* "One entry per excerpt" (context.py:22-34): every chunk shown is in one entry and whole in its
\* text, the most relevant document comes first, a document is not taken up again later, and
\* a note names exactly the chunks between two excerpts, none of them shown.
ReadInOrder ==
    LET context == answer.context
        entries == 1..Len(context)
    IN Answered /\ request.kind = "query" =>
        /\ \A chunk \in Range(answer.shown) :
              \E i \in entries : /\ Covers(context[i], chunk)
                                 /\ \A j \in entries \ {i} : ~Covers(context[j], chunk)
                                 /\ Holds(context[i].text, Characters(chunk.content))
        /\ context[1].document = answer.rows[1].document
        /\ \A i, j \in entries :
              i < j /\ context[i].document = context[j].document =>
                  /\ context[j - 1].document = context[j].document
                  /\ context[i].last < context[j].first
                  /\ context[j].missing = <<context[j - 1].last + 1, context[j].first - 1>>
                  /\ context[j].missing[1] <= context[j].missing[2]
        /\ \A i \in entries : \A n \in context[i].first..context[i].last :
              \E chunk \in Range(answer.shown) : Place(chunk) = <<context[i].document, n>>

SaysNothingTwice(number) ==
    LET text == FlattenSeq(FlattenSeq(DocumentOf(number).pages))
    IN \A i, j \in DOMAIN text : text[i].word = text[j].word => i = j
NothingJoined == \A c \in stored : \A unit \in Range(c.content) : unit.ends # "blank"

\* "The text two neighbours share is written once" (context.py:7): in an excerpt of a document
\* that says nothing twice, no MIN_OVERLAP characters stand twice, whatever overlap its chunks
\* have; joined chunks, which can hold an overlap themselves, are left out.
WrittenOnce ==
    Answered /\ NothingJoined =>
        \A k \in DOMAIN answer.context :
            LET text == answer.context[k].text
                stretch(i) == SubSeq(text, i, i + MinOverlap - 1)
                starts == 1..(Len(text) - MinOverlap + 1)
            IN SaysNothingTwice(answer.context[k].document) =>
                   \A i, j \in starts : stretch(i) = stretch(j) => i = j
=============================================================================
