------------------------------ MODULE Retrieval ------------------------------
(***************************************************************************)
(* What a search finds, in which order (retrieval.py). A chunk in the      *)
(* database is a record [document, index, page, content, embedding,        *)
(* groups] of one tenant. A query is a sequence of words, the word Or      *)
(* among them, and the set of words it excludes with a "-".                *)
(*                                                                         *)
(* PostgreSQL decides which of equal chunks comes first, and the vector    *)
(* index what is near: an arm of the search is therefore the set of        *)
(* results it may give. Quoted phrases are left out.                       *)
(***************************************************************************)
EXTENDS Chunking

CONSTANTS
    None,           \* no scope, no rank
    Or,             \* the word "or"
    StopWords,      \* words the text search drops
    Candidates,     \* Settings.retrieval_candidates
    MinChunksForTermFrequency,
    MaxTermShare,   \* Settings.keyword_max_term_frequency, as <<numerator, denominator>>
    RarityWeighting \* Settings.keyword_rarity_weighting

ASSUME NoneIsNoRank == None \notin Nat

ASSUME RetrievalSettings ==
    /\ Candidates \in Nat \ {0}
    /\ MinChunksForTermFrequency \in Nat \ {0}
    /\ MaxTermShare[1] \in Nat \ {0} /\ MaxTermShare[2] \in Nat \ {0}
    /\ MaxTermShare[1] <= MaxTermShare[2]

\* _in_groups: no scope sees everything, an empty one nothing.
InScope(chunks, scope) == {c \in chunks : scope = None \/ c.groups \cap scope # {}}

Words(chunk) == {unit.word : unit \in {u \in Range(chunk.content) : ~u.marker}} \ StopWords

-----------------------------------------------------------------------------
(* The vector arm. *)

\* As near as the index says, and no more than asked for: relaxed_order is not sorted.
VectorSearch(chunks, scope) ==
    UNION {SetToSeqs(some) : some \in {s \in SUBSET InScope(chunks, scope) :
                                         Cardinality(s) <= Candidates}}

-----------------------------------------------------------------------------
(* The keyword arm. *)

Strict(query) == query.excluded # {}

WithoutOr(words) == Chosen(words, {i \in DOMAIN words : words[i] # Or})

\* The words an OR fallback joins; none when there is no fallback.
OrWords(query) ==
    IF Strict(query) \/ Len(WithoutOr(query.words)) < 2 THEN <<>> ELSE WithoutOr(query.words)

\* websearch_to_tsquery: all words of one of the alternatives, and none of the excluded.
Alternatives(words) ==
    LET split == FoldLeft(LAMBDA alternatives, word :
                             IF word = Or THEN Append(alternatives, {})
                             ELSE [alternatives EXCEPT ![Len(alternatives)] = @ \cup {word}],
                          <<{}>>, words)
    IN {a \ StopWords : a \in Range(split)} \ {{}}
Matches(chunk, query) ==
    /\ \E alternative \in Alternatives(query.words) : alternative \subseteq Words(chunk)
    /\ query.excluded \cap Words(chunk) = {}

\* What is asked for: words to find, and words to leave out. websearch_to_tsquery takes an
\* excluded word to be part of its own alternative of an "or", and a query of nothing else to ask
\* for all other chunks: questions that exclude words have words to find, and no "or".
Queries == {query \in [words : Seq(Vocabulary), excluded : SUBSET Vocabulary] :
               Strict(query) => Or \notin Range(query.words) /\ Alternatives(query.words) # {}}

MatchesAny(chunk, words) == Range(words) \cap Words(chunk) # {}

\* The worthiest of some chunks, best first, in any order among equals.
BestOf(chunks, worth) ==
    LET n == Min({Candidates, Cardinality(chunks)})
        best(some) == /\ Cardinality(some) = n
                      /\ \A c \in some : \A d \in chunks \ some : worth[c] >= worth[d]
        inOrder(rows) == \A i \in 1..(Len(rows) - 1) : worth[rows[i]] >= worth[rows[i + 1]]
    IN UNION {{rows \in SetToSeqs(some) : inOrder(rows)} : some \in {s \in SUBSET chunks : best(s)}}

\* ts_rank orders by how many of the words a chunk holds.
TsRank(chunk, words) == Cardinality(Range(words) \cap Words(chunk))

KeywordRows(chunks, query) ==
    LET matching == {c \in chunks : Matches(c, query)}
    IN BestOf(matching, [c \in matching |-> TsRank(c, query.words)])

\* Mutant of TermStats: words are counted in chunks the caller may not see.
TermStatsOfAll(chunks, scope, words) ==
    LET distinct == Range(WithoutOr(words))
    IN IF distinct = {} \/ Cardinality(chunks) < MinChunksForTermFrequency
          THEN None
          ELSE [total |-> Cardinality(chunks),
                counts |-> [w \in distinct |-> Cardinality({c \in chunks : w \in Words(c)})]]

\* How many of the chunks the caller may see hold each word.
TermStats(chunks, scope, words) ==
    LET seen == InScope(chunks, scope)
        distinct == Range(WithoutOr(words))
    IN IF distinct = {} \/ Cardinality(seen) < MinChunksForTermFrequency
          THEN None
          ELSE [total |-> Cardinality(seen),
                counts |-> [w \in distinct |-> Cardinality({c \in seen : w \in Words(c)})]]

Common(stats, word) ==
    word # Or /\ stats.counts[word] * MaxTermShare[2] > MaxTermShare[1] * stats.total

\* Mutant of WithoutCommonWords: a query of nothing but common words loses them all.
OnlyRareWords(query, stats) ==
    IF stats = None \/ MaxTermShare[1] = MaxTermShare[2] THEN query
    ELSE [query EXCEPT !.words = Chosen(@, {i \in DOMAIN @ : ~Common(stats, @[i])})]

WithoutCommonWords(query, stats) ==
    IF stats = None \/ MaxTermShare[1] = MaxTermShare[2] THEN query
    ELSE LET rare == {i \in DOMAIN query.words : ~Common(stats, query.words[i])}
             reduced == Chosen(query.words, rare)
         IN IF WithoutOr(reduced) = <<>> THEN query ELSE [query EXCEPT !.words = reduced]

\* The sum of ln(total / count) over the words a chunk holds orders chunks as this product
\* does: each word in some chunk counts total if the chunk holds it, and count if not.
Rarity(chunk, words, stats) ==
    FoldLeft(LAMBDA weight, word : weight * (IF stats.counts[word] = 0 THEN 1
                                             ELSE IF word \in Words(chunk) THEN stats.total
                                             ELSE stats.counts[word]),
             1, words)

\* By rarity, then by ts_rank.
RarityWeightedRows(chunks, words, stats) ==
    LET matching == {c \in chunks : MatchesAny(c, words)}
    IN BestOf(matching, [c \in matching |->
                           Rarity(c, words, stats) * (Len(words) + 1) + TsRank(c, words)])

KeywordSearch(chunks, query, scope) ==
    LET counted == ~Strict(query) /\ (RarityWeighting \/ MaxTermShare[1] < MaxTermShare[2])
        stats == IF counted THEN TermStats(chunks, scope, query.words) ELSE None
        seen == InScope(chunks, scope)
        typed == WithoutCommonWords(query, stats)
        words == OrWords(typed)
        found == KeywordRows(seen, typed)
    IN IF found # {<<>>} \/ words = <<>> THEN found
       ELSE IF RarityWeighting /\ stats # None THEN RarityWeightedRows(seen, words, stats)
       ELSE LET matching == {c \in seen : MatchesAny(c, words)}
            IN BestOf(matching, [c \in matching |-> TsRank(c, words)])

-----------------------------------------------------------------------------
(* Fusion. *)

K == 60

RankIn(rows, chunk) == IF Contains(rows, chunk) THEN CHOOSE i \in 1..Len(rows) : rows[i] = chunk
                                                ELSE None

\* 1 / (K + rank), in units that make it a whole number for every rank an arm can give.
Unity == FoldLeft(LAMBDA product, rank : product * (K + rank), 1, [rank \in 1..Candidates |-> rank])
Share(rank) == IF rank = None THEN 0 ELSE Unity \div (K + rank)

\* How retrieval found a chunk: the ranks in the arms, and the fused score.
Provenance(vectorRows, keywordRows, chunk) ==
    LET v == RankIn(vectorRows, chunk)
        k == RankIn(keywordRows, chunk)
    IN [vector_rank |-> v, keyword_rank |-> k, fused_score |-> Share(v) + Share(k)]

\* One row per chunk, in the order the arms gave them.
Merged(vectorRows, keywordRows) ==
    vectorRows \o Chosen(keywordRows,
                         {i \in DOMAIN keywordRows : ~Contains(vectorRows, keywordRows[i])})

\* Mutant of ReciprocalRankFusion: only the chunks both arms can give are scored by both.
FusedByFirstArm(vectorRows, keywordRows) == Merged(vectorRows, keywordRows)

\* By fused score; equal ones in the order the arms gave them.
ReciprocalRankFusion(vectorRows, keywordRows) ==
    LET merged == Merged(vectorRows, keywordRows)
        score(i) == Provenance(vectorRows, keywordRows, merged[i]).fused_score
        before == {p \in (1..Len(merged)) \X (1..Len(merged)) :
                      \/ score(p[1]) > score(p[2])
                      \/ score(p[1]) = score(p[2]) /\ p[1] < p[2]}
        order == Sorted(1..Len(merged), before)
    IN [k \in 1..Len(merged) |-> merged[order[k]]]

\* What an explained hit says.
RetrievalInfo(candidates, vectorRows, keywordRows, chunk) ==
    [found |-> Provenance(vectorRows, keywordRows, chunk),
     rank_before_rerank |-> RankIn(candidates, chunk)]
=============================================================================
