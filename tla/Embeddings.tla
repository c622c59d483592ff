----------------------------- MODULE Embeddings -----------------------------
(***************************************************************************)
(* Turning a list of texts into vectors (embeddings.py): the provider, and *)
(* the cache of vectors in Redis around it. Requests come one after the    *)
(* other here; between them entries expire and the service is restarted    *)
(* with other settings, while Redis keeps what it has.                     *)
(***************************************************************************)
EXTENDS Sorting

CONSTANTS
    Miss,       \* no vector for a text
    Models      \* values of Settings.embedding_model

VARIABLES
    model,      \* the embedding model in use
    caching,    \* Settings.embedding_cache_ttl > 0
    vectors,    \* the vectors in Redis, by key
    step,       \* the next step of the request at work; "idle" between requests
    texts,      \* the texts it embeds
    values,     \* the vector of each text, as far as it is known, or Miss
    fresh       \* vectors the provider gave for misses and cache.set has not taken: [at, vector]

embeddingVars == <<model, caching, vectors, texts, values, fresh>>

\* What a model makes of a text is a function of the two.
Vector(text) == [model |-> model, text |-> text]

\* Mutant of Key: the name of the model is left out of it.
KeyOfText(text) == <<text>>

Key(text) == <<model, text>>

EmbeddingInit ==
    /\ model \in Models
    /\ caching \in BOOLEAN
    /\ vectors = <<>>
    /\ step = "idle"
    /\ texts = <<>> /\ values = <<>> /\ fresh = <<>>

\* A call of embed, as part of the step of a request that makes it. No texts, no call.
Embed(list) ==
    /\ texts' = list
    /\ values' = <<>>
    /\ fresh' = <<>>
    /\ step' = IF list = <<>> THEN "embedded" ELSE IF caching THEN "get" ELSE "provider"
    /\ UNCHANGED <<model, caching, vectors>>

\* cache.get of the next text.
Get ==
    /\ step = "get"
    /\ LET key == Key(texts[Len(values) + 1])
       IN values' = Append(values, IF key \in DOMAIN vectors THEN vectors[key] ELSE Miss)
    /\ step' = IF Len(values') = Len(texts) THEN "provider" ELSE "get"
    /\ UNCHANGED <<model, caching, vectors, texts, fresh>>

\* One call for all the misses, its vectors put to the texts they were asked for.
Misses ==
    LET all == [i \in 1..Len(texts) |-> [at |-> i, vector |-> Vector(texts[i])]]
    IN Chosen(all, {i \in 1..Len(texts) : values[i] = Miss})

EmbedMisses ==
    /\ step = "provider" /\ caching
    /\ fresh' = Misses
    /\ step' = IF fresh' = <<>> THEN "embedded" ELSE "set"
    /\ UNCHANGED <<model, caching, vectors, texts, values>>

\* Without the cache (get_embedder), all texts go to the provider.
EmbedAll ==
    /\ step = "provider" /\ ~caching
    /\ values' = [i \in 1..Len(texts) |-> Vector(texts[i])]
    /\ step' = "embedded"
    /\ UNCHANGED <<model, caching, vectors, texts, fresh>>

\* cache.set of the next fresh vector.
Set ==
    /\ step = "set"
    /\ LET miss == Head(fresh)
           key == Key(texts[miss.at])
       IN /\ values' = [values EXCEPT ![miss.at] = miss.vector]
          /\ vectors' = [k \in DOMAIN vectors \cup {key} |->
                            IF k = key THEN miss.vector ELSE vectors[k]]
    /\ fresh' = Tail(fresh)
    /\ step' = IF fresh' = <<>> THEN "embedded" ELSE "set"
    /\ UNCHANGED <<model, caching, texts>>

\* Redis or the provider raises, and with it the request; what was set stays in Redis.
EmbedFails ==
    /\ step \in {"get", "provider", "set"}
    /\ step' = "idle"
    /\ texts' = <<>> /\ values' = <<>> /\ fresh' = <<>>
    /\ UNCHANGED <<model, caching, vectors>>

\* An entry reaches its ttl.
Expire ==
    /\ step = "idle"
    /\ \E key \in DOMAIN vectors : vectors' = [k \in DOMAIN vectors \ {key} |-> vectors[k]]
    /\ UNCHANGED <<model, caching, step, texts, values, fresh>>

\* A restart with another embedding_model or embedding_cache_ttl.
Restart ==
    /\ step = "idle"
    /\ model' \in Models /\ caching' \in BOOLEAN
    /\ UNCHANGED <<vectors, step, texts, values, fresh>>

EmbeddingStep == Get \/ EmbedMisses \/ EmbedAll \/ Set \/ EmbedFails \/ Expire \/ Restart
=============================================================================
