------------------------------- MODULE Context -------------------------------
(***************************************************************************)
(* What the answer model reads (context.py): the retrieved chunks and      *)
(* their neighbours, as excerpts in document order with a note where text  *)
(* is missing. Rows are chunks of the database, best first.                *)
(***************************************************************************)
EXTENDS Retrieval

CONSTANTS
    MinOverlap,         \* context.MIN_OVERLAP
    NeighbourDistance,  \* Settings.answer_context_neighbours
    MaxContextChars     \* Settings.answer_context_max_chars

ASSUME ContextSettings ==
    MinOverlap \in Nat \ {0} /\ NeighbourDistance \in Nat /\ MaxContextChars \in Nat

Place(chunk) == <<chunk.document, chunk.index>>

\* One SELECT: the chunks of the same documents around the rows, as far as the scope allows.
FetchNeighbours(chunks, rows, scope) ==
    LET retrieved == {Place(c) : c \in Range(rows)}
        wanted == {<<c.document, c.index + offset>> :
                      c \in Range(rows), offset \in (0 - NeighbourDistance)..NeighbourDistance}
    IN {c \in InScope(chunks, scope) : Place(c) \in wanted \ retrieved}

Chars(rows) == FoldLeft(LAMBDA n, c : n + Length(c.content), 0, rows)

\* Mutant of AddIfItFits: the neighbours added before are not counted.
AddIfAloneFits(shown, available, rows, place) ==
    LET neighbour == {c \in available : Place(c) = place}
        fits == \A c \in neighbour : Chars(rows) + Length(c.content) <= MaxContextChars
    IN IF neighbour \subseteq Range(shown) \/ ~fits THEN shown ELSE shown \o SetToSeq(neighbour)

AddIfItFits(shown, available, rows, place) ==
    LET neighbour == {c \in available : Place(c) = place}
        fits == \A c \in neighbour : Chars(shown) + Length(c.content) <= MaxContextChars
    IN IF neighbour \subseteq Range(shown) \/ ~fits THEN shown ELSE shown \o SetToSeq(neighbour)

\* The rows, then their neighbours: nearest first, best row first, the one before it first.
AddNeighbours(rows, available) ==
    LET places == FlattenSeq(FlattenSeq(
            [offset \in 1..NeighbourDistance |->
                [i \in 1..Len(rows) |-> <<<<rows[i].document, rows[i].index - offset>>,
                                          <<rows[i].document, rows[i].index + offset>>>>]]))
    IN FoldLeft(LAMBDA shown, place : AddIfItFits(shown, available, rows, place), rows, places)

-----------------------------------------------------------------------------
(* Excerpts. *)

\* The text of a chunk, a character at a time: all that stitching compares.
Characters(units) ==
    FlattenSeq([i \in 1..Len(units) |->
        [n \in 1..(units[i].to - units[i].from) |-> <<units[i].word, units[i].from + n>>]
            \o [n \in 1..Separator[units[i].ends] |-> <<Or, 0>>]])

\* Mutant of Overlap: a stretch of just MIN_OVERLAP is taken for a coincidence.
OverlapAbove(text, following) ==
    Max({0} \cup {n \in (MinOverlap + 1)..Min({Len(text), Len(following)}) :
                     IsSuffix(SubSeq(following, 1, n), text)})

\* The longest end of one text that the other starts with, if it is no coincidence.
Overlap(text, following) ==
    Max({0} \cup {n \in MinOverlap..Min({Len(text), Len(following)}) :
                     IsSuffix(SubSeq(following, 1, n), text)})

Newline == <<<<Or, 0>>>>

Stitch(run) ==
    LET stitchOn(text, chunk) ==
            LET following == Characters(chunk.content)
                shared == Overlap(text, following)
            IN IF shared = 0 THEN text \o Newline \o following
                             ELSE text \o SubSeq(following, shared + 1, Len(following))
    IN FoldLeft(stitchOn, Characters(Head(run).content), Tail(run))

Follows(previous, chunk) ==
    previous.document = chunk.document /\ chunk.index = previous.index + 1

\* Mutant of ReadingOrder: documents are read in the order they were uploaded in.
DocumentOrder(rows) ==
    Sorted(Range(rows), {p \in Range(rows) \X Range(rows) :
                            \/ p[1].document < p[2].document
                            \/ p[1].document = p[2].document /\ p[1].index < p[2].index})

\* Documents by their best chunk, and the chunks of each in the order of the text.
ReadingOrder(rows) ==
    LET best(c) == Min({i \in 1..Len(rows) : rows[i].document = c.document})
    IN Sorted(Range(rows), {p \in Range(rows) \X Range(rows) :
                               \/ best(p[1]) < best(p[2])
                               \/ best(p[1]) = best(p[2]) /\ p[1].index < p[2].index})

Runs(rows) ==
    FoldLeft(LAMBDA runs, chunk :
                 IF runs # <<>> /\ Follows(Last(Last(runs)), chunk)
                    THEN [runs EXCEPT ![Len(runs)] = Append(@, chunk)]
                    ELSE Append(runs, <<chunk>>),
             <<>>, ReadingOrder(rows))

\* An entry of the context: its label, its text, and the chunks the note before it says are
\* missing, or None.
BuildContext(rows) ==
    LET runs == Runs(rows)
        entry(i) ==
            LET first == Head(runs[i])
                previous == Last(runs[i - 1])
            IN [document |-> first.document,
                first |-> first.index,
                last |-> Last(runs[i]).index,
                text |-> Stitch(runs[i]),
                missing |-> IF i > 1 /\ previous.document = first.document
                               THEN <<previous.index + 1, first.index - 1>>
                               ELSE None]
    IN [i \in 1..Len(runs) |-> entry(i)]
=============================================================================
