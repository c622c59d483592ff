------------------------------ MODULE Chunking ------------------------------
(***************************************************************************)
(* How ragbridge cuts the text of a page into chunks (chunking.py).        *)
(*                                                                         *)
(* A text is a sequence of paragraphs, a paragraph a sequence of units. A  *)
(* unit is a word: the characters from .. to - 1 of it, and in "ends" the  *)
(* separator that follows them. Units with the same word have the same     *)
(* text. A marker is the word a Markdown heading line starts with, one to  *)
(* six #. A chunk is a sequence of units too.                              *)
(***************************************************************************)
EXTENDS SequencesExt, Sorting

CONSTANTS
    Vocabulary,     \* the words texts are made of
    ChunkSize,      \* Settings.chunk_size
    ChunkOverlap,   \* Settings.chunk_overlap
    ChunkMinSize,   \* Settings.chunk_min_size, 0 for no merging
    Begins,         \* pairs <<v, w>>: the text of word w begins with that of v
    Ends,           \* pairs <<v, w>>: the text of word w ends with the marker v
    Inside          \* pairs <<v, w>>: the text of v stands in that of w, those above among them

\* Settings._check_chunk_settings: the same two rules chunk_text raises ValueError for.
ASSUME ChunkSettings ==
    /\ ChunkSize \in Nat /\ ChunkOverlap \in Nat /\ ChunkMinSize \in Nat
    /\ ChunkOverlap < ChunkSize
    /\ ChunkMinSize < ChunkSize

ASSUME WordsInWords ==
    /\ Begins \cup Ends \subseteq Inside
    /\ \A p, q \in Inside : p[2] = q[1] => <<p[1], q[2]>> \in Inside

Unit(word, chars, marker, ends) ==
    [word |-> word, from |-> 0, to |-> chars, marker |-> marker, ends |-> ends]

\* Characters of the separator; "blank" is the blank line two joined chunks get.
Separator == [end |-> 0, word |-> 1, sentence |-> 1, line |-> 1, blank |-> 2]

Units == {unit \in [word : Vocabulary, from : Nat, to : Nat, marker : BOOLEAN,
                    ends : DOMAIN Separator] : unit.from <= unit.to}

\* What is left between blank lines, stripped, in whole words; and the text of a page.
Paragraphs == {units \in Seq({unit \in Units : unit.from = 0 /\ unit.ends # "blank"}) :
                  /\ units # <<>>
                  /\ \A i \in 1..Len(units) : units[i].ends = "end" <=> i = Len(units)}
Texts == Seq(Paragraphs)

Width(unit) == unit.to - unit.from + Separator[unit.ends]
Length(units) == FoldLeft(LAMBDA n, unit : n + Width(unit), 0, units)
Offset(units, i) == Length(SubSeq(units, 1, i - 1))

EndWith(units, ends) == IF units = <<>> THEN units ELSE [units EXCEPT ![Len(units)].ends = ends]
Strip(units) == EndWith(units, "end")
Join(units, following) == EndWith(units, "blank") \o following

-----------------------------------------------------------------------------
(* Cutting a long paragraph into pieces, and packing the pieces. *)

\* Where a paragraph may be cut, coarsest first: lines, sentences, words.
Boundaries == <<{"line"}, {"sentence"}, {"word", "sentence", "line"}>>

Cut(units, level) ==
    LET isEnd(i) == i = Len(units) \/ units[i].ends \in Boundaries[level]
        ends == Ascending({i \in 1..Len(units) : isEnd(i)})
    IN [k \in 1..Len(ends) |-> SubSeq(units, IF k = 1 THEN 1 ELSE ends[k - 1] + 1, ends[k])]

\* A single word that is too long: fixed windows, each a finished chunk.
SplitByCharacters(units) ==
    LET step == ChunkSize - ChunkOverlap
        long == units[1]
        last == CHOOSE n \in 0..long.to : /\ n * step + ChunkSize >= long.to
                                          /\ \A m \in 0..(n - 1) : m * step + ChunkSize < long.to
        window(n) == [long EXCEPT !.from = n * step,
                                  !.to = Min({n * step + ChunkSize, long.to}),
                                  !.ends = "end"]
    IN [k \in 1..(last + 1) |-> [units |-> <<window(k - 1)>>, finished |-> TRUE]]

\* Whatever is still too long is cut at the next level.
Refine(parts, level) ==
    FlattenSeq([k \in 1..Len(parts) |-> IF Length(parts[k]) <= ChunkSize
                                           THEN <<parts[k]>>
                                           ELSE Cut(parts[k], level)])

Pieces(paragraph) ==
    LET parts == FoldLeft(Refine, <<paragraph>>, <<1, 2, 3>>)
    IN FlattenSeq([k \in 1..Len(parts) |->
                      IF Length(parts[k]) <= ChunkSize
                         THEN <<[units |-> parts[k], finished |-> FALSE]>>
                         ELSE SplitByCharacters(parts[k])])

\* The end of a window: from the earliest line start inside the overlap, else the earliest
\* sentence start, else the earliest word start. It keeps the separator that follows it.
OverlapTail(window) ==
    LET start == Length(Strip(window)) - ChunkOverlap
        later == 2..Len(window)
        \* Starts after a boundary that lies, with what it must follow, inside the overlap.
        Starts(kinds, reach) ==
            {i \in later : window[i - 1].ends \in kinds /\ Offset(window, i) - reach >= start}
        exactly == {i \in later : Offset(window, i) = start}
        lines == Starts({"line"}, 1)
        sentences == Starts({"sentence"}, 2)
        words == Starts({"word", "sentence"}, 1)
        starts == IF exactly # {} THEN exactly
                  ELSE IF lines # {} THEN lines
                  ELSE IF sentences # {} THEN sentences
                  ELSE words
    IN IF ChunkOverlap = 0 \/ start <= 0 \/ starts = {}
          THEN <<>>
          ELSE SubSeq(window, Min(starts), Len(window))

Emit(chunks, window) == IF window = <<>> THEN chunks ELSE Append(chunks, Strip(window))

\* Mutant of Repeat: the overlap is repeated whether or not it leaves room for the piece.
RepeatAlways(window, piece) == OverlapTail(window) \o piece

\* The window a piece starts that did not fit in the last one.
Repeat(window, piece) ==
    LET tail == OverlapTail(window)
    IN IF Length(tail) + Length(piece) <= ChunkSize THEN tail \o piece ELSE piece

PackPiece(packed, piece) ==
    IF piece.finished
       THEN [chunks |-> Append(Emit(packed.chunks, packed.window), piece.units), window |-> <<>>]
    ELSE IF packed.window # <<>> /\ Length(packed.window) + Length(piece.units) > ChunkSize
       THEN [chunks |-> Emit(packed.chunks, packed.window),
             window |-> Repeat(packed.window, piece.units)]
    ELSE [packed EXCEPT !.window = @ \o piece.units]

\* Mutant of Pack: the last window is not finished.
PackUnfinished(pieces) ==
    FoldLeft(PackPiece, [chunks |-> <<>>, window |-> <<>>], pieces).chunks

Pack(pieces) ==
    LET packed == FoldLeft(PackPiece, [chunks |-> <<>>, window |-> <<>>], pieces)
    IN Emit(packed.chunks, packed.window)

ParagraphChunks(paragraph) ==
    IF Length(paragraph) <= ChunkSize THEN <<paragraph>> ELSE Pack(Pieces(paragraph))

-----------------------------------------------------------------------------
(* Headings, and chunks too short to stand alone. *)

LineStarts(chunk) == {i \in 1..Len(chunk) : i = 1 \/ chunk[i - 1].ends \in {"line", "blank"}}

\* _HEADING_LINE: a marker, a space, and something after it.
IsHeading(chunk, i) == chunk[i].marker /\ chunk[i].ends = "word"

\* Mutant of TrailingHeadings: only the last line is looked at.
LastLineHeading(chunk) ==
    LET last == Max(LineStarts(chunk)) IN IF IsHeading(chunk, last) THEN last ELSE Len(chunk) + 1

\* Where the heading lines a chunk ends with begin: Len(chunk) + 1 when there are none.
TrailingHeadings(chunk) ==
    Min({Len(chunk) + 1} \cup {i \in LineStarts(chunk) :
                                  \A k \in LineStarts(chunk) : k >= i => IsHeading(chunk, k)})

\* "headings in following[: chunk_overlap + len(headings)]", as text, at any character of the
\* next chunk: the first word, a marker, may be but the end of what stands there, as # is of ##,
\* and the last one but the beginning. Headings have a marker and another word at least.
Repeats(headings, following) ==
    LET n == Len(headings)
    IN \E i \in 1..(Len(following) - n + 1) :
        LET at(k) == following[i + k - 1]
        IN /\ Offset(following, i) + Width(at(1)) - Width(headings[1]) <= ChunkOverlap
           /\ \A k \in 1..(n - 1) : headings[k].ends = at(k).ends
           /\ headings[1].word = at(1).word \/ <<headings[1].word, at(1).word>> \in Ends
           /\ \A k \in 2..(n - 1) : headings[k].word = at(k).word
           /\ headings[n].word = at(n).word \/ <<headings[n].word, at(n).word>> \in Begins

CarryHeading(carried, i) ==
    LET start == TrailingHeadings(carried[i])
        headings == Strip(SubSeq(carried[i], start, Len(carried[i])))
        following == carried[i + 1]
    IN IF headings = <<>>
          THEN carried
          ELSE [carried EXCEPT ![i] = Strip(SubSeq(carried[i], 1, start - 1)),
                               ![i + 1] = IF Repeats(headings, following)
                                             THEN following
                                             ELSE Join(headings, following)]

CarryHeadings(chunks) ==
    LET carried == FoldLeft(CarryHeading, chunks, [i \in 1..(Len(chunks) - 1) |-> i])
    IN Chosen(carried, {i \in DOMAIN carried : carried[i] # <<>>})

Short(chunk) == Length(chunk) < ChunkMinSize

\* It ends the section above the next chunk's heading.
ShortBeforeAHeading(chunks, i) == Short(chunks[i]) /\ i < Len(chunks) /\ IsHeading(chunks[i + 1], 1)

JoinLast(merged, chunk) == [merged EXCEPT ![Len(merged)] = Join(@, chunk)]

\* Mutant of MergeSmall: the last chunk is left as it is.
MergeForward(chunks) ==
    FoldLeft(LAMBDA merged, i :
                 IF merged # <<>> /\ (Short(Last(merged)) \/ ShortBeforeAHeading(chunks, i))
                    THEN JoinLast(merged, chunks[i])
                    ELSE Append(merged, chunks[i]),
             <<>>, [i \in 1..Len(chunks) |-> i])

MergeSmall(chunks) ==
    LET merged == MergeForward(chunks)
    IN IF Len(merged) > 1 /\ Short(Last(merged))
          THEN JoinLast(Front(merged), Last(merged))
          ELSE merged

PackedChunks(text) ==
    FlattenSeq([k \in 1..Len(text) |-> ParagraphChunks(text[k])])

ChunkText(text) ==
    LET carried == CarryHeadings(PackedChunks(text))
    IN IF ChunkMinSize > 0 THEN MergeSmall(carried) ELSE carried
=============================================================================
