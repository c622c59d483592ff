------------------------------ MODULE MCAnswers ------------------------------
(***************************************************************************)
(* Documents and questions for TLC, with chunks of at most 8 characters.   *)
(***************************************************************************)
EXTENDS Answers

CONSTANTS m1, m2

W(p, i) == <<p, i>>
MCVocabulary == {W(p, i) : p \in 0..9, i \in 0..9}
OrWord == W(0, 1)
Hash == W(0, 0)
TwoHashes == W(0, 3)

Plain(p, i, chars, ends) == Unit(W(p, i), chars, FALSE, ends)
Heading(p, i, chars, ends) == <<Unit(Hash, 1, TRUE, "word"), Plain(p, i, chars, ends)>>

\* What a page is put together from; the words of each paragraph are its own.
ParagraphsOf(p) == {
    \* a name, and a text that just fits
    <<Plain(p, 1, 1, "end")>>,
    <<Plain(p, 1, 3, "word"), Plain(p, 2, 4, "end")>>,
    \* words, sentences and lines that do not fit
    <<Plain(p, 1, 2, "word"), Plain(p, 2, 3, "word"), Plain(p, 3, 1, "word"), Plain(p, 4, 4, "end")>>,
    <<Plain(p, 1, 2, "word"), Plain(p, 2, 2, "sentence"), Plain(p, 3, 3, "sentence"), Plain(p, 4, 2, "end")>>,
    <<Plain(p, 1, 3, "line"), Plain(p, 2, 1, "word"), Plain(p, 3, 3, "line"), Plain(p, 4, 5, "end")>>,
    \* a word too long for a chunk
    <<Plain(p, 1, 2, "word"), Plain(p, 2, 13, "word"), Plain(p, 3, 3, "end")>>,
    \* headings: alone, with a text below, at the end, two of them, before a long text
    Heading(p, 1, 2, "end"),
    Heading(p, 1, 2, "line") \o <<Plain(p, 2, 1, "end")>>,
    Heading(p, 1, 1, "line") \o <<Plain(p, 2, 4, "end")>>,
    <<Unit(TwoHashes, 2, TRUE, "word"), Plain(p, 1, 2, "line"), Plain(p, 2, 1, "end")>>,
    <<Plain(p, 1, 2, "line")>> \o Heading(p, 2, 1, "end"),
    <<Plain(p, 1, 2, "line")>> \o Heading(p, 2, 1, "line") \o Heading(p, 3, 1, "end"),
    <<Plain(p, 1, 5, "line")>> \o Heading(p, 2, 2, "line") \o <<Plain(p, 3, 6, "end")>>}

Document(pages, pdf, groups) == [pages |-> pages, pdf |-> pdf, groups |-> groups]

\* Every page of up to three paragraphs.
Pages == {<<a>> : a \in ParagraphsOf(1)}
            \cup {<<a, b>> : a \in ParagraphsOf(1), b \in ParagraphsOf(2)}
            \cup {<<a, b, c>> : a \in ParagraphsOf(1), b \in ParagraphsOf(2), c \in ParagraphsOf(3)}
Session(uploads, asks, cached, changes) ==
    [uploads |-> uploads, asks |-> asks, caching |-> cached, changes |-> changes]
PageSessions == {Session(<<Document(<<page>>, FALSE, {})>>, FALSE, FALSE, FALSE) : page \in Pages}

\* The first paragraph's last heading may begin the text of the second's first heading, and a
\* heading of one # is found in one of two.
MCBegins == {<<W(1, 2), W(2, 1)>>}
MCEnds == {<<Hash, TwoHashes>>}
MCInside == MCBegins \cup MCEnds

\* Six chunks of two words each, a word shared by neighbours.
Handbook == <<[i \in 1..7 |-> Plain(5, i, 3, IF i = 7 THEN "end" ELSE "word")]>>
\* Three chunks with a word in common, and a name.
Product == Plain(6, 0, 3, "word")
Notes == <<<<Product, Plain(6, 1, 3, "end")>>, <<Product, Plain(6, 2, 4, "end")>>,
           <<Product, Plain(6, 3, 4, "end")>>>>

Question(words, excluded, kind, mode, top_k, scope) ==
    [kind |-> kind, query |-> [words |-> words, excluded |-> excluded],
     text |-> [i \in 1..Len(words) |-> Plain(words[i][1], words[i][2], 3, "word")],
     mode |-> mode, top_k |-> top_k, scope |-> scope]

H(i) == W(5, i)
The == W(0, 2)
QueryTexts == {<<W(6, 0)>>, <<W(6, 0), W(9, 9)>>, <<W(6, 0), W(6, 2)>>, <<H(2), H(3)>>,
               <<H(1), H(4), H(6)>>, <<H(2), OrWord, H(6)>>, <<The, W(6, 0)>>, <<W(9, 9), H(4)>>, <<W(6, 0), OrWord, W(9, 9)>>,
               <<W(6, 0), OrWord, W(6, 2)>>}
MCQuestions ==
    {Question(words, {}, "query", "hybrid", 2, None) : words \in QueryTexts}
    \cup {Question(words, {}, "search", "keyword", 2, scope) :
             words \in QueryTexts, scope \in {{}, {"staff"}, {"sales"}, {"staff", "sales"}}}
    \cup {Question(<<H(3)>>, {H(2)}, "query", "keyword", 1, {"staff"}),
          Question(<<H(3)>>, {}, "query", "vector", 3, {"staff"})}

\* A PDF of two pages, uploaded twice; and documents of two groups with questions about them.
Twice == Document(<<Notes, <<<<Plain(7, 1, 6, "end")>>>>>>, TRUE, {})
UploadSessions == {Session(<<Twice, Twice>>, FALSE, TRUE, TRUE)}
QuestionSessions == {Session(<<Document(<<Notes>>, FALSE, {"sales"}),
                               Document(<<Handbook>>, FALSE, {"staff"})>>, TRUE, FALSE, FALSE)}

\* Short sections, each with a heading of its own.
JoinedSessions ==
    {Session(<<Document(<<[p \in 1..n |-> Heading(p, 1, 1, "line") \o <<Plain(p, 2, 3, "end")>>]>>,
                        FALSE, {})>>, FALSE, FALSE, FALSE) : n \in 1..7}

MCSessions == PageSessions \cup UploadSessions \cup QuestionSessions
MCShare == <<1, 2>>
MCStopWords == {The}
=============================================================================
