-------------------------- MODULE Chunking_proofs ---------------------------
(***************************************************************************)
(* Proofs about Chunking, for every text and all settings within           *)
(* ChunkSettings: how long chunks are, what they end on, and that they say *)
(* what the text says, in its order.                                       *)
(***************************************************************************)
EXTENDS Chunking, Sequences_proofs

-----------------------------------------------------------------------------
(* Lengths. *)

LEMMA WidthIs == \A unit \in Units : Width(unit) \in Nat
BY DEF Width, Units, Separator

\* Length, a unit at a time.
LEMMA LengthSteps ==
    ASSUME NEW units \in Seq(Units)
    PROVE  \E h : /\ h \in [0..Len(units) -> Nat]
                  /\ h[0] = 0
                  /\ \A k \in 1..Len(units) : h[k] = h[k - 1] + Width(units[k])
                  /\ h[Len(units)] = Length(units)
<1>. DEFINE n == Len(units)
            B == Nat
            g == [p \in B \X (1..n) |-> p[1] + Width(units[p[2]])]
            Is(it) == it = [s \in SUBSET DOMAIN units |->
                               IF s = {} THEN 0
                               ELSE it[s \ {Max(s)}] + Width(units[Max(s)])]
            f == CHOOSE it : Is(it)
<1>1. n \in Nat /\ DOMAIN units = 1..n /\ \A k \in 1..n : units[k] \in Units
  BY LenProperties
<1>2. 0 \in B /\ \A b \in B, x \in Units : b + Width(x) \in B
  BY WidthIs
<1>3. g \in [B \X (1..n) -> B]
  BY <1>1, <1>2
<1>4. PICK it \in [SUBSET (1..n) -> B] : Folding(it, 1..n, 0, g)
  BY <1>1, <1>2, <1>3, FoldingExists
<1>5. Is(it)
  <2>1. \A s \in SUBSET (1..n) : s # {} => Max(s) \in 1..n /\ s \ {Max(s)} \in SUBSET (1..n)
    BY <1>1, GreatestPlace
  <2>2. \A s \in SUBSET (1..n) : s # {} =>
           g[<<it[s \ {Max(s)}], Max(s)>>] = it[s \ {Max(s)}] + Width(units[Max(s)])
    BY <2>1
  <2>. QED BY <1>1, <1>4, <2>2 DEF Folding
<1>6. Is(f)
  BY <1>5
<1>7. Length(units) = f[1..n]
  BY <1>1 DEF Length, FoldLeft, MapThenFoldSet
<1>. HIDE DEF f
<1>8. FoldsTo(f, n, B, 0, g)
  <2>1. f[{}] = 0
    BY <1>6
  <2>2. \A k \in 1..n : f[1..k] = f[1..(k - 1)] + Width(units[k])
    <3>. TAKE k \in 1..n
    <3>1. k \in Nat \ {0} /\ 1..k \in SUBSET (1..n)
      BY <1>1
    <3>2. 1..k # {} /\ Max(1..k) = k /\ (1..k) \ {k} = 1..(k - 1)
      BY <3>1, Spans
    <3>3. f[1..k] = IF 1..k = {} THEN 0 ELSE f[(1..k) \ {Max(1..k)}] + Width(units[Max(1..k)])
      BY <1>1, <1>6, <3>1
    <3>. QED BY <3>2, <3>3
  <2>3. \A k \in 1..n : f[1..(k - 1)] \in B => f[1..k] = g[<<f[1..(k - 1)], k>>]
    BY <2>2
  <2>. HIDE DEF g, n, B
  <2>. QED BY <1>1, <1>2, <1>3, <2>1, <2>3 DEF FoldsTo
<1>9. \A k \in 1..n, b \in B : g[<<b, k>>] = b + Width(units[k])
  OBVIOUS
<1>. HIDE DEF g, B, n
<1>10. PICK h : Steps(h, n, B, 0, g) /\ h[n] = f[1..n]
  BY <1>8, StepsOfFolding
<1>11. h \in [0..n -> B] /\ h[0] = 0 /\ \A k \in 1..n : h[k] = g[<<h[k - 1], k>>]
  BY <1>10 DEF Steps
<1>12. \A k \in 1..n : h[k] = h[k - 1] + Width(units[k])
  <2>1. \A k \in 1..n : h[k - 1] \in B
    BY <1>1, <1>11
  <2>. QED BY <1>9, <1>11, <2>1
<1>. QED BY <1>7, <1>10, <1>11, <1>12 DEF B, n

Widths(units) == [i \in 1..Len(units) |-> Width(units[i])]

LEMMA LengthIs ==
    ASSUME NEW units \in Seq(Units)
    PROVE  \E h : Adds(h, Widths(units), Len(units)) /\ h[Len(units)] = Length(units)
<1>1. PICK h : /\ h \in [0..Len(units) -> Nat]
               /\ h[0] = 0
               /\ \A k \in 1..Len(units) : h[k] = h[k - 1] + Width(units[k])
               /\ h[Len(units)] = Length(units)
  BY LengthSteps
<1>2. Len(units) \in Nat /\ \A k \in 1..Len(units) : units[k] \in Units
  OBVIOUS
<1>3. Widths(units) \in [1..Len(units) -> Nat]
  BY <1>2, WidthIs DEF Widths
<1>4. \A k \in 1..Len(units) : h[k] = h[k - 1] + Widths(units)[k]
  BY <1>1 DEF Widths
<1>5. Adds(h, Widths(units), Len(units))
  BY <1>1, <1>2, <1>3, <1>4 DEF Adds
<1>. QED BY <1>1, <1>5

LEMMA LengthIsNat == \A units \in Seq(Units) : Length(units) \in Nat
<1>. TAKE units \in Seq(Units)
<1>1. PICK h : Adds(h, Widths(units), Len(units)) /\ h[Len(units)] = Length(units)
  BY LengthIs
<1>2. Len(units) \in 0..Len(units)
  OBVIOUS
<1>. QED BY <1>1, <1>2 DEF Adds

LEMMA LengthOfNone == Length(<<>>) = 0
<1>1. <<>> \in Seq(Units) /\ Len(<<>>) = 0
  OBVIOUS
<1>2. PICK h : Adds(h, Widths(<<>>), Len(<<>>)) /\ h[Len(<<>>)] = Length(<<>>)
  BY <1>1, LengthIs
<1>. QED BY <1>1, <1>2 DEF Adds

\* Units with the same widths have the same length.
LEMMA SameWidths ==
    ASSUME NEW a \in Seq(Units), NEW b \in Seq(Units), Len(a) = Len(b),
           \A i \in 1..Len(a) : Width(a[i]) = Width(b[i])
    PROVE  Length(a) = Length(b)
<1>1. PICK h : Adds(h, Widths(a), Len(a)) /\ h[Len(a)] = Length(a)
  BY LengthIs
<1>2. PICK h2 : Adds(h2, Widths(b), Len(b)) /\ h2[Len(b)] = Length(b)
  BY LengthIs
<1>3. Len(a) \in Nat /\ Len(a) <= Len(b) /\ Len(a) \in 0..Len(a)
  OBVIOUS
<1>4. \A k \in 1..Len(a) : Widths(a)[k] = Widths(b)[k]
  BY DEF Widths
<1>5. \A k \in 0..Len(a) : h[k] = h2[k]
  BY <1>1, <1>2, <1>3, <1>4, SumsAgree
<1>. QED BY <1>1, <1>2, <1>3, <1>5

LEMMA LengthJoined ==
    ASSUME NEW a \in Seq(Units), NEW b \in Seq(Units)
    PROVE  a \o b \in Seq(Units) /\ Length(a \o b) = Length(a) + Length(b)
<1>. DEFINE n == Len(a)
            m == Len(b)
            c == a \o b
<1>1. c \in Seq(Units) /\ Len(c) = n + m /\ n \in Nat /\ m \in Nat
  BY Joined
<1>2. /\ \A i \in 1..n : c[i] = a[i]
      /\ \A i \in 1..m : c[n + i] = b[i]
  BY Joined
<1>3. PICK h : Adds(h, Widths(c), Len(c)) /\ h[Len(c)] = Length(c)
  BY <1>1, LengthIs
<1>4. PICK ha : Adds(ha, Widths(a), Len(a)) /\ ha[Len(a)] = Length(a)
  BY LengthIs
<1>5. PICK hb : Adds(hb, Widths(b), Len(b)) /\ hb[Len(b)] = Length(b)
  BY LengthIs
<1>. HIDE DEF c
<1>6. \A k \in 1..n : Widths(a)[k] = Widths(c)[k]
  <2>1. \A k \in 1..n : k \in 1..Len(c)
    BY <1>1
  <2>. QED BY <1>2, <2>1 DEF Widths
<1>7. Continues(Widths(c), n, Widths(b), m)
  <2>1. \A k \in 1..m : n + k \in 1..Len(c)
    BY <1>1
  <2>. QED BY <1>2, <2>1 DEF Widths, Continues
<1>8. Adds(h, Widths(c), n + m) /\ h[n + m] = Length(c)
  BY <1>1, <1>3
<1>9. Adds(ha, Widths(a), n) /\ ha[n] = Length(a) /\ Adds(hb, Widths(b), m) /\ hb[m] = Length(b)
  BY <1>4, <1>5
<1>. HIDE DEF n, m
<1>10. n <= n + m /\ n \in 0..n /\ m \in 0..m
  BY <1>1
<1>11. \A k \in 0..n : ha[k] = h[k]
  BY <1>6, <1>8, <1>9, <1>10, SumsAgree
<1>12. \A k \in 0..m : h[n + k] = h[n] + hb[k]
  <2>1. n \in Nat
    BY <1>1
  <2>. QED BY <2>1, <1>7, <1>8, <1>9, SumsContinue
<1>13. Length(c) = Length(a) + Length(b)
  BY <1>8, <1>9, <1>10, <1>11, <1>12
<1>. QED BY <1>1, <1>13 DEF c

\* The lengths of all its beginnings.
LEMMA LengthOfBeginning ==
    ASSUME NEW units \in Seq(Units), NEW n \in Nat, n <= Len(units)
    PROVE  /\ Length(SubSeq(units, 1, n)) <= Length(units)
           /\ n > 0 => Length(SubSeq(units, 1, n))
                           = Length(SubSeq(units, 1, n - 1)) + Width(units[n])
<1>. DEFINE m == Len(units)
<1>1. m \in Nat /\ n <= m
  OBVIOUS
<1>2. PICK h : Adds(h, Widths(units), m) /\ h[m] = Length(units)
  BY LengthIs
<1>3. ASSUME NEW k \in 0..n PROVE h[k] = Length(SubSeq(units, 1, k))
  <2>. DEFINE begin == SubSeq(units, 1, k)
  <2>1. k \in Nat /\ k <= Len(units)
    OBVIOUS
  <2>2. begin \in Seq(Units) /\ Len(begin) = k /\ \A i \in 1..k : begin[i] = units[i]
    BY <2>1, Beginning
  <2>. HIDE DEF begin
  <2>3. PICK hb : Adds(hb, Widths(begin), Len(begin)) /\ hb[Len(begin)] = Length(begin)
    BY <2>2, LengthIs
  <2>. HIDE DEF m
  <2>4. Adds(hb, Widths(begin), k) /\ hb[k] = Length(begin)
    BY <2>2, <2>3
  <2>5. \A i \in 1..k : Widths(begin)[i] = Widths(units)[i]
    BY <2>1, <2>2 DEF Widths
  <2>6. k <= m
    BY <2>1 DEF m
  <2>7. \A i \in 0..k : hb[i] = h[i]
    BY <1>2, <2>4, <2>5, <2>6, SumsAgree
  <2>8. k \in 0..k
    BY <2>1
  <2>. QED BY <2>4, <2>7, <2>8 DEF begin
<1>4. n \in 0..n /\ n \in 0..m /\ m \in 0..m
  BY <1>1
<1>5. h[n] <= h[m]
  <2>. HIDE DEF m
  <2>. QED BY <1>1, <1>2, <1>4, SumsGrow
<1>6. Length(SubSeq(units, 1, n)) <= Length(units)
  BY <1>2, <1>3, <1>4, <1>5
<1>7. ASSUME n > 0
      PROVE  Length(SubSeq(units, 1, n)) = Length(SubSeq(units, 1, n - 1)) + Width(units[n])
  <2>1. n \in 1..m /\ n - 1 \in 0..n
    BY <1>1, <1>7
  <2>2. h[n] = h[n - 1] + Width(units[n])
    BY <1>2, <2>1 DEF Adds, Widths
  <2>3. h[n] = Length(SubSeq(units, 1, n)) /\ h[n - 1] = Length(SubSeq(units, 1, n - 1))
    BY <1>3, <1>4, <2>1
  <2>. QED BY <2>2, <2>3
<1>. QED BY <1>6, <1>7

-----------------------------------------------------------------------------
(* The last unit of a chunk. *)

LEMMA EndWithIs ==
    ASSUME NEW units \in Seq(Units), NEW ends \in DOMAIN Separator
    PROVE  LET ended == EndWith(units, ends)
               n == Len(units)
           IN /\ ended \in Seq(Units)
              /\ Len(ended) = n
              /\ \A i \in 1..(n - 1) : ended[i] = units[i]
              /\ n > 0 => ended[n] = [units[n] EXCEPT !.ends = ends] /\ ended[n] \in Units
<1>. DEFINE ended == EndWith(units, ends)
            n == Len(units)
<1>1. n \in Nat /\ \A i \in 1..n : units[i] \in Units
  OBVIOUS
<1>2. CASE units = <<>>
  <2>1. ended = <<>> /\ n = 0
    BY <1>2 DEF EndWith
  <2>. QED BY <2>1, <1>2
<1>3. CASE units # <<>>
  <2>1. n \in 1..n /\ n > 0
    BY <1>1, <1>3
  <2>2. ended = [units EXCEPT ![n] = [units[n] EXCEPT !.ends = ends]]
    BY <1>3 DEF EndWith
  <2>3. [units[n] EXCEPT !.ends = ends] \in Units
    <3>1. units[n] \in Units
      BY <1>1, <2>1
    <3>. QED BY <3>1 DEF Units
  <2>4. ended \in Seq(Units) /\ Len(ended) = n /\ ended[n] = [units[n] EXCEPT !.ends = ends]
    <3>1. units \in [1..n -> Units] /\ DOMAIN units = 1..n
      OBVIOUS
    <3>. DEFINE last == [units[n] EXCEPT !.ends = ends]
    <3>3. ended = [i \in 1..n |-> IF i = n THEN last ELSE units[i]] /\ last \in Units
      BY <2>2, <2>3, <3>1
    <3>. HIDE DEF last, ended
    <3>4. ended \in [1..n -> Units]
      BY <1>1, <3>3
    <3>2. ended[n] = last
      BY <2>1, <3>3
    <3>5. ended \in Seq(Units) /\ Len(ended) = n
      <4>. HIDE DEF n
      <4>. QED BY <1>1, <3>4
    <3>. QED BY <3>2, <3>5 DEF last
  <2>5. \A i \in 1..(n - 1) : ended[i] = units[i]
    BY <1>1, <2>2
  <2>6. ended[n] \in Units
    BY <2>3, <2>4
  <2>. HIDE DEF ended, n
  <2>. QED BY <2>1, <2>4, <2>5, <2>6 DEF ended, n
<1>. QED BY <1>2, <1>3

\* Only the width of the separator of the last unit changes.
LEMMA LengthEnded ==
    ASSUME NEW units \in Seq(Units), units # <<>>, NEW ends \in DOMAIN Separator
    PROVE  Length(EndWith(units, ends))
               = Length(units) - Separator[units[Len(units)].ends] + Separator[ends]
<1>. DEFINE ended == EndWith(units, ends)
            n == Len(units)
<1>1. n \in Nat /\ n > 0 /\ units[n] \in Units /\ n - 1 \in Nat /\ n - 1 <= n
  OBVIOUS
<1>2. /\ ended \in Seq(Units) /\ Len(ended) = n
      /\ \A i \in 1..(n - 1) : ended[i] = units[i]
      /\ ended[n] = [units[n] EXCEPT !.ends = ends] /\ ended[n] \in Units
  BY <1>1, EndWithIs
<1>. HIDE DEF ended
<1>3. SubSeq(units, 1, n) = units /\ SubSeq(ended, 1, n) = ended
  BY <1>1, <1>2
<1>4. Length(units) = Length(SubSeq(units, 1, n - 1)) + Width(units[n])
  <2>1. n <= Len(units)
    BY <1>1
  <2>. HIDE DEF n
  <2>. QED BY <1>1, <1>3, <2>1, LengthOfBeginning
<1>5. Length(ended) = Length(SubSeq(ended, 1, n - 1)) + Width(ended[n])
  <2>1. n <= Len(ended)
    BY <1>1, <1>2
  <2>. HIDE DEF n
  <2>. QED BY <1>1, <1>2, <1>3, <2>1, LengthOfBeginning
<1>6. Length(SubSeq(ended, 1, n - 1)) = Length(SubSeq(units, 1, n - 1))
  <2>1. /\ SubSeq(units, 1, n - 1) \in Seq(Units) /\ Len(SubSeq(units, 1, n - 1)) = n - 1
        /\ \A i \in 1..(n - 1) : SubSeq(units, 1, n - 1)[i] = units[i]
    BY <1>1, Beginning
  <2>2. /\ SubSeq(ended, 1, n - 1) \in Seq(Units) /\ Len(SubSeq(ended, 1, n - 1)) = n - 1
        /\ \A i \in 1..(n - 1) : SubSeq(ended, 1, n - 1)[i] = ended[i]
    <3>1. n - 1 <= Len(ended)
      BY <1>1, <1>2
    <3>. HIDE DEF n
    <3>. QED BY <1>1, <1>2, <3>1, Beginning
  <2>. DEFINE a == SubSeq(units, 1, n - 1)
              b == SubSeq(ended, 1, n - 1)
  <2>3. a \in Seq(Units) /\ b \in Seq(Units) /\ Len(a) = Len(b) /\ \A i \in 1..Len(a) : a[i] = b[i]
    BY <2>1, <2>2, <1>2
  <2>. HIDE DEF a, b
  <2>4. Length(a) = Length(b)
    BY <2>3, SameWidths
  <2>. QED BY <2>4 DEF a, b
<1>7. /\ Width(units[n]) = (units[n].to - units[n].from) + Separator[units[n].ends]
      /\ Width(ended[n]) = (units[n].to - units[n].from) + Separator[ends]
  <2>1. /\ ended[n].to = units[n].to /\ ended[n].from = units[n].from /\ ended[n].ends = ends
    BY <1>1, <1>2 DEF Units
  <2>. QED BY <2>1 DEF Width
<1>8. /\ Separator[ends] \in Nat /\ Separator[units[n].ends] \in Nat
      /\ units[n].to - units[n].from \in Int
  <2>1. units[n].ends \in DOMAIN Separator /\ units[n].to \in Nat /\ units[n].from \in Nat
    BY <1>1 DEF Units
  <2>. QED BY <2>1 DEF Separator
<1>9. Length(SubSeq(units, 1, n - 1)) \in Nat
  <2>1. SubSeq(units, 1, n - 1) \in Seq(Units)
    BY <1>1, Beginning
  <2>. QED BY <2>1, LengthIsNat
<1>. HIDE DEF n
<1>. QED BY <1>4, <1>5, <1>6, <1>7, <1>8, <1>9 DEF ended, n

\* No blank line inside: nothing was joined.
NoBlank(units) == \A i \in 1..Len(units) : units[i].ends # "blank"

\* What packing may make of a text: chunks that fit, with nothing joined to them.
Fitting == {units \in Seq(Units) : NoBlank(units) /\ Length(units) <= ChunkSize}

LEMMA StripIs ==
    ASSUME NEW units \in Seq(Units)
    PROVE  /\ Strip(units) \in Seq(Units)
           /\ Len(Strip(units)) = Len(units)
           /\ Length(Strip(units)) <= Length(units)
           /\ NoBlank(units) => NoBlank(Strip(units))
<1>. "end" \in DOMAIN Separator
  BY DEF Separator
<1>1. /\ Strip(units) \in Seq(Units) /\ Len(Strip(units)) = Len(units)
      /\ \A i \in 1..(Len(units) - 1) : Strip(units)[i] = units[i]
      /\ Len(units) > 0 => /\ Strip(units)[Len(units)] = [units[Len(units)] EXCEPT !.ends = "end"]
                           /\ Strip(units)[Len(units)] \in Units
  BY EndWithIs DEF Strip
<1>2. Length(Strip(units)) <= Length(units)
  <2>1. CASE units = <<>>
    BY <2>1, LengthOfNone DEF Strip, EndWith
  <2>2. CASE units # <<>>
    <3>1. Length(Strip(units)) = Length(units) - Separator[units[Len(units)].ends] + Separator["end"]
      BY <2>2, LengthEnded DEF Strip
    <3>2. units[Len(units)] \in Units
      BY <2>2
    <3>3. Separator[units[Len(units)].ends] \in Nat /\ Separator["end"] = 0
      BY <3>2 DEF Units, Separator
    <3>. QED BY <3>1, <3>3, LengthIsNat
  <2>. QED BY <2>1, <2>2
<1>3. ASSUME NoBlank(units) PROVE NoBlank(Strip(units))
  <2>. SUFFICES ASSUME NEW i \in 1..Len(units) PROVE Strip(units)[i].ends # "blank"
    BY <1>1 DEF NoBlank
  <2>1. CASE i # Len(units)
    <3>1. i \in 1..(Len(units) - 1)
      BY <2>1
    <3>. QED BY <3>1, <1>1, <1>3 DEF NoBlank
  <2>2. CASE i = Len(units)
    <3>1. Len(units) > 0 /\ units[i] \in Units
      BY <2>2
    <3>2. Strip(units)[i] = [units[i] EXCEPT !.ends = "end"]
      BY <1>1, <2>2, <3>1
    <3>. QED BY <3>1, <3>2 DEF Units
  <2>. QED BY <2>1, <2>2
<1>. QED BY <1>1, <1>2, <1>3

LEMMA StripFits == \A units \in Fitting : Strip(units) \in Fitting
<1>. TAKE units \in Fitting
<1>1. units \in Seq(Units) /\ NoBlank(units) /\ Length(units) <= ChunkSize
  BY DEF Fitting
<1>2. /\ Strip(units) \in Seq(Units) /\ Length(Strip(units)) <= Length(units)
      /\ NoBlank(Strip(units))
  BY <1>1, StripIs
<1>3. Length(units) \in Nat /\ Length(Strip(units)) \in Nat
  BY <1>1, <1>2, LengthIsNat
<1>. QED BY <1>1, <1>2, <1>3, ChunkSettings DEF Fitting

LEMMA JoinIs ==
    ASSUME NEW a \in Seq(Units), NEW b \in Seq(Units), a # <<>>
    PROVE  /\ Join(a, b) \in Seq(Units)
           /\ Len(Join(a, b)) = Len(a) + Len(b)
           /\ \A i \in 1..(Len(a) - 1) : Join(a, b)[i] = a[i]
           /\ Join(a, b)[Len(a)] = [a[Len(a)] EXCEPT !.ends = "blank"]
           /\ \A i \in 1..Len(b) : Join(a, b)[Len(a) + i] = b[i]
           /\ Length(a) <= Length(Join(a, b)) /\ Length(b) <= Length(Join(a, b))
<1>. DEFINE ended == EndWith(a, "blank")
            n == Len(a)
<1>. "blank" \in DOMAIN Separator
  BY DEF Separator
<1>1. n \in Nat /\ n > 0 /\ a[n] \in Units /\ n \in 1..n
  OBVIOUS
<1>2. /\ ended \in Seq(Units) /\ Len(ended) = n
      /\ \A i \in 1..(n - 1) : ended[i] = a[i]
      /\ ended[n] = [a[n] EXCEPT !.ends = "blank"]
  BY <1>1, EndWithIs
<1>3. Length(ended) = Length(a) - Separator[a[n].ends] + Separator["blank"]
  BY LengthEnded
<1>4. Separator[a[n].ends] \in Nat /\ Separator[a[n].ends] <= Separator["blank"] /\ Separator["blank"] = 2
  BY <1>1 DEF Units, Separator
<1>5. Length(a) \in Nat /\ Length(b) \in Nat
  BY LengthIsNat
<1>6. Length(a) <= Length(ended) /\ Length(ended) \in Nat
  BY <1>3, <1>4, <1>5
<1>7. ended \o b \in Seq(Units) /\ Length(ended \o b) = Length(ended) + Length(b)
  <2>. HIDE DEF ended
  <2>. QED BY <1>2, LengthJoined
<1>8. /\ Len(ended \o b) = n + Len(b)
      /\ \A i \in 1..n : (ended \o b)[i] = ended[i]
      /\ \A i \in 1..Len(b) : (ended \o b)[n + i] = b[i]
  <2>. DEFINE c == ended \o b
  <2>. HIDE DEF ended, n
  <2>1. /\ Len(c) = Len(ended) + Len(b)
        /\ \A i \in 1..Len(ended) : c[i] = ended[i]
        /\ \A i \in 1..Len(b) : c[Len(ended) + i] = b[i]
    <3>1. ended \in Seq(Units) /\ b \in Seq(Units)
      BY <1>2
    <3>. HIDE DEF c
    <3>. QED BY <3>1, Joined DEF c
  <2>. HIDE DEF c
  <2>2. /\ Len(c) = n + Len(b)
        /\ \A i \in 1..n : c[i] = ended[i]
        /\ \A i \in 1..Len(b) : c[n + i] = b[i]
    BY <1>2, <2>1
  <2>. QED BY <2>2 DEF c
<1>9. Join(a, b) = ended \o b
  BY DEF Join
<1>10. \A i \in 1..(n - 1) : Join(a, b)[i] = a[i]
  <2>1. \A i \in 1..(n - 1) : i \in 1..n
    BY <1>1
  <2>. HIDE DEF ended, n
  <2>. QED BY <1>2, <1>8, <1>9, <2>1
<1>11. Join(a, b)[n] = [a[n] EXCEPT !.ends = "blank"]
  <2>. HIDE DEF ended, n
  <2>. QED BY <1>1, <1>2, <1>8, <1>9
<1>12. \A i \in 1..Len(b) : Join(a, b)[n + i] = b[i]
  <2>. HIDE DEF ended, n
  <2>. QED BY <1>8, <1>9
<1>13. Length(a) <= Length(Join(a, b)) /\ Length(b) <= Length(Join(a, b))
  <2>. HIDE DEF ended, n
  <2>. QED BY <1>5, <1>6, <1>7, <1>9
<1>. QED BY <1>7, <1>8, <1>9, <1>10, <1>11, <1>12, <1>13

-----------------------------------------------------------------------------
(* Pieces of a paragraph. *)

Blankless == {units \in Seq(Units) : NoBlank(units)}

\* A finished chunk: something, with nothing after its last word.
Finished(units) == units # <<>> /\ units[Len(units)].ends = "end"
Solid == {units \in Fitting : Finished(units)}

\* What packing is given.
Portions == {piece \in [units : Fitting, finished : BOOLEAN] : piece.finished => Finished(piece.units)}

LEMMA StretchIsBlankless ==
    ASSUME NEW units \in Blankless, NEW a \in Nat \ {0}, NEW b \in Int, b <= Len(units)
    PROVE  SubSeq(units, a, b) \in Blankless
<1>. DEFINE part == SubSeq(units, a, b)
<1>1. units \in Seq(Units) /\ \A i \in 1..Len(units) : units[i].ends # "blank"
  BY DEF Blankless, NoBlank
<1>2. /\ part \in Seq(Units)
      /\ \A i \in 1..Len(part) : part[i] = units[a + i - 1] /\ a + i - 1 \in 1..Len(units)
  BY <1>1, Stretch
<1>. HIDE DEF part
<1>3. \A i \in 1..Len(part) : part[i].ends # "blank"
  BY <1>1, <1>2
<1>4. part \in Blankless
  BY <1>2, <1>3 DEF Blankless, NoBlank
<1>. QED BY <1>4 DEF part

LEMMA CutIs ==
    ASSUME NEW units \in Blankless, NEW level
    PROVE  Cut(units, level) \in Seq(Blankless)
<1>. DEFINE places == {i \in 1..Len(units) : i = Len(units) \/ units[i].ends \in Boundaries[level]}
            ends == Ascending(places)
            n == Cardinality(places)
            part(k) == SubSeq(units, IF k = 1 THEN 1 ELSE ends[k - 1] + 1, ends[k])
<1>1. units \in Seq(Units) /\ Len(units) \in Nat /\ places \in SUBSET (1..Len(units))
  BY DEF Blankless
<1>2. n \in Nat /\ ends \in [1..n -> places]
  <2>. HIDE DEF places
  <2>. QED BY <1>1, ChosenIsInOrder
<1>3. Cut(units, level) = [k \in 1..Len(ends) |-> part(k)]
  BY DEF Cut
<1>4. \A k \in 1..n : ends[k] \in 1..Len(units)
  BY <1>1, <1>2
<1>. HIDE DEF places
<1>5. Len(ends) = n
  <2>. HIDE DEF ends, n
  <2>. QED BY <1>2
<1>. HIDE DEF ends, n
<1>6. ASSUME NEW k \in 1..n PROVE part(k) \in Blankless
  <2>. DEFINE a == IF k = 1 THEN 1 ELSE ends[k - 1] + 1
  <2>1. k # 1 => k - 1 \in 1..n
    BY <1>2
  <2>2. a \in Nat \ {0} /\ ends[k] \in Int /\ ends[k] <= Len(units)
    BY <1>1, <1>4, <2>1
  <2>. HIDE DEF a
  <2>3. SubSeq(units, a, ends[k]) \in Blankless
    BY <2>2, StretchIsBlankless
  <2>. QED BY <2>3 DEF a
<1>. HIDE DEF part
<1>7. [k \in 1..n |-> part(k)] \in Seq(Blankless)
  BY <1>2, <1>6
<1>. QED BY <1>3, <1>5, <1>7

LEMMA RefineIs ==
    ASSUME NEW parts \in Seq(Blankless), NEW level
    PROVE  Refine(parts, level) \in Seq(Blankless)
<1>. DEFINE cut == [k \in 1..Len(parts) |-> IF Length(parts[k]) <= ChunkSize
                                               THEN <<parts[k]>>
                                               ELSE Cut(parts[k], level)]
<1>1. \A k \in 1..Len(parts) : parts[k] \in Blankless
  OBVIOUS
<1>2. \A k \in 1..Len(parts) : Cut(parts[k], level) \in Seq(Blankless) /\ <<parts[k]>> \in Seq(Blankless)
  BY <1>1, CutIs
<1>3. cut \in Seq(Seq(Blankless))
  <2>1. \A k \in 1..Len(parts) : cut[k] \in Seq(Blankless)
    BY <1>2
  <2>2. Len(parts) \in Nat
    OBVIOUS
  <2>. QED BY <2>1, <2>2
<1>. HIDE DEF cut
<1>4. FlattenSeq(cut) \in Seq(Blankless)
  BY <1>3, Flattened
<1>. QED BY <1>4 DEF Refine, cut

\* Refine at one level after the other.
LEMMA RefineSteps ==
    ASSUME NEW parts \in Seq(Blankless), NEW levels \in Seq({1, 2, 3})
    PROVE  \E h : /\ h \in [0..Len(levels) -> Seq(Blankless)]
                  /\ h[0] = parts
                  /\ \A k \in 1..Len(levels) : h[k] = Refine(h[k - 1], levels[k])
                  /\ h[Len(levels)] = FoldLeft(Refine, parts, levels)
<1>. DEFINE n == Len(levels)
            B == Seq(Blankless)
            g == [p \in B \X (1..n) |-> Refine(p[1], levels[p[2]])]
            Is(it) == it = [s \in SUBSET DOMAIN levels |->
                               IF s = {} THEN parts
                               ELSE Refine(it[s \ {Max(s)}], levels[Max(s)])]
            f == CHOOSE it : Is(it)
<1>1. n \in Nat /\ DOMAIN levels = 1..n /\ \A k \in 1..n : levels[k] \in {1, 2, 3}
  BY LenProperties
<1>2. parts \in B /\ \A b \in B, x \in {1, 2, 3} : Refine(b, x) \in B
  BY RefineIs
<1>3. g \in [B \X (1..n) -> B]
  BY <1>1, <1>2
<1>4. PICK it \in [SUBSET (1..n) -> B] : Folding(it, 1..n, parts, g)
  BY <1>1, <1>2, <1>3, FoldingExists
<1>5. Is(it)
  <2>1. \A s \in SUBSET (1..n) : s # {} => Max(s) \in 1..n /\ s \ {Max(s)} \in SUBSET (1..n)
    BY <1>1, GreatestPlace
  <2>2. \A s \in SUBSET (1..n) : s # {} =>
           g[<<it[s \ {Max(s)}], Max(s)>>] = Refine(it[s \ {Max(s)}], levels[Max(s)])
    BY <2>1
  <2>. QED BY <1>1, <1>4, <2>2 DEF Folding
<1>6. Is(f)
  BY <1>5
<1>7. FoldLeft(Refine, parts, levels) = f[1..n]
  BY <1>1 DEF FoldLeft, MapThenFoldSet
<1>. HIDE DEF f
<1>8. FoldsTo(f, n, B, parts, g)
  <2>1. f[{}] = parts
    BY <1>6
  <2>2. \A k \in 1..n : f[1..k] = Refine(f[1..(k - 1)], levels[k])
    <3>. TAKE k \in 1..n
    <3>1. k \in Nat \ {0} /\ 1..k \in SUBSET (1..n)
      BY <1>1
    <3>2. 1..k # {} /\ Max(1..k) = k /\ (1..k) \ {k} = 1..(k - 1)
      BY <3>1, Spans
    <3>3. f[1..k] = IF 1..k = {} THEN parts ELSE Refine(f[(1..k) \ {Max(1..k)}], levels[Max(1..k)])
      BY <1>1, <1>6, <3>1
    <3>. QED BY <3>2, <3>3
  <2>3. \A k \in 1..n : f[1..(k - 1)] \in B => f[1..k] = g[<<f[1..(k - 1)], k>>]
    BY <2>2
  <2>. HIDE DEF g, n, B
  <2>. QED BY <1>1, <1>2, <1>3, <2>1, <2>3 DEF FoldsTo
<1>9. \A k \in 1..n, b \in B : g[<<b, k>>] = Refine(b, levels[k])
  OBVIOUS
<1>. HIDE DEF g, B, n
<1>10. PICK h : Steps(h, n, B, parts, g) /\ h[n] = f[1..n]
  BY <1>8, StepsOfFolding
<1>11. h \in [0..n -> B] /\ h[0] = parts /\ \A k \in 1..n : h[k] = g[<<h[k - 1], k>>]
  BY <1>10 DEF Steps
<1>12. \A k \in 1..n : h[k] = Refine(h[k - 1], levels[k])
  <2>1. \A k \in 1..n : h[k - 1] \in B
    BY <1>1, <1>11
  <2>. QED BY <1>9, <1>11, <2>1
<1>. QED BY <1>7, <1>10, <1>11, <1>12 DEF B, n

LEMMA LengthOfOne == \A unit \in Units : <<unit>> \in Seq(Units) /\ Length(<<unit>>) = Width(unit)
<1>. TAKE unit \in Units
<1>. DEFINE one == <<unit>>
<1>1. one \in Seq(Units) /\ Len(one) = 1 /\ one[1] = unit
  OBVIOUS
<1>. HIDE DEF one
<1>2. SubSeq(one, 1, 1) = one /\ SubSeq(one, 1, 1 - 1) = <<>>
  BY <1>1
<1>3. Length(SubSeq(one, 1, 1)) = Length(SubSeq(one, 1, 1 - 1)) + Width(one[1])
  <2>1. 1 \in Nat /\ 1 <= Len(one) /\ 1 > 0
    BY <1>1
  <2>. QED BY <1>1, <2>1, LengthOfBeginning
<1>4. Width(unit) \in Nat
  BY WidthIs
<1>5. one \in Seq(Units) /\ Length(one) = Width(unit)
  <2>1. Length(SubSeq(one, 1, 1)) = Length(one) /\ Length(SubSeq(one, 1, 1 - 1)) = 0
    BY <1>2, LengthOfNone
  <2>. QED BY <1>1, <1>3, <1>4, <2>1
<1>. QED BY <1>5 DEF one

\* The number of the last window of a long word.
LastWindow(long) ==
    CHOOSE n \in 0..long.to :
        /\ n * (ChunkSize - ChunkOverlap) + ChunkSize >= long.to
        /\ \A m \in 0..(n - 1) : m * (ChunkSize - ChunkOverlap) + ChunkSize < long.to

LEMMA LastWindowIs ==
    ASSUME NEW long \in Units
    PROVE  LET stride == ChunkSize - ChunkOverlap
               last == LastWindow(long)
           IN /\ last \in 0..long.to
              /\ last * stride + ChunkSize >= long.to
              /\ \A m \in 0..(last - 1) : m * stride + ChunkSize < long.to
<1>. DEFINE stride == ChunkSize - ChunkOverlap
            Enough(n) == n * stride + ChunkSize >= long.to
            last == CHOOSE n \in 0..long.to : Enough(n) /\ \A m \in 0..(n - 1) : m * stride + ChunkSize < long.to
<1>1. long.to \in Nat
  BY DEF Units
<1>2. stride \in Nat \ {0} /\ ChunkSize \in Nat /\ stride <= ChunkSize
  BY ChunkSettings
<1>3. /\ last \in 0..long.to /\ Enough(last)
      /\ \A m \in 0..(last - 1) : m * stride + ChunkSize < long.to
  <2>. DEFINE T == {n \in 0..long.to : Enough(n)}
  <2>. HIDE DEF stride
  <2>1. long.to \in T
    <3>1. long.to * stride >= long.to
      BY <1>1, <1>2
    <3>2. long.to * stride \in Nat
      BY <1>1, <1>2
    <3>. QED BY <1>1, <1>2, <3>1, <3>2
  <2>2. T \in SUBSET Nat /\ T # {}
    BY <1>1, <2>1
  <2>3. PICK n \in T : \A m \in T : n <= m
    <3>. HIDE DEF T
    <3>. QED BY <2>2, LeastElement
  <2>4. \A m \in 0..(n - 1) : m * stride + ChunkSize < long.to
    <3>. TAKE m \in 0..(n - 1)
    <3>1. m \in 0..long.to /\ ~(n <= m)
      BY <1>1, <2>3
    <3>2. ~Enough(m)
      BY <2>3, <3>1
    <3>3. m * stride + ChunkSize \in Int
      BY <1>2, <3>1
    <3>. QED BY <1>1, <3>2, <3>3
  <2>5. n \in 0..long.to /\ Enough(n)
    BY <2>3
  <2>. HIDE DEF T, Enough
  <2>. QED BY <2>4, <2>5
<1>. QED BY <1>3 DEF LastWindow

\* The windows of a long word lie inside it, and none is longer than a chunk.
LEMMA SplitByCharactersIs ==
    ASSUME NEW units \in Blankless, units # <<>>
    PROVE  SplitByCharacters(units) \in Seq(Portions)
<1>. DEFINE stride == ChunkSize - ChunkOverlap
            long == units[1]
            last == LastWindow(long)
            window(n) == [long EXCEPT !.from = n * stride,
                                      !.to = Min({n * stride + ChunkSize, long.to}),
                                      !.ends = "end"]
<1>1. long \in Units /\ long.to \in Nat
  BY DEF Blankless, Units
<1>2. stride \in Nat \ {0} /\ ChunkSize \in Nat /\ stride <= ChunkSize
  BY ChunkSettings
<1>3. last \in 0..long.to /\ \A m \in 0..(last - 1) : m * stride + ChunkSize < long.to
  BY <1>1, LastWindowIs
<1>. HIDE DEF last
<1>4. ASSUME NEW n \in 0..last PROVE window(n) \in Units /\ Width(window(n)) <= ChunkSize
                                      /\ window(n).ends = "end"
  <2>. HIDE DEF stride
  <2>1. n \in Nat /\ n * stride \in Nat
    BY <1>1, <1>2, <1>3
  <2>2. n * stride <= long.to
    <3>1. CASE n = 0
      BY <1>1, <1>2, <3>1
    <3>2. CASE n # 0
      <4>1. n - 1 \in 0..(last - 1) /\ n - 1 \in Nat
        BY <1>1, <1>3, <2>1, <3>2
      <4>2. (n - 1) * stride + ChunkSize < long.to
        BY <1>3, <4>1
      <4>3. n * stride = (n - 1) * stride + stride /\ (n - 1) * stride \in Nat
        BY <1>2, <4>1
      <4>. HIDE DEF long
      <4>. QED BY <1>1, <1>2, <4>2, <4>3
    <3>. QED BY <3>1, <3>2
  <2>. DEFINE from == n * stride
              to == Min({from + ChunkSize, long.to})
  <2>3. from \in Nat /\ from <= long.to
    BY <2>1, <2>2
  <2>. HIDE DEF from
  <2>4. to \in Nat /\ from <= to /\ to - from <= ChunkSize
    <3>. HIDE DEF long
    <3>1. from + ChunkSize \in Int /\ long.to \in Int
      BY <1>1, <1>2, <2>3
    <3>2. to = IF from + ChunkSize <= long.to THEN from + ChunkSize ELSE long.to
      BY <3>1, LesserOf
    <3>. QED BY <1>1, <1>2, <2>3, <3>2
  <2>. HIDE DEF to
  <2>5. window(n) = [long EXCEPT !.from = from, !.to = to, !.ends = "end"]
    BY DEF from, to
  <2>. HIDE DEF window, long
  <2>6. /\ window(n) \in Units
        /\ window(n).from = from /\ window(n).to = to /\ window(n).ends = "end"
    BY <1>1, <2>3, <2>4, <2>5 DEF Units, Separator
  <2>7. Width(window(n)) = to - from
    BY <2>3, <2>4, <2>6 DEF Width, Separator
  <2>. QED BY <2>4, <2>6, <2>7
<1>5. ASSUME NEW n \in 0..last PROVE [units |-> <<window(n)>>, finished |-> TRUE] \in Portions
  <2>. DEFINE w == window(n)
  <2>1. w \in Units /\ Width(w) <= ChunkSize /\ w.ends = "end"
    BY <1>4
  <2>. HIDE DEF window, w
  <2>2. <<w>> \in Seq(Units) /\ Length(<<w>>) <= ChunkSize
    BY <2>1, LengthOfOne
  <2>3. NoBlank(<<w>>)
    BY <2>1 DEF NoBlank
  <2>4. <<w>> \in Fitting
    BY <2>2, <2>3 DEF Fitting
  <2>5. Finished(<<w>>)
    BY <2>1 DEF Finished
  <2>. QED BY <2>4, <2>5 DEF Portions, w
<1>6. SplitByCharacters(units) = [k \in 1..(last + 1) |-> [units |-> <<window(k - 1)>>, finished |-> TRUE]]
  BY DEF SplitByCharacters, LastWindow, last
<1>7. last + 1 \in Nat /\ \A k \in 1..(last + 1) : k - 1 \in 0..last
  <2>. HIDE DEF long
  <2>. QED BY <1>1, <1>3
<1>. HIDE DEF window
<1>8. \A k \in 1..(last + 1) : [units |-> <<window(k - 1)>>, finished |-> TRUE] \in Portions
  BY <1>5, <1>7
<1>. QED BY <1>6, <1>7, <1>8

LEMMA PiecesAre ==
    ASSUME NEW paragraph \in Blankless
    PROVE  Pieces(paragraph) \in Seq(Portions)
<1>. DEFINE levels == <<1, 2, 3>>
            parts == FoldLeft(Refine, <<paragraph>>, levels)
            Part(k) == IF Length(parts[k]) <= ChunkSize
                          THEN <<[units |-> parts[k], finished |-> FALSE]>>
                          ELSE SplitByCharacters(parts[k])
<1>1. levels \in Seq({1, 2, 3}) /\ Len(levels) = 3 /\ <<paragraph>> \in Seq(Blankless)
  OBVIOUS
<1>. HIDE DEF levels
<1>2. parts \in Seq(Blankless)
  <2>. DEFINE first == <<paragraph>>
  <2>0. first \in Seq(Blankless)
    BY <1>1
  <2>. HIDE DEF first
  <2>1. PICK h : /\ h \in [0..Len(levels) -> Seq(Blankless)]
                 /\ h[0] = first
                 /\ \A k \in 1..Len(levels) : h[k] = Refine(h[k - 1], levels[k])
                 /\ h[Len(levels)] = FoldLeft(Refine, first, levels)
    BY <1>1, <2>0, RefineSteps
  <2>. QED BY <1>1, <2>1 DEF first
<1>3. Pieces(paragraph) = FlattenSeq([k \in 1..Len(parts) |-> Part(k)])
  BY DEF Pieces, levels
<1>. HIDE DEF parts
<1>4. ASSUME NEW k \in 1..Len(parts) PROVE Part(k) \in Seq(Portions)
  <2>1. parts[k] \in Blankless
    BY <1>2
  <2>2. CASE Length(parts[k]) <= ChunkSize
    <3>1. parts[k] \in Fitting
      BY <2>1, <2>2 DEF Fitting, Blankless
    <3>2. [units |-> parts[k], finished |-> FALSE] \in Portions
      BY <3>1 DEF Portions
    <3>. QED BY <2>2, <3>2
  <2>3. CASE ~(Length(parts[k]) <= ChunkSize)
    <3>1. parts[k] # <<>>
      BY <2>3, LengthOfNone, ChunkSettings
    <3>. QED BY <2>1, <2>3, <3>1, SplitByCharactersIs
  <2>. QED BY <2>2, <2>3
<1>5. Len(parts) \in Nat
  BY <1>2
<1>. HIDE DEF Part
<1>6. [k \in 1..Len(parts) |-> Part(k)] \in Seq(Seq(Portions))
  BY <1>4, <1>5
<1>. QED BY <1>3, <1>6, Flattened

-----------------------------------------------------------------------------
(* Packing. *)

LEMMA OverlapTailIs ==
    ASSUME NEW window \in Blankless
    PROVE  /\ OverlapTail(window) \in Blankless
           /\ \E a \in Nat \ {0} : OverlapTail(window) = SubSeq(window, a, Len(window))
<1>. DEFINE start == Length(Strip(window)) - ChunkOverlap
            later == 2..Len(window)
            Starts(kinds, reach) ==
                {i \in later : window[i - 1].ends \in kinds /\ Offset(window, i) - reach >= start}
            exactly == {i \in later : Offset(window, i) = start}
            lines == Starts({"line"}, 1)
            sentences == Starts({"sentence"}, 2)
            words == Starts({"word", "sentence"}, 1)
            starts == IF exactly # {} THEN exactly
                      ELSE IF lines # {} THEN lines
                      ELSE IF sentences # {} THEN sentences
                      ELSE words
            none == ChunkOverlap = 0 \/ start <= 0 \/ starts = {}
<1>1. OverlapTail(window) = IF none THEN <<>> ELSE SubSeq(window, Min(starts), Len(window))
  BY DEF OverlapTail
<1>2. window \in Seq(Units) /\ Len(window) \in Nat
  BY DEF Blankless
<1>3. <<>> \in Blankless
  BY DEF Blankless, NoBlank
<1>4. exactly \subseteq later /\ lines \subseteq later /\ sentences \subseteq later /\ words \subseteq later
  OBVIOUS
<1>. HIDE DEF Starts, exactly, lines, sentences, words
<1>5. starts \subseteq later
  BY <1>4
<1>. HIDE DEF starts, start
<1>6. ASSUME ~none PROVE starts # {}
  BY <1>6
<1>. HIDE DEF none
<1>7. ASSUME ~none
      PROVE  Min(starts) \in Nat \ {0} /\ SubSeq(window, Min(starts), Len(window)) \in Blankless
  <2>1. \A i \in starts : i \in Int /\ 2 <= i
    BY <1>2, <1>5
  <2>2. Min(starts) \in starts
    <3>1. 2 \in Int
      OBVIOUS
    <3>. QED BY <1>6, <1>7, <2>1, <3>1, LeastIs, Zenon
  <2>3. Min(starts) \in Nat \ {0}
    BY <2>1, <2>2
  <2>. QED BY <1>2, <2>3, StretchIsBlankless
<1>8. Len(window) + 1 \in Nat \ {0} /\ SubSeq(window, Len(window) + 1, Len(window)) = <<>>
  BY <1>2
<1>. HIDE DEF later
<1>. QED BY <1>1, <1>3, <1>7, <1>8

LEMMA JoinedFits ==
    ASSUME NEW a \in Blankless, NEW b \in Blankless, Length(a) + Length(b) <= ChunkSize
    PROVE  a \o b \in Fitting
<1>1. a \in Seq(Units) /\ b \in Seq(Units)
  BY DEF Blankless
<1>2. a \o b \in Seq(Units) /\ Length(a \o b) <= ChunkSize
  BY <1>1, LengthJoined
<1>3. NoBlank(a \o b)
  <2>. DEFINE c == a \o b
              n == Len(a)
              m == Len(b)
  <2>. SUFFICES ASSUME NEW i \in 1..Len(c) PROVE c[i].ends # "blank"
    <3>. HIDE DEF c
    <3>1. NoBlank(c)
      BY DEF NoBlank
    <3>. QED BY <3>1 DEF c
  <2>1. /\ Len(c) = n + m /\ n \in Nat /\ m \in Nat
        /\ \A k \in 1..n : c[k] = a[k]
        /\ \A k \in 1..m : c[n + k] = b[k]
    <3>1. Len(a) \in Nat /\ Len(b) \in Nat
      BY <1>1
    <3>. QED BY <1>1, <3>1, Joined
  <2>2. /\ \A k \in 1..n : a[k].ends # "blank"
        /\ \A k \in 1..m : b[k].ends # "blank"
    BY DEF Blankless, NoBlank
  <2>3. i \in 1..Len(c)
    OBVIOUS
  <2>6. 1..Len(c) = 1..(n + m)
    BY <2>1
  <2>. HIDE DEF c, n, m
  <2>4. CASE i \in 1..n
    <3>1. c[i] = a[i]
      BY <2>1, <2>4
    <3>. QED BY <2>2, <2>4, <3>1
  <2>5. CASE i \notin 1..n
    <3>1. i - n \in 1..m /\ n + (i - n) = i
      BY <2>1, <2>3, <2>5, <2>6
    <3>2. c[i] = b[i - n]
      BY <2>1, <3>1
    <3>. QED BY <2>2, <3>1, <3>2
  <2>. QED BY <2>4, <2>5
<1>. QED BY <1>2, <1>3 DEF Fitting

LEMMA EmitIs ==
    ASSUME NEW chunks \in Seq(Solid), NEW window \in Fitting
    PROVE  Emit(chunks, window) \in Seq(Solid)
<1>1. CASE window = <<>>
  BY <1>1 DEF Emit
<1>2. CASE window # <<>>
  <2>1. window \in Seq(Units) /\ Len(window) > 0
    BY <1>2 DEF Fitting
  <2>2. Strip(window) \in Fitting /\ Len(Strip(window)) = Len(window)
    BY <2>1, StripFits, StripIs
  <2>3. Strip(window)[Len(window)].ends = "end"
    <3>1. Strip(window)[Len(window)] = [window[Len(window)] EXCEPT !.ends = "end"]
      BY <2>1, EndWithIs DEF Strip, Separator
    <3>2. window[Len(window)] \in Units
      BY <2>1
    <3>. QED BY <3>1, <3>2 DEF Units
  <2>4. Finished(Strip(window))
    <3>. DEFINE c == Strip(window)
    <3>. HIDE DEF c
    <3>1. c \in Seq(Units) /\ Len(c) > 0 /\ c[Len(c)].ends = "end"
      BY <2>1, <2>2, <2>3 DEF c, Fitting
    <3>2. Finished(c)
      BY <3>1 DEF Finished
    <3>. QED BY <3>2 DEF c
  <2>5. Strip(window) \in Solid
    BY <2>2, <2>4 DEF Solid
  <2>. QED BY <1>2, <2>5 DEF Emit
<1>. QED BY <1>1, <1>2

Packings == [chunks : Seq(Solid), window : Fitting]

LEMMA FittingIsBlankless == \A units \in Fitting : units \in Blankless /\ Length(units) \in Nat
BY LengthIsNat DEF Fitting, Blankless

LEMMA RepeatIs ==
    ASSUME NEW window \in Fitting, NEW piece \in Fitting
    PROVE  Repeat(window, piece) \in Fitting
<1>. DEFINE tail == OverlapTail(window)
<1>1. tail \in Blankless
  BY OverlapTailIs, FittingIsBlankless
<1>2. piece \in Blankless
  BY FittingIsBlankless
<1>. HIDE DEF tail
<1>3. Length(tail) + Length(piece) <= ChunkSize => tail \o piece \in Fitting
  BY <1>1, <1>2, JoinedFits
<1>. QED BY <1>3 DEF Repeat, tail

LEMMA PackPieceIs ==
    \A packed \in Packings, piece \in Portions : PackPiece(packed, piece) \in Packings
<1>. TAKE packed \in Packings, piece \in Portions
<1>1. /\ packed.chunks \in Seq(Solid) /\ packed.window \in Fitting
      /\ packed = [chunks |-> packed.chunks, window |-> packed.window]
      /\ piece.units \in Fitting /\ (piece.finished => piece.units \in Solid)
  BY DEF Packings, Portions, Solid
<1>2. Emit(packed.chunks, packed.window) \in Seq(Solid)
  BY <1>1, EmitIs
<1>3. <<>> \in Fitting
  <2>1. <<>> \in Seq(Units) /\ NoBlank(<<>>) /\ Length(<<>>) <= ChunkSize
    BY LengthOfNone, ChunkSettings DEF NoBlank
  <2>. QED BY <2>1 DEF Fitting
<1>4. CASE piece.finished
  <2>1. Append(Emit(packed.chunks, packed.window), piece.units) \in Seq(Solid)
    BY <1>1, <1>2, <1>4
  <2>. QED BY <1>3, <1>4, <2>1 DEF PackPiece, Packings
<1>5. CASE ~piece.finished /\ packed.window # <<>>
           /\ Length(packed.window) + Length(piece.units) > ChunkSize
  <2>1. Repeat(packed.window, piece.units) \in Fitting
    BY <1>1, RepeatIs
  <2>. QED BY <1>2, <1>5, <2>1 DEF PackPiece, Packings
<1>6. CASE ~piece.finished /\ ~(packed.window # <<>>
           /\ Length(packed.window) + Length(piece.units) > ChunkSize)
  <2>1. Length(packed.window) \in Nat /\ Length(piece.units) \in Nat /\ Length(piece.units) <= ChunkSize
        /\ packed.window \in Blankless /\ piece.units \in Blankless
    BY <1>1, FittingIsBlankless DEF Fitting
  <2>2. Length(packed.window) + Length(piece.units) <= ChunkSize
    <3>1. CASE packed.window = <<>>
      BY <2>1, <3>1, LengthOfNone
    <3>2. CASE packed.window # <<>>
      BY <1>6, <2>1, <3>2, ChunkSettings
    <3>. QED BY <3>1, <3>2
  <2>3. packed.window \o piece.units \in Fitting
    BY <2>1, <2>2, JoinedFits
  <2>4. PackPiece(packed, piece) = [packed EXCEPT !.window = @ \o piece.units]
    BY <1>6 DEF PackPiece
  <2>5. PackPiece(packed, piece) = [chunks |-> packed.chunks, window |-> packed.window \o piece.units]
    BY <1>1, <2>4
  <2>. QED BY <1>1, <2>3, <2>5 DEF Packings
<1>. QED BY <1>4, <1>5, <1>6

\* Packing, a piece at a time.
LEMMA PackSteps ==
    ASSUME NEW first \in Packings, NEW pieces \in Seq(Portions)
    PROVE  \E h : /\ h \in [0..Len(pieces) -> Packings]
                  /\ h[0] = first
                  /\ \A k \in 1..Len(pieces) : h[k] = PackPiece(h[k - 1], pieces[k])
                  /\ h[Len(pieces)] = FoldLeft(PackPiece, first, pieces)
<1>. DEFINE n == Len(pieces)
            B == Packings
            g == [p \in B \X (1..n) |-> PackPiece(p[1], pieces[p[2]])]
            Is(it) == it = [s \in SUBSET DOMAIN pieces |->
                               IF s = {} THEN first
                               ELSE PackPiece(it[s \ {Max(s)}], pieces[Max(s)])]
            f == CHOOSE it : Is(it)
<1>1. n \in Nat /\ DOMAIN pieces = 1..n /\ \A k \in 1..n : pieces[k] \in Portions
  BY LenProperties
<1>2. first \in B /\ \A b \in B, x \in Portions : PackPiece(b, x) \in B
  BY PackPieceIs
<1>3. g \in [B \X (1..n) -> B]
  BY <1>1, <1>2
<1>4. PICK it \in [SUBSET (1..n) -> B] : Folding(it, 1..n, first, g)
  BY <1>1, <1>2, <1>3, FoldingExists
<1>5. Is(it)
  <2>1. \A s \in SUBSET (1..n) : s # {} => Max(s) \in 1..n /\ s \ {Max(s)} \in SUBSET (1..n)
    BY <1>1, GreatestPlace
  <2>2. \A s \in SUBSET (1..n) : s # {} =>
           g[<<it[s \ {Max(s)}], Max(s)>>] = PackPiece(it[s \ {Max(s)}], pieces[Max(s)])
    BY <2>1
  <2>. QED BY <1>1, <1>4, <2>2 DEF Folding
<1>6. Is(f)
  BY <1>5
<1>7. FoldLeft(PackPiece, first, pieces) = f[1..n]
  BY <1>1 DEF FoldLeft, MapThenFoldSet
<1>. HIDE DEF f
<1>8. FoldsTo(f, n, B, first, g)
  <2>1. f[{}] = first
    BY <1>6
  <2>2. \A k \in 1..n : f[1..k] = PackPiece(f[1..(k - 1)], pieces[k])
    <3>. TAKE k \in 1..n
    <3>1. k \in Nat \ {0} /\ 1..k \in SUBSET (1..n)
      BY <1>1
    <3>2. 1..k # {} /\ Max(1..k) = k /\ (1..k) \ {k} = 1..(k - 1)
      BY <3>1, Spans
    <3>3. f[1..k] = IF 1..k = {} THEN first ELSE PackPiece(f[(1..k) \ {Max(1..k)}], pieces[Max(1..k)])
      BY <1>1, <1>6, <3>1
    <3>. QED BY <3>2, <3>3
  <2>3. \A k \in 1..n : f[1..(k - 1)] \in B => f[1..k] = g[<<f[1..(k - 1)], k>>]
    BY <2>2
  <2>. HIDE DEF g, n, B
  <2>. QED BY <1>1, <1>2, <1>3, <2>1, <2>3 DEF FoldsTo
<1>9. \A k \in 1..n, b \in B : g[<<b, k>>] = PackPiece(b, pieces[k])
  OBVIOUS
<1>. HIDE DEF g, B, n
<1>10. PICK h : Steps(h, n, B, first, g) /\ h[n] = f[1..n]
  BY <1>8, StepsOfFolding
<1>11. h \in [0..n -> B] /\ h[0] = first /\ \A k \in 1..n : h[k] = g[<<h[k - 1], k>>]
  BY <1>10 DEF Steps
<1>12. \A k \in 1..n : h[k] = PackPiece(h[k - 1], pieces[k])
  <2>1. \A k \in 1..n : h[k - 1] \in B
    BY <1>1, <1>11
  <2>. QED BY <1>9, <1>11, <2>1
<1>. QED BY <1>7, <1>10, <1>11, <1>12 DEF B, n

LEMMA PackIs ==
    ASSUME NEW pieces \in Seq(Portions)
    PROVE  Pack(pieces) \in Seq(Solid)
<1>. DEFINE first == [chunks |-> <<>>, window |-> <<>>]
            packed == FoldLeft(PackPiece, first, pieces)
<1>1. first \in Packings
  <2>1. <<>> \in Fitting
    <3>1. <<>> \in Seq(Units) /\ NoBlank(<<>>) /\ Length(<<>>) <= ChunkSize
      BY LengthOfNone, ChunkSettings DEF NoBlank
    <3>. QED BY <3>1 DEF Fitting
  <2>2. <<>> \in Seq(Solid)
    OBVIOUS
  <2>. QED BY <2>1, <2>2 DEF Packings
<1>2. Pack(pieces) = Emit(packed.chunks, packed.window)
  BY DEF Pack
<1>. HIDE DEF first
<1>3. packed \in Packings
  <2>1. PICK h : /\ h \in [0..Len(pieces) -> Packings]
                 /\ h[0] = first
                 /\ \A k \in 1..Len(pieces) : h[k] = PackPiece(h[k - 1], pieces[k])
                 /\ h[Len(pieces)] = FoldLeft(PackPiece, first, pieces)
    BY <1>1, PackSteps
  <2>2. Len(pieces) \in 0..Len(pieces)
    OBVIOUS
  <2>. QED BY <2>1, <2>2
<1>. HIDE DEF packed
<1>4. packed.chunks \in Seq(Solid) /\ packed.window \in Fitting
  BY <1>3 DEF Packings
<1>. QED BY <1>2, <1>4, EmitIs

\* The chunks of a text before headings are moved: none empty, none too long, nothing joined.
LEMMA PackedChunksAre ==
    ASSUME NEW text \in Texts
    PROVE  PackedChunks(text) \in Seq(Solid)
<1>. DEFINE each == [k \in 1..Len(text) |-> ParagraphChunks(text[k])]
            Whole == {unit \in Units : unit.from = 0 /\ unit.ends # "blank"}
<1>1. text \in Seq(Paragraphs)
  BY DEF Texts
<1>2. ASSUME NEW k \in 1..Len(text) PROVE ParagraphChunks(text[k]) \in Seq(Solid)
  <2>0. text[k] \in Paragraphs
    BY <1>1
  <2>1. /\ text[k] \in Seq(Whole) /\ text[k] # <<>>
        /\ \A i \in 1..Len(text[k]) : text[k][i].ends = "end" <=> i = Len(text[k])
    BY <2>0 DEF Paragraphs
  <2>2. \A i \in 1..Len(text[k]) : text[k][i] \in Units /\ text[k][i].ends # "blank"
    BY <2>1
  <2>3. text[k] \in Seq(Units)
    BY <2>1, <2>2
  <2>4. text[k] \in Blankless
    BY <2>2, <2>3 DEF Blankless, NoBlank
  <2>5. CASE Length(text[k]) <= ChunkSize
    <3>1. Len(text[k]) \in 1..Len(text[k])
      BY <2>1
    <3>2. Finished(text[k])
      BY <2>1, <3>1 DEF Finished
    <3>3. text[k] \in Solid
      BY <2>4, <2>5, <3>2 DEF Solid, Fitting, Blankless
    <3>. QED BY <2>5, <3>3 DEF ParagraphChunks
  <2>6. CASE ~(Length(text[k]) <= ChunkSize)
    <3>1. Pieces(text[k]) \in Seq(Portions)
      BY <2>4, PiecesAre
    <3>2. Pack(Pieces(text[k])) \in Seq(Solid)
      BY <3>1, PackIs
    <3>. QED BY <2>6, <3>2 DEF ParagraphChunks
  <2>. QED BY <2>5, <2>6
<1>3. Len(text) \in Nat
  BY <1>1
<1>4. each \in Seq(Seq(Solid))
  BY <1>2, <1>3
<1>. HIDE DEF each
<1>5. FlattenSeq(each) \in Seq(Solid)
  BY <1>4, Flattened
<1>. QED BY <1>5 DEF PackedChunks, each

-----------------------------------------------------------------------------
(* Headings. *)

\* The last line of a chunk is a heading line.
EndsOnHeading(chunk) ==
    \E i \in LineStarts(chunk) : IsHeading(chunk, i) /\ \A k \in LineStarts(chunk) : k <= i

LEMMA TrailingIs ==
    ASSUME NEW chunk \in Seq(Units)
    PROVE  LET t == TrailingHeadings(chunk)
           IN /\ t \in 1..(Len(chunk) + 1)
              /\ t <= Len(chunk) => /\ t \in LineStarts(chunk)
                                    /\ \A k \in LineStarts(chunk) : k >= t => IsHeading(chunk, k)
              /\ \A i \in LineStarts(chunk) :
                    (\A k \in LineStarts(chunk) : k >= i => IsHeading(chunk, k)) => t <= i
<1>. DEFINE n == Len(chunk)
            good == {i \in LineStarts(chunk) : \A k \in LineStarts(chunk) : k >= i => IsHeading(chunk, k)}
            all == {n + 1} \cup good
            t == TrailingHeadings(chunk)
<1>1. n \in Nat /\ LineStarts(chunk) \subseteq 1..n
  BY DEF LineStarts
<1>2. t = Min(all)
  BY DEF TrailingHeadings
<1>3. \A x \in all : x \in Int /\ 1 <= x /\ x <= n + 1
  BY <1>1
<1>4. t \in all /\ \A x \in all : t <= x
  <2>. HIDE DEF all, t
  <2>1. all # {}
    BY DEF all
  <2>2. 1 \in Int
    OBVIOUS
  <2>3. Min(all) \in all /\ \A x \in all : Min(all) <= x
    BY <1>3, <2>1, <2>2, LeastIs
  <2>. QED BY <1>2, <2>3
<1>5. t \in 1..(n + 1)
  <2>. HIDE DEF all, t, n
  <2>. QED BY <1>1, <1>3, <1>4
<1>6. t <= n => t \in good
  <2>. HIDE DEF t, n, good
  <2>. QED BY <1>1, <1>4
<1>7. \A i \in good : t <= i
  <2>. HIDE DEF t, n, good
  <2>. QED BY <1>4
<1>. HIDE DEF t, n
<1>. QED BY <1>5, <1>6, <1>7 DEF t, n

LEMMA NoHeadingAtTheEnd ==
    ASSUME NEW chunk \in Seq(Units)
    PROVE  TrailingHeadings(chunk) = Len(chunk) + 1 <=> ~EndsOnHeading(chunk)
<1>. DEFINE n == Len(chunk)
            t == TrailingHeadings(chunk)
<1>1. n \in Nat /\ LineStarts(chunk) \subseteq 1..n
  BY DEF LineStarts
<1>2. /\ t \in 1..(n + 1)
      /\ t <= n => /\ t \in LineStarts(chunk)
                   /\ \A k \in LineStarts(chunk) : k >= t => IsHeading(chunk, k)
      /\ \A i \in LineStarts(chunk) :
            (\A k \in LineStarts(chunk) : k >= i => IsHeading(chunk, k)) => t <= i
  BY TrailingIs
<1>. HIDE DEF t, n
<1>3. ASSUME EndsOnHeading(chunk) PROVE t # n + 1
  <2>1. PICK i \in LineStarts(chunk) : IsHeading(chunk, i) /\ \A k \in LineStarts(chunk) : k <= i
    BY <1>3 DEF EndsOnHeading
  <2>2. \A k \in LineStarts(chunk) : k >= i => k = i
    BY <1>1, <2>1
  <2>3. t <= i
    BY <1>2, <2>1, <2>2
  <2>4. i <= n /\ i \in Int
    BY <1>1, <2>1
  <2>. QED BY <1>1, <1>2, <2>3, <2>4
<1>4. ASSUME t # n + 1 PROVE EndsOnHeading(chunk)
  <2>1. t <= n /\ t \in LineStarts(chunk)
    BY <1>1, <1>2, <1>4
  <2>2. \A x \in LineStarts(chunk) : x \in Int /\ x <= n
    BY <1>1
  <2>3. n \in Int /\ LineStarts(chunk) # {}
    BY <1>1, <2>1
  <2>. DEFINE T == LineStarts(chunk)
  <2>4. T # {} /\ \A x \in T : x \in Int /\ x <= n
    BY <2>2, <2>3
  <2>. HIDE DEF T
  <2>5. Max(T) \in T /\ \A x \in T : x <= Max(T)
    BY <2>3, <2>4, GreatestIs
  <2>6. Max(T) >= t
    <3>1. t \in T
      BY <2>1 DEF T
    <3>2. t \in Int /\ Max(T) \in Int
      BY <2>4, <2>5, <3>1
    <3>. QED BY <2>5, <3>1, <3>2
  <2>7. IsHeading(chunk, Max(T))
    BY <1>2, <2>1, <2>5, <2>6 DEF T
  <2>. QED BY <2>5, <2>7 DEF EndsOnHeading, T
<1>. QED BY <1>3, <1>4 DEF t, n

\* A finished chunk, as packed or with headings of the chunk before it above.
Topped ==
    {chunk \in Seq(Units) :
        /\ Finished(chunk)
        /\ \/ chunk \in Solid
           \/ \E m \in 1..(Len(chunk) - 1) :
                 /\ chunk[m].ends = "blank"
                 /\ \A k \in LineStarts(chunk) : k <= m => IsHeading(chunk, k)}

\* What is left of a chunk when its last headings are moved.
Carried ==
    {chunk \in Seq(Units) : /\ ~EndsOnHeading(chunk)
                            /\ NoBlank(chunk) => Length(chunk) <= ChunkSize}

LEMMA NothingToCarry ==
    ASSUME NEW chunk \in Topped, TrailingHeadings(chunk) = Len(chunk) + 1
    PROVE  chunk \in Carried
<1>1. chunk \in Seq(Units)
  BY DEF Topped
<1>2. ~EndsOnHeading(chunk)
  BY <1>1, NoHeadingAtTheEnd
<1>3. ASSUME NoBlank(chunk) PROVE Length(chunk) <= ChunkSize
  <2>1. \A m \in 1..(Len(chunk) - 1) : chunk[m].ends # "blank"
    BY <1>1, <1>3 DEF NoBlank
  <2>2. chunk \in Solid
    BY <2>1 DEF Topped
  <2>. QED BY <2>2 DEF Solid, Fitting
<1>. QED BY <1>1, <1>2, <1>3 DEF Carried

LEMMA RestIsCarried ==
    ASSUME NEW chunk \in Topped, NEW t, t = TrailingHeadings(chunk), t <= Len(chunk)
    PROVE  Strip(SubSeq(chunk, 1, t - 1)) \in Carried
<1>. DEFINE n == Len(chunk)
            begin == SubSeq(chunk, 1, t - 1)
            rest == Strip(begin)
<1>1. chunk \in Seq(Units) /\ n \in Nat
  BY DEF Topped
<1>2. /\ t \in 1..n
      /\ t \in LineStarts(chunk)
      /\ \A k \in LineStarts(chunk) : k >= t => IsHeading(chunk, k)
      /\ \A i \in LineStarts(chunk) :
            (\A k \in LineStarts(chunk) : k >= i => IsHeading(chunk, k)) => t <= i
  BY <1>1, TrailingIs
<1>3. t \in Int /\ t - 1 \in Nat /\ t - 1 <= n
  BY <1>1, <1>2
<1>4. begin \in Seq(Units) /\ Len(begin) = t - 1 /\ \A i \in 1..(t - 1) : begin[i] = chunk[i]
  BY <1>1, <1>3, Beginning
<1>5. Length(begin) <= Length(chunk)
  BY <1>1, <1>3, LengthOfBeginning
<1>. HIDE DEF begin
<1>6. /\ rest \in Seq(Units) /\ Len(rest) = t - 1 /\ Length(rest) <= Length(begin)
      /\ \A i \in 1..(t - 2) : rest[i] = begin[i]
      /\ t - 1 > 0 => rest[t - 1] = [begin[t - 1] EXCEPT !.ends = "end"]
  <2>1. /\ rest \in Seq(Units) /\ Len(rest) = Len(begin) /\ Length(rest) <= Length(begin)
    BY <1>4, StripIs
  <2>2. "end" \in DOMAIN Separator
    BY DEF Separator
  <2>3. /\ \A i \in 1..(Len(begin) - 1) : rest[i] = begin[i]
        /\ Len(begin) > 0 => rest[Len(begin)] = [begin[Len(begin)] EXCEPT !.ends = "end"]
    BY <1>4, <2>2, EndWithIs DEF Strip
  <2>4. Len(begin) - 1 = t - 2
    BY <1>3, <1>4
  <2>. HIDE DEF rest
  <2>. QED BY <1>4, <2>1, <2>3, <2>4
<1>. HIDE DEF rest
<1>7. /\ \A i \in 1..(t - 2) : rest[i] = chunk[i]
      /\ t - 1 > 0 => rest[t - 1].ends = "end" /\ rest[t - 1].marker = chunk[t - 1].marker
  <2>1. \A i \in 1..(t - 2) : i \in 1..(t - 1)
    BY <1>3
  <2>2. t - 1 > 0 => t - 1 \in 1..(t - 1) /\ begin[t - 1] \in Units
    BY <1>3, <1>4
  <2>. QED BY <1>4, <1>6, <2>1, <2>2 DEF Units
<1>8. LineStarts(rest) = LineStarts(chunk) \cap (1..(t - 1))
  <2>1. \A i \in 1..(t - 1) : i # 1 => i - 1 \in 1..(t - 2) /\ i \in 1..n
    BY <1>1, <1>2
  <2>2. \A i \in 1..(t - 1) : i \in 1..n
    BY <1>1, <1>2
  <2>. QED BY <1>6, <1>7, <2>1, <2>2 DEF LineStarts
<1>9. ~EndsOnHeading(rest)
  <2>. SUFFICES ASSUME NEW i \in LineStarts(rest), IsHeading(rest, i), \A k \in LineStarts(rest) : k <= i
                PROVE  FALSE
    BY DEF EndsOnHeading
  <2>1. i \in 1..(t - 1) /\ i \in LineStarts(chunk)
    BY <1>8
  <2>2. i # t - 1
    BY <1>3, <1>7, <2>1 DEF IsHeading
  <2>3. i \in 1..(t - 2)
    BY <1>3, <2>1, <2>2
  <2>4. IsHeading(chunk, i)
    BY <1>7, <2>3 DEF IsHeading
  <2>5. \A k \in LineStarts(chunk) : k \in 1..n
    BY DEF LineStarts
  <2>6. ASSUME NEW k \in LineStarts(chunk), k >= i PROVE IsHeading(chunk, k)
    <3>1. CASE k >= t
      BY <1>2, <3>1
    <3>2. CASE ~(k >= t)
      <4>1. k \in 1..(t - 1)
        BY <1>2, <2>5, <3>2
      <4>2. k \in LineStarts(rest)
        BY <1>8, <4>1
      <4>3. k = i
        BY <2>1, <2>6, <4>1, <4>2
      <4>. QED BY <2>4, <4>3
    <3>. QED BY <3>1, <3>2
  <2>7. t <= i
    BY <1>2, <2>1, <2>6
  <2>. QED BY <1>2, <2>1, <2>7
<1>10. ASSUME NoBlank(rest) PROVE Length(rest) <= ChunkSize
  <2>1. CASE chunk \in Solid
    <3>1. Length(chunk) <= ChunkSize
      BY <2>1 DEF Solid, Fitting
    <3>2. Length(chunk) \in Nat /\ Length(begin) \in Nat /\ Length(rest) \in Nat
      BY <1>1, <1>4, <1>6, LengthIsNat
    <3>. QED BY <1>5, <1>6, <3>1, <3>2, ChunkSettings
  <2>2. CASE chunk \notin Solid
    <3>1. PICK m \in 1..(n - 1) : /\ chunk[m].ends = "blank"
                                  /\ \A k \in LineStarts(chunk) : k <= m => IsHeading(chunk, k)
      BY <2>2 DEF Topped
    <3>2. CASE m < t - 1
      <4>1. m \in 1..(t - 2) /\ m \in 1..(t - 1)
        BY <1>1, <1>2, <3>2
      <4>2. rest[m].ends = "blank"
        BY <1>7, <3>1, <4>1
      <4>. QED BY <1>6, <1>10, <4>1, <4>2 DEF NoBlank
    <3>3. CASE ~(m < t - 1)
      <4>1. 1 \in LineStarts(chunk)
        BY <1>1, <1>2 DEF LineStarts
      <4>2. \A k \in LineStarts(chunk) : IsHeading(chunk, k)
        <5>. TAKE k \in LineStarts(chunk)
        <5>0. k \in 1..n
          BY DEF LineStarts
        <5>1. CASE k >= t
          BY <1>2, <5>1
        <5>2. CASE ~(k >= t)
          <6>1. k <= m
            BY <1>1, <1>2, <3>3, <5>0, <5>2
          <6>. QED BY <3>1, <6>1
        <5>. QED BY <5>1, <5>2
      <4>3. t = 1
        BY <1>2, <4>1, <4>2
      <4>4. rest = <<>>
        BY <1>6, <4>3
      <4>. QED BY <4>4, LengthOfNone, ChunkSettings
    <3>. QED BY <3>2, <3>3
  <2>. QED BY <2>1, <2>2
<1>. QED BY <1>6, <1>9, <1>10 DEF Carried, rest, begin

LEMMA HeadingsOnTop ==
    ASSUME NEW chunk \in Topped, NEW t, t = TrailingHeadings(chunk), t <= Len(chunk),
           NEW following \in Solid
    PROVE  LET headings == Strip(SubSeq(chunk, t, Len(chunk)))
           IN headings # <<>> /\ Join(headings, following) \in Topped
<1>. DEFINE n == Len(chunk)
            part == SubSeq(chunk, t, n)
            headings == Strip(part)
            m == n - t + 1
            new == Join(headings, following)
<1>1. chunk \in Seq(Units) /\ n \in Nat /\ Finished(chunk)
  BY DEF Topped
<1>2. /\ t \in 1..n
      /\ t \in LineStarts(chunk)
      /\ \A k \in LineStarts(chunk) : k >= t => IsHeading(chunk, k)
  BY <1>1, TrailingIs
<1>3. m \in Nat /\ m > 0
  BY <1>1, <1>2
<1>4. part \in Seq(Units) /\ Len(part) = m /\ \A i \in 1..m : part[i] = chunk[t + i - 1]
  <2>1. t \in Nat \ {0} /\ n \in Int /\ n <= Len(chunk) /\ t <= n
    BY <1>1, <1>2
  <2>2. /\ part \in Seq(Units) /\ Len(part) = IF t <= n THEN n - t + 1 ELSE 0
        /\ \A i \in 1..Len(part) : part[i] = chunk[t + i - 1]
    <3>. HIDE DEF n
    <3>. QED BY <1>1, <2>1, Stretch
  <2>3. Len(part) = m
    BY <2>1, <2>2
  <2>. HIDE DEF part, m
  <2>. QED BY <2>2, <2>3
<1>. HIDE DEF part
<1>5. /\ headings \in Seq(Units) /\ Len(headings) = m
      /\ \A i \in 1..(m - 1) : headings[i] = chunk[t + i - 1]
  <2>1. headings \in Seq(Units) /\ Len(headings) = m
    BY <1>4, StripIs
  <2>2. "end" \in DOMAIN Separator
    BY DEF Separator
  <2>3. \A i \in 1..(Len(part) - 1) : headings[i] = part[i]
    BY <1>4, <2>2, EndWithIs DEF Strip
  <2>. HIDE DEF headings, m
  <2>4. \A i \in 1..(m - 1) : i \in 1..m
    BY <1>3
  <2>. QED BY <1>4, <2>1, <2>3, <2>4
<1>6. headings # <<>>
  <2>. HIDE DEF headings, m
  <2>. QED BY <1>3, <1>5
<1>7. following \in Seq(Units) /\ Finished(following) /\ Len(following) \in Nat /\ Len(following) > 0
  BY DEF Solid, Fitting, Finished
<1>. HIDE DEF headings
<1>8. /\ new \in Seq(Units) /\ Len(new) = m + Len(following)
      /\ \A i \in 1..(m - 1) : new[i] = headings[i]
      /\ new[m] = [headings[m] EXCEPT !.ends = "blank"]
      /\ \A i \in 1..Len(following) : new[m + i] = following[i]
  <2>1. /\ new \in Seq(Units) /\ Len(new) = Len(headings) + Len(following)
        /\ \A i \in 1..(Len(headings) - 1) : new[i] = headings[i]
        /\ new[Len(headings)] = [headings[Len(headings)] EXCEPT !.ends = "blank"]
        /\ \A i \in 1..Len(following) : new[Len(headings) + i] = following[i]
    BY <1>5, <1>6, <1>7, JoinIs
  <2>. HIDE DEF new, m
  <2>. QED BY <1>5, <2>1
<1>. HIDE DEF new
<1>9. new[m].ends = "blank"
  <2>1. headings[m] \in Units
    <3>. HIDE DEF m
    <3>. QED BY <1>3, <1>5
  <2>. QED BY <1>8, <2>1 DEF Units
<1>10. Finished(new)
  <2>1. Len(new) = m + Len(following) /\ Len(following) \in 1..Len(following) /\ Len(new) > 0
    <3>. HIDE DEF m
    <3>. QED BY <1>3, <1>7, <1>8
  <2>2. new[m + Len(following)] = following[Len(following)]
    BY <1>8, <2>1
  <2>3. new # <<>>
    BY <2>1
  <2>. QED BY <1>7, <2>1, <2>2, <2>3 DEF Finished
<1>11. m \in 1..(Len(new) - 1)
  <2>. HIDE DEF m
  <2>. QED BY <1>3, <1>7, <1>8
<1>12. ASSUME NEW k \in LineStarts(new), k <= m PROVE IsHeading(new, k)
  <2>1. k \in 1..m /\ (k = 1 \/ new[k - 1].ends \in {"line", "blank"})
    <3>. HIDE DEF m
    <3>. QED BY <1>3, <1>12 DEF LineStarts
  <2>2. t + k - 1 \in 1..n
    BY <1>1, <1>2, <2>1
  <2>3. t + k - 1 \in LineStarts(chunk)
    <3>1. CASE k = 1
      BY <1>1, <1>2, <3>1
    <3>2. CASE k # 1
      <4>1. k - 1 \in 1..(m - 1) /\ (t + k - 1) - 1 = t + (k - 1) - 1
        BY <1>1, <1>2, <2>1, <3>2
      <4>2. new[k - 1] = chunk[t + (k - 1) - 1]
        BY <1>5, <1>8, <4>1
      <4>3. chunk[(t + k - 1) - 1].ends \in {"line", "blank"}
        BY <2>1, <3>2, <4>1, <4>2
      <4>. QED BY <1>1, <2>2, <4>3 DEF LineStarts
    <3>. QED BY <3>1, <3>2
  <2>4. IsHeading(chunk, t + k - 1)
    <3>1. t + k - 1 >= t
      BY <1>2, <2>1
    <3>. QED BY <1>2, <2>3, <3>1
  <2>5. t + k - 1 # n
    <3>1. chunk[n].ends = "end"
      BY <1>1 DEF Finished
    <3>. QED BY <2>4, <3>1 DEF IsHeading
  <2>6. k \in 1..(m - 1)
    BY <1>1, <1>2, <2>1, <2>2, <2>5
  <2>7. new[k] = chunk[t + k - 1]
    BY <1>5, <1>8, <2>6
  <2>. QED BY <2>4, <2>7 DEF IsHeading
<1>13. new \in Topped
  <2>. HIDE DEF m
  <2>. QED BY <1>8, <1>9, <1>10, <1>11, <1>12 DEF Topped
<1>. QED BY <1>6, <1>13 DEF new, headings, part

LEMMA ToppedFits ==
    ASSUME NEW chunk \in Topped, NoBlank(chunk)
    PROVE  Length(chunk) <= ChunkSize
<1>1. \A m \in 1..(Len(chunk) - 1) : chunk[m].ends # "blank"
  BY DEF Topped, NoBlank
<1>2. chunk \in Solid
  BY <1>1 DEF Topped
<1>. QED BY <1>2 DEF Solid, Fitting

\* Moving the last headings of one chunk touches it and the next, and keeps them sequences.
LEMMA CarryHeadingIs ==
    ASSUME NEW n \in Nat, NEW carried \in [1..n -> Seq(Units)], NEW i \in 1..(n - 1)
    PROVE  /\ CarryHeading(carried, i) \in [1..n -> Seq(Units)]
           /\ \A j \in (1..n) \ {i, i + 1} : CarryHeading(carried, i)[j] = carried[j]
<1>. DEFINE chunk == carried[i]
            start == TrailingHeadings(chunk)
            headings == Strip(SubSeq(chunk, start, Len(chunk)))
            rest == Strip(SubSeq(chunk, 1, start - 1))
            following == carried[i + 1]
            next == IF Repeats(headings, following) THEN following ELSE Join(headings, following)
<1>1. i \in 1..n /\ i + 1 \in 1..n
  OBVIOUS
<1>2. chunk \in Seq(Units) /\ following \in Seq(Units) /\ Len(chunk) \in Nat
  BY <1>1
<1>3. CarryHeading(carried, i) = IF headings = <<>> THEN carried
                                 ELSE [carried EXCEPT ![i] = rest, ![i + 1] = next]
  BY DEF CarryHeading
<1>. HIDE DEF chunk, following
<1>4. start \in 1..(Len(chunk) + 1)
  BY <1>2, TrailingIs
<1>. HIDE DEF start
<1>5. headings \in Seq(Units)
  <2>1. start \in Nat \ {0} /\ Len(chunk) \in Int /\ Len(chunk) <= Len(chunk)
    BY <1>2, <1>4
  <2>2. SubSeq(chunk, start, Len(chunk)) \in Seq(Units)
    BY <1>2, <2>1, Stretch
  <2>. QED BY <2>2, StripIs
<1>6. rest \in Seq(Units)
  <2>1. start - 1 \in Nat /\ start - 1 <= Len(chunk)
    BY <1>2, <1>4
  <2>2. SubSeq(chunk, 1, start - 1) \in Seq(Units)
    BY <1>2, <2>1, Beginning
  <2>. QED BY <2>2, StripIs
<1>. HIDE DEF headings, rest
<1>7. headings # <<>> => next \in Seq(Units)
  BY <1>2, <1>5, JoinIs
<1>. HIDE DEF next
<1>. QED BY <1>1, <1>3, <1>6, <1>7

\* The chunk the headings are taken from, and the one they are put on.
LEMMA CarryOne ==
    ASSUME NEW n \in Nat, NEW carried \in [1..n -> Seq(Units)], NEW i \in 1..(n - 1),
           carried[i] \in Topped, carried[i + 1] \in Solid
    PROVE  CarryHeading(carried, i)[i] \in Carried /\ CarryHeading(carried, i)[i + 1] \in Topped
<1>. DEFINE chunk == carried[i]
            start == TrailingHeadings(chunk)
            headings == Strip(SubSeq(chunk, start, Len(chunk)))
            rest == Strip(SubSeq(chunk, 1, start - 1))
            following == carried[i + 1]
            next == IF Repeats(headings, following) THEN following ELSE Join(headings, following)
<1>1. i \in 1..n /\ i + 1 \in 1..n /\ i # i + 1
  OBVIOUS
<1>2. CarryHeading(carried, i) = IF headings = <<>> THEN carried
                                 ELSE [carried EXCEPT ![i] = rest, ![i + 1] = next]
  BY DEF CarryHeading
<1>3. chunk \in Topped /\ following \in Solid /\ chunk \in Seq(Units) /\ Len(chunk) \in Nat
  <2>1. chunk \in Seq(Units)
    BY <1>1
  <2>. HIDE DEF chunk
  <2>2. Len(chunk) \in Nat
    BY <2>1
  <2>. QED BY <2>1, <2>2 DEF chunk
<1>4. following \in Topped
  <2>1. following \in Seq(Units) /\ Finished(following)
    BY <1>3 DEF Solid, Fitting
  <2>. QED BY <1>3, <2>1 DEF Topped
<1>. HIDE DEF chunk, following
<1>5. start \in 1..(Len(chunk) + 1)
  BY <1>3, TrailingIs
<1>6. CASE start = Len(chunk) + 1
  <2>1. headings = <<>>
    <3>1. Len(chunk) + 1 \in Nat \ {0} /\ Len(chunk) \in Int /\ Len(chunk) <= Len(chunk)
      BY <1>3
    <3>2. /\ SubSeq(chunk, Len(chunk) + 1, Len(chunk)) \in Seq(Units)
          /\ Len(SubSeq(chunk, Len(chunk) + 1, Len(chunk)))
                = IF Len(chunk) + 1 <= Len(chunk) THEN Len(chunk) - (Len(chunk) + 1) + 1 ELSE 0
      BY <1>3, <3>1, Stretch
    <3>3. Len(SubSeq(chunk, Len(chunk) + 1, Len(chunk))) = 0
      BY <1>3, <3>2
    <3>4. headings \in Seq(Units) /\ Len(headings) = Len(SubSeq(chunk, start, Len(chunk)))
      BY <1>6, <3>2, StripIs
    <3>. HIDE DEF headings
    <3>. QED BY <1>6, <3>3, <3>4
  <2>2. CarryHeading(carried, i)[i] = chunk /\ CarryHeading(carried, i)[i + 1] = following
    BY <1>2, <2>1 DEF chunk, following
  <2>. QED BY <1>3, <1>4, <1>6, <2>2, NothingToCarry
<1>7. CASE start # Len(chunk) + 1
  <2>1. start <= Len(chunk)
    BY <1>3, <1>5, <1>7
  <2>2. headings # <<>> /\ Join(headings, following) \in Topped
    BY <1>3, <2>1, HeadingsOnTop
  <2>3. rest \in Carried
    BY <1>3, <2>1, RestIsCarried
  <2>. HIDE DEF start, headings, rest
  <2>4. next \in Topped
    BY <1>4, <2>2
  <2>. HIDE DEF next
  <2>5. CarryHeading(carried, i)[i] = rest /\ CarryHeading(carried, i)[i + 1] = next
    BY <1>1, <1>2, <2>2
  <2>. QED BY <2>3, <2>4, <2>5
<1>. QED BY <1>6, <1>7

\* Moving headings, a chunk at a time.
LEMMA CarrySteps ==
    ASSUME NEW n \in Nat, NEW chunks \in [1..n -> Seq(Units)], NEW places \in Seq(1..(n - 1))
    PROVE  \E h : /\ h \in [0..Len(places) -> [1..n -> Seq(Units)]]
                  /\ h[0] = chunks
                  /\ \A k \in 1..Len(places) : h[k] = CarryHeading(h[k - 1], places[k])
                  /\ h[Len(places)] = FoldLeft(CarryHeading, chunks, places)
<1>. DEFINE many == Len(places)
            B == [1..n -> Seq(Units)]
            g == [p \in B \X (1..many) |-> CarryHeading(p[1], places[p[2]])]
            Is(it) == it = [s \in SUBSET DOMAIN places |->
                               IF s = {} THEN chunks
                               ELSE CarryHeading(it[s \ {Max(s)}], places[Max(s)])]
            f == CHOOSE it : Is(it)
<1>1. many \in Nat /\ DOMAIN places = 1..many /\ \A k \in 1..many : places[k] \in (1..(n - 1))
  BY LenProperties
<1>2. chunks \in B /\ \A b \in B, x \in (1..(n - 1)) : CarryHeading(b, x) \in B
  BY CarryHeadingIs
<1>3. g \in [B \X (1..many) -> B]
  BY <1>1, <1>2
<1>4. PICK it \in [SUBSET (1..many) -> B] : Folding(it, 1..many, chunks, g)
  BY <1>1, <1>2, <1>3, FoldingExists
<1>5. Is(it)
  <2>1. \A s \in SUBSET (1..many) : s # {} => Max(s) \in 1..many /\ s \ {Max(s)} \in SUBSET (1..many)
    BY <1>1, GreatestPlace
  <2>2. \A s \in SUBSET (1..many) : s # {} =>
           g[<<it[s \ {Max(s)}], Max(s)>>] = CarryHeading(it[s \ {Max(s)}], places[Max(s)])
    BY <2>1
  <2>. QED BY <1>1, <1>4, <2>2 DEF Folding
<1>6. Is(f)
  BY <1>5
<1>7. FoldLeft(CarryHeading, chunks, places) = f[1..many]
  BY <1>1 DEF FoldLeft, MapThenFoldSet
<1>. HIDE DEF f
<1>8. FoldsTo(f, many, B, chunks, g)
  <2>1. f[{}] = chunks
    BY <1>6
  <2>2. \A k \in 1..many : f[1..k] = CarryHeading(f[1..(k - 1)], places[k])
    <3>. TAKE k \in 1..many
    <3>1. k \in Nat \ {0} /\ 1..k \in SUBSET (1..many)
      BY <1>1
    <3>2. 1..k # {} /\ Max(1..k) = k /\ (1..k) \ {k} = 1..(k - 1)
      BY <3>1, Spans
    <3>3. f[1..k] = IF 1..k = {} THEN chunks ELSE CarryHeading(f[(1..k) \ {Max(1..k)}], places[Max(1..k)])
      BY <1>1, <1>6, <3>1
    <3>. QED BY <3>2, <3>3
  <2>3. \A k \in 1..many : f[1..(k - 1)] \in B => f[1..k] = g[<<f[1..(k - 1)], k>>]
    BY <2>2
  <2>. HIDE DEF g, many, B
  <2>. QED BY <1>1, <1>2, <1>3, <2>1, <2>3 DEF FoldsTo
<1>9. \A k \in 1..many, b \in B : g[<<b, k>>] = CarryHeading(b, places[k])
  OBVIOUS
<1>. HIDE DEF g, B, many
<1>10. PICK h : Steps(h, many, B, chunks, g) /\ h[many] = f[1..many]
  BY <1>8, StepsOfFolding
<1>11. h \in [0..many -> B] /\ h[0] = chunks /\ \A k \in 1..many : h[k] = g[<<h[k - 1], k>>]
  BY <1>10 DEF Steps
<1>12. \A k \in 1..many : h[k] = CarryHeading(h[k - 1], places[k])
  <2>1. \A k \in 1..many : h[k - 1] \in B
    BY <1>1, <1>11
  <2>. QED BY <1>9, <1>11, <2>1
<1>. QED BY <1>7, <1>10, <1>11, <1>12 DEF B, many


\* The chunks of a text once headings are moved.
Kept == {chunk \in Seq(Units) : chunk # <<>> /\ (NoBlank(chunk) => Length(chunk) <= ChunkSize)}

LEMMA CarriedAre ==
    ASSUME NEW chunks \in Seq(Solid)
    PROVE  /\ CarryHeadings(chunks) \in Seq(Kept)
           /\ \A k \in 1..(Len(CarryHeadings(chunks)) - 1) : ~EndsOnHeading(CarryHeadings(chunks)[k])
<1>. DEFINE n == Len(chunks)
            m == n - 1
            places == [i \in 1..m |-> i]
            carried == FoldLeft(CarryHeading, chunks, places)
            filled == {i \in DOMAIN carried : carried[i] # <<>>}
<1>1. n \in Nat /\ chunks \in [1..n -> Seq(Units)] /\ \A k \in 1..n : chunks[k] \in Solid
  BY DEF Solid, Fitting
<1>2. CarryHeadings(chunks) = Chosen(carried, filled)
  BY DEF CarryHeadings
<1>3. /\ places \in Seq(1..m)
      /\ Len(places) = IF n = 0 THEN 0 ELSE m
      /\ \A k \in 1..Len(places) : places[k] = k
  <2>1. CASE n = 0
    <3>1. 1..m = 1..0
      BY <2>1
    <3>2. places = [i \in 1..0 |-> i]
      BY <3>1
    <3>. QED BY <2>1, <3>2
  <2>2. CASE n # 0
    <3>1. m \in Nat
      BY <1>1, <2>2
    <3>. HIDE DEF m
    <3>. QED BY <2>2, <3>1
  <2>. QED BY <2>1, <2>2
<1>. DEFINE last == Len(places)
<1>4. last \in Nat /\ (n > 0 => last = n - 1) /\ (n = 0 => last = 0)
  <2>. HIDE DEF n, places
  <2>. QED BY <1>1, <1>3
<1>. HIDE DEF places, n
<1>5. PICK h : /\ h \in [0..last -> [1..n -> Seq(Units)]]
               /\ h[0] = chunks
               /\ \A k \in 1..last : h[k] = CarryHeading(h[k - 1], places[k])
               /\ h[last] = carried
  <2>1. n \in Nat /\ chunks \in [1..n -> Seq(Units)] /\ places \in Seq(1..(n - 1))
    BY <1>1, <1>3
  <2>. HIDE DEF m, filled
  <2>2. \E h : /\ h \in [0..Len(places) -> [1..n -> Seq(Units)]]
               /\ h[0] = chunks
               /\ \A k \in 1..Len(places) : h[k] = CarryHeading(h[k - 1], places[k])
               /\ h[Len(places)] = FoldLeft(CarryHeading, chunks, places)
    BY <2>1, CarrySteps, ZenonT(30)
  <2>. QED BY <2>2
<1>. HIDE DEF last, carried
<1>. DEFINE Good(k) == /\ \A j \in 1..n : j <= k => h[k][j] \in Carried
                       /\ \A j \in 1..n : j = k + 1 => h[k][j] \in Topped
                       /\ \A j \in 1..n : j > k + 1 => h[k][j] \in Solid
            T == {k \in 0..last : Good(k)}
<1>6. 0 \in T
  <2>1. \A x \in Solid : x \in Topped
    BY DEF Topped, Solid, Fitting
  <2>2. Good(0)
    BY <1>1, <1>5, <2>1
  <2>. QED BY <1>4, <2>2
<1>7. \A k \in 0..(last - 1) : k \in T => k + 1 \in T
  <2>. SUFFICES ASSUME NEW k \in 0..(last - 1), Good(k)
                PROVE  k + 1 \in 0..last /\ Good(k + 1)
    OBVIOUS
  <2>. DEFINE i == k + 1
  <2>1. /\ k \in 0..last /\ i \in 1..last /\ i - 1 = k /\ i \in 1..m /\ m = n - 1
        /\ i \in 1..n /\ i + 1 \in 1..n
    BY <1>1, <1>4
  <2>2. h[i] = CarryHeading(h[k], i)
    BY <1>3, <1>5, <2>1 DEF last
  <2>3. h[k] \in [1..n -> Seq(Units)]
    BY <1>5, <2>1
  <2>4. h[k][i] \in Topped /\ h[k][i + 1] \in Solid
    BY <2>1
  <2>5. \A j \in (1..n) \ {i, i + 1} : h[i][j] = h[k][j]
    <3>. HIDE DEF i
    <3>1. n \in Nat /\ i \in 1..(n - 1)
      BY <1>1, <2>1
    <3>. HIDE DEF Good, m
    <3>2. \A j \in (1..n) \ {i, i + 1} : CarryHeading(h[k], i)[j] = h[k][j]
      BY <2>3, <3>1, CarryHeadingIs
    <3>. QED BY <2>2, <3>2
  <2>6. h[i][i] \in Carried /\ h[i][i + 1] \in Topped
    BY <1>1, <2>1, <2>2, <2>3, <2>4, CarryOne
  <2>. HIDE DEF m
  <2>7. \A j \in 1..n : j <= i => h[i][j] \in Carried
    <3>. SUFFICES ASSUME NEW j \in 1..n, j <= i PROVE h[i][j] \in Carried
      OBVIOUS
    <3>1. CASE j = i
      BY <2>6, <3>1
    <3>2. CASE j # i
      <4>1. j <= k /\ j \in (1..n) \ {i, i + 1}
        BY <3>2
      <4>. QED BY <2>5, <4>1
    <3>. QED BY <3>1, <3>2
  <2>8. \A j \in 1..n : j > i + 1 => h[i][j] \in Solid
    <3>. SUFFICES ASSUME NEW j \in 1..n, j > i + 1 PROVE h[i][j] \in Solid
      OBVIOUS
    <3>1. j > k + 1 /\ j \in (1..n) \ {i, i + 1}
      OBVIOUS
    <3>. QED BY <2>5, <3>1
  <2>. QED BY <2>1, <2>6, <2>7, <2>8
<1>8. Good(last)
  <2>1. last \in 0..last
    BY <1>4
  <2>. HIDE DEF T
  <2>2. 0..last \subseteq T
    BY <1>4, <1>6, <1>7, InductionUpTo
  <2>. QED BY <2>1, <2>2 DEF T
<1>9. carried \in [1..n -> Seq(Units)] /\ carried = h[last] /\ DOMAIN carried = 1..n
  <2>1. last \in 0..last
    BY <1>4
  <2>. QED BY <1>5, <2>1
<1>10. \A j \in 1..n : j < n => carried[j] \in Carried
  BY <1>1, <1>4, <1>8, <1>9
<1>11. \A j \in 1..n : NoBlank(carried[j]) => Length(carried[j]) <= ChunkSize
  <2>. SUFFICES ASSUME NEW j \in 1..n, NoBlank(carried[j]) PROVE Length(carried[j]) <= ChunkSize
    OBVIOUS
  <2>1. CASE j < n
    BY <1>10, <2>1 DEF Carried
  <2>2. CASE ~(j < n)
    <3>1. j = last + 1
      BY <1>1, <1>4, <2>2
    <3>2. carried[j] \in Topped
      BY <1>8, <1>9, <3>1
    <3>. QED BY <3>2, ToppedFits
  <2>. QED BY <2>1, <2>2
<1>. HIDE DEF Good, T
<1>12. carried \in Seq(Seq(Units)) /\ Len(carried) = n /\ filled \in SUBSET (1..Len(carried))
  <2>1. n \in Nat /\ carried \in [1..n -> Seq(Units)]
    BY <1>1, <1>9
  <2>2. carried \in Seq(Seq(Units)) /\ Len(carried) = n /\ DOMAIN carried = 1..n
    BY <2>1
  <2>3. filled \in SUBSET (DOMAIN carried)
    OBVIOUS
  <2>. HIDE DEF filled
  <2>. QED BY <2>2, <2>3
<1>. DEFINE result == Chosen(carried, filled)
            order == Ascending(filled)
            many == Cardinality(filled)
<1>13. /\ many \in Nat
       /\ order \in [1..many -> filled]
       /\ \A i, j \in 1..many : i < j => order[i] < order[j]
       /\ result \in Seq(Seq(Units)) /\ Len(result) = many
       /\ \A k \in 1..many : result[k] = carried[order[k]]
  <2>. DEFINE S == Seq(Units)
  <2>1. carried \in Seq(S) /\ filled \in SUBSET (1..Len(carried))
    BY <1>12
  <2>. HIDE DEF filled, S, result, order, many
  <2>2. LET to == Cardinality(filled)
            by == Ascending(filled)
        IN /\ to \in Nat /\ to <= Len(carried)
           /\ by \in [1..to -> filled]
           /\ \A i \in filled : \E k \in 1..to : by[k] = i
           /\ \A i, j \in 1..to : i < j => by[i] < by[j]
           /\ Chosen(carried, filled) \in Seq(S)
           /\ Len(Chosen(carried, filled)) = to
           /\ \A k \in 1..to : Chosen(carried, filled)[k] = carried[by[k]]
    BY <2>1, ChosenIsInOrder
  <2>. QED BY <2>2 DEF result, order, many, S
<1>. HIDE DEF result, order, many
<1>14. \A k \in 1..many : result[k] \in Kept
  <2>. TAKE k \in 1..many
  <2>1. order[k] \in 1..n /\ carried[order[k]] # <<>>
    BY <1>9, <1>13
  <2>. QED BY <1>9, <1>11, <1>13, <2>1 DEF Kept
<1>15. \A k \in 1..(many - 1) : ~EndsOnHeading(result[k])
  <2>. TAKE k \in 1..(many - 1)
  <2>1. k \in 1..many /\ k + 1 \in 1..many /\ k < k + 1
    BY <1>13
  <2>2. order[k] < order[k + 1] /\ order[k] \in 1..n /\ order[k + 1] \in 1..n
    BY <1>9, <1>13, <2>1
  <2>3. order[k] < n
    BY <1>1, <2>2
  <2>4. carried[order[k]] \in Carried
    BY <1>10, <2>2, <2>3
  <2>. QED BY <1>13, <2>1, <2>4 DEF Carried
<1>16. result \in Seq(Kept)
  BY <1>13, <1>14
<1>. QED BY <1>2, <1>13, <1>15, <1>16 DEF result

-----------------------------------------------------------------------------
(* Chunks too short to stand alone. *)

\* The last line of two joined chunks is that of the second.
LEMMA LastLineOfJoined ==
    ASSUME NEW a \in Seq(Units), NEW b \in Seq(Units), a # <<>>, b # <<>>, EndsOnHeading(Join(a, b))
    PROVE  EndsOnHeading(b)
<1>. DEFINE n == Len(a)
            m == Len(b)
            new == Join(a, b)
<1>1. n \in Nat /\ n > 0 /\ m \in Nat /\ m > 0
  OBVIOUS
<1>2. /\ Len(new) = n + m
      /\ new[n] = [a[n] EXCEPT !.ends = "blank"]
      /\ \A i \in 1..m : new[n + i] = b[i]
  BY JoinIs
<1>3. new[n].ends = "blank"
  <2>1. a[n] \in Units
    BY <1>1
  <2>. QED BY <1>2, <2>1 DEF Units
<1>4. PICK i \in LineStarts(new) : IsHeading(new, i) /\ \A k \in LineStarts(new) : k <= i
  BY DEF EndsOnHeading
<1>. HIDE DEF n, m, new
<1>5. \A k \in 1..m : k \in LineStarts(b) => n + k \in LineStarts(new)
  <2>. SUFFICES ASSUME NEW k \in 1..m, k \in LineStarts(b) PROVE n + k \in LineStarts(new)
    OBVIOUS
  <2>1. n + k \in 1..Len(new)
    BY <1>1, <1>2
  <2>2. CASE k = 1
    <3>1. (n + k) - 1 = n
      BY <1>1, <2>2
    <3>. QED BY <1>3, <2>1, <3>1 DEF LineStarts
  <2>3. CASE k # 1
    <3>1. k - 1 \in 1..m /\ (n + k) - 1 = n + (k - 1)
      BY <1>1, <2>3
    <3>2. new[(n + k) - 1] = b[k - 1]
      BY <1>2, <3>1
    <3>3. b[k - 1].ends \in {"line", "blank"}
      BY <2>3 DEF LineStarts
    <3>. QED BY <2>1, <3>2, <3>3 DEF LineStarts
  <2>. QED BY <2>2, <2>3
<1>6. n + 1 <= i /\ i <= n + m
  <2>1. 1 \in 1..m /\ 1 \in LineStarts(b)
    BY <1>1 DEF LineStarts, m
  <2>2. n + 1 \in LineStarts(new)
    BY <1>5, <2>1
  <2>3. i \in 1..(n + m)
    BY <1>2, <1>4 DEF LineStarts
  <2>. QED BY <1>1, <1>4, <2>2, <2>3
<1>. DEFINE j == i - n
<1>7. j \in 1..m /\ i = n + j /\ i \in Int
  <2>1. i \in 1..(n + m)
    BY <1>2, <1>4 DEF LineStarts
  <2>. QED BY <1>1, <1>6, <2>1
<1>. HIDE DEF j
<1>8. new[i] = b[j]
  BY <1>2, <1>7
<1>9. j \in LineStarts(b)
  <2>1. CASE j = 1
    BY <1>7, <2>1 DEF LineStarts, m
  <2>2. CASE j # 1
    <3>1. j - 1 \in 1..m /\ i - 1 = n + (j - 1) /\ i # 1
      BY <1>1, <1>7, <2>2
    <3>2. new[i - 1] = b[j - 1]
      BY <1>2, <3>1
    <3>3. new[i - 1].ends \in {"line", "blank"}
      BY <1>4, <3>1 DEF LineStarts
    <3>. QED BY <1>7, <3>2, <3>3 DEF LineStarts, m
  <2>. QED BY <2>1, <2>2
<1>10. IsHeading(b, j)
  BY <1>4, <1>8 DEF IsHeading
<1>11. \A k \in LineStarts(b) : k <= j
  <2>. TAKE k \in LineStarts(b)
  <2>1. k \in 1..m
    BY DEF LineStarts, m
  <2>2. n + k <= i
    BY <1>4, <1>5, <2>1
  <2>. QED BY <1>1, <1>7, <2>1, <2>2
<1>. QED BY <1>9, <1>10, <1>11 DEF EndsOnHeading

LEMMA JoinedIsKept ==
    ASSUME NEW a \in Kept, NEW b \in Kept
    PROVE  /\ Join(a, b) \in Kept
           /\ EndsOnHeading(Join(a, b)) => EndsOnHeading(b)
           /\ Short(Join(a, b)) => Short(a)
<1>1. /\ a \in Seq(Units) /\ b \in Seq(Units) /\ a # <<>> /\ b # <<>>
      /\ Len(a) \in Nat /\ Len(b) \in Nat /\ Len(a) > 0 /\ Len(b) > 0
  BY DEF Kept
<1>2. /\ Join(a, b) \in Seq(Units) /\ Len(Join(a, b)) = Len(a) + Len(b)
      /\ Join(a, b)[Len(a)] = [a[Len(a)] EXCEPT !.ends = "blank"]
      /\ Length(a) <= Length(Join(a, b))
  BY <1>1, JoinIs
<1>3. Join(a, b) # <<>> /\ Len(a) \in 1..Len(Join(a, b)) /\ Len(a) \in 1..Len(a)
  BY <1>1, <1>2
<1>4. ~NoBlank(Join(a, b))
  <2>1. a[Len(a)] \in Units
    BY <1>1, <1>3
  <2>2. Join(a, b)[Len(a)].ends = "blank"
    BY <1>2, <2>1 DEF Units
  <2>. QED BY <1>3, <2>2 DEF NoBlank
<1>5. Short(Join(a, b)) => Short(a)
  <2>1. Length(a) \in Nat /\ Length(Join(a, b)) \in Nat /\ ChunkMinSize \in Nat
    BY <1>1, <1>2, LengthIsNat, ChunkSettings
  <2>. QED BY <1>2, <2>1 DEF Short
<1>. QED BY <1>1, <1>2, <1>3, <1>4, <1>5, LastLineOfJoined DEF Kept

LEMMA JoinLastIs ==
    ASSUME NEW merged \in Seq(Kept), merged # <<>>, NEW chunk \in Kept
    PROVE  /\ JoinLast(merged, chunk) \in Seq(Kept)
           /\ Len(JoinLast(merged, chunk)) = Len(merged)
           /\ \A j \in 1..(Len(merged) - 1) : JoinLast(merged, chunk)[j] = merged[j]
           /\ JoinLast(merged, chunk)[Len(merged)] = Join(merged[Len(merged)], chunk)
<1>. DEFINE n == Len(merged)
<1>1. n \in Nat /\ n \in 1..n /\ merged[n] \in Kept
  OBVIOUS
<1>2. Join(merged[n], chunk) \in Kept
  BY <1>1, JoinedIsKept
<1>3. JoinLast(merged, chunk) = [merged EXCEPT ![n] = Join(merged[n], chunk)]
  BY DEF JoinLast
<1>. QED BY <1>1, <1>2, <1>3

\* A step of merge_small_chunks.
MergeNext(chunks, merged, i) ==
    IF merged # <<>> /\ (Short(Last(merged)) \/ ShortBeforeAHeading(chunks, i))
       THEN JoinLast(merged, chunks[i])
       ELSE Append(merged, chunks[i])

LEMMA MergeNextIs ==
    ASSUME NEW chunks \in Seq(Kept), NEW merged \in Seq(Kept), NEW i \in 1..Len(chunks)
    PROVE  MergeNext(chunks, merged, i) \in Seq(Kept)
<1>1. chunks[i] \in Kept
  OBVIOUS
<1>2. merged # <<>> => JoinLast(merged, chunks[i]) \in Seq(Kept)
  BY <1>1, JoinLastIs
<1>3. Append(merged, chunks[i]) \in Seq(Kept)
  BY <1>1
<1>. QED BY <1>2, <1>3 DEF MergeNext

\* Merging, a chunk at a time.
LEMMA MergeSteps ==
    ASSUME NEW chunks \in Seq(Kept), NEW places \in Seq(1..Len(chunks))
    PROVE  \E h : /\ h \in [0..Len(places) -> Seq(Kept)]
                  /\ h[0] = <<>>
                  /\ \A k \in 1..Len(places) : h[k] = MergeNext(chunks, h[k - 1], places[k])
                  /\ h[Len(places)] = FoldLeft(LAMBDA merged, i : MergeNext(chunks, merged, i), <<>>, places)
<1>. DEFINE n == Len(places)
            B == Seq(Kept)
            g == [p \in B \X (1..n) |-> MergeNext(chunks, p[1], places[p[2]])]
            Is(it) == it = [s \in SUBSET DOMAIN places |->
                               IF s = {} THEN <<>>
                               ELSE MergeNext(chunks, it[s \ {Max(s)}], places[Max(s)])]
            f == CHOOSE it : Is(it)
<1>1. n \in Nat /\ DOMAIN places = 1..n /\ \A k \in 1..n : places[k] \in (1..Len(chunks))
  BY LenProperties
<1>2. <<>> \in B /\ \A b \in B, x \in (1..Len(chunks)) : MergeNext(chunks, b, x) \in B
  BY MergeNextIs
<1>3. g \in [B \X (1..n) -> B]
  BY <1>1, <1>2
<1>4. PICK it \in [SUBSET (1..n) -> B] : Folding(it, 1..n, <<>>, g)
  BY <1>1, <1>2, <1>3, FoldingExists
<1>5. Is(it)
  <2>1. \A s \in SUBSET (1..n) : s # {} => Max(s) \in 1..n /\ s \ {Max(s)} \in SUBSET (1..n)
    BY <1>1, GreatestPlace
  <2>2. \A s \in SUBSET (1..n) : s # {} =>
           g[<<it[s \ {Max(s)}], Max(s)>>] = MergeNext(chunks, it[s \ {Max(s)}], places[Max(s)])
    BY <2>1
  <2>. QED BY <1>1, <1>4, <2>2 DEF Folding
<1>6. Is(f)
  BY <1>5
<1>7. FoldLeft(LAMBDA merged, i : MergeNext(chunks, merged, i), <<>>, places) = f[1..n]
  BY <1>1 DEF FoldLeft, MapThenFoldSet
<1>. HIDE DEF f
<1>8. FoldsTo(f, n, B, <<>>, g)
  <2>1. f[{}] = <<>>
    BY <1>6
  <2>2. \A k \in 1..n : f[1..k] = MergeNext(chunks, f[1..(k - 1)], places[k])
    <3>. TAKE k \in 1..n
    <3>1. k \in Nat \ {0} /\ 1..k \in SUBSET (1..n)
      BY <1>1
    <3>2. 1..k # {} /\ Max(1..k) = k /\ (1..k) \ {k} = 1..(k - 1)
      BY <3>1, Spans
    <3>3. f[1..k] = IF 1..k = {} THEN <<>> ELSE MergeNext(chunks, f[(1..k) \ {Max(1..k)}], places[Max(1..k)])
      BY <1>1, <1>6, <3>1
    <3>. QED BY <3>2, <3>3
  <2>3. \A k \in 1..n : f[1..(k - 1)] \in B => f[1..k] = g[<<f[1..(k - 1)], k>>]
    BY <2>2
  <2>. HIDE DEF g, n, B
  <2>. QED BY <1>1, <1>2, <1>3, <2>1, <2>3 DEF FoldsTo
<1>9. \A k \in 1..n, b \in B : g[<<b, k>>] = MergeNext(chunks, b, places[k])
  OBVIOUS
<1>. HIDE DEF g, B, n
<1>10. PICK h : Steps(h, n, B, <<>>, g) /\ h[n] = f[1..n]
  BY <1>8, StepsOfFolding
<1>11. h \in [0..n -> B] /\ h[0] = <<>> /\ \A k \in 1..n : h[k] = g[<<h[k - 1], k>>]
  BY <1>10 DEF Steps
<1>12. \A k \in 1..n : h[k] = MergeNext(chunks, h[k - 1], places[k])
  <2>. TAKE k \in 1..n
  <2>1. k - 1 \in 0..n
    BY <1>1
  <2>2. h[k - 1] \in B /\ h[k] = g[<<h[k - 1], k>>]
    BY <1>11, <2>1
  <2>. QED BY <1>9, <2>2
<1>. QED BY <1>7, <1>10, <1>11, <1>12 DEF B, n


\* Going forward, only the last chunk may be short, and no chunk but the last ends on a heading.
Forward(merged, chunk) ==
    /\ merged # <<>>
    /\ \A j \in 1..(Len(merged) - 1) : ~Short(merged[j]) /\ ~EndsOnHeading(merged[j])
    /\ EndsOnHeading(merged[Len(merged)]) => EndsOnHeading(chunk)

LEMMA MergeNextGoesForward ==
    ASSUME NEW chunks \in Seq(Kept), NEW merged \in Seq(Kept), NEW i \in 1..Len(chunks),
           merged # <<>> => i > 1 /\ Forward(merged, chunks[i - 1]) /\ ~EndsOnHeading(chunks[i - 1])
    PROVE  Forward(MergeNext(chunks, merged, i), chunks[i])
<1>. DEFINE n == Len(merged)
            chunk == chunks[i]
            new == MergeNext(chunks, merged, i)
            joins == merged # <<>> /\ (Short(Last(merged)) \/ ShortBeforeAHeading(chunks, i))
<1>1. n \in Nat /\ chunk \in Kept
  OBVIOUS
<1>2. new = IF joins THEN JoinLast(merged, chunk) ELSE Append(merged, chunk)
  BY DEF MergeNext
<1>. HIDE DEF chunk, new
<1>3. CASE joins
  <2>1. /\ JoinLast(merged, chunk) \in Seq(Kept)
        /\ Len(JoinLast(merged, chunk)) = Len(merged)
        /\ \A j \in 1..(Len(merged) - 1) : JoinLast(merged, chunk)[j] = merged[j]
        /\ JoinLast(merged, chunk)[Len(merged)] = Join(merged[Len(merged)], chunk)
    BY <1>1, <1>3, JoinLastIs
  <2>2. n \in 1..n /\ merged[n] \in Kept
    BY <1>1, <1>3
  <2>3. EndsOnHeading(Join(merged[n], chunk)) => EndsOnHeading(chunk)
    BY <1>1, <2>2, JoinedIsKept
  <2>4. new # <<>> /\ Len(new) = n
    BY <1>1, <1>2, <1>3, <2>1, <2>2
  <2>5. \A j \in 1..(n - 1) : ~Short(new[j]) /\ ~EndsOnHeading(new[j])
    BY <1>2, <1>3, <2>1 DEF Forward
  <2>6. EndsOnHeading(new[n]) => EndsOnHeading(chunk)
    BY <1>2, <1>3, <2>1, <2>3
  <2>. HIDE DEF n
  <2>7. Forward(new, chunk)
    BY <2>4, <2>5, <2>6 DEF Forward
  <2>. QED BY <2>7 DEF new, chunk
<1>4. CASE ~joins
  <2>1. new = Append(merged, chunk)
    BY <1>2, <1>4
  <2>2. Len(new) = n + 1 /\ new[n + 1] = chunk /\ \A j \in 1..n : new[j] = merged[j]
    BY <1>1, <2>1
  <2>3. new # <<>>
    BY <1>1, <2>1
  <2>4. \A j \in 1..n : ~Short(merged[j]) /\ ~EndsOnHeading(merged[j])
    <3>. SUFFICES ASSUME NEW j \in 1..n PROVE ~Short(merged[j]) /\ ~EndsOnHeading(merged[j])
      OBVIOUS
    <3>1. merged # <<>> /\ Last(merged) = merged[n]
      BY <1>1 DEF Last
    <3>2. Forward(merged, chunks[i - 1]) /\ ~EndsOnHeading(chunks[i - 1])
      BY <3>1
    <3>3. CASE j = n
      BY <1>4, <3>1, <3>2, <3>3 DEF Forward
    <3>4. CASE j # n
      <4>1. j \in 1..(n - 1)
        BY <1>1, <3>4
      <4>. QED BY <3>2, <4>1 DEF Forward
    <3>. QED BY <3>3, <3>4
  <2>5. \A j \in 1..(Len(new) - 1) : j \in 1..n
    BY <1>1, <2>2
  <2>6. EndsOnHeading(new[Len(new)]) => EndsOnHeading(chunk)
    BY <2>2
  <2>7. \A j \in 1..(Len(new) - 1) : ~Short(new[j]) /\ ~EndsOnHeading(new[j])
    <3>. HIDE DEF n
    <3>. QED BY <2>2, <2>4, <2>5
  <2>8. Forward(new, chunk)
    BY <2>3, <2>6, <2>7 DEF Forward
  <2>. QED BY <2>8 DEF new, chunk
<1>. QED BY <1>3, <1>4 DEF new, chunk

\* Chunks of which only the last ends on a heading.
HeadingsMoved(chunks) == \A k \in 1..(Len(chunks) - 1) : ~EndsOnHeading(chunks[k])

LEMMA MergeForwardIs ==
    ASSUME NEW chunks \in Seq(Kept), HeadingsMoved(chunks)
    PROVE  /\ MergeForward(chunks) \in Seq(Kept)
           /\ chunks # <<>> => Forward(MergeForward(chunks), chunks[Len(chunks)])
<1>. DEFINE n == Len(chunks)
            places == [i \in 1..n |-> i]
            merged == MergeForward(chunks)
<1>1. n \in Nat /\ places \in Seq(1..n) /\ Len(places) = n /\ \A k \in 1..n : places[k] = k
  OBVIOUS
<1>2. merged = FoldLeft(LAMBDA sofar, i : MergeNext(chunks, sofar, i), <<>>, places)
  BY DEF MergeForward, MergeNext
<1>. HIDE DEF places, merged
<1>3. PICK h : /\ h \in [0..Len(places) -> Seq(Kept)]
               /\ h[0] = <<>>
               /\ \A k \in 1..Len(places) : h[k] = MergeNext(chunks, h[k - 1], places[k])
               /\ h[Len(places)] = FoldLeft(LAMBDA sofar, i : MergeNext(chunks, sofar, i), <<>>, places)
  BY <1>1, MergeSteps
<1>. DEFINE Good(k) == k > 0 => Forward(h[k], chunks[k])
            T == {k \in 0..n : Good(k)}
<1>4. 0 \in T
  BY <1>1
<1>5. \A k \in 0..(n - 1) : k \in T => k + 1 \in T
  <2>. SUFFICES ASSUME NEW k \in 0..(n - 1), Good(k) PROVE k + 1 \in 0..n /\ Good(k + 1)
    OBVIOUS
  <2>. HIDE DEF n
  <2>1. k + 1 \in 1..n /\ (k + 1) - 1 = k /\ k \in 0..n /\ k \in Nat
    BY <1>1
  <2>2. h[k + 1] = MergeNext(chunks, h[k], k + 1) /\ h[k] \in Seq(Kept)
    BY <1>1, <1>3, <2>1
  <2>3. ASSUME h[k] # <<>> PROVE k + 1 > 1 /\ Forward(h[k], chunks[k]) /\ ~EndsOnHeading(chunks[k])
    <3>1. k # 0
      BY <1>3, <2>3
    <3>2. k > 0 /\ k \in 1..(n - 1)
      BY <1>1, <2>1, <3>1
    <3>. QED BY <2>1, <3>2 DEF HeadingsMoved, n
  <2>4. Forward(MergeNext(chunks, h[k], k + 1), chunks[k + 1])
    <3>. DEFINE i == k + 1
    <3>1. i \in 1..Len(chunks) /\ i - 1 = k
      BY <2>1 DEF n
    <3>2. h[k] # <<>> => i > 1 /\ Forward(h[k], chunks[i - 1]) /\ ~EndsOnHeading(chunks[i - 1])
      BY <2>3, <3>1
    <3>. HIDE DEF i, Good
    <3>3. Forward(MergeNext(chunks, h[k], i), chunks[i])
      BY <2>2, <3>1, <3>2, MergeNextGoesForward
    <3>. QED BY <3>3 DEF i
  <2>. QED BY <2>1, <2>2, <2>4
<1>6. Good(n)
  <2>1. n \in 0..n
    BY <1>1
  <2>. HIDE DEF T, n
  <2>2. 0..n \subseteq T
    BY <1>1, <1>4, <1>5, InductionUpTo
  <2>. QED BY <2>1, <2>2 DEF T
<1>7. merged \in Seq(Kept) /\ merged = h[n]
  <2>1. n \in 0..Len(places) /\ n = Len(places)
    BY <1>1
  <2>2. h[n] \in Seq(Kept)
    BY <1>3, <2>1
  <2>3. merged = h[n]
    BY <1>2, <1>3, <2>1
  <2>. QED BY <2>2, <2>3
<1>8. chunks # <<>> => n > 0
  OBVIOUS
<1>. QED BY <1>6, <1>7, <1>8 DEF merged

LEMMA MergeSmallIs ==
    ASSUME NEW chunks \in Seq(Kept), HeadingsMoved(chunks)
    PROVE  LET merged == MergeSmall(chunks)
           IN /\ merged \in Seq(Kept)
              /\ HeadingsMoved(merged)
              /\ Len(merged) > 1 => \A k \in 1..Len(merged) : ~Short(merged[k])
<1>. DEFINE forward == MergeForward(chunks)
            n == Len(forward)
            merged == MergeSmall(chunks)
<1>1. forward \in Seq(Kept) /\ n \in Nat
  BY MergeForwardIs
<1>2. n > 0 => \A j \in 1..(n - 1) : ~Short(forward[j]) /\ ~EndsOnHeading(forward[j])
  <2>1. CASE chunks = <<>>
    <3>1. forward = <<>>
      <4>. DEFINE places == [i \in 1..Len(chunks) |-> i]
      <4>1. places \in Seq(1..Len(chunks)) /\ Len(places) = 0
        BY <2>1
      <4>2. forward = FoldLeft(LAMBDA sofar, i : MergeNext(chunks, sofar, i), <<>>, places)
        BY DEF MergeForward, MergeNext
      <4>. HIDE DEF places, forward
      <4>3. PICK h : /\ h \in [0..Len(places) -> Seq(Kept)]
                     /\ h[0] = <<>>
                     /\ \A k \in 1..Len(places) : h[k] = MergeNext(chunks, h[k - 1], places[k])
                     /\ h[Len(places)]
                           = FoldLeft(LAMBDA sofar, i : MergeNext(chunks, sofar, i), <<>>, places)
        BY <4>1, MergeSteps
      <4>. QED BY <4>1, <4>2, <4>3
    <3>. QED BY <3>1
  <2>2. CASE chunks # <<>>
    BY <2>2, MergeForwardIs DEF Forward
  <2>. QED BY <2>1, <2>2
<1>3. merged = IF n > 1 /\ Short(Last(forward)) THEN JoinLast(Front(forward), Last(forward)) ELSE forward
  BY DEF MergeSmall
<1>4. n > 0 => n \in 1..n /\ Last(forward) = forward[n] /\ forward[n] \in Kept
  BY <1>1 DEF Last
<1>. HIDE DEF forward, merged
<1>5. CASE n > 1 /\ Short(Last(forward))
  <2>. DEFINE front == Front(forward)
              m == n - 1
  <2>1. m \in Nat /\ m > 0 /\ m <= n /\ m \in 1..n /\ m \in 1..m /\ m \in 1..(n - 1)
    BY <1>1, <1>5
  <2>2. front = SubSeq(forward, 1, m)
    BY DEF Front
  <2>3. front \in Seq(Kept) /\ Len(front) = m /\ \A j \in 1..m : front[j] = forward[j]
    <3>. HIDE DEF front, m
    <3>. QED BY <1>1, <2>1, <2>2, Beginning
  <2>. HIDE DEF front, m
  <2>4. front # <<>>
    BY <2>1, <2>3
  <2>5. /\ merged \in Seq(Kept) /\ Len(merged) = Len(front)
        /\ \A j \in 1..(Len(front) - 1) : merged[j] = front[j]
        /\ merged[Len(front)] = Join(front[Len(front)], forward[n])
    <3>1. forward[n] \in Kept /\ merged = JoinLast(front, forward[n])
      BY <1>3, <1>4, <1>5, <2>1 DEF front
    <3>. HIDE DEF n
    <3>. QED BY <2>3, <2>4, <3>1, JoinLastIs
  <2>6. \A j \in 1..(m - 1) : j \in 1..m /\ j \in 1..(n - 1)
    BY <1>1, <2>1 DEF m
  <2>7. \A j \in 1..(m - 1) : ~Short(merged[j]) /\ ~EndsOnHeading(merged[j])
    <3>. TAKE j \in 1..(m - 1)
    <3>1. j \in 1..m /\ j \in 1..(n - 1) /\ j \in 1..(Len(front) - 1)
      BY <2>3, <2>6
    <3>2. merged[j] = forward[j]
      BY <2>3, <2>5, <3>1
    <3>3. ~Short(forward[j]) /\ ~EndsOnHeading(forward[j])
      BY <1>2, <1>5, <3>1
    <3>. QED BY <3>2, <3>3
  <2>8. ~Short(merged[m])
    <3>1. front[m] \in Kept /\ forward[n] \in Kept /\ front[m] = forward[m] /\ ~Short(forward[m])
      BY <1>2, <1>4, <1>5, <2>1, <2>3
    <3>2. merged[m] = Join(front[m], forward[n])
      BY <2>3, <2>5
    <3>. HIDE DEF n
    <3>. QED BY <3>1, <3>2, JoinedIsKept
  <2>9. \A j \in 1..m : ~Short(merged[j])
    <3>. SUFFICES ASSUME NEW j \in 1..m PROVE ~Short(merged[j])
      OBVIOUS
    <3>1. j = m \/ j \in 1..(m - 1)
      BY <2>1
    <3>. QED BY <2>7, <2>8, <3>1
  <2>. QED BY <2>3, <2>5, <2>7, <2>9 DEF HeadingsMoved, merged
<1>6. CASE ~(n > 1 /\ Short(Last(forward)))
  <2>1. merged = forward
    BY <1>3, <1>6
  <2>2. \A j \in 1..(n - 1) : n > 0
    BY <1>1
  <2>3. HeadingsMoved(forward)
    BY <1>2, <2>2 DEF HeadingsMoved
  <2>4. ASSUME n > 1, NEW k \in 1..n PROVE ~Short(forward[k])
    <3>1. k = n \/ k \in 1..(n - 1)
      BY <1>1, <2>4
    <3>. QED BY <1>2, <1>4, <1>6, <2>4, <3>1
  <2>. QED BY <1>1, <2>1, <2>3, <2>4 DEF merged
<1>. QED BY <1>5, <1>6

-----------------------------------------------------------------------------
(* The chunks of a text. *)

LEMMA ChunkTextIs ==
    ASSUME NEW text \in Texts
    PROVE  LET chunks == ChunkText(text)
           IN /\ chunks \in Seq(Kept)
              /\ HeadingsMoved(chunks)
              /\ Len(chunks) > 1 => \A k \in 1..Len(chunks) : ~Short(chunks[k])
<1>. DEFINE packed == PackedChunks(text)
            carried == CarryHeadings(packed)
            chunks == ChunkText(text)
<1>1. packed \in Seq(Solid)
  BY PackedChunksAre
<1>. HIDE DEF packed
<1>2. carried \in Seq(Kept) /\ HeadingsMoved(carried)
  BY <1>1, CarriedAre DEF HeadingsMoved
<1>. HIDE DEF carried
<1>3. chunks = IF ChunkMinSize > 0 THEN MergeSmall(carried) ELSE carried
  BY DEF ChunkText, carried, packed
<1>. HIDE DEF chunks
<1>4. CASE ChunkMinSize > 0
  BY <1>2, <1>3, <1>4, MergeSmallIs DEF chunks
<1>5. CASE ~(ChunkMinSize > 0)
  <2>1. ASSUME NEW k \in 1..Len(carried) PROVE ~Short(carried[k])
    <3>1. carried[k] \in Seq(Units)
      BY <1>2 DEF Kept
    <3>2. Length(carried[k]) \in Nat /\ ChunkMinSize \in Nat
      BY <3>1, LengthIsNat, ChunkSettings
    <3>. QED BY <1>5, <3>2 DEF Short
  <2>. QED BY <1>2, <1>3, <1>5, <2>1 DEF chunks
<1>. QED BY <1>4, <1>5

-----------------------------------------------------------------------------
(* The words of a text, wherever they go. B is a set of pairs of words, the first to come before *)
(* the second.                                                                                  *)

Says(units) == {units[i].word : i \in 1..Len(units)}
Parts(units) == {<<units[i].word, units[i].from, units[i].to>> : i \in 1..Len(units)}

\* What the first k of some texts say, and the parts of all of them.
Told(some, k) == UNION {Says(some[l]) : l \in 1..k}
PartsOf(some) == UNION {Parts(some[l]) : l \in 1..Len(some)}

\* All that is to come before a word is known, or comes before it.
Introduced(B, known, units) ==
    \A i \in 1..Len(units) : \A v :
        <<v, units[i].word>> \in B => v \in known \/ \E a \in 1..(i - 1) : units[a].word = v
InTurn(B, known, some) ==
    \A k \in 1..Len(some) : Introduced(B, known \cup Told(some, k - 1), some[k])

\* No word comes after one that it is to come before.
Tidy(B, units) == \A a, b \in 1..Len(units) : <<units[a].word, units[b].word>> \in B => a < b
TidyAll(B, some) ==
    \A k \in 1..Len(some) :
        /\ Tidy(B, some[k])
        /\ \A v \in Says(some[k]), w \in Told(some, k - 1) : <<v, w>> \notin B

\* The same text, whatever follows its words.
Same(a, b) ==
    /\ Len(a) = Len(b)
    /\ \A i \in 1..Len(a) : a[i].word = b[i].word /\ a[i].from = b[i].from /\ a[i].to = b[i].to

LEMMA SaysIs ==
    /\ \A units : Says(units) = {p[1] : p \in Parts(units)}
    /\ \A some : Told(some, Len(some)) = {p[1] : p \in PartsOf(some)}
<1>1. ASSUME NEW units PROVE Says(units) = {p[1] : p \in Parts(units)}
  <2>1. ASSUME NEW w \in Says(units) PROVE w \in {p[1] : p \in Parts(units)}
    <3>1. PICK i \in 1..Len(units) : w = units[i].word
      BY <2>1 DEF Says
    <3>2. <<units[i].word, units[i].from, units[i].to>> \in Parts(units)
      BY DEF Parts
    <3>. QED BY <3>1, <3>2
  <2>2. ASSUME NEW p \in Parts(units) PROVE p[1] \in Says(units)
    <3>1. PICK i \in 1..Len(units) : p = <<units[i].word, units[i].from, units[i].to>>
      BY <2>2 DEF Parts
    <3>. QED BY <3>1 DEF Says
  <2>. QED BY <2>1, <2>2
<1>2. ASSUME NEW some PROVE Told(some, Len(some)) = {p[1] : p \in PartsOf(some)}
  <2>1. \A l \in 1..Len(some) : Says(some[l]) = {p[1] : p \in Parts(some[l])}
    BY <1>1
  <2>2. ASSUME NEW w \in Told(some, Len(some)) PROVE w \in {p[1] : p \in PartsOf(some)}
    <3>1. PICK l \in 1..Len(some) : w \in Says(some[l])
      BY DEF Told
    <3>2. PICK p \in Parts(some[l]) : w = p[1]
      BY <2>1, <3>1
    <3>3. p \in PartsOf(some)
      BY DEF PartsOf
    <3>. QED BY <3>2, <3>3
  <2>3. ASSUME NEW p \in PartsOf(some) PROVE p[1] \in Told(some, Len(some))
    <3>1. PICK l \in 1..Len(some) : p \in Parts(some[l])
      BY DEF PartsOf
    <3>2. p[1] \in Says(some[l])
      BY <2>1, <3>1
    <3>. QED BY <3>2 DEF Told
  <2>. QED BY <2>2, <2>3
<1>. QED BY <1>1, <1>2

LEMMA SameTells ==
    ASSUME NEW a, NEW b, Same(a, b)
    PROVE  /\ Parts(a) = Parts(b) /\ Says(a) = Says(b)
           /\ \A B : Tidy(B, a) <=> Tidy(B, b)
           /\ \A B, known : Introduced(B, known, a) <=> Introduced(B, known, b)
<1>1. /\ Len(a) = Len(b)
      /\ \A i \in 1..Len(a) : a[i].word = b[i].word /\ a[i].from = b[i].from /\ a[i].to = b[i].to
  BY DEF Same
<1>2. Parts(a) = Parts(b)
  BY <1>1 DEF Parts
<1>3. Says(a) = Says(b)
  BY <1>1 DEF Says
<1>4. \A B : Tidy(B, a) <=> Tidy(B, b)
  BY <1>1 DEF Tidy
<1>5. ASSUME NEW B, NEW known PROVE Introduced(B, known, a) <=> Introduced(B, known, b)
  <2>1. ASSUME NEW i \in 1..Len(a), NEW v
        PROVE  (\E k \in 1..(i - 1) : a[k].word = v) <=> (\E k \in 1..(i - 1) : b[k].word = v)
    <3>1. \A k \in 1..(i - 1) : k \in 1..Len(a) \/ Len(a) \notin Int
      OBVIOUS
    <3>2. \A k \in 1..(i - 1) : k \in 1..Len(a)
      OBVIOUS
    <3>. QED BY <1>1, <3>2
  <2>2. ASSUME Introduced(B, known, a) PROVE Introduced(B, known, b)
    <3>. SUFFICES ASSUME NEW i \in 1..Len(b), NEW v, <<v, b[i].word>> \in B
                  PROVE  v \in known \/ \E k \in 1..(i - 1) : b[k].word = v
      BY DEF Introduced
    <3>1. i \in 1..Len(a) /\ <<v, a[i].word>> \in B
      BY <1>1
    <3>2. v \in known \/ \E k \in 1..(i - 1) : a[k].word = v
      BY <2>2, <3>1 DEF Introduced
    <3>. QED BY <2>1, <3>1, <3>2
  <2>3. ASSUME Introduced(B, known, b) PROVE Introduced(B, known, a)
    <3>. SUFFICES ASSUME NEW i \in 1..Len(a), NEW v, <<v, a[i].word>> \in B
                  PROVE  v \in known \/ \E k \in 1..(i - 1) : a[k].word = v
      BY DEF Introduced
    <3>1. i \in 1..Len(b) /\ <<v, b[i].word>> \in B
      BY <1>1
    <3>2. v \in known \/ \E k \in 1..(i - 1) : b[k].word = v
      BY <2>3, <3>1 DEF Introduced
    <3>. QED BY <2>1, <3>2
  <2>. QED BY <2>2, <2>3
<1>. QED BY <1>2, <1>3, <1>4, <1>5

LEMMA EndedIsSame ==
    ASSUME NEW units \in Seq(Units)
    PROVE  /\ \A ends \in DOMAIN Separator : Same(units, EndWith(units, ends))
           /\ Same(units, Strip(units))
<1>1. ASSUME NEW ends \in DOMAIN Separator PROVE Same(units, EndWith(units, ends))
  <2>. DEFINE n == Len(units)
              ended == EndWith(units, ends)
  <2>1. /\ Len(ended) = n /\ n \in Nat
        /\ \A i \in 1..(n - 1) : ended[i] = units[i]
        /\ n > 0 => ended[n] = [units[n] EXCEPT !.ends = ends]
    BY EndWithIs
  <2>2. n > 0 => units[n] \in Units
    BY <2>1
  <2>. HIDE DEF ended
  <2>3. n > 0 => /\ ended[n].word = units[n].word
                 /\ ended[n].from = units[n].from /\ ended[n].to = units[n].to
    BY <2>1, <2>2 DEF Units
  <2>4. ASSUME NEW i \in 1..n
        PROVE  units[i].word = ended[i].word /\ units[i].from = ended[i].from /\ units[i].to = ended[i].to
    <3>. HIDE DEF n
    <3>1. CASE i = n
      BY <2>1, <2>3, <3>1
    <3>2. CASE i # n
      <4>1. i \in 1..(n - 1)
        BY <2>1, <3>2
      <4>. QED BY <2>1, <4>1
    <3>. QED BY <3>1, <3>2
  <2>. QED BY <2>1, <2>4 DEF Same, ended
<1>2. "end" \in DOMAIN Separator
  BY DEF Separator
<1>. QED BY <1>1, <1>2 DEF Strip

LEMMA MoreIsKnown ==
    ASSUME NEW B, NEW known, NEW more, NEW units, known \subseteq more, Introduced(B, known, units)
    PROVE  Introduced(B, more, units)
BY DEF Introduced

LEMMA JoinedTells ==
    ASSUME NEW a \in Seq(Units), NEW b \in Seq(Units)
    PROVE  /\ Parts(a \o b) = Parts(a) \cup Parts(b)
           /\ Says(a \o b) = Says(a) \cup Says(b)
           /\ \A B, known : Introduced(B, known, a) /\ Introduced(B, known \cup Says(a), b)
                               => Introduced(B, known, a \o b)
           /\ \A B : Tidy(B, a) /\ Tidy(B, b) /\ (\A v \in Says(b), w \in Says(a) : <<v, w>> \notin B)
                        => Tidy(B, a \o b)
<1>. DEFINE c == a \o b
            n == Len(a)
            m == Len(b)
<1>1. /\ Len(c) = n + m /\ n \in Nat /\ m \in Nat
      /\ \A k \in 1..n : c[k] = a[k]
      /\ \A k \in 1..m : c[n + k] = b[k]
  <2>1. Len(a) \in Nat /\ Len(b) \in Nat
    OBVIOUS
  <2>. QED BY <2>1, Joined
<1>. HIDE DEF c, n, m
<1>2. \A i \in 1..(n + m) : i \in 1..n \/ (i - n \in 1..m /\ n + (i - n) = i)
  BY <1>1
<1>3. \A i \in 1..n : i \in 1..(n + m)
  BY <1>1
<1>4. \A i \in 1..m : n + i \in 1..(n + m)
  BY <1>1
<1>5. Parts(c) = Parts(a) \cup Parts(b)
  <2>. DEFINE part(u) == <<u.word, u.from, u.to>>
  <2>1. /\ Parts(c) = {part(c[i]) : i \in 1..(n + m)}
        /\ Parts(a) = {part(a[i]) : i \in 1..n}
        /\ Parts(b) = {part(b[i]) : i \in 1..m}
    BY <1>1 DEF Parts, n, m
  <2>. HIDE DEF part
  <2>2. \A i \in 1..n : part(c[i]) = part(a[i])
    BY <1>1
  <2>3. \A i \in 1..m : part(c[n + i]) = part(b[i])
    BY <1>1
  <2>4. ASSUME NEW p \in Parts(c) PROVE p \in Parts(a) \cup Parts(b)
    <3>1. PICK i \in 1..(n + m) : p = part(c[i])
      BY <2>1
    <3>2. CASE i \in 1..n
      BY <2>1, <2>2, <3>1, <3>2
    <3>3. CASE i - n \in 1..m /\ n + (i - n) = i
      <4>1. p = part(b[i - n])
        BY <2>3, <3>1, <3>3
      <4>. QED BY <2>1, <3>3, <4>1
    <3>. QED BY <1>2, <3>2, <3>3
  <2>5. Parts(a) \subseteq Parts(c)
    BY <1>3, <2>1, <2>2
  <2>6. Parts(b) \subseteq Parts(c)
    BY <1>4, <2>1, <2>3
  <2>. QED BY <2>4, <2>5, <2>6
<1>6. Says(c) = Says(a) \cup Says(b)
  <2>1. \A units : Says(units) = {p[1] : p \in Parts(units)}
    BY SaysIs
  <2>. QED BY <1>5, <2>1
<1>7. ASSUME NEW B, NEW known, Introduced(B, known, a), Introduced(B, known \cup Says(a), b)
      PROVE  Introduced(B, known, c)
  <2>. SUFFICES ASSUME NEW i \in 1..(n + m), NEW v, <<v, c[i].word>> \in B
                PROVE  v \in known \/ \E k \in 1..(i - 1) : c[k].word = v
    BY <1>1 DEF Introduced
  <2>1. CASE i \in 1..n
    <3>1. v \in known \/ \E k \in 1..(i - 1) : a[k].word = v
      BY <1>1, <1>7, <2>1 DEF Introduced, n
    <3>2. \A k \in 1..(i - 1) : k \in 1..n
      BY <1>1, <2>1
    <3>. QED BY <1>1, <3>1, <3>2
  <2>2. CASE i - n \in 1..m /\ n + (i - n) = i
    <3>. DEFINE j == i - n
    <3>0. c[i] = b[j]
      BY <1>1, <2>2
    <3>1. v \in known \cup Says(a) \/ \E k \in 1..(j - 1) : b[k].word = v
      BY <1>7, <2>2, <3>0 DEF Introduced, m
    <3>2. CASE v \in known
      BY <3>2
    <3>3. CASE v \in Says(a)
      <4>1. PICK k \in 1..n : a[k].word = v
        BY <3>3 DEF Says, n
      <4>2. k \in 1..(i - 1)
        BY <1>1, <2>2
      <4>. QED BY <1>1, <4>1, <4>2
    <3>4. CASE \E k \in 1..(j - 1) : b[k].word = v
      <4>1. PICK k \in 1..(j - 1) : b[k].word = v
        BY <3>4
      <4>2. k \in 1..m /\ n + k \in 1..(i - 1)
        BY <1>1, <2>2
      <4>. QED BY <1>1, <4>1, <4>2
    <3>. HIDE DEF j
    <3>. QED BY <3>1, <3>2, <3>3, <3>4
  <2>. QED BY <1>2, <2>1, <2>2
<1>8. ASSUME NEW B, Tidy(B, a), Tidy(B, b), \A v \in Says(b), w \in Says(a) : <<v, w>> \notin B
      PROVE  Tidy(B, c)
  <2>. SUFFICES ASSUME NEW i \in 1..(n + m), NEW j \in 1..(n + m), <<c[i].word, c[j].word>> \in B
                PROVE  i < j
    BY <1>1 DEF Tidy
  <2>1. CASE i \in 1..n /\ j \in 1..n
    BY <1>1, <1>8, <2>1 DEF Tidy, n
  <2>2. CASE i \in 1..n /\ j \notin 1..n
    BY <1>1, <2>2
  <2>3. CASE i \notin 1..n /\ j \in 1..n
    <3>1. i - n \in 1..m /\ c[i] = b[i - n] /\ c[j] = a[j]
      BY <1>1, <1>2, <2>3
    <3>2. c[i].word \in Says(b) /\ c[j].word \in Says(a)
      BY <2>3, <3>1 DEF Says, n, m
    <3>. QED BY <1>8, <3>2
  <2>4. CASE i \notin 1..n /\ j \notin 1..n
    <3>1. i - n \in 1..m /\ j - n \in 1..m /\ c[i] = b[i - n] /\ c[j] = b[j - n]
      BY <1>1, <1>2, <2>4
    <3>2. i - n < j - n
      BY <1>8, <3>1 DEF Tidy, m
    <3>. QED BY <1>1, <3>2
  <2>. QED BY <2>1, <2>2, <2>3, <2>4
<1>. QED BY <1>5, <1>6, <1>7, <1>8 DEF c

LEMMA JoinIsSame ==
    ASSUME NEW a \in Seq(Units), NEW b \in Seq(Units), a # <<>>
    PROVE  Same(a \o b, Join(a, b))
<1>. DEFINE c == a \o b
            d == Join(a, b)
            n == Len(a)
            m == Len(b)
<1>1. /\ Len(c) = n + m /\ n \in Nat /\ m \in Nat /\ n > 0
      /\ \A k \in 1..n : c[k] = a[k]
      /\ \A k \in 1..m : c[n + k] = b[k]
  <2>1. Len(a) \in Nat /\ Len(b) \in Nat /\ Len(a) > 0
    OBVIOUS
  <2>. QED BY <2>1, Joined
<1>2. /\ Len(d) = n + m
      /\ \A i \in 1..(n - 1) : d[i] = a[i]
      /\ d[n] = [a[n] EXCEPT !.ends = "blank"]
      /\ \A i \in 1..m : d[n + i] = b[i]
  BY JoinIs
<1>3. a[n] \in Units
  BY <1>1
<1>. HIDE DEF c, d, n, m
<1>4. ASSUME NEW i \in 1..(n + m)
      PROVE  c[i].word = d[i].word /\ c[i].from = d[i].from /\ c[i].to = d[i].to
  <2>1. CASE i \in 1..(n - 1)
    BY <1>1, <1>2, <2>1
  <2>2. CASE i = n
    <3>1. d[n].word = a[n].word /\ d[n].from = a[n].from /\ d[n].to = a[n].to
      BY <1>2, <1>3 DEF Units
    <3>2. n \in 1..n
      BY <1>1
    <3>. QED BY <1>1, <2>2, <3>1, <3>2
  <2>3. CASE i > n
    <3>1. i - n \in 1..m /\ n + (i - n) = i
      BY <1>1, <2>3
    <3>. QED BY <1>1, <1>2, <3>1
  <2>. QED BY <1>1, <2>1, <2>2, <2>3
<1>. QED BY <1>1, <1>2, <1>4 DEF Same, c, d

LEMMA StretchTells ==
    ASSUME NEW units \in Seq(Units), NEW a \in Nat \ {0}, NEW b \in Int, b <= Len(units)
    PROVE  LET part == SubSeq(units, a, b)
           IN /\ Parts(part) \subseteq Parts(units) /\ Says(part) \subseteq Says(units)
              /\ \A B : Tidy(B, units) => Tidy(B, part)
              /\ \A B, known, more :
                    Introduced(B, known, units) /\ known \subseteq more
                    /\ (\A i \in 1..(a - 1) : i <= Len(units) => units[i].word \in more)
                        => Introduced(B, more, part)
<1>. DEFINE part == SubSeq(units, a, b)
            n == Len(part)
<1>1. /\ n \in Nat
      /\ \A i \in 1..n : part[i] = units[a + i - 1] /\ a + i - 1 \in 1..Len(units)
  <2>1. part \in Seq(Units) /\ \A i \in 1..Len(part) : part[i] = units[a + i - 1] /\ a + i - 1 \in 1..Len(units)
    BY Stretch
  <2>. HIDE DEF part
  <2>. QED BY <2>1
<1>. HIDE DEF part
<1>2. Parts(part) \subseteq Parts(units)
  <2>1. \A i \in 1..n : <<part[i].word, part[i].from, part[i].to>> \in Parts(units)
    BY <1>1 DEF Parts
  <2>. QED BY <2>1 DEF Parts
<1>3. Says(part) \subseteq Says(units)
  <2>1. \A i \in 1..n : part[i].word \in Says(units)
    BY <1>1 DEF Says
  <2>. QED BY <2>1 DEF Says
<1>4. ASSUME NEW B, Tidy(B, units) PROVE Tidy(B, part)
  <2>. SUFFICES ASSUME NEW i \in 1..n, NEW j \in 1..n, <<part[i].word, part[j].word>> \in B PROVE i < j
    BY DEF Tidy
  <2>1. <<units[a + i - 1].word, units[a + j - 1].word>> \in B
        /\ a + i - 1 \in 1..Len(units) /\ a + j - 1 \in 1..Len(units)
    BY <1>1
  <2>2. a + i - 1 < a + j - 1
    BY <1>4, <2>1 DEF Tidy
  <2>. QED BY <1>1, <2>2
<1>5. ASSUME NEW B, NEW known, NEW more, Introduced(B, known, units), known \subseteq more,
             \A i \in 1..(a - 1) : i <= Len(units) => units[i].word \in more
      PROVE  Introduced(B, more, part)
  <2>. SUFFICES ASSUME NEW i \in 1..n, NEW v, <<v, part[i].word>> \in B
                PROVE  v \in more \/ \E k \in 1..(i - 1) : part[k].word = v
    BY DEF Introduced
  <2>. DEFINE j == a + i - 1
  <2>1. j \in 1..Len(units) /\ <<v, units[j].word>> \in B /\ Len(units) \in Nat
    <3>1. part[i] = units[j] /\ j \in 1..Len(units)
      BY <1>1
    <3>2. Len(units) \in Nat
      OBVIOUS
    <3>. HIDE DEF j
    <3>. QED BY <3>1, <3>2
  <2>2. v \in known \/ \E k \in 1..(j - 1) : units[k].word = v
    BY <1>5, <2>1 DEF Introduced
  <2>3. ASSUME NEW k \in 1..(j - 1), units[k].word = v
        PROVE  v \in more \/ \E l \in 1..(i - 1) : part[l].word = v
    <3>1. CASE k <= a - 1
      <4>1. k \in 1..(a - 1) /\ k <= Len(units)
        BY <2>1, <3>1
      <4>. QED BY <1>5, <2>3, <4>1
    <3>2. CASE k >= a
      <4>. DEFINE l == k - a + 1
      <4>1. l \in 1..(i - 1) /\ l \in 1..n /\ a + l - 1 = k
        BY <1>1, <3>2
      <4>. HIDE DEF l
      <4>2. part[l] = units[k]
        BY <1>1, <4>1
      <4>. QED BY <2>3, <4>1, <4>2
    <3>. QED BY <3>1, <3>2
  <2>. HIDE DEF j
  <2>. QED BY <1>5, <2>2, <2>3
<1>. QED BY <1>2, <1>3, <1>4, <1>5 DEF part

LEMMA AppendTells ==
    ASSUME NEW some \in Seq(Seq(Units)), NEW units \in Seq(Units)
    PROVE  LET n == Len(some)
               more == Append(some, units)
           IN /\ more \in Seq(Seq(Units)) /\ Len(more) = n + 1
              /\ Told(more, n + 1) = Told(some, n) \cup Says(units)
              /\ PartsOf(more) = PartsOf(some) \cup Parts(units)
              /\ \A B, known : InTurn(B, known, more)
                                  <=> /\ InTurn(B, known, some)
                                      /\ Introduced(B, known \cup Told(some, n), units)
<1>. DEFINE n == Len(some)
            more == Append(some, units)
<1>1. /\ more \in Seq(Seq(Units)) /\ n \in Nat /\ Len(more) = n + 1
      /\ more[n + 1] = units /\ \A k \in 1..n : more[k] = some[k]
  OBVIOUS
<1>. HIDE DEF more, n
<1>2. ASSUME NEW k \in 0..n PROVE Told(more, k) = Told(some, k)
  <2>1. \A l \in 1..k : more[l] = some[l]
    BY <1>1
  <2>2. \A v : v \in Told(more, k) <=> v \in Told(some, k)
    BY <2>1 DEF Told
  <2>. QED BY <2>2
<1>3. \A k \in 1..(n + 1) : k \in 1..n \/ k = n + 1
  BY <1>1
<1>4. n + 1 \in 1..(n + 1) /\ (n + 1) - 1 = n /\ \A k \in 1..n : k \in 1..(n + 1) /\ k - 1 \in 0..n
  BY <1>1
<1>5. Told(more, n + 1) = Told(some, n) \cup Says(units)
  BY <1>1, <1>3, <1>4 DEF Told
<1>6. PartsOf(more) = PartsOf(some) \cup Parts(units)
  BY <1>1, <1>3, <1>4 DEF PartsOf, n
<1>7. ASSUME NEW B, NEW known
      PROVE  InTurn(B, known, more) <=> /\ InTurn(B, known, some)
                                        /\ Introduced(B, known \cup Told(some, n), units)
  <2>1. n \in 0..n /\ Told(more, n) = Told(some, n)
    BY <1>1, <1>2
  <2>2. \A k \in 1..n : known \cup Told(more, k - 1) = known \cup Told(some, k - 1) /\ more[k] = some[k]
    BY <1>1, <1>2, <1>4
  <2>3. InTurn(B, known, more) <=>
           \A k \in 1..(n + 1) : Introduced(B, known \cup Told(more, k - 1), more[k])
    BY <1>1 DEF InTurn
  <2>4. InTurn(B, known, some) <=>
           \A k \in 1..n : Introduced(B, known \cup Told(some, k - 1), some[k])
    BY DEF InTurn, n
  <2>5. (\A k \in 1..(n + 1) : Introduced(B, known \cup Told(more, k - 1), more[k]))
           <=> /\ \A k \in 1..n : Introduced(B, known \cup Told(more, k - 1), more[k])
               /\ Introduced(B, known \cup Told(more, n), more[n + 1])
    BY <1>3, <1>4
  <2>6. (\A k \in 1..n : Introduced(B, known \cup Told(more, k - 1), more[k]))
           <=> \A k \in 1..n : Introduced(B, known \cup Told(some, k - 1), some[k])
    BY <2>2
  <2>. QED BY <1>1, <2>1, <2>3, <2>4, <2>5, <2>6
<1>. QED BY <1>1, <1>5, <1>6, <1>7 DEF more, n

\* What the first k of some lists of texts say.
ToldBy(each, k) == UNION {Told(each[l], Len(each[l])) : l \in 1..k}

\* Text m of list k is at h[k - 1] + m, and comes after all before it there.
KnownPlaces(h, each, flat) ==
    /\ \A k \in 1..Len(each) : \A m \in 1..Len(each[k]) :
          /\ h[k - 1] + m \in 1..Len(flat) /\ flat[h[k - 1] + m] = each[k][m]
          /\ Told(flat, (h[k - 1] + m) - 1) = ToldBy(each, k - 1) \cup Told(each[k], m - 1)
    /\ \A c \in 1..Len(flat) : \E k \in 1..Len(each) : \E m \in 1..Len(each[k]) : c = h[k - 1] + m

LEMMA NotBothWays ==
    ASSUME NEW x \in Nat, NEW m \in Nat, NEW y \in Nat, NEW a \in Nat, x + m < y + a
    PROVE  ~(y + a < x + m)
OBVIOUS

LEMMA InThePart ==
    ASSUME NEW x \in Nat, NEW wide \in Nat, NEW m \in 1..wide, NEW top \in Nat, x + wide <= top
    PROVE  x + m \in 1..top
OBVIOUS

LEMMA FlatPlaces ==
    ASSUME NEW each \in Seq(Seq(Seq(Units))), NEW flat \in Seq(Seq(Units)), NEW h, LaidOut(h, each, flat)
    PROVE  KnownPlaces(h, each, flat)
<1>. DEFINE n == Len(each)
            w == [k \in 1..n |-> Len(each[k])]
<1>1. n \in Nat /\ \A k \in 1..n : each[k] \in Seq(Seq(Units)) /\ Len(each[k]) \in Nat /\ w[k] = Len(each[k])
  OBVIOUS
<1>2. /\ Adds(h, w, n) /\ Len(flat) = h[n]
      /\ \A k \in 1..n : \A m \in 1..w[k] : flat[h[k - 1] + m] = each[k][m]
  BY DEF LaidOut
<1>. HIDE DEF n, w
<1>3. \A k \in 1..n : k - 1 \in 0..n /\ k \in 0..n /\ h[k - 1] \in Nat /\ h[k] = h[k - 1] + w[k]
  <2>1. \A k \in 1..n : k - 1 \in 0..n /\ k \in 0..n
    BY <1>1
  <2>. QED BY <1>2, <2>1 DEF Adds
<1>4. \A i, j \in 0..n : i <= j => h[i] <= h[j]
  BY <1>2, SumsGrow
<1>5. n \in 0..n /\ h[n] \in Nat
  BY <1>1, <1>2 DEF Adds
<1>6. ASSUME NEW k \in 1..n, NEW m \in 1..w[k] PROVE h[k - 1] + m \in 1..h[n]
  <2>1. h[k] <= h[n]
    BY <1>1, <1>3, <1>4, <1>5
  <2>2. h[k - 1] \in Nat /\ w[k] \in Nat /\ h[n] \in Nat /\ h[k] = h[k - 1] + w[k]
    BY <1>1, <1>3, <1>5
  <2>3. h[k - 1] + w[k] <= h[n]
    BY <2>1, <2>2
  <2>. QED BY <2>2, <2>3, InThePart
<1>7. \A p \in 1..h[n] : \E k \in 1..n : \E m \in 1..w[k] : p = h[k - 1] + m
  <2>1. EachInAPart(h, w, n)
    BY <1>2, PlacesInParts
  <2>. QED BY <2>1 DEF EachInAPart
<1>8. ASSUME NEW k \in 1..n, NEW m \in 1..w[k]
      PROVE  Told(flat, (h[k - 1] + m) - 1) = ToldBy(each, k - 1) \cup Told(each[k], m - 1)
  <2>. DEFINE c == h[k - 1] + m
  <2>0. c \in 1..h[n] /\ c \in Nat /\ w[k] \in Nat /\ h[k - 1] \in Nat
    <3>1. h[k - 1] + m \in 1..h[n]
      BY <1>6
    <3>2. w[k] \in Nat /\ h[k - 1] \in Nat /\ h[n] \in Nat
      BY <1>1, <1>3, <1>5
    <3>3. c \in 1..h[n]
      BY <3>1
    <3>. HIDE DEF c
    <3>. QED BY <3>2, <3>3
  <2>1. ASSUME NEW v \in Told(flat, c - 1) PROVE v \in ToldBy(each, k - 1) \cup Told(each[k], m - 1)
    <3>1. PICK p \in 1..(c - 1) : v \in Says(flat[p])
      BY DEF Told
    <3>2. p \in 1..h[n]
      <4>. HIDE DEF c
      <4>. QED BY <1>5, <2>0
    <3>3. PICK l \in 1..n : \E a \in 1..w[l] : p = h[l - 1] + a
      BY <1>7, <3>2
    <3>4. PICK a \in 1..w[l] : p = h[l - 1] + a
      BY <3>3
    <3>5. v \in Says(each[l][a]) /\ h[l - 1] \in Nat /\ w[l] \in Nat
      BY <1>1, <1>2, <1>3, <3>1, <3>4
    <3>6. CASE l = k
      <4>1. a \in 1..(m - 1)
        BY <2>0, <3>4, <3>6
      <4>. QED BY <3>5, <3>6, <4>1 DEF Told
    <3>7. CASE l < k
      <4>1. l \in 1..(k - 1)
        BY <1>1, <3>7
      <4>2. v \in Told(each[l], Len(each[l]))
        BY <1>1, <3>5 DEF Told
      <4>. QED BY <4>1, <4>2 DEF ToldBy
    <3>8. CASE l > k
      <4>1. h[k] <= h[l - 1]
        BY <1>1, <1>3, <1>4, <3>8
      <4>0. h[k] = h[k - 1] + w[k]
        BY <1>3
      <4>2. h[k] = h[k - 1] + w[k] /\ c <= h[k]
        BY <2>0, <4>0
      <4>. HIDE DEF c
      <4>3. p <= c - 1 /\ p >= h[l - 1]
        BY <2>0, <3>4, <3>5
      <4>4. h[k] \in Nat
        BY <2>0, <4>0
      <4>. QED BY <2>0, <3>5, <4>1, <4>2, <4>3, <4>4
    <3>. QED BY <1>1, <3>6, <3>7, <3>8
  <2>2. ASSUME NEW v \in ToldBy(each, k - 1) PROVE v \in Told(flat, c - 1)
    <3>1. PICK l \in 1..(k - 1) : v \in Told(each[l], Len(each[l]))
      BY DEF ToldBy
    <3>2. l \in 1..n /\ w[l] = Len(each[l])
      BY <1>1
    <3>3. PICK a \in 1..w[l] : v \in Says(each[l][a])
      BY <3>1, <3>2 DEF Told
    <3>4. v \in Says(flat[h[l - 1] + a])
      BY <1>2, <3>2, <3>3
    <3>5. h[l - 1] + a \in 1..(c - 1)
      <4>1. h[l] <= h[k - 1]
        BY <1>1, <1>3, <1>4, <3>2
      <4>2. h[l] = h[l - 1] + w[l] /\ h[l - 1] \in Nat /\ w[l] \in Nat
        BY <1>1, <1>3, <3>2
      <4>3. h[k - 1] <= c - 1 /\ c - 1 \in Nat /\ h[k - 1] \in Nat
        <5>1. m \in Nat \ {0}
          BY <2>0
        <5>. QED BY <2>0, <5>1, SMTT(30)
      <4>. HIDE DEF c
      <4>4. h[l - 1] + w[l] <= c - 1
        BY <4>1, <4>2, <4>3
      <4>. QED BY <4>2, <4>3, <4>4, InThePart
    <3>. HIDE DEF c
    <3>. QED BY <3>4, <3>5 DEF Told
  <2>3. ASSUME NEW v \in Told(each[k], m - 1) PROVE v \in Told(flat, c - 1)
    <3>1. PICK a \in 1..(m - 1) : v \in Says(each[k][a])
      BY DEF Told
    <3>2. a \in 1..w[k] /\ h[k - 1] + a \in 1..(c - 1)
      <4>1. a \in Nat \ {0} /\ a <= m - 1 /\ m <= w[k] /\ m \in Nat
        BY <2>0
      <4>2. h[k - 1] \in Nat /\ w[k] \in Nat /\ c - 1 = h[k - 1] + (m - 1)
        BY <2>0, <4>1
      <4>. HIDE DEF c
      <4>3. a \in 1..w[k]
        BY <4>1, <4>2
      <4>4. m - 1 \in Nat /\ c - 1 \in Nat /\ h[k - 1] + (m - 1) <= c - 1
        BY <4>1, <4>2
      <4>. QED BY <4>2, <4>3, <4>4, InThePart
    <3>3. v \in Says(flat[h[k - 1] + a])
      BY <1>2, <3>1, <3>2
    <3>. HIDE DEF c
    <3>. QED BY <3>2, <3>3 DEF Told
  <2>4. Told(flat, c - 1) = ToldBy(each, k - 1) \cup Told(each[k], m - 1)
    <3>. HIDE DEF c
    <3>. QED BY <2>1, <2>2, <2>3, SMTT(30)
  <2>. QED BY <2>4
<1>9. (\A k \in 1..n : w[k] = Len(each[k])) /\ Len(flat) = h[n]
  BY <1>1, <1>2
<1>10. Len(each) = n
  BY DEF n
<1>11. ASSUME NEW k \in 1..Len(each), NEW m \in 1..Len(each[k])
       PROVE  /\ h[k - 1] + m \in 1..Len(flat) /\ flat[h[k - 1] + m] = each[k][m]
              /\ Told(flat, (h[k - 1] + m) - 1) = ToldBy(each, k - 1) \cup Told(each[k], m - 1)
  <2>1. k \in 1..n /\ m \in 1..w[k]
    BY <1>9, <1>10
  <2>2. h[k - 1] + m \in 1..Len(flat) /\ flat[h[k - 1] + m] = each[k][m]
    BY <1>2, <1>6, <1>9, <2>1
  <2>3. Told(flat, (h[k - 1] + m) - 1) = ToldBy(each, k - 1) \cup Told(each[k], m - 1)
    BY <1>8, <2>1
  <2>. QED BY <2>2, <2>3
<1>12. ASSUME NEW c \in 1..Len(flat)
       PROVE  \E k \in 1..Len(each) : \E m \in 1..Len(each[k]) : c = h[k - 1] + m
  <2>1. PICK k \in 1..n : \E m \in 1..w[k] : c = h[k - 1] + m
    BY <1>7, <1>9
  <2>2. PICK m \in 1..w[k] : c = h[k - 1] + m
    BY <2>1
  <2>3. k \in 1..Len(each) /\ m \in 1..Len(each[k])
    BY <1>9, <1>10
  <2>. QED BY <2>2, <2>3
<1>. QED BY <1>11, <1>12 DEF KnownPlaces

LEMMA FlatTells ==
    ASSUME NEW each \in Seq(Seq(Seq(Units))), NEW flat \in Seq(Seq(Units)), NEW h, LaidOut(h, each, flat)
    PROVE  /\ PartsOf(flat) = UNION {PartsOf(each[k]) : k \in 1..Len(each)}
           /\ \A B, known :
                 (\A k \in 1..Len(each) : InTurn(B, known \cup ToldBy(each, k - 1), each[k]))
                    => InTurn(B, known, flat)
           /\ \A B :
                 (\A k \in 1..Len(each) :
                     /\ TidyAll(B, each[k])
                     /\ \A v \in Told(each[k], Len(each[k])), w \in ToldBy(each, k - 1) : <<v, w>> \notin B)
                    => TidyAll(B, flat)
<1>. DEFINE n == Len(each)
<1>0. n = Len(each)
  OBVIOUS
<1>1. /\ \A k \in 1..n : \A m \in 1..Len(each[k]) :
            /\ h[k - 1] + m \in 1..Len(flat) /\ flat[h[k - 1] + m] = each[k][m]
            /\ Told(flat, (h[k - 1] + m) - 1) = ToldBy(each, k - 1) \cup Told(each[k], m - 1)
      /\ \A c \in 1..Len(flat) : \E k \in 1..n : \E m \in 1..Len(each[k]) : c = h[k - 1] + m
  <2>1. KnownPlaces(h, each, flat)
    BY FlatPlaces
  <2>. QED BY <2>1 DEF KnownPlaces
<1>. HIDE DEF n
<1>5. ASSUME NEW k \in 1..n, NEW m \in 1..Len(each[k]), NEW c, c = h[k - 1] + m
       PROVE  Told(flat, c - 1) = ToldBy(each, k - 1) \cup Told(each[k], m - 1)
  <2>1. Told(flat, (h[k - 1] + m) - 1) = ToldBy(each, k - 1) \cup Told(each[k], m - 1)
    BY <1>1
  <2>. QED BY <1>5, <2>1
<1>2. PartsOf(flat) = UNION {PartsOf(each[k]) : k \in 1..n}
  <2>1. ASSUME NEW p \in PartsOf(flat) PROVE \E k \in 1..n : p \in PartsOf(each[k])
    <3>1. PICK c \in 1..Len(flat) : p \in Parts(flat[c])
      BY DEF PartsOf
    <3>2. PICK k \in 1..n : \E m \in 1..Len(each[k]) : c = h[k - 1] + m
      BY <1>1
    <3>3. PICK m \in 1..Len(each[k]) : c = h[k - 1] + m
      BY <3>2
    <3>4. p \in Parts(each[k][m])
      BY <1>1, <3>1, <3>3
    <3>. QED BY <3>4 DEF PartsOf
  <2>2. ASSUME NEW k \in 1..n, NEW p \in PartsOf(each[k]) PROVE p \in PartsOf(flat)
    <3>1. PICK m \in 1..Len(each[k]) : p \in Parts(each[k][m])
      BY DEF PartsOf
    <3>2. h[k - 1] + m \in 1..Len(flat) /\ p \in Parts(flat[h[k - 1] + m])
      BY <1>1, <3>1
    <3>. QED BY <3>2 DEF PartsOf
  <2>. QED BY <2>1, <2>2
<1>3. ASSUME NEW B, NEW known,
             \A k \in 1..n : InTurn(B, known \cup ToldBy(each, k - 1), each[k])
      PROVE  InTurn(B, known, flat)
  <2>. SUFFICES ASSUME NEW c \in 1..Len(flat)
                PROVE  Introduced(B, known \cup Told(flat, c - 1), flat[c])
    BY DEF InTurn
  <2>1. PICK k \in 1..n : \E m \in 1..Len(each[k]) : c = h[k - 1] + m
    BY <1>1
  <2>2. PICK m \in 1..Len(each[k]) : c = h[k - 1] + m
    BY <2>1
  <2>3. Introduced(B, (known \cup ToldBy(each, k - 1)) \cup Told(each[k], m - 1), each[k][m])
    BY <1>3 DEF InTurn
  <2>4. (known \cup ToldBy(each, k - 1)) \cup Told(each[k], m - 1) = known \cup Told(flat, c - 1)
    <3>1. Told(flat, c - 1) = ToldBy(each, k - 1) \cup Told(each[k], m - 1)
      BY <1>5, <2>2
    <3>. QED BY <3>1
  <2>5. flat[c] = each[k][m]
    BY <1>1, <2>2
  <2>. QED BY <2>3, <2>4, <2>5
<1>4. ASSUME NEW B,
             \A k \in 1..n :
                 /\ TidyAll(B, each[k])
                 /\ \A v \in Told(each[k], Len(each[k])), w \in ToldBy(each, k - 1) : <<v, w>> \notin B
      PROVE  TidyAll(B, flat)
  <2>. SUFFICES ASSUME NEW c \in 1..Len(flat)
                PROVE  /\ Tidy(B, flat[c])
                       /\ \A v \in Says(flat[c]), w \in Told(flat, c - 1) : <<v, w>> \notin B
    BY DEF TidyAll
  <2>1. PICK k \in 1..n : \E m \in 1..Len(each[k]) : c = h[k - 1] + m
    BY <1>1
  <2>2. PICK m \in 1..Len(each[k]) : c = h[k - 1] + m
    BY <2>1
  <2>3. flat[c] = each[k][m] /\ Told(flat, c - 1) = ToldBy(each, k - 1) \cup Told(each[k], m - 1)
    BY <1>1, <1>5, <2>2
  <2>4. Tidy(B, each[k][m]) /\ \A v \in Says(each[k][m]), w \in Told(each[k], m - 1) : <<v, w>> \notin B
    BY <1>4 DEF TidyAll
  <2>5. \A v \in Says(each[k][m]) : v \in Told(each[k], Len(each[k]))
    BY DEF Told
  <2>. QED BY <1>4, <2>3, <2>4, <2>5
<1>. QED BY <1>0, <1>2, <1>3, <1>4

\* Texts that are only repeated, cut or put together the same way say the same.
LEMMA SamePartsSameWords ==
    ASSUME NEW some, NEW units, PartsOf(some) = Parts(units)
    PROVE  Told(some, Len(some)) = Says(units)
BY SaysIs

-----------------------------------------------------------------------------
(* Cutting leaves the words and their order as they are. *)

\* Every character of the parts Q is in one of the parts P.
Inked(P, Q) ==
    \A q \in Q : \A n \in q[2]..(q[3] - 1) : \E p \in P : p[1] = q[1] /\ p[2] <= n /\ n < p[3]

\* The same words in the same order, and all their characters.
Retells(B, some, units) ==
    /\ Told(some, Len(some)) = Says(units)
    /\ Inked(PartsOf(some), Parts(units))
    /\ \A known : Introduced(B, known, units) => InTurn(B, known, some)
    /\ Tidy(B, units) => TidyAll(B, some)

LEMMA InkedTwice ==
    ASSUME NEW P, NEW Q, NEW R, Inked(P, Q), Inked(Q, R),
           \A q \in Q : q[2] \in Nat /\ q[3] \in Nat, \A r \in R : r[2] \in Nat /\ r[3] \in Nat
    PROVE  Inked(P, R)
<1>. SUFFICES ASSUME NEW r \in R, NEW n \in r[2]..(r[3] - 1)
              PROVE  \E p \in P : p[1] = r[1] /\ p[2] <= n /\ n < p[3]
  BY DEF Inked
<1>1. PICK q \in Q : q[1] = r[1] /\ q[2] <= n /\ n < q[3]
  BY DEF Inked
<1>2. n \in q[2]..(q[3] - 1)
  BY <1>1
<1>3. PICK p \in P : p[1] = q[1] /\ p[2] <= n /\ n < p[3]
  BY <1>2 DEF Inked
<1>. QED BY <1>1, <1>3

LEMMA PartsAre ==
    /\ \A units \in Seq(Units) : \A p \in Parts(units) :
          p[1] \in Vocabulary /\ p[2] \in Nat /\ p[3] \in Nat
    /\ \A some \in Seq(Seq(Units)) : \A p \in PartsOf(some) :
          p[1] \in Vocabulary /\ p[2] \in Nat /\ p[3] \in Nat
<1>1. ASSUME NEW units \in Seq(Units), NEW p \in Parts(units)
      PROVE  p[1] \in Vocabulary /\ p[2] \in Nat /\ p[3] \in Nat
  <2>1. PICK i \in 1..Len(units) : p = <<units[i].word, units[i].from, units[i].to>>
    BY <1>1 DEF Parts
  <2>2. units[i] \in Units
    OBVIOUS
  <2>. QED BY <2>1, <2>2 DEF Units
<1>2. ASSUME NEW some \in Seq(Seq(Units)), NEW p \in PartsOf(some)
      PROVE  p[1] \in Vocabulary /\ p[2] \in Nat /\ p[3] \in Nat
  <2>1. PICK l \in 1..Len(some) : p \in Parts(some[l])
    BY <1>2 DEF PartsOf
  <2>2. some[l] \in Seq(Units)
    OBVIOUS
  <2>. QED BY <1>1, <2>1, <2>2
<1>. QED BY <1>1, <1>2

LEMMA InkedByItself ==
    ASSUME NEW P, NEW Q, Q \subseteq P, \A q \in Q : q[2] \in Nat /\ q[3] \in Nat
    PROVE  Inked(P, Q)
<1>. SUFFICES ASSUME NEW q \in Q, NEW n \in q[2]..(q[3] - 1)
              PROVE  \E p \in P : p[1] = q[1] /\ p[2] <= n /\ n < p[3]
  BY DEF Inked
<1>1. q[2] <= n /\ n < q[3]
  OBVIOUS
<1>. QED BY <1>1

\* A text cut into stretches.
LEMMA StretchesRetell ==
    ASSUME NEW some \in Seq(Seq(Units)), NEW units \in Seq(Units), NEW h, LaidOut(h, some, units)
    PROVE  PartsOf(some) = Parts(units) /\ \A B : Retells(B, some, units)
<1>. DEFINE n == Len(some)
            w == [k \in 1..n |-> Len(some[k])]
<1>1. n \in Nat /\ \A k \in 1..n : some[k] \in Seq(Units) /\ Len(some[k]) \in Nat /\ w[k] = Len(some[k])
  OBVIOUS
<1>2. /\ Adds(h, w, n) /\ Len(units) = h[n]
      /\ \A k \in 1..n : \A m \in 1..w[k] : units[h[k - 1] + m] = some[k][m]
  BY DEF LaidOut
<1>0. n = Len(some)
  OBVIOUS
<1>. HIDE DEF w, n
<1>3. \A k \in 1..n : k - 1 \in 0..n /\ k \in 0..n /\ h[k - 1] \in Nat /\ h[k] = h[k - 1] + w[k] /\ w[k] \in Nat
  <2>1. \A k \in 1..n : k - 1 \in 0..n /\ k \in 0..n
    BY <1>1
  <2>. QED BY <1>1, <1>2, <2>1 DEF Adds
<1>4. \A i, j \in 0..n : i <= j => h[i] <= h[j]
  BY <1>2, SumsGrow
<1>5. n \in 0..n /\ h[n] \in Nat
  BY <1>1, <1>2 DEF Adds
<1>6. ASSUME NEW k \in 1..n, NEW m \in 1..w[k] PROVE h[k - 1] + m \in 1..h[n]
  <2>1. h[k] <= h[n]
    BY <1>1, <1>3, <1>4, <1>5
  <2>2. h[k - 1] \in Nat /\ w[k] \in Nat /\ h[n] \in Nat /\ h[k] = h[k - 1] + w[k]
    BY <1>3, <1>5
  <2>3. h[k - 1] + w[k] <= h[n]
    BY <2>1, <2>2
  <2>. QED BY <2>2, <2>3, InThePart
<1>7. \A p \in 1..h[n] : \E k \in 1..n : \E m \in 1..w[k] : p = h[k - 1] + m
  <2>1. EachInAPart(h, w, n)
    BY <1>2, PlacesInParts
  <2>. QED BY <2>1 DEF EachInAPart
\* Which of two places is in an earlier part.
<1>8. ASSUME NEW k \in 1..n, NEW m \in 1..w[k], NEW l \in 1..n, NEW a \in 1..w[l]
      PROVE  k < l => h[k - 1] + m < h[l - 1] + a
  <2>. SUFFICES ASSUME k < l PROVE h[k - 1] + m < h[l - 1] + a
    OBVIOUS
  <2>1. h[k] <= h[l - 1]
    BY <1>1, <1>3, <1>4
  <2>2. h[k - 1] \in Nat /\ h[k] = h[k - 1] + w[k] /\ w[k] \in Nat /\ h[l - 1] \in Nat /\ w[l] \in Nat
    BY <1>3
  <2>. DEFINE before == h[k - 1]
              start == h[l - 1]
              wide == w[k]
  <2>3. before \in Nat /\ start \in Nat /\ wide \in Nat /\ before + wide <= start
    BY <2>1, <2>2
  <2>4. m \in 1..wide /\ a \in Nat \ {0}
    BY <2>2
  <2>. HIDE DEF before, start, wide
  <2>5. before + m < start + a
    BY <2>3, <2>4
  <2>. QED BY <2>5 DEF before, start
<1>9. PartsOf(some) = Parts(units)
  <2>1. ASSUME NEW p \in PartsOf(some) PROVE p \in Parts(units)
    <3>1. PICK k \in 1..n : p \in Parts(some[k])
      BY <1>0 DEF PartsOf
    <3>2. PICK m \in 1..w[k] : p = <<some[k][m].word, some[k][m].from, some[k][m].to>>
      BY <1>1, <3>1 DEF Parts
    <3>3. h[k - 1] + m \in 1..Len(units) /\ units[h[k - 1] + m] = some[k][m]
      BY <1>2, <1>6
    <3>. QED BY <3>2, <3>3 DEF Parts
  <2>2. ASSUME NEW p \in Parts(units) PROVE p \in PartsOf(some)
    <3>1. PICK i \in 1..h[n] : p = <<units[i].word, units[i].from, units[i].to>>
      BY <1>2 DEF Parts
    <3>2. PICK k \in 1..n : \E m \in 1..w[k] : i = h[k - 1] + m
      BY <1>7
    <3>3. PICK m \in 1..w[k] : i = h[k - 1] + m
      BY <3>2
    <3>4. p = <<some[k][m].word, some[k][m].from, some[k][m].to>> /\ m \in 1..Len(some[k])
      BY <1>1, <1>2, <3>1, <3>3
    <3>5. p \in Parts(some[k])
      BY <3>4 DEF Parts
    <3>. QED BY <1>0, <3>5 DEF PartsOf
  <2>. QED BY <2>1, <2>2
<1>10. Told(some, n) = Says(units)
  BY <1>0, <1>9, SaysIs
<1>11. Inked(PartsOf(some), Parts(units))
  BY <1>9, PartsAre, InkedByItself
<1>12. ASSUME NEW B, NEW known, Introduced(B, known, units) PROVE InTurn(B, known, some)
  <2>. SUFFICES ASSUME NEW k \in 1..n PROVE Introduced(B, known \cup Told(some, k - 1), some[k])
    BY <1>0 DEF InTurn
  <2>. SUFFICES ASSUME NEW m \in 1..w[k], NEW v, <<v, some[k][m].word>> \in B
                PROVE  v \in known \cup Told(some, k - 1) \/ \E a \in 1..(m - 1) : some[k][a].word = v
    BY <1>1 DEF Introduced
  <2>. DEFINE i == h[k - 1] + m
  <2>1. i \in 1..Len(units) /\ units[i] = some[k][m]
    BY <1>2, <1>6
  <2>2. v \in known \/ \E a \in 1..(i - 1) : units[a].word = v
    BY <1>12, <2>1 DEF Introduced
  <2>3. ASSUME NEW p \in 1..(i - 1), units[p].word = v
        PROVE  v \in Told(some, k - 1) \/ \E a \in 1..(m - 1) : some[k][a].word = v
    <3>1. p \in 1..h[n] /\ p < i
      <4>1. i \in 1..h[n]
        BY <1>2, <2>1
      <4>. HIDE DEF i
      <4>. QED BY <1>5, <4>1
    <3>2. PICK l \in 1..n : \E a \in 1..w[l] : p = h[l - 1] + a
      BY <1>7, <3>1
    <3>3. PICK a \in 1..w[l] : p = h[l - 1] + a
      BY <3>2
    <3>4. some[l][a].word = v /\ a \in 1..Len(some[l])
      BY <1>1, <1>2, <2>3, <3>3
    <3>5. ~(k < l)
      <4>. SUFFICES ASSUME k < l PROVE FALSE
        OBVIOUS
      <4>1. i < p
        BY <1>8, <3>3
      <4>. HIDE DEF i
      <4>. QED BY <2>1, <3>1, <4>1
    <3>6. CASE l = k
      <4>1. a \in 1..(m - 1)
        <5>1. h[k - 1] \in Nat /\ w[k] \in Nat
          BY <1>3
        <5>. QED BY <3>1, <3>3, <3>6, <5>1
      <4>. QED BY <3>4, <3>6, <4>1
    <3>7. CASE l < k
      <4>1. l \in 1..(k - 1)
        BY <1>1, <3>7
      <4>2. v \in Says(some[l])
        BY <3>4 DEF Says
      <4>. QED BY <4>1, <4>2 DEF Told
    <3>. QED BY <1>1, <3>5, <3>6, <3>7
  <2>. HIDE DEF i
  <2>. QED BY <2>2, <2>3
<1>13. ASSUME NEW B, Tidy(B, units) PROVE TidyAll(B, some)
  <2>1. ASSUME NEW k \in 1..n, NEW m \in 1..w[k], NEW l \in 1..n, NEW a \in 1..w[l],
               <<some[k][m].word, some[l][a].word>> \in B
        PROVE  h[k - 1] + m < h[l - 1] + a
    <3>1. /\ h[k - 1] + m \in 1..Len(units) /\ units[h[k - 1] + m] = some[k][m]
          /\ h[l - 1] + a \in 1..Len(units) /\ units[h[l - 1] + a] = some[l][a]
      BY <1>2, <1>6
    <3>. QED BY <1>13, <2>1, <3>1 DEF Tidy
  <2>2. ASSUME NEW k \in 1..n, NEW m \in 1..w[k], NEW a \in 1..w[k],
               <<some[k][m].word, some[k][a].word>> \in B
        PROVE  m < a
    <3>1. h[k - 1] + m < h[k - 1] + a /\ h[k - 1] \in Nat /\ w[k] \in Nat
      BY <1>3, <2>1, <2>2
    <3>. QED BY <3>1
  <2>3. ASSUME NEW k \in 1..n, NEW v \in Says(some[k]), NEW u \in Told(some, k - 1), <<v, u>> \in B
        PROVE  FALSE
    <3>1. PICK l \in 1..(k - 1) : u \in Says(some[l])
      BY DEF Told
    <3>2. l \in 1..n /\ l < k
      BY <1>1
    <3>3. PICK m \in 1..w[k] : v = some[k][m].word
      BY <1>1 DEF Says
    <3>4. PICK a \in 1..w[l] : u = some[l][a].word
      BY <1>1, <3>1, <3>2 DEF Says
    <3>5. h[k - 1] + m < h[l - 1] + a
      BY <2>1, <2>3, <3>2, <3>3, <3>4
    <3>6. h[l - 1] + a < h[k - 1] + m
      BY <1>8, <3>2
    <3>7. h[k - 1] \in Nat /\ h[l - 1] \in Nat /\ w[k] \in Nat /\ w[l] \in Nat
      BY <1>3, <3>2
    <3>8. m \in Nat /\ a \in Nat
      BY <3>7
    <3>. QED BY <3>5, <3>6, <3>7, <3>8, NotBothWays
  <2>4. \A k \in 1..n : Tidy(B, some[k])
    BY <1>1, <2>2 DEF Tidy
  <2>. QED BY <1>0, <2>3, <2>4 DEF TidyAll
<1>. QED BY <1>0, <1>9, <1>10, <1>11, <1>12, <1>13 DEF Retells

\* What retells the parts of a text retells the text.
LEMMA RetellsEach ==
    ASSUME NEW B, NEW some \in Seq(Seq(Units)), NEW units \in Seq(Units), Retells(B, some, units),
           NEW each \in Seq(Seq(Seq(Units))), Len(each) = Len(some),
           \A k \in 1..Len(some) : Retells(B, each[k], some[k]),
           NEW flat \in Seq(Seq(Units)), NEW h, LaidOut(h, each, flat)
    PROVE  Retells(B, flat, units)
<1>. DEFINE n == Len(some)
<1>1. /\ PartsOf(flat) = UNION {PartsOf(each[k]) : k \in 1..n}
      /\ \A known :
            (\A k \in 1..n : InTurn(B, known \cup ToldBy(each, k - 1), each[k]))
               => InTurn(B, known, flat)
      /\ (\A k \in 1..n :
             /\ TidyAll(B, each[k])
             /\ \A v \in Told(each[k], Len(each[k])), w \in ToldBy(each, k - 1) : <<v, w>> \notin B)
               => TidyAll(B, flat)
  BY FlatTells
<1>2. /\ Told(some, n) = Says(units)
      /\ Inked(PartsOf(some), Parts(units))
      /\ \A known : Introduced(B, known, units) => InTurn(B, known, some)
      /\ Tidy(B, units) => TidyAll(B, some)
  BY DEF Retells
<1>3. n \in Nat /\ \A k \in 1..n : some[k] \in Seq(Units) /\ each[k] \in Seq(Seq(Units))
  OBVIOUS
<1>4. \A k \in 1..n : /\ Told(each[k], Len(each[k])) = Says(some[k])
                      /\ Inked(PartsOf(each[k]), Parts(some[k]))
                      /\ \A known : Introduced(B, known, some[k]) => InTurn(B, known, each[k])
                      /\ Tidy(B, some[k]) => TidyAll(B, each[k])
  BY DEF Retells
<1>0. n = Len(some)
  OBVIOUS
<1>. HIDE DEF n
<1>5. \A k \in 1..n : ToldBy(each, k - 1) = Told(some, k - 1)
  <2>. TAKE k \in 1..n
  <2>1. ASSUME NEW l \in 1..(k - 1) PROVE Told(each[l], Len(each[l])) = Says(some[l])
    <3>1. l \in 1..n
      BY <1>3
    <3>. QED BY <1>4, <3>1
  <2>2. ASSUME NEW v \in ToldBy(each, k - 1) PROVE v \in Told(some, k - 1)
    <3>1. PICK l \in 1..(k - 1) : v \in Told(each[l], Len(each[l]))
      BY DEF ToldBy
    <3>2. v \in Says(some[l])
      BY <2>1, <3>1
    <3>. QED BY <3>2 DEF Told
  <2>3. ASSUME NEW v \in Told(some, k - 1) PROVE v \in ToldBy(each, k - 1)
    <3>1. PICK l \in 1..(k - 1) : v \in Says(some[l])
      BY DEF Told
    <3>2. v \in Told(each[l], Len(each[l]))
      BY <2>1, <3>1
    <3>. QED BY <3>2 DEF ToldBy
  <2>. QED BY <2>2, <2>3
<1>6. Told(flat, Len(flat)) = Says(units)
  <2>1. Told(flat, Len(flat)) = {p[1] : p \in PartsOf(flat)}
    BY SaysIs
  <2>2. \A k \in 1..n : Says(some[k]) = {p[1] : p \in PartsOf(each[k])}
    BY <1>4, SaysIs
  <2>3. ASSUME NEW v \in Told(flat, Len(flat)) PROVE v \in Told(some, n)
    <3>1. PICK p \in PartsOf(flat) : v = p[1]
      BY <2>1
    <3>2. PICK k \in 1..n : p \in PartsOf(each[k])
      BY <1>1
    <3>3. v \in Says(some[k])
      BY <2>2, <3>1, <3>2
    <3>. QED BY <3>3 DEF Told
  <2>4. ASSUME NEW v \in Told(some, n) PROVE v \in Told(flat, Len(flat))
    <3>1. PICK k \in 1..n : v \in Says(some[k])
      BY DEF Told
    <3>2. PICK p \in PartsOf(each[k]) : v = p[1]
      BY <2>2, <3>1
    <3>3. p \in PartsOf(flat)
      BY <1>1
    <3>. QED BY <2>1, <3>2, <3>3
  <2>. QED BY <1>2, <2>3, <2>4
<1>7. Inked(PartsOf(flat), Parts(units))
  <2>1. Inked(PartsOf(flat), PartsOf(some))
    <3>. SUFFICES ASSUME NEW q \in PartsOf(some), NEW i \in q[2]..(q[3] - 1)
                  PROVE  \E p \in PartsOf(flat) : p[1] = q[1] /\ p[2] <= i /\ i < p[3]
      BY DEF Inked
    <3>1. PICK k \in 1..n : q \in Parts(some[k])
      BY <1>0 DEF PartsOf
    <3>2. PICK p \in PartsOf(each[k]) : p[1] = q[1] /\ p[2] <= i /\ i < p[3]
      BY <1>4, <3>1 DEF Inked
    <3>3. p \in PartsOf(flat)
      BY <1>1
    <3>. QED BY <3>2, <3>3
  <2>2. /\ \A q \in PartsOf(some) : q[2] \in Nat /\ q[3] \in Nat
        /\ \A r \in Parts(units) : r[2] \in Nat /\ r[3] \in Nat
    BY PartsAre
  <2>. QED BY <1>2, <2>1, <2>2, InkedTwice
<1>8. ASSUME NEW known, Introduced(B, known, units) PROVE InTurn(B, known, flat)
  <2>1. \A k \in 1..n : Introduced(B, known \cup Told(some, k - 1), some[k])
    BY <1>0, <1>2, <1>8 DEF InTurn
  <2>2. \A k \in 1..n : InTurn(B, known \cup ToldBy(each, k - 1), each[k])
    BY <1>4, <1>5, <2>1
  <2>. QED BY <1>1, <2>2
<1>9. ASSUME Tidy(B, units) PROVE TidyAll(B, flat)
  <2>1. \A k \in 1..n : /\ Tidy(B, some[k])
                        /\ \A v \in Says(some[k]), w \in Told(some, k - 1) : <<v, w>> \notin B
    BY <1>0, <1>2, <1>9 DEF TidyAll
  <2>2. \A k \in 1..n :
           /\ TidyAll(B, each[k])
           /\ \A v \in Told(each[k], Len(each[k])), w \in ToldBy(each, k - 1) : <<v, w>> \notin B
    BY <1>4, <1>5, <2>1
  <2>. QED BY <1>1, <2>2
<1>. QED BY <1>6, <1>7, <1>8, <1>9 DEF Retells

\* Where the parts of a cut end.
LEMMA CutPlaces ==
    ASSUME NEW units \in Blankless, NEW level
    PROVE  \E h : /\ LaidOut(h, Cut(units, level), units)
                  /\ \A k \in 1..Len(Cut(units, level)) :
                        /\ h[k - 1] < h[k]
                        /\ \A i \in (h[k - 1] + 1)..(h[k] - 1) :
                              i # Len(units) /\ units[i].ends \notin Boundaries[level]
                        /\ Cut(units, level)[k] = SubSeq(units, h[k - 1] + 1, h[k])
<1>. DEFINE places == {i \in 1..Len(units) : i = Len(units) \/ units[i].ends \in Boundaries[level]}
            ends == Ascending(places)
            n == Cardinality(places)
            h == [k \in 0..n |-> IF k = 0 THEN 0 ELSE ends[k]]
            part(k) == SubSeq(units, IF k = 1 THEN 1 ELSE ends[k - 1] + 1, ends[k])
            cut == Cut(units, level)
            w == [k \in 1..Len(cut) |-> Len(cut[k])]
<1>1. units \in Seq(Units) /\ Len(units) \in Nat /\ places \in SUBSET (1..Len(units))
  BY DEF Blankless
<1>2. /\ n \in Nat /\ ends \in [1..n -> places]
      /\ \A i \in places : \E k \in 1..n : ends[k] = i
      /\ \A i, j \in 1..n : i < j => ends[i] < ends[j]
  <2>. HIDE DEF places
  <2>. QED BY <1>1, ChosenIsInOrder
<1>3. cut = [k \in 1..Len(ends) |-> part(k)]
  BY DEF Cut
<1>4. \A i \in 1..Len(units) : i \in places <=> i = Len(units) \/ units[i].ends \in Boundaries[level]
  OBVIOUS
<1>. HIDE DEF places
<1>5. Len(ends) = n
  <2>. HIDE DEF ends, n
  <2>. QED BY <1>2
<1>. HIDE DEF ends, n
<1>6. /\ h[0] = 0 /\ \A k \in 1..n : h[k] = ends[k] /\ h[k] \in places /\ h[k] \in 1..Len(units)
      /\ \A k \in 0..n : h[k] \in 0..Len(units)
  <2>1. h[0] = 0 /\ \A k \in 1..n : k \in 0..n /\ k # 0
    BY <1>2
  <2>2. \A k \in 1..n : h[k] = ends[k] /\ h[k] \in places /\ h[k] \in 1..Len(units)
    BY <1>1, <1>2, <2>1
  <2>3. \A k \in 0..n : k = 0 \/ k \in 1..n
    BY <1>2
  <2>. HIDE DEF h
  <2>. QED BY <1>1, <2>1, <2>2, <2>3
<1>7. \A k \in 1..n : k - 1 \in 0..n /\ h[k - 1] \in Nat /\ h[k] \in Nat /\ h[k - 1] < h[k]
  <2>. TAKE k \in 1..n
  <2>1. k - 1 \in 0..n /\ h[k - 1] \in Nat /\ h[k] \in Nat
    BY <1>1, <1>2, <1>6
  <2>. HIDE DEF h
  <2>2. CASE k = 1
    <3>1. h[k - 1] = 0 /\ h[k] \in 1..Len(units)
      BY <1>6, <2>2
    <3>. QED BY <1>1, <2>1, <3>1
  <2>3. CASE k # 1
    <3>1. k - 1 \in 1..n /\ k - 1 < k
      BY <1>2, <2>3
    <3>. QED BY <1>2, <1>6, <2>1, <3>1
  <2>. QED BY <2>1, <2>2, <2>3
<1>8. \A k \in 1..n : part(k) = SubSeq(units, h[k - 1] + 1, h[k])
  <2>. TAKE k \in 1..n
  <2>1. h[k] = ends[k]
    BY <1>6
  <2>2. (IF k = 1 THEN 1 ELSE ends[k - 1] + 1) = h[k - 1] + 1
    <3>1. CASE k = 1
      BY <1>6, <3>1
    <3>2. CASE k # 1
      <4>1. k - 1 \in 1..n
        BY <1>2, <3>2
      <4>. QED BY <1>6, <3>2, <4>1
    <3>. QED BY <3>1, <3>2
  <2>. HIDE DEF h
  <2>. QED BY <2>1, <2>2
<1>. HIDE DEF part
<1>9. h \in [0..n -> Nat]
  BY <1>1, <1>6
<1>10. h[n] = Len(units)
  <2>1. CASE Len(units) = 0
    <3>1. h[n] \in 0..Len(units)
      BY <1>2, <1>6
    <3>. QED BY <2>1, <3>1
  <2>2. CASE Len(units) # 0
    <3>1. Len(units) \in places
      BY <1>1, <1>4, <2>2
    <3>2. PICK k \in 1..n : ends[k] = Len(units)
      BY <1>2, <3>1
    <3>3. CASE k = n
      BY <1>6, <3>2, <3>3
    <3>4. CASE k < n
      <4>1. n \in 1..n /\ ends[k] < ends[n] /\ ends[n] \in 1..Len(units)
        BY <1>2, <1>6, <3>4
      <4>. QED BY <1>1, <3>2, <4>1
    <3>. QED BY <1>2, <3>3, <3>4
  <2>. QED BY <2>1, <2>2
<1>11. ASSUME NEW k \in 1..n, NEW i \in (h[k - 1] + 1)..(h[k] - 1)
       PROVE  i # Len(units) /\ units[i].ends \notin Boundaries[level]
  <2>1. i \in 1..Len(units) /\ i < h[k] /\ h[k - 1] < i
    <3>0. h[k] \in 1..Len(units)
      BY <1>6
    <3>1. h[k - 1] \in Nat /\ h[k] \in Nat /\ h[k] <= Len(units)
      <4>. HIDE DEF h, n, cut, w
      <4>. QED BY <1>1, <1>7, <3>0
    <3>. HIDE DEF h, n, cut, w
    <3>. QED BY <1>1, <3>1
  <2>2. i \notin places
    <3>. SUFFICES ASSUME i \in places PROVE FALSE
      OBVIOUS
    <3>1. PICK l \in 1..n : ends[l] = i
      BY <1>2
    <3>2. h[l] = i
      BY <1>6, <3>1
    <3>3. CASE l >= k
      <4>1. l = k \/ k < l
        BY <1>2, <3>3
      <4>2. l # k
        BY <1>6, <2>1, <3>2
      <4>3. ends[k] < ends[l] /\ ends[k] = h[k]
        BY <1>2, <1>6, <4>1, <4>2
      <4>. QED BY <1>6, <2>1, <3>1, <4>3
    <3>4. CASE l < k
      <4>1. k - 1 \in 1..n /\ (l = k - 1 \/ l < k - 1)
        BY <1>2, <3>4
      <4>2. h[k - 1] = ends[k - 1]
        BY <1>6, <4>1
      <4>3. ends[l] <= ends[k - 1]
        <5>1. ends[l] \in Int /\ ends[k - 1] \in Int
          BY <1>6, <4>1
        <5>. QED BY <1>2, <4>1, <5>1
      <4>4. ends[k - 1] \in Nat /\ ends[l] = i /\ ends[k - 1] < i
        BY <1>7, <2>1, <3>1, <4>2
      <4>5. ends[l] <= ends[k - 1]
        BY <4>3
      <4>. HIDE DEF h
      <4>. QED BY <2>1, <4>4, <4>5
    <3>. QED BY <1>2, <3>3, <3>4
  <2>. QED BY <1>4, <2>1, <2>2
<1>. HIDE DEF h
<1>12. Len(cut) = n /\ \A k \in 1..n : cut[k] = SubSeq(units, h[k - 1] + 1, h[k])
  BY <1>2, <1>3, <1>5, <1>8
<1>. HIDE DEF cut
<1>13. ASSUME NEW k \in 1..n
       PROVE  /\ Len(cut[k]) \in Nat /\ h[k] = h[k - 1] + Len(cut[k])
              /\ \A m \in 1..Len(cut[k]) : units[h[k - 1] + m] = cut[k][m]
  <2>. DEFINE a == h[k - 1] + 1
              b == h[k]
              stretch == SubSeq(units, a, b)
  <2>1. a \in Nat \ {0} /\ b \in Int /\ b <= Len(units) /\ a <= b /\ h[k - 1] = a - 1 /\ h[k - 1] \in Nat
    BY <1>1, <1>6, <1>7
  <2>2. cut[k] = stretch
    BY <1>12
  <2>. HIDE DEF a, b
  <2>3. /\ Len(stretch) = IF a <= b THEN b - a + 1 ELSE 0
        /\ \A i \in 1..Len(stretch) : stretch[i] = units[a + i - 1]
    BY <1>1, <2>1, Stretch
  <2>. HIDE DEF stretch
  <2>4. Len(stretch) = b - a + 1 /\ Len(stretch) \in Nat
    BY <2>1, <2>3
  <2>5. h[k] = h[k - 1] + Len(stretch)
    BY <2>1, <2>4 DEF b
  <2>6. \A m \in 1..Len(stretch) : units[h[k - 1] + m] = stretch[m]
    <3>. TAKE m \in 1..Len(stretch)
    <3>1. a + m - 1 = h[k - 1] + m
      BY <2>1, <2>4
    <3>. QED BY <2>3, <3>1
  <2>. QED BY <2>2, <2>4, <2>5, <2>6
<1>14. LaidOut(h, cut, units)
  <2>1. w \in [1..n -> Nat] /\ \A k \in 1..n : h[k] = h[k - 1] + w[k]
    BY <1>12, <1>13
  <2>2. Adds(h, w, Len(cut))
    BY <1>2, <1>6, <1>9, <1>12, <2>1 DEF Adds
  <2>. QED BY <1>10, <1>12, <1>13, <2>2 DEF LaidOut
<1>. QED BY <1>7, <1>11, <1>12, <1>14 DEF cut

\* The separators inside a paragraph.
Spaced(units) == \A i \in 1..(Len(units) - 1) : units[i].ends \notin {"end", "blank"}

LEMMA CutTells ==
    ASSUME NEW units \in Blankless, Spaced(units), NEW level
    PROVE  LET cut == Cut(units, level)
           IN /\ cut \in Seq(Seq(Units))
              /\ PartsOf(cut) = Parts(units) /\ \A B : Retells(B, cut, units)
              /\ \A k \in 1..Len(cut) : Spaced(cut[k]) /\ (level = 3 => Len(cut[k]) = 1)
<1>. DEFINE cut == Cut(units, level)
            n == Len(cut)
<1>1. cut \in Seq(Blankless) /\ units \in Seq(Units)
  BY CutIs DEF Blankless
<1>2. cut \in Seq(Seq(Units)) /\ n \in Nat /\ \A k \in 1..n : cut[k] \in Seq(Units)
  BY <1>1 DEF Blankless
<1>3. PICK h : /\ LaidOut(h, cut, units)
               /\ \A k \in 1..n :
                     /\ h[k - 1] < h[k]
                     /\ \A i \in (h[k - 1] + 1)..(h[k] - 1) :
                           i # Len(units) /\ units[i].ends \notin Boundaries[level]
                     /\ cut[k] = SubSeq(units, h[k - 1] + 1, h[k])
  BY CutPlaces
<1>. HIDE DEF cut
<1>4. PartsOf(cut) = Parts(units) /\ \A B : Retells(B, cut, units)
  BY <1>1, <1>2, <1>3, StretchesRetell
<1>5. /\ \A k \in 1..n : h[k] = h[k - 1] + Len(cut[k]) /\ h[k - 1] \in Nat /\ h[k] \in Nat /\ h[k] <= Len(units)
      /\ \A k \in 1..n : \A m \in 1..Len(cut[k]) : units[h[k - 1] + m] = cut[k][m]
  <2>. DEFINE w == [k \in 1..n |-> Len(cut[k])]
  <2>1. /\ Adds(h, w, n) /\ Len(units) = h[n]
        /\ \A k \in 1..n : \A m \in 1..Len(cut[k]) : units[h[k - 1] + m] = cut[k][m]
    BY <1>3 DEF LaidOut
  <2>2. \A k \in 1..n : w[k] = Len(cut[k])
    OBVIOUS
  <2>. HIDE DEF w, n
  <2>3. \A k \in 1..n : k - 1 \in 0..n /\ k \in 0..n /\ n \in 0..n
    BY <1>2
  <2>4. \A k \in 1..n : h[k] = h[k - 1] + Len(cut[k]) /\ h[k - 1] \in Nat /\ h[k] \in Nat
    BY <2>1, <2>2, <2>3 DEF Adds
  <2>5. \A k \in 1..n : h[k] <= h[n]
    <3>. TAKE k \in 1..n
    <3>1. k \in 0..n /\ n \in 0..n /\ k <= n
      BY <1>2, <2>3
    <3>. QED BY <2>1, <3>1, SumsGrow
  <2>. QED BY <2>1, <2>4, <2>5
<1>6. ASSUME NEW k \in 1..n PROVE Spaced(cut[k])
  <2>. SUFFICES ASSUME NEW i \in 1..(Len(cut[k]) - 1) PROVE cut[k][i].ends \notin {"end", "blank"}
    BY DEF Spaced
  <2>0. /\ h[k] = h[k - 1] + Len(cut[k]) /\ h[k - 1] \in Nat /\ h[k] \in Nat /\ h[k] <= Len(units)
        /\ Len(cut[k]) \in Nat /\ Len(units) \in Nat
    BY <1>1, <1>2, <1>5
  <2>1. i \in 1..Len(cut[k]) /\ h[k - 1] + i \in 1..(Len(units) - 1)
    <3>1. Len(cut[k]) - 1 \in Nat /\ i \in 1..Len(cut[k])
      BY <2>0
    <3>. HIDE DEF n
    <3>2. Len(units) - 1 \in Nat /\ h[k - 1] + (Len(cut[k]) - 1) <= Len(units) - 1
      BY <2>0, <3>1, SMTT(30)
    <3>. QED BY <2>0, <3>1, <3>2, InThePart
  <2>2. cut[k][i] = units[h[k - 1] + i]
    BY <1>5, <2>1
  <2>. QED BY <2>1, <2>2 DEF Spaced
<1>7. ASSUME level = 3, NEW k \in 1..n PROVE Len(cut[k]) = 1
  <2>0. /\ h[k] = h[k - 1] + Len(cut[k]) /\ h[k - 1] \in Nat /\ h[k] \in Nat /\ h[k] <= Len(units)
        /\ Len(cut[k]) \in Nat /\ Len(units) \in Nat /\ h[k - 1] < h[k]
    BY <1>1, <1>2, <1>3, <1>5
  <2>1. CASE Len(cut[k]) > 1
    <3>. DEFINE i == h[k - 1] + 1
    <3>1. i \in (h[k - 1] + 1)..(h[k] - 1) /\ i \in 1..(Len(units) - 1) /\ i \in 1..Len(units)
      BY <2>0, <2>1
    <3>2. units[i].ends \notin Boundaries[level]
      BY <1>3, <3>1
    <3>. HIDE DEF i
    <3>3. units[i].ends \notin {"end", "blank"}
      BY <3>1 DEF Spaced
    <3>4. units[i].ends \in DOMAIN Separator
      BY <1>1, <3>1 DEF Units
    <3>5. DOMAIN Separator = {"end", "word", "sentence", "line", "blank"}
      BY DEF Separator
    <3>6. Boundaries[3] = {"word", "sentence", "line"}
      BY DEF Boundaries
    <3>. QED BY <1>7, <3>2, <3>3, <3>4, <3>5, <3>6
  <2>2. Len(cut[k]) # 0
    BY <2>0
  <2>3. \A x \in Nat : x > 1 \/ x = 1 \/ x = 0
    OBVIOUS
  <2>4. Len(cut[k]) \in Nat
    BY <2>0
  <2>. QED BY <2>1, <2>2, <2>3, <2>4, Zenon
<1>. QED BY <1>2, <1>4, <1>6, <1>7 DEF cut

\* A text in one piece.
LEMMA OneRetells ==
    ASSUME NEW units \in Seq(Units)
    PROVE  /\ <<units>> \in Seq(Seq(Units)) /\ PartsOf(<<units>>) = Parts(units)
           /\ \A B : Retells(B, <<units>>, units)
<1>. DEFINE one == <<units>>
            h == [k \in 0..1 |-> IF k = 0 THEN 0 ELSE Len(units)]
            w == [k \in 1..Len(one) |-> Len(one[k])]
<1>1. one \in Seq(Seq(Units)) /\ Len(one) = 1 /\ one[1] = units /\ Len(units) \in Nat
  OBVIOUS
<1>. HIDE DEF one
<1>2. /\ h[0] = 0 /\ h[1] = Len(units) /\ h \in [0..1 -> Nat]
      /\ w \in [1..1 -> Nat] /\ w[1] = Len(units)
  BY <1>1
<1>3. Adds(h, w, 1)
  <2>1. \A k \in 1..1 : k = 1 /\ k - 1 = 0
    OBVIOUS
  <2>2. \A k \in 1..1 : h[k] = h[k - 1] + w[k]
    <3>. HIDE DEF h, w
    <3>. QED BY <1>1, <1>2, <2>1
  <2>. HIDE DEF h, w
  <2>. QED BY <1>2, <2>2 DEF Adds
<1>4. \A k \in 1..Len(one) : \A m \in 1..Len(one[k]) : units[h[k - 1] + m] = one[k][m]
  <2>1. \A k \in 1..1 : k = 1 /\ k - 1 = 0
    OBVIOUS
  <2>2. \A m \in 1..Len(units) : 0 + m = m
    BY <1>1
  <2>. HIDE DEF h, w
  <2>. QED BY <1>1, <1>2, <2>1, <2>2
<1>5. LaidOut(h, one, units)
  <2>1. Adds(h, w, Len(one)) /\ Len(units) = h[Len(one)]
    <3>. HIDE DEF h, w
    <3>. QED BY <1>1, <1>2, <1>3
  <2>. QED BY <1>4, <2>1 DEF LaidOut
<1>. HIDE DEF h, w
<1>6. PartsOf(one) = Parts(units) /\ \A B : Retells(B, one, units)
  BY <1>1, <1>5, StretchesRetell
<1>. QED BY <1>1, <1>6 DEF one

LEMMA RefineTells ==
    ASSUME NEW parts \in Seq(Blankless), \A k \in 1..Len(parts) : Spaced(parts[k]), NEW level,
           NEW units \in Seq(Units), PartsOf(parts) = Parts(units), NEW B, Retells(B, parts, units)
    PROVE  LET refined == Refine(parts, level)
           IN /\ refined \in Seq(Blankless) /\ \A k \in 1..Len(refined) : Spaced(refined[k])
              /\ PartsOf(refined) = Parts(units) /\ Retells(B, refined, units)
              /\ level = 3 => \A k \in 1..Len(refined) :
                                 Length(refined[k]) <= ChunkSize \/ Len(refined[k]) = 1
<1>. DEFINE n == Len(parts)
            Cuts(k) == IF Length(parts[k]) <= ChunkSize THEN <<parts[k]>> ELSE Cut(parts[k], level)
            each == [k \in 1..n |-> Cuts(k)]
            refined == FlattenSeq(each)
<1>1. n \in Nat /\ \A k \in 1..n : parts[k] \in Blankless /\ parts[k] \in Seq(Units)
  BY DEF Blankless
<1>2. parts \in Seq(Seq(Units))
  BY <1>1
<1>3. ASSUME NEW k \in 1..n
      PROVE  /\ each[k] \in Seq(Seq(Units)) /\ PartsOf(each[k]) = Parts(parts[k]) /\ Retells(B, each[k], parts[k])
             /\ \A m \in 1..Len(each[k]) :
                   /\ Spaced(each[k][m])
                   /\ level = 3 => Length(each[k][m]) <= ChunkSize \/ Len(each[k][m]) = 1
  <2>1. CASE Length(parts[k]) <= ChunkSize
    <3>1. each[k] = <<parts[k]>>
      BY <2>1
    <3>2. Len(<<parts[k]>>) = 1 /\ <<parts[k]>>[1] = parts[k] /\ \A m \in 1..1 : m = 1
      OBVIOUS
    <3>3. \A m \in 1..Len(<<parts[k]>>) : <<parts[k]>>[m] = parts[k]
      BY <3>2
    <3>. HIDE DEF each
    <3>. QED BY <1>1, <2>1, <3>1, <3>3, OneRetells
  <2>2. CASE ~(Length(parts[k]) <= ChunkSize)
    <3>1. each[k] = Cut(parts[k], level)
      BY <2>2
    <3>. HIDE DEF each
    <3>. QED BY <1>1, <3>1, CutTells
  <2>. QED BY <2>1, <2>2
<1>4. Refine(parts, level) = refined
  BY DEF Refine
<1>5. each \in Seq(Seq(Seq(Units))) /\ Len(each) = n
  <2>1. \A k \in 1..n : Cuts(k) \in Seq(Seq(Units))
    BY <1>3
  <2>. HIDE DEF Cuts
  <2>. QED BY <1>1, <2>1
<1>. HIDE DEF each, n
<1>6. PICK h : LaidOut(h, each, refined)
  BY <1>5, FlattenedPlaces
<1>7. refined \in Seq(Seq(Units))
  BY <1>5, FlattenedPlaces
<1>0. n = Len(parts)
  BY DEF n
<1>. HIDE DEF refined
<1>8. Retells(B, refined, units)
  BY <1>0, <1>2, <1>3, <1>5, <1>6, <1>7, RetellsEach
<1>9. PartsOf(refined) = Parts(units)
  <2>1. PartsOf(refined) = UNION {PartsOf(each[k]) : k \in 1..n}
    BY <1>5, <1>6, <1>7, FlatTells
  <2>2. ASSUME NEW p \in PartsOf(refined) PROVE p \in PartsOf(parts)
    <3>1. PICK k \in 1..n : p \in PartsOf(each[k])
      BY <2>1
    <3>2. p \in Parts(parts[k])
      BY <1>3, <3>1
    <3>. QED BY <1>0, <3>2 DEF PartsOf
  <2>3. ASSUME NEW p \in PartsOf(parts) PROVE p \in PartsOf(refined)
    <3>1. PICK k \in 1..n : p \in Parts(parts[k])
      BY <1>0 DEF PartsOf
    <3>2. p \in PartsOf(each[k])
      BY <1>3, <3>1
    <3>. QED BY <2>1, <3>2
  <2>. QED BY <2>2, <2>3
<1>10. ASSUME NEW c \in 1..Len(refined)
       PROVE  /\ Spaced(refined[c])
              /\ level = 3 => Length(refined[c]) <= ChunkSize \/ Len(refined[c]) = 1
  <2>1. KnownPlaces(h, each, refined)
    BY <1>5, <1>6, <1>7, FlatPlaces
  <2>2. PICK k \in 1..n : \E m \in 1..Len(each[k]) : c = h[k - 1] + m
    BY <1>5, <2>1 DEF KnownPlaces
  <2>3. PICK m \in 1..Len(each[k]) : c = h[k - 1] + m
    BY <2>2
  <2>4. refined[c] = each[k][m]
    BY <1>5, <2>1, <2>3 DEF KnownPlaces
  <2>. QED BY <1>3, <2>4
<1>11. Refine(parts, level) \in Seq(Blankless)
  BY RefineIs
<1>. QED BY <1>4, <1>8, <1>9, <1>10, <1>11

UnitsOf(pieces) == [k \in 1..Len(pieces) |-> pieces[k].units]

\* The windows of a long word have all its characters.
LEMMA SplitTells ==
    ASSUME NEW units \in Blankless, Len(units) = 1, units[1].from = 0, NEW B
    PROVE  LET pieces == SplitByCharacters(units)
           IN /\ UnitsOf(pieces) \in Seq(Seq(Units)) /\ Retells(B, UnitsOf(pieces), units)
              /\ \A k \in 1..Len(pieces) : pieces[k].finished /\ Len(pieces[k].units) = 1
<1>. DEFINE stride == ChunkSize - ChunkOverlap
            long == units[1]
            last == LastWindow(long)
            window(n) == [long EXCEPT !.from = n * stride,
                                      !.to = Min({n * stride + ChunkSize, long.to}),
                                      !.ends = "end"]
            pieces == SplitByCharacters(units)
            us == UnitsOf(pieces)
<1>1. units \in Seq(Units) /\ long \in Units /\ long.to \in Nat /\ long.from = 0
  BY DEF Blankless, Units
<1>2. stride \in Nat \ {0} /\ ChunkSize \in Nat /\ stride <= ChunkSize
  BY ChunkSettings
<1>3. /\ last \in 0..long.to /\ last * stride + ChunkSize >= long.to
      /\ \A m \in 0..(last - 1) : m * stride + ChunkSize < long.to
  BY <1>1, LastWindowIs
<1>4. pieces = [k \in 1..(last + 1) |-> [units |-> <<window(k - 1)>>, finished |-> TRUE]]
  BY DEF SplitByCharacters, LastWindow
<1>5. pieces \in Seq(Portions)
  <2>1. units # <<>>
    OBVIOUS
  <2>. QED BY <2>1, SplitByCharactersIs
<1>6. last + 1 \in Nat \ {0} /\ last \in Nat /\ \A k \in 1..(last + 1) : k - 1 \in 0..last
  <2>. HIDE DEF long, last
  <2>. QED BY <1>1, <1>3
<1>. HIDE DEF last, pieces
<1>7. \A n \in Nat : window(n).word = long.word /\ window(n).from = n * stride
                     /\ window(n).to = Min({n * stride + ChunkSize, long.to})
  <2>. HIDE DEF stride, long
  <2>. QED BY <1>1 DEF Units
<1>. HIDE DEF window
<1>8. /\ Len(pieces) = last + 1
      /\ \A k \in 1..Len(pieces) : /\ pieces[k].finished /\ Len(pieces[k].units) = 1
                                   /\ pieces[k].units[1] = window(k - 1)
                                   /\ pieces[k].units \in Seq(Units)
  <2>1. Len(pieces) = last + 1 /\ \A k \in 1..(last + 1) : pieces[k] = [units |-> <<window(k - 1)>>, finished |-> TRUE]
    BY <1>4, <1>6
  <2>2. \A k \in 1..Len(pieces) : pieces[k] \in Portions
    BY <1>5
  <2>. QED BY <2>1, <2>2 DEF Portions, Fitting
<1>9. /\ us \in Seq(Seq(Units)) /\ Len(us) = last + 1
      /\ \A k \in 1..(last + 1) : Len(us[k]) = 1 /\ us[k][1] = window(k - 1)
  BY <1>6, <1>8 DEF UnitsOf
<1>. HIDE DEF us
<1>10. \A k \in 1..(last + 1) :
          /\ \A i \in 1..Len(us[k]) : i = 1 /\ us[k][i].word = long.word
          /\ 1 \in 1..Len(us[k])
  <2>. TAKE k \in 1..(last + 1)
  <2>1. k - 1 \in Nat
    BY <1>6
  <2>. HIDE DEF long
  <2>2. Len(us[k]) = 1 /\ us[k][1].word = long.word
    BY <1>7, <1>9, <2>1
  <2>3. \A i \in 1..1 : i = 1
    OBVIOUS
  <2>. QED BY <2>2, <2>3
<1>11. \A i \in 1..Len(units) : i = 1
  OBVIOUS
<1>12. Says(units) = {long.word} /\ \A k \in 1..(last + 1) : Says(us[k]) = {long.word}
  <2>1. 1 \in 1..Len(units)
    OBVIOUS
  <2>2. Says(units) = {long.word}
    BY <1>11, <2>1 DEF Says
  <2>. HIDE DEF long
  <2>3. ASSUME NEW k \in 1..(last + 1) PROVE Says(us[k]) = {long.word}
    BY <1>10 DEF Says
  <2>. QED BY <2>2, <2>3
<1>13. Told(us, Len(us)) = Says(units)
  <2>1. 1 \in 1..(last + 1)
    BY <1>6
  <2>. HIDE DEF long
  <2>. QED BY <1>9, <1>12, <2>1 DEF Told
<1>14. Inked(PartsOf(us), Parts(units))
  <2>. SUFFICES ASSUME NEW q \in Parts(units), NEW c \in q[2]..(q[3] - 1)
                PROVE  \E p \in PartsOf(us) : p[1] = q[1] /\ p[2] <= c /\ c < p[3]
    BY DEF Inked
  <2>1. q = <<long.word, 0, long.to>>
    BY <1>1, <1>11 DEF Parts
  <2>. DEFINE T == {m \in Nat : c < m * stride + ChunkSize}
  <2>. HIDE DEF long, stride
  <2>2. c \in Nat /\ c < long.to
    BY <1>1, <2>1
  <2>3. last \in T
    <3>1. last * stride \in Nat
      BY <1>2, <1>6
    <3>. QED BY <1>1, <1>2, <1>3, <1>6, <2>2, <3>1
  <2>4. PICK m \in T : \A x \in T : m <= x
    <3>1. T \in SUBSET Nat /\ T # {}
      BY <2>3
    <3>. HIDE DEF T
    <3>. QED BY <3>1, LeastElement
  <2>5. m \in Nat /\ c < m * stride + ChunkSize /\ m <= last
    BY <2>3, <2>4
  <2>6. m * stride <= c
    <3>1. CASE m = 0
      BY <1>2, <2>2, <3>1
    <3>2. CASE m # 0
      <4>1. m - 1 \in Nat /\ ~(m <= m - 1)
        BY <2>5, <3>2
      <4>2. m - 1 \notin T
        BY <2>4, <4>1
      <4>3. (m - 1) * stride \in Nat /\ m * stride = (m - 1) * stride + stride
        BY <1>2, <2>5, <4>1
      <4>4. ~(c < (m - 1) * stride + ChunkSize)
        BY <4>1, <4>2
      <4>. QED BY <1>2, <2>2, <4>3, <4>4
    <3>. QED BY <3>1, <3>2
  <2>. HIDE DEF T
  <2>7. m * stride \in Nat
    BY <1>2, <2>5
  <2>8. c < Min({m * stride + ChunkSize, long.to})
    <3>1. m * stride + ChunkSize \in Int /\ long.to \in Int
      BY <1>1, <1>2, <2>7
    <3>2. Min({m * stride + ChunkSize, long.to})
             = IF m * stride + ChunkSize <= long.to THEN m * stride + ChunkSize ELSE long.to
      BY <3>1, LesserOf
    <3>. QED BY <2>2, <2>5, <3>2
  <2>. DEFINE k == m + 1
  <2>9. k \in 1..(last + 1) /\ k - 1 = m
    BY <1>6, <2>5
  <2>10. us[k][1] = window(m) /\ 1 \in 1..Len(us[k]) /\ k \in 1..Len(us)
    BY <1>9, <1>10, <2>9
  <2>. HIDE DEF k
  <2>. DEFINE p == <<window(m).word, window(m).from, window(m).to>>
  <2>11. p \in Parts(us[k])
    BY <2>10 DEF Parts
  <2>12. p \in PartsOf(us)
    <3>. HIDE DEF p
    <3>. QED BY <2>10, <2>11 DEF PartsOf
  <2>13. p[1] = q[1] /\ p[2] <= c /\ c < p[3]
    BY <1>7, <2>1, <2>5, <2>6, <2>8
  <2>. HIDE DEF p
  <2>. QED BY <2>12, <2>13
<1>15. ASSUME NEW known, Introduced(B, known, units) PROVE InTurn(B, known, us)
  <2>1. \A v : <<v, long.word>> \in B => v \in known
    <3>. SUFFICES ASSUME NEW v, <<v, long.word>> \in B PROVE v \in known
      OBVIOUS
    <3>1. 1 \in 1..Len(units) /\ 1..(1 - 1) = {}
      OBVIOUS
    <3>2. v \in known \/ \E a \in 1..(1 - 1) : units[a].word = v
      BY <1>15, <3>1 DEF Introduced
    <3>. QED BY <3>1, <3>2
  <2>. HIDE DEF long
  <2>2. ASSUME NEW k \in 1..(last + 1) PROVE Introduced(B, known \cup Told(us, k - 1), us[k])
    BY <1>10, <2>1 DEF Introduced
  <2>. QED BY <1>9, <2>2 DEF InTurn
<1>16. ASSUME Tidy(B, units) PROVE TidyAll(B, us)
  <2>1. <<long.word, long.word>> \notin B
    <3>1. 1 \in 1..Len(units) /\ ~(1 < 1)
      OBVIOUS
    <3>. QED BY <1>16, <3>1 DEF Tidy
  <2>. HIDE DEF long
  <2>2. ASSUME NEW k \in 1..(last + 1)
        PROVE  /\ Tidy(B, us[k])
               /\ \A v \in Says(us[k]), w \in Told(us, k - 1) : <<v, w>> \notin B
    <3>1. \A i, j \in 1..Len(us[k]) : <<us[k][i].word, us[k][j].word>> \notin B
      BY <1>10, <2>1
    <3>2. Tidy(B, us[k])
      BY <3>1 DEF Tidy
    <3>3. \A l \in 1..(k - 1) : l \in 1..(last + 1)
      BY <1>6
    <3>4. \A w \in Told(us, k - 1) : w = long.word
      BY <1>12, <3>3 DEF Told
    <3>5. \A v \in Says(us[k]) : v = long.word
      BY <1>12
    <3>. QED BY <2>1, <3>2, <3>4, <3>5
  <2>. QED BY <1>9, <2>2 DEF TidyAll
<1>17. Retells(B, us, units)
  BY <1>13, <1>14, <1>15, <1>16 DEF Retells
<1>. QED BY <1>8, <1>9, <1>17 DEF pieces, us

\* Pieces: what is not a window of a long word is a stretch of the paragraph.
PiecesTold(B, pieces, paragraph) ==
    /\ UnitsOf(pieces) \in Seq(Seq(Units)) /\ Retells(B, UnitsOf(pieces), paragraph)
    /\ \A k \in 1..Len(pieces) : IF pieces[k].finished
                                      THEN Len(pieces[k].units) = 1
                                      ELSE Parts(pieces[k].units) \subseteq Parts(paragraph)

LEMMA PartsToPieces ==
    ASSUME NEW parts \in Seq(Blankless), NEW paragraph \in Seq(Units), NEW B,
           PartsOf(parts) = Parts(paragraph), Retells(B, parts, paragraph),
           \A p \in Parts(paragraph) : p[2] = 0,
           \A k \in 1..Len(parts) : Length(parts[k]) <= ChunkSize \/ Len(parts[k]) = 1
    PROVE  LET each == [k \in 1..Len(parts) |->
                           IF Length(parts[k]) <= ChunkSize
                              THEN <<[units |-> parts[k], finished |-> FALSE]>>
                              ELSE SplitByCharacters(parts[k])]
           IN PiecesTold(B, FlattenSeq(each), paragraph)
<1>. DEFINE n == Len(parts)
            Some(k) == IF Length(parts[k]) <= ChunkSize
                          THEN <<[units |-> parts[k], finished |-> FALSE]>>
                          ELSE SplitByCharacters(parts[k])
            each == [k \in 1..n |-> Some(k)]
            lists == [k \in 1..n |-> UnitsOf(each[k])]
            flat == FlattenSeq(each)
            us == UnitsOf(flat)
<1>1. n \in Nat /\ \A k \in 1..n : parts[k] \in Blankless /\ parts[k] \in Seq(Units) /\ Parts(parts[k]) \subseteq Parts(paragraph)
  BY DEF Blankless, PartsOf
<1>2. parts \in Seq(Seq(Units))
  BY <1>1
<1>3. ASSUME NEW k \in 1..n
      PROVE  /\ Some(k) \in Seq(Portions) /\ UnitsOf(Some(k)) \in Seq(Seq(Units))
             /\ Retells(B, UnitsOf(Some(k)), parts[k])
             /\ \A m \in 1..Len(Some(k)) : IF Some(k)[m].finished
                                               THEN Len(Some(k)[m].units) = 1
                                               ELSE Parts(Some(k)[m].units) \subseteq Parts(paragraph)
  <2>1. CASE Length(parts[k]) <= ChunkSize
    <3>. DEFINE piece == [units |-> parts[k], finished |-> FALSE]
                one == <<piece>>
    <3>1. Some(k) = one
      BY <2>1
    <3>2. piece \in Portions /\ piece.units = parts[k] /\ ~piece.finished
      BY <1>1, <2>1 DEF Portions, Fitting, Blankless
    <3>. HIDE DEF piece
    <3>3. one \in Seq(Portions) /\ Len(one) = 1 /\ one[1] = piece
      BY <3>2
    <3>. HIDE DEF one
    <3>4. UnitsOf(one) = <<parts[k]>>
      <4>1. \A i \in 1..1 : i = 1
        OBVIOUS
      <4>2. UnitsOf(one) = [i \in 1..1 |-> parts[k]]
        BY <3>2, <3>3, <4>1 DEF UnitsOf
      <4>. QED BY <4>1, <4>2
    <3>5. \A m \in 1..Len(one) : ~one[m].finished /\ Parts(one[m].units) \subseteq Parts(paragraph)
      <4>1. \A m \in 1..Len(one) : one[m] = piece
        BY <3>3
      <4>. QED BY <1>1, <3>2, <4>1
    <3>. HIDE DEF Some
    <3>. QED BY <1>1, <3>1, <3>3, <3>4, <3>5, OneRetells
  <2>2. CASE ~(Length(parts[k]) <= ChunkSize)
    <3>1. Some(k) = SplitByCharacters(parts[k])
      BY <2>2
    <3>. HIDE DEF Some
    <3>2. Len(parts[k]) = 1 /\ parts[k] # <<>>
      <4>1. Len(parts[k]) = 1
        BY <2>2
      <4>2. parts[k] = <<>> => Len(parts[k]) = 0
        OBVIOUS
      <4>. QED BY <4>1, <4>2
    <3>3. parts[k][1].from = 0
      <4>1. 1 \in 1..Len(parts[k])
        BY <3>2
      <4>2. <<parts[k][1].word, parts[k][1].from, parts[k][1].to>> \in Parts(parts[k])
        BY <4>1 DEF Parts
      <4>. QED BY <1>1, <4>2
    <3>. QED BY <1>1, <3>1, <3>2, <3>3, SplitTells, SplitByCharactersIs
  <2>. QED BY <2>1, <2>2
<1>. HIDE DEF Some
<1>4. each \in Seq(Seq(Portions)) /\ Len(each) = n /\ \A k \in 1..n : each[k] = Some(k)
  BY <1>1, <1>3
<1>. HIDE DEF each
<1>5. lists \in Seq(Seq(Seq(Units))) /\ Len(lists) = n /\ \A k \in 1..n : lists[k] = UnitsOf(Some(k))
  <2>1. \A k \in 1..n : UnitsOf(each[k]) \in Seq(Seq(Units)) /\ UnitsOf(each[k]) = UnitsOf(Some(k))
    BY <1>3, <1>4
  <2>. QED BY <1>1, <2>1
<1>. HIDE DEF lists
<1>6. flat \in Seq(Portions)
  BY <1>4, FlattenedPlaces
<1>7. PICK h : LaidOut(h, each, flat)
  BY <1>4, FlattenedPlaces
<1>0. n = Len(parts)
  OBVIOUS
<1>. HIDE DEF flat, n
<1>8. us \in Seq(Seq(Units)) /\ Len(us) = Len(flat) /\ \A c \in 1..Len(flat) : us[c] = flat[c].units
  <2>1. \A c \in 1..Len(flat) : flat[c].units \in Seq(Units)
    BY <1>6 DEF Portions, Fitting
  <2>. QED BY <1>6, <2>1 DEF UnitsOf
<1>. HIDE DEF us
<1>9. /\ \A k \in 1..n : Len(lists[k]) = Len(each[k]) /\ \A m \in 1..Len(each[k]) : lists[k][m] = each[k][m].units
      /\ \A k \in 1..n : Len(each[k]) \in Nat
  <2>. SUFFICES ASSUME NEW k \in 1..n
                PROVE  /\ Len(lists[k]) = Len(each[k]) /\ Len(each[k]) \in Nat
                       /\ \A m \in 1..Len(each[k]) : lists[k][m] = each[k][m].units
    OBVIOUS
  <2>1. lists[k] = UnitsOf(each[k]) /\ each[k] \in Seq(Portions)
    BY <1>3, <1>4, <1>5
  <2>. QED BY <2>1 DEF UnitsOf
<1>10. /\ Adds(h, [k \in 1..n |-> Len(each[k])], n) /\ Len(flat) = h[n]
       /\ \A k \in 1..n : \A m \in 1..Len(each[k]) : flat[h[k - 1] + m] = each[k][m]
  BY <1>4, <1>7 DEF LaidOut
<1>11. \A k \in 1..n : \A m \in 1..Len(each[k]) : h[k - 1] + m \in 1..Len(flat)
  <2>. DEFINE w == [k \in 1..n |-> Len(each[k])]
  <2>1. \A k \in 1..n : w[k] = Len(each[k]) /\ w[k] \in Nat
    BY <1>9
  <2>2. Adds(h, w, n)
    BY <1>10
  <2>. HIDE DEF w
  <2>. TAKE k \in 1..n
  <2>. TAKE m \in 1..Len(each[k])
  <2>3. k - 1 \in 0..n /\ k \in 0..n /\ n \in 0..n /\ k <= n
    BY <1>1
  <2>4. h[k] = h[k - 1] + w[k] /\ h[k - 1] \in Nat /\ h[n] \in Nat /\ h[k] \in Nat
    BY <2>2, <2>3 DEF Adds
  <2>5. h[k] <= h[n]
    BY <2>2, <2>3, SumsGrow
  <2>6. m \in Nat \ {0} /\ m <= w[k]
    BY <2>1
  <2>7. h[k - 1] + m \in 1..h[n]
    <3>. DEFINE before == h[k - 1]
                after == h[k]
                all == h[n]
                width == w[k]
    <3>1. /\ before \in Nat /\ after \in Nat /\ all \in Nat /\ width \in Nat
          /\ after = before + width /\ after <= all /\ m \in Nat \ {0} /\ m <= width
      BY <2>1, <2>4, <2>5, <2>6
    <3>. HIDE DEF before, after, all, width
    <3>2. before + m \in 1..all
      BY <3>1
    <3>. QED BY <3>2 DEF before, all
  <2>. QED BY <1>10, <2>7
<1>12. LaidOut(h, lists, us)
  <2>1. [k \in 1..n |-> Len(each[k])] = [k \in 1..n |-> Len(lists[k])]
    BY <1>9
  <2>2. \A k \in 1..n : \A m \in 1..Len(lists[k]) : us[h[k - 1] + m] = lists[k][m]
    <3>. TAKE k \in 1..n
    <3>1. Len(lists[k]) = Len(each[k])
      BY <1>9
    <3>. TAKE m \in 1..Len(lists[k])
    <3>2. m \in 1..Len(each[k]) /\ lists[k][m] = each[k][m].units
      BY <1>9, <3>1
    <3>. DEFINE c == h[k - 1] + m
    <3>3. c \in 1..Len(flat) /\ flat[c] = each[k][m]
      BY <1>10, <1>11, <3>2
    <3>. HIDE DEF c
    <3>4. us[c] = lists[k][m]
      BY <1>8, <3>2, <3>3
    <3>. QED BY <3>4 DEF c
  <2>. QED BY <1>5, <1>8, <1>10, <2>1, <2>2 DEF LaidOut
<1>13. Retells(B, us, paragraph)
  <2>1. \A k \in 1..n : Retells(B, lists[k], parts[k])
    BY <1>3, <1>5
  <2>. QED BY <1>0, <1>2, <1>5, <1>8, <1>12, <2>1, RetellsEach
<1>14. ASSUME NEW c \in 1..Len(flat)
       PROVE  IF flat[c].finished THEN Len(flat[c].units) = 1 ELSE Parts(flat[c].units) \subseteq Parts(paragraph)
  <2>1. PICK k \in 1..n : \E m \in 1..Len(each[k]) : c = h[k - 1] + m
    <3>. DEFINE w == [k \in 1..n |-> Len(each[k])]
    <3>1. \A k \in 1..n : w[k] = Len(each[k])
      OBVIOUS
    <3>2. Adds(h, w, n) /\ c \in 1..h[n]
      BY <1>10
    <3>. HIDE DEF w
    <3>3. \E k \in 1..n : \E m \in 1..w[k] : c = h[k - 1] + m
      BY <3>2, PlaceInPart
    <3>. QED BY <3>1, <3>3
  <2>2. PICK m \in 1..Len(each[k]) : c = h[k - 1] + m
    BY <2>1
  <2>3. flat[c] = Some(k)[m] /\ m \in 1..Len(Some(k))
    BY <1>4, <1>10, <2>2
  <2>. QED BY <1>3, <2>3
<1>15. PiecesTold(B, flat, paragraph)
  <2>1. UnitsOf(flat) = us
    BY DEF us
  <2>. QED BY <1>8, <1>13, <1>14, <2>1 DEF PiecesTold
<1>. QED BY <1>15 DEF flat, each, Some, n

LEMMA PiecesTell ==
    ASSUME NEW paragraph \in Blankless, Spaced(paragraph), \A p \in Parts(paragraph) : p[2] = 0, NEW B
    PROVE  Pieces(paragraph) \in Seq(Portions) /\ PiecesTold(B, Pieces(paragraph), paragraph)
<1>. DEFINE levels == <<1, 2, 3>>
            first == <<paragraph>>
            parts == FoldLeft(Refine, first, levels)
            Told1(some) == /\ \A k \in 1..Len(some) : Spaced(some[k])
                           /\ PartsOf(some) = Parts(paragraph) /\ Retells(B, some, paragraph)
<1>0. paragraph \in Seq(Units)
  BY DEF Blankless
<1>1. /\ levels \in Seq({1, 2, 3}) /\ Len(levels) = 3 /\ levels[1] = 1 /\ levels[2] = 2 /\ levels[3] = 3
      /\ first \in Seq(Blankless) /\ Len(first) = 1 /\ first[1] = paragraph
  OBVIOUS
<1>2. Told1(first)
  <2>1. \A k \in 1..Len(first) : Spaced(first[k])
    <3>1. \A k \in 1..1 : k = 1
      OBVIOUS
    <3>. HIDE DEF first
    <3>. QED BY <1>1, <3>1
  <2>. QED BY <1>0, <2>1, OneRetells
<1>3. Pieces(paragraph) = FlattenSeq([k \in 1..Len(parts) |->
                             IF Length(parts[k]) <= ChunkSize
                                THEN <<[units |-> parts[k], finished |-> FALSE]>>
                                ELSE SplitByCharacters(parts[k])])
  BY DEF Pieces
<1>. HIDE DEF levels, first
<1>4. PICK h : /\ h \in [0..3 -> Seq(Blankless)]
               /\ h[0] = first
               /\ \A k \in 1..3 : h[k] = Refine(h[k - 1], levels[k])
               /\ h[3] = parts
  <2>1. PICK h : /\ h \in [0..Len(levels) -> Seq(Blankless)]
                 /\ h[0] = first
                 /\ \A k \in 1..Len(levels) : h[k] = Refine(h[k - 1], levels[k])
                 /\ h[Len(levels)] = FoldLeft(Refine, first, levels)
    BY <1>1, RefineSteps
  <2>. QED BY <1>1, <2>1
<1>5. h[1] = Refine(h[0], 1) /\ h[2] = Refine(h[1], 2) /\ h[3] = Refine(h[2], 3)
  <2>1. 1 - 1 = 0 /\ 2 - 1 = 1 /\ 3 - 1 = 2 /\ 1 \in 1..3 /\ 2 \in 1..3 /\ 3 \in 1..3
    OBVIOUS
  <2>2. h[1] = Refine(h[1 - 1], levels[1]) /\ h[2] = Refine(h[2 - 1], levels[2])
        /\ h[3] = Refine(h[3 - 1], levels[3])
    BY <1>4, <2>1
  <2>. QED BY <1>1, <2>1, <2>2
<1>. HIDE DEF parts
<1>6. Told1(h[0]) /\ h[0] \in Seq(Blankless) /\ h[1] \in Seq(Blankless) /\ h[2] \in Seq(Blankless)
  BY <1>2, <1>4
<1>7. Told1(h[1])
  <2>1. h[1] = Refine(h[0], 1) /\ h[0] \in Seq(Blankless)
    BY <1>5, <1>6
  <2>2. /\ \A k \in 1..Len(h[0]) : Spaced(h[0][k])
        /\ PartsOf(h[0]) = Parts(paragraph) /\ Retells(B, h[0], paragraph)
    BY <1>6
  <2>3. LET refined == Refine(h[0], 1)
        IN /\ \A k \in 1..Len(refined) : Spaced(refined[k])
           /\ PartsOf(refined) = Parts(paragraph) /\ Retells(B, refined, paragraph)
    <3>. HIDE DEF Told1
    <3>. QED BY <1>0, <2>1, <2>2, RefineTells
  <2>. QED BY <2>1, <2>3
<1>8. Told1(h[2])
  <2>1. h[2] = Refine(h[1], 2) /\ h[1] \in Seq(Blankless)
    BY <1>5, <1>6
  <2>2. /\ \A k \in 1..Len(h[1]) : Spaced(h[1][k])
        /\ PartsOf(h[1]) = Parts(paragraph) /\ Retells(B, h[1], paragraph)
    BY <1>7
  <2>3. LET refined == Refine(h[1], 2)
        IN /\ \A k \in 1..Len(refined) : Spaced(refined[k])
           /\ PartsOf(refined) = Parts(paragraph) /\ Retells(B, refined, paragraph)
    <3>. HIDE DEF Told1
    <3>. QED BY <1>0, <2>1, <2>2, RefineTells
  <2>. QED BY <2>1, <2>3
<1>9. Told1(h[3]) /\ \A k \in 1..Len(h[3]) : Length(h[3][k]) <= ChunkSize \/ Len(h[3][k]) = 1
  <2>1. h[3] = Refine(h[2], 3) /\ h[2] \in Seq(Blankless)
    BY <1>5, <1>6
  <2>2. /\ \A k \in 1..Len(h[2]) : Spaced(h[2][k])
        /\ PartsOf(h[2]) = Parts(paragraph) /\ Retells(B, h[2], paragraph)
    BY <1>8
  <2>3. LET refined == Refine(h[2], 3)
        IN /\ \A k \in 1..Len(refined) : Spaced(refined[k])
           /\ PartsOf(refined) = Parts(paragraph) /\ Retells(B, refined, paragraph)
           /\ \A k \in 1..Len(refined) : Length(refined[k]) <= ChunkSize \/ Len(refined[k]) = 1
    <3>. HIDE DEF Told1
    <3>. QED BY <1>0, <2>1, <2>2, RefineTells
  <2>. QED BY <2>1, <2>3
<1>10. parts \in Seq(Blankless)
  BY <1>4
<1>11. PiecesTold(B, Pieces(paragraph), paragraph)
  BY <1>0, <1>3, <1>4, <1>9, <1>10, PartsToPieces
<1>. QED BY <1>11, PiecesAre

-----------------------------------------------------------------------------
(* Packing, too: overlaps only repeat. *)

\* In order, and made of whole words of a text unless it is a single word or a window of one.
Clean(B, whole, chunk) == Tidy(B, chunk) /\ (Len(chunk) > 1 => Parts(chunk) \subseteq whole)
AllClean(B, whole, chunks) == \A k \in 1..Len(chunks) : Clean(B, whole, chunks[k])

LEMMA NothingSaid ==
    /\ Says(<<>>) = {} /\ Parts(<<>>) = {} /\ \A k : Told(<<>>, 0) = {}
    /\ PartsOf(<<>>) = {}
    /\ \A B, known : Introduced(B, known, <<>>) /\ InTurn(B, known, <<>>)
    /\ \A B, whole : Tidy(B, <<>>) /\ Clean(B, whole, <<>>) /\ AllClean(B, whole, <<>>)
<1>1. Len(<<>>) = 0 /\ 1..0 = {}
  OBVIOUS
<1>. QED BY <1>1 DEF Says, Parts, Told, PartsOf, Introduced, InTurn, Tidy, Clean, AllClean

LEMMA StripIsClean ==
    ASSUME NEW units \in Seq(Units), NEW B, NEW whole, Clean(B, whole, units)
    PROVE  Clean(B, whole, Strip(units))
<1>1. Same(units, Strip(units)) /\ Len(units) = Len(Strip(units))
  BY EndedIsSame DEF Same
<1>2. Parts(units) = Parts(Strip(units)) /\ (Tidy(B, units) <=> Tidy(B, Strip(units)))
  BY <1>1, SameTells
<1>. QED BY <1>1, <1>2 DEF Clean

LEMMA AppendIsClean ==
    ASSUME NEW B, NEW whole, NEW chunks \in Seq(Seq(Units)), AllClean(B, whole, chunks),
           NEW units \in Seq(Units), Clean(B, whole, units)
    PROVE  AllClean(B, whole, Append(chunks, units))
<1>. DEFINE n == Len(chunks)
            more == Append(chunks, units)
<1>1. n \in Nat /\ Len(more) = n + 1 /\ more[n + 1] = units /\ \A k \in 1..n : more[k] = chunks[k]
  OBVIOUS
<1>2. \A k \in 1..(n + 1) : k \in 1..n \/ k = n + 1
  BY <1>1
<1>3. \A k \in 1..n : Clean(B, whole, chunks[k])
  BY DEF AllClean
<1>. HIDE DEF n, more
<1>4. AllClean(B, whole, more)
  BY <1>1, <1>2, <1>3 DEF AllClean
<1>. QED BY <1>4 DEF more

LEMMA SolidAreTexts ==
    /\ \A chunk \in Solid : chunk \in Seq(Units) /\ chunk \in Fitting
    /\ \A chunks \in Seq(Solid) : chunks \in Seq(Seq(Units))
<1>1. \A chunk \in Solid : chunk \in Seq(Units) /\ chunk \in Fitting
  BY DEF Solid, Fitting
<1>2. Solid \subseteq Seq(Units)
  BY <1>1
<1>. QED BY <1>1, <1>2

LEMMA EmitTells ==
    ASSUME NEW chunks \in Seq(Solid), NEW window \in Fitting, NEW B, NEW known, NEW whole,
           InTurn(B, known, chunks), Introduced(B, known \cup Told(chunks, Len(chunks)), window),
           AllClean(B, whole, chunks), Clean(B, whole, window)
    PROVE  LET more == Emit(chunks, window)
           IN /\ more \in Seq(Solid) /\ InTurn(B, known, more) /\ AllClean(B, whole, more)
              /\ Told(more, Len(more)) = Told(chunks, Len(chunks)) \cup Says(window)
              /\ PartsOf(more) = PartsOf(chunks) \cup Parts(window)
<1>1. Emit(chunks, window) \in Seq(Solid)
  BY EmitIs
<1>2. CASE window = <<>>
  <2>1. Emit(chunks, window) = chunks
    BY <1>2 DEF Emit
  <2>. QED BY <1>1, <1>2, <2>1, NothingSaid
<1>3. CASE window # <<>>
  <2>. DEFINE units == Strip(window)
  <2>1. Emit(chunks, window) = Append(chunks, units)
    BY <1>3 DEF Emit
  <2>2. window \in Seq(Units) /\ units \in Seq(Units) /\ chunks \in Seq(Seq(Units))
    BY StripIs, SolidAreTexts DEF Fitting
  <2>3. Same(window, units)
    BY <2>2, EndedIsSame
  <2>4. Clean(B, whole, units)
    BY <2>2, StripIsClean
  <2>. HIDE DEF units
  <2>5. /\ Parts(units) = Parts(window) /\ Says(units) = Says(window)
        /\ Introduced(B, known \cup Told(chunks, Len(chunks)), units)
    BY <2>3, SameTells
  <2>6. AllClean(B, whole, Append(chunks, units))
    BY <2>2, <2>4, AppendIsClean
  <2>7. /\ Len(Append(chunks, units)) = Len(chunks) + 1
        /\ Told(Append(chunks, units), Len(chunks) + 1) = Told(chunks, Len(chunks)) \cup Says(units)
        /\ PartsOf(Append(chunks, units)) = PartsOf(chunks) \cup Parts(units)
        /\ InTurn(B, known, Append(chunks, units))
    BY <2>2, <2>5, AppendTells
  <2>. QED BY <1>1, <2>1, <2>5, <2>6, <2>7
<1>. QED BY <1>2, <1>3

\* The overlap repeats the end of the window.
LEMMA TailTells ==
    ASSUME NEW window \in Fitting, NEW B, NEW known, NEW more,
           Introduced(B, known, window), known \subseteq more, Says(window) \subseteq more
    PROVE  LET tail == OverlapTail(window)
           IN /\ tail \in Seq(Units)
              /\ Parts(tail) \subseteq Parts(window) /\ Says(tail) \subseteq Says(window)
              /\ Tidy(B, window) => Tidy(B, tail)
              /\ Introduced(B, more, tail)
<1>1. window \in Blankless /\ window \in Seq(Units) /\ Len(window) \in Nat
  BY FittingIsBlankless DEF Blankless
<1>2. PICK a \in Nat \ {0} : OverlapTail(window) = SubSeq(window, a, Len(window))
  BY <1>1, OverlapTailIs
<1>3. OverlapTail(window) \in Seq(Units)
  BY <1>1, OverlapTailIs DEF Blankless
<1>4. \A i \in 1..(a - 1) : i <= Len(window) => window[i].word \in more
  <2>. SUFFICES ASSUME NEW i \in 1..(a - 1), i <= Len(window) PROVE window[i].word \in more
    OBVIOUS
  <2>1. i \in 1..Len(window)
    BY <1>1
  <2>. QED BY <2>1 DEF Says
<1>5. Len(window) \in Int /\ Len(window) <= Len(window)
  BY <1>1
<1>. DEFINE part == SubSeq(window, a, Len(window))
<1>6. /\ Parts(part) \subseteq Parts(window) /\ Says(part) \subseteq Says(window)
      /\ Tidy(B, window) => Tidy(B, part)
      /\ Introduced(B, more, part)
  BY <1>1, <1>4, <1>5, StretchTells
<1>. QED BY <1>2, <1>3, <1>6

\* What is known of a packing when the first k pieces are in it.
PackedSoFar(B, known, paragraph, us, k, packed) ==
    /\ \A l \in 1..k : Parts(us[l]) \subseteq PartsOf(packed.chunks) \cup Parts(packed.window)
    /\ Told(packed.chunks, Len(packed.chunks)) \cup Says(packed.window) \subseteq Told(us, k)
    /\ InTurn(B, known, packed.chunks)
    /\ Introduced(B, known \cup Told(packed.chunks, Len(packed.chunks)), packed.window)
    /\ AllClean(B, Parts(paragraph), packed.chunks)
    /\ Tidy(B, packed.window) /\ Parts(packed.window) \subseteq Parts(paragraph)

\* What parts are shown is told.
LEMMA ToldBySomeParts ==
    ASSUME NEW us, NEW k, NEW chunks, NEW window,
           \A l \in 1..k : Parts(us[l]) \subseteq PartsOf(chunks) \cup Parts(window)
    PROVE  Told(us, k) \subseteq Told(chunks, Len(chunks)) \cup Says(window)
<1>. SUFFICES ASSUME NEW v \in Told(us, k) PROVE v \in Told(chunks, Len(chunks)) \cup Says(window)
  OBVIOUS
<1>1. PICK l \in 1..k : v \in Says(us[l])
  BY DEF Told
<1>2. PICK p \in Parts(us[l]) : v = p[1]
  BY <1>1, SaysIs
<1>3. Says(window) = {q[1] : q \in Parts(window)} /\ Told(chunks, Len(chunks)) = {q[1] : q \in PartsOf(chunks)}
  BY SaysIs
<1>. QED BY <1>2, <1>3

LEMMA PackPieceTells ==
    ASSUME NEW packed \in Packings, NEW piece \in Portions, NEW B, NEW known, NEW paragraph,
           NEW us, NEW k \in Nat \ {0}, us[k] = piece.units,
           PackedSoFar(B, known, paragraph, us, k - 1, packed),
           Introduced(B, known \cup Told(us, k - 1), us[k]), Tidy(B, us[k]),
           \A v \in Says(us[k]), w \in Told(us, k - 1) : <<v, w>> \notin B,
           IF piece.finished THEN Len(us[k]) = 1 ELSE Parts(us[k]) \subseteq Parts(paragraph)
    PROVE  PackedSoFar(B, known, paragraph, us, k, PackPiece(packed, piece))
<1>. DEFINE chunks == packed.chunks
            window == packed.window
            units == us[k]
            whole == Parts(paragraph)
            emitted == Emit(chunks, window)
            next == PackPiece(packed, piece)
<1>1. /\ chunks \in Seq(Solid) /\ window \in Fitting
      /\ units \in Fitting /\ units \in Seq(Units) /\ window \in Seq(Units)
      /\ piece.finished \in BOOLEAN
  BY DEF Packings, Portions, Fitting
<1>2. /\ \A l \in 1..(k - 1) : Parts(us[l]) \subseteq PartsOf(chunks) \cup Parts(window)
      /\ Told(chunks, Len(chunks)) \cup Says(window) \subseteq Told(us, k - 1)
      /\ InTurn(B, known, chunks)
      /\ Introduced(B, known \cup Told(chunks, Len(chunks)), window)
      /\ AllClean(B, whole, chunks)
      /\ Tidy(B, window) /\ Parts(window) \subseteq whole
  BY DEF PackedSoFar
<1>3. Told(us, k - 1) \subseteq Told(chunks, Len(chunks)) \cup Says(window)
  BY <1>2, ToldBySomeParts
<1>4. Told(us, k) = Told(us, k - 1) \cup Says(units)
  <2>1. \A l \in 1..k : l \in 1..(k - 1) \/ l = k
    OBVIOUS
  <2>2. k \in 1..k /\ \A l \in 1..(k - 1) : l \in 1..k
    OBVIOUS
  <2>. QED BY <2>1, <2>2 DEF Told
<1>5. \A l \in 1..k : l \in 1..(k - 1) \/ l = k
  OBVIOUS
<1>6. Clean(B, whole, window)
  BY <1>2 DEF Clean
<1>7. /\ emitted \in Seq(Solid) /\ InTurn(B, known, emitted) /\ AllClean(B, whole, emitted)
      /\ Told(emitted, Len(emitted)) = Told(chunks, Len(chunks)) \cup Says(window)
      /\ PartsOf(emitted) = PartsOf(chunks) \cup Parts(window)
  BY <1>1, <1>2, <1>6, EmitTells
<1>8. CASE piece.finished
  <2>. DEFINE more == Append(emitted, units)
  <2>1. next = [chunks |-> more, window |-> <<>>]
    BY <1>8 DEF PackPiece
  <2>2. emitted \in Seq(Seq(Units))
    BY <1>7, SolidAreTexts
  <2>3. Introduced(B, known \cup Told(emitted, Len(emitted)), units)
    <3>1. known \cup Told(us, k - 1) \subseteq known \cup Told(emitted, Len(emitted))
      BY <1>3, <1>7
    <3>. HIDE DEF emitted
    <3>. QED BY <3>1, MoreIsKnown
  <2>. HIDE DEF emitted
  <2>4. /\ Len(more) = Len(emitted) + 1
        /\ Told(more, Len(emitted) + 1) = Told(emitted, Len(emitted)) \cup Says(units)
        /\ PartsOf(more) = PartsOf(emitted) \cup Parts(units)
        /\ InTurn(B, known, more)
    BY <1>1, <1>7, <2>2, <2>3, AppendTells
  <2>5. Clean(B, whole, units)
    <3>1. Len(units) = 1
      BY <1>8
    <3>2. ~(Len(units) > 1)
      BY <3>1
    <3>3. Tidy(B, units)
      OBVIOUS
    <3>. HIDE DEF units, whole
    <3>. QED BY <3>2, <3>3 DEF Clean
  <2>6. AllClean(B, whole, more)
    BY <1>1, <1>7, <2>2, <2>5, AppendIsClean
  <2>. HIDE DEF more
  <2>7. /\ next.chunks = more /\ next.window = <<>>
        /\ Says(<<>>) = {} /\ Parts(<<>>) = {} /\ Tidy(B, <<>>)
        /\ Introduced(B, known \cup Told(more, Len(more)), <<>>)
    BY <2>1, NothingSaid
  <2>8. \A l \in 1..k : Parts(us[l]) \subseteq PartsOf(more)
    BY <1>2, <1>5, <1>7, <2>4
  <2>9. Told(more, Len(more)) \subseteq Told(us, k)
    BY <1>2, <1>4, <1>7, <2>4
  <2>. HIDE DEF next, whole
  <2>10. PackedSoFar(B, known, paragraph, us, k, next)
    BY <2>4, <2>6, <2>7, <2>8, <2>9 DEF PackedSoFar, whole
  <2>. QED BY <2>10 DEF next
<1>9. CASE ~piece.finished /\ window # <<>> /\ Length(window) + Length(units) > ChunkSize
  <2>. DEFINE tail == OverlapTail(window)
              known2 == known \cup Told(emitted, Len(emitted))
              again == Repeat(window, units)
  <2>1. next = [chunks |-> emitted, window |-> again]
    BY <1>9 DEF PackPiece
  <2>2. Introduced(B, known2, units)
    <3>1. known \cup Told(us, k - 1) \subseteq known2
      BY <1>3, <1>7
    <3>. HIDE DEF known2
    <3>. QED BY <3>1, MoreIsKnown
  <2>. DEFINE known1 == known \cup Told(chunks, Len(chunks))
  <2>3. known1 \subseteq known2 /\ Says(window) \subseteq known2
    BY <1>7
  <2>a. Introduced(B, known1, window) /\ Tidy(B, window)
    BY <1>2
  <2>. HIDE DEF known1, known2
  <2>4. /\ tail \in Seq(Units)
        /\ Parts(tail) \subseteq Parts(window) /\ Says(tail) \subseteq Says(window)
        /\ Tidy(B, tail) /\ Introduced(B, known2, tail)
    <3>. HIDE DEF window
    <3>. QED BY <1>1, <2>3, <2>a, TailTells
  <2>. HIDE DEF tail
  <2>5. /\ Parts(tail \o units) = Parts(tail) \cup Parts(units)
        /\ Says(tail \o units) = Says(tail) \cup Says(units)
        /\ Introduced(B, known2, tail \o units) /\ Tidy(B, tail \o units)
    <3>1. Introduced(B, known2 \cup Says(tail), units)
      BY <2>2, MoreIsKnown
    <3>2. \A v \in Says(units), w \in Says(tail) : <<v, w>> \notin B
      BY <1>2, <2>4
    <3>. QED BY <1>1, <2>4, <3>1, <3>2, JoinedTells
  <2>6. again = tail \o units \/ again = units
    BY DEF Repeat, tail
  <2>. HIDE DEF again
  <2>7. /\ Introduced(B, known2, again) /\ Tidy(B, again)
        /\ Parts(units) \subseteq Parts(again) /\ Parts(again) \subseteq Parts(window) \cup Parts(units)
        /\ Says(again) \subseteq Says(window) \cup Says(units)
    BY <2>2, <2>4, <2>5, <2>6
  <2>8. next.chunks = emitted /\ next.window = again
    BY <2>1
  <2>. HIDE DEF emitted
  <2>9. \A l \in 1..k : Parts(us[l]) \subseteq PartsOf(emitted) \cup Parts(again)
    BY <1>2, <1>5, <1>7, <2>7
  <2>10. Told(emitted, Len(emitted)) \cup Says(again) \subseteq Told(us, k)
    BY <1>2, <1>4, <1>7, <2>7
  <2>11. Parts(again) \subseteq whole
    BY <1>2, <1>9, <2>7
  <2>. HIDE DEF next, whole
  <2>12. PackedSoFar(B, known, paragraph, us, k, next)
    BY <1>7, <2>7, <2>8, <2>9, <2>10, <2>11 DEF PackedSoFar, known2, whole
  <2>. QED BY <2>12 DEF next
<1>10. CASE ~piece.finished /\ ~(window # <<>> /\ Length(window) + Length(units) > ChunkSize)
  <2>. DEFINE longer == window \o units
              known2 == known \cup Told(chunks, Len(chunks))
  <2>1. next = [packed EXCEPT !.window = longer]
    BY <1>10 DEF PackPiece
  <2>2. next.chunks = chunks /\ next.window = longer
    BY <2>1 DEF Packings
  <2>3. Introduced(B, known2 \cup Says(window), units)
    <3>1. known \cup Told(us, k - 1) \subseteq known2 \cup Says(window)
      BY <1>3
    <3>. HIDE DEF known2
    <3>. QED BY <3>1, MoreIsKnown
  <2>4. \A v \in Says(units), w \in Says(window) : <<v, w>> \notin B
    BY <1>2
  <2>5. /\ Parts(longer) = Parts(window) \cup Parts(units)
        /\ Says(longer) = Says(window) \cup Says(units)
        /\ Introduced(B, known2, longer) /\ Tidy(B, longer)
    <3>. HIDE DEF known2
    <3>1. Introduced(B, known2, window)
      BY <1>2 DEF known2
    <3>. QED BY <1>1, <1>2, <2>3, <2>4, <3>1, JoinedTells
  <2>. HIDE DEF longer
  <2>6. \A l \in 1..k : Parts(us[l]) \subseteq PartsOf(chunks) \cup Parts(longer)
    BY <1>2, <1>5, <2>5
  <2>7. Told(chunks, Len(chunks)) \cup Says(longer) \subseteq Told(us, k)
    BY <1>2, <1>4, <2>5
  <2>8. Parts(longer) \subseteq whole
    BY <1>2, <1>10, <2>5
  <2>. HIDE DEF next, whole
  <2>9. PackedSoFar(B, known, paragraph, us, k, next)
    BY <1>2, <2>2, <2>5, <2>6, <2>7, <2>8 DEF PackedSoFar, whole
  <2>. QED BY <2>9 DEF next
<1>. QED BY <1>1, <1>8, <1>9, <1>10

-----------------------------------------------------------------------------
(* The chunks of a paragraph, and of all paragraphs. *)

\* Chunks that say what a text says, in its order, with all its characters.
Relays(B, known, chunks, units) ==
    /\ chunks \in Seq(Solid)
    /\ InTurn(B, known, chunks)
    /\ Told(chunks, Len(chunks)) = Says(units)
    /\ Inked(PartsOf(chunks), Parts(units))
    /\ AllClean(B, Parts(units), chunks)

LEMMA PackTells ==
    ASSUME NEW pieces \in Seq(Portions), NEW B, NEW known, NEW paragraph \in Seq(Units),
           PiecesTold(B, pieces, paragraph), Introduced(B, known, paragraph), Tidy(B, paragraph)
    PROVE  Relays(B, known, Pack(pieces), paragraph)
<1>. DEFINE first == [chunks |-> <<>>, window |-> <<>>]
            us == UnitsOf(pieces)
            n == Len(pieces)
            end == FoldLeft(PackPiece, first, pieces)
            whole == Parts(paragraph)
<1>1. /\ us \in Seq(Seq(Units)) /\ Len(us) = n /\ n \in Nat
      /\ \A k \in 1..n : us[k] = pieces[k].units /\ us[k] \in Seq(Units) /\ pieces[k] \in Portions
  <2>1. us \in Seq(Seq(Units))
    BY DEF PiecesTold
  <2>2. Len(us) = n /\ n \in Nat /\ \A k \in 1..n : us[k] = pieces[k].units /\ pieces[k] \in Portions
    BY DEF UnitsOf
  <2>. HIDE DEF us
  <2>. QED BY <2>1, <2>2
<1>2. /\ Told(us, n) = Says(paragraph) /\ Inked(PartsOf(us), whole)
      /\ InTurn(B, known, us) /\ TidyAll(B, us)
  BY <1>1 DEF PiecesTold, Retells
<1>3. \A k \in 1..n : IF pieces[k].finished THEN Len(us[k]) = 1 ELSE Parts(us[k]) \subseteq whole
  <2>1. \A k \in 1..n : IF pieces[k].finished THEN Len(pieces[k].units) = 1
                                              ELSE Parts(pieces[k].units) \subseteq whole
    BY DEF PiecesTold
  <2>. QED BY <1>1, <2>1
<1>. HIDE DEF us, n
<1>4. \A k \in 1..n : /\ Introduced(B, known \cup Told(us, k - 1), us[k]) /\ Tidy(B, us[k])
                      /\ \A v \in Says(us[k]), w \in Told(us, k - 1) : <<v, w>> \notin B
  BY <1>1, <1>2 DEF InTurn, TidyAll
<1>5. first \in Packings
  <2>1. <<>> \in Fitting
    <3>1. <<>> \in Seq(Units) /\ NoBlank(<<>>) /\ Length(<<>>) <= ChunkSize
      BY LengthOfNone, ChunkSettings DEF NoBlank
    <3>. QED BY <3>1 DEF Fitting
  <2>2. <<>> \in Seq(Solid)
    OBVIOUS
  <2>. QED BY <2>1, <2>2 DEF Packings
<1>6. PackedSoFar(B, known, paragraph, us, 0, first)
  <2>1. first.chunks = <<>> /\ first.window = <<>> /\ Len(<<>>) = 0 /\ 1..0 = {}
    OBVIOUS
  <2>2. /\ Says(<<>>) = {} /\ Parts(<<>>) = {} /\ Told(<<>>, 0) = {}
        /\ InTurn(B, known, <<>>) /\ Introduced(B, known \cup Told(<<>>, 0), <<>>)
        /\ AllClean(B, Parts(paragraph), <<>>) /\ Tidy(B, <<>>)
    BY NothingSaid
  <2>. HIDE DEF first
  <2>. QED BY <2>1, <2>2 DEF PackedSoFar
<1>7. Pack(pieces) = Emit(end.chunks, end.window)
  BY DEF Pack
<1>. HIDE DEF first
<1>8. PICK h : /\ h \in [0..n -> Packings]
               /\ h[0] = first
               /\ \A k \in 1..n : h[k] = PackPiece(h[k - 1], pieces[k])
               /\ h[n] = end
  BY <1>5, PackSteps DEF n
<1>. HIDE DEF end
<1>. DEFINE T == {k \in 0..n : PackedSoFar(B, known, paragraph, us, k, h[k])}
<1>9. 0 \in T
  BY <1>1, <1>6, <1>8
<1>10. \A k \in 0..(n - 1) : k \in T => k + 1 \in T
  <2>. SUFFICES ASSUME NEW k \in 0..(n - 1), PackedSoFar(B, known, paragraph, us, k, h[k])
                PROVE  k + 1 \in 0..n /\ PackedSoFar(B, known, paragraph, us, k + 1, h[k + 1])
    OBVIOUS
  <2>. DEFINE i == k + 1
  <2>1. i \in 1..n /\ i \in 0..n /\ k \in 0..n /\ i - 1 = k /\ i \in Nat \ {0}
    BY <1>1
  <2>. HIDE DEF i
  <2>2. h[i] = PackPiece(h[k], pieces[i]) /\ h[k] \in Packings /\ pieces[i] \in Portions
    BY <1>1, <1>8, <2>1
  <2>3. /\ us[i] = pieces[i].units /\ Introduced(B, known \cup Told(us, i - 1), us[i]) /\ Tidy(B, us[i])
        /\ \A v \in Says(us[i]), w \in Told(us, i - 1) : <<v, w>> \notin B
        /\ IF pieces[i].finished THEN Len(us[i]) = 1 ELSE Parts(us[i]) \subseteq Parts(paragraph)
    BY <1>1, <1>3, <1>4, <2>1
  <2>4. PackedSoFar(B, known, paragraph, us, i - 1, h[k])
    BY <2>1
  <2>5. PackedSoFar(B, known, paragraph, us, i, PackPiece(h[k], pieces[i]))
    BY <2>1, <2>2, <2>3, <2>4, PackPieceTells
  <2>. QED BY <2>1, <2>2, <2>5 DEF i
<1>11. PackedSoFar(B, known, paragraph, us, n, end) /\ end \in Packings
  <2>. HIDE DEF T
  <2>1. n \in Nat /\ n \in 0..n
    BY <1>1
  <2>2. 0..n \subseteq T
    BY <1>9, <1>10, <2>1, InductionUpTo
  <2>. QED BY <1>8, <2>1, <2>2 DEF T
<1>. DEFINE chunks == end.chunks
            window == end.window
            more == Emit(chunks, window)
<1>12. /\ \A l \in 1..n : Parts(us[l]) \subseteq PartsOf(chunks) \cup Parts(window)
       /\ Told(chunks, Len(chunks)) \cup Says(window) \subseteq Told(us, n)
       /\ InTurn(B, known, chunks)
       /\ Introduced(B, known \cup Told(chunks, Len(chunks)), window)
       /\ AllClean(B, whole, chunks)
       /\ Tidy(B, window) /\ Parts(window) \subseteq whole
       /\ chunks \in Seq(Solid) /\ window \in Fitting
  BY <1>11 DEF PackedSoFar, Packings
<1>13. Clean(B, whole, window)
  BY <1>12 DEF Clean
<1>. HIDE DEF chunks, window, whole
<1>14. /\ more \in Seq(Solid) /\ InTurn(B, known, more) /\ AllClean(B, whole, more)
       /\ Told(more, Len(more)) = Told(chunks, Len(chunks)) \cup Says(window)
       /\ PartsOf(more) = PartsOf(chunks) \cup Parts(window)
  BY <1>12, <1>13, EmitTells
<1>15. Told(us, n) \subseteq Told(chunks, Len(chunks)) \cup Says(window)
  BY <1>12, ToldBySomeParts
<1>16. Told(more, Len(more)) = Says(paragraph)
  BY <1>2, <1>12, <1>14, <1>15
<1>17. PartsOf(us) \subseteq PartsOf(more)
  BY <1>1, <1>12, <1>14 DEF PartsOf
<1>. HIDE DEF more
<1>18. Inked(PartsOf(more), whole)
  BY <1>2, <1>17 DEF Inked
<1>. QED BY <1>7, <1>14, <1>16, <1>18 DEF Relays, more, chunks, window, whole

LEMMA ParagraphTells ==
    ASSUME NEW paragraph \in Paragraphs, NEW B, NEW known, Introduced(B, known, paragraph), Tidy(B, paragraph)
    PROVE  Relays(B, known, ParagraphChunks(paragraph), paragraph)
<1>. DEFINE Whole == {unit \in Units : unit.from = 0 /\ unit.ends # "blank"}
            n == Len(paragraph)
<1>1. /\ paragraph \in Seq(Whole) /\ paragraph # <<>>
      /\ \A i \in 1..n : paragraph[i].ends = "end" <=> i = n
  BY DEF Paragraphs
<1>2. \A i \in 1..n : paragraph[i] \in Units /\ paragraph[i].ends # "blank" /\ paragraph[i].from = 0
  BY <1>1
<1>3. paragraph \in Seq(Units) /\ n \in Nat /\ n > 0
  <2>. HIDE DEF n
  <2>1. paragraph \in Seq(Units) /\ n \in Nat
    BY <1>1, <1>2 DEF n
  <2>2. n # 0
    BY <1>1, <2>1 DEF n
  <2>. QED BY <2>1, <2>2
<1>4. paragraph \in Blankless
  BY <1>2, <1>3 DEF Blankless, NoBlank
<1>5. Spaced(paragraph)
  <2>1. \A i \in 1..(n - 1) : i \in 1..n /\ i # n
    BY <1>3
  <2>2. \A i \in 1..(n - 1) : paragraph[i].ends # "end" /\ paragraph[i].ends # "blank"
    BY <1>1, <1>2, <2>1
  <2>. QED BY <2>2 DEF Spaced
<1>6. \A p \in Parts(paragraph) : p[2] = 0
  BY <1>2 DEF Parts
<1>7. CASE Length(paragraph) <= ChunkSize
  <2>. DEFINE one == <<paragraph>>
              whole == Parts(paragraph)
  <2>1. ParagraphChunks(paragraph) = one
    BY <1>7 DEF ParagraphChunks
  <2>2. Finished(paragraph)
    BY <1>1, <1>3 DEF Finished
  <2>3. paragraph \in Solid
    BY <1>4, <1>7, <2>2 DEF Solid, Fitting, Blankless
  <2>4. one \in Seq(Solid) /\ Len(one) = 1 /\ one[1] = paragraph /\ \A k \in 1..1 : k = 1
    BY <2>3
  <2>5. PartsOf(one) = whole /\ Retells(B, one, paragraph)
    BY <1>3, OneRetells
  <2>6. Clean(B, whole, paragraph)
    BY DEF Clean
  <2>. HIDE DEF one, whole
  <2>7. AllClean(B, whole, one)
    BY <2>4, <2>6 DEF AllClean
  <2>. QED BY <2>1, <2>4, <2>5, <2>7 DEF Relays, Retells, whole
<1>8. CASE ~(Length(paragraph) <= ChunkSize)
  <2>1. Pieces(paragraph) \in Seq(Portions) /\ PiecesTold(B, Pieces(paragraph), paragraph)
    BY <1>4, <1>5, <1>6, PiecesTell
  <2>2. Relays(B, known, Pack(Pieces(paragraph)), paragraph)
    BY <1>3, <2>1, PackTells
  <2>. QED BY <1>8, <2>2 DEF ParagraphChunks
<1>. QED BY <1>7, <1>8

\* All paragraphs, in the order of the text.
LEMMA PackedTells ==
    ASSUME NEW text \in Texts, NEW B, InTurn(B, {}, text), \A k \in 1..Len(text) : Tidy(B, text[k])
    PROVE  LET packed == PackedChunks(text)
           IN /\ packed \in Seq(Solid) /\ InTurn(B, {}, packed)
              /\ Inked(PartsOf(packed), PartsOf(text))
              /\ AllClean(B, PartsOf(text), packed)
<1>. DEFINE n == Len(text)
            Some(k) == ParagraphChunks(text[k])
            each == [k \in 1..n |-> Some(k)]
            flat == FlattenSeq(each)
            whole == PartsOf(text)
<1>1. n \in Nat /\ text \in Seq(Paragraphs) /\ \A k \in 1..n : text[k] \in Paragraphs
  BY DEF Texts
<1>2. \A k \in 1..n : Relays(B, Told(text, k - 1), Some(k), text[k])
  <2>. TAKE k \in 1..n
  <2>1. {} \cup Told(text, k - 1) = Told(text, k - 1)
    OBVIOUS
  <2>2. Introduced(B, {} \cup Told(text, k - 1), text[k])
    BY DEF InTurn
  <2>3. Introduced(B, Told(text, k - 1), text[k])
    BY <2>1, <2>2
  <2>. QED BY <1>1, <2>3, ParagraphTells
<1>. HIDE DEF Some
<1>3. \A k \in 1..n : Some(k) \in Seq(Solid) /\ Some(k) \in Seq(Seq(Units))
  BY <1>2, SolidAreTexts DEF Relays
<1>4. /\ each \in Seq(Seq(Solid)) /\ each \in Seq(Seq(Seq(Units)))
      /\ Len(each) = n /\ \A k \in 1..n : each[k] = Some(k)
  BY <1>1, <1>3
<1>5. PackedChunks(text) = flat
  BY DEF PackedChunks, Some
<1>0. n = Len(text)
  OBVIOUS
<1>. HIDE DEF each, n
<1>6. flat \in Seq(Solid)
  BY <1>4, FlattenedPlaces
<1>7. PICK h : LaidOut(h, each, flat)
  BY <1>4, FlattenedPlaces
<1>8. flat \in Seq(Seq(Units))
  BY <1>6, SolidAreTexts
<1>. HIDE DEF flat
<1>9. \A k \in 1..n : ToldBy(each, k - 1) = Told(text, k - 1)
  <2>. TAKE k \in 1..n
  <2>1. \A l \in 1..(k - 1) : l \in 1..n
    BY <1>1
  <2>2. \A l \in 1..(k - 1) : Told(each[l], Len(each[l])) = Says(text[l])
    BY <1>2, <1>4, <2>1 DEF Relays
  <2>3. {Told(each[l], Len(each[l])) : l \in 1..(k - 1)} = {Says(text[l]) : l \in 1..(k - 1)}
    BY <2>2
  <2>. QED BY <2>3 DEF ToldBy, Told
<1>10. PartsOf(flat) = UNION {PartsOf(each[k]) : k \in 1..n}
  BY <1>4, <1>7, <1>8, FlatTells
<1>11. InTurn(B, {}, flat)
  <2>1. \A k \in 1..Len(each) : InTurn(B, {} \cup ToldBy(each, k - 1), each[k])
    <3>. TAKE k \in 1..Len(each)
    <3>1. k \in 1..n /\ each[k] = Some(k) /\ {} \cup ToldBy(each, k - 1) = Told(text, k - 1)
      BY <1>4, <1>9
    <3>2. InTurn(B, Told(text, k - 1), Some(k))
      BY <1>2, <3>1 DEF Relays
    <3>. QED BY <3>1, <3>2
  <2>. QED BY <1>4, <1>7, <1>8, <2>1, FlatTells
<1>12. Inked(PartsOf(flat), whole)
  <2>. SUFFICES ASSUME NEW q \in whole, NEW i \in q[2]..(q[3] - 1)
                PROVE  \E p \in PartsOf(flat) : p[1] = q[1] /\ p[2] <= i /\ i < p[3]
    BY DEF Inked
  <2>1. PICK k \in 1..n : q \in Parts(text[k])
    BY <1>0 DEF PartsOf
  <2>2. Inked(PartsOf(each[k]), Parts(text[k]))
    BY <1>2, <1>4 DEF Relays
  <2>3. PICK p \in PartsOf(each[k]) : p[1] = q[1] /\ p[2] <= i /\ i < p[3]
    BY <2>1, <2>2 DEF Inked
  <2>. HIDE DEF whole
  <2>. QED BY <1>10, <2>3
<1>13. AllClean(B, whole, flat)
  <2>. SUFFICES ASSUME NEW c \in 1..Len(flat) PROVE Clean(B, whole, flat[c])
    BY DEF AllClean
  <2>1. KnownPlaces(h, each, flat)
    BY <1>4, <1>7, <1>8, FlatPlaces
  <2>2. PICK k \in 1..n : \E m \in 1..Len(each[k]) : c = h[k - 1] + m
    BY <1>4, <2>1 DEF KnownPlaces
  <2>3. PICK m \in 1..Len(each[k]) : c = h[k - 1] + m
    BY <2>2
  <2>4. flat[c] = each[k][m]
    BY <1>4, <2>1, <2>3 DEF KnownPlaces
  <2>5. Clean(B, Parts(text[k]), each[k][m])
    BY <1>2, <1>4, <2>3 DEF Relays, AllClean
  <2>6. Parts(text[k]) \subseteq whole
    BY <1>0 DEF PartsOf
  <2>. HIDE DEF whole
  <2>. QED BY <2>4, <2>5, <2>6 DEF Clean
<1>. QED BY <1>5, <1>6, <1>11, <1>12, <1>13

-----------------------------------------------------------------------------
(* Headings moved. The words of W are those that cannot be mistaken for others of the text. *)

Unmistaken(W, whole) == \A w \in W : \A p \in whole : <<w, p[1]>> \notin Begins \cup Ends
About(B, W) == \A v, w : <<v, w>> \in B => v \in W

\* A chunk in two: the first says what it says before the second.
LEMMA TopAndBottom ==
    ASSUME NEW chunk \in Seq(Units), NEW t \in 1..(Len(chunk) + 1)
    PROVE  LET top == SubSeq(chunk, 1, t - 1)
               bottom == SubSeq(chunk, t, Len(chunk))
           IN /\ top \in Seq(Units) /\ bottom \in Seq(Units)
              /\ Parts(chunk) = Parts(top) \cup Parts(bottom)
              /\ Says(chunk) = Says(top) \cup Says(bottom)
              /\ \A B, known : Introduced(B, known, chunk) =>
                    Introduced(B, known, top) /\ Introduced(B, known \cup Says(top), bottom)
<1>. DEFINE n == Len(chunk)
            top == SubSeq(chunk, 1, t - 1)
            bottom == SubSeq(chunk, t, n)
            both == top \o bottom
<1>1. n \in Nat /\ t \in Nat \ {0} /\ t <= n + 1 /\ t - 1 \in Int /\ t - 1 <= n /\ n \in Int /\ n <= n
      /\ 1 \in Nat \ {0}
  OBVIOUS
<1>. HIDE DEF n
<1>2. /\ top \in Seq(Units) /\ Len(top) = t - 1
      /\ \A i \in 1..(t - 1) : top[i] = chunk[i]
  <2>1. /\ top \in Seq(Units) /\ Len(top) = IF 1 <= t - 1 THEN (t - 1) - 1 + 1 ELSE 0
        /\ \A i \in 1..Len(top) : top[i] = chunk[1 + i - 1]
    BY <1>1, Stretch DEF n
  <2>. HIDE DEF top
  <2>2. Len(top) = t - 1
    BY <1>1, <2>1
  <2>3. \A i \in 1..(t - 1) : 1 + i - 1 = i
    BY <1>1
  <2>. QED BY <2>1, <2>2, <2>3
<1>3. /\ bottom \in Seq(Units) /\ Len(bottom) = n - t + 1
      /\ \A i \in 1..(n - t + 1) : bottom[i] = chunk[t + i - 1]
  <2>1. /\ bottom \in Seq(Units) /\ Len(bottom) = IF t <= n THEN n - t + 1 ELSE 0
        /\ \A i \in 1..Len(bottom) : bottom[i] = chunk[t + i - 1]
    BY <1>1, Stretch DEF n
  <2>. HIDE DEF bottom
  <2>2. Len(bottom) = n - t + 1
    BY <1>1, <2>1
  <2>. QED BY <2>1, <2>2
<1>4. \A B, known : Introduced(B, known, chunk) =>
          Introduced(B, known, top) /\ Introduced(B, known \cup Says(top), bottom)
  <2>. SUFFICES ASSUME NEW B, NEW known, Introduced(B, known, chunk)
                PROVE  Introduced(B, known, top) /\ Introduced(B, known \cup Says(top), bottom)
    OBVIOUS
  <2>. DEFINE more == known \cup Says(top)
  <2>1. \A i \in 1..(1 - 1) : i <= Len(chunk) => chunk[i].word \in known
    OBVIOUS
  <2>2. \A i \in 1..(t - 1) : i <= Len(chunk) => chunk[i].word \in more
    <3>. SUFFICES ASSUME NEW i \in 1..(t - 1) PROVE chunk[i].word \in Says(top)
      OBVIOUS
    <3>. HIDE DEF top
    <3>1. top[i] = chunk[i] /\ i \in 1..Len(top)
      BY <1>2
    <3>. QED BY <3>1 DEF Says
  <2>3. known \subseteq known /\ known \subseteq more
    OBVIOUS
  <2>. HIDE DEF more
  <2>4. Introduced(B, known, top)
    BY <1>1, <2>1, <2>3, StretchTells DEF n
  <2>5. Introduced(B, more, bottom)
    BY <1>1, <2>2, <2>3, StretchTells DEF n
  <2>. QED BY <2>4, <2>5 DEF more
<1>. HIDE DEF top, bottom
<1>5. both = chunk
  <2>1. /\ both \in Seq(Units) /\ Len(both) = Len(top) + Len(bottom)
        /\ \A i \in 1..Len(top) : both[i] = top[i]
        /\ \A i \in 1..Len(bottom) : both[Len(top) + i] = bottom[i]
    <3>1. top \in Seq(Units) /\ bottom \in Seq(Units)
      BY <1>2, <1>3
    <3>. QED BY <3>1
  <2>. HIDE DEF both
  <2>2. Len(both) = n
    BY <1>1, <1>2, <1>3, <2>1
  <2>3. ASSUME NEW i \in 1..n PROVE both[i] = chunk[i]
    <3>1. CASE i <= t - 1
      <4>1. i \in 1..(t - 1)
        BY <1>1, <3>1
      <4>. QED BY <1>2, <2>1, <4>1
    <3>2. CASE ~(i <= t - 1)
      <4>. DEFINE j == i - (t - 1)
      <4>1. j \in 1..(n - t + 1) /\ (t - 1) + j = i /\ t + j - 1 = i
        BY <1>1, <3>2
      <4>. HIDE DEF j
      <4>2. Len(top) + j = i /\ j \in 1..Len(bottom)
        BY <1>2, <1>3, <4>1
      <4>3. both[i] = bottom[j]
        BY <2>1, <4>2
      <4>4. bottom[j] = chunk[t + j - 1]
        BY <1>3, <4>1
      <4>. QED BY <4>1, <4>3, <4>4
    <3>. QED BY <3>1, <3>2
  <2>. QED BY <1>1, <2>1, <2>2, <2>3 DEF n
<1>6. Parts(both) = Parts(top) \cup Parts(bottom) /\ Says(both) = Says(top) \cup Says(bottom)
  BY <1>2, <1>3, JoinedTells
<1>. QED BY <1>2, <1>3, <1>4, <1>5, <1>6 DEF top, bottom, n

\* Only what is known of W matters.
LEMMA EnoughIsKnown ==
    ASSUME NEW B, NEW W, About(B, W), NEW known, NEW more, NEW units,
           \A v \in known : v \in W => v \in more, Introduced(B, known, units)
    PROVE  Introduced(B, more, units)
BY DEF Introduced, About

\* Headings found in the next chunk: each of their words is there, or one that it begins or ends.
Found(word, units) ==
    \E j \in 1..Len(units) : word = units[j].word \/ <<word, units[j].word>> \in Begins \cup Ends

LEMMA RepeatsTells ==
    ASSUME NEW headings \in Seq(Units), Len(headings) > 1, NEW following \in Seq(Units),
           Repeats(headings, following)
    PROVE  /\ Len(headings) <= Len(following)
           /\ \A w \in Says(headings) : Found(w, following)
<1>. DEFINE n == Len(headings)
            m == Len(following)
<1>1. n \in Nat /\ m \in Nat /\ n > 1
  OBVIOUS
<1>2. PICK i \in 1..(m - n + 1) :
          /\ \/ headings[1].word = following[i + 1 - 1].word
             \/ <<headings[1].word, following[i + 1 - 1].word>> \in Ends
          /\ \A k \in 2..(n - 1) : headings[k].word = following[i + k - 1].word
          /\ \/ headings[n].word = following[i + n - 1].word
             \/ <<headings[n].word, following[i + n - 1].word>> \in Begins
  BY DEF Repeats
<1>. HIDE DEF n, m
<1>3. n <= m
  BY <1>1, <1>2
<1>4. ASSUME NEW k \in 1..n PROVE Found(headings[k].word, following)
  <2>1. i + k - 1 \in 1..m
    BY <1>1, <1>2
  <2>2. k = 1 \/ k \in 2..(n - 1) \/ k = n
    BY <1>1
  <2>3. \/ headings[k].word = following[i + k - 1].word
        \/ <<headings[k].word, following[i + k - 1].word>> \in Begins \cup Ends
    BY <1>2, <2>2
  <2>. QED BY <2>1, <2>3 DEF Found, m
<1>5. \A w \in Says(headings) : Found(w, following)
  BY <1>4 DEF Says, n
<1>. QED BY <1>3, <1>5 DEF n, m

\* Headings end before the chunk they end does.
LEMMA HeadingsAreLong ==
    ASSUME NEW chunk \in Topped, NEW t, t = TrailingHeadings(chunk), t <= Len(chunk)
    PROVE  Len(Strip(SubSeq(chunk, t, Len(chunk)))) > 1
<1>. DEFINE n == Len(chunk)
            bottom == SubSeq(chunk, t, n)
<1>1. chunk \in Seq(Units) /\ n \in Nat /\ chunk[n].ends = "end"
  BY DEF Topped, Finished
<1>2. t \in 1..(n + 1) /\ t \in LineStarts(chunk) /\ \A k \in LineStarts(chunk) : k >= t => IsHeading(chunk, k)
  BY <1>1, TrailingIs
<1>3. t >= t
  BY <1>1, <1>2
<1>4. chunk[t].ends = "word"
  BY <1>2, <1>3 DEF IsHeading
<1>5. t # n
  BY <1>1, <1>4
<1>6. t < n /\ t \in Nat \ {0} /\ n \in Int /\ n <= n
  BY <1>1, <1>2, <1>5
<1>7. bottom \in Seq(Units) /\ Len(bottom) = n - t + 1
  BY <1>1, <1>6, Stretch
<1>8. Len(Strip(bottom)) = Len(bottom)
  BY <1>7, StripIs
<1>. HIDE DEF bottom, n
<1>9. Len(Strip(bottom)) > 1
  BY <1>1, <1>6, <1>7, <1>8
<1>. QED BY <1>9 DEF bottom, n

\* The chunk that gets the headings, or has them: what it says, and the parts it has.
NextChunk(headings, following) ==
    IF Repeats(headings, following) THEN following ELSE Join(headings, following)
StandsIn(v, w) == v = w \/ <<v, w>> \in Inside
Keeps(W, whole, headings, following, next) ==
    /\ Says(following) \subseteq Says(next) /\ Parts(following) \subseteq Parts(next)
    /\ \A w \in Says(headings) : w \in W => w \in Says(next)
    /\ \A r \in Parts(headings) :
          r \in Parts(next) \/ \E q \in Parts(next) : q \in whole /\ StandsIn(r[1], q[1])

LEMMA NextTells ==
    ASSUME NEW headings \in Seq(Units), Len(headings) > 1, NEW following \in Seq(Units),
           NEW B, NEW W, About(B, W), NEW whole, Unmistaken(W, whole), Clean(B, whole, following),
           NEW known, Introduced(B, known, headings),
           Introduced(B, known \cup Says(headings), following)
    PROVE  LET next == NextChunk(headings, following)
           IN /\ next \in Seq(Units) /\ Introduced(B, known, next)
              /\ Keeps(W, whole, headings, following, next)
<1>1. CASE ~Repeats(headings, following)
  <2>. DEFINE both == headings \o following
              next == Join(headings, following)
  <2>1. /\ Parts(both) = Parts(headings) \cup Parts(following)
        /\ Says(both) = Says(headings) \cup Says(following)
        /\ Introduced(B, known, both)
    BY JoinedTells
  <2>2. headings # <<>>
    <3>1. headings = <<>> => Len(headings) = 0
      OBVIOUS
    <3>. QED BY <3>1
  <2>3. Same(both, next) /\ next \in Seq(Units)
    BY <2>2, JoinIsSame, JoinIs
  <2>4. Parts(both) = Parts(next) /\ Says(both) = Says(next) /\ Introduced(B, known, next)
    BY <2>1, <2>3, SameTells
  <2>5. NextChunk(headings, following) = next
    BY <1>1 DEF NextChunk
  <2>. HIDE DEF both, next
  <2>6. Keeps(W, whole, headings, following, next)
    BY <2>1, <2>4 DEF Keeps
  <2>. QED BY <2>3, <2>4, <2>5, <2>6
<1>2. CASE Repeats(headings, following)
  <2>1. /\ Len(headings) <= Len(following)
        /\ \A w \in Says(headings) : Found(w, following)
    BY <1>2, RepeatsTells
  <2>2. Len(following) > 1
    <3>1. Len(headings) \in Nat /\ Len(following) \in Nat
      OBVIOUS
    <3>. QED BY <2>1, <3>1
  <2>3. Tidy(B, following) /\ Parts(following) \subseteq whole
    BY <2>2 DEF Clean
  <2>4. \A w \in Says(headings) : \E q \in Parts(following) :
            q \in whole /\ (w = q[1] \/ <<w, q[1]>> \in Begins \cup Ends)
    <3>. SUFFICES ASSUME NEW w \in Says(headings)
                  PROVE  \E q \in Parts(following) :
                             q \in whole /\ (w = q[1] \/ <<w, q[1]>> \in Begins \cup Ends)
      OBVIOUS
    <3>1. PICK j \in 1..Len(following) :
              w = following[j].word \/ <<w, following[j].word>> \in Begins \cup Ends
      BY <2>1 DEF Found
    <3>. DEFINE q == <<following[j].word, following[j].from, following[j].to>>
    <3>2. q \in Parts(following) /\ q[1] = following[j].word
      BY DEF Parts
    <3>. HIDE DEF q
    <3>3. q \in whole
      BY <2>3, <3>2
    <3>. QED BY <3>1, <3>2, <3>3
  <2>5. \A w \in Says(headings) : w \in W => w \in Says(following)
    <3>. SUFFICES ASSUME NEW w \in Says(headings), w \in W PROVE w \in Says(following)
      OBVIOUS
    <3>1. PICK q \in Parts(following) : q \in whole /\ (w = q[1] \/ <<w, q[1]>> \in Begins \cup Ends)
      BY <2>4
    <3>2. w = q[1]
      BY <3>1 DEF Unmistaken
    <3>3. q[1] \in Says(following)
      BY SaysIs
    <3>. QED BY <3>2, <3>3
  <2>6. Introduced(B, known, following)
    <3>. SUFFICES ASSUME NEW j \in 1..Len(following), NEW v, <<v, following[j].word>> \in B
                  PROVE  v \in known \/ \E a \in 1..(j - 1) : following[a].word = v
      BY DEF Introduced
    <3>1. v \in known \/ v \in Says(headings) \/ \E a \in 1..(j - 1) : following[a].word = v
      BY DEF Introduced
    <3>2. CASE v \in Says(headings)
      <4>1. v \in W
        BY DEF About
      <4>2. v \in Says(following)
        BY <2>5, <3>2, <4>1
      <4>3. PICK a \in 1..Len(following) : following[a].word = v
        BY <4>2 DEF Says
      <4>4. a < j
        BY <2>3, <4>3 DEF Tidy
      <4>5. a \in 1..(j - 1)
        BY <4>4
      <4>. QED BY <4>3, <4>5
    <3>. QED BY <3>1, <3>2
  <2>7. \A r \in Parts(headings) : \E q \in Parts(following) : q \in whole /\ StandsIn(r[1], q[1])
    <3>1. \A r \in Parts(headings) : r[1] \in Says(headings)
      BY SaysIs
    <3>2. Begins \cup Ends \subseteq Inside
      BY WordsInWords
    <3>. QED BY <2>4, <3>1, <3>2 DEF StandsIn
  <2>8. NextChunk(headings, following) = following
    BY <1>2 DEF NextChunk
  <2>9. Keeps(W, whole, headings, following, following)
    BY <2>5, <2>7 DEF Keeps
  <2>. QED BY <2>6, <2>8, <2>9
<1>. QED BY <1>1, <1>2

\* Every character of a text is in some parts: in its own word, or in a longer one of the text.
Longer(parts, whole, word) == \E q \in parts : q \in whole /\ <<word, q[1]>> \in Inside
Covered(parts, whole) ==
    \A p \in whole : \A n \in p[2]..(p[3] - 1) :
        \/ \E q \in parts : q[1] = p[1] /\ q[2] <= n /\ n < q[3]
        \/ Longer(parts, whole, p[1])

\* What is so of chunks while headings are moved.
Carries(B, whole, carried) ==
    /\ InTurn(B, {}, carried)
    /\ Covered(PartsOf(carried), whole)

\* One part for each word.
OnePartEach(whole) ==
    /\ \A p, q \in whole : p[1] = q[1] => p = q
    /\ \A p \in whole : p[2] \in Nat /\ p[3] \in Nat

\* One chunk split in two, the second part of it given to the next chunk or found there.
Moved(n, old, new, i, rest, headings, next) ==
    /\ old \in [1..n -> Seq(Units)] /\ new \in [1..n -> Seq(Units)]
    /\ n \in Nat /\ i \in 1..(n - 1)
    /\ \A j \in (1..n) \ {i, i + 1} : new[j] = old[j]
    /\ new[i] = rest /\ new[i + 1] = next
    /\ Parts(old[i]) = Parts(rest) \cup Parts(headings)
    /\ Says(old[i]) = Says(rest) \cup Says(headings)

LEMMA InsideInside ==
    ASSUME NEW u, NEW v, NEW w, <<u, v>> \in Inside, <<v, w>> \in Inside
    PROVE  <<u, w>> \in Inside
<1>1. <<u, v>>[2] = <<v, w>>[1] /\ <<u, v>>[1] = u /\ <<v, w>>[2] = w
  OBVIOUS
<1>2. <<<<u, v>>[1], <<v, w>>[2]>> \in Inside
  BY <1>1, WordsInWords
<1>. QED BY <1>1, <1>2

LEMMA MovedTells ==
    ASSUME NEW n, NEW old, NEW new, NEW i, NEW rest, NEW headings, NEW next,
           Moved(n, old, new, i, rest, headings, next),
           NEW B, NEW W, About(B, W), NEW whole, OnePartEach(whole), Carries(B, whole, old),
           Introduced(B, Told(old, i - 1), rest),
           Introduced(B, Told(old, i - 1) \cup Says(rest), next),
           Keeps(W, whole, headings, old[i + 1], next)
    PROVE  Carries(B, whole, new)
<1>1. /\ n \in Nat /\ i \in 1..n /\ i + 1 \in 1..n /\ i \in Nat
      /\ Len(old) = n /\ Len(new) = n
      /\ \A j \in 1..n : j \notin {i, i + 1} => new[j] = old[j]
      /\ new[i] = rest /\ new[i + 1] = next
      /\ Parts(old[i]) = Parts(rest) \cup Parts(headings)
      /\ Says(old[i]) = Says(rest) \cup Says(headings)
  BY DEF Moved
<1>0. /\ Says(old[i + 1]) \subseteq Says(next) /\ Parts(old[i + 1]) \subseteq Parts(next)
      /\ \A w \in Says(headings) : w \in W => w \in Says(next)
      /\ \A r \in Parts(headings) :
            r \in Parts(next) \/ \E q \in Parts(next) : q \in whole /\ StandsIn(r[1], q[1])
  BY DEF Keeps
<1>2. \A k \in 1..n : Introduced(B, Told(old, k - 1), old[k])
  <2>. TAKE k \in 1..n
  <2>1. Introduced(B, {} \cup Told(old, k - 1), old[k])
    BY <1>1 DEF Carries, InTurn
  <2>2. {} \cup Told(old, k - 1) = Told(old, k - 1)
    OBVIOUS
  <2>. QED BY <2>1, <2>2
<1>3. ASSUME NEW k \in 0..n, k < i PROVE Told(new, k) = Told(old, k)
  <2>1. \A l \in 1..k : new[l] = old[l]
    BY <1>1, <1>3
  <2>2. {Says(new[l]) : l \in 1..k} = {Says(old[l]) : l \in 1..k}
    BY <2>1
  <2>. QED BY <2>2 DEF Told
<1>4. ASSUME NEW k \in 0..n, k > i, NEW v \in Told(old, k), v \in W PROVE v \in Told(new, k)
  <2>1. PICK l \in 1..k : v \in Says(old[l])
    BY DEF Told
  <2>2. i \in 1..k /\ i + 1 \in 1..k /\ l \in 1..n
    BY <1>1, <1>4
  <2>3. \E a \in 1..k : v \in Says(new[a])
    <3>1. CASE l = i
      <4>1. v \in Says(new[i]) \/ v \in Says(new[i + 1])
        BY <1>0, <1>1, <1>4, <2>1, <3>1
      <4>. QED BY <2>2, <4>1
    <3>2. CASE l = i + 1
      BY <1>0, <1>1, <2>1, <2>2, <3>2
    <3>3. CASE l \notin {i, i + 1}
      BY <1>1, <2>1, <2>2, <3>3
    <3>. QED BY <3>1, <3>2, <3>3
  <2>. QED BY <2>3 DEF Told
<1>5. Told(new, i) = Told(old, i - 1) \cup Says(rest)
  <2>1. Told(new, i) = Told(new, i - 1) \cup Says(new[i])
    <3>1. \A l \in 1..i : l \in 1..(i - 1) \/ l = i
      BY <1>1
    <3>2. i \in 1..i /\ \A l \in 1..(i - 1) : l \in 1..i
      BY <1>1
    <3>. QED BY <3>1, <3>2 DEF Told
  <2>2. i - 1 \in 0..n /\ i - 1 < i
    BY <1>1
  <2>. QED BY <1>1, <1>3, <2>1, <2>2
<1>6. ASSUME NEW k \in 1..n PROVE Introduced(B, Told(new, k - 1), new[k])
  <2>1. k - 1 \in 0..n
    BY <1>1
  <2>2. CASE k < i
    <3>1. new[k] = old[k] /\ k - 1 < i
      BY <1>1, <2>2
    <3>. QED BY <1>2, <1>3, <2>1, <3>1
  <2>3. CASE k = i
    <3>1. k - 1 < i
      BY <1>1, <2>3
    <3>. QED BY <1>1, <1>3, <2>1, <2>3, <3>1
  <2>4. CASE k = i + 1
    <3>1. k - 1 = i
      BY <1>1, <2>4
    <3>. QED BY <1>1, <1>5, <2>4, <3>1
  <2>5. CASE k > i + 1
    <3>1. new[k] = old[k] /\ k - 1 > i
      BY <1>1, <2>5
    <3>2. \A v \in Told(old, k - 1) : v \in W => v \in Told(new, k - 1)
      BY <1>4, <2>1, <3>1
    <3>3. Introduced(B, Told(old, k - 1), new[k])
      BY <1>2, <3>1
    <3>. QED BY <3>2, <3>3, EnoughIsKnown
  <2>. QED BY <1>1, <2>2, <2>3, <2>4, <2>5
<1>7. InTurn(B, {}, new)
  <2>1. \A k \in 1..n : {} \cup Told(new, k - 1) = Told(new, k - 1)
    OBVIOUS
  <2>. QED BY <1>1, <1>6, <2>1 DEF InTurn
\* A part that was there is there, or a whole one that its word stands in.
<1>8. ASSUME NEW r \in PartsOf(old)
      PROVE  r \in PartsOf(new) \/ \E q \in PartsOf(new) : q \in whole /\ StandsIn(r[1], q[1])
  <2>1. PICK l \in 1..n : r \in Parts(old[l])
    BY <1>1 DEF PartsOf
  <2>2. \E j \in 1..n : \/ r \in Parts(new[j])
                        \/ \E q \in Parts(new[j]) : q \in whole /\ StandsIn(r[1], q[1])
    <3>1. CASE l = i
      <4>1. r \in Parts(rest) \/ r \in Parts(headings)
        BY <1>1, <2>1, <3>1
      <4>. QED BY <1>0, <1>1, <4>1
    <3>2. CASE l = i + 1
      BY <1>0, <1>1, <2>1, <3>2
    <3>3. CASE l \notin {i, i + 1}
      BY <1>1, <2>1, <3>3
    <3>. QED BY <3>1, <3>2, <3>3
  <2>3. PICK j \in 1..n : \/ r \in Parts(new[j])
                          \/ \E q \in Parts(new[j]) : q \in whole /\ StandsIn(r[1], q[1])
    BY <2>2
  <2>4. Parts(new[j]) \subseteq PartsOf(new)
    BY <1>1 DEF PartsOf
  <2>. QED BY <2>3, <2>4
<1>9. Covered(PartsOf(new), whole)
  <2>. SUFFICES ASSUME NEW p \in whole, NEW m \in p[2]..(p[3] - 1)
                PROVE  \/ \E q \in PartsOf(new) : q[1] = p[1] /\ q[2] <= m /\ m < q[3]
                       \/ Longer(PartsOf(new), whole, p[1])
    BY DEF Covered
  <2>1. p[2] <= m /\ m < p[3]
    BY DEF OnePartEach
  <2>2. CASE \E r \in PartsOf(old) : r[1] = p[1] /\ r[2] <= m /\ m < r[3]
    <3>1. PICK r \in PartsOf(old) : r[1] = p[1] /\ r[2] <= m /\ m < r[3]
      BY <2>2
    <3>2. r \in PartsOf(new) \/ \E q \in PartsOf(new) : q \in whole /\ StandsIn(r[1], q[1])
      BY <1>8
    <3>3. CASE r \in PartsOf(new)
      BY <3>1, <3>3
    <3>4. CASE \E q \in PartsOf(new) : q \in whole /\ StandsIn(r[1], q[1])
      <4>1. PICK q \in PartsOf(new) : q \in whole /\ StandsIn(p[1], q[1])
        BY <3>1, <3>4
      <4>2. CASE p[1] = q[1]
        <5>1. q = p
          BY <4>1, <4>2 DEF OnePartEach
        <5>. QED BY <2>1, <5>1
      <4>3. CASE <<p[1], q[1]>> \in Inside
        BY <4>1, <4>3 DEF Longer
      <4>. QED BY <4>1, <4>2, <4>3 DEF StandsIn
    <3>. QED BY <3>2, <3>3, <3>4
  <2>3. CASE Longer(PartsOf(old), whole, p[1])
    <3>1. PICK r \in PartsOf(old) : r \in whole /\ <<p[1], r[1]>> \in Inside
      BY <2>3 DEF Longer
    <3>2. r \in PartsOf(new) \/ \E q \in PartsOf(new) : q \in whole /\ StandsIn(r[1], q[1])
      BY <1>8
    <3>3. CASE r \in PartsOf(new)
      BY <3>1, <3>3 DEF Longer
    <3>4. CASE \E q \in PartsOf(new) : q \in whole /\ StandsIn(r[1], q[1])
      <4>1. PICK q \in PartsOf(new) : q \in whole /\ StandsIn(r[1], q[1])
        BY <3>4
      <4>2. <<p[1], q[1]>> \in Inside
        BY <3>1, <4>1, InsideInside DEF StandsIn
      <4>. QED BY <4>1, <4>2 DEF Longer
    <3>. QED BY <3>2, <3>3, <3>4
  <2>4. \/ \E r \in PartsOf(old) : r[1] = p[1] /\ r[2] <= m /\ m < r[3]
        \/ Longer(PartsOf(old), whole, p[1])
    BY DEF Carries, Covered
  <2>. QED BY <2>2, <2>3, <2>4
<1>. QED BY <1>7, <1>9 DEF Carries

LEMMA CarryOneTells ==
    ASSUME NEW n \in Nat, NEW carried \in [1..n -> Seq(Units)], NEW i \in 1..(n - 1),
           carried[i] \in Topped,
           NEW B, NEW W, About(B, W), NEW whole, Unmistaken(W, whole), OnePartEach(whole),
           Clean(B, whole, carried[i + 1]), Carries(B, whole, carried)
    PROVE  Carries(B, whole, CarryHeading(carried, i))
<1>. DEFINE chunk == carried[i]
            t == TrailingHeadings(chunk)
            top == SubSeq(chunk, 1, t - 1)
            bottom == SubSeq(chunk, t, Len(chunk))
            headings == Strip(bottom)
            rest == Strip(top)
            following == carried[i + 1]
            next == NextChunk(headings, following)
            new == CarryHeading(carried, i)
            known == Told(carried, i - 1)
<1>1. i \in 1..n /\ i + 1 \in 1..n /\ i # i + 1
  OBVIOUS
<1>2. new = IF headings = <<>> THEN carried ELSE [carried EXCEPT ![i] = rest, ![i + 1] = next]
  BY DEF CarryHeading, NextChunk
<1>3. chunk \in Seq(Units) /\ following \in Seq(Units) /\ Len(chunk) \in Nat
  BY <1>1
<1>4. t \in 1..(Len(chunk) + 1)
  BY <1>3, TrailingIs
<1>5. new \in [1..n -> Seq(Units)] /\ \A j \in (1..n) \ {i, i + 1} : new[j] = carried[j]
  BY CarryHeadingIs
<1>6. Introduced(B, known, chunk) /\ Len(carried) = n
  <2>1. Len(carried) = n
    OBVIOUS
  <2>2. Introduced(B, {} \cup known, chunk)
    BY <1>1, <2>1 DEF Carries, InTurn
  <2>3. {} \cup known = known
    OBVIOUS
  <2>. HIDE DEF known, chunk
  <2>. QED BY <2>1, <2>2, <2>3
<1>. HIDE DEF t, known
<1>7. /\ top \in Seq(Units) /\ bottom \in Seq(Units)
      /\ Parts(chunk) = Parts(top) \cup Parts(bottom)
      /\ Says(chunk) = Says(top) \cup Says(bottom)
      /\ Introduced(B, known, top) /\ Introduced(B, known \cup Says(top), bottom)
  <2>. HIDE DEF chunk
  <2>. QED BY <1>3, <1>4, <1>6, TopAndBottom
<1>. HIDE DEF top, bottom, chunk, following
<1>8. /\ rest \in Seq(Units) /\ headings \in Seq(Units)
      /\ Parts(rest) = Parts(top) /\ Parts(headings) = Parts(bottom)
      /\ Says(rest) = Says(top) /\ Says(headings) = Says(bottom)
      /\ Introduced(B, known, rest) /\ Introduced(B, known \cup Says(top), headings)
  <2>1. Same(top, rest) /\ Same(bottom, headings) /\ rest \in Seq(Units) /\ headings \in Seq(Units)
    BY <1>7, EndedIsSame, StripIs
  <2>. HIDE DEF rest, headings
  <2>. QED BY <1>7, <2>1, SameTells
<1>9. CASE headings = <<>>
  BY <1>2, <1>9
<1>10. CASE headings # <<>>
  <2>1. t <= Len(chunk)
    <3>. SUFFICES ASSUME ~(t <= Len(chunk)) PROVE FALSE
      OBVIOUS
    <3>1. Len(bottom) = IF t <= Len(chunk) THEN Len(chunk) - t + 1 ELSE 0
      <4>1. t \in Nat \ {0} /\ Len(chunk) \in Int /\ Len(chunk) <= Len(chunk)
        BY <1>3, <1>4
      <4>. QED BY <1>3, <4>1, Stretch DEF bottom
    <3>2. Len(headings) = 0
      BY <1>7, <3>1, StripIs
    <3>. HIDE DEF headings
    <3>. QED BY <1>8, <1>10, <3>2
  <2>2. Len(headings) > 1
    <3>1. chunk \in Topped /\ t = TrailingHeadings(chunk)
      BY DEF chunk, t
    <3>. QED BY <2>1, <3>1, HeadingsAreLong DEF bottom
  <2>. HIDE DEF headings, rest
  <2>3. Introduced(B, (known \cup Says(top)) \cup Says(headings), following)
    <3>1. Introduced(B, {} \cup Told(carried, (i + 1) - 1), following)
      BY <1>1, <1>6 DEF Carries, InTurn, following
    <3>2. Told(carried, i) = known \cup Says(chunk)
      <4>1. \A l \in 1..i : l \in 1..(i - 1) \/ l = i
        OBVIOUS
      <4>2. i \in 1..i /\ \A l \in 1..(i - 1) : l \in 1..i
        OBVIOUS
      <4>. QED BY <4>1, <4>2 DEF Told, known, chunk
    <3>3. (i + 1) - 1 = i
      OBVIOUS
    <3>4. {} \cup Told(carried, (i + 1) - 1) = (known \cup Says(top)) \cup Says(headings)
      BY <1>7, <1>8, <3>2, <3>3
    <3>. QED BY <3>1, <3>4
  <2>. DEFINE known2 == known \cup Says(top)
  <2>4. Clean(B, whole, following) /\ Introduced(B, known2, headings)
        /\ Introduced(B, known2 \cup Says(headings), following)
    BY <1>8, <2>3 DEF following
  <2>. HIDE DEF known2
  <2>5. /\ next \in Seq(Units) /\ Introduced(B, known2, next)
        /\ Keeps(W, whole, headings, following, next)
    BY <1>3, <1>8, <2>2, <2>4, NextTells
  <2>. HIDE DEF next, new
  <2>6. new[i] = rest /\ new[i + 1] = next
    BY <1>1, <1>2, <1>10
  <2>7. /\ Parts(carried[i]) = Parts(rest) \cup Parts(headings)
        /\ Says(carried[i]) = Says(rest) \cup Says(headings)
    BY <1>7, <1>8 DEF chunk
  <2>8. Moved(n, carried, new, i, rest, headings, next)
    BY <1>5, <2>6, <2>7 DEF Moved
  <2>9. /\ Introduced(B, Told(carried, i - 1), rest)
        /\ Introduced(B, Told(carried, i - 1) \cup Says(rest), next)
        /\ Keeps(W, whole, headings, carried[i + 1], next)
    BY <1>8, <2>5 DEF known, known2, following
  <2>10. Carries(B, whole, new)
    BY <2>8, <2>9, MovedTells
  <2>. QED BY <2>10 DEF new
<1>. QED BY <1>9, <1>10

LEMMA ChosenTells ==
    ASSUME NEW carried \in Seq(Seq(Units)), NEW filled \in SUBSET (1..Len(carried)),
           \A l \in 1..Len(carried) : l \notin filled => carried[l] = <<>>
    PROVE  LET result == Chosen(carried, filled)
           IN /\ result \in Seq(Seq(Units)) /\ PartsOf(result) = PartsOf(carried)
              /\ \A B : InTurn(B, {}, carried) => InTurn(B, {}, result)
<1>. DEFINE S == Seq(Units)
            result == Chosen(carried, filled)
            order == Ascending(filled)
            many == Cardinality(filled)
            n == Len(carried)
<1>1. carried \in Seq(S) /\ filled \in SUBSET (1..Len(carried))
  OBVIOUS
<1>. HIDE DEF S, result, order, many
<1>2. /\ many \in Nat
      /\ order \in [1..many -> filled]
      /\ \A i \in filled : \E k \in 1..many : order[k] = i
      /\ \A i, j \in 1..many : i < j => order[i] < order[j]
      /\ result \in Seq(S) /\ Len(result) = many
      /\ \A k \in 1..many : result[k] = carried[order[k]]
  <2>1. LET to == Cardinality(filled)
            by == Ascending(filled)
        IN /\ to \in Nat /\ to <= Len(carried)
           /\ by \in [1..to -> filled]
           /\ \A i \in filled : \E k \in 1..to : by[k] = i
           /\ \A i, j \in 1..to : i < j => by[i] < by[j]
           /\ Chosen(carried, filled) \in Seq(S)
           /\ Len(Chosen(carried, filled)) = to
           /\ \A k \in 1..to : Chosen(carried, filled)[k] = carried[by[k]]
    <3>1. carried \in Seq(S) /\ filled \in SUBSET (1..Len(carried))
      BY <1>1
    <3>. QED BY <3>1, ChosenIsInOrder, ZenonT(60)
  <2>. QED BY <2>1 DEF result, order, many
<1>3. n \in Nat /\ \A k \in 1..many : order[k] \in 1..n /\ order[k] \in filled
  <2>1. \A k \in 1..many : order[k] \in filled
    BY <1>2
  <2>2. n \in Nat
    OBVIOUS
  <2>. HIDE DEF n
  <2>3. \A l \in filled : l \in 1..n
    BY <1>1 DEF n
  <2>. QED BY <2>1, <2>2, <2>3
<1>4. \A l \in 1..n : l \notin filled => Says(carried[l]) = {} /\ Parts(carried[l]) = {}
  BY NothingSaid
<1>. HIDE DEF n
<1>5. \A k \in 1..many : Told(result, k - 1) = Told(carried, order[k] - 1)
  <2>. TAKE k \in 1..many
  <2>1. ASSUME NEW v \in Told(result, k - 1) PROVE v \in Told(carried, order[k] - 1)
    <3>1. PICK l \in 1..(k - 1) : v \in Says(result[l])
      BY <2>1 DEF Told
    <3>2. l \in 1..many /\ l < k
      BY <1>2, <3>1
    <3>3. order[l] < order[k] /\ order[l] \in 1..n /\ order[k] \in 1..n
      BY <1>2, <1>3, <3>2
    <3>4. order[l] \in 1..(order[k] - 1)
      BY <1>3, <3>3
    <3>5. v \in Says(carried[order[l]])
      BY <1>2, <3>1, <3>2
    <3>. QED BY <3>4, <3>5 DEF Told
  <2>2. ASSUME NEW v \in Told(carried, order[k] - 1) PROVE v \in Told(result, k - 1)
    <3>1. PICK l \in 1..(order[k] - 1) : v \in Says(carried[l])
      BY <2>2 DEF Told
    <3>2. l \in 1..n /\ l < order[k]
      BY <1>3
    <3>3. l \in filled
      BY <1>4, <3>1, <3>2
    <3>4. PICK a \in 1..many : order[a] = l
      BY <1>2, <3>3
    <3>5. a < k
      <4>. SUFFICES ASSUME ~(a < k) PROVE FALSE
        OBVIOUS
      <4>1. a = k \/ k < a
        BY <1>2
      <4>2. k < a => order[k] < order[a]
        BY <1>2
      <4>3. order[k] \in Int /\ order[a] \in Int
        BY <1>3
      <4>. QED BY <3>2, <3>4, <4>1, <4>2, <4>3
    <3>6. a \in 1..(k - 1)
      BY <3>5
    <3>7. v \in Says(result[a])
      BY <1>2, <3>1, <3>4
    <3>. QED BY <3>6, <3>7 DEF Told
  <2>. QED BY <2>1, <2>2
<1>6. ASSUME NEW B, InTurn(B, {}, carried) PROVE InTurn(B, {}, result)
  <2>. SUFFICES ASSUME NEW k \in 1..many PROVE Introduced(B, {} \cup Told(result, k - 1), result[k])
    BY <1>2 DEF InTurn
  <2>1. Introduced(B, {} \cup Told(carried, order[k] - 1), carried[order[k]])
    BY <1>3, <1>6 DEF InTurn, n
  <2>. QED BY <1>2, <1>5, <2>1
<1>7. PartsOf(result) = PartsOf(carried)
  <2>1. ASSUME NEW p \in PartsOf(result) PROVE p \in PartsOf(carried)
    <3>1. PICK k \in 1..many : p \in Parts(result[k])
      BY <1>2, <2>1 DEF PartsOf
    <3>2. order[k] \in 1..n /\ p \in Parts(carried[order[k]])
      BY <1>2, <1>3, <3>1
    <3>. QED BY <3>2 DEF PartsOf, n
  <2>2. ASSUME NEW p \in PartsOf(carried) PROVE p \in PartsOf(result)
    <3>1. PICK l \in 1..n : p \in Parts(carried[l])
      BY <2>2 DEF PartsOf, n
    <3>2. l \in filled
      BY <1>4, <3>1
    <3>3. PICK a \in 1..many : order[a] = l
      BY <1>2, <3>2
    <3>. QED BY <1>2, <3>1, <3>3 DEF PartsOf
  <2>. QED BY <2>1, <2>2
<1>. QED BY <1>2, <1>6, <1>7 DEF result, S

LEMMA CarriedTell ==
    ASSUME NEW chunks \in Seq(Solid), NEW B, NEW W, About(B, W), NEW whole, Unmistaken(W, whole),
           OnePartEach(whole), AllClean(B, whole, chunks), Carries(B, whole, chunks)
    PROVE  Carries(B, whole, CarryHeadings(chunks))
<1>. DEFINE n == Len(chunks)
            m == n - 1
            places == [i \in 1..m |-> i]
            carried == FoldLeft(CarryHeading, chunks, places)
            filled == {i \in DOMAIN carried : carried[i] # <<>>}
<1>1. /\ n \in Nat /\ chunks \in [1..n -> Seq(Units)]
      /\ \A k \in 1..n : chunks[k] \in Solid /\ Clean(B, whole, chunks[k])
  BY DEF Solid, Fitting, AllClean
<1>2. CarryHeadings(chunks) = Chosen(carried, filled)
  BY DEF CarryHeadings
<1>3. /\ places \in Seq(1..m)
      /\ Len(places) = IF n = 0 THEN 0 ELSE m
      /\ \A k \in 1..Len(places) : places[k] = k
  <2>1. CASE n = 0
    <3>1. 1..m = 1..0
      BY <2>1
    <3>2. places = [i \in 1..0 |-> i]
      BY <3>1
    <3>. QED BY <2>1, <3>2
  <2>2. CASE n # 0
    <3>1. m \in Nat
      BY <1>1, <2>2
    <3>. HIDE DEF m
    <3>. QED BY <2>2, <3>1
  <2>. QED BY <2>1, <2>2
<1>. DEFINE last == Len(places)
<1>4. last \in Nat /\ (n > 0 => last = n - 1) /\ (n = 0 => last = 0)
  <2>. HIDE DEF n, places
  <2>. QED BY <1>1, <1>3
<1>. HIDE DEF places, n
<1>5. PICK h : /\ h \in [0..last -> [1..n -> Seq(Units)]]
               /\ h[0] = chunks
               /\ \A k \in 1..last : h[k] = CarryHeading(h[k - 1], places[k])
               /\ h[last] = carried
  <2>1. n \in Nat /\ chunks \in [1..n -> Seq(Units)] /\ places \in Seq(1..(n - 1))
    BY <1>1, <1>3
  <2>. HIDE DEF m, filled
  <2>2. \E h : /\ h \in [0..Len(places) -> [1..n -> Seq(Units)]]
               /\ h[0] = chunks
               /\ \A k \in 1..Len(places) : h[k] = CarryHeading(h[k - 1], places[k])
               /\ h[Len(places)] = FoldLeft(CarryHeading, chunks, places)
    BY <2>1, CarrySteps, ZenonT(30)
  <2>. QED BY <2>2
<1>. HIDE DEF last, carried
<1>. DEFINE Good(k) == /\ Carries(B, whole, h[k])
                       /\ \A j \in 1..n : j = k + 1 => h[k][j] \in Topped
                       /\ \A j \in 1..n : j > k + 1 => h[k][j] = chunks[j]
            T == {k \in 0..last : Good(k)}
<1>6. 0 \in T
  <2>1. \A x \in Solid : x \in Topped
    BY DEF Topped, Solid, Fitting
  <2>2. Good(0)
    BY <1>1, <1>5, <2>1
  <2>. QED BY <1>4, <2>2
<1>7. \A k \in 0..(last - 1) : k \in T => k + 1 \in T
  <2>. SUFFICES ASSUME NEW k \in 0..(last - 1), Good(k)
                PROVE  k + 1 \in 0..last /\ Good(k + 1)
    OBVIOUS
  <2>. DEFINE i == k + 1
  <2>1. /\ k \in 0..last /\ i \in 1..last /\ i - 1 = k /\ i \in 1..m /\ m = n - 1
        /\ i \in 1..n /\ i + 1 \in 1..n
    BY <1>1, <1>4
  <2>2. h[i] = CarryHeading(h[k], i)
    BY <1>3, <1>5, <2>1 DEF last
  <2>3. h[k] \in [1..n -> Seq(Units)]
    BY <1>5, <2>1
  <2>4. /\ Carries(B, whole, h[k]) /\ h[k][i] \in Topped
        /\ \A j \in 1..n : j > i => h[k][j] = chunks[j]
    BY <2>1
  <2>. HIDE DEF Good, i, m
  <2>5. n \in Nat /\ i \in 1..(n - 1) /\ i + 1 > i
    BY <1>1, <2>1
  <2>6. h[k][i + 1] = chunks[i + 1]
    BY <2>1, <2>4, <2>5
  <2>7. h[k][i + 1] \in Solid /\ Clean(B, whole, h[k][i + 1])
    BY <1>1, <2>1, <2>6
  <2>8. Carries(B, whole, h[i])
    BY <2>2, <2>3, <2>4, <2>5, <2>7, CarryOneTells
  <2>9. h[i][i + 1] \in Topped
    BY <2>2, <2>3, <2>4, <2>5, <2>7, CarryOne
  <2>10. \A j \in (1..n) \ {i, i + 1} : h[i][j] = h[k][j]
    <3>1. \A j \in (1..n) \ {i, i + 1} : CarryHeading(h[k], i)[j] = h[k][j]
      BY <2>3, <2>5, CarryHeadingIs
    <3>. QED BY <2>2, <3>1
  <2>11. \A j \in 1..n : j > i + 1 => h[i][j] = chunks[j]
    <3>. SUFFICES ASSUME NEW j \in 1..n, j > i + 1 PROVE h[i][j] = chunks[j]
      OBVIOUS
    <3>1. j > i /\ j \in (1..n) \ {i, i + 1}
      BY <2>5
    <3>. QED BY <2>4, <2>10, <3>1
  <2>. QED BY <2>1, <2>8, <2>9, <2>11 DEF Good, i
<1>8. Good(last)
  <2>1. last \in 0..last
    BY <1>4
  <2>. HIDE DEF T
  <2>2. 0..last \subseteq T
    BY <1>4, <1>6, <1>7, InductionUpTo
  <2>. QED BY <2>1, <2>2 DEF T
<1>9. carried \in [1..n -> Seq(Units)] /\ carried = h[last] /\ DOMAIN carried = 1..n
  <2>1. last \in 0..last
    BY <1>4
  <2>. QED BY <1>5, <2>1
<1>10. carried \in Seq(Seq(Units)) /\ Len(carried) = n /\ Carries(B, whole, carried)
  <2>1. Carries(B, whole, carried)
    BY <1>8, <1>9
  <2>2. n \in Nat /\ carried \in [1..n -> Seq(Units)]
    BY <1>1, <1>9
  <2>3. carried \in Seq(Seq(Units)) /\ Len(carried) = n
    <3>. HIDE DEF Good, T, m, filled
    <3>. QED BY <2>2
  <2>. QED BY <2>1, <2>3
<1>11. /\ filled \in SUBSET (1..Len(carried))
       /\ \A l \in 1..Len(carried) : l \notin filled => carried[l] = <<>>
  BY <1>9, <1>10
<1>. HIDE DEF filled, T, Good
<1>12. LET result == Chosen(carried, filled)
       IN /\ result \in Seq(Seq(Units)) /\ PartsOf(result) = PartsOf(carried)
          /\ InTurn(B, {}, carried) => InTurn(B, {}, result)
  BY <1>10, <1>11, ChosenTells
<1>. QED BY <1>2, <1>10, <1>12 DEF Carries

-----------------------------------------------------------------------------
(* Short chunks joined to their neighbours, which leaves all words where they are. *)

\* The parts of the first k texts.
PartsUpTo(some, k) == UNION {Parts(some[l]) : l \in 1..k}

\* A list of chunks that have what the first k of others have, in its order.
Merges(B, merged, chunks, k) ==
    /\ InTurn(B, {}, merged)
    /\ Told(merged, Len(merged)) = Told(chunks, k)
    /\ PartsOf(merged) = PartsUpTo(chunks, k)

LEMMA KeptAreTexts == \A merged \in Seq(Kept) : merged \in Seq(Seq(Units))
<1>1. Kept \subseteq Seq(Units)
  BY DEF Kept
<1>. QED BY <1>1

LEMMA OneMore ==
    ASSUME NEW chunks, NEW k \in Nat
    PROVE  /\ Told(chunks, k + 1) = Told(chunks, k) \cup Says(chunks[k + 1])
           /\ PartsUpTo(chunks, k + 1)
                 = PartsUpTo(chunks, k) \cup Parts(chunks[k + 1])
<1>1. \A l \in 1..(k + 1) : l \in 1..k \/ l = k + 1
  OBVIOUS
<1>2. k + 1 \in 1..(k + 1) /\ \A l \in 1..k : l \in 1..(k + 1)
  OBVIOUS
<1>3. Told(chunks, k + 1) = Told(chunks, k) \cup Says(chunks[k + 1])
  BY <1>1, <1>2 DEF Told
<1>4. PartsUpTo(chunks, k + 1)
         = PartsUpTo(chunks, k) \cup Parts(chunks[k + 1])
  BY <1>1, <1>2 DEF PartsUpTo
<1>. QED BY <1>3, <1>4

LEMMA SameBeginning ==
    ASSUME NEW a, NEW b, NEW k \in Nat, \A l \in 1..k : a[l] = b[l]
    PROVE  /\ Told(a, k) = Told(b, k)
           /\ PartsUpTo(a, k) = PartsUpTo(b, k)
<1>1. {Says(a[l]) : l \in 1..k} = {Says(b[l]) : l \in 1..k}
  OBVIOUS
<1>2. {Parts(a[l]) : l \in 1..k} = {Parts(b[l]) : l \in 1..k}
  OBVIOUS
<1>. QED BY <1>1, <1>2 DEF Told, PartsUpTo

LEMMA JoinLastTells ==
    ASSUME NEW merged \in Seq(Kept), merged # <<>>, NEW chunk \in Kept, NEW B, InTurn(B, {}, merged),
           Introduced(B, Told(merged, Len(merged)), chunk)
    PROVE  LET more == JoinLast(merged, chunk)
           IN /\ InTurn(B, {}, more)
              /\ Told(more, Len(more)) = Told(merged, Len(merged)) \cup Says(chunk)
              /\ PartsOf(more) = PartsOf(merged) \cup Parts(chunk)
<1>. DEFINE n == Len(merged)
            m == n - 1
            a == merged[n]
            both == a \o chunk
            d == Join(a, chunk)
            more == JoinLast(merged, chunk)
            known == Told(merged, m)
<1>1. /\ n \in Nat /\ m \in Nat /\ n = m + 1 /\ n \in 1..n /\ a \in Seq(Units) /\ a # <<>>
      /\ chunk \in Seq(Units) /\ \A j \in 1..m : j \in 1..n
  <2>1. n \in Nat /\ n > 0
    OBVIOUS
  <2>2. merged[n] \in Kept
    BY <2>1
  <2>. HIDE DEF n
  <2>. QED BY <2>1, <2>2 DEF Kept
<1>2. Len(more) = n /\ more[n] = d /\ \A j \in 1..m : more[j] = merged[j]
  BY JoinLastIs
<1>3. \A k \in 1..n : Introduced(B, {} \cup Told(merged, k - 1), merged[k])
  BY DEF InTurn
<1>4. Told(merged, n) = known \cup Says(a)
      /\ PartsUpTo(merged, n) = PartsUpTo(merged, m) \cup Parts(a)
  <2>. HIDE DEF n, m
  <2>. QED BY <1>1, OneMore
<1>5. Introduced(B, known, a)
  <2>1. {} \cup Told(merged, n - 1) = known
    BY <1>1
  <2>. HIDE DEF known, n
  <2>. QED BY <1>1, <1>3, <2>1
<1>6. Introduced(B, known \cup Says(a), chunk)
  <2>. HIDE DEF known, a
  <2>. QED BY <1>4 DEF n
<1>. HIDE DEF a, known, more, m, n
<1>7. /\ Introduced(B, known, both) /\ Says(both) = Says(a) \cup Says(chunk)
      /\ Parts(both) = Parts(a) \cup Parts(chunk)
  BY <1>1, <1>5, <1>6, JoinedTells
<1>8. Same(both, d)
  BY <1>1, JoinIsSame
<1>. HIDE DEF both, d
<1>9. /\ Introduced(B, known, d) /\ Says(d) = Says(a) \cup Says(chunk)
      /\ Parts(d) = Parts(a) \cup Parts(chunk)
  BY <1>7, <1>8, SameTells
<1>10. \A k \in 0..m : Told(more, k) = Told(merged, k)
  <2>. TAKE k \in 0..m
  <2>1. k \in Nat /\ \A l \in 1..k : more[l] = merged[l]
    BY <1>1, <1>2
  <2>. QED BY <2>1, SameBeginning
<1>11. PartsUpTo(more, m) = PartsUpTo(merged, m)
  BY <1>1, <1>2, SameBeginning
<1>12. Told(more, n) = Told(more, m) \cup Says(d)
       /\ PartsUpTo(more, n) = PartsUpTo(more, m) \cup Parts(d)
  BY <1>1, <1>2, OneMore
<1>13. m \in 0..m /\ Told(more, m) = known
  BY <1>1, <1>10 DEF known
<1>14. Told(more, n) = Told(merged, n) \cup Says(chunk)
  BY <1>4, <1>9, <1>12, <1>13
<1>15. PartsOf(more) = PartsOf(merged) \cup Parts(chunk)
  <2>1. PartsOf(more) = PartsUpTo(more, n)
    BY <1>2 DEF PartsOf, PartsUpTo
  <2>2. PartsOf(merged) = PartsUpTo(merged, n)
    BY DEF PartsOf, PartsUpTo, n
  <2>. QED BY <1>4, <1>9, <1>11, <1>12, <2>1, <2>2
<1>16. InTurn(B, {}, more)
  <2>. SUFFICES ASSUME NEW k \in 1..n PROVE Introduced(B, {} \cup Told(more, k - 1), more[k])
    BY <1>2 DEF InTurn
  <2>1. CASE k \in 1..m
    <3>1. k - 1 \in 0..m
      BY <1>1, <2>1
    <3>. QED BY <1>2, <1>3, <1>10, <2>1, <3>1
  <2>2. CASE k \notin 1..m
    <3>1. k = n /\ k - 1 = m
      BY <1>1, <2>2
    <3>2. {} \cup Told(more, k - 1) = known
      BY <1>13, <3>1
    <3>. QED BY <1>2, <1>9, <3>1, <3>2
  <2>. QED BY <2>1, <2>2
<1>. QED BY <1>2, <1>14, <1>15, <1>16 DEF more, n

LEMMA MergeNextTells ==
    ASSUME NEW chunks \in Seq(Kept), NEW merged \in Seq(Kept), NEW k \in Nat, k + 1 \in 1..Len(chunks),
           NEW B, InTurn(B, {}, chunks), Merges(B, merged, chunks, k)
    PROVE  Merges(B, MergeNext(chunks, merged, k + 1), chunks, k + 1)
<1>. DEFINE chunk == chunks[k + 1]
            next == MergeNext(chunks, merged, k + 1)
<1>1. chunk \in Kept /\ chunk \in Seq(Units) /\ merged \in Seq(Seq(Units))
  BY KeptAreTexts DEF Kept
<1>2. /\ InTurn(B, {}, merged)
      /\ Told(merged, Len(merged)) = Told(chunks, k)
      /\ PartsOf(merged) = PartsUpTo(chunks, k)
  BY DEF Merges
<1>3. /\ Told(chunks, k + 1) = Told(chunks, k) \cup Says(chunk)
      /\ PartsUpTo(chunks, k + 1) = PartsUpTo(chunks, k) \cup Parts(chunk)
  BY OneMore
<1>4. Introduced(B, Told(merged, Len(merged)), chunk)
  <2>1. Introduced(B, {} \cup Told(chunks, (k + 1) - 1), chunks[k + 1])
    BY DEF InTurn
  <2>2. (k + 1) - 1 = k
    OBVIOUS
  <2>3. {} \cup Told(chunks, (k + 1) - 1) = Told(merged, Len(merged))
    BY <1>2, <2>2
  <2>. QED BY <2>1, <2>3
<1>. HIDE DEF chunk
<1>5. \/ merged # <<>> /\ next = JoinLast(merged, chunk)
      \/ next = Append(merged, chunk)
  BY DEF MergeNext, chunk
<1>6. /\ InTurn(B, {}, next)
      /\ Told(next, Len(next)) = Told(merged, Len(merged)) \cup Says(chunk)
      /\ PartsOf(next) = PartsOf(merged) \cup Parts(chunk)
  <2>. HIDE DEF next
  <2>1. CASE merged # <<>> /\ next = JoinLast(merged, chunk)
    BY <1>1, <1>2, <1>4, <2>1, JoinLastTells
  <2>2. CASE next = Append(merged, chunk)
    <3>1. /\ Len(next) = Len(merged) + 1
          /\ Told(next, Len(merged) + 1) = Told(merged, Len(merged)) \cup Says(chunk)
          /\ PartsOf(next) = PartsOf(merged) \cup Parts(chunk)
          /\ InTurn(B, {}, next)
                <=> /\ InTurn(B, {}, merged)
                    /\ Introduced(B, {} \cup Told(merged, Len(merged)), chunk)
      BY <1>1, <2>2, AppendTells
    <3>2. {} \cup Told(merged, Len(merged)) = Told(merged, Len(merged))
      OBVIOUS
    <3>. QED BY <1>2, <1>4, <3>1, <3>2
  <2>. QED BY <1>5, <2>1, <2>2
<1>. HIDE DEF next
<1>7. Merges(B, next, chunks, k + 1)
  BY <1>2, <1>3, <1>6 DEF Merges
<1>. QED BY <1>7 DEF next

LEMMA MergeForwardTells ==
    ASSUME NEW chunks \in Seq(Kept), NEW B, InTurn(B, {}, chunks)
    PROVE  MergeForward(chunks) \in Seq(Kept) /\ Merges(B, MergeForward(chunks), chunks, Len(chunks))
<1>. DEFINE n == Len(chunks)
            places == [i \in 1..n |-> i]
            merged == MergeForward(chunks)
<1>1. n \in Nat /\ places \in Seq(1..n) /\ Len(places) = n /\ \A k \in 1..n : places[k] = k
  OBVIOUS
<1>2. merged = FoldLeft(LAMBDA sofar, i : MergeNext(chunks, sofar, i), <<>>, places)
  BY DEF MergeForward, MergeNext
<1>. HIDE DEF places, merged
<1>3. PICK h : /\ h \in [0..Len(places) -> Seq(Kept)]
               /\ h[0] = <<>>
               /\ \A k \in 1..Len(places) : h[k] = MergeNext(chunks, h[k - 1], places[k])
               /\ h[Len(places)] = FoldLeft(LAMBDA sofar, i : MergeNext(chunks, sofar, i), <<>>, places)
  BY <1>1, MergeSteps
<1>. DEFINE T == {k \in 0..n : Merges(B, h[k], chunks, k)}
<1>0. n = Len(chunks)
  OBVIOUS
<1>. HIDE DEF n
<1>4. 0 \in T
  <2>1. Len(<<>>) = 0 /\ 1..0 = {} /\ 0 \in 0..n
    BY <1>1
  <2>2. InTurn(B, {}, <<>>) /\ Told(<<>>, 0) = {} /\ Told(chunks, 0) = {} /\ PartsOf(<<>>) = {}
    BY <2>1, NothingSaid DEF Told
  <2>3. PartsUpTo(chunks, 0) = {}
    BY <2>1 DEF PartsUpTo
  <2>4. Merges(B, <<>>, chunks, 0)
    BY <2>1, <2>2, <2>3 DEF Merges
  <2>. QED BY <1>3, <2>1, <2>4
<1>5. \A k \in 0..(n - 1) : k \in T => k + 1 \in T
  <2>. SUFFICES ASSUME NEW k \in 0..(n - 1), Merges(B, h[k], chunks, k)
                PROVE  k + 1 \in 0..n /\ Merges(B, h[k + 1], chunks, k + 1)
    OBVIOUS
  <2>1. k + 1 \in 1..n /\ (k + 1) - 1 = k /\ k \in 0..n /\ k \in Nat /\ k + 1 \in 0..n
    BY <1>1
  <2>2. h[k + 1] = MergeNext(chunks, h[k], k + 1) /\ h[k] \in Seq(Kept)
    BY <1>1, <1>3, <2>1
  <2>3. Merges(B, MergeNext(chunks, h[k], k + 1), chunks, k + 1)
    BY <1>0, <2>1, <2>2, MergeNextTells
  <2>. QED BY <2>1, <2>2, <2>3
<1>6. Merges(B, h[n], chunks, n)
  <2>1. n \in Nat /\ n \in 0..n
    BY <1>1
  <2>. HIDE DEF T
  <2>2. 0..n \subseteq T
    BY <1>4, <1>5, <2>1, InductionUpTo
  <2>. QED BY <2>1, <2>2 DEF T
<1>7. merged \in Seq(Kept) /\ merged = h[n]
  <2>1. n \in 0..Len(places) /\ n = Len(places)
    BY <1>1
  <2>2. h[n] \in Seq(Kept)
    BY <1>3, <2>1
  <2>3. merged = h[n]
    BY <1>2, <1>3, <2>1
  <2>. QED BY <2>2, <2>3
<1>. QED BY <1>0, <1>6, <1>7 DEF merged

LEMMA MergeSmallTells ==
    ASSUME NEW chunks \in Seq(Kept), NEW B, InTurn(B, {}, chunks)
    PROVE  LET merged == MergeSmall(chunks)
           IN InTurn(B, {}, merged) /\ PartsOf(merged) = PartsOf(chunks)
<1>. DEFINE forward == MergeForward(chunks)
            n == Len(forward)
            m == n - 1
            front == Front(forward)
<1>1. forward \in Seq(Kept) /\ n \in Nat /\ InTurn(B, {}, forward) /\ PartsOf(forward) = PartsOf(chunks)
  BY MergeForwardTells DEF Merges, PartsOf, PartsUpTo
<1>2. MergeSmall(chunks) = IF n > 1 /\ Short(Last(forward)) THEN JoinLast(front, Last(forward)) ELSE forward
  BY DEF MergeSmall
<1>. HIDE DEF forward
<1>3. CASE n > 1 /\ Short(Last(forward))
  <2>1. /\ m \in Nat /\ m > 0 /\ m <= n /\ m \in 1..n /\ n = m + 1 /\ n \in 1..n /\ n - 1 = m
        /\ \A k \in 1..m : k \in 1..n
    BY <1>1, <1>3
  <2>2. front = SubSeq(forward, 1, m) /\ Last(forward) = forward[n] /\ forward[n] \in Kept
    BY <1>1, <2>1 DEF Front, Last
  <2>. HIDE DEF m
  <2>3. front \in Seq(Kept) /\ Len(front) = m /\ \A j \in 1..m : front[j] = forward[j]
    <3>. HIDE DEF front
    <3>. QED BY <1>1, <2>1, <2>2, Beginning
  <2>. HIDE DEF front
  <2>4. front # <<>>
    BY <2>1, <2>3
  <2>5. \A k \in 0..m : Told(front, k) = Told(forward, k)
    <3>. TAKE k \in 0..m
    <3>1. k \in Nat /\ \A l \in 1..k : front[l] = forward[l]
      BY <2>1, <2>3
    <3>. QED BY <3>1, SameBeginning
  <2>6. \A k \in 1..n : Introduced(B, {} \cup Told(forward, k - 1), forward[k])
    BY <1>1 DEF InTurn
  <2>7. InTurn(B, {}, front)
    <3>. SUFFICES ASSUME NEW k \in 1..m PROVE Introduced(B, {} \cup Told(front, k - 1), front[k])
      BY <2>3 DEF InTurn
    <3>1. k - 1 \in 0..m /\ k \in 1..n
      BY <2>1
    <3>. HIDE DEF n
    <3>. QED BY <2>3, <2>5, <2>6, <3>1
  <2>8. Introduced(B, Told(front, Len(front)), forward[n])
    <3>1. {} \cup Told(forward, n - 1) = Told(front, Len(front))
      <4>1. m \in 0..m
        BY <2>1
      <4>2. Told(front, m) = Told(forward, m)
        BY <2>5, <4>1
      <4>. QED BY <2>1, <2>3, <4>2
    <3>. QED BY <2>1, <2>6, <3>1
  <2>. DEFINE more == JoinLast(front, forward[n])
  <2>9. InTurn(B, {}, more) /\ PartsOf(more) = PartsOf(front) \cup Parts(forward[n])
    <3>. HIDE DEF n
    <3>. QED BY <2>2, <2>3, <2>4, <2>7, <2>8, JoinLastTells
  <2>. HIDE DEF more
  <2>10. PartsOf(forward) = PartsOf(front) \cup Parts(forward[n])
    <3>0. n = Len(forward)
      OBVIOUS
    <3>. HIDE DEF n
    <3>1. PartsUpTo(forward, n) = PartsUpTo(forward, m) \cup Parts(forward[n])
      BY <2>1, OneMore
    <3>2. PartsUpTo(front, m) = PartsUpTo(forward, m)
      BY <2>1, <2>3, SameBeginning
    <3>. QED BY <2>3, <3>0, <3>1, <3>2 DEF PartsOf, PartsUpTo
  <2>. HIDE DEF n
  <2>11. MergeSmall(chunks) = more
    BY <1>2, <1>3, <2>2 DEF more
  <2>. QED BY <1>1, <2>9, <2>10, <2>11
<1>4. CASE ~(n > 1 /\ Short(Last(forward)))
  <2>1. MergeSmall(chunks) = forward
    BY <1>2, <1>4
  <2>. QED BY <1>1, <2>1
<1>. QED BY <1>3, <1>4

\* The text of a page is told by its chunks.
LEMMA ChunkTextTells ==
    ASSUME NEW text \in Texts, NEW B, NEW W, About(B, W), Unmistaken(W, PartsOf(text)),
           OnePartEach(PartsOf(text)),
           InTurn(B, {}, text), \A k \in 1..Len(text) : Tidy(B, text[k])
    PROVE  Carries(B, PartsOf(text), ChunkText(text))
<1>. DEFINE packed == PackedChunks(text)
            carried == CarryHeadings(packed)
            chunks == ChunkText(text)
            whole == PartsOf(text)
<1>1. /\ packed \in Seq(Solid) /\ InTurn(B, {}, packed) /\ Inked(PartsOf(packed), whole)
      /\ AllClean(B, whole, packed)
  BY PackedTells
<1>2. chunks = IF ChunkMinSize > 0 THEN MergeSmall(carried) ELSE carried
  BY DEF ChunkText
<1>. HIDE DEF packed, whole
<1>3. Carries(B, whole, packed)
  BY <1>1 DEF Carries, Inked, Covered
<1>4. carried \in Seq(Kept) /\ Carries(B, whole, carried)
  <2>1. OnePartEach(whole) /\ Unmistaken(W, whole)
    BY DEF whole
  <2>. QED BY <1>1, <1>3, <2>1, CarriedAre, CarriedTell
<1>. HIDE DEF carried
<1>5. InTurn(B, {}, MergeSmall(carried)) /\ PartsOf(MergeSmall(carried)) = PartsOf(carried)
  BY <1>4, MergeSmallTells DEF Carries
<1>. HIDE DEF chunks
<1>6. Carries(B, whole, chunks)
  BY <1>2, <1>4, <1>5 DEF Carries
<1>. QED BY <1>6 DEF chunks, whole
=============================================================================
