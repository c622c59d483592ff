-------------------------- MODULE Sequences_proofs --------------------------
(***************************************************************************)
(* Facts about sorting, folding and flattening that the proofs about the   *)
(* models rest on. The induction is on the least number that has none of   *)
(* the wanted property: of the library's facts, WFMin is the one that      *)
(* takes a set and no operator.                                            *)
(***************************************************************************)
EXTENDS Sorting, SequencesExt, FiniteSetTheorems, SequenceTheorems, NaturalsInduction,
        WellFoundedInduction, TLAPS

-----------------------------------------------------------------------------
(* Induction. *)

Less == {p \in Nat \X Nat : p[1] < p[2]}

LEMMA LessIsWellFounded == IsWellFoundedOn(Less, Nat)
BY NatLessThanWellFounded DEF Less, OpToRel

LEMMA LeastElement ==
    ASSUME NEW T \in SUBSET Nat, T # {}
    PROVE  \E n \in T : \A m \in T : n <= m
<1>1. PICK n \in T : \A m \in T : <<m, n>> \notin Less
  BY LessIsWellFounded, WFMin, Zenon
<1>2. \A m \in T : n <= m
  <2>. TAKE m \in T
  <2>1. n \in Nat /\ m \in Nat /\ <<m, n>> \in Nat \X Nat
    OBVIOUS
  <2>2. ~(m < n)
    BY <1>1, <2>1 DEF Less
  <2>. QED BY <2>1, <2>2
<1>. QED BY <1>2

\* A set of numbers that has 0, and with each number the next one, has them all.
LEMMA Induction ==
    ASSUME NEW T \in SUBSET Nat, 0 \in T, \A n \in T : n + 1 \in T
    PROVE  T = Nat
<1>. SUFFICES ASSUME Nat \ T # {} PROVE FALSE
  OBVIOUS
<1>1. PICK n \in Nat \ T : \A m \in Nat \ T : n <= m
  BY LeastElement
<1>2. n # 0 /\ n - 1 \in Nat /\ ~(n <= n - 1)
  BY <1>1
<1>3. n - 1 \in T
  BY <1>1, <1>2
<1>. QED BY <1>1, <1>2, <1>3

\* The same for the numbers up to some n.
LEMMA InductionUpTo ==
    ASSUME NEW n \in Nat, NEW T, 0 \in T, \A k \in 0..(n - 1) : k \in T => k + 1 \in T
    PROVE  0..n \subseteq T
<1>. DEFINE All == {k \in Nat : k <= n => k \in T}
<1>1. 0 \in All
  OBVIOUS
<1>2. \A k \in All : k + 1 \in All
  OBVIOUS
<1>3. All = Nat
  BY <1>1, <1>2, Induction
<1>. QED BY <1>3

\* A non-empty set of numbers between two bounds has a greatest and a least one.
LEMMA LeastIs ==
    ASSUME NEW T, NEW a \in Int, T # {}, \A x \in T : x \in Int /\ a <= x
    PROVE  Min(T) \in T /\ \A x \in T : Min(T) <= x
<1>. DEFINE up == {n \in Nat : a + n \in T}
<1>1. PICK x0 \in T : TRUE
  OBVIOUS
<1>2. x0 - a \in Nat /\ a + (x0 - a) = x0
  OBVIOUS
<1>3. up # {} /\ up \in SUBSET Nat
  BY <1>2
<1>4. PICK n \in up : \A m \in up : n <= m
  BY <1>3, LeastElement
<1>5. a + n \in T /\ n \in Nat
  BY <1>4
<1>6. \A x \in T : a + n <= x
  <2>. TAKE x \in T
  <2>1. x \in Int /\ x - a \in Nat /\ a + (x - a) = x
    OBVIOUS
  <2>2. x - a \in up
    BY <2>1
  <2>. QED BY <2>1, <2>2, <1>4, <1>5
<1>. QED BY <1>5, <1>6 DEF Min

LEMMA GreatestIs ==
    ASSUME NEW T, NEW b \in Int, T # {}, \A x \in T : x \in Int /\ x <= b
    PROVE  Max(T) \in T /\ \A x \in T : x <= Max(T)
<1>. DEFINE down == {n \in Nat : b - n \in T}
<1>1. PICK x0 \in T : TRUE
  OBVIOUS
<1>2. b - x0 \in Nat /\ b - (b - x0) = x0
  OBVIOUS
<1>3. down # {} /\ down \in SUBSET Nat
  BY <1>2
<1>4. PICK n \in down : \A m \in down : n <= m
  BY <1>3, LeastElement
<1>5. b - n \in T /\ n \in Nat
  BY <1>4
<1>6. \A x \in T : x <= b - n
  <2>. TAKE x \in T
  <2>1. x \in Int /\ b - x \in Nat /\ b - (b - x) = x
    OBVIOUS
  <2>2. b - x \in down
    BY <2>1
  <2>3. n <= b - x
    BY <2>2, <1>4
  <2>. HIDE DEF down
  <2>. QED BY <2>1, <2>3, <1>5
<1>7. \A x \in T : b - n >= x
  BY <1>5, <1>6
<1>8. Max(T) \in T /\ \A x \in T : Max(T) >= x
  BY <1>5, <1>7 DEF Max
<1>. QED BY <1>8

LEMMA LesserOf ==
    ASSUME NEW a \in Int, NEW b \in Int
    PROVE  Min({a, b}) = IF a <= b THEN a ELSE b
BY DEF Min

-----------------------------------------------------------------------------
(* Folds. *)

LEMMA Spans ==
    /\ 1..0 = {}
    /\ \A n \in Nat \ {0} : /\ 1..n # {} /\ Max(1..n) = n
                            /\ (1..n) \ {n} = 1..(n - 1)
<1>0. 1..0 = {}
  OBVIOUS
<1>. SUFFICES ASSUME NEW n \in Nat \ {0} PROVE 1..n # {} /\ Max(1..n) = n /\ (1..n) \ {n} = 1..(n - 1)
  BY <1>0, Zenon
<1>1. n \in 1..n /\ \A x \in 1..n : x \in Int /\ x <= n
  OBVIOUS
<1>2. Max(1..n) \in 1..n /\ \A x \in 1..n : x <= Max(1..n)
  BY <1>1, GreatestIs
<1>3. Max(1..n) = n
  BY <1>1, <1>2
<1>4. (1..n) \ {n} = 1..(n - 1)
  OBVIOUS
<1>. QED BY <1>1, <1>3, <1>4

\* What FoldLeft's function of sets is, with a function in place of the operator that is folded.
Folding(it, D, base, g) ==
    it = [s \in SUBSET D |-> IF s = {} THEN base ELSE g[<<it[s \ {Max(s)}], Max(s)>>]]

\* There is such a function: that of the first n + 1 places extends that of the first n.
LEMMA FoldingExists ==
    ASSUME NEW B, NEW base \in B, NEW n \in Nat, NEW g \in [B \X (1..n) -> B]
    PROVE  \E it \in [SUBSET (1..n) -> B] : Folding(it, 1..n, base, g)
<1>. DEFINE Has(k) == \E it \in [SUBSET (1..k) -> B] : Folding(it, 1..k, base, g)
            T == {k \in 0..n : Has(k)}
<1>1. 0 \in T
  <2>. DEFINE it == [s \in SUBSET (1..0) |-> base]
  <2>1. it \in [SUBSET (1..0) -> B]
    OBVIOUS
  <2>2. \A s \in SUBSET (1..0) : s = {}
    BY Spans
  <2>3. Folding(it, 1..0, base, g)
    BY <2>2 DEF Folding
  <2>. QED BY <2>1, <2>3
<1>2. \A k \in 0..(n - 1) : k \in T => k + 1 \in T
  <2>. SUFFICES ASSUME NEW k \in 0..(n - 1), Has(k) PROVE Has(k + 1)
    <3>1. \A k \in 0..(n - 1) : k + 1 \in 0..n
      OBVIOUS
    <3>. HIDE DEF Has
    <3>. QED BY <3>1
  <2>1. PICK it \in [SUBSET (1..k) -> B] : Folding(it, 1..k, base, g)
    OBVIOUS
  <2>. DEFINE more == [s \in SUBSET (1..(k + 1)) |->
                          IF k + 1 \in s THEN g[<<it[s \ {k + 1}], k + 1>>] ELSE it[s]]
  <2>2. \A s \in SUBSET (1..(k + 1)) : s \ {k + 1} \in SUBSET (1..k) /\ (k + 1 \notin s => s \in SUBSET (1..k))
    OBVIOUS
  <2>3. k \in Nat /\ k + 1 \in 1..n
    OBVIOUS
  <2>4. more \in [SUBSET (1..(k + 1)) -> B]
    BY <2>2, <2>3
  <2>5. ASSUME NEW s \in SUBSET (1..(k + 1))
        PROVE  more[s] = IF s = {} THEN base ELSE g[<<more[s \ {Max(s)}], Max(s)>>]
    <3>1. CASE s = {}
      <4>1. it[{}] = base
        BY <2>1 DEF Folding
      <4>. QED BY <3>1, <4>1
    <3>2. CASE s # {} /\ k + 1 \in s
      <4>1. Max(s) \in s /\ \A x \in s : x <= Max(s)
        <5>1. \A x \in s : x \in Int /\ x <= k + 1
          BY <2>3
        <5>. QED BY <5>1, <2>3, <3>2, GreatestIs
      <4>2. Max(s) = k + 1
        <5>1. k + 1 <= Max(s) /\ Max(s) \in 1..(k + 1)
          BY <4>1, <3>2
        <5>. QED BY <5>1, <2>3
      <4>3. s \ {k + 1} \in SUBSET (1..(k + 1)) /\ k + 1 \notin s \ {k + 1}
        OBVIOUS
      <4>4. more[s \ {k + 1}] = it[s \ {k + 1}]
        BY <4>3
      <4>. QED BY <3>2, <4>2, <4>4
    <3>3. CASE s # {} /\ k + 1 \notin s
      <4>1. Max(s) \in s
        <5>1. \A x \in s : x \in Int /\ x <= k + 1
          BY <2>3
        <5>2. s # {} /\ k + 1 \in Int
          BY <3>3, <2>3
        <5>. QED BY <5>1, <5>2, GreatestIs, Zenon
      <4>2. s \in SUBSET (1..k) /\ s \ {Max(s)} \in SUBSET (1..(k + 1)) /\ k + 1 \notin s \ {Max(s)}
        BY <3>3, <2>2
      <4>3. more[s] = it[s] /\ more[s \ {Max(s)}] = it[s \ {Max(s)}]
        BY <4>2, <3>3
      <4>4. it[s] = g[<<it[s \ {Max(s)}], Max(s)>>]
        BY <4>2, <2>1, <3>3 DEF Folding
      <4>. QED BY <3>3, <4>3, <4>4
    <3>. QED BY <3>1, <3>2, <3>3
  <2>6. Folding(more, 1..(k + 1), base, g)
    BY <2>5 DEF Folding
  <2>. QED BY <2>4, <2>6
<1>. HIDE DEF Has
<1>3. 0..n \subseteq T
  BY <1>1, <1>2, InductionUpTo
<1>4. n \in T
  BY <1>3
<1>. QED BY <1>4 DEF Has

\* The greatest place of some of the first n, and the others.
LEMMA GreatestPlace ==
    ASSUME NEW n \in Nat, NEW s \in SUBSET (1..n), s # {}
    PROVE  Max(s) \in 1..n /\ Max(s) \in s /\ s \ {Max(s)} \in SUBSET (1..n)
<1>1. \A x \in s : x \in Int /\ x <= n
  OBVIOUS
<1>2. Max(s) \in s
  <2>1. n \in Int
    OBVIOUS
  <2>. QED BY <1>1, <2>1, GreatestIs, Zenon
<1>. QED BY <1>2

\* The values a fold goes through, from the first place to the last.
Steps(h, n, B, base, g) ==
    /\ h \in [0..n -> B]
    /\ h[0] = base
    /\ \A k \in 1..n : h[k] = g[<<h[k - 1], k>>]

\* What the function f of sets in a fold says of the sets 1..k.
FoldsTo(f, n, B, base, g) ==
    /\ n \in Nat /\ base \in B /\ g \in [B \X (1..n) -> B]
    /\ f[{}] = base
    /\ \A k \in 1..n : f[1..(k - 1)] \in B => f[1..k] = g[<<f[1..(k - 1)], k>>]

LEMMA StepsOfFolding ==
    ASSUME NEW B, NEW base, NEW n, NEW g, NEW f, FoldsTo(f, n, B, base, g)
    PROVE  \E h : Steps(h, n, B, base, g) /\ h[n] = f[1..n]
<1>. n \in Nat /\ base \in B /\ g \in [B \X (1..n) -> B]
  BY DEF FoldsTo
<1>0. /\ f[{}] = base
      /\ \A k \in 1..n : f[1..(k - 1)] \in B => f[1..k] = g[<<f[1..(k - 1)], k>>]
  BY DEF FoldsTo
<1>. DEFINE T == {k \in 0..n : f[1..k] \in B}
            h == [k \in 0..n |-> f[1..k]]
<1>1. 1..0 = {}
  OBVIOUS
<1>2. 0 \in T
  BY <1>0, <1>1
<1>3. \A k \in 0..(n - 1) : k \in T => k + 1 \in T
  <2>. SUFFICES ASSUME NEW k \in 0..(n - 1), f[1..k] \in B PROVE f[1..(k + 1)] \in B /\ k + 1 \in 0..n
    OBVIOUS
  <2>1. k + 1 \in 1..n /\ (k + 1) - 1 = k
    OBVIOUS
  <2>2. f[1..(k + 1)] = g[<<f[1..k], k + 1>>]
    BY <1>0, <2>1
  <2>. QED BY <2>1, <2>2
<1>4. \A k \in 0..n : f[1..k] \in B
  BY <1>2, <1>3, InductionUpTo
<1>5. h \in [0..n -> B] /\ h[0] = base /\ h[n] = f[1..n]
  BY <1>0, <1>1, <1>4
<1>6. ASSUME NEW k \in 1..n PROVE h[k] = g[<<h[k - 1], k>>]
  <2>1. k - 1 \in 0..n /\ k \in 0..n
    OBVIOUS
  <2>. QED BY <1>0, <2>1, <1>4
<1>. QED BY <1>5, <1>6 DEF Steps

\* The values do not depend on what comes later.
LEMMA StepsAreUnique ==
    ASSUME NEW B, NEW base, NEW n \in Nat, NEW m \in Nat, n <= m, NEW g1, NEW g2, NEW h1, NEW h2,
           Steps(h1, n, B, base, g1), Steps(h2, m, B, base, g2),
           \A b \in B : \A k \in 1..n : g1[<<b, k>>] = g2[<<b, k>>]
    PROVE  \A k \in 0..n : h1[k] = h2[k]
<1>. DEFINE T == {k \in 0..n : h1[k] = h2[k]}
<1>1. 0 \in T
  BY DEF Steps
<1>2. \A k \in 0..(n - 1) : k \in T => k + 1 \in T
  <2>. SUFFICES ASSUME NEW k \in 0..(n - 1), h1[k] = h2[k] PROVE h1[k + 1] = h2[k + 1] /\ k + 1 \in 0..n
    OBVIOUS
  <2>1. k + 1 \in 1..n /\ k + 1 \in 1..m /\ (k + 1) - 1 = k /\ k \in 0..n
    OBVIOUS
  <2>2. h1[k] \in B
    BY <2>1 DEF Steps
  <2>3. h1[k + 1] = g1[<<h1[k], k + 1>>] /\ h2[k + 1] = g2[<<h2[k], k + 1>>]
    BY <2>1 DEF Steps
  <2>. QED BY <2>1, <2>2, <2>3
<1>. QED BY <1>1, <1>2, InductionUpTo

-----------------------------------------------------------------------------
(* Stretches and FlattenSeq. *)

LEMMA Beginning ==
    ASSUME NEW S, NEW seq \in Seq(S), NEW n \in Nat, n <= Len(seq)
    PROVE  /\ SubSeq(seq, 1, n) \in Seq(S)
           /\ Len(SubSeq(seq, 1, n)) = n
           /\ \A i \in 1..n : SubSeq(seq, 1, n)[i] = seq[i]
<1>1. SubSeq(seq, 1, n) \in Seq(S) /\ Len(SubSeq(seq, 1, n)) = n
  OBVIOUS
<1>2. \A i \in 1..n : SubSeq(seq, 1, n)[i] = seq[i]
  OBVIOUS
<1>. QED BY <1>1, <1>2

LEMMA Joined ==
    ASSUME NEW S, NEW a \in Seq(S), NEW b \in Seq(S)
    PROVE  /\ a \o b \in Seq(S)
           /\ Len(a \o b) = Len(a) + Len(b)
           /\ \A i \in 1..Len(a) : (a \o b)[i] = a[i]
           /\ \A i \in 1..Len(b) : (a \o b)[Len(a) + i] = b[i]
BY ConcatProperties

LEMMA Stretch ==
    ASSUME NEW S, NEW seq \in Seq(S), NEW a \in Nat \ {0}, NEW b \in Int, b <= Len(seq)
    PROVE  LET part == SubSeq(seq, a, b)
           IN /\ part \in Seq(S)
              /\ Len(part) = IF a <= b THEN b - a + 1 ELSE 0
              /\ \A i \in 1..Len(part) : part[i] = seq[a + i - 1] /\ a + i - 1 \in 1..Len(seq)
<1>. DEFINE part == SubSeq(seq, a, b)
            n == IF a <= b THEN b - a + 1 ELSE 0
<1>1. n \in Nat /\ Len(seq) \in Nat
  OBVIOUS
<1>2. \A i \in 1..n : a + i - 1 \in 1..Len(seq)
  BY <1>1
<1>3. part = [i \in 1..n |-> seq[a + i - 1]]
  OBVIOUS
<1>4. \A i \in 1..Len(seq) : seq[i] \in S
  OBVIOUS
<1>. HIDE DEF part, n
<1>5. part \in [1..n -> S]
  BY <1>2, <1>3, <1>4
<1>6. part \in Seq(S) /\ Len(part) = n
  BY <1>1, <1>5
<1>7. \A i \in 1..Len(part) : part[i] = seq[a + i - 1] /\ a + i - 1 \in 1..Len(seq)
  BY <1>2, <1>3, <1>6
<1>. QED BY <1>6, <1>7 DEF part, n

\* Where the k-th of some sequences begins in the sequence they are flattened to.
Joining(f, ss) == f = [i \in 1..Len(ss) |-> IF i = 1 THEN ss[i] ELSE f[i - 1] \o ss[i]]

LEMMA JoiningExists ==
    ASSUME NEW S, NEW ss \in Seq(Seq(S))
    PROVE  \E f \in [1..Len(ss) -> Seq(S)] : Joining(f, ss)
<1>. DEFINE n == Len(ss)
            Has(k) == \E f \in [1..k -> Seq(S)] :
                         f = [i \in 1..k |-> IF i = 1 THEN ss[i] ELSE f[i - 1] \o ss[i]]
            T == {k \in 0..n : Has(k)}
<1>0. n \in Nat /\ \A i \in 1..n : ss[i] \in Seq(S)
  OBVIOUS
<1>1. Has(0)
  <2>. DEFINE f == [i \in 1..0 |-> ss[i]]
  <2>1. 1..0 = {}
    OBVIOUS
  <2>2. f \in [1..0 -> Seq(S)] /\ f = [i \in 1..0 |-> IF i = 1 THEN ss[i] ELSE f[i - 1] \o ss[i]]
    BY <2>1
  <2>. QED BY <2>2
<1>2. ASSUME NEW k \in 0..(n - 1), Has(k) PROVE Has(k + 1)
  <2>1. PICK f \in [1..k -> Seq(S)] : f = [i \in 1..k |-> IF i = 1 THEN ss[i] ELSE f[i - 1] \o ss[i]]
    BY <1>2
  <2>2. k \in Nat /\ k + 1 \in 1..n /\ \A i \in 1..(k + 1) : i \in 1..n
    BY <1>0
  <2>. DEFINE new == IF k = 0 THEN ss[1] ELSE f[k] \o ss[k + 1]
              more == [i \in 1..(k + 1) |-> IF i = k + 1 THEN new ELSE f[i]]
  <2>3. new \in Seq(S)
    <3>1. CASE k = 0
      BY <3>1, <2>2, <1>0
    <3>2. CASE k # 0
      <4>1. f[k] \in Seq(S) /\ ss[k + 1] \in Seq(S)
        BY <3>2, <2>2, <1>0
      <4>. QED BY <4>1, <3>2, ConcatProperties
    <3>. QED BY <3>1, <3>2
  <2>4. more \in [1..(k + 1) -> Seq(S)]
    BY <2>2, <2>3
  <2>5. ASSUME NEW i \in 1..(k + 1)
        PROVE  more[i] = IF i = 1 THEN ss[i] ELSE more[i - 1] \o ss[i]
    <3>1. CASE i = k + 1 /\ k = 0
      BY <3>1
    <3>2. CASE i = k + 1 /\ k # 0
      <4>1. i - 1 = k /\ k \in 1..(k + 1) /\ k # k + 1 /\ i # 1
        BY <3>2, <2>2
      <4>2. more[k] = f[k]
        BY <4>1
      <4>. QED BY <4>1, <4>2, <3>2
    <3>3. CASE i # k + 1
      <4>1. i \in 1..k /\ (i # 1 => i - 1 \in 1..(k + 1) /\ i - 1 # k + 1)
        BY <3>3, <2>2
      <4>2. more[i] = f[i] /\ (i # 1 => more[i - 1] = f[i - 1])
        BY <4>1, <3>3
      <4>. HIDE DEF more
      <4>. QED BY <4>1, <4>2, <2>1
    <3>. QED BY <3>1, <3>2, <3>3
  <2>6. more = [i \in 1..(k + 1) |-> IF i = 1 THEN ss[i] ELSE more[i - 1] \o ss[i]]
    BY <2>5
  <2>. QED BY <2>4, <2>6
<1>. HIDE DEF Has
<1>3. 0 \in T /\ \A k \in 0..(n - 1) : k \in T => k + 1 \in T
  BY <1>0, <1>1, <1>2
<1>4. 0..n \subseteq T
  <2>. HIDE DEF T, n
  <2>. QED BY <1>0, <1>3, InductionUpTo
<1>5. Has(n)
  BY <1>0, <1>4
<1>. QED BY <1>5 DEF Has, Joining

\* A sequence of sequences as one: each is a stretch of it, and there is nothing else in it.
LEMMA Flattened ==
    ASSUME NEW S, NEW ss \in Seq(Seq(S))
    PROVE  /\ FlattenSeq(ss) \in Seq(S)
           /\ Range(FlattenSeq(ss)) = UNION {Range(ss[i]) : i \in 1..Len(ss)}
<1>1. CASE Len(ss) = 0
  <2>1. ss = <<>>
    BY <1>1
  <2>2. FlattenSeq(ss) = <<>>
    BY <2>1, <1>1 DEF FlattenSeq
  <2>3. 1..Len(ss) = {} /\ Range(<<>>) = {}
    BY <1>1 DEF Range
  <2>. QED BY <2>2, <2>3
<1>2. CASE Len(ss) # 0
  <2>. DEFINE n == Len(ss)
              flat == CHOOSE f : Joining(f, ss)
  <2>0. n \in Nat \ {0} /\ \A i \in 1..n : ss[i] \in Seq(S)
    BY <1>2
  <2>1. Joining(flat, ss)
    BY JoiningExists
  <2>2. FlattenSeq(ss) = flat[n]
    BY <1>2 DEF FlattenSeq, Joining
  <2>. HIDE DEF flat
  <2>3. \A i \in 1..n : flat[i] = IF i = 1 THEN ss[i] ELSE flat[i - 1] \o ss[i]
    BY <2>1 DEF Joining
  <2>. DEFINE Good(k) == flat[k] \in Seq(S) /\ Range(flat[k]) = UNION {Range(ss[i]) : i \in 1..k}
              T == {k \in 0..n : k > 0 => Good(k)}
  <2>4. ASSUME NEW k \in 0..(n - 1), k > 0 => Good(k) PROVE Good(k + 1)
    <3>1. k \in Nat /\ k + 1 \in 1..n /\ (k + 1) - 1 = k
      BY <2>0
    <3>2. CASE k = 0
      <4>1. flat[k + 1] = ss[1] /\ 1..(k + 1) = {1} /\ ss[1] \in Seq(S)
        BY <3>1, <3>2, <2>3, <2>0
      <4>. QED BY <4>1, <3>2
    <3>3. CASE k # 0
      <4>0. k + 1 # 1 /\ k > 0
        BY <3>1, <3>3
      <4>1. flat[k + 1] = flat[k] \o ss[k + 1] /\ flat[k] \in Seq(S) /\ ss[k + 1] \in Seq(S)
        <5>1. flat[k + 1] = flat[k] \o ss[k + 1]
          BY <3>1, <4>0, <2>3
        <5>2. ss[k + 1] \in Seq(S)
          BY <3>1, <2>0
        <5>. QED BY <5>1, <5>2, <4>0, <2>4
      <4>2. Range(flat[k + 1]) = Range(flat[k]) \cup Range(ss[k + 1])
        BY <4>1, RangeConcatenation
      <4>3. 1..(k + 1) = (1..k) \cup {k + 1}
        BY <3>1
      <4>4. flat[k + 1] \in Seq(S)
        BY <4>1, ConcatProperties
      <4>5. Range(flat[k]) = UNION {Range(ss[i]) : i \in 1..k}
        BY <3>1, <3>3, <2>4
      <4>. QED BY <4>2, <4>3, <4>4, <4>5
    <3>. QED BY <3>2, <3>3
  <2>. HIDE DEF Good
  <2>5. \A k \in 0..(n - 1) : k \in T => k + 1 \in T
    BY <2>4, <2>0
  <2>6. 0 \in T
    BY <2>0
  <2>7. 0..n \subseteq T
    <3>. HIDE DEF T, n
    <3>. QED BY <2>0, <2>5, <2>6, InductionUpTo
  <2>8. Good(n)
    <3>1. n \in 0..n /\ n > 0
      BY <2>0
    <3>2. n \in T
      BY <2>7, <3>1
    <3>. QED BY <3>1, <3>2
  <2>. QED BY <2>8, <2>2 DEF Good
<1>. QED BY <1>1, <1>2

-----------------------------------------------------------------------------
(* Sums. *)

\* h[k] is the sum of the first k of some numbers.
Adds(h, w, n) ==
    /\ n \in Nat
    /\ w \in [1..n -> Nat]
    /\ h \in [0..n -> Nat]
    /\ h[0] = 0
    /\ \A k \in 1..n : h[k] = h[k - 1] + w[k]

LEMMA SumsGrow ==
    ASSUME NEW n, NEW w, NEW h, Adds(h, w, n), NEW i \in 0..n, NEW j \in 0..n, i <= j
    PROVE  h[i] <= h[j]
<1>. DEFINE T == {k \in 0..n : i <= k => h[i] <= h[k]}
<1>0. n \in Nat /\ i \in Nat /\ \A k \in 0..n : h[k] \in Nat
  BY DEF Adds
<1>1. 0 \in T
  BY <1>0
<1>2. \A k \in 0..(n - 1) : k \in T => k + 1 \in T
  <2>. SUFFICES ASSUME NEW k \in 0..(n - 1), i <= k => h[i] <= h[k], i <= k + 1
                PROVE  h[i] <= h[k + 1] /\ k + 1 \in 0..n
    BY <1>0
  <2>1. k + 1 \in 1..n /\ k \in 0..n /\ k + 1 \in 0..n /\ (k + 1) - 1 = k
    BY <1>0
  <2>2. h[k + 1] = h[k] + w[k + 1] /\ w[k + 1] \in Nat
    BY <2>1 DEF Adds
  <2>3. CASE i = k + 1
    BY <2>1, <2>3, <1>0
  <2>4. CASE i # k + 1
    <3>1. i <= k
      BY <2>1, <2>4, <1>0
    <3>2. h[i] \in Nat /\ h[k] \in Nat
      BY <2>1, <1>0
    <3>. QED BY <2>1, <2>2, <3>1, <3>2
  <2>. QED BY <2>3, <2>4
<1>3. 0..n \subseteq T
  <2>. HIDE DEF T
  <2>. QED BY <1>0, <1>1, <1>2, InductionUpTo
<1>4. j \in T
  BY <1>3
<1>. QED BY <1>4

\* Sums of the same numbers are the same.
LEMMA SumsAgree ==
    ASSUME NEW n, NEW w, NEW h, Adds(h, w, n), NEW m, NEW w2, NEW h2, Adds(h2, w2, m), n <= m,
           \A k \in 1..n : w[k] = w2[k]
    PROVE  \A k \in 0..n : h[k] = h2[k]
<1>. DEFINE T == {k \in 0..n : h[k] = h2[k]}
<1>0. n \in Nat /\ m \in Nat
  BY DEF Adds
<1>1. 0 \in T
  BY <1>0 DEF Adds
<1>2. \A k \in 0..(n - 1) : k \in T => k + 1 \in T
  <2>. SUFFICES ASSUME NEW k \in 0..(n - 1), h[k] = h2[k] PROVE h[k + 1] = h2[k + 1] /\ k + 1 \in 0..n
    OBVIOUS
  <2>1. k + 1 \in 1..n /\ k + 1 \in 1..m /\ (k + 1) - 1 = k /\ k + 1 \in 0..n
    BY <1>0
  <2>2. h[k + 1] = h[k] + w[k + 1] /\ h2[k + 1] = h2[k] + w2[k + 1] /\ w[k + 1] = w2[k + 1]
    BY <2>1 DEF Adds
  <2>. QED BY <2>1, <2>2
<1>3. 0..n \subseteq T
  <2>. HIDE DEF T
  <2>. QED BY <1>0, <1>1, <1>2, InductionUpTo
<1>. QED BY <1>3

\* The numbers after the first n.
Continues(w, n, w2, m) == \A k \in 1..m : w[n + k] = w2[k]

\* What comes after the first n numbers is added to their sum.
LEMMA SumsContinue ==
    ASSUME NEW n \in Nat, NEW w, NEW h, NEW m, NEW w2, NEW h2, Adds(h, w, n + m), Adds(h2, w2, m),
           Continues(w, n, w2, m)
    PROVE  \A k \in 0..m : h[n + k] = h[n] + h2[k]
<1>. DEFINE T == {k \in 0..m : h[n + k] = h[n] + h2[k]}
<1>0. m \in Nat /\ h[n] \in Nat /\ \A k \in 0..m : h2[k] \in Nat /\ h[n + k] \in Nat
  <2>1. m \in Nat
    BY DEF Adds
  <2>2. n \in 0..(n + m) /\ \A k \in 0..m : n + k \in 0..(n + m)
    BY <2>1
  <2>. QED BY <2>1, <2>2 DEF Adds
<1>1. 0 \in T
  <2>1. n + 0 = n /\ h2[0] = 0 /\ 0 \in 0..m
    BY <1>0 DEF Adds
  <2>. QED BY <2>1, <1>0
<1>2. \A k \in 0..(m - 1) : k \in T => k + 1 \in T
  <2>. SUFFICES ASSUME NEW k \in 0..(m - 1), h[n + k] = h[n] + h2[k]
                PROVE  h[n + (k + 1)] = h[n] + h2[k + 1] /\ k + 1 \in 0..m
    OBVIOUS
  <2>1. /\ k + 1 \in 1..m /\ k + 1 \in 0..m /\ k \in 0..m
        /\ n + (k + 1) \in 1..(n + m) /\ (n + (k + 1)) - 1 = n + k /\ (k + 1) - 1 = k
    BY <1>0
  <2>2. h[n + (k + 1)] = h[n + k] + w[n + (k + 1)] /\ h2[k + 1] = h2[k] + w2[k + 1]
    BY <2>1 DEF Adds
  <2>3. w[n + (k + 1)] = w2[k + 1] /\ w2[k + 1] \in Nat
    BY <2>1 DEF Adds, Continues
  <2>4. h2[k] \in Nat
    BY <2>1, <1>0
  <2>. QED BY <2>1, <2>2, <2>3, <2>4, <1>0
<1>3. 0..m \subseteq T
  <2>. HIDE DEF T
  <2>. QED BY <1>0, <1>1, <1>2, InductionUpTo
<1>. QED BY <1>3
-----------------------------------------------------------------------------
(* Where things are in a sequence of sequences as one. *)

LaidOut(h, ss, flat) ==
    /\ Adds(h, [i \in 1..Len(ss) |-> Len(ss[i])], Len(ss))
    /\ Len(flat) = h[Len(ss)]
    /\ \A i \in 1..Len(ss) : \A k \in 1..Len(ss[i]) : flat[h[i - 1] + k] = ss[i][k]

LEMMA FlattenedPlaces ==
    ASSUME NEW S, NEW ss \in Seq(Seq(S))
    PROVE  FlattenSeq(ss) \in Seq(S) /\ \E h : LaidOut(h, ss, FlattenSeq(ss))
<1>. DEFINE n == Len(ss)
            w == [i \in 1..n |-> Len(ss[i])]
<1>0. n \in Nat /\ \A i \in 1..n : ss[i] \in Seq(S) /\ Len(ss[i]) \in Nat /\ w[i] = Len(ss[i])
  OBVIOUS
<1>1. FlattenSeq(ss) \in Seq(S)
  BY Flattened
<1>2. CASE n = 0
  <2>. DEFINE h == [k \in 0..0 |-> 0]
  <2>1. ss = <<>>
    BY <1>2
  <2>2. FlattenSeq(ss) = <<>>
    BY <2>1, <1>2 DEF FlattenSeq
  <2>3. Adds(h, w, n)
    BY <1>0, <1>2 DEF Adds
  <2>4. Len(FlattenSeq(ss)) = h[n]
    BY <1>2, <2>2
  <2>. HIDE DEF h
  <2>5. LaidOut(h, ss, FlattenSeq(ss))
    BY <1>2, <2>3, <2>4 DEF LaidOut
  <2>. QED BY <1>1, <2>5
<1>3. CASE n # 0
  <2>. DEFINE flat == CHOOSE f : Joining(f, ss)
              h == [k \in 0..n |-> IF k = 0 THEN 0 ELSE Len(flat[k])]
  <2>1. Joining(flat, ss)
    BY JoiningExists
  <2>2. FlattenSeq(ss) = flat[n]
    BY <1>3 DEF FlattenSeq, Joining
  <2>. HIDE DEF flat
  <2>3. \A i \in 1..n : flat[i] = IF i = 1 THEN ss[i] ELSE flat[i - 1] \o ss[i]
    BY <2>1 DEF Joining
  <2>. DEFINE Good(k) == /\ flat[k] \in Seq(S)
                         /\ Len(flat[k]) = h[k]
                         /\ h[k] = h[k - 1] + w[k]
                         /\ \A i \in 1..k : \A j \in 1..Len(ss[i]) :
                               /\ h[i - 1] + j \in 1..h[k]
                               /\ flat[k][h[i - 1] + j] = ss[i][j]
              GoodTo(k) == \A m \in 1..k : Good(m)
              T == {k \in 0..n : GoodTo(k)}
  <2>4. h[0] = 0 /\ \A k \in 1..n : h[k] = Len(flat[k])
    BY <1>0
  <2>5. ASSUME NEW k \in 0..(n - 1), k > 0 => Good(k) PROVE Good(k + 1)
    <3>. HIDE DEF h, n, w
    <3>0. k \in Nat /\ k + 1 \in 1..n /\ (k + 1) - 1 = k /\ ss[k + 1] \in Seq(S)
          /\ w[k + 1] = Len(ss[k + 1]) /\ Len(ss[k + 1]) \in Nat /\ h[k + 1] = Len(flat[k + 1])
      BY <1>0, <2>4
    <3>1. CASE k = 0
      <4>1. flat[k + 1] = ss[1] /\ h[k] = 0 /\ k + 1 = 1
        BY <2>3, <2>4, <3>0, <3>1
      <4>2. 1..(k + 1) = {1}
        BY <3>1
      <4>3. \A j \in 1..Len(ss[1]) : h[1 - 1] + j \in 1..h[k + 1] /\ h[1 - 1] + j = j
        BY <2>4, <3>0, <4>1
      <4>. QED BY <3>0, <4>1, <4>2, <4>3
    <3>2. CASE k # 0
      <4>1. k > 0 /\ k + 1 # 1 /\ Good(k)
        BY <2>5, <3>0, <3>2
      <4>2. flat[k + 1] = flat[k] \o ss[k + 1]
        BY <2>3, <3>0, <4>1
      <4>3. /\ flat[k + 1] \in Seq(S)
            /\ Len(flat[k + 1]) = Len(flat[k]) + Len(ss[k + 1])
            /\ \A i \in 1..Len(flat[k]) : flat[k + 1][i] = flat[k][i]
            /\ \A i \in 1..Len(ss[k + 1]) : flat[k + 1][Len(flat[k]) + i] = ss[k + 1][i]
        <5>. DEFINE a == flat[k]
                    b == ss[k + 1]
        <5>1. a \in Seq(S) /\ b \in Seq(S)
          BY <3>0, <4>1
        <5>. HIDE DEF a, b
        <5>2. /\ a \o b \in Seq(S)
              /\ Len(a \o b) = Len(a) + Len(b)
              /\ \A i \in 1..Len(a) : (a \o b)[i] = a[i]
              /\ \A i \in 1..Len(b) : (a \o b)[Len(a) + i] = b[i]
          BY <5>1, Joined
        <5>. QED BY <4>2, <5>2 DEF a, b
      <4>4. h[k] = Len(flat[k]) /\ Len(flat[k]) \in Nat
        BY <4>1
      <4>5. h[k + 1] = h[(k + 1) - 1] + w[k + 1]
        BY <3>0, <4>3, <4>4
      <4>. HIDE DEF Good
      <4>7. h[k + 1] = h[k] + Len(ss[k + 1]) /\ h[k] \in Nat /\ \A x \in 1..h[k] : x \in 1..h[k + 1]
        <5>1. h[k + 1] = h[k] + Len(ss[k + 1])
          BY <3>0, <4>5
        <5>2. h[k] \in Nat /\ Len(ss[k + 1]) \in Nat
          BY <3>0, <4>4
        <5>. QED BY <5>1, <5>2
      <4>6. ASSUME NEW i \in 1..(k + 1), NEW j \in 1..Len(ss[i])
            PROVE  h[i - 1] + j \in 1..h[k + 1] /\ flat[k + 1][h[i - 1] + j] = ss[i][j]
        <5>1. CASE i = k + 1
          <6>1. i - 1 = k /\ j \in 1..Len(ss[k + 1]) /\ j \in Nat
            BY <3>0, <4>6, <5>1
          <6>2. h[k] + j \in 1..h[k + 1]
            BY <3>0, <4>7, <6>1
          <6>. QED BY <4>3, <4>4, <5>1, <6>1, <6>2
        <5>2. CASE i # k + 1
          <6>1. i \in 1..k
            BY <3>0, <5>2
          <6>2. h[i - 1] + j \in 1..h[k] /\ flat[k][h[i - 1] + j] = ss[i][j]
            BY <4>1, <6>1 DEF Good
          <6>3. h[i - 1] + j \in 1..h[k + 1]
            BY <4>7, <6>2
          <6>. QED BY <4>3, <4>4, <6>2, <6>3
        <5>. QED BY <5>1, <5>2
      <4>. QED BY <3>0, <4>3, <4>5, <4>6 DEF Good
    <3>. QED BY <3>1, <3>2
  <2>. HIDE DEF Good, h
  <2>6. \A k \in 0..(n - 1) : k \in T => k + 1 \in T
    <3>. HIDE DEF n
    <3>1. ASSUME NEW k \in 0..(n - 1), GoodTo(k) PROVE GoodTo(k + 1)
      <4>. SUFFICES ASSUME NEW m \in 1..(k + 1) PROVE Good(m)
        OBVIOUS
      <4>1. k > 0 => k \in 1..k
        BY <1>0
      <4>2. Good(k + 1)
        BY <2>5, <3>1, <4>1
      <4>3. m = k + 1 \/ m \in 1..k
        OBVIOUS
      <4>. QED BY <3>1, <4>2, <4>3
    <3>. HIDE DEF GoodTo
    <3>2. \A k \in 0..(n - 1) : k + 1 \in 0..n
      BY <1>0
    <3>. QED BY <3>1, <3>2
  <2>7. 0 \in T
    BY <1>0
  <2>8. 0..n \subseteq T
    <3>. HIDE DEF T, n
    <3>. QED BY <1>0, <2>6, <2>7, InductionUpTo
  <2>9. \A m \in 1..n : Good(m)
    <3>. HIDE DEF n
    <3>1. n \in T
      <4>1. n \in 0..n
        BY <1>0
      <4>. HIDE DEF T
      <4>. QED BY <2>8, <4>1
    <3>. QED BY <3>1
  <2>10. n \in 1..n
    BY <1>0, <1>3
  <2>11. Adds(h, w, n)
    <3>1. h \in [0..n -> Nat]
      <4>. SUFFICES ASSUME NEW k \in 0..n PROVE h[k] \in Nat
        BY DEF h
      <4>1. k = 0 \/ k \in 1..n
        BY <1>0
      <4>2. k \in 1..n => flat[k] \in Seq(S)
        BY <2>9 DEF Good
      <4>. QED BY <2>4, <4>1, <4>2
    <3>2. w \in [1..n -> Nat]
      BY <1>0
    <3>3. \A k \in 1..n : h[k] = h[k - 1] + w[k]
      BY <2>9 DEF Good
    <3>. HIDE DEF w, n
    <3>. QED BY <1>0, <2>4, <3>1, <3>2, <3>3 DEF Adds
  <2>12. /\ Len(FlattenSeq(ss)) = h[n]
         /\ \A i \in 1..n : \A k \in 1..Len(ss[i]) : FlattenSeq(ss)[h[i - 1] + k] = ss[i][k]
    <3>1. Good(n)
      BY <2>9, <2>10
    <3>. QED BY <2>2, <3>1 DEF Good
  <2>13. LaidOut(h, ss, FlattenSeq(ss))
    BY <2>11, <2>12 DEF LaidOut
  <2>. QED BY <1>1, <2>13
<1>. QED BY <1>2, <1>3

\* Every place of the whole is a place of one of the parts.
LEMMA PlaceInPart ==
    ASSUME NEW n, NEW w, NEW h, Adds(h, w, n), NEW p \in 1..h[n]
    PROVE  \E i \in 1..n : \E k \in 1..w[i] : p = h[i - 1] + k
<1>. DEFINE T == {i \in 0..n : p <= h[i]}
<1>0. n \in Nat /\ h[0] = 0 /\ (\A i \in 0..n : h[i] \in Nat) /\ p \in Nat
  BY DEF Adds
<1>1. n \in T /\ T \in SUBSET Nat
  BY <1>0
<1>2. PICK i \in T : \A m \in T : i <= m
  <2>. HIDE DEF T
  <2>. QED BY <1>1, LeastElement
<1>3. i \in 1..n /\ i - 1 \in 0..n
  BY <1>0
<1>4. h[i] = h[i - 1] + w[i] /\ w[i] \in Nat /\ h[i - 1] \in Nat
  BY <1>0, <1>3 DEF Adds
<1>5. h[i - 1] < p
  <2>1. i - 1 \notin T
    BY <1>2, <1>3
  <2>. QED BY <1>0, <1>3, <2>1
<1>6. p <= h[i]
  OBVIOUS
<1>. DEFINE k == p - h[i - 1]
<1>7. k \in 1..w[i] /\ p = h[i - 1] + k
  BY <1>0, <1>4, <1>5, <1>6
<1>. QED BY <1>3, <1>7

EachInAPart(h, w, n) ==
    \A p \in 1..h[n] : \E i \in 1..n : \E k \in 1..w[i] : p = h[i - 1] + k

LEMMA PlacesInParts ==
    ASSUME NEW n, NEW w, NEW h, Adds(h, w, n)
    PROVE  EachInAPart(h, w, n)
<1>. SUFFICES ASSUME NEW p \in 1..h[n]
              PROVE  \E i \in 1..n : \E k \in 1..w[i] : p = h[i - 1] + k
  BY DEF EachInAPart
<1>. QED BY PlaceInPart

-----------------------------------------------------------------------------
(* Sorting. *)

StrictOrder(before, set) ==
    /\ \A x \in set : <<x, x>> \notin before
    /\ \A x, y, z \in set : <<x, y>> \in before /\ <<y, z>> \in before => <<x, z>> \in before
    /\ \A x, y \in set : x # y => <<x, y>> \in before \/ <<y, x>> \in before

\* Each member of the set is at one place, after all that are before it.
InOrder(order, set, before) ==
    /\ order \in [1..Cardinality(set) -> set]
    /\ \A x \in set : \E k \in 1..Cardinality(set) : order[k] = x
    /\ \A i, j \in 1..Cardinality(set) : i < j => <<order[i], order[j]>> \in before

\* The number of members before one says where it stands: no two have the same, so that each
\* number below the cardinality is somebody's.
LEMMA SortedIsInOrder ==
    ASSUME NEW set, IsFiniteSet(set), NEW before, StrictOrder(before, set)
    PROVE  InOrder(Sorted(set, before), set, before)
<1>. DEFINE n == Cardinality(set)
            ahead(x) == {y \in set : <<y, x>> \in before}
            rank == [x \in set |-> Cardinality(ahead(x))]
            order == Sorted(set, before)
<1>1. n \in Nat
  BY FS_CardinalityType
<1>2. ASSUME NEW x \in set PROVE IsFiniteSet(ahead(x)) /\ rank[x] \in Nat /\ rank[x] < n
  <2>1. ahead(x) \in SUBSET set /\ ahead(x) # set
    BY DEF StrictOrder
  <2>2. IsFiniteSet(ahead(x)) /\ rank[x] <= n /\ rank[x] # n
    BY <2>1, FS_Subset
  <2>3. rank[x] \in Nat
    BY <2>2, FS_CardinalityType
  <2>. HIDE DEF ahead
  <2>. QED BY <1>1, <2>2, <2>3
<1>a. \A x \in set : rank[x] \in Nat /\ rank[x] < n
  <2>. HIDE DEF rank, ahead, n
  <2>. QED BY <1>2
<1>3. ASSUME NEW x \in set, NEW y \in set, <<x, y>> \in before PROVE rank[x] < rank[y]
  <2>1. ahead(x) \in SUBSET ahead(y) /\ x \in ahead(y) /\ x \notin ahead(x)
    BY <1>3 DEF StrictOrder
  <2>2. rank[x] <= rank[y] /\ rank[x] # rank[y]
    BY <1>2, <2>1, FS_Subset
  <2>3. rank[x] \in Int /\ rank[y] \in Int
    <3>. HIDE DEF rank, n
    <3>. QED BY <1>a
  <2>. HIDE DEF ahead
  <2>. QED BY <2>2, <2>3
<1>4. ASSUME NEW x \in set, NEW y \in set, rank[x] = rank[y] PROVE x = y
  <2>1. rank[x] \in Int
    BY <1>2
  <2>. HIDE DEF rank
  <2>. SUFFICES ASSUME x # y PROVE FALSE
    OBVIOUS
  <2>2. <<x, y>> \in before \/ <<y, x>> \in before
    BY DEF StrictOrder
  <2>3. rank[x] < rank[y] \/ rank[y] < rank[x]
    BY <2>2, <1>3
  <2>. QED BY <2>1, <2>3, <1>4
<1>5. ASSUME NEW k \in 1..n PROVE \E x \in set : rank[x] = k - 1
  <2>. SUFFICES ASSUME \A x \in set : rank[x] # k - 1 PROVE FALSE
    OBVIOUS
  <2>. DEFINE f == [x \in set |-> rank[x]]
              left == (0..(n - 1)) \ {k - 1}
  <2>1. f \in [set -> left]
    <3>1. \A x \in set : rank[x] \in left
      <4>. HIDE DEF rank, n
      <4>. QED BY <1>1, <1>a
    <3>. HIDE DEF rank, left
    <3>. QED BY <3>1
  <2>2. f \in Injection(set, left)
    <3>1. \A x, y \in set : f[x] = f[y] => x = y
      BY <1>4
    <3>. HIDE DEF f
    <3>. QED BY <2>1, <3>1 DEF Injection, IsInjective
  <2>3. IsFiniteSet(0..(n - 1)) /\ Cardinality(0..(n - 1)) = n
    <3>. DEFINE m == n - 1
    <3>. HIDE DEF n
    <3>1. m \in Int /\ (IF 0 > m THEN 0 ELSE m - 0 + 1) = n
      BY <1>1
    <3>. HIDE DEF m
    <3>2. IsFiniteSet(0..m) /\ Cardinality(0..m) = IF 0 > m THEN 0 ELSE m - 0 + 1
      BY <3>1, FS_Interval, SMTT(30)
    <3>3. IsFiniteSet(0..m) /\ Cardinality(0..m) = n
      BY <3>1, <3>2
    <3>. QED BY <3>3 DEF m
  <2>4. k - 1 \in 0..(n - 1)
    BY <1>1
  <2>5. IsFiniteSet(left) /\ Cardinality(left) = n - 1
    <3>. HIDE DEF n
    <3>. QED BY <2>3, <2>4, FS_RemoveElement
  <2>. HIDE DEF f, left
  <2>6. n <= n - 1
    BY <2>2, <2>5, FS_Injection
  <2>. QED BY <1>1, <2>6
<1>6. ASSUME NEW k \in 1..n PROVE order[k] \in set /\ rank[order[k]] = k - 1
  <2>1. order[k] = CHOOSE x \in set : rank[x] = k - 1
    BY DEF Sorted
  <2>. HIDE DEF rank, order
  <2>. QED BY <1>5, <2>1
<1>7. order \in [1..n -> set]
  BY <1>6 DEF Sorted
<1>8. ASSUME NEW x \in set PROVE \E k \in 1..n : order[k] = x
  <2>. HIDE DEF rank, order
  <2>1. rank[x] + 1 \in 1..n /\ (rank[x] + 1) - 1 = rank[x]
    <3>. HIDE DEF n
    <3>. QED BY <1>a, <1>1
  <2>2. order[rank[x] + 1] = x
    BY <1>4, <1>6, <2>1
  <2>. QED BY <2>1, <2>2
<1>9. ASSUME NEW i \in 1..n, NEW j \in 1..n, i < j PROVE <<order[i], order[j]>> \in before
  <2>. HIDE DEF rank, order
  <2>1. order[i] \in set /\ order[j] \in set /\ rank[order[i]] = i - 1 /\ rank[order[j]] = j - 1
    BY <1>6
  <2>2. order[i] # order[j] /\ ~(rank[order[j]] < rank[order[i]])
    BY <2>1, <1>9, <1>1
  <2>. QED BY <2>1, <2>2, <1>3 DEF StrictOrder
<1>. HIDE DEF order
<1>. QED BY <1>7, <1>8, <1>9 DEF InOrder, order

LEMMA InOrderTwice ==
    ASSUME NEW set, IsFiniteSet(set), NEW before, StrictOrder(before, set), NEW order,
           InOrder(order, set, before)
    PROVE  \A i, j \in 1..Cardinality(set) :
              /\ order[i] = order[j] => i = j
              /\ <<order[i], order[j]>> \in before => i < j
<1>. TAKE i, j \in 1..Cardinality(set)
<1>1. Cardinality(set) \in Nat
  BY FS_CardinalityType
<1>2. order[i] \in set /\ order[j] \in set
  BY DEF InOrder
<1>3. i < j => <<order[i], order[j]>> \in before
  BY DEF InOrder
<1>4. j < i => <<order[j], order[i]>> \in before
  BY DEF InOrder
<1>5. i < j \/ i = j \/ j < i
  BY <1>1
<1>6. i = j => order[i] = order[j]
  OBVIOUS
<1>. QED BY <1>2, <1>3, <1>4, <1>5, <1>6 DEF StrictOrder

LEMMA AscendingIsInOrder ==
    ASSUME NEW set \in SUBSET Int, IsFiniteSet(set)
    PROVE  /\ Ascending(set) \in [1..Cardinality(set) -> set]
           /\ \A x \in set : \E k \in 1..Cardinality(set) : Ascending(set)[k] = x
           /\ \A i, j \in 1..Cardinality(set) : i < j => Ascending(set)[i] < Ascending(set)[j]
<1>. DEFINE before == {p \in set \X set : p[1] < p[2]}
<1>1. StrictOrder(before, set)
  BY DEF StrictOrder
<1>2. InOrder(Ascending(set), set, before)
  BY <1>1, SortedIsInOrder DEF Ascending
<1>. QED BY <1>2 DEF InOrder

LEMMA ChosenIsInOrder ==
    ASSUME NEW S, NEW seq \in Seq(S), NEW places \in SUBSET (1..Len(seq))
    PROVE  LET n == Cardinality(places)
               order == Ascending(places)
           IN /\ n \in Nat /\ n <= Len(seq)
              /\ order \in [1..n -> places]
              /\ \A i \in places : \E k \in 1..n : order[k] = i
              /\ \A i, j \in 1..n : i < j => order[i] < order[j]
              /\ Chosen(seq, places) \in Seq(S)
              /\ Len(Chosen(seq, places)) = n
              /\ \A k \in 1..n : Chosen(seq, places)[k] = seq[order[k]]
<1>. DEFINE n == Cardinality(places)
            order == Ascending(places)
<1>1. IsFiniteSet(1..Len(seq)) /\ Cardinality(1..Len(seq)) = Len(seq)
  <2>. DEFINE len == Len(seq)
  <2>1. len \in Nat
    OBVIOUS
  <2>. HIDE DEF len
  <2>2. /\ IsFiniteSet(1..len)
        /\ Cardinality(1..len) = IF 1 > len THEN 0 ELSE len - 1 + 1
    BY <2>1, FS_Interval
  <2>3. IsFiniteSet(1..len) /\ Cardinality(1..len) = len
    BY <2>1, <2>2
  <2>. QED BY <2>3 DEF len
<1>2. IsFiniteSet(places) /\ n <= Len(seq)
  BY <1>1, FS_Subset
<1>3. n \in Nat
  BY <1>2, FS_CardinalityType
<1>4. /\ order \in [1..n -> places]
      /\ \A i \in places : \E k \in 1..n : order[k] = i
      /\ \A i, j \in 1..n : i < j => order[i] < order[j]
  <2>1. places \in SUBSET Int
    OBVIOUS
  <2>. QED BY <2>1, <1>2, AscendingIsInOrder
<1>. HIDE DEF order, n
<1>5. \A k \in 1..n : seq[order[k]] \in S
  <2>1. \A i \in places : seq[i] \in S
    OBVIOUS
  <2>. QED BY <1>4, <2>1
<1>6. Chosen(seq, places) = [k \in 1..n |-> seq[order[k]]]
  BY DEF Chosen, n, order
<1>7. Chosen(seq, places) \in [1..n -> S]
  BY <1>5, <1>6
<1>8. Chosen(seq, places) \in Seq(S) /\ Len(Chosen(seq, places)) = n
  BY <1>3, <1>7
<1>. QED BY <1>2, <1>3, <1>4, <1>6, <1>8 DEF n, order

=============================================================================
