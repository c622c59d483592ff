------------------------------ MODULE Sorting ------------------------------
(***************************************************************************)
(* Python's sorted() and comprehensions that filter. SortSeq and SelectSeq *)
(* would do for TLC, but the prover knows no definition of theirs; here an *)
(* order is a set of pairs, and the result is described, not computed.     *)
(***************************************************************************)
EXTENDS Integers, Sequences, FiniteSets

\* The members of a finite set, each after all that are before it.
Sorted(set, before) ==
    [k \in 1..Cardinality(set) |->
        CHOOSE x \in set : Cardinality({y \in set : <<y, x>> \in before}) = k - 1]

Ascending(numbers) == Sorted(numbers, {p \in numbers \X numbers : p[1] < p[2]})

\* The members of a sequence at some of its places.
Chosen(seq, places) ==
    LET order == Ascending(places) IN [k \in 1..Cardinality(places) |-> seq[order[k]]]
=============================================================================
