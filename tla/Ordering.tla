------------------------------ MODULE Ordering ------------------------------
(***************************************************************************)
(* Sorting, and sequences of sequences: what the modules about lists of    *)
(* hits and documents of lines share.                                      *)
(***************************************************************************)
EXTENDS Integers, Sequences, FiniteSets, FiniteSetsExt, SequencesExt

\* The members of a set, in the order of a relation on it.
InOrder(S, above) ==
    [n \in 1..Cardinality(S) |->
        CHOOSE x \in S : Cardinality({y \in S : <<y, x>> \in above}) = n - 1]

Cut(s, n) == SubSeq(s, 1, Min({n, Len(s)}))

\* The slots of a sequence of lists: <<list, rank>>.
Slots(ls) == UNION {{<<i, rank>> : rank \in DOMAIN ls[i]} : i \in DOMAIN ls}
At(ls, slot) == ls[slot[1]][slot[2]]

\* The two orders slots are walked in: one list after the other, or the first
\* of every list, then the second.
ByList == <<1, 2>>
ByRank == <<2, 1>>
Precedes(order, a, b) ==
    \/ a[order[1]] < b[order[1]]
    \/ a[order[1]] = b[order[1]] /\ a[order[2]] < b[order[2]]

Walk(slots, order) == {p \in slots \X slots : Precedes(order, p[1], p[2])}
=============================================================================
