---------------------------- MODULE StableOrder ----------------------------
(***************************************************************************)
(* What Go's loops and sort.SliceStable do to a slice: keep some of its    *)
(* elements, or order all of them.  A relation is a set of pairs of        *)
(* places, the first of which comes before the second.                     *)
(***************************************************************************)
EXTENDS Naturals, FiniteSets

\* Of two places: what is before, and among equals what was first.
Precedes(before, i, j) == <<i, j>> \in before \/ (i < j /\ <<j, i>> \notin before)

\* How many of the places come before i.
Preceding(S, before, i) == Cardinality({j \in S : Precedes(before, j, i)})

\* The places in their order.
Arranged(S, before) ==
    [p \in 1..Cardinality(S) |-> CHOOSE i \in S : Preceding(S, before, i) = p - 1]

\* The elements at these places of s, in the order of s.
Kept(s, S) == [p \in 1..Cardinality(S) |-> s[Arranged(S, {})[p]]]

\* The elements of s in the order of the relation.
Sorted(s, before) == [p \in DOMAIN s |-> s[Arranged(DOMAIN s, before)[p]]]

============================================================================
