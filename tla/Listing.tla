------------------------------ MODULE Listing -------------------------------
(***************************************************************************)
(* Sequences made out of sets and of other sequences: what sorting and     *)
(* filtering a list come to, in terms a proof can look into, as it cannot  *)
(* look into SelectSeq and SortSeq.                                        *)
(***************************************************************************)
EXTENDS Integers, FiniteSets, SequencesExt

\* The members of a finite set from first to last: <<x, y>> is in R when x
\* comes before y.
InOrder(S, R) ==
    CHOOSE s \in [1..Cardinality(S) -> S] : \A i, j \in DOMAIN s : i < j => <<s[i], s[j]>> \in R

\* What stands at some places of a sequence.
Subsequence(s, places) ==
    LET upTo[n \in 0..Len(s)] ==
            IF n = 0 THEN <<>>
            ELSE IF n \in places THEN Append(upTo[n - 1], s[n]) ELSE upTo[n - 1]
    IN  upTo[Len(s)]

\* Some of the numbers up to n, in ascending order.
Ascending(n, numbers) == Subsequence([i \in 1..n |-> i], numbers)

\* The numbers of a list, added up.
Sum(s) ==
    LET upTo[n \in 0..Len(s)] == IF n = 0 THEN 0 ELSE upTo[n - 1] + s[n]
    IN  upTo[Len(s)]

\* The least of some places, if there are any.
FirstOf(places) == {i \in places : \A j \in places : i <= j}
=============================================================================
