----------------------------- MODULE ListProofs -----------------------------
(* Induction, and what the lists and the sums of the models come to for     *)
(* every input.                                                             *)
EXTENDS Listing, FiniteSetTheorems, WellFoundedInduction, TLAPS

-----------------------------------------------------------------------------
(* Induction over sets of numbers *)

LEMMA LeastMember ==
    ASSUME NEW T, T \subseteq Nat, T # {}
    PROVE  \E n \in T : \A m \in T : n <= m
<1>. DEFINE R == OpToRel(<, Nat)
<1>1. IsWellFoundedOn(R, Nat)
  BY NatLessThanWellFounded
<1>2. PICK n \in T : \A m \in T : <<m, n>> \notin R
  <2>. HIDE DEF R
  <2>. QED
    BY <1>1, WFMin
<1>3. R = {p \in Nat \X Nat : p[1] < p[2]}
  BY DEF OpToRel
<1>4. \A m \in T : ~(m < n)
  BY <1>2, <1>3
<1>. QED
  BY <1>4

\* What holds of zero and, with a number, of the next, holds of all numbers:
\* P is the set of those it holds of.
LEMMA Induction ==
    ASSUME NEW P, 0 \in P, \A n \in Nat : n \in P => n + 1 \in P
    PROVE  Nat \subseteq P
<1>. DEFINE T == Nat \ P
<1>1. SUFFICES ASSUME T # {}
               PROVE  FALSE
  OBVIOUS
<1>2. PICK n \in T : \A m \in T : n <= m
  <2>1. T \subseteq Nat
    OBVIOUS
  <2>. HIDE DEF T
  <2>. QED
    BY <1>1, <2>1, LeastMember
<1>3. n - 1 \in Nat /\ n - 1 \notin T /\ (n - 1) + 1 = n
  BY <1>2
<1>4. n \in P
  BY <1>3
<1>. QED
  BY <1>4

-----------------------------------------------------------------------------
(* Recursion over the numbers up to n *)

\* A function that starts from base and goes from one number to the next by step.
Recurs(f, n, base, step) ==
    f = [k \in 0..n |-> IF k = 0 THEN base ELSE step[<<f[k - 1], k>>]]

\* There is one.
LEMMA Recursion ==
    ASSUME NEW n \in Nat, NEW base, NEW step
    PROVE  \E f : Recurs(f, n, base, step)
<1>. DEFINE next(f, k) == IF k = 0 THEN base ELSE step[<<f[k - 1], k>>]
            Reaches(f, m) == f = [k \in 0..m |-> next(f, k)]
            E == {m \in Nat : \E f : Reaches(f, m)}
<1>1. 0 \in E
  <2>. DEFINE f == [k \in 0..0 |-> base]
  <2>1. \A k \in 0..0 : k = 0 /\ next(f, k) = base
    OBVIOUS
  <2>2. f = [k \in 0..0 |-> next(f, k)]
    <3>. HIDE DEF next
    <3>. QED
      BY <2>1
  <2>. QED
    BY <2>2
<1>2. ASSUME NEW m \in Nat, m \in E
      PROVE  m + 1 \in E
  <2>1. PICK g : Reaches(g, m)
    BY <1>2
  <2>. DEFINE f == [k \in 0..(m + 1) |-> next(g, k)]
  <2>2. \A k \in 0..m : k \in 0..(m + 1) /\ f[k] = g[k]
    <3>1. \A k \in 0..m : k \in 0..(m + 1)
      OBVIOUS
    <3>. HIDE DEF next
    <3>2. \A k \in 0..m : g[k] = next(g, k)
      BY <2>1
    <3>. QED
      BY <3>1, <3>2
  <2>3. \A k \in 0..(m + 1) : next(g, k) = next(f, k)
    <3>1. \A k \in 0..(m + 1) : k = 0 \/ k - 1 \in 0..m
      OBVIOUS
    <3>. HIDE DEF f
    <3>. QED
      BY <2>2, <3>1
  <2>4. f = [k \in 0..(m + 1) |-> next(f, k)]
    <3>. HIDE DEF next
    <3>. QED
      BY <2>3
  <2>5. \E h : Reaches(h, m + 1)
    <3>. HIDE DEF f, next
    <3>. QED
      BY <2>4
  <2>. HIDE DEF Reaches
  <2>. QED
    BY <2>5
<1>3. Nat \subseteq E
  <2>. HIDE DEF E
  <2>. QED
    BY <1>1, <1>2, Induction
<1>4. PICK f : Reaches(f, n)
  BY <1>3
<1>. QED
  BY <1>4 DEF Recurs

\* What its values are in, if the first is, and each when the one before is.
LEMMA RecursionStays ==
    ASSUME NEW n \in Nat, NEW f, NEW V, f[0] \in V[0],
           \A k \in 1..n : f[k - 1] \in V[k - 1] => f[k] \in V[k]
    PROVE  \A k \in 0..n : f[k] \in V[k]
<1>. DEFINE P == {k \in Nat : k <= n => f[k] \in V[k]}
<1>1. 0 \in P
  OBVIOUS
<1>2. ASSUME NEW k \in Nat, k \in P
      PROVE  k + 1 \in P
  <2>1. SUFFICES ASSUME k + 1 <= n
                 PROVE  f[k + 1] \in V[k + 1]
    OBVIOUS
  <2>2. k + 1 \in 1..n /\ (k + 1) - 1 = k /\ k <= n
    BY <2>1
  <2>. QED
    BY <1>2, <2>2
<1>3. Nat \subseteq P
  <2>. HIDE DEF P
  <2>. QED
    BY <1>1, <1>2, Induction
<1>. QED
  BY <1>3

\* A step that is given for the values the recursion goes through.
LEMMA RecursionWithin ==
    ASSUME NEW n \in Nat, NEW V, NEW base \in V[0], NEW step,
           \A k \in 1..n : \A v \in V[k - 1] : step[<<v, k>>] \in V[k]
    PROVE  \E f : Recurs(f, n, base, step) /\ \A k \in 0..n : f[k] \in V[k]
<1>1. PICK f : Recurs(f, n, base, step)
  BY Recursion
<1>2. f[0] = base /\ \A k \in 1..n : f[k] = step[<<f[k - 1], k>>]
  <2>1. 0 \in 0..n /\ \A k \in 1..n : k \in 0..n /\ k # 0
    OBVIOUS
  <2>. QED
    BY <1>1, <2>1 DEF Recurs
<1>3. \A k \in 0..n : f[k] \in V[k]
  BY <1>2, RecursionStays
<1>. QED
  BY <1>1, <1>3


-----------------------------------------------------------------------------
(* Lists *)

Orders(R, S) ==
    /\ \A x \in S : <<x, x>> \notin R
    /\ \A x, y, z \in S : <<x, y>> \in R /\ <<y, z>> \in R => <<x, z>> \in R
    /\ \A x, y \in S : x # y => <<x, y>> \in R \/ <<y, x>> \in R

\* Counting what comes before gives every member a place of its own, and so
\* every place a member.
LEMMA EveryPlaceIsTaken ==
    ASSUME NEW S, IsFiniteSet(S), NEW R, Orders(R, S)
    PROVE  LET place(x) == 1 + Cardinality({y \in S : <<y, x>> \in R})
           IN  /\ \A x \in S : place(x) \in 1..Cardinality(S)
               /\ \A x, y \in S : place(x) = place(y) => x = y
               /\ \A k \in 1..Cardinality(S) : \E x \in S : place(x) = k
               /\ \A x, y \in S : <<x, y>> \in R => place(x) < place(y)
<1>. DEFINE Before(x) == {y \in S : <<y, x>> \in R}
            place(x) == 1 + Cardinality(Before(x))
            n == Cardinality(S)
            f == [x \in S |-> place(x)]
<1>1. n \in Nat
  BY FS_CardinalityType
<1>2. ASSUME NEW x \in S
      PROVE  IsFiniteSet(Before(x)) /\ Cardinality(Before(x)) \in Nat /\ Cardinality(Before(x)) < n
  <2>1. Before(x) \subseteq S /\ Before(x) # S
    BY DEF Orders
  <2>. HIDE DEF Before
  <2>. QED
    BY <2>1, FS_Subset, FS_CardinalityType
<1>3. ASSUME NEW x \in S, NEW y \in S, <<x, y>> \in R
      PROVE  Cardinality(Before(x)) < Cardinality(Before(y))
  <2>1. Before(x) \subseteq Before(y) /\ x \in Before(y) /\ x \notin Before(x)
    BY <1>3 DEF Orders
  <2>2. IsFiniteSet(Before(y)) /\ Cardinality(Before(x)) \in Nat /\ Cardinality(Before(y)) \in Nat
    BY <1>2
  <2>. HIDE DEF Before
  <2>. QED
    BY <2>1, <2>2, FS_Subset
<1>4. \A x \in S : Cardinality(Before(x)) \in Nat /\ Cardinality(Before(x)) < n
  BY <1>2
<1>5. \A x, y \in S : Cardinality(Before(x)) = Cardinality(Before(y)) => x = y
  <2>1. SUFFICES ASSUME NEW x \in S, NEW y \in S, x # y
                 PROVE  Cardinality(Before(x)) # Cardinality(Before(y))
    OBVIOUS
  <2>2. <<x, y>> \in R \/ <<y, x>> \in R
    BY <2>1 DEF Orders
  <2>. HIDE DEF Before
  <2>. QED
    BY <1>3, <1>4, <2>2
<1>. HIDE DEF Before
<1>6. \A x \in S : place(x) \in 1..n
  BY <1>1, <1>4
<1>7. \A x, y \in S : place(x) = place(y) => x = y
  BY <1>4, <1>5
<1>8. f \in Injection(S, 1..n)
  <2>1. f \in [S -> 1..n]
    BY <1>6
  <2>2. \A x, y \in DOMAIN f : f[x] = f[y] => x = y
    BY <1>7
  <2>. HIDE DEF f
  <2>. QED
    BY <2>1, <2>2 DEF Injection, IsInjective
<1>9. IsFiniteSet(1..n) /\ Cardinality(1..n) = n
  BY <1>1, FS_Interval
<1>10. f \in Surjection(S, 1..n)
  <2>. HIDE DEF f, n
  <2>. QED
    BY <1>8, <1>9, FS_Injection DEF n
<1>11. \A k \in 1..n : \E x \in S : place(x) = k
  BY <1>10 DEF Surjection
<1>12. \A x, y \in S : <<x, y>> \in R => place(x) < place(y)
  BY <1>3, <1>4
<1>. QED
  BY <1>6, <1>7, <1>11, <1>12 DEF Before

\* A set in order is a sequence of its members, each of them once.
LEMMA InOrderLists ==
    ASSUME NEW S, IsFiniteSet(S), NEW R,
           \A x \in S : <<x, x>> \notin R,
           \A x, y, z \in S : <<x, y>> \in R /\ <<y, z>> \in R => <<x, z>> \in R,
           \A x, y \in S : x # y => <<x, y>> \in R \/ <<y, x>> \in R
    PROVE  /\ InOrder(S, R) \in Seq(S) /\ Len(InOrder(S, R)) = Cardinality(S)
           /\ ToSet(InOrder(S, R)) = S
           /\ \A i, j \in DOMAIN InOrder(S, R) : InOrder(S, R)[i] = InOrder(S, R)[j] => i = j
<1>. DEFINE place(x) == 1 + Cardinality({y \in S : <<y, x>> \in R})
            n == Cardinality(S)
            s == InOrder(S, R)
            Sorted(l) == \A i, j \in DOMAIN l : i < j => <<l[i], l[j]>> \in R
            byPlace == [k \in 1..n |-> CHOOSE x \in S : place(x) = k]
<1>1. n \in Nat
  BY FS_CardinalityType
<1>2. /\ \A x \in S : place(x) \in 1..n
      /\ \A k \in 1..n : \E x \in S : place(x) = k
      /\ \A x, y \in S : place(x) = place(y) => x = y
      /\ \A x, y \in S : <<x, y>> \in R => place(x) < place(y)
  <2>1. Orders(R, S)
    BY DEF Orders
  <2>. QED
    BY <2>1, EveryPlaceIsTaken
<1>. HIDE DEF place
<1>3. byPlace \in [1..n -> S] /\ Sorted(byPlace)
  <2>1. \A k \in 1..n : byPlace[k] \in S /\ place(byPlace[k]) = k
    BY <1>2
  <2>2. DOMAIN byPlace = 1..n /\ byPlace \in [1..n -> S]
    BY <2>1
  <2>. HIDE DEF byPlace
  <2>3. ASSUME NEW i \in 1..n, NEW j \in 1..n, i < j
        PROVE  <<byPlace[i], byPlace[j]>> \in R
    <3>1. ~(place(byPlace[j]) < place(byPlace[i])) /\ byPlace[i] # byPlace[j]
      BY <2>1, <2>3
    <3>. QED
      BY <1>2, <2>1, <3>1
  <2>. QED
    BY <2>2, <2>3
<1>4. s \in [1..n -> S] /\ Sorted(s)
  <2>1. s = CHOOSE l \in [1..n -> S] : Sorted(l)
    BY DEF InOrder
  <2>. HIDE DEF s, n, Sorted, byPlace
  <2>. QED
    BY <1>3, <2>1
<1>. HIDE DEF s, n
<1>5. s \in Seq(S) /\ Len(s) = n /\ DOMAIN s = 1..n
  BY <1>1, <1>4
<1>6. \A i, j \in DOMAIN s : s[i] = s[j] => i = j
  <2>1. ASSUME NEW i \in 1..n, NEW j \in 1..n, i < j
        PROVE  s[i] # s[j]
    BY <1>4, <1>5, <2>1
  <2>. QED
    BY <1>1, <1>5, <2>1
<1>7. ToSet(s) = S
  <2>1. s \in Injection(1..n, S)
    BY <1>4, <1>5, <1>6 DEF Injection, IsInjective
  <2>2. IsFiniteSet(1..n) /\ Cardinality(1..n) = n
    BY <1>1, FS_Interval
  <2>3. s \in Surjection(1..n, S)
    <3>1. n = Cardinality(S)
      BY DEF n
    <3>. QED
      BY <2>1, <2>2, <3>1, FS_Injection
  <2>. QED
    BY <1>5, <2>3 DEF Surjection, ToSet
<1>. QED
  BY <1>5, <1>6, <1>7 DEF s, n

\* A sequence has finitely many members, at most one for each place.
LEMMA MembersAreFinite ==
    ASSUME NEW T, NEW s \in Seq(T)
    PROVE  /\ IsFiniteSet(DOMAIN s) /\ Cardinality(DOMAIN s) = Len(s)
           /\ IsFiniteSet(ToSet(s)) /\ ToSet(s) \subseteq T
           /\ Cardinality(ToSet(s)) <= Len(s)
<1>1. Len(s) \in Nat /\ DOMAIN s = 1..Len(s) /\ s \in [1..Len(s) -> ToSet(s)]
  BY DEF ToSet
<1>2. IsFiniteSet(DOMAIN s) /\ Cardinality(DOMAIN s) = Len(s)
  BY <1>1, FS_Interval
<1>3. s \in Surjection(DOMAIN s, ToSet(s))
  BY <1>1 DEF Surjection, ToSet
<1>4. IsFiniteSet(ToSet(s)) /\ Cardinality(ToSet(s)) <= Len(s)
  BY <1>2, <1>3, FS_Surjection
<1>. QED
  BY <1>2, <1>4 DEF ToSet

\* Going through a sequence, what stands at the places is taken.
LEMMA SubsequenceSteps ==
    ASSUME NEW T, NEW s \in Seq(T), NEW places
    PROVE  \E f : /\ \A k \in 0..Len(s) : f[k] \in Seq(T)
                  /\ f[0] = <<>>
                  /\ \A k \in 1..Len(s) : f[k] = IF k \in places THEN Append(f[k - 1], s[k]) ELSE f[k - 1]
                  /\ Subsequence(s, places) = f[Len(s)]
<1>. DEFINE n == Len(s)
            S == Seq(T)
            V == [k \in 0..n |-> S]
            take(l, k) == IF k \in places THEN Append(l, s[k]) ELSE l
            step == [p \in S \X (1..n) |-> take(p[1], p[2])]
            next(f, k) == IF k = 0 THEN <<>>
                          ELSE IF k \in places THEN Append(f[k - 1], s[k]) ELSE f[k - 1]
            Filters(f) == f = [k \in 0..n |-> next(f, k)]
            upTo == CHOOSE f : Filters(f)
<1>1. n \in Nat /\ \A k \in 1..n : s[k] \in T
  OBVIOUS
<1>2. <<>> \in S /\ \A l \in S, x \in T : Append(l, x) \in S
  OBVIOUS
<1>. HIDE DEF n, S
<1>3. \A k \in 1..n : k \in 0..n /\ k - 1 \in 0..n /\ k # 0
  BY <1>1
<1>4. \A k \in 0..n : V[k] = S
  OBVIOUS
<1>5. \A k \in 1..n : \A v \in S : take(v, k) \in S
  BY <1>1, <1>2
<1>6. \A k \in 1..n : \A v \in S : step[<<v, k>>] = take(v, k)
  OBVIOUS
<1>. HIDE DEF V, step
<1>7. PICK g : Recurs(g, n, <<>>, step) /\ \A k \in 0..n : g[k] \in V[k]
  <2>1. ASSUME NEW k \in 1..n, NEW v \in V[k - 1]
        PROVE  step[<<v, k>>] \in V[k]
    <3>1. V[k - 1] = S /\ V[k] = S
      BY <1>3, <1>4
    <3>. HIDE DEF take
    <3>. QED
      BY <1>5, <1>6, <3>1
  <2>2. <<>> \in V[0]
    BY <1>1, <1>2, <1>4
  <2>. QED
    BY <1>1, <2>1, <2>2, RecursionWithin
<1>8. \E f : Filters(f)
  <2>1. \A k \in 0..n : k # 0 => step[<<g[k - 1], k>>] = take(g[k - 1], k)
    <3>1. \A k \in 0..n : k # 0 => k \in 1..n /\ k - 1 \in 0..n
      BY <1>1
    <3>2. \A k \in 0..n : g[k] \in S
      BY <1>4, <1>7
    <3>. HIDE DEF take
    <3>. QED
      BY <1>6, <3>1, <3>2
  <2>2. g = [k \in 0..n |-> IF k = 0 THEN <<>> ELSE take(g[k - 1], k)]
    <3>. HIDE DEF take
    <3>. QED
      BY <1>7, <2>1 DEF Recurs
  <2>. QED
    BY <2>2
<1>9. Filters(upTo)
  <2>. HIDE DEF Filters
  <2>. QED
    BY <1>8
<1>10. Subsequence(s, places) = upTo[n]
  BY DEF Subsequence, n
<1>11. \A k \in 0..n : upTo[k] = next(upTo, k)
  <2>. HIDE DEF upTo, next
  <2>. QED
    BY <1>9
<1>. HIDE DEF upTo
<1>12. upTo[0] = <<>> /\ \A k \in 1..n : upTo[k] = take(upTo[k - 1], k)
  <2>1. 0 \in 0..n
    BY <1>1
  <2>. QED
    BY <1>3, <1>11, <2>1
<1>13. \A k \in 0..n : upTo[k] \in V[k]
  <2>1. \A k \in 1..n : upTo[k - 1] \in V[k - 1] => upTo[k] \in V[k]
    <3>. HIDE DEF take
    <3>. QED
      BY <1>3, <1>4, <1>5, <1>12
  <2>2. upTo[0] \in V[0]
    BY <1>1, <1>2, <1>4, <1>12
  <2>. QED
    BY <1>1, <2>1, <2>2, RecursionStays
<1>14. \A k \in 0..n : upTo[k] \in S
  BY <1>4, <1>13
<1>. QED
  BY <1>10, <1>12, <1>14 DEF n, S

\* What stands at some places of a sequence, in the order it stands there.
LEMMA SubsequenceKeepsOrder ==
    ASSUME NEW T, NEW s \in Seq(T), NEW places
    PROVE  LET sub == Subsequence(s, places)
           IN  /\ sub \in Seq(T) /\ Len(sub) <= Len(s)
               /\ \E at \in [DOMAIN sub -> places \intersect DOMAIN s] :
                     /\ \A i \in DOMAIN sub : sub[i] = s[at[i]]
                     /\ \A i, j \in DOMAIN sub : i < j => at[i] < at[j]
                     /\ \A p \in places \intersect DOMAIN s : \E i \in DOMAIN sub : at[i] = p
<1>. DEFINE n == Len(s)
            S == Seq(T)
            D(k) == {p \in places : p \in 1..k}
            Placed(l, k, at) == /\ at \in [DOMAIN l -> D(k)]
                                /\ \A i \in DOMAIN l : l[i] = s[at[i]]
                                /\ \A i, j \in DOMAIN l : i < j => at[i] < at[j]
                                /\ \A p \in D(k) : \E i \in DOMAIN l : at[i] = p
            Fits(l, k) == l \in S /\ Len(l) <= k /\ \E at : Placed(l, k, at)
            V == [k \in 0..n |-> {l \in S : Fits(l, k)}]
<1>1. n \in Nat /\ DOMAIN s = 1..n /\ \A k \in 1..n : s[k] \in T
  OBVIOUS
<1>2. PICK f : /\ \A k \in 0..n : f[k] \in S
               /\ f[0] = <<>>
               /\ \A k \in 1..n : f[k] = IF k \in places THEN Append(f[k - 1], s[k]) ELSE f[k - 1]
               /\ Subsequence(s, places) = f[n]
  BY SubsequenceSteps
<1>3. \A k \in 0..n : V[k] = {l \in S : Fits(l, k)}
  OBVIOUS
<1>. HIDE DEF n, V
<1>4. ASSUME NEW k \in 1..n, f[k - 1] \in V[k - 1]
      PROVE  f[k] \in V[k]
  <2>. DEFINE l == f[k - 1]
  <2>1. k \in 0..n /\ k - 1 \in 0..n
    BY <1>1
  <2>2. f[k] = IF k \in places THEN Append(l, s[k]) ELSE l
    BY <1>2
  <2>3. Fits(l, k - 1)
    <3>. HIDE DEF Fits
    <3>. QED
      BY <1>3, <1>4, <2>1
  <2>. HIDE DEF l
  <2>4. PICK at : Placed(l, k - 1, at)
    <3>. HIDE DEF Placed
    <3>. QED
      BY <2>3
  <2>5. CASE k \notin places
    <3>1. D(k) = D(k - 1)
      BY <2>1, <2>5
    <3>2. Placed(l, k, at)
      <4>. HIDE DEF D
      <4>. QED
        BY <2>4, <3>1
    <3>3. Fits(l, k)
      <4>. HIDE DEF Placed
      <4>1. Len(l) <= k
        BY <2>1, <2>3
      <4>. QED
        BY <2>3, <3>2, <4>1
    <3>. HIDE DEF Fits
    <3>. QED
      BY <1>2, <1>3, <2>1, <2>2, <2>5, <3>3
  <2>6. CASE k \in places
    <3>. DEFINE m == Len(l) + 1
                more == Append(l, s[k])
                to == [i \in 1..m |-> IF i = m THEN k ELSE at[i]]
    <3>1. /\ more \in S /\ Len(more) = m /\ DOMAIN more = 1..m /\ m \in Nat \ {0} /\ m <= k
          /\ DOMAIN l = 1..(m - 1) /\ more[m] = s[k] /\ \A i \in 1..(m - 1) : more[i] = l[i]
      BY <1>1, <2>1, <2>3
    <3>2. D(k) = D(k - 1) \union {k} /\ \A p \in D(k - 1) : p \in Nat /\ p < k
      <4>1. 1..k = (1..(k - 1)) \union {k} /\ \A p \in 1..(k - 1) : p \in Nat /\ p < k
        BY <1>1, <2>1
      <4>. QED
        BY <2>6, <4>1
    <3>3. /\ at \in [1..(m - 1) -> D(k - 1)]
          /\ \A i \in 1..(m - 1) : l[i] = s[at[i]]
          /\ \A i, j \in 1..(m - 1) : i < j => at[i] < at[j]
          /\ \A p \in D(k - 1) : \E i \in 1..(m - 1) : at[i] = p
      <4>. HIDE DEF D, m
      <4>. QED
        BY <2>4, <3>1
    <3>. HIDE DEF m, more, D
    <3>4. \A i \in 1..m : i = m \/ i \in 1..(m - 1)
      BY <3>1
    <3>5. m \in 1..m /\ \A i \in 1..(m - 1) : i \in 1..m /\ i # m
      BY <3>1
    <3>6. to[m] = k /\ \A i \in 1..(m - 1) : to[i] = at[i]
      BY <3>5
    <3>7. to \in [1..m -> D(k)]
      <4>1. \A i \in 1..(m - 1) : at[i] \in D(k - 1)
        BY <3>3
      <4>. QED
        BY <3>2, <3>4, <4>1
    <3>. HIDE DEF to
    <3>8. \A i \in 1..m : more[i] = s[to[i]]
      BY <3>1, <3>3, <3>4, <3>6
    <3>9. ASSUME NEW i \in 1..m, NEW j \in 1..m, i < j
          PROVE  to[i] < to[j]
      <4>1. i \in 1..(m - 1) /\ to[i] = at[i] /\ at[i] \in D(k - 1)
        BY <3>1, <3>3, <3>6, <3>9
      <4>2. CASE j = m
        BY <3>2, <3>6, <4>1, <4>2
      <4>3. CASE j \in 1..(m - 1)
        BY <3>3, <3>6, <3>9, <4>1, <4>3
      <4>. QED
        BY <3>4, <4>2, <4>3
    <3>10. \A p \in D(k) : \E i \in 1..m : to[i] = p
      BY <3>2, <3>3, <3>5, <3>6
    <3>11. Placed(more, k, to)
      BY <3>1, <3>7, <3>8, <3>9, <3>10
    <3>12. Fits(more, k)
      <4>. HIDE DEF Placed
      <4>. QED
        BY <3>1, <3>11
    <3>13. f[k] = more
      BY <2>2, <2>6 DEF more
    <3>. HIDE DEF Fits
    <3>. QED
      BY <1>3, <2>1, <3>1, <3>12, <3>13
  <2>. QED
    BY <2>5, <2>6
<1>5. f[0] \in V[0]
  <2>1. 0 \in 0..n /\ D(0) = {}
    BY <1>1
  <2>2. Placed(<<>>, 0, <<>>)
    <3>. HIDE DEF D
    <3>. QED
      BY <2>1
  <2>3. Fits(<<>>, 0)
    <3>. HIDE DEF Placed
    <3>. QED
      BY <2>2
  <2>. HIDE DEF Fits
  <2>. QED
    BY <1>2, <1>3, <2>1, <2>3
<1>6. \A k \in 0..n : f[k] \in V[k]
  BY <1>1, <1>4, <1>5, RecursionStays
<1>7. Fits(Subsequence(s, places), n)
  <2>1. n \in 0..n
    BY <1>1
  <2>. HIDE DEF Fits
  <2>. QED
    BY <1>2, <1>3, <1>6, <2>1
<1>8. D(n) = places \intersect DOMAIN s
  BY <1>1
<1>. QED
  <2>. DEFINE sub == Subsequence(s, places)
  <2>. HIDE DEF D, S, sub
  <2>1. sub \in S /\ Len(sub) <= n /\ \E at : Placed(sub, n, at)
    BY <1>7 DEF sub
  <2>. QED
    BY <1>8, <2>1 DEF S, n, sub

\* What stands at some places of a sequence is there, and is no more than that.
LEMMA SubsequenceOf ==
    ASSUME NEW T, NEW s \in Seq(T), NEW places \in SUBSET DOMAIN s
    PROVE  /\ Subsequence(s, places) \in Seq(T) /\ Len(Subsequence(s, places)) <= Len(s)
           /\ ToSet(Subsequence(s, places)) = {s[i] : i \in places}
<1>. DEFINE sub == Subsequence(s, places)
<1>1. places \intersect DOMAIN s = places
  OBVIOUS
<1>2. /\ sub \in Seq(T) /\ Len(sub) <= Len(s)
      /\ \E at \in [DOMAIN sub -> places] :
            /\ \A i \in DOMAIN sub : sub[i] = s[at[i]]
            /\ \A p \in places : \E i \in DOMAIN sub : at[i] = p
  <2>. HIDE DEF sub
  <2>. QED
    BY <1>1, SubsequenceKeepsOrder DEF sub
<1>. HIDE DEF sub
<1>3. ToSet(sub) = {s[i] : i \in places}
  BY <1>2 DEF ToSet
<1>. QED
  BY <1>2, <1>3 DEF sub

\* Numbers in ascending order are in ascending order, and all there.
LEMMA AscendingHolds ==
    ASSUME NEW n \in Nat, NEW numbers
    PROVE  LET a == Ascending(n, numbers)
           IN  /\ a \in Seq(1..n) /\ ToSet(a) = numbers \intersect 1..n
               /\ \A i, j \in DOMAIN a : i < j => a[i] < a[j]
<1>. DEFINE s == [i \in 1..n |-> i]
            a == Subsequence(s, numbers)
<1>1. s \in Seq(1..n) /\ DOMAIN s = 1..n /\ \A i \in 1..n : s[i] = i
  OBVIOUS
<1>2. Ascending(n, numbers) = a
  BY DEF Ascending
<1>. HIDE DEF s
<1>3. a \in Seq(1..n)
  BY <1>1, SubsequenceKeepsOrder
<1>4. PICK at \in [DOMAIN a -> numbers \intersect DOMAIN s] :
         /\ \A i \in DOMAIN a : a[i] = s[at[i]]
         /\ \A i, j \in DOMAIN a : i < j => at[i] < at[j]
         /\ \A p \in numbers \intersect DOMAIN s : \E i \in DOMAIN a : at[i] = p
  BY <1>1, SubsequenceKeepsOrder
<1>. HIDE DEF a
<1>5. ASSUME NEW i \in DOMAIN a
      PROVE  a[i] = at[i]
  <2>1. at[i] \in DOMAIN s /\ a[i] = s[at[i]]
    BY <1>4
  <2>. QED
    BY <1>1, <2>1
<1>6. ToSet(a) = numbers \intersect 1..n
  <2>1. numbers \intersect DOMAIN s = numbers \intersect 1..n
    BY <1>1
  <2>2. \A x : x \in ToSet(a) <=> \E i \in DOMAIN a : x = a[i]
    BY DEF ToSet
  <2>. QED
    BY <1>4, <1>5, <2>1, <2>2
<1>7. \A i, j \in DOMAIN a : i < j => a[i] < a[j]
  BY <1>4, <1>5
<1>. QED
  BY <1>2, <1>3, <1>6, <1>7

\* What fits in the first places of a sequence is of the sequence, and not
\* longer: First of the retriever, and the cut of a ranked list.
LEMMA BeginningOf ==
    ASSUME NEW T, NEW s \in Seq(T), NEW n \in Nat
    PROVE  LET front == SubSeq(s, 1, IF n < Len(s) THEN n ELSE Len(s))
           IN  /\ front \in Seq(T) /\ Len(front) <= n /\ Len(front) <= Len(s)
               /\ ToSet(front) \subseteq ToSet(s)
               /\ \A i \in DOMAIN front : i \in DOMAIN s /\ front[i] = s[i]
<1>. DEFINE last == IF n < Len(s) THEN n ELSE Len(s)
            front == SubSeq(s, 1, last)
<1>1. last \in Nat /\ last <= n /\ last <= Len(s) /\ Len(s) \in Nat /\ DOMAIN s = 1..Len(s)
  OBVIOUS
<1>. HIDE DEF last
<1>2. front \in Seq(T) /\ Len(front) = last /\ DOMAIN front = 1..last
  BY <1>1
<1>3. \A i \in 1..last : front[i] = s[i] /\ i \in DOMAIN s
  BY <1>1
<1>. HIDE DEF front
<1>4. ToSet(front) \subseteq ToSet(s)
  BY <1>2, <1>3 DEF ToSet
<1>. QED
  BY <1>1, <1>2, <1>3, <1>4 DEF last, front

\* Two lists one after the other hold what the two hold.
LEMMA ConcatenatedHolds ==
    ASSUME NEW T, NEW a \in Seq(T), NEW b \in Seq(T)
    PROVE  a \o b \in Seq(T) /\ ToSet(a \o b) = ToSet(a) \cup ToSet(b)
<1>. DEFINE ab == a \o b
<1>1. ab \in Seq(T) /\ Len(ab) = Len(a) + Len(b) /\ DOMAIN ab = 1..(Len(a) + Len(b))
  OBVIOUS
<1>2. /\ \A i \in 1..Len(a) : ab[i] = a[i]
      /\ \A i \in 1..Len(b) : ab[Len(a) + i] = b[i]
  OBVIOUS
<1>3. /\ Len(a) \in Nat /\ Len(b) \in Nat
      /\ \A i \in 1..(Len(a) + Len(b)) : i \in 1..Len(a) \/ (i - Len(a) \in 1..Len(b) /\ Len(a) + (i - Len(a)) = i)
  OBVIOUS
<1>. HIDE DEF ab
<1>4. ToSet(ab) \subseteq ToSet(a) \cup ToSet(b)
  <2>1. ASSUME NEW i \in DOMAIN ab
        PROVE  ab[i] \in ToSet(a) \cup ToSet(b)
    <3>1. CASE i \in 1..Len(a)
      <4>1. i \in DOMAIN a /\ ab[i] = a[i]
        BY <1>2, <3>1
      <4>. QED
        BY <4>1 DEF ToSet
    <3>2. CASE i - Len(a) \in 1..Len(b) /\ Len(a) + (i - Len(a)) = i
      <4>1. i - Len(a) \in DOMAIN b /\ ab[i] = b[i - Len(a)]
        BY <1>2, <3>2
      <4>. QED
        BY <4>1 DEF ToSet
    <3>. QED
      BY <1>1, <1>3, <3>1, <3>2
  <2>. QED
    BY <2>1 DEF ToSet
<1>5. ToSet(a) \subseteq ToSet(ab)
  <2>1. \A i \in 1..Len(a) : i \in DOMAIN ab
    BY <1>1, <1>3
  <2>2. DOMAIN a = 1..Len(a)
    OBVIOUS
  <2>. QED
    BY <1>2, <2>1, <2>2 DEF ToSet
<1>6. ToSet(b) \subseteq ToSet(ab)
  <2>1. \A i \in 1..Len(b) : Len(a) + i \in DOMAIN ab
    BY <1>1, <1>3
  <2>. QED
    BY <1>2, <2>1 DEF ToSet
<1>. QED
  BY <1>1, <1>4, <1>5, <1>6 DEF ab

\* Lists put one after another are a list of what the lists hold.
LEMMA FlattenedHolds ==
    ASSUME NEW T, NEW seqs \in Seq(Seq(T))
    PROVE  /\ FlattenSeq(seqs) \in Seq(T)
           /\ ToSet(FlattenSeq(seqs)) = UNION {ToSet(seqs[i]) : i \in DOMAIN seqs}
<1>1. CASE seqs = <<>>
  BY <1>1 DEF FlattenSeq, ToSet
<1>. DEFINE next(f, n) == IF n = 1 THEN seqs[n] ELSE f[n - 1] \o seqs[n]
            Flattens(f, m) == f = [n \in 1..m |-> next(f, n)]
            E == {m \in Nat : \E f : Flattens(f, m)}
            flatten == CHOOSE f : Flattens(f, Len(seqs))
            upTo(n) == UNION {ToSet(seqs[i]) : i \in 1..n}
            Holds(n) == flatten[n] \in Seq(T) /\ ToSet(flatten[n]) = upTo(n)
            P == {n \in Nat : n \in 1..Len(seqs) => Holds(n)}
<1>2. CASE seqs # <<>>
  <2>1. DOMAIN seqs = 1..Len(seqs) /\ Len(seqs) \in Nat \ {0} /\ \A i \in DOMAIN seqs : seqs[i] \in Seq(T)
    BY <1>2
  <2>2. 0 \in E
    <3>1. \E f : Flattens(f, 0)
      <4>. DEFINE f == [n \in 1..0 |-> <<>>]
      <4>1. f = [n \in 1..0 |-> next(f, n)]
        <5>1. 1..0 = {}
          OBVIOUS
        <5>. HIDE DEF next
        <5>. QED
          BY <5>1
      <4>. QED
        BY <4>1
    <3>. QED
      BY <3>1
  <2>3. ASSUME NEW m \in Nat, m \in E
        PROVE  m + 1 \in E
    <3>1. PICK g : Flattens(g, m)
      BY <2>3
    <3>. DEFINE f == [n \in 1..(m + 1) |-> next(g, n)]
    <3>2. \A n \in 1..m : n \in 1..(m + 1) /\ f[n] = g[n]
      <4>1. \A n \in 1..m : n \in 1..(m + 1)
        OBVIOUS
      <4>. HIDE DEF next
      <4>2. \A n \in 1..m : g[n] = next(g, n)
        BY <3>1
      <4>. QED
        BY <4>1, <4>2
    <3>3. \A n \in 1..(m + 1) : next(g, n) = next(f, n)
      <4>1. \A n \in 1..(m + 1) : n = 1 \/ n - 1 \in 1..m
        OBVIOUS
      <4>. HIDE DEF f
      <4>. QED
        BY <3>2, <4>1
    <3>4. f = [n \in 1..(m + 1) |-> next(f, n)]
      <4>. HIDE DEF next
      <4>. QED
        BY <3>3
    <3>5. \E h : Flattens(h, m + 1)
      <4>. HIDE DEF f, next
      <4>. QED
        BY <3>4
    <3>. HIDE DEF Flattens
    <3>. QED
      BY <3>5
  <2>4. \E f : Flattens(f, Len(seqs))
    <3>1. Nat \subseteq E
      <4>. HIDE DEF E
      <4>. QED
        BY <2>2, <2>3, Induction
    <3>. HIDE DEF Flattens
    <3>. QED
      BY <2>1, <3>1
  <2>5. Flattens(flatten, Len(seqs))
    <3>. HIDE DEF Flattens
    <3>. QED
      BY <2>4
  <2>6. FlattenSeq(seqs) = flatten[Len(seqs)]
    BY <2>1 DEF FlattenSeq
  <2>7. /\ flatten[1] = seqs[1]
        /\ \A n \in Nat : n # 0 /\ n + 1 \in 1..Len(seqs) => flatten[n + 1] = flatten[n] \o seqs[n + 1]
    <3>1. \A n \in 1..Len(seqs) : flatten[n] = next(flatten, n)
      <4>. HIDE DEF flatten, next
      <4>. QED
        BY <2>5
    <3>2. 1 \in 1..Len(seqs) /\ \A n \in Nat : n # 0 => n + 1 # 1 /\ (n + 1) - 1 = n
      BY <2>1
    <3>. HIDE DEF flatten
    <3>. QED
      BY <3>1, <3>2
  <2>. HIDE DEF flatten
  <2>8. 0 \in P
    OBVIOUS
  <2>9. ASSUME NEW n \in Nat, n \in P
        PROVE  n + 1 \in P
    <3>1. SUFFICES ASSUME n + 1 \in 1..Len(seqs)
                   PROVE  Holds(n + 1)
      OBVIOUS
    <3>2. CASE n = 0
      <4>1. 1..1 = {1}
        OBVIOUS
      <4>2. upTo(1) = ToSet(seqs[1])
        BY <4>1
      <4>3. Holds(1)
        <5>. HIDE DEF upTo
        <5>. QED
          BY <2>1, <2>7, <4>2
      <4>. QED
        BY <3>2, <4>3
    <3>3. CASE n # 0
      <4>1. Holds(n) /\ seqs[n + 1] \in Seq(T)
        BY <2>1, <2>9, <3>1, <3>3
      <4>2. flatten[n + 1] = flatten[n] \o seqs[n + 1]
        BY <2>7, <3>1, <3>3
      <4>3. \A a, b \in Seq(T) : a \o b \in Seq(T) /\ ToSet(a \o b) = ToSet(a) \cup ToSet(b)
        BY ConcatenatedHolds
      <4>4. 1..(n + 1) = 1..n \cup {n + 1}
        OBVIOUS
      <4>5. upTo(n + 1) = upTo(n) \cup ToSet(seqs[n + 1])
        BY <4>4
      <4>. HIDE DEF upTo
      <4>. QED
        BY <4>1, <4>2, <4>3, <4>5
    <3>. QED
      BY <3>2, <3>3
  <2>10. Nat \subseteq P
    <3>. HIDE DEF P
    <3>. QED
      BY <2>8, <2>9, Induction
  <2>11. Holds(Len(seqs))
    <3>1. Len(seqs) \in P /\ Len(seqs) \in 1..Len(seqs)
      <4>. HIDE DEF P
      <4>. QED
        BY <2>1, <2>10
    <3>. HIDE DEF Holds
    <3>. QED
      BY <3>1
  <2>. QED
    BY <2>1, <2>6, <2>11
<1>. QED
  BY <1>1, <1>2

-----------------------------------------------------------------------------
(* Sums and products over finite sets *)

\* A function that goes through the subsets of S, taking out one member after
\* another: a step takes a member and what the rest comes to.
Goes(f, S, base, step) ==
    f = [t \in SUBSET S |->
            IF t = {} THEN base ELSE LET x == CHOOSE x \in t : TRUE IN step[<<x, f[t \ {x}]>>]]

\* There is one.
LEMMA SubsetsAreGoneThrough ==
    ASSUME NEW S, IsFiniteSet(S), NEW base, NEW step
    PROVE  \E f : Goes(f, S, base, step)
<1>. DEFINE Small(n)  == {t \in SUBSET S : Cardinality(t) <= n}
            next(g, t) == IF t = {} THEN base ELSE LET x == CHOOSE x \in t : TRUE IN step[<<x, g[t \ {x}]>>]
            P == {n \in Nat : \E f : f = [t \in Small(n) |-> next(f, t)]}
<1>1. \A t \in SUBSET S : IsFiniteSet(t) /\ Cardinality(t) \in Nat /\ Cardinality(t) <= Cardinality(S)
  BY FS_Subset, FS_CardinalityType
<1>2. ASSUME NEW t \in SUBSET S, t # {}
      PROVE  LET x == CHOOSE x \in t : TRUE
             IN  t \ {x} \in SUBSET S /\ Cardinality(t \ {x}) = Cardinality(t) - 1
  BY <1>1, <1>2, FS_RemoveElement
<1>3. 0 \in P
  <2>. DEFINE f == [t \in Small(0) |-> base]
  <2>1. \A t \in Small(0) : t = {}
    BY <1>1, FS_EmptySet
  <2>2. f = [t \in Small(0) |-> next(f, t)]
    BY <2>1
  <2>. QED
    BY <2>2
<1>4. ASSUME NEW n \in Nat, n \in P
      PROVE  n + 1 \in P
  <2>1. PICK g : g = [t \in Small(n) |-> next(g, t)]
    BY <1>4
  <2>. DEFINE f == [t \in Small(n + 1) |-> next(g, t)]
  <2>2. \A t \in Small(n) : t \in Small(n + 1) /\ f[t] = g[t]
    <3>1. \A t \in Small(n) : t \in Small(n + 1)
      BY <1>1
    <3>2. \A t \in Small(n) : g[t] = next(g, t)
      BY <2>1
    <3>. HIDE DEF Small, next
    <3>. QED
      BY <3>1, <3>2
  <2>3. ASSUME NEW t \in Small(n + 1)
        PROVE  next(g, t) = next(f, t)
    <3>1. CASE t = {}
      BY <3>1
    <3>2. CASE t # {}
      <4>. DEFINE x == CHOOSE x \in t : TRUE
      <4>1. t \ {x} \in Small(n)
        BY <1>1, <1>2, <3>2
      <4>2. f[t \ {x}] = g[t \ {x}]
        BY <2>2, <4>1
      <4>. HIDE DEF f
      <4>. QED
        BY <3>2, <4>2
    <3>. QED
      BY <3>1, <3>2
  <2>4. f = [t \in Small(n + 1) |-> next(f, t)]
    <3>. HIDE DEF next
    <3>. QED
      BY <2>3
  <2>5. \E h : h = [t \in Small(n + 1) |-> next(h, t)]
    <3>. HIDE DEF f, next, Small
    <3>. QED
      BY <2>4
  <2>. HIDE DEF next, Small
  <2>. QED
    BY <2>5
<1>5. Nat \subseteq P
  <2>. HIDE DEF P
  <2>. QED
    BY <1>3, <1>4, Induction
<1>6. Cardinality(S) \in Nat /\ Small(Cardinality(S)) = SUBSET S
  BY <1>1, FS_CardinalityType
<1>7. PICK f : f = [t \in Small(Cardinality(S)) |-> next(f, t)]
  BY <1>5, <1>6
<1>8. f = [t \in SUBSET S |-> next(f, t)]
  <2>. HIDE DEF next, Small
  <2>. QED
    BY <1>6, <1>7
<1>. QED
  BY <1>8 DEF Goes

\* A set of n + 1 members without one of them has n.
LEMMA OneLess ==
    ASSUME NEW S, IsFiniteSet(S), NEW t \in SUBSET S, NEW n \in Nat,
           Cardinality(t) = n + 1, NEW x \in t
    PROVE  t \ {x} \in SUBSET S /\ Cardinality(t \ {x}) = n
<1>1. IsFiniteSet(t)
  BY FS_Subset
<1>2. Cardinality(t \ {x}) = Cardinality(t) - 1
  BY <1>1, FS_RemoveElement
<1>. QED
  BY <1>2

\* And what it comes to is what its steps come to.
LEMMA SubsetsComeTo ==
    ASSUME NEW S, IsFiniteSet(S), NEW V, NEW base \in V, NEW step \in [S \X V -> V]
    PROVE  \E f \in [SUBSET S -> V] : Goes(f, S, base, step)
<1>1. PICK f : Goes(f, S, base, step)
  BY SubsetsAreGoneThrough
<1>2. /\ f[{}] = base
      /\ \A t \in SUBSET S : t # {} => LET x == CHOOSE x \in t : TRUE
                                      IN  x \in t /\ f[t] = step[<<x, f[t \ {x}]>>]
  BY <1>1 DEF Goes
<1>. DEFINE P == {n \in Nat : \A t \in SUBSET S : Cardinality(t) = n => f[t] \in V}
<1>3. \A t \in SUBSET S : IsFiniteSet(t) /\ Cardinality(t) \in Nat
  BY FS_Subset, FS_CardinalityType
<1>4. 0 \in P
  BY <1>2, <1>3, FS_EmptySet
<1>5. ASSUME NEW n \in Nat, n \in P
      PROVE  n + 1 \in P
  <2>1. ASSUME NEW t \in SUBSET S, Cardinality(t) = n + 1
        PROVE  f[t] \in V
    <3>1. t # {}
      BY <2>1, FS_EmptySet
    <3>2. PICK x \in t : f[t] = step[<<x, f[t \ {x}]>>]
      BY <1>2, <3>1
    <3>3. t \ {x} \in SUBSET S /\ Cardinality(t \ {x}) = n
      BY <2>1, OneLess
    <3>4. f[t \ {x}] \in V
      BY <1>5, <3>3
    <3>. QED
      BY <3>2, <3>4
  <2>. QED
    BY <2>1
<1>6. Nat \subseteq P
  <2>. HIDE DEF P
  <2>. QED
    BY <1>4, <1>5, Induction
<1>7. \A t \in SUBSET S : f[t] \in V
  BY <1>3, <1>6
<1>8. f \in [SUBSET S -> V]
  BY <1>1, <1>7 DEF Goes
<1>. QED
  BY <1>1, <1>8

\* A sum of numbers of at most b is at most b times as many.
LEMMA SumIsBounded ==
    ASSUME NEW S, IsFiniteSet(S), NEW b \in Nat, NEW w \in [S -> 0..b]
    PROVE  SumFunction(w) \in 0..(b * Cardinality(S))
<1>. DEFINE step == [p \in S \X Nat |-> w[p[1]] + p[2]]
            Sums(f) == f = [t \in SUBSET S |-> IF t = {} THEN 0
                                               ELSE LET x == CHOOSE x \in t : TRUE IN w[x] + f[t \ {x}]]
            sum == CHOOSE f : Sums(f)
<1>1. \E f : Sums(f)
  <2>1. step \in [S \X Nat -> Nat]
    OBVIOUS
  <2>2. PICK f \in [SUBSET S -> Nat] : Goes(f, S, 0, step)
    <3>. HIDE DEF step
    <3>. QED
      BY <2>1, SubsetsComeTo
  <2>3. ASSUME NEW t \in SUBSET S, t # {}
        PROVE  LET x == CHOOSE x \in t : TRUE IN step[<<x, f[t \ {x}]>>] = w[x] + f[t \ {x}]
    <3>. DEFINE y == CHOOSE x \in t : TRUE
    <3>1. y \in t
      BY <2>3
    <3>2. step[<<y, f[t \ {y}]>>] = w[y] + f[t \ {y}]
      <4>. HIDE DEF y
      <4>1. <<y, f[t \ {y}]>> \in S \X Nat
        BY <3>1
      <4>. QED
        BY <4>1
    <3>. HIDE DEF step
    <3>. QED
      BY <3>2
  <2>. HIDE DEF step
  <2>4. Sums(f)
    BY <2>2, <2>3 DEF Goes
  <2>. QED
    BY <2>4
<1>2. Sums(sum)
  <2>. HIDE DEF Sums
  <2>. QED
    BY <1>1
<1>3. SumFunction(w) = sum[S]
  BY DEF SumFunction, SumFunctionOnSet, FoldFunctionOnSet, MapThenFoldSet
<1>4. /\ sum[{}] = 0
      /\ \A t \in SUBSET S : t # {} => \E x \in t : sum[t] = w[x] + sum[t \ {x}]
  <2>. HIDE DEF sum
  <2>. QED
    BY <1>2
<1>. HIDE DEF sum
<1>. DEFINE P == {n \in Nat : \A t \in SUBSET S : Cardinality(t) = n => sum[t] \in 0..(b * n)}
<1>5. \A t \in SUBSET S : IsFiniteSet(t) /\ Cardinality(t) \in Nat
  BY FS_Subset, FS_CardinalityType
<1>6. 0 \in P
  <2>1. \A t \in SUBSET S : Cardinality(t) = 0 => t = {}
    BY <1>5, FS_EmptySet
  <2>2. 0 \in 0..(b * 0)
    OBVIOUS
  <2>. QED
    BY <1>4, <2>1, <2>2
<1>7. ASSUME NEW n \in Nat, n \in P
      PROVE  n + 1 \in P
  <2>1. ASSUME NEW t \in SUBSET S, Cardinality(t) = n + 1
        PROVE  sum[t] \in 0..(b * (n + 1))
    <3>1. t # {}
      BY <2>1, FS_EmptySet
    <3>2. PICK x \in t : sum[t] = w[x] + sum[t \ {x}]
      BY <1>4, <3>1
    <3>3. t \ {x} \in SUBSET S /\ Cardinality(t \ {x}) = n
      BY <2>1, OneLess
    <3>4. sum[t \ {x}] \in 0..(b * n)
      BY <1>7, <3>3
    <3>5. w[x] \in 0..b /\ b * (n + 1) = b * n + b /\ b * n \in Nat
      OBVIOUS
    <3>. QED
      BY <3>2, <3>4, <3>5
  <2>. QED
    BY <2>1
<1>8. Nat \subseteq P
  <2>. HIDE DEF P
  <2>. QED
    BY <1>6, <1>7, Induction
<1>9. sum[S] \in 0..(b * Cardinality(S))
  BY <1>5, <1>8
<1>. QED
  BY <1>3, <1>9

\* A product of numbers that are not zero is not zero.
LEMMA ProductIsPositive ==
    ASSUME NEW S, IsFiniteSet(S), NEW w \in [S -> Nat \ {0}]
    PROVE  FoldFunction(LAMBDA a, b : a * b, 1, w) \in Nat \ {0}
<1>. DEFINE V == Nat \ {0}
            step == [p \in S \X V |-> w[p[1]] * p[2]]
            Multiplies(f) == f = [t \in SUBSET S |-> IF t = {} THEN 1
                                   ELSE LET x == CHOOSE x \in t : TRUE IN w[x] * f[t \ {x}]]
            product == CHOOSE f : Multiplies(f)
<1>1. 1 \in V /\ w \in [S -> V] /\ \A m, n \in V : m * n \in V
  OBVIOUS
<1>. HIDE DEF V
<1>2. \E f : Multiplies(f)
  <2>1. step \in [S \X V -> V]
    BY <1>1
  <2>2. PICK f \in [SUBSET S -> V] : Goes(f, S, 1, step)
    <3>. HIDE DEF step
    <3>. QED
      BY <1>1, <2>1, SubsetsComeTo
  <2>3. ASSUME NEW t \in SUBSET S, t # {}
        PROVE  LET x == CHOOSE x \in t : TRUE IN step[<<x, f[t \ {x}]>>] = w[x] * f[t \ {x}]
    <3>. DEFINE y == CHOOSE x \in t : TRUE
    <3>1. y \in t
      BY <2>3
    <3>2. step[<<y, f[t \ {y}]>>] = w[y] * f[t \ {y}]
      <4>. HIDE DEF y
      <4>1. <<y, f[t \ {y}]>> \in S \X V
        BY <3>1
      <4>. QED
        BY <4>1
    <3>. HIDE DEF step
    <3>. QED
      BY <3>2
  <2>. HIDE DEF step
  <2>4. Multiplies(f)
    BY <2>2, <2>3 DEF Goes
  <2>. QED
    BY <2>4
<1>3. Multiplies(product)
  <2>. HIDE DEF Multiplies
  <2>. QED
    BY <1>2
<1>4. FoldFunction(LAMBDA a, b : a * b, 1, w) = product[S]
  BY DEF FoldFunction, FoldFunctionOnSet, MapThenFoldSet
<1>5. /\ product[{}] = 1
      /\ \A t \in SUBSET S : t # {} => \E x \in t : product[t] = w[x] * product[t \ {x}]
  <2>. HIDE DEF product
  <2>. QED
    BY <1>3
<1>. HIDE DEF product
<1>. DEFINE P == {n \in Nat : \A t \in SUBSET S : Cardinality(t) = n => product[t] \in V}
<1>6. \A t \in SUBSET S : IsFiniteSet(t) /\ Cardinality(t) \in Nat
  BY FS_Subset, FS_CardinalityType
<1>7. 0 \in P
  BY <1>1, <1>5, <1>6, FS_EmptySet
<1>8. ASSUME NEW n \in Nat, n \in P
      PROVE  n + 1 \in P
  <2>1. ASSUME NEW t \in SUBSET S, Cardinality(t) = n + 1
        PROVE  product[t] \in V
    <3>1. t # {}
      BY <2>1, FS_EmptySet
    <3>2. PICK x \in t : product[t] = w[x] * product[t \ {x}]
      BY <1>5, <3>1
    <3>3. t \ {x} \in SUBSET S /\ Cardinality(t \ {x}) = n
      BY <2>1, OneLess
    <3>4. product[t \ {x}] \in V /\ w[x] \in V
      BY <1>1, <1>8, <3>3
    <3>. QED
      BY <1>1, <3>2, <3>4
  <2>. QED
    BY <2>1
<1>9. Nat \subseteq P
  <2>. HIDE DEF P
  <2>. QED
    BY <1>7, <1>8, Induction
<1>10. product[S] \in V
  BY <1>6, <1>9
<1>. QED
  BY <1>4, <1>10 DEF V

-----------------------------------------------------------------------------
(* Sums of lists *)

\* The sum of a list adds up from its first number to its last.
LEMMA SumSteps ==
    ASSUME NEW s \in Seq(Int)
    PROVE  \E f \in [0..Len(s) -> Int] :
              /\ f[0] = 0
              /\ \A k \in 1..Len(s) : f[k] = f[k - 1] + s[k]
              /\ Sum(s) = f[Len(s)]
<1>. DEFINE n == Len(s)
            next(f, k) == IF k = 0 THEN 0 ELSE f[k - 1] + s[k]
            Adds(f) == f = [k \in 0..n |-> next(f, k)]
            upTo == CHOOSE f : Adds(f)
            step == [p \in Int \X (1..n) |-> p[1] + s[p[2]]]
            V == [k \in 0..n |-> Int]
<1>1. n \in Nat /\ \A k \in 1..n : s[k] \in Int
  OBVIOUS
<1>2. \A k \in 1..n : k \in 0..n /\ k - 1 \in 0..n /\ k # 0
  BY <1>1
<1>. HIDE DEF n
<1>3. \E f : Adds(f)
  <2>1. \A k \in 1..n : V[k - 1] = Int /\ V[k] = Int
    BY <1>2
  <2>2. \A k \in 1..n : \A v \in Int : step[<<v, k>>] = v + s[k]
    OBVIOUS
  <2>3. \A k \in 1..n : \A v \in V[k - 1] : step[<<v, k>>] \in V[k]
    <3>1. \A k \in 1..n : \A v \in Int : v + s[k] \in Int
      BY <1>1
    <3>. HIDE DEF V, step
    <3>. QED
      BY <2>1, <2>2, <3>1, ZenonT(60)
  <2>4. 0 \in V[0]
    BY <1>1
  <2>. HIDE DEF step
  <2>5. PICK f : Recurs(f, n, 0, step) /\ \A k \in 0..n : f[k] \in V[k]
    <3>. HIDE DEF V
    <3>. QED
      BY <1>1, <2>3, <2>4, RecursionWithin
  <2>6. \A k \in 0..n : k # 0 => step[<<f[k - 1], k>>] = f[k - 1] + s[k]
    <3>1. \A k \in 0..n : k # 0 => k \in 1..n /\ k - 1 \in 0..n
      BY <1>1
    <3>2. \A k \in 0..n : f[k] \in Int
      BY <2>5
    <3>. QED
      BY <2>2, <3>1, <3>2
  <2>7. Adds(f)
    BY <2>5, <2>6 DEF Recurs
  <2>. QED
    BY <2>7
<1>4. Adds(upTo)
  <2>. HIDE DEF Adds
  <2>. QED
    BY <1>3
<1>5. Sum(s) = upTo[n]
  BY DEF Sum, n
<1>6. upTo[0] = 0 /\ \A k \in 1..n : upTo[k] = upTo[k - 1] + s[k]
  <2>. HIDE DEF upTo
  <2>1. \A k \in 0..n : upTo[k] = next(upTo, k)
    <3>. HIDE DEF next
    <3>. QED
      BY <1>4
  <2>2. 0 \in 0..n
    BY <1>1
  <2>. QED
    BY <1>2, <2>1, <2>2
<1>7. upTo \in [0..n -> Int]
  <2>. HIDE DEF upTo
  <2>1. \A k \in 1..n : upTo[k - 1] \in V[k - 1] => upTo[k] \in V[k]
    <3>1. \A k \in 1..n : V[k - 1] = Int /\ V[k] = Int
      BY <1>2
    <3>. HIDE DEF V
    <3>. QED
      BY <1>1, <1>6, <3>1
  <2>2. upTo[0] \in V[0]
    BY <1>1, <1>6
  <2>3. \A k \in 0..n : upTo[k] \in V[k]
    <3>. HIDE DEF V
    <3>. QED
      BY <1>1, <2>1, <2>2, RecursionStays
  <2>4. \A k \in 0..n : upTo[k] \in Int
    BY <2>3
  <2>5. upTo = [k \in 0..n |-> next(upTo, k)]
    BY <1>4
  <2>. HIDE DEF next
  <2>. QED
    BY <2>4, <2>5
<1>. HIDE DEF upTo
<1>. QED
  BY <1>5, <1>6, <1>7 DEF n

LEMMA SumOfNone == Sum(<<>>) = 0
<1>1. <<>> \in Seq(Int) /\ Len(<<>>) = 0
  OBVIOUS
<1>. QED
  BY <1>1, SumSteps

LEMMA SumIsNumber ==
    ASSUME NEW s \in Seq(Int)
    PROVE  Sum(s) \in Int
<1>1. Len(s) \in 0..Len(s)
  OBVIOUS
<1>. QED
  BY <1>1, SumSteps

LEMMA SumOfOne ==
    ASSUME NEW x \in Int
    PROVE  Sum(<<x>>) = x
<1>. DEFINE s == <<x>>
<1>1. s \in Seq(Int) /\ Len(s) = 1 /\ s[1] = x
  OBVIOUS
<1>. HIDE DEF s
<1>2. PICK f \in [0..Len(s) -> Int] :
         f[0] = 0 /\ (\A k \in 1..Len(s) : f[k] = f[k - 1] + s[k]) /\ Sum(s) = f[Len(s)]
  BY <1>1, SumSteps
<1>3. Sum(s) = x
  BY <1>1, <1>2
<1>. QED
  BY <1>3 DEF s

\* What lists joined add up to.
LEMMA SumOfJoined ==
    ASSUME NEW a \in Seq(Int), NEW b \in Seq(Int)
    PROVE  Sum(a \o b) = Sum(a) + Sum(b)
<1>. DEFINE ab == a \o b
            m == Len(a)
            n == Len(b)
<1>1. /\ ab \in Seq(Int) /\ Len(ab) = m + n /\ m \in Nat /\ n \in Nat
      /\ \A k \in 1..m : ab[k] = a[k]
      /\ \A k \in 1..n : ab[m + k] = b[k]
  OBVIOUS
<1>2. PICK f \in [0..m -> Int] :
         f[0] = 0 /\ (\A k \in 1..m : f[k] = f[k - 1] + a[k]) /\ Sum(a) = f[m]
  BY SumSteps
<1>3. PICK g \in [0..n -> Int] :
         g[0] = 0 /\ (\A k \in 1..n : g[k] = g[k - 1] + b[k]) /\ Sum(b) = g[n]
  BY SumSteps
<1>4. PICK h \in [0..(m + n) -> Int] :
         h[0] = 0 /\ (\A k \in 1..(m + n) : h[k] = h[k - 1] + ab[k]) /\ Sum(ab) = h[m + n]
  <2>. HIDE DEF ab
  <2>. QED
    BY <1>1, SumSteps
<1>. HIDE DEF ab, m, n
<1>5. \A k \in 0..m : h[k] \in {f[k]}
  <2>. DEFINE V == [k \in 0..m |-> {f[k]}]
  <2>1. \A k \in 1..m : h[k - 1] = f[k - 1] => h[k] = f[k]
    <3>1. \A k \in 1..m : k \in 1..(m + n)
      BY <1>1
    <3>. QED
      BY <1>1, <1>2, <1>4, <3>1
  <2>2. \A k \in 1..m : k \in 0..m /\ k - 1 \in 0..m
    BY <1>1
  <2>3. \A k \in 1..m : h[k - 1] \in V[k - 1] => h[k] \in V[k]
    BY <2>1, <2>2
  <2>4. h[0] \in V[0]
    BY <1>1, <1>2, <1>4
  <2>. HIDE DEF V
  <2>5. \A k \in 0..m : h[k] \in V[k]
    BY <1>1, <2>3, <2>4, RecursionStays
  <2>. QED
    BY <2>5 DEF V
<1>6. \A k \in 0..n : h[m + k] \in {f[m] + g[k]}
  <2>. DEFINE V == [k \in 0..n |-> {f[m] + g[k]}]
              l == [k \in 0..n |-> h[m + k]]
  <2>1. \A k \in 1..n : h[m + (k - 1)] = f[m] + g[k - 1] => h[m + k] = f[m] + g[k]
    <3>1. \A k \in 1..n : m + k \in 1..(m + n) /\ (m + k) - 1 = m + (k - 1) /\ k - 1 \in 0..n /\ k \in 0..n
      BY <1>1
    <3>2. f[m] \in Int /\ \A k \in 0..n : g[k] \in Int
      BY <1>1, <1>2, <1>3
    <3>3. \A k \in 1..n : b[k] \in Int
      BY DEF n
    <3>4. \A k \in 1..n : h[m + k] = h[m + (k - 1)] + b[k] /\ g[k] = g[k - 1] + b[k]
      BY <1>1, <1>3, <1>4, <3>1
    <3>5. ASSUME NEW k \in 1..n, h[m + (k - 1)] = f[m] + g[k - 1]
          PROVE  h[m + k] = f[m] + g[k]
      <4>1. f[m] \in Int /\ g[k - 1] \in Int /\ b[k] \in Int
        BY <3>1, <3>2, <3>3
      <4>2. h[m + k] = (f[m] + g[k - 1]) + b[k] /\ g[k] = g[k - 1] + b[k]
        BY <3>4, <3>5
      <4>. HIDE DEF l, V
      <4>. QED
        BY <4>1, <4>2
    <3>. QED
      BY <3>5
  <2>2. \A k \in 1..n : k \in 0..n /\ k - 1 \in 0..n
    BY <1>1
  <2>3. \A k \in 1..n : l[k - 1] \in V[k - 1] => l[k] \in V[k]
    BY <2>1, <2>2
  <2>4. l[0] \in V[0]
    <3>1. h[m + 0] = f[m] + g[0]
      BY <1>1, <1>2, <1>3, <1>5
    <3>2. 0 \in 0..n
      BY <1>1
    <3>. QED
      BY <3>1, <3>2
  <2>5. \A k \in 0..n : l[k] \in V[k]
    <3>. HIDE DEF V, l
    <3>. QED
      BY <1>1, <2>3, <2>4, RecursionStays
  <2>. QED
    BY <2>5
<1>7. n \in 0..n
  BY <1>1
<1>. QED
  BY <1>2, <1>3, <1>4, <1>6, <1>7 DEF ab

LEMMA SumOfMore ==
    ASSUME NEW s \in Seq(Int), NEW x \in Int
    PROVE  Sum(Append(s, x)) = Sum(s) + x
<1>1. Append(s, x) = s \o <<x>> /\ <<x>> \in Seq(Int)
  OBVIOUS
<1>. QED
  BY <1>1, SumOfJoined, SumOfOne

\* A sum of numbers that are not negative is not, and grows with the list.
LEMMA SumsGrow ==
    ASSUME NEW s \in Seq(Nat)
    PROVE  Sum(s) \in Nat
<1>1. s \in Seq(Int)
  OBVIOUS
<1>. DEFINE n == Len(s)
            V == [k \in 0..n |-> Nat]
<1>2. PICK f \in [0..n -> Int] :
         f[0] = 0 /\ (\A k \in 1..n : f[k] = f[k - 1] + s[k]) /\ Sum(s) = f[n]
  BY <1>1, SumSteps
<1>3. n \in Nat /\ \A k \in 1..n : s[k] \in Nat
  OBVIOUS
<1>. HIDE DEF n
<1>4. \A k \in 1..n : k \in 0..n /\ k - 1 \in 0..n
  BY <1>3
<1>5. \A k \in 1..n : f[k - 1] \in V[k - 1] => f[k] \in V[k]
  <2>1. \A k \in 1..n : V[k - 1] = Nat /\ V[k] = Nat
    BY <1>4
  <2>. HIDE DEF V
  <2>2. \A k \in 1..n : f[k] = f[k - 1] + s[k] /\ s[k] \in Nat
    BY <1>2, <1>3
  <2>3. \A x, y \in Nat : x + y \in Nat
    OBVIOUS
  <2>. QED
    BY <2>1, <2>2, <2>3
<1>6. f[0] \in V[0] /\ n \in 0..n
  BY <1>2, <1>3
<1>7. \A k \in 0..n : f[k] \in V[k]
  <2>. HIDE DEF V
  <2>. QED
    BY <1>3, <1>5, <1>6, RecursionStays
<1>. QED
  BY <1>2, <1>6, <1>7


-----------------------------------------------------------------------------
(* Lists put one after another *)

\* The lists are joined from the first to the last.
LEMMA FlattenSteps ==
    ASSUME NEW T, NEW seqs \in Seq(Seq(T))
    PROVE  \E f : /\ \A k \in 0..Len(seqs) : f[k] \in Seq(T)
                  /\ f[0] = <<>>
                  /\ \A k \in 1..Len(seqs) : f[k] = f[k - 1] \o seqs[k]
                  /\ FlattenSeq(seqs) = f[Len(seqs)]
<1>. DEFINE n == Len(seqs)
            S == Seq(T)
            V == [k \in 0..n |-> S]
            step == [p \in S \X (1..n) |-> p[1] \o seqs[p[2]]]
            next(f, k) == IF k = 1 THEN seqs[k] ELSE f[k - 1] \o seqs[k]
            Flattens(f) == f = [k \in 1..n |-> next(f, k)]
            flatten == CHOOSE f : Flattens(f)
<1>1. n \in Nat /\ \A k \in 1..n : seqs[k] \in S
  OBVIOUS
<1>2. <<>> \in S /\ \A a, b \in S : a \o b \in S
  OBVIOUS
<1>3. \A a \in S : <<>> \o a = a
  OBVIOUS
<1>4. n = 0 => seqs = <<>>
  OBVIOUS
<1>. HIDE DEF n, S
<1>5. \A k \in 1..n : k \in 0..n /\ k - 1 \in 0..n /\ k # 0
  BY <1>1
<1>6. \A k \in 0..n : V[k] = S
  OBVIOUS
<1>7. \A k \in 1..n : \A v \in S : step[<<v, k>>] = v \o seqs[k]
  OBVIOUS
<1>. HIDE DEF V, step
<1>8. PICK f : Recurs(f, n, <<>>, step) /\ \A k \in 0..n : f[k] \in V[k]
  <2>1. ASSUME NEW k \in 1..n, NEW v \in V[k - 1]
        PROVE  step[<<v, k>>] \in V[k]
    <3>1. V[k - 1] = S /\ V[k] = S
      BY <1>5, <1>6
    <3>2. v \o seqs[k] \in S
      BY <1>1, <1>2, <3>1
    <3>3. step[<<v, k>>] = v \o seqs[k]
      BY <1>7, <3>1, Zenon
    <3>4. step[<<v, k>>] \in S
      BY <3>2, <3>3
    <3>. QED
      BY <3>1, <3>4
  <2>2. <<>> \in V[0]
    BY <1>1, <1>2, <1>6
  <2>. QED
    BY <1>1, <2>1, <2>2, RecursionWithin
<1>9. \A k \in 0..n : f[k] \in S
  BY <1>6, <1>8
<1>10. f[0] = <<>> /\ \A k \in 1..n : f[k] = f[k - 1] \o seqs[k]
  <2>1. 0 \in 0..n
    BY <1>1
  <2>. QED
    BY <1>5, <1>7, <1>8, <1>9, <2>1 DEF Recurs
<1>11. Flattens([k \in 1..n |-> f[k]])
  <2>. DEFINE g == [k \in 1..n |-> f[k]]
  <2>1. ASSUME NEW k \in 1..n
        PROVE  f[k] = next(g, k)
    <3>1. CASE k = 1
      <4>1. f[1] = f[1 - 1] \o seqs[1]
        BY <1>10, <3>1, Zenon
      <4>2. f[1] = <<>> \o seqs[1]
        <5>1. 1 - 1 = 0
          OBVIOUS
        <5>. QED
          BY <1>10, <4>1, <5>1, Zenon
      <4>3. <<>> \o seqs[1] = seqs[1]
        BY <1>1, <1>3, <3>1
      <4>. HIDE DEF g
      <4>. QED
        BY <3>1, <4>2, <4>3
    <3>2. CASE k # 1
      <4>1. k - 1 \in 1..n
        BY <1>1, <3>2
      <4>. QED
        BY <1>10, <3>2, <4>1
    <3>. QED
      BY <3>1, <3>2
  <2>2. g = [k \in 1..n |-> next(g, k)]
    <3>. HIDE DEF next
    <3>. QED
      BY <2>1
  <2>. QED
    BY <2>2
<1>12. Flattens(flatten)
  <2>. HIDE DEF Flattens
  <2>. QED
    BY <1>11
<1>13. \A k \in 1..n : flatten[k] = next(flatten, k)
  <2>. HIDE DEF flatten, next
  <2>. QED
    BY <1>12
<1>14. n = 0 => FlattenSeq(seqs) = <<>>
  BY <1>4 DEF FlattenSeq, n
<1>15. n # 0 => FlattenSeq(seqs) = flatten[n]
  BY DEF FlattenSeq, n
<1>. HIDE DEF flatten
<1>16. \A k \in 0..n : k # 0 => flatten[k] = f[k]
  <2>. DEFINE E == {k \in Nat : k \in 1..n => flatten[k] = f[k]}
  <2>1. 0 \in E
    OBVIOUS
  <2>2. ASSUME NEW k \in Nat, k \in E
        PROVE  k + 1 \in E
    <3>1. SUFFICES ASSUME k + 1 \in 1..n
                   PROVE  flatten[k + 1] = f[k + 1]
      OBVIOUS
    <3>. HIDE DEF next
    <3>2. (k + 1) - 1 = k /\ (k + 1 = 1 \/ k \in 1..n)
      BY <1>1, <3>1
    <3>. DEFINE h == [i \in 1..n |-> f[i]]
    <3>3. f[k + 1] = next(h, k + 1)
      <4>1. h[k + 1] = next(h, k + 1)
        <5>. HIDE DEF h
        <5>. QED
          BY <1>11, <3>1 DEF h
      <4>. QED
        BY <3>1, <4>1
    <3>4. next(h, k + 1) = next(flatten, k + 1)
      <4>1. k + 1 # 1 => h[k] = flatten[k]
        BY <2>2, <3>2
      <4>. HIDE DEF h
      <4>. QED
        BY <3>2, <4>1 DEF next
    <3>. QED
      BY <1>13, <3>1, <3>3, <3>4
  <2>3. Nat \subseteq E
    <3>. HIDE DEF E
    <3>. QED
      BY <2>1, <2>2, Induction
  <2>. QED
    BY <1>1, <2>3
<1>17. FlattenSeq(seqs) = f[n]
  <2>1. n \in 0..n
    BY <1>1
  <2>. QED
    BY <1>10, <1>14, <1>15, <1>16, <2>1
<1>. QED
  BY <1>9, <1>10, <1>17 DEF n, S

\* One list more comes after the others.
LEMMA FlattenOfMore ==
    ASSUME NEW T, NEW seqs \in Seq(Seq(T)), NEW s \in Seq(T)
    PROVE  FlattenSeq(Append(seqs, s)) = FlattenSeq(seqs) \o s
<1>. DEFINE n == Len(seqs)
            more == Append(seqs, s)
<1>1. /\ more \in Seq(Seq(T)) /\ Len(more) = n + 1 /\ n \in Nat
      /\ more[n + 1] = s /\ \A k \in 1..n : more[k] = seqs[k]
  OBVIOUS
<1>2. PICK f : /\ \A k \in 0..n : f[k] \in Seq(T)
               /\ f[0] = <<>>
               /\ \A k \in 1..n : f[k] = f[k - 1] \o seqs[k]
               /\ FlattenSeq(seqs) = f[n]
  BY FlattenSteps
<1>. HIDE DEF n, more
<1>3. PICK g : /\ \A k \in 0..Len(more) : g[k] \in Seq(T)
               /\ g[0] = <<>>
               /\ \A k \in 1..Len(more) : g[k] = g[k - 1] \o more[k]
               /\ FlattenSeq(more) = g[Len(more)]
  BY <1>1, FlattenSteps
<1>. DEFINE V == [k \in 0..n |-> {f[k]}]
<1>4. \A k \in 0..n : V[k] = {f[k]}
  OBVIOUS
<1>. HIDE DEF V
<1>5. \A k \in 1..n : g[k - 1] \in V[k - 1] => g[k] \in V[k]
  <2>1. SUFFICES ASSUME NEW k \in 1..n, g[k - 1] \in V[k - 1]
                 PROVE  g[k] \in V[k]
    OBVIOUS
  <2>2. k \in 1..Len(more) /\ k \in 0..n /\ k - 1 \in 0..n
    BY <1>1
  <2>3. g[k - 1] = f[k - 1] /\ more[k] = seqs[k]
    BY <1>1, <1>4, <2>1, <2>2
  <2>4. g[k] = g[k - 1] \o more[k] /\ f[k] = f[k - 1] \o seqs[k]
    BY <1>2, <1>3, <2>2
  <2>5. g[k] = f[k]
    BY <2>3, <2>4
  <2>. QED
    BY <1>4, <2>2, <2>5
<1>6. g[0] \in V[0]
  BY <1>1, <1>2, <1>3, <1>4, SMTT(60)
<1>7. \A k \in 0..n : g[k] \in V[k]
  BY <1>1, <1>5, <1>6, RecursionStays
<1>8. g[n] = f[n]
  BY <1>1, <1>4, <1>7
<1>9. n + 1 \in 1..(n + 1) /\ (n + 1) - 1 = n
  BY <1>1
<1>. QED
  BY <1>1, <1>2, <1>3, <1>8, <1>9 DEF more

LEMMA FlattenOfNone == FlattenSeq(<<>>) = <<>>
  BY DEF FlattenSeq

LEMMA FlattenOfOne ==
    ASSUME NEW T, NEW s \in Seq(T)
    PROVE  FlattenSeq(<<s>>) = s
<1>1. <<>> \in Seq(Seq(T)) /\ Append(<<>>, s) = <<s>> /\ <<>> \o s = s
  OBVIOUS
<1>2. FlattenSeq(Append(<<>>, s)) = FlattenSeq(<<>>) \o s
  <2>. HIDE <1>1
  <2>1. <<>> \in Seq(Seq(T))
    BY <1>1
  <2>. QED
    BY <2>1, FlattenOfMore
<1>. QED
  BY <1>1, <1>2, FlattenOfNone

\* What comes earlier in the joined lists comes from an earlier list, or from
\* an earlier place of the same.
LEMMA FlattenKeepsOrder ==
    ASSUME NEW T, NEW seqs \in Seq(Seq(T)), NEW a \in DOMAIN FlattenSeq(seqs), NEW b \in DOMAIN FlattenSeq(seqs), a < b
    PROVE  \E i, j \in DOMAIN seqs : \E x \in DOMAIN seqs[i], y \in DOMAIN seqs[j] :
              /\ FlattenSeq(seqs)[a] = seqs[i][x] /\ FlattenSeq(seqs)[b] = seqs[j][y]
              /\ i < j \/ (i = j /\ x < y)
<1>. DEFINE n == Len(seqs)
            S == Seq(T)
            From(l, c, k, i, x) == i \in 1..k /\ x \in DOMAIN seqs[i] /\ l[c] = seqs[i][x]
            Ordered(l, k) == \A c, d \in DOMAIN l : c < d =>
                               \E i, j, x, y : /\ From(l, c, k, i, x) /\ From(l, d, k, j, y)
                                               /\ i < j \/ (i = j /\ x < y)
            Whole(l, k) == \A c \in DOMAIN l : \E i, x : From(l, c, k, i, x)
            V == [k \in 0..n |-> {l \in S : Ordered(l, k) /\ Whole(l, k)}]
<1>1. n \in Nat /\ DOMAIN seqs = 1..n /\ \A k \in 1..n : seqs[k] \in S
  OBVIOUS
<1>2. PICK f : /\ \A k \in 0..n : f[k] \in S
               /\ f[0] = <<>>
               /\ \A k \in 1..n : f[k] = f[k - 1] \o seqs[k]
               /\ FlattenSeq(seqs) = f[n]
  BY FlattenSteps
<1>3. \A k \in 0..n : V[k] = {l \in S : Ordered(l, k) /\ Whole(l, k)}
  OBVIOUS
<1>. HIDE DEF n, V
<1>4. ASSUME NEW k \in 1..n, f[k - 1] \in V[k - 1]
      PROVE  f[k] \in V[k]
  <2>. DEFINE l == f[k - 1]
              s == seqs[k]
              ls == l \o s
              m == Len(l)
  <2>1. k \in 0..n /\ k - 1 \in 0..n /\ f[k] = ls
    <3>1. k \in 0..n /\ k - 1 \in 0..n
      BY <1>1
    <3>2. f[k] = ls
      BY <1>2
    <3>. QED
      BY <3>1, <3>2, Zenon
  <2>2. l \in S /\ Ordered(l, k - 1) /\ Whole(l, k - 1) /\ s \in S
    <3>. HIDE DEF Ordered, Whole
    <3>. QED
      BY <1>1, <1>3, <1>4, <2>1
  <2>. HIDE DEF l, s
  <2>3. /\ ls \in S /\ m \in Nat /\ DOMAIN l = 1..m
        /\ \A c \in DOMAIN ls : \/ c \in DOMAIN l /\ ls[c] = l[c] /\ c <= m
                                \/ c > m /\ c - m \in DOMAIN s /\ ls[c] = s[c - m]
    BY <2>2
  <2>. HIDE DEF ls
  <2>4. ASSUME NEW c \in DOMAIN l, NEW i, NEW x, From(l, c, k - 1, i, x), ls[c] = l[c]
        PROVE  From(ls, c, k, i, x) /\ i < k
    BY <2>4, <1>1
  <2>5. ASSUME NEW c \in DOMAIN ls, c > m, c - m \in DOMAIN s, ls[c] = s[c - m]
        PROVE  From(ls, c, k, k, c - m)
    BY <2>5, <1>1 DEF s
  <2>6. Whole(ls, k)
    <3>. HIDE DEF From
    <3>. QED
      BY <2>2, <2>3, <2>4, <2>5
  <2>7. Ordered(ls, k)
    <3>1. SUFFICES ASSUME NEW c \in DOMAIN ls, NEW d \in DOMAIN ls, c < d
                   PROVE  \E i, j, x, y : /\ From(ls, c, k, i, x) /\ From(ls, d, k, j, y)
                                          /\ i < j \/ (i = j /\ x < y)
      OBVIOUS
    <3>. HIDE DEF From
    <3>2. CASE c \in DOMAIN l /\ ls[c] = l[c] /\ d \in DOMAIN l /\ ls[d] = l[d]
      BY <2>2, <2>4, <3>1, <3>2
    <3>3. CASE c \in DOMAIN l /\ ls[c] = l[c] /\ d > m /\ d - m \in DOMAIN s /\ ls[d] = s[d - m]
      BY <2>2, <2>4, <2>5, <3>3
    <3>4. CASE /\ c > m /\ c - m \in DOMAIN s /\ ls[c] = s[c - m]
               /\ d > m /\ d - m \in DOMAIN s /\ ls[d] = s[d - m]
      <4>1. c - m < d - m
        BY <2>3, <3>1
      <4>. QED
        BY <2>5, <3>4, <4>1
    <3>5. ~(c > m /\ d <= m)
      BY <2>3, <3>1
    <3>. QED
      BY <2>3, <3>2, <3>3, <3>4, <3>5
  <2>. HIDE DEF Ordered, Whole
  <2>. QED
    BY <1>3, <2>1, <2>3, <2>6, <2>7
<1>5. f[0] \in V[0]
  <2>1. 0 \in 0..n
    BY <1>1
  <2>. QED
    BY <1>2, <1>3, <2>1
<1>6. \A k \in 0..n : f[k] \in V[k]
  BY <1>1, <1>4, <1>5, RecursionStays
<1>7. Ordered(FlattenSeq(seqs), n)
  <2>1. n \in 0..n
    BY <1>1
  <2>. HIDE DEF Ordered, Whole
  <2>. QED
    BY <1>2, <1>3, <1>6, <2>1
<1>. HIDE DEF S
<1>. QED
  BY <1>1, <1>7


\* What holds of some lists, and of any two of them put together, holds of all of
\* them put together.
LEMMA FlattenStays ==
    ASSUME NEW T, NEW C, C \subseteq Seq(T), <<>> \in C, \A a, b \in C : a \o b \in C, NEW seqs \in Seq(C)
    PROVE  FlattenSeq(seqs) \in C
<1>. DEFINE n == Len(seqs)
            V == [k \in 0..n |-> C]
<1>1. n \in Nat /\ \A k \in 1..n : seqs[k] \in C /\ k \in 0..n /\ k - 1 \in 0..n
  OBVIOUS
<1>2. seqs \in Seq(Seq(T))
  OBVIOUS
<1>3. PICK f : /\ f[0] = <<>> /\ \A k \in 1..n : f[k] = f[k - 1] \o seqs[k]
               /\ FlattenSeq(seqs) = f[n]
  BY <1>2, FlattenSteps
<1>. HIDE DEF n
<1>4. \A k \in 0..n : V[k] = C
  OBVIOUS
<1>. HIDE DEF V
<1>5. ASSUME NEW k \in 1..n, f[k - 1] \in V[k - 1]
      PROVE  f[k] \in V[k]
  <2>1. f[k - 1] \in C /\ f[k] = f[k - 1] \o seqs[k] /\ V[k] = C /\ seqs[k] \in C
    BY <1>1, <1>3, <1>4, <1>5
  <2>. QED
    BY <2>1
<1>6. f[0] \in V[0]
  BY <1>1, <1>3, <1>4
<1>7. \A k \in 0..n : f[k] \in V[k]
  BY <1>1, <1>5, <1>6, RecursionStays
<1>. QED
  BY <1>1, <1>3, <1>4, <1>7, SMTT(60)

\* They begin as the first of them that is not empty.
LEMMA FlattenBegins ==
    ASSUME NEW T, NEW seqs \in Seq(Seq(T)), FlattenSeq(seqs) # <<>>
    PROVE  \E i \in DOMAIN seqs : seqs[i] # <<>> /\ FlattenSeq(seqs)[1] = seqs[i][1]
<1>. DEFINE n == Len(seqs)
            Begins(s) == s = <<>> \/ \E i \in 1..n : seqs[i] # <<>> /\ s[1] = seqs[i][1]
            S == {s \in Seq(T) : Begins(s)}
            V == [k \in 0..n |-> S]
<1>1. n \in Nat /\ DOMAIN seqs = 1..n /\ \A k \in 1..n : seqs[k] \in Seq(T) /\ k \in 0..n /\ k - 1 \in 0..n
  OBVIOUS
<1>2. PICK f : /\ f[0] = <<>> /\ \A k \in 1..n : f[k] = f[k - 1] \o seqs[k]
               /\ FlattenSeq(seqs) = f[n]
  BY FlattenSteps
<1>. HIDE DEF n
<1>3. \A k \in 0..n : V[k] = S
  OBVIOUS
<1>. HIDE DEF V
<1>7. \A s : s \in S <=> s \in Seq(T) /\ Begins(s)
  OBVIOUS
<1>8. <<>> \in S
  <2>1. <<>> \in Seq(T) /\ Begins(<<>>)
    OBVIOUS
  <2>. QED
    BY <2>1, <1>7
<1>. HIDE DEF S
<1>4. ASSUME NEW k \in 1..n, f[k - 1] \in V[k - 1]
      PROVE  f[k] \in V[k]
  <2>. DEFINE a == f[k - 1]
              b == seqs[k]
  <2>0. f[k - 1] \in S /\ V[k] = S /\ f[k] = f[k - 1] \o seqs[k] /\ seqs[k] \in Seq(T)
    BY <1>1, <1>2, <1>3, <1>4
  <2>1. a \in Seq(T) /\ Begins(a) /\ f[k] = a \o b /\ V[k] = S /\ b \in Seq(T) /\ b = seqs[k]
    BY <2>0, <1>7
  <2>. HIDE DEF a, b
  <2>2. a \o b \in Seq(T)
    BY <2>1
  <2>3. CASE a # <<>>
    <3>1. (a \o b)[1] = a[1]
      BY <2>1, <2>3
    <3>2. PICK i \in 1..n : seqs[i] # <<>> /\ a[1] = seqs[i][1]
      BY <2>1, <2>3
    <3>3. Begins(a \o b)
      BY <3>1, <3>2
    <3>. QED
      BY <2>1, <2>2, <3>3, <1>7
  <2>4. CASE a = <<>>
    <3>1. a \o b = b
      BY <2>1, <2>4
    <3>2. Begins(b)
      BY <2>1
    <3>. QED
      BY <2>1, <3>1, <3>2, <1>7
  <2>. QED
    BY <2>3, <2>4
<1>5. f[0] \in V[0]
  BY <1>1, <1>2, <1>3, <1>8
<1>6. \A k \in 0..n : f[k] \in V[k]
  BY <1>1, <1>4, <1>5, RecursionStays
<1>9. f[n] \in S
  BY <1>1, <1>3, <1>6
<1>10. Begins(f[n])
  BY <1>7, <1>9
<1>. QED
  BY <1>1, <1>2, <1>10

-----------------------------------------------------------------------------
(* The least and the greatest of a set of numbers *)

LEMMA MinHolds ==
    ASSUME NEW T, T \subseteq Nat, T # {}
    PROVE  Min(T) \in T /\ \A m \in T : Min(T) <= m
<1>1. \E n \in T : \A m \in T : n <= m
  BY LeastMember
<1>. QED
  BY <1>1 DEF Min

\* What lies above x in S, by relation R.
Above(S, R, x) == {y \in S : <<x, y>> \in R}

\* A finite set has a member nothing in it lies above.
LEMMA MaximalExists ==
    ASSUME NEW S, IsFiniteSet(S), S # {}, NEW R,
           \A x \in S : <<x, x>> \notin R,
           \A x, y, z \in S : <<x, y>> \in R /\ <<y, z>> \in R => <<x, z>> \in R
    PROVE  \E x \in S : \A y \in S : <<x, y>> \notin R
<1>. DEFINE T == {Above(S, R, x) : x \in S}
<1>1. T # {} /\ T \subseteq SUBSET S
  <2>1. \A x \in S : Above(S, R, x) \subseteq S
    BY DEF Above
  <2>2. T \subseteq SUBSET S
    BY <2>1
  <2>3. PICK x \in S : TRUE
    OBVIOUS
  <2>4. Above(S, R, x) \in T
    OBVIOUS
  <2>. QED
    BY <2>2, <2>4
<1>2. FiniteSubsetsOf(S) = SUBSET S
  BY FS_FiniteSubsetsOfFinite
<1>3. IsWellFoundedOn(StrictSubsetOrdering(S), SUBSET S)
  BY <1>2, FS_StrictSubsetOrderingWellFounded, ZenonT(60)
<1>4. PICK m \in T : \A A \in T : <<A, m>> \notin StrictSubsetOrdering(S)
  <2>. HIDE DEF T
  <2>. QED
    BY <1>1, <1>3, WFMin
<1>5. PICK x \in S : m = Above(S, R, x)
  OBVIOUS
<1>6. ASSUME NEW y \in S, <<x, y>> \in R
      PROVE  FALSE
  <2>1. Above(S, R, y) \subseteq Above(S, R, x)
    BY <1>6 DEF Above
  <2>2. y \in Above(S, R, x) /\ y \notin Above(S, R, y)
    BY <1>6 DEF Above
  <2>3. Above(S, R, y) \in T
    OBVIOUS
  <2>4. <<Above(S, R, y), Above(S, R, x)>> \in StrictSubsetOrdering(S)
    BY <2>1, <2>2 DEF StrictSubsetOrdering, Above
  <2>. QED
    BY <1>4, <1>5, <2>3, <2>4
<1>. QED
  BY <1>6

LEMMA MaxOfNaturals ==
    ASSUME NEW S \in SUBSET Nat, IsFiniteSet(S), S # {}
    PROVE  Max(S) \in S /\ \A y \in S : Max(S) >= y
<1>. DEFINE R == {p \in S \X S : p[1] < p[2]}
<1>1. \A x \in S : <<x, x>> \notin R
  OBVIOUS
<1>2. \A x, y, z \in S : <<x, y>> \in R /\ <<y, z>> \in R => <<x, z>> \in R
  OBVIOUS
<1>3. PICK x \in S : \A y \in S : <<x, y>> \notin R
  <2>. HIDE DEF R
  <2>. QED
    BY <1>1, <1>2, MaximalExists
<1>4. ASSUME NEW y \in S
      PROVE  x >= y
  <2>1. <<x, y>> \in R <=> x < y
    OBVIOUS
  <2>2. ~(x < y)
    BY <1>3, <2>1
  <2>. QED
    BY <2>2
<1>. QED
  BY <1>4 DEF Max

LEMMA MaxHolds ==
    ASSUME NEW n \in Nat, NEW T, T \subseteq 0..n, T # {}
    PROVE  Max(T) \in T /\ \A m \in T : m <= Max(T)
<1>1. IsFiniteSet(0..n) /\ T \subseteq Nat
  BY FS_Interval
<1>2. IsFiniteSet(T)
  BY <1>1, FS_Subset
<1>3. \A m \in T : Max(T) \in Nat /\ Max(T) >= m => m <= Max(T)
  BY <1>1
<1>. QED
  BY <1>1, <1>2, <1>3, MaxOfNaturals

=============================================================================
