--------------------------- MODULE PipelineProofs ---------------------------
(* What parsing, chunking and the stages of the pipeline come to, for every  *)
(* document and every size of the chunks.                                    *)
EXTENDS Pipeline, ListProofs

-----------------------------------------------------------------------------
(* Sections: labels and levels *)

Label == (Form \union {"clause", ""}) \X Nat

BuiltSection ==
    [ at : Nat, number : Label, reads : Reads, level : Nat, parent : Nat, path : Seq(Label),
      first : Nat, last : Nat, start : Nat, ordinal : Nat, body : Seq(Line) ]

Open == [index : Nat, level : Nat]

\* The headings are places of lines, in the order of the text.
LEMMA HeadingsHold ==
    ASSUME NEW lines \in Seq(Line)
    PROVE  /\ FindHeadings(lines) \in Seq(DOMAIN lines)
           /\ \A i, j \in DOMAIN FindHeadings(lines) : i < j => FindHeadings(lines)[i] < FindHeadings(lines)[j]
<1>1. Len(lines) \in Nat /\ DOMAIN lines = 1..Len(lines)
  OBVIOUS
<1>. QED
  BY <1>1, AscendingHolds DEF FindHeadings

\* What a path shows of a line; only a clause is labelled as one.
LEMMA LabelHolds ==
    ASSUME NEW l \in Line
    PROVE  /\ NormaliseNumber(l) \in Label
           /\ NormaliseNumber(l)[1] = "clause" => MatchesNumbered(l) /\ l.form \in Clause
<1>1. l.form \in Form /\ l.number \in Nat /\ l.start \in Nat
  BY DEF Line
<1>2. (IF l.form \in Clause THEN "clause" ELSE l.form) \in Form \union {"clause", ""}
  BY <1>1
<1>5. l.form # "clause"
  BY <1>1 DEF Form
<1>3. CASE MatchesNumbered(l)
  <2>. DEFINE kind == IF l.form \in Clause THEN "clause" ELSE l.form
  <2>1. NormaliseNumber(l) = <<kind, l.number>>
    BY <1>3 DEF NormaliseNumber
  <2>2. /\ NormaliseNumber(l) \in Label
        /\ NormaliseNumber(l)[1] = kind
    <3>1. kind \in Form \union {"clause", ""}
      BY <1>2
    <3>. HIDE DEF kind
    <3>2. <<kind, l.number>> \in Label
      BY <1>1, <3>1, Zenon DEF Label
    <3>. QED
      BY <2>1, <3>2
  <2>. QED
    BY <1>3, <1>5, <2>2
<1>4. CASE ~MatchesNumbered(l)
  <2>. DEFINE none == ""
  <2>1. NormaliseNumber(l) = <<none, l.start>>
    BY <1>4, Zenon DEF NormaliseNumber
  <2>2. none # "clause"
    BY Zenon
  <2>3. \A k \in Nat : <<none, k>> \in Label
    BY Zenon DEF Label
  <2>. HIDE DEF none
  <2>. QED
    BY <1>1, <2>1, <2>2, <2>3
<1>. QED
  BY <1>3, <1>4

\* A clause is at least one level below the innermost open heading.
LEMMA LevelHolds ==
    ASSUME NEW l \in Line, NEW stack \in Seq(Open)
    PROVE  /\ EffectiveLevel(l, stack) \in Nat
           /\ MatchesNumbered(l) /\ l.form \in Clause /\ stack # <<>> =>
                 Last(stack).level < EffectiveLevel(l, stack)
<1>1. FixedLevel(l) \in Nat
  <2>1. l.dots \in Nat
    BY DEF Line
  <2>. QED
    BY <2>1 DEF FixedLevel
<1>2. stack # <<>> => Last(stack).level \in Nat
  <2>1. stack # <<>> => Last(stack) \in Open
    BY DEF Last
  <2>. QED
    BY <2>1 DEF Open
<1>. QED
  BY <1>1, <1>2 DEF EffectiveLevel

\* The open headings that are left, and that none is closed above the level of
\* the last.
LEMMA PoppedHolds ==
    ASSUME NEW stack \in Seq(Open), NEW level \in Nat
    PROVE  /\ Popped(stack, level) \in Seq(Open)
           /\ \A i \in DOMAIN Popped(stack, level) : i \in DOMAIN stack /\ Popped(stack, level)[i] = stack[i]
           /\ Popped(stack, level) # <<>> => Last(Popped(stack, level)).level < level
           /\ stack # <<>> /\ Last(stack).level < level => Popped(stack, level) = stack
           /\ \A i \in DOMAIN stack : stack[i].level < level => i \in DOMAIN Popped(stack, level)
<1>. DEFINE n == Len(stack)
            T == {0} \union {i \in DOMAIN stack : stack[i].level < level}
            m == Max(T)
            left == SubSeq(stack, 1, m)
<1>1. n \in Nat /\ DOMAIN stack = 1..n
  OBVIOUS
<1>2. m \in T /\ \A i \in T : i <= m
  <2>1. T \subseteq 0..n /\ T # {}
    BY <1>1
  <2>. HIDE DEF T, n
  <2>. QED
    BY <1>1, <2>1, MaxHolds
<1>3. m \in 0..n /\ (m # 0 => m \in DOMAIN stack /\ stack[m].level < level)
  BY <1>1, <1>2
<1>4. n \in T => m = n
  <2>. HIDE DEF m, T
  <2>. QED
    BY <1>1, <1>2, <1>3
<1>. HIDE DEF m
<1>5. left \in Seq(Open) /\ Len(left) = m /\ \A i \in 1..m : left[i] = stack[i] /\ i \in DOMAIN stack
  BY <1>1, <1>3
<1>6. n \in 1..n /\ stack[n].level < level => n \in T
  BY <1>1
<1>7. m = n => left = stack
  BY <1>1, <1>5
<1>8. left # <<>> => m # 0 /\ Last(left) = stack[m]
  BY <1>3, <1>5 DEF Last
<1>9. stack # <<>> => n \in 1..n /\ Last(stack) = stack[n]
  BY <1>1 DEF Last
<1>10. Popped(stack, level) = left
  BY DEF Popped, m
<1>11. DOMAIN left = 1..m
  BY <1>5
<1>12. \A i \in DOMAIN stack : stack[i].level < level => i \in 1..m
  BY <1>1, <1>2, <1>3
<1>. HIDE DEF left, n, T
<1>. QED
  BY <1>3, <1>4, <1>5, <1>6, <1>7, <1>8, <1>9, <1>10, <1>11, <1>12

-----------------------------------------------------------------------------
(* Sections: the tree *)

Siblings(list, parent) == {i \in DOMAIN list : list[i].parent = parent}

\* What a section takes from the line that heads it.
Heads(section, line, at) ==
    /\ section.at = at /\ section.number = NormaliseNumber(line) /\ section.reads = line.reads
    /\ section.start = line.start /\ section.first = line.page

\* Where section i stands among those before it.
Placed(list, i) ==
    /\ list[i].parent \in 0..(i - 1)
    /\ list[i].parent # 0 => /\ list[list[i].parent].level < list[i].level
                             /\ list[i].path = Append(list[list[i].parent].path, list[i].number)
    /\ \A k \in 1..(i - 1) : Within(list, k, i) => list[i].parent >= k
    /\ \A k \in 1..(i - 1) : list[k].parent = list[i].parent => list[k].ordinal < list[i].ordinal

\* An ordinal is lower than the number of siblings there are by now.
Counted(list, i) == list[i].ordinal < Cardinality(Siblings(list, list[i].parent))

\* What the first n headings come to: the last of them is open, with some of the
\* sections before it, those among them that the next clause would be within.
Built(built, lines, headings, n) ==
    /\ built \in [sections : Seq(BuiltSection), stack : Seq(Open)]
    /\ Len(built.sections) = n
    /\ \A i \in 1..n : /\ Heads(built.sections[i], lines[headings[i]], headings[i])
                       /\ Placed(built.sections, i) /\ Counted(built.sections, i)
    /\ n = 0 => built.stack = <<>>
    /\ n # 0 => built.stack # <<>> /\ Last(built.stack).index = n
    /\ \A i \in DOMAIN built.stack : /\ built.stack[i].index \in 1..n
                                     /\ built.sections[built.stack[i].index].level = built.stack[i].level
    /\ \A i, j \in DOMAIN built.stack : i < j => built.stack[i].index < built.stack[j].index
    /\ \A k \in 1..n : Within(built.sections, k, n) => \E i \in DOMAIN built.stack : built.stack[i].index = k

\* What a section is within depends on labels and levels only.
LEMMA WithinStays ==
    ASSUME NEW n \in Nat, NEW list, NEW more,
           \A i \in 1..n : more[i].number = list[i].number /\ more[i].level = list[i].level,
           NEW i \in 1..n, NEW k \in 1..n
    PROVE  Within(more, k, i) <=> Within(list, k, i)
<1>1. \A j \in (k + 1)..i : j \in 1..n
  OBVIOUS
<1>2. \A j \in 1..n : Fixed(more[j]) <=> Fixed(list[j])
  BY DEF Fixed
<1>. QED
  BY <1>1, <1>2 DEF Within

\* One section more is counted among its siblings.
LEMMA SiblingsGrow ==
    ASSUME NEW list \in Seq(BuiltSection), NEW s \in BuiltSection, NEW parent
    PROVE  LET more == Append(list, s)
           IN  /\ Cardinality(Siblings(list, parent)) \in Nat
               /\ Cardinality(Siblings(list, parent)) <= Cardinality(Siblings(more, parent))
               /\ s.parent = parent => Cardinality(Siblings(list, parent)) < Cardinality(Siblings(more, parent))
<1>. DEFINE more == Append(list, s)
            n == Len(list)
            A == Siblings(list, parent)
            B == Siblings(more, parent)
<1>1. n \in Nat /\ DOMAIN list = 1..n /\ more \in Seq(BuiltSection) /\ DOMAIN more = 1..(n + 1)
      /\ (\A i \in 1..n : more[i] = list[i]) /\ more[n + 1] = s
  OBVIOUS
<1>2. IsFiniteSet(DOMAIN more)
  BY <1>1, MembersAreFinite
<1>. HIDE DEF more, n
<1>3. A \subseteq B /\ B \subseteq DOMAIN more
  BY <1>1 DEF Siblings
<1>4. s.parent = parent => n + 1 \in B /\ n + 1 \notin A
  BY <1>1 DEF Siblings
<1>. HIDE DEF A, B
<1>5. IsFiniteSet(B)
  BY <1>2, <1>3, FS_Subset
<1>6. IsFiniteSet(A) /\ Cardinality(A) \in Nat /\ Cardinality(B) \in Nat /\ Cardinality(A) <= Cardinality(B)
      /\ (Cardinality(A) = Cardinality(B) => A = B)
  BY <1>3, <1>5, FS_Subset, FS_CardinalityType
<1>7. Cardinality(A) \in Nat /\ Cardinality(A) <= Cardinality(B)
      /\ (s.parent = parent => Cardinality(A) < Cardinality(B))
  BY <1>4, <1>6
<1>. QED
  BY <1>7 DEF A, B, more

\* A heading more, one section more.
LEMMA SectionAdded ==
    ASSUME NEW lines \in Seq(Line), NEW headings \in Seq(DOMAIN lines), NEW n \in Nat, n + 1 \in DOMAIN headings,
           NEW built, Built(built, lines, headings, n)
    PROVE  Built(AddSection(built, lines[headings[n + 1]], headings[n + 1]), lines, headings, n + 1)
<1>. DEFINE at == headings[n + 1]
            l == lines[at]
            list == built.sections
            stack == built.stack
            level == EffectiveLevel(l, stack)
            open == Popped(stack, level)
            parent == IF open = <<>> THEN 0 ELSE Last(open).index
            label == NormaliseNumber(l)
            before == Cardinality(Siblings(list, parent))
            path == Append(IF parent = 0 THEN <<>> ELSE list[parent].path, label)
            s == [ at |-> at, number |-> label, reads |-> l.reads, level |-> level, parent |-> parent,
                   path |-> path, first |-> l.page, last |-> l.page, start |-> l.start, ordinal |-> before,
                   body |-> <<>> ]
            more == Append(list, s)
            top == [index |-> n + 1, level |-> level]
            left == Append(open, top)
<1>1. at \in DOMAIN lines /\ at \in Nat /\ l \in Line
  OBVIOUS
<1>2. list \in Seq(BuiltSection) /\ stack \in Seq(Open) /\ Len(list) = n /\ DOMAIN list = 1..n
  BY DEF Built
<1>3. label \in Label /\ (label[1] = "clause" => MatchesNumbered(l) /\ l.form \in Clause)
  BY <1>1, LabelHolds
<1>4. level \in Nat /\ (MatchesNumbered(l) /\ l.form \in Clause /\ stack # <<>> => Last(stack).level < level)
  BY <1>1, <1>2, LevelHolds
<1>5. /\ open \in Seq(Open)
      /\ \A i \in DOMAIN open : i \in DOMAIN stack /\ open[i] = stack[i]
      /\ open # <<>> => Last(open).level < level
      /\ stack # <<>> /\ Last(stack).level < level => open = stack
      /\ \A i \in DOMAIN stack : stack[i].level < level => i \in DOMAIN open
  <2>. HIDE DEF stack, level
  <2>. QED
    BY <1>2, <1>4, PoppedHolds
<1>6. l.reads \in Reads /\ l.page \in Nat /\ l.start \in Nat
  BY <1>1 DEF Line
<1>7. open # <<>> => parent \in 1..n /\ list[parent].level < level
  <2>. SUFFICES ASSUME open # <<>>
                PROVE  parent \in 1..n /\ list[parent].level < level
    OBVIOUS
  <2>1. Len(open) \in DOMAIN open /\ Last(open) = open[Len(open)]
    <3>. HIDE DEF open
    <3>. QED
      BY <1>5 DEF Last
  <2>2. \A i \in DOMAIN stack : stack[i].index \in 1..n /\ list[stack[i].index].level = stack[i].level
    BY DEF Built
  <2>3. parent = Last(open).index
    OBVIOUS
  <2>. HIDE DEF open, stack, parent, level, list
  <2>. QED
    BY <1>5, <2>1, <2>2, <2>3
<1>8. open = <<>> => parent = 0
  OBVIOUS
<1>9. parent \in 0..n
  BY <1>7, <1>8
<1>10. path \in Seq(Label)
  <2>1. parent # 0 => list[parent].path \in Seq(Label)
    <3>1. parent # 0 => list[parent] \in BuiltSection
      BY <1>2, <1>9
    <3>. QED
      BY <3>1 DEF BuiltSection
  <2>. HIDE DEF parent, list, label
  <2>. QED
    BY <1>3, <2>1
<1>11. before \in Nat
  <2>. HIDE DEF parent, list
  <2>. QED
    BY <1>2, MembersAreFinite, FS_Subset, FS_CardinalityType DEF Siblings
<1>12. s \in BuiltSection
  <2>. HIDE DEF at, l, list, stack, level, open, parent, label, before, path
  <2>1. <<>> \in Seq(Line)
    OBVIOUS
  <2>. QED
    BY <1>1, <1>3, <1>4, <1>6, <1>9, <1>10, <1>11, <2>1 DEF BuiltSection
<1>13. AddSection(built, l, at) = [sections |-> more, stack |-> left]
  BY <1>2 DEF AddSection, Siblings
<1>14. s.at = at /\ s.number = label /\ s.reads = l.reads /\ s.level = level /\ s.parent = parent /\ s.path = path
       /\ s.first = l.page /\ s.last = l.page /\ s.start = l.start /\ s.ordinal = before
  OBVIOUS
<1>. HIDE DEF s
<1>15. more \in Seq(BuiltSection) /\ Len(more) = n + 1 /\ DOMAIN more = 1..(n + 1)
       /\ (\A i \in 1..n : more[i] = list[i]) /\ more[n + 1] = s
  <2>. HIDE DEF list
  <2>. QED
    BY <1>2, <1>12
<1>16. top \in Open /\ top.index = n + 1 /\ top.level = level
  BY <1>4 DEF Open
<1>17. /\ left \in Seq(Open) /\ left # <<>> /\ Last(left) = top
       /\ \A i \in DOMAIN left : left[i] = top \/ (i \in DOMAIN stack /\ left[i] = stack[i])
       /\ \A i \in DOMAIN open : i \in DOMAIN left /\ left[i] = open[i]
       /\ \E i \in DOMAIN left : left[i] = top
       /\ \A i, j \in DOMAIN left : i < j => i \in DOMAIN open /\ (j \in DOMAIN open \/ left[j] = top)
  <2>. HIDE DEF top, open, stack
  <2>1. left \in Seq(Open) /\ Len(left) = Len(open) + 1 /\ left[Len(left)] = top
        /\ \A i \in DOMAIN left : i = Len(left) \/ (i \in DOMAIN open /\ left[i] = open[i])
    BY <1>5, <1>16
  <2>2. Len(open) \in Nat /\ DOMAIN open = 1..Len(open) /\ DOMAIN left = 1..(Len(open) + 1)
    BY <1>5, <2>1
  <2>4. \A i \in DOMAIN open : i \in DOMAIN left /\ left[i] = open[i]
    BY <2>1, <2>2
  <2>. HIDE DEF left
  <2>3. left # <<>> /\ Last(left) = left[Len(left)]
    BY <2>1, <2>2 DEF Last
  <2>5. \E i \in DOMAIN left : left[i] = top
    BY <2>1, <2>2
  <2>6. \A i, j \in DOMAIN left : i < j => i \in DOMAIN open /\ (j \in DOMAIN open \/ left[j] = top)
    BY <2>1, <2>2
  <2>. QED
    BY <1>5, <2>1, <2>3, <2>4, <2>5, <2>6
<1>18. ASSUME NEW i \in 1..n
       PROVE  Heads(more[i], lines[headings[i]], headings[i]) /\ Placed(more, i) /\ Counted(more, i)
  <2>1. Heads(list[i], lines[headings[i]], headings[i]) /\ Placed(list, i) /\ Counted(list, i)
    BY DEF Built
  <2>2. more[i] = list[i]
    BY <1>15
  <2>3. \A k \in 0..(i - 1) : k # 0 => more[k] = list[k]
    <3>. HIDE DEF more, list
    <3>. QED
      BY <1>15
  <2>4. list[i].ordinal \in Nat
    <3>. HIDE DEF list
    <3>1. list[i] \in BuiltSection
      BY <1>2
    <3>. QED
      BY <3>1 DEF BuiltSection
  <2>5. Counted(more, i)
    <3>. DEFINE p == list[i].parent
    <3>1. Cardinality(Siblings(list, p)) \in Nat /\ Cardinality(Siblings(list, p)) <= Cardinality(Siblings(more, p))
          /\ Cardinality(Siblings(more, p)) \in Nat
      BY <1>2, <1>12, <1>15, SiblingsGrow
    <3>. HIDE DEF more, list
    <3>. QED
      BY <2>1, <2>2, <2>4, <3>1 DEF Counted
  <2>6. Placed(more, i)
    <3>. HIDE DEF more, list
    <3>1. list[i].parent \in 0..(i - 1)
      BY <2>1 DEF Placed
    <3>2. list[i].parent # 0 => more[list[i].parent] = list[list[i].parent]
      BY <2>3, <3>1
    <3>3. \A k \in 1..(i - 1) : k \in 0..(i - 1) /\ k # 0
      OBVIOUS
    <3>4. \A k \in 1..(i - 1) : more[k].parent = more[i].parent => more[k].ordinal < more[i].ordinal
      BY <2>1, <2>2, <2>3, <3>3 DEF Placed
    <3>5. \A k \in 1..(i - 1) : Within(more, k, i) => more[i].parent >= k
      <4>1. \A k \in 1..(i - 1) : k \in 1..n
        OBVIOUS
      <4>2. \A k \in 1..(i - 1) : Within(more, k, i) <=> Within(list, k, i)
        BY <1>15, <4>1, WithinStays
      <4>. QED
        BY <2>1, <2>2, <4>2 DEF Placed
    <3>. QED
      BY <2>1, <2>2, <3>1, <3>2, <3>4, <3>5 DEF Placed
  <2>. HIDE DEF more, list
  <2>. QED
    BY <2>1, <2>2, <2>5, <2>6
<1>19. Heads(more[n + 1], lines[headings[n + 1]], headings[n + 1])
  BY <1>14, <1>15 DEF Heads
<1>23. ASSUME NEW k \in 1..n, Within(more, k, n + 1)
       PROVE  \E i \in DOMAIN open : open[i].index = k
  <2>1. n \in 1..n /\ n + 1 \in (k + 1)..(n + 1) /\ \A j \in (k + 1)..n : j \in (k + 1)..(n + 1)
    OBVIOUS
  <2>2. Within(list, k, n)
    <3>1. Within(more, k, n)
      <4>. HIDE DEF more
      <4>. QED
        BY <1>23, <2>1 DEF Within
    <3>. QED
      BY <1>15, <2>1, <3>1, WithinStays
  <2>3. PICK i \in DOMAIN stack : stack[i].index = k
    BY <2>2 DEF Built
  <2>4. stack[i].level = list[k].level /\ list[k].level = more[k].level
    <3>1. list[stack[i].index].level = stack[i].level
      BY <2>3 DEF Built
    <3>. QED
      BY <1>15, <2>3, <3>1
  <2>5. CASE label[1] = "clause"
    <3>1. stack # <<>>
      <4>. HIDE DEF stack
      <4>. QED
        BY <2>3
    <3>2. open = stack
      BY <1>3, <1>4, <1>5, <2>5, <3>1
    <3>. QED
      BY <2>3, <3>2
  <2>6. CASE label[1] # "clause"
    <3>1. Fixed(more[n + 1]) /\ more[n + 1].level = level
      BY <1>14, <1>15, <2>6 DEF Fixed
    <3>2. more[k].level < level
      BY <1>23, <2>1, <3>1 DEF Within
    <3>3. i \in DOMAIN open /\ open[i] = stack[i]
      BY <1>5, <2>4, <3>2
    <3>. QED
      BY <2>3, <3>3
  <2>. QED
    BY <2>5, <2>6
<1>20. Placed(more, n + 1)
  <2>1. parent # 0 => more[parent] = list[parent] /\ list[parent].level < level
    BY <1>7, <1>8, <1>9, <1>15
  <2>2. parent # 0 => path = Append(list[parent].path, label)
    OBVIOUS
  <2>3. ASSUME NEW k \in 1..n, Within(more, k, n + 1)
        PROVE  parent >= k
    <3>1. PICK i \in DOMAIN open : open[i].index = k
      BY <1>23, <2>3
    <3>2. i \in DOMAIN stack /\ open[i] = stack[i]
      BY <1>5, <3>1
    <3>3. Len(open) \in Nat /\ DOMAIN open = 1..Len(open) /\ open # <<>>
      <4>. HIDE DEF open
      <4>. QED
        BY <1>5, <3>1
    <3>4. parent = open[Len(open)].index /\ Len(open) \in DOMAIN open
      BY <3>3 DEF Last
    <3>5. Len(open) \in DOMAIN stack /\ open[Len(open)] = stack[Len(open)]
      BY <1>5, <3>4
    <3>6. \A x, y \in DOMAIN stack : x < y => stack[x].index < stack[y].index
      BY DEF Built
    <3>7. i = Len(open) \/ i < Len(open)
      <4>. HIDE DEF open
      <4>. QED
        BY <3>1, <3>3
    <3>8. i < Len(open) => stack[i].index < stack[Len(open)].index
      BY <3>2, <3>5, <3>6
    <3>. HIDE DEF open, stack, parent
    <3>. QED
      BY <1>9, <3>1, <3>2, <3>4, <3>5, <3>7, <3>8
  <2>4. ASSUME NEW k \in 1..n, list[k].parent = parent
        PROVE  list[k].ordinal < before
    BY <2>4 DEF Built, Counted
  <2>5. n + 1 - 1 = n
    OBVIOUS
  <2>. HIDE DEF at, l, list, stack, level, open, parent, label, before, path, more
  <2>6. more[n + 1].parent = parent /\ more[n + 1].level = level /\ more[n + 1].path = path
        /\ more[n + 1].number = label /\ more[n + 1].ordinal = before
    BY <1>14, <1>15
  <2>7. ASSUME NEW k \in 1..n, more[k].parent = parent
        PROVE  more[k].ordinal < before
    BY <1>15, <2>4, <2>7
  <2>8. parent # 0 => more[parent].level < level /\ path = Append(more[parent].path, label)
    BY <2>1, <2>2
  <2>. QED
    BY <1>9, <2>3, <2>5, <2>6, <2>7, <2>8, SMTT(60) DEF Placed
<1>21. Counted(more, n + 1)
  <2>1. before < Cardinality(Siblings(more, parent))
    <3>. HIDE DEF parent, list
    <3>. QED
      BY <1>2, <1>12, <1>14, SiblingsGrow
  <2>. HIDE DEF more, parent, before
  <2>. QED
    BY <1>14, <1>15, <2>1 DEF Counted
<1>22. ASSUME NEW i \in DOMAIN left
       PROVE  left[i].index \in 1..(n + 1) /\ more[left[i].index].level = left[i].level
  <2>1. CASE left[i] = top
    <3>. HIDE DEF left, more, top, level
    <3>1. top.index \in 1..(n + 1)
      BY <1>16
    <3>2. more[top.index].level = top.level
      BY <1>14, <1>15, <1>16, Zenon
    <3>. QED
      BY <2>1, <3>1, <3>2, Zenon
  <2>2. CASE i \in DOMAIN stack /\ left[i] = stack[i]
    <3>1. stack[i].index \in 1..n /\ list[stack[i].index].level = stack[i].level
      BY <2>2 DEF Built
    <3>. HIDE DEF left, more, stack, list
    <3>. QED
      BY <1>15, <2>2, <3>1
  <2>. QED
    BY <1>17, <2>1, <2>2
<1>24. ASSUME NEW i \in DOMAIN left, NEW j \in DOMAIN left, i < j
       PROVE  left[i].index < left[j].index
  <2>1. i \in DOMAIN stack /\ left[i] = stack[i] /\ stack[i].index \in 1..n
    <3>1. i \in DOMAIN open /\ left[i] = open[i]
      BY <1>17, <1>24
    <3>2. i \in DOMAIN stack /\ open[i] = stack[i]
      BY <1>5, <3>1
    <3>. QED
      BY <3>1, <3>2 DEF Built
  <2>2. CASE left[j] = top
    <3>. HIDE DEF left, top, stack
    <3>. QED
      BY <1>16, <2>1, <2>2
  <2>3. CASE j \in DOMAIN open
    <3>1. j \in DOMAIN stack /\ left[j] = stack[j]
      BY <1>5, <1>17, <2>3
    <3>2. \A x, y \in DOMAIN stack : x < y => stack[x].index < stack[y].index
      BY DEF Built
    <3>. QED
      BY <1>24, <2>1, <3>1, <3>2
  <2>. QED
    BY <1>17, <1>24, <2>2, <2>3
<1>25. ASSUME NEW k \in 1..(n + 1), Within(more, k, n + 1)
       PROVE  \E i \in DOMAIN left : left[i].index = k
  <2>1. CASE k = n + 1
    <3>. HIDE DEF left, top
    <3>. QED
      BY <1>16, <1>17, <2>1
  <2>2. CASE k \in 1..n
    <3>1. PICK i \in DOMAIN open : open[i].index = k
      BY <1>23, <1>25, <2>2
    <3>2. i \in DOMAIN left /\ left[i] = open[i]
      BY <1>17, <3>1
    <3>. QED
      BY <3>1, <3>2
  <2>. QED
    BY <2>1, <2>2
<1>. HIDE DEF at, l, list, stack, level, open, parent, label, before, path, more, top, left
<1>. QED
  <2>1. AddSection(built, l, at).sections = more /\ AddSection(built, l, at).stack = left
    BY <1>13
  <2>2. AddSection(built, l, at) \in [sections : Seq(BuiltSection), stack : Seq(Open)]
    BY <1>13, <1>15, <1>17
  <2>3. \A i \in 1..(n + 1) : i \in 1..n \/ i = n + 1
    OBVIOUS
  <2>4. n + 1 # 0
    OBVIOUS
  <2>. QED
    BY <1>15, <1>16, <1>17, <1>18, <1>19, <1>20, <1>21, <1>22, <1>24, <1>25, <2>1, <2>2, <2>3, <2>4 DEF Built, at, l

\* The whole hierarchy.
LEMMA HierarchyBuilt ==
    ASSUME NEW lines \in Seq(Line), NEW headings \in Seq(DOMAIN lines)
    PROVE  \E built : /\ Built(built, lines, headings, Len(headings))
                      /\ BuildHierarchy(lines, headings) = built.sections
<1>. DEFINE n == Len(headings)
            base == [sections |-> <<>>, stack |-> <<>>]
            W == [sections : Seq(BuiltSection), stack : Seq(Open)]
            add(v, k) == AddSection(v, lines[headings[k]], headings[k])
            next(f, k) == IF k = 0 THEN base ELSE AddSection(f[k - 1], lines[headings[k]], headings[k])
            Adds(f) == f = [k \in 0..n |-> next(f, k)]
            upTo == CHOOSE f : Adds(f)
            step == [p \in W \X (1..n) |-> add(p[1], p[2])]
            V == [k \in 0..n |-> {v \in W : Built(v, lines, headings, k)}]
<1>1. n \in Nat /\ DOMAIN headings = 1..n
  OBVIOUS
<1>2. \A k \in 1..n : k \in 0..n /\ k - 1 \in 0..n /\ k - 1 \in Nat /\ (k - 1) + 1 = k /\ k # 0
  BY <1>1
<1>3. Built(base, lines, headings, 0)
  <2>1. base \in W /\ base.sections = <<>> /\ base.stack = <<>> /\ Len(<<>>) = 0 /\ DOMAIN <<>> = {}
    OBVIOUS
  <2>. HIDE DEF base
  <2>. QED
    BY <2>1 DEF Built
<1>4. \A k \in 0..n : \A v : v \in V[k] <=> Built(v, lines, headings, k)
  BY DEF Built
<1>5. ASSUME NEW k \in 1..n, NEW v, Built(v, lines, headings, k - 1)
      PROVE  Built(add(v, k), lines, headings, k)
  <2>1. k - 1 \in Nat /\ (k - 1) + 1 = k /\ k \in DOMAIN headings
    BY <1>1, <1>2
  <2>. HIDE DEF n
  <2>. DEFINE m == k - 1
  <2>2. m \in Nat /\ m + 1 = k
    BY <2>1
  <2>3. Built(v, lines, headings, m)
    BY <1>5
  <2>. HIDE DEF m
  <2>4. Built(AddSection(v, lines[headings[m + 1]], headings[m + 1]), lines, headings, m + 1)
    BY <2>1, <2>2, <2>3, SectionAdded
  <2>. QED
    BY <2>2, <2>4
<1>6. \A k \in 1..n : \A v \in W : step[<<v, k>>] = add(v, k)
  OBVIOUS
<1>7. \A k \in 0..n : V[k] \subseteq W
  OBVIOUS
<1>. HIDE DEF n, W, V, step, base
<1>8. PICK g : Recurs(g, n, base, step) /\ \A k \in 0..n : g[k] \in V[k]
  <2>1. ASSUME NEW k \in 1..n, NEW v \in V[k - 1]
        PROVE  step[<<v, k>>] \in V[k]
    <3>1. v \in W /\ Built(v, lines, headings, k - 1)
      BY <1>2, <1>4, <1>7
    <3>2. step[<<v, k>>] = add(v, k) /\ Built(add(v, k), lines, headings, k)
      BY <1>5, <1>6, <3>1
    <3>. HIDE DEF add
    <3>. QED
      BY <1>2, <1>4, <3>2
  <2>2. base \in V[0]
    BY <1>1, <1>3, <1>4
  <2>. QED
    BY <1>1, <2>1, <2>2, RecursionWithin
<1>9. \E f : Adds(f)
  <2>1. \A k \in 0..n : k # 0 => step[<<g[k - 1], k>>] = add(g[k - 1], k)
    <3>1. \A k \in 0..n : k # 0 => k \in 1..n /\ k - 1 \in 0..n
      BY <1>1
    <3>2. \A k \in 0..n : g[k] \in W
      BY <1>7, <1>8
    <3>. HIDE DEF add
    <3>. QED
      BY <1>6, <3>1, <3>2
  <2>2. g = [k \in 0..n |-> IF k = 0 THEN base ELSE add(g[k - 1], k)]
    <3>. HIDE DEF add
    <3>. QED
      BY <1>8, <2>1 DEF Recurs
  <2>. QED
    BY <2>2
<1>10. Adds(upTo)
  <2>. HIDE DEF Adds
  <2>. QED
    BY <1>9
<1>11. BuildHierarchy(lines, headings) = upTo[n].sections
  BY DEF BuildHierarchy, n, base
<1>12. \A k \in 0..n : upTo[k] = next(upTo, k)
  <2>. HIDE DEF upTo, next
  <2>. QED
    BY <1>10
<1>. HIDE DEF upTo
<1>13. upTo[0] = base /\ \A k \in 1..n : upTo[k] = add(upTo[k - 1], k)
  <2>1. 0 \in 0..n
    BY <1>1
  <2>. QED
    BY <1>2, <1>12, <2>1
<1>14. \A k \in 0..n : upTo[k] \in V[k]
  <2>1. ASSUME NEW k \in 1..n, upTo[k - 1] \in V[k - 1]
        PROVE  upTo[k] \in V[k]
    <3>1. Built(upTo[k - 1], lines, headings, k - 1)
      BY <1>2, <1>4, <2>1
    <3>2. Built(add(upTo[k - 1], k), lines, headings, k)
      BY <1>5, <3>1
    <3>. HIDE DEF add
    <3>. QED
      BY <1>2, <1>4, <1>13, <3>2
  <2>2. upTo[0] \in V[0]
    BY <1>1, <1>3, <1>4, <1>13
  <2>. QED
    BY <1>1, <2>1, <2>2, RecursionStays
<1>15. Built(upTo[n], lines, headings, n)
  BY <1>1, <1>4, <1>14
<1>. QED
  BY <1>11, <1>15 DEF n

-----------------------------------------------------------------------------
(* Sections: bodies *)

\* Lines in the order of the document.
Ordered(lines) ==
    \A i, j \in DOMAIN lines : i < j => lines[i].start < lines[j].start /\ lines[i].page <= lines[j].page

\* Where the body of section i ends.
EndsAt(list, i, lines) == IF i < Len(list) THEN list[i + 1].at - 1 ELSE Len(lines)

\* The sections of ordered lines.
Parsed(list, lines) ==
    /\ list \in Seq(BuiltSection)
    /\ \A i \in DOMAIN list : /\ list[i].at \in DOMAIN lines
                              /\ Heads(list[i], lines[list[i].at], list[i].at)
                              /\ Placed(list, i)
                              /\ list[i].body = SubSeq(lines, list[i].at + 1, EndsAt(list, i, lines))
    /\ \A i, k \in DOMAIN list : i < k => list[i].at < list[k].at

\* A part of a list.
LEMMA PartHolds ==
    ASSUME NEW T, NEW s \in Seq(T), NEW a \in 1..(Len(s) + 1), NEW b \in (a - 1)..Len(s)
    PROVE  LET part == SubSeq(s, a, b)
           IN  /\ part \in Seq(T) /\ Len(part) = b - a + 1 /\ DOMAIN part = 1..(b - a + 1)
               /\ \A i \in DOMAIN part : a + i - 1 \in DOMAIN s /\ part[i] = s[a + i - 1]
               /\ \A j \in a..b : j - a + 1 \in DOMAIN part /\ part[j - a + 1] = s[j]
<1>. DEFINE part == SubSeq(s, a, b)
<1>1. Len(s) \in Nat /\ a \in Nat /\ b \in Nat /\ DOMAIN s = 1..Len(s)
  OBVIOUS
<1>2. part \in Seq(T) /\ Len(part) = b - a + 1 /\ DOMAIN part = 1..(b - a + 1)
      /\ \A i \in 1..(b - a + 1) : part[i] = s[a + i - 1]
  BY <1>1
<1>3. \A i \in 1..(b - a + 1) : a + i - 1 \in 1..Len(s)
  BY <1>1
<1>4. \A j \in a..b : j - a + 1 \in 1..(b - a + 1) /\ a + (j - a + 1) - 1 = j
  BY <1>1
<1>. HIDE DEF part
<1>5. \A j \in a..b : part[j - a + 1] = s[j]
  BY <1>2, <1>4
<1>6. \A i \in DOMAIN part : a + i - 1 \in DOMAIN s /\ part[i] = s[a + i - 1]
  BY <1>1, <1>2, <1>3
<1>. QED
  BY <1>2, <1>4, <1>5, <1>6 DEF part

\* A section is found again at the line that heads it.
LEMMA PositionHolds ==
    ASSUME NEW lines \in Seq(Line), Ordered(lines), NEW at \in DOMAIN lines,
           NEW section, section.start = lines[at].start
    PROVE  HeadingPosition(section, lines) = at
<1>. DEFINE found == {i \in DOMAIN lines : lines[i].start = section.start}
<1>1. Len(lines) \in Nat /\ DOMAIN lines = 1..Len(lines) /\ \A i \in DOMAIN lines : lines[i].start \in Nat
  <2>1. \A i \in DOMAIN lines : lines[i] \in Line
    OBVIOUS
  <2>. QED
    BY <2>1 DEF Line
<1>2. \A i \in found : i = at
  <2>. SUFFICES ASSUME NEW i \in DOMAIN lines, lines[i].start = lines[at].start
                PROVE  i = at
    OBVIOUS
  <2>1. ~(i < at) /\ ~(at < i)
    BY <1>1 DEF Ordered
  <2>. QED
    BY <1>1, <2>1
<1>3. at \in found
  OBVIOUS
<1>4. found \subseteq 0..Len(lines) /\ found # {}
  BY <1>1, <1>3
<1>5. HeadingPosition(section, lines) = Max(found)
  BY <1>3 DEF HeadingPosition
<1>. HIDE DEF found
<1>6. Max(found) \in found
  BY <1>1, <1>4, MaxHolds
<1>. QED
  BY <1>2, <1>5, <1>6

\* Sections get the lines up to the next heading (SectionParser._attach_bodies).
LEMMA BodiesAttached ==
    ASSUME NEW lines \in Seq(Line), Ordered(lines), NEW built, Built(built, lines, FindHeadings(lines), Len(FindHeadings(lines)))
    PROVE  Parsed(AttachBodies(built.sections, lines), lines)
<1>. DEFINE headings == FindHeadings(lines)
            n == Len(headings)
            old == built.sections
            new == AttachBodies(old, lines)
            body(i) == SubSeq(lines, HeadingPosition(old[i], lines) + 1, BodyEnd(old, i, lines))
            last(i) == IF body(i) = <<>> THEN old[i].last ELSE Max({old[i].last, Last(body(i)).page})
<1>1. headings \in Seq(DOMAIN lines) /\ \A i, j \in DOMAIN headings : i < j => headings[i] < headings[j]
  BY HeadingsHold
<1>2. n \in Nat /\ DOMAIN headings = 1..n /\ Len(lines) \in Nat /\ DOMAIN lines = 1..Len(lines)
  <2>. HIDE DEF headings
  <2>. QED
    BY <1>1
<1>3. old \in Seq(BuiltSection) /\ Len(old) = n /\ DOMAIN old = 1..n
  <2>1. old \in Seq(BuiltSection) /\ Len(old) = n
    BY DEF Built
  <2>. HIDE DEF old
  <2>. QED
    BY <2>1
<1>4. \A i \in 1..n : /\ Heads(old[i], lines[headings[i]], headings[i]) /\ Placed(old, i)
                      /\ old[i].at = headings[i] /\ old[i].start = lines[headings[i]].start
                      /\ headings[i] \in DOMAIN lines
  <2>1. \A i \in 1..n : Heads(old[i], lines[headings[i]], headings[i]) /\ Placed(old, i)
    BY DEF Built
  <2>. HIDE DEF old, headings
  <2>. QED
    BY <1>1, <1>2, <2>1 DEF Heads
<1>5. \A i \in 1..n : HeadingPosition(old[i], lines) = headings[i]
  <2>. HIDE DEF old, headings
  <2>. QED
    BY <1>4, PositionHolds
<1>6. \A i \in 1..n : new[i] = [old[i] EXCEPT !.body = body(i), !.last = last(i)]
  BY <1>3 DEF AttachBodies
<1>7. DOMAIN new = 1..n
  BY <1>3 DEF AttachBodies
<1>. HIDE DEF new, headings, n, old
<1>8. \A i \in 1..n : i < n => i + 1 \in 1..n /\ headings[i] < headings[i + 1]
  BY <1>1, <1>2, SMTT(60)
<1>9. \A i \in 1..n : BodyEnd(old, i, lines) = (IF i < n THEN headings[i + 1] - 1 ELSE Len(lines))
  BY <1>3, <1>5, <1>8 DEF BodyEnd
<1>10. ASSUME NEW i \in 1..n
       PROVE  BodyEnd(old, i, lines) \in headings[i]..Len(lines)
  <2>1. CASE i < n
    <3>1. i + 1 \in 1..n /\ headings[i] < headings[i + 1] /\ headings[i + 1] \in 1..Len(lines) /\ headings[i] \in 1..Len(lines)
      BY <1>2, <1>4, <1>8, <2>1
    <3>2. BodyEnd(old, i, lines) = headings[i + 1] - 1
      BY <1>9, <2>1
    <3>. QED
      BY <1>2, <3>1, <3>2
  <2>2. CASE ~(i < n)
    BY <1>2, <1>4, <1>9, <2>2
  <2>. QED
    BY <2>1, <2>2
<1>11. ASSUME NEW i \in 1..n
       PROVE  body(i) \in Seq(Line)
  <2>. DEFINE a == headings[i] + 1
              b == BodyEnd(old, i, lines)
  <2>1. a \in 1..(Len(lines) + 1) /\ b \in (a - 1)..Len(lines)
    <3>1. headings[i] \in 1..Len(lines)
      BY <1>2, <1>4
    <3>. QED
      BY <1>2, <1>10, <3>1
  <2>2. body(i) = SubSeq(lines, a, b)
    BY <1>5
  <2>. HIDE DEF a, b, body
  <2>. QED
    BY <2>1, <2>2, PartHolds
<1>12. ASSUME NEW i \in 1..n
       PROVE  last(i) \in Nat
  <2>. DEFINE p == Last(body(i)).page
              q == old[i].last
  <2>1. q \in Nat
    <3>1. old[i] \in BuiltSection
      BY <1>3
    <3>. QED
      BY <3>1 DEF BuiltSection
  <2>2. CASE body(i) = <<>>
    BY <2>1, <2>2
  <2>3. CASE body(i) # <<>>
    <3>1. p \in Nat
      <4>. HIDE DEF body
      <4>1. Last(body(i)) \in Line
        BY <1>11, <2>3 DEF Last
      <4>. QED
        BY <4>1 DEF Line
    <3>2. last(i) = Max({q, p})
      BY <2>3
    <3>. HIDE DEF p, q, last, body
    <3>3. {q, p} \subseteq 0..(q + p) /\ {q, p} # {} /\ q + p \in Nat
      BY <2>1, <3>1
    <3>4. Max({q, p}) \in {q, p}
      BY <3>3, MaxHolds
    <3>. QED
      BY <2>1, <3>1, <3>2, <3>4
  <2>. QED
    BY <2>2, <2>3
<1>13. ASSUME NEW i \in 1..n
       PROVE  /\ new[i] \in BuiltSection /\ new[i].body = body(i)
              /\ new[i].at = old[i].at /\ new[i].number = old[i].number /\ new[i].reads = old[i].reads
              /\ new[i].level = old[i].level /\ new[i].parent = old[i].parent /\ new[i].path = old[i].path
              /\ new[i].first = old[i].first /\ new[i].start = old[i].start /\ new[i].ordinal = old[i].ordinal
  <2>1. old[i] \in BuiltSection
    BY <1>3
  <2>. HIDE DEF body, last
  <2>. QED
    BY <1>6, <1>11, <1>12, <2>1 DEF BuiltSection
<1>. HIDE DEF last
<1>14. new \in Seq(BuiltSection) /\ Len(new) = n
  <2>1. new = [i \in 1..n |-> new[i]]
    BY <1>3, <1>7 DEF new, AttachBodies
  <2>. HIDE DEF body
  <2>. QED
    BY <1>2, <1>13, <2>1
<1>15. ASSUME NEW i \in 1..n
       PROVE  Heads(new[i], lines[new[i].at], new[i].at) /\ Placed(new, i)
  <2>1. Heads(new[i], lines[new[i].at], new[i].at)
    BY <1>4, <1>13 DEF Heads
  <2>2. Placed(old, i) /\ old[i].parent \in 0..(i - 1)
    BY <1>4 DEF Placed
  <2>3. old[i].parent # 0 => old[i].parent \in 1..n
    BY <1>2, <2>2
  <2>4. \A k \in 1..(i - 1) : k \in 1..n
    BY <1>2
  <2>. HIDE DEF body
  <2>5. old[i].parent # 0 => new[old[i].parent].level = old[old[i].parent].level
                             /\ new[old[i].parent].path = old[old[i].parent].path
    BY <1>13, <2>3
  <2>6. \A k \in 1..(i - 1) : new[k].parent = old[k].parent /\ new[k].ordinal = old[k].ordinal
    BY <1>13, <2>4
  <2>7. Placed(new, i)
    <3>1. new[i].parent \in 0..(i - 1)
      BY <1>13, <2>2
    <3>2. new[i].parent # 0 => /\ new[new[i].parent].level < new[i].level
                               /\ new[i].path = Append(new[new[i].parent].path, new[i].number)
      BY <1>13, <2>2, <2>5 DEF Placed
    <3>3. \A k \in 1..(i - 1) : Within(new, k, i) => new[i].parent >= k
      <4>1. \A k \in 1..(i - 1) : Within(new, k, i) <=> Within(old, k, i)
        BY <1>2, <1>13, <2>4, WithinStays
      <4>. QED
        BY <1>13, <2>2, <4>1 DEF Placed
    <3>4. \A k \in 1..(i - 1) : new[k].parent = new[i].parent => new[k].ordinal < new[i].ordinal
      BY <1>13, <2>2, <2>6 DEF Placed
    <3>. QED
      BY <3>1, <3>2, <3>3, <3>4 DEF Placed
  <2>. QED
    BY <2>1, <2>7
<1>16. ASSUME NEW i \in 1..n
       PROVE  new[i].at \in DOMAIN lines /\ new[i].at = headings[i]
  BY <1>4, <1>13
<1>17. ASSUME NEW i \in 1..n
       PROVE  new[i].body = SubSeq(lines, new[i].at + 1, EndsAt(new, i, lines))
  <2>1. EndsAt(new, i, lines) = BodyEnd(old, i, lines)
    <3>. HIDE DEF body
    <3>. QED
      BY <1>8, <1>9, <1>14, <1>16 DEF EndsAt
  <2>. QED
    BY <1>5, <1>13, <1>16, <2>1
<1>18. ASSUME NEW i \in 1..n, NEW k \in 1..n, i < k
       PROVE  new[i].at < new[k].at
  BY <1>1, <1>2, <1>16, <1>18
<1>. HIDE DEF body
<1>. QED
  BY <1>7, <1>14, <1>15, <1>16, <1>17, <1>18 DEF Parsed, new, old

\* The parser's result, for lines in the order of their offsets.
LEMMA ParseHolds ==
    ASSUME NEW lines \in Seq(Line), Ordered(lines)
    PROVE  Parsed(Parse(lines), lines)
<1>1. CASE lines = <<>>
  <2>1. Parse(lines) = <<>>
    BY <1>1 DEF Parse
  <2>. QED
    BY <2>1 DEF Parsed
<1>2. CASE lines # <<>>
  <2>1. FindHeadings(lines) \in Seq(DOMAIN lines)
    BY HeadingsHold
  <2>2. PICK built : /\ Built(built, lines, FindHeadings(lines), Len(FindHeadings(lines)))
                     /\ BuildHierarchy(lines, FindHeadings(lines)) = built.sections
    BY <2>1, HierarchyBuilt
  <2>3. Parse(lines) = AttachBodies(built.sections, lines)
    BY <1>2, <2>2 DEF Parse
  <2>. QED
    BY <2>2, <2>3, BodiesAttached
<1>. QED
  BY <1>1, <1>2

\* A section starts after the sections before it.
LEMMA SectionsFollow ==
    ASSUME NEW lines \in Seq(Line), Ordered(lines), NEW list, Parsed(list, lines),
           NEW i \in DOMAIN list, NEW k \in DOMAIN list, k < i
    PROVE  list[k].start < list[i].start /\ list[k].first <= list[i].first
<1>1. list[k].at < list[i].at /\ list[k].at \in DOMAIN lines /\ list[i].at \in DOMAIN lines
  BY DEF Parsed
<1>2. /\ list[k].start = lines[list[k].at].start /\ list[k].first = lines[list[k].at].page
      /\ list[i].start = lines[list[i].at].start /\ list[i].first = lines[list[i].at].page
  BY DEF Parsed, Heads
<1>. QED
  BY <1>1, <1>2 DEF Ordered

\* The lines of a body: those after the heading up to its end.
LEMMA BodyHolds ==
    ASSUME NEW lines \in Seq(Line), NEW list, Parsed(list, lines), NEW i \in DOMAIN list
    PROVE  /\ list[i].at \in Nat /\ EndsAt(list, i, lines) \in list[i].at..Len(lines)
           /\ list[i].body \in Seq(Line)
           /\ \A x \in DOMAIN list[i].body : list[i].at + x \in DOMAIN lines /\ list[i].body[x] = lines[list[i].at + x]
           /\ \A j \in (list[i].at + 1)..EndsAt(list, i, lines) :
                 j - list[i].at \in DOMAIN list[i].body /\ list[i].body[j - list[i].at] = lines[j]
<1>. DEFINE at == list[i].at
            b == EndsAt(list, i, lines)
            a == at + 1
<1>1. Len(lines) \in Nat /\ DOMAIN lines = 1..Len(lines)
  OBVIOUS
<1>2. list \in Seq(BuiltSection)
  BY DEF Parsed
<1>3. at \in 1..Len(lines) /\ list[i].body = SubSeq(lines, a, b)
  BY <1>1 DEF Parsed
<1>4. b \in at..Len(lines)
  <2>1. CASE i < Len(list)
    <3>1. i + 1 \in DOMAIN list /\ i < i + 1
      BY <1>2, <2>1
    <3>2. list[i + 1].at \in DOMAIN lines /\ list[i].at < list[i + 1].at
      BY <3>1 DEF Parsed
    <3>3. b = list[i + 1].at - 1
      BY <2>1 DEF EndsAt
    <3>. HIDE DEF b
    <3>. QED
      BY <1>1, <1>3, <3>2, <3>3
  <2>2. CASE ~(i < Len(list))
    <3>1. b = Len(lines)
      BY <2>2 DEF EndsAt
    <3>. QED
      BY <1>1, <1>3, <3>1
  <2>. QED
    BY <2>1, <2>2
<1>. HIDE DEF at, b
<1>5. a \in 1..(Len(lines) + 1) /\ b \in (a - 1)..Len(lines) /\ at \in Nat
  BY <1>1, <1>3, <1>4
<1>. DEFINE part == SubSeq(lines, a, b)
<1>6. /\ part \in Seq(Line)
      /\ \A x \in DOMAIN part : a + x - 1 \in DOMAIN lines /\ part[x] = lines[a + x - 1]
      /\ \A j \in a..b : j - a + 1 \in DOMAIN part /\ part[j - a + 1] = lines[j]
  <2>. HIDE DEF a
  <2>. QED
    BY <1>5, PartHolds
<1>7. \A x \in DOMAIN part : a + x - 1 = at + x
  <2>1. \A x \in DOMAIN part : x \in Nat
    BY <1>6
  <2>. HIDE DEF part
  <2>. QED
    BY <1>5, <2>1
<1>8. \A j \in a..b : j - a + 1 = j - at
  BY <1>3, <1>4
<1>. HIDE DEF part
<1>9. \A x \in DOMAIN part : at + x \in DOMAIN lines /\ part[x] = lines[at + x]
  BY <1>6, <1>7
<1>10. \A j \in a..b : j - at \in DOMAIN part /\ part[j - at] = lines[j]
  BY <1>6, <1>8
<1>11. list[i].body = part
  BY <1>3 DEF part
<1>. QED
  BY <1>4, <1>5, <1>6, <1>9, <1>10, <1>11 DEF at, b

\* Every line from the first heading on heads a section or is in the body of one.
LEMMA LineHasSection ==
    ASSUME NEW lines \in Seq(Line), NEW list, Parsed(list, lines), NEW j \in DOMAIN lines,
           NEW T, T = {i \in DOMAIN list : list[i].at <= j}, T # {}
    PROVE  Max(T) \in DOMAIN list /\ j \in list[Max(T)].at..EndsAt(list, Max(T), lines)
<1>. DEFINE i == Max(T)
<1>1. Len(lines) \in Nat /\ DOMAIN lines = 1..Len(lines)
  OBVIOUS
<1>2. list \in Seq(BuiltSection)
  BY DEF Parsed
<1>3. Len(list) \in Nat /\ DOMAIN list = 1..Len(list)
  BY <1>2
<1>4. i \in T /\ \A k \in T : k <= i
  <2>1. T \subseteq 0..Len(list) /\ T # {}
    BY <1>3
  <2>. QED
    BY <1>3, <2>1, MaxHolds
<1>. HIDE DEF i
<1>5. i \in DOMAIN list /\ list[i].at <= j
  BY <1>4
<1>6. \A k \in DOMAIN list : list[k].at \in DOMAIN lines
  BY DEF Parsed
<1>7. i < Len(list) => j < list[i + 1].at
  <2>. SUFFICES ASSUME i < Len(list)
                PROVE  j < list[i + 1].at
    OBVIOUS
  <2>1. i + 1 \in DOMAIN list /\ ~(i + 1 <= i)
    BY <1>3, <1>5
  <2>2. i + 1 \notin T
    BY <1>4, <2>1
  <2>. QED
    BY <1>1, <1>6, <2>1, <2>2
<1>8. j \in list[i].at..EndsAt(list, i, lines)
  <2>1. list[i].at \in Nat /\ j \in Nat /\ j <= Len(lines)
    BY <1>1, <1>5, <1>6
  <2>2. CASE i < Len(list)
    <3>1. i + 1 \in DOMAIN list
      BY <1>3, <1>5, <2>2
    <3>2. list[i + 1].at \in Nat /\ j < list[i + 1].at
      BY <1>1, <1>6, <1>7, <2>2, <3>1
    <3>3. EndsAt(list, i, lines) = list[i + 1].at - 1
      BY <2>2 DEF EndsAt
    <3>. QED
      BY <1>5, <2>1, <3>2, <3>3
  <2>3. CASE ~(i < Len(list))
    <3>1. EndsAt(list, i, lines) = Len(lines)
      BY <2>3 DEF EndsAt
    <3>. QED
      BY <1>1, <1>5, <2>1, <3>1
  <2>. QED
    BY <2>2, <2>3
<1>. QED
  BY <1>5, <1>8 DEF i

-----------------------------------------------------------------------------
(* Chunks: texts *)

Piece == [id : Int, size : Int]

Reference ==
    [ number : Label \union {<<>>}, path : Seq(Label), heading : Reads, level : Nat, first : Nat, last : Nat ]

ChunkRecord ==
    [ text : Seq(Piece), tokens : Int, type : {"prose", "definition", "table"}, section : Reference,
      headings : Nat, child : BOOLEAN, ordinal : Nat, first : Nat, last : Nat ]

\* What ChunkingConfig leaves of the sizes.
LEMMA ConfigHolds ==
    /\ TargetTokens \in Nat /\ MaxTokens \in Nat /\ OverlapTokens \in Nat /\ MinTokens \in Nat /\ HeadingTokens \in Nat
    /\ OverlapTokens < TargetTokens /\ TargetTokens <= MaxTokens /\ MinTokens < TargetTokens /\ TargetTokens # 0
    /\ EmitParents \in BOOLEAN /\ SplitDefinitions \in BOOLEAN
<1>1. {TargetTokens, MaxTokens, OverlapTokens, MinTokens, HeadingTokens} \subseteq Nat
  BY ChunkingConfig
<1>2. {EmitParents, SplitDefinitions} \subseteq BOOLEAN
  BY ChunkingConfig
<1>. QED
  BY <1>1, <1>2, ChunkingConfig

\* The lesser of two numbers.
LEMMA MinOfTwo ==
    ASSUME NEW a \in Int, NEW b \in Int
    PROVE  Min({a, b}) \in Int /\ Min({a, b}) <= a /\ Min({a, b}) <= b
<1>1. \E x \in {a, b} : \A y \in {a, b} : x <= y
  <2>1. CASE a <= b
    BY <2>1
  <2>2. CASE ~(a <= b)
    BY <2>2
  <2>. QED
    BY <2>1, <2>2
<1>2. Min({a, b}) \in {a, b} /\ \A y \in {a, b} : Min({a, b}) <= y
  BY <1>1 DEF Min
<1>. QED
  BY <1>2

\* The greater of two numbers.
LEMMA MaxOfTwo ==
    ASSUME NEW a \in Nat, NEW b \in Nat
    PROVE  Max({a, b}) \in Nat /\ a <= Max({a, b}) /\ b <= Max({a, b})
<1>1. {a, b} \subseteq 0..(a + b) /\ {a, b} # {} /\ a + b \in Nat
  OBVIOUS
<1>2. Max({a, b}) \in {a, b} /\ \A y \in {a, b} : y <= Max({a, b})
  BY <1>1, MaxHolds
<1>. QED
  BY <1>2

\* The lines of a text, by the members of the list.
LEMMA IdsOf ==
    ASSUME NEW text
    PROVE  Ids(text) = {x.id : x \in ToSet(text)}
BY DEF Ids, ToSet

\* The tokens of a text add up.
LEMMA CountHolds ==
    /\ \A text \in Seq(Piece) : CountTokens(text) \in Int
    /\ \A a, b \in Seq(Piece) : CountTokens(a \o b) = CountTokens(a) + CountTokens(b)
    /\ \A p \in Piece : CountTokens(<<p>>) = p.size
    /\ CountTokens(<<>>) = 0
<1>. DEFINE sizes(text) == [i \in DOMAIN text |-> text[i].size]
<1>1. ASSUME NEW text \in Seq(Piece)
      PROVE  sizes(text) \in Seq(Int) /\ Len(sizes(text)) = Len(text)
             /\ \A i \in DOMAIN text : sizes(text)[i] = text[i].size
  <2>1. \A i \in DOMAIN text : text[i] \in Piece
    OBVIOUS
  <2>2. Len(text) \in Nat /\ DOMAIN text = 1..Len(text) /\ \A i \in DOMAIN text : text[i].size \in Int
    BY <2>1 DEF Piece
  <2>. QED
    BY <2>2
<1>2. ASSUME NEW text \in Seq(Piece)
      PROVE  CountTokens(text) \in Int
  <2>1. sizes(text) \in Seq(Int)
    BY <1>1
  <2>. QED
    BY <2>1, SumIsNumber DEF CountTokens
<1>3. ASSUME NEW a \in Seq(Piece), NEW b \in Seq(Piece)
      PROVE  CountTokens(a \o b) = CountTokens(a) + CountTokens(b)
  <2>. DEFINE c == a \o b
  <2>1. c \in Seq(Piece) /\ Len(c) = Len(a) + Len(b) /\ Len(a) \in Nat /\ Len(b) \in Nat
        /\ (\A i \in 1..Len(a) : c[i] = a[i]) /\ (\A i \in 1..Len(b) : c[Len(a) + i] = b[i])
    OBVIOUS
  <2>. HIDE DEF c
  <2>2. sizes(c) = sizes(a) \o sizes(b)
    <3>. DEFINE d == sizes(a) \o sizes(b)
    <3>1. sizes(a) \in Seq(Int) /\ sizes(b) \in Seq(Int) /\ sizes(c) \in Seq(Int)
          /\ Len(sizes(a)) = Len(a) /\ Len(sizes(b)) = Len(b) /\ Len(sizes(c)) = Len(c)
      BY <1>1, <2>1
    <3>2. (\A i \in 1..Len(a) : sizes(a)[i] = a[i].size) /\ (\A i \in 1..Len(b) : sizes(b)[i] = b[i].size)
          /\ \A i \in 1..Len(c) : sizes(c)[i] = c[i].size
      BY <2>1
    <3>. HIDE DEF sizes
    <3>3. d \in Seq(Int) /\ Len(d) = Len(a) + Len(b)
          /\ (\A i \in 1..Len(a) : d[i] = sizes(a)[i]) /\ (\A i \in 1..Len(b) : d[Len(a) + i] = sizes(b)[i])
      <4>1. \A u, v \in Seq(Int) : /\ u \o v \in Seq(Int) /\ Len(u \o v) = Len(u) + Len(v)
                                   /\ \A i \in 1..Len(u) : (u \o v)[i] = u[i]
                                   /\ \A i \in 1..Len(v) : (u \o v)[Len(u) + i] = v[i]
        OBVIOUS
      <4>. DEFINE x == sizes(a)
                  y == sizes(b)
      <4>2. x \in Seq(Int) /\ y \in Seq(Int) /\ d = x \o y /\ Len(x) = Len(a) /\ Len(y) = Len(b)
        BY <3>1
      <4>. HIDE DEF x, y, d
      <4>3. /\ d \in Seq(Int) /\ Len(d) = Len(x) + Len(y)
            /\ \A i \in 1..Len(x) : d[i] = x[i]
            /\ \A i \in 1..Len(y) : d[Len(x) + i] = y[i]
        BY <4>1, <4>2
      <4>4. d \in Seq(Int) /\ Len(d) = Len(a) + Len(b)
            /\ (\A i \in 1..Len(a) : d[i] = x[i]) /\ (\A i \in 1..Len(b) : d[Len(a) + i] = y[i])
        BY <4>2, <4>3
      <4>. QED
        BY <4>4 DEF x, y
    <3>. HIDE DEF d
    <3>4. \A i \in 1..Len(c) : i \in 1..Len(a) \/ (i - Len(a) \in 1..Len(b) /\ i = Len(a) + (i - Len(a)))
      BY <2>1
    <3>5. \A i \in 1..Len(c) : sizes(c)[i] = d[i]
      <4>1. ASSUME NEW i \in 1..Len(a)
            PROVE  sizes(c)[i] = d[i]
        <5>1. i \in 1..Len(c)
          BY <2>1
        <5>. QED
          BY <2>1, <3>2, <3>3, <5>1, ZenonT(60)
      <4>2. ASSUME NEW i \in 1..Len(b)
            PROVE  sizes(c)[Len(a) + i] = d[Len(a) + i]
        <5>1. Len(a) + i \in 1..Len(c)
          BY <2>1
        <5>. QED
          BY <2>1, <3>2, <3>3, <5>1, ZenonT(60)
      <4>. QED
        BY <3>4, <4>1, <4>2
    <3>6. Len(d) = Len(c) /\ Len(c) \in Nat
      BY <2>1, <3>3
    <3>7. sizes(c) = d
      <4>1. \A u \in Seq(Int) : u = [i \in 1..Len(u) |-> u[i]]
        OBVIOUS
      <4>2. sizes(c) = [i \in 1..Len(c) |-> sizes(c)[i]] /\ d = [i \in 1..Len(c) |-> d[i]]
        BY <3>1, <3>3, <3>6, <4>1
      <4>. QED
        BY <3>5, <4>2
    <3>. QED
      BY <3>7 DEF d
  <2>3. sizes(a) \in Seq(Int) /\ sizes(b) \in Seq(Int)
    BY <1>1
  <2>4. CountTokens(c) = Sum(sizes(c)) /\ CountTokens(a) = Sum(sizes(a)) /\ CountTokens(b) = Sum(sizes(b))
    BY DEF CountTokens
  <2>. HIDE DEF sizes
  <2>5. CountTokens(c) = CountTokens(a) + CountTokens(b)
    BY <2>2, <2>3, <2>4, SumOfJoined
  <2>. QED
    BY <2>5 DEF c
<1>4. ASSUME NEW p \in Piece
      PROVE  CountTokens(<<p>>) = p.size
  <2>1. sizes(<<p>>) = <<p.size>> /\ p.size \in Int
    BY DEF Piece
  <2>. QED
    BY <2>1, SumOfOne DEF CountTokens
<1>5. CountTokens(<<>>) = 0
  <2>1. sizes(<<>>) = <<>>
    OBVIOUS
  <2>. QED
    BY <2>1, SumOfNone DEF CountTokens
<1>. QED
  BY <1>2, <1>3, <1>4, <1>5

\* The text of some lines has all of them.
LEMMA TextOfHolds ==
    ASSUME NEW lines \in Seq(Line)
    PROVE  /\ TextOf(lines) \in Seq(Piece) /\ Len(TextOf(lines)) = Len(lines)
           /\ Ids(TextOf(lines)) = {lines[i].start : i \in DOMAIN lines}
           /\ TextOf(lines) = <<>> <=> lines = <<>>
<1>1. Len(lines) \in Nat /\ DOMAIN lines = 1..Len(lines)
  OBVIOUS
<1>2. \A i \in DOMAIN lines : [id |-> lines[i].start, size |-> lines[i].size] \in Piece
  <2>1. \A i \in DOMAIN lines : lines[i] \in Line
    OBVIOUS
  <2>. QED
    BY <2>1 DEF Line, Piece
<1>3. TextOf(lines) \in Seq(Piece) /\ Len(TextOf(lines)) = Len(lines)
      /\ \A i \in DOMAIN lines : TextOf(lines)[i].id = lines[i].start
  BY <1>1, <1>2 DEF TextOf
<1>4. DOMAIN TextOf(lines) = DOMAIN lines
  BY DEF TextOf
<1>. QED
  BY <1>1, <1>3, <1>4 DEF Ids

-----------------------------------------------------------------------------
(* Chunks: splitting a text *)

\* What a text is taken apart into: only a single sentence may be too long.
Unit(u) == u \in Seq(Piece) /\ u # <<>> /\ (CountTokens(u) > MaxTokens => Len(u) = 1)

Units == {u \in Seq(Piece) : Unit(u)}

\* A text of a single piece.
LEMMA IdsOfOne ==
    ASSUME NEW p \in Piece
    PROVE  <<p>> \in Seq(Piece) /\ Ids(<<p>>) = {p.id} /\ CountTokens(<<p>>) = p.size
<1>1. <<p>> \in Seq(Piece) /\ DOMAIN <<p>> = {1} /\ <<p>>[1] = p
  OBVIOUS
<1>2. Ids(<<p>>) = {p.id}
  BY <1>1 DEF Ids
<1>. QED
  BY <1>1, <1>2, CountHolds

\* The units of a text hold its lines, and nothing else.
LEMMA SplitUnitsHold ==
    ASSUME NEW text \in Seq(Piece)
    PROVE  /\ SplitUnits(text) \in Seq(Units)
           /\ \A k \in DOMAIN SplitUnits(text) : Ids(SplitUnits(text)[k]) \subseteq Ids(text)
           /\ \A id \in Ids(text) : \E k \in DOMAIN SplitUnits(text) : id \in Ids(SplitUnits(text)[k])
           /\ text # <<>> => SplitUnits(text) # <<>>
<1>1. CountTokens(text) \in Int /\ TargetTokens \in Nat /\ MaxTokens \in Nat /\ TargetTokens <= MaxTokens
  BY CountHolds, ConfigHolds
<1>2. CASE text = <<>>
  <2>1. SplitUnits(text) = <<>> /\ Ids(text) = {}
    BY <1>2 DEF SplitUnits, Ids
  <2>2. <<>> \in Seq(Units) /\ DOMAIN <<>> = {}
    OBVIOUS
  <2>. QED
    BY <1>2, <2>1, <2>2
<1>3. CASE text # <<>> /\ CountTokens(text) <= TargetTokens
  <2>1. SplitUnits(text) = <<text>>
    BY <1>3 DEF SplitUnits
  <2>2. text \in Units
    BY <1>1, <1>3 DEF Units, Unit
  <2>3. <<text>> \in Seq(Units) /\ DOMAIN <<text>> = {1} /\ <<text>>[1] = text /\ <<text>> # <<>>
    BY <2>2
  <2>. QED
    BY <2>1, <2>3
<1>4. CASE text # <<>> /\ ~(CountTokens(text) <= TargetTokens)
  <2>. DEFINE units == [i \in DOMAIN text |-> <<text[i]>>]
  <2>1. SplitUnits(text) = units
    BY <1>4 DEF SplitUnits
  <2>2. Len(text) \in Nat /\ DOMAIN text = 1..Len(text) /\ DOMAIN units = DOMAIN text
    OBVIOUS
  <2>3. \A i \in DOMAIN text : text[i] \in Piece
    OBVIOUS
  <2>4. ASSUME NEW i \in DOMAIN text
        PROVE  units[i] \in Units /\ Ids(units[i]) = {text[i].id}
    <3>1. <<text[i]>> \in Seq(Piece) /\ Ids(<<text[i]>>) = {text[i].id}
      BY <2>3, IdsOfOne
    <3>2. Len(<<text[i]>>) = 1 /\ <<text[i]>> # <<>> /\ units[i] = <<text[i]>>
      OBVIOUS
    <3>. QED
      BY <3>1, <3>2 DEF Units, Unit
  <2>5. units \in Seq(Units) /\ units # <<>>
    <3>1. \A i \in 1..Len(text) : units[i] \in Units
      BY <2>2, <2>4
    <3>2. units \in [1..Len(text) -> Units]
      BY <2>2, <3>1
    <3>3. 1 \in DOMAIN units
      BY <1>4, <2>2
    <3>. HIDE DEF units
    <3>. QED
      BY <2>2, <3>2, <3>3
  <2>. HIDE DEF units
  <2>6. \A k \in DOMAIN units : Ids(units[k]) \subseteq Ids(text)
    <3>1. \A i \in DOMAIN text : text[i].id \in Ids(text)
      BY DEF Ids
    <3>. QED
      BY <2>2, <2>4, <3>1
  <2>7. \A id \in Ids(text) : \E k \in DOMAIN units : id \in Ids(units[k])
    <3>1. \A id \in Ids(text) : \E i \in DOMAIN text : id = text[i].id
      BY DEF Ids
    <3>. QED
      BY <2>2, <2>4, <3>1
  <2>. QED
    BY <2>1, <2>5, <2>6, <2>7
<1>. QED
  BY <1>2, <1>3, <1>4

\* A sentence cut by its words stays the same line, in pieces within the target.
LEMMA HardSplitHolds ==
    ASSUME NEW u \in Units, CountTokens(u) > MaxTokens
    PROVE  /\ HardSplit(u) \in Seq(Seq(Piece)) /\ HardSplit(u) # <<>>
           /\ \A k \in DOMAIN HardSplit(u) : /\ Ids(HardSplit(u)[k]) = Ids(u)
                                             /\ CountTokens(HardSplit(u)[k]) <= TargetTokens
<1>. DEFINE size == CountTokens(u)
            n == (size + TargetTokens - 1) \div TargetTokens
            left(k) == size - (k - 1) * TargetTokens
            piece(k) == [id |-> u[1].id, size |-> Min({TargetTokens, left(k)})]
            pieces == HardSplit(u)
<1>1. u \in Seq(Piece) /\ u # <<>> /\ Len(u) = 1
  BY DEF Units, Unit
<1>2. size \in Int /\ TargetTokens \in Nat \ {0} /\ MaxTokens \in Nat /\ TargetTokens <= MaxTokens
  BY <1>1, CountHolds, ConfigHolds
<1>3. u[1] \in Piece /\ u[1].id \in Int /\ Ids(u) = {u[1].id}
  <2>1. u[1] \in Piece /\ DOMAIN u = {1}
    BY <1>1
  <2>. QED
    BY <2>1 DEF Piece, Ids
<1>4. n \in Nat /\ n >= 1
  <2>. DEFINE a == size + TargetTokens - 1
              b == TargetTokens
  <2>1. a \in Nat /\ b \in Nat \ {0} /\ a >= b
    BY <1>2
  <2>. HIDE DEF a, b
  <2>2. a \div b \in Nat /\ a \div b >= 1
    BY <2>1
  <2>. QED
    BY <2>2 DEF a, b
<1>5. pieces = [k \in 1..n |-> <<piece(k)>>]
  BY DEF HardSplit
<1>. HIDE DEF n, pieces
<1>6. ASSUME NEW k \in 1..n
      PROVE  pieces[k] \in Seq(Piece) /\ Ids(pieces[k]) = Ids(u) /\ CountTokens(pieces[k]) <= TargetTokens
  <2>1. left(k) \in Int
    <3>1. k - 1 \in Int
      BY <1>4
    <3>2. (k - 1) * TargetTokens \in Int
      BY <1>2, <3>1
    <3>. HIDE DEF size
    <3>. QED
      BY <1>2, <3>2
  <2>2. Min({TargetTokens, left(k)}) \in Int /\ Min({TargetTokens, left(k)}) <= TargetTokens
    <3>. HIDE DEF left
    <3>. QED
      BY <1>2, <2>1, MinOfTwo
  <2>3. piece(k) \in Piece /\ piece(k).id = u[1].id /\ piece(k).size <= TargetTokens
    <3>. HIDE DEF left
    <3>. QED
      BY <1>3, <2>2 DEF Piece
  <2>4. pieces[k] = <<piece(k)>>
    BY <1>5
  <2>. HIDE DEF piece
  <2>. QED
    BY <1>3, <2>3, <2>4, IdsOfOne
<1>7. DOMAIN pieces = 1..n
  BY <1>5
<1>8. pieces \in Seq(Seq(Piece)) /\ pieces # <<>>
  <2>1. pieces = [k \in 1..n |-> pieces[k]]
    BY <1>5
  <2>2. pieces \in [1..n -> Seq(Piece)] /\ 1 \in DOMAIN pieces
    BY <1>4, <1>6, <1>7, <2>1
  <2>. QED
    BY <1>4, <1>7, <2>2
<1>. QED
  BY <1>6, <1>7, <1>8 DEF pieces

\* What is left over of a buffer: some of its units, no longer than the longest.
LEMMA OverlapHolds ==
    ASSUME NEW buffer \in Seq(Units), buffer # <<>>, \A b \in DOMAIN buffer : CountTokens(buffer[b]) <= MaxTokens
    PROVE  /\ OverlapTail(buffer) \in Seq(Units)
           /\ \A k \in DOMAIN OverlapTail(buffer) : \E b \in DOMAIN buffer : OverlapTail(buffer)[k] = buffer[b]
           /\ CountTokens(Flat(OverlapTail(buffer))) <= MaxTokens
<1>1. MaxTokens \in Nat /\ OverlapTokens \in Nat /\ OverlapTokens <= MaxTokens
  BY ConfigHolds
<1>2. CASE OverlapTokens = 0
  <2>1. OverlapTail(buffer) = <<>>
    BY <1>2 DEF OverlapTail
  <2>2. CountTokens(Flat(<<>>)) = 0
    BY FlattenOfNone, CountHolds DEF Flat
  <2>. QED
    BY <1>1, <2>1, <2>2
<1>3. CASE OverlapTokens # 0
  <2>. DEFINE n == Len(buffer)
              tail(k) == SubSeq(buffer, k, n)
              fits(k) == k = n \/ CountTokens(Flat(tail(k))) <= OverlapTokens
              T == {k \in DOMAIN buffer : fits(k)}
              m == Min(T)
  <2>1. n \in Nat /\ n # 0 /\ DOMAIN buffer = 1..n
    OBVIOUS
  <2>2. OverlapTail(buffer) = tail(m)
    BY <1>3 DEF OverlapTail
  <2>3. m \in T
    <3>1. T \subseteq Nat /\ n \in T
      BY <2>1
    <3>. HIDE DEF T
    <3>. QED
      BY <3>1, MinHolds
  <2>4. fits(m)
    BY <2>3
  <2>7. m \in 1..n
    BY <2>1, <2>3
  <2>. HIDE DEF m, T, n
  <2>5. tail(m) \in Seq(Units) /\ \A i \in DOMAIN tail(m) : m + i - 1 \in DOMAIN buffer /\ tail(m)[i] = buffer[m + i - 1]
    <3>1. m \in 1..(Len(buffer) + 1) /\ n \in (m - 1)..Len(buffer)
      BY <2>1, <2>7 DEF n
    <3>. QED
      BY <3>1, PartHolds
  <2>6. CountTokens(Flat(tail(m))) <= MaxTokens
    <3>1. CASE m = n
      <4>1. tail(n) = <<buffer[n]>>
        <5>1. n \in 1..(Len(buffer) + 1) /\ n \in (n - 1)..Len(buffer) /\ n \in n..n /\ n - n + 1 = 1
          BY <2>1 DEF n
        <5>2. tail(n) \in Seq(Units) /\ Len(tail(n)) = 1 /\ tail(n)[1] = buffer[n]
          <6>1. /\ tail(n) \in Seq(Units) /\ Len(tail(n)) = n - n + 1
                /\ \A j \in n..n : tail(n)[j - n + 1] = buffer[j]
            BY <5>1, PartHolds
          <6>. HIDE DEF tail
          <6>. QED
            BY <5>1, <6>1
        <5>. HIDE DEF tail
        <5>. QED
          BY <5>2
      <4>2. buffer[n] \in Seq(Piece)
        BY <2>1 DEF Units
      <4>3. Flat(tail(n)) = buffer[n]
        BY <4>1, <4>2, FlattenOfOne DEF Flat
      <4>. QED
        BY <2>1, <3>1, <4>3
    <3>2. CASE CountTokens(Flat(tail(m))) <= OverlapTokens
      <4>1. CountTokens(Flat(tail(m))) \in Int
        <5>1. tail(m) \in Seq(Seq(Piece))
          <6>. HIDE DEF tail
          <6>1. Units \subseteq Seq(Piece)
            BY DEF Units
          <6>. QED
            BY <2>5, <6>1
        <5>. HIDE DEF tail
        <5>. QED
          BY <5>1, FlattenedHolds, CountHolds DEF Flat
      <4>. HIDE DEF tail
      <4>. QED
        BY <1>1, <3>2, <4>1
    <3>. QED
      BY <2>4, <3>1, <3>2
  <2>. HIDE DEF tail
  <2>. QED
    BY <2>2, <2>5, <2>6
<1>. QED
  BY <1>2, <1>3

\* A chunk of a text, before any is merged with another.
Slice(c, text, ref, headings) ==
    /\ c \in ChunkRecord /\ c.type = "prose" /\ c.section = ref /\ c.headings = headings /\ ~c.child
    /\ c.tokens = CountTokens(c.text) /\ c.tokens <= 2 * MaxTokens /\ Ids(c.text) \subseteq Ids(text)

AllIds(list) == UNION {Ids(list[k].text) : k \in DOMAIN list}

UnitIds(buffer) == UNION {Ids(buffer[b]) : b \in DOMAIN buffer}

\* What the first n units come to: chunks, and what waits to be one.
Sliced(split, units, n, text, ref, headings) ==
    /\ split \in [chunks : Seq(ChunkRecord), buffer : Seq(Units)]
    /\ \A k \in DOMAIN split.chunks : Slice(split.chunks[k], text, ref, headings)
    /\ \A b \in DOMAIN split.buffer : CountTokens(split.buffer[b]) <= MaxTokens
    /\ UnitIds(split.buffer) \subseteq Ids(text)
    /\ CountTokens(Flat(split.buffer)) <= 2 * MaxTokens
    /\ \A k \in 1..n : Ids(units[k]) \subseteq AllIds(split.chunks) \union UnitIds(split.buffer)

\* The units of a buffer, joined to the text of a chunk.
LEMMA UnitsFlattened ==
    ASSUME NEW buffer \in Seq(Units)
    PROVE  /\ Flat(buffer) \in Seq(Piece) /\ Ids(Flat(buffer)) = UnitIds(buffer)
           /\ CountTokens(Flat(buffer)) \in Int
           /\ \A u \in Units : CountTokens(Flat(Append(buffer, u))) = CountTokens(Flat(buffer)) + CountTokens(u)
           /\ \A u \in Units : UnitIds(Append(buffer, u)) = UnitIds(buffer) \union Ids(u)
<1>1. buffer \in Seq(Seq(Piece))
  <2>1. Units \subseteq Seq(Piece)
    BY DEF Units
  <2>. QED
    BY <2>1
<1>2. Flat(buffer) \in Seq(Piece) /\ ToSet(Flat(buffer)) = UNION {ToSet(buffer[i]) : i \in DOMAIN buffer}
  BY <1>1, FlattenedHolds DEF Flat
<1>3. Ids(Flat(buffer)) = UnitIds(buffer)
  <2>1. Ids(Flat(buffer)) = {x.id : x \in ToSet(Flat(buffer))}
    BY IdsOf
  <2>2. \A b \in DOMAIN buffer : Ids(buffer[b]) = {x.id : x \in ToSet(buffer[b])}
    BY IdsOf
  <2>. QED
    BY <1>2, <2>1, <2>2 DEF UnitIds
<1>4. ASSUME NEW u \in Units
      PROVE  /\ CountTokens(Flat(Append(buffer, u))) = CountTokens(Flat(buffer)) + CountTokens(u)
             /\ UnitIds(Append(buffer, u)) = UnitIds(buffer) \union Ids(u)
  <2>1. u \in Seq(Piece)
    BY DEF Units
  <2>2. Flat(Append(buffer, u)) = Flat(buffer) \o u
    BY <1>1, <2>1, FlattenOfMore DEF Flat
  <2>3. CountTokens(Flat(buffer) \o u) = CountTokens(Flat(buffer)) + CountTokens(u)
    BY <1>2, <2>1, CountHolds
  <2>4. UnitIds(Append(buffer, u)) = UnitIds(buffer) \union Ids(u)
    <3>. DEFINE more == Append(buffer, u)
                n == Len(buffer)
    <3>1. n \in Nat /\ DOMAIN buffer = 1..n /\ DOMAIN more = 1..(n + 1) /\ more[n + 1] = u
          /\ \A i \in 1..n : more[i] = buffer[i]
      OBVIOUS
    <3>. HIDE DEF more, n
    <3>2. \A i \in 1..(n + 1) : i \in 1..n \/ i = n + 1
      BY <3>1
    <3>3. n + 1 \in 1..(n + 1) /\ \A i \in 1..n : i \in 1..(n + 1)
      BY <3>1
    <3>4. UnitIds(more) = UnitIds(buffer) \union Ids(u)
      BY <3>1, <3>2, <3>3 DEF UnitIds
    <3>. QED
      BY <3>4 DEF more
  <2>. QED
    BY <2>2, <2>3, <2>4
<1>. QED
  BY <1>2, <1>3, <1>4, CountHolds

\* The lines of some chunks and one more.
LEMMA AllIdsOfMore ==
    ASSUME NEW list \in Seq(ChunkRecord), NEW c \in ChunkRecord
    PROVE  AllIds(Append(list, c)) = AllIds(list) \union Ids(c.text)
<1>. DEFINE more == Append(list, c)
            n == Len(list)
<1>1. n \in Nat /\ DOMAIN list = 1..n /\ DOMAIN more = 1..(n + 1) /\ more[n + 1] = c
      /\ \A i \in 1..n : more[i] = list[i]
  OBVIOUS
<1>. HIDE DEF more, n
<1>2. \A i \in 1..(n + 1) : i \in 1..n \/ i = n + 1
  BY <1>1
<1>3. n + 1 \in 1..(n + 1) /\ \A i \in 1..n : i \in 1..(n + 1)
  BY <1>1
<1>4. AllIds(more) = AllIds(list) \union Ids(c.text)
  BY <1>1, <1>2, <1>3 DEF AllIds
<1>. QED
  BY <1>4 DEF more

\* A chunk of prose has the text and the section it is made with.
LEMMA ProseHolds ==
    ASSUME NEW part \in Seq(Piece), NEW ref \in Reference, NEW headings \in Nat
    PROVE  /\ Prose(part, ref, headings) \in ChunkRecord
           /\ Prose(part, ref, headings).text = part
           /\ Prose(part, ref, headings).tokens = CountTokens(part)
           /\ Prose(part, ref, headings).type = "prose"
           /\ Prose(part, ref, headings).section = ref
           /\ Prose(part, ref, headings).headings = headings
           /\ ~Prose(part, ref, headings).child
<1>1. CountTokens(part) \in Int
  BY CountHolds
<1>2. ref.first \in Nat /\ ref.last \in Nat
  BY DEF Reference
<1>. QED
  BY <1>1, <1>2 DEF Prose, TextChunk, ChunkRecord

\* Closing the open chunk loses nothing.
LEMMA FlushHolds ==
    ASSUME NEW text \in Seq(Piece), NEW ref \in Reference, NEW headings \in Nat, NEW n \in Nat, NEW units,
           NEW split, Sliced(split, units, n, text, ref, headings)
    PROVE  /\ Sliced(Flush(split, ref, headings), units, n, text, ref, headings)
           /\ Flush(split, ref, headings).buffer = <<>>
<1>. DEFINE old == split.chunks
            buffer == split.buffer
            c == Prose(Flat(buffer), ref, headings)
            new == Append(old, c)
<1>1. old \in Seq(ChunkRecord) /\ buffer \in Seq(Units)
  BY DEF Sliced
<1>2. CASE buffer = <<>>
  BY <1>2 DEF Flush
<1>3. CASE buffer # <<>>
  <2>1. Flush(split, ref, headings) = [chunks |-> new, buffer |-> <<>>]
    BY <1>3 DEF Flush
  <2>2. Flat(buffer) \in Seq(Piece) /\ Ids(Flat(buffer)) = UnitIds(buffer)
    <3>. HIDE DEF buffer
    <3>. QED
      BY <1>1, UnitsFlattened
  <2>3. CountTokens(Flat(buffer)) <= 2 * MaxTokens /\ UnitIds(buffer) \subseteq Ids(text)
    BY DEF Sliced
  <2>. HIDE DEF buffer
  <2>4. c \in ChunkRecord /\ Slice(c, text, ref, headings) /\ c.text = Flat(buffer)
    <3>1. /\ c \in ChunkRecord /\ c.text = Flat(buffer) /\ c.tokens = CountTokens(Flat(buffer)) /\ c.type = "prose"
          /\ c.section = ref /\ c.headings = headings /\ ~c.child
      <4>. DEFINE part == Flat(buffer)
      <4>1. part \in Seq(Piece) /\ c = Prose(part, ref, headings)
        BY <2>2
      <4>. HIDE DEF part, c
      <4>2. /\ c \in ChunkRecord /\ c.text = part /\ c.tokens = CountTokens(part) /\ c.type = "prose"
            /\ c.section = ref /\ c.headings = headings /\ ~c.child
        BY <4>1, ProseHolds
      <4>. QED
        BY <4>2 DEF part
    <3>. HIDE DEF c
    <3>. QED
      BY <2>2, <2>3, <3>1 DEF Slice
  <2>. HIDE DEF c
  <2>5. new \in Seq(ChunkRecord) /\ DOMAIN new = 1..(Len(old) + 1) /\ DOMAIN old = 1..Len(old) /\ Len(old) \in Nat
        /\ (\A k \in 1..Len(old) : new[k] = old[k]) /\ new[Len(old) + 1] = c
    <3>. HIDE DEF old
    <3>. QED
      BY <1>1, <2>4
  <2>6. AllIds(new) = AllIds(old) \union UnitIds(buffer)
    <3>. HIDE DEF old
    <3>. QED
      BY <1>1, <2>2, <2>4, AllIdsOfMore
  <2>7. \A k \in DOMAIN old : Slice(old[k], text, ref, headings)
    BY DEF Sliced
  <2>8. \A k \in 1..n : Ids(units[k]) \subseteq AllIds(old) \union UnitIds(buffer)
    BY DEF Sliced, buffer
  <2>. HIDE DEF new, old
  <2>9. \A k \in DOMAIN new : Slice(new[k], text, ref, headings)
    <3>1. \A k \in DOMAIN new : k \in DOMAIN old \/ k = Len(old) + 1
      BY <2>5
    <3>. QED
      BY <2>4, <2>5, <2>7, <3>1
  <2>10. UnitIds(<<>>) = {} /\ CountTokens(Flat(<<>>)) = 0 /\ <<>> \in Seq(Units) /\ DOMAIN <<>> = {}
    BY FlattenOfNone, CountHolds DEF UnitIds, Flat
  <2>11. MaxTokens \in Nat
    BY ConfigHolds
  <2>. DEFINE flushed == [chunks |-> new, buffer |-> <<>>]
  <2>12. flushed.chunks = new /\ flushed.buffer = <<>> /\ flushed \in [chunks : Seq(ChunkRecord), buffer : Seq(Units)]
    BY <2>5, <2>10
  <2>. HIDE DEF flushed
  <2>13. \A k \in 1..n : Ids(units[k]) \subseteq AllIds(new) \union UnitIds(<<>>)
    BY <2>6, <2>8
  <2>14. Sliced(flushed, units, n, text, ref, headings)
    BY <2>9, <2>10, <2>11, <2>12, <2>13 DEF Sliced
  <2>. QED
    BY <2>1, <2>12, <2>14 DEF flushed
<1>. QED
  BY <1>2, <1>3

\* Taking a unit keeps Sliced, be it too long, too much for the open chunk, or not.
LEMMA UnitTaken ==
    ASSUME NEW text \in Seq(Piece), NEW ref \in Reference, NEW headings \in Nat, NEW n \in Nat,
           NEW units \in Seq(Units), n + 1 \in DOMAIN units, Ids(units[n + 1]) \subseteq Ids(text),
           NEW split, Sliced(split, units, n, text, ref, headings)
    PROVE  Sliced(TakeUnit(split, units[n + 1], ref, headings), units, n + 1, text, ref, headings)
<1>. DEFINE unit == units[n + 1]
            flushed == Flush(split, ref, headings)
            old == flushed.chunks
            buffer == split.buffer
<1>1. unit \in Units /\ unit \in Seq(Piece) /\ Ids(unit) \subseteq Ids(text) /\ CountTokens(unit) \in Int
  <2>1. unit \in Units
    OBVIOUS
  <2>2. unit \in Seq(Piece)
    BY <2>1 DEF Units
  <2>. HIDE DEF unit
  <2>. QED
    BY <2>1, <2>2, CountHolds DEF unit
<1>2. MaxTokens \in Nat /\ TargetTokens \in Nat /\ TargetTokens <= MaxTokens
  BY ConfigHolds
<1>3. Sliced(flushed, units, n, text, ref, headings) /\ flushed.buffer = <<>>
  BY FlushHolds
<1>. HIDE DEF flushed
<1>4. old \in Seq(ChunkRecord) /\ \A k \in DOMAIN old : Slice(old[k], text, ref, headings)
  BY <1>3 DEF Sliced
<1>5. \A k \in 1..n : Ids(units[k]) \subseteq AllIds(old)
  <2>1. UnitIds(<<>>) = {}
    BY DEF UnitIds
  <2>. QED
    BY <1>3, <2>1 DEF Sliced
<1>6. \A k \in 1..(n + 1) : k \in 1..n \/ units[k] = unit
  OBVIOUS
<1>7. buffer \in Seq(Units) /\ (\A b \in DOMAIN buffer : CountTokens(buffer[b]) <= MaxTokens)
      /\ UnitIds(buffer) \subseteq Ids(text) /\ CountTokens(Flat(buffer)) <= 2 * MaxTokens
  BY DEF Sliced
<1>. HIDE DEF unit, old
<1>8. CASE CountTokens(unit) > MaxTokens
  <2>. DEFINE pieces == HardSplit(unit)
              made == [k \in DOMAIN pieces |-> Prose(pieces[k], ref, headings)]
              new == old \o made
  <2>1. /\ pieces \in Seq(Seq(Piece)) /\ pieces # <<>>
        /\ \A k \in DOMAIN pieces : Ids(pieces[k]) = Ids(unit) /\ CountTokens(pieces[k]) <= TargetTokens
    BY <1>1, <1>8, HardSplitHolds
  <2>. HIDE DEF pieces
  <2>2. TakeUnit(split, unit, ref, headings) = [flushed EXCEPT !.chunks = new]
    BY <1>8 DEF TakeUnit, flushed, old, pieces
  <2>3. flushed \in [chunks : Seq(ChunkRecord), buffer : Seq(Units)]
    BY <1>3 DEF Sliced
  <2>4. ASSUME NEW k \in DOMAIN pieces
        PROVE  made[k] \in ChunkRecord /\ Slice(made[k], text, ref, headings) /\ Ids(made[k].text) = Ids(unit)
    <3>. DEFINE part == pieces[k]
    <3>1. part \in Seq(Piece) /\ Ids(part) = Ids(unit) /\ CountTokens(part) <= TargetTokens /\ CountTokens(part) \in Int
      BY <2>1, CountHolds
    <3>2. made[k] = Prose(part, ref, headings)
      OBVIOUS
    <3>. HIDE DEF part, made
    <3>3. /\ made[k] \in ChunkRecord /\ made[k].text = part /\ made[k].tokens = CountTokens(part)
          /\ made[k].type = "prose" /\ made[k].section = ref /\ made[k].headings = headings /\ ~made[k].child
      BY <3>1, <3>2, ProseHolds
    <3>. QED
      BY <1>1, <1>2, <3>1, <3>3 DEF Slice
  <2>5. made \in Seq(ChunkRecord) /\ DOMAIN made = DOMAIN pieces /\ 1 \in DOMAIN made
    <3>1. Len(pieces) \in Nat /\ DOMAIN pieces = 1..Len(pieces) /\ 1 \in DOMAIN pieces
      BY <2>1
    <3>2. made \in [1..Len(pieces) -> ChunkRecord]
      BY <2>4, <3>1
    <3>. QED
      BY <3>1, <3>2
  <2>. HIDE DEF made
  <2>6. /\ new \in Seq(ChunkRecord)
        /\ \A k \in DOMAIN new : (k \in DOMAIN old /\ new[k] = old[k]) \/ \E j \in DOMAIN made : new[k] = made[j]
        /\ \A k \in DOMAIN old : k \in DOMAIN new /\ new[k] = old[k]
        /\ \A j \in DOMAIN made : \E k \in DOMAIN new : new[k] = made[j]
    <3>1. /\ \A k \in DOMAIN new : (k \in DOMAIN old /\ new[k] = old[k])
                                   \/ (k - Len(old) \in DOMAIN made /\ new[k] = made[k - Len(old)])
          /\ \A j \in DOMAIN made : Len(old) + j \in DOMAIN new /\ new[Len(old) + j] = made[j]
      BY <1>4, <2>5
    <3>2. new \in Seq(ChunkRecord) /\ \A k \in DOMAIN old : k \in DOMAIN new /\ new[k] = old[k]
      BY <1>4, <2>5
    <3>. HIDE DEF new
    <3>. QED
      BY <3>1, <3>2
  <2>. HIDE DEF new
  <2>7. \A k \in DOMAIN new : Slice(new[k], text, ref, headings)
    BY <1>4, <2>4, <2>5, <2>6
  <2>8. AllIds(old) \subseteq AllIds(new) /\ Ids(unit) \subseteq AllIds(new)
    <3>1. AllIds(old) \subseteq AllIds(new)
      BY <2>6 DEF AllIds
    <3>2. PICK k \in DOMAIN new : new[k] = made[1]
      BY <2>5, <2>6
    <3>3. Ids(new[k].text) = Ids(unit)
      BY <2>4, <2>5, <3>2
    <3>. QED
      BY <3>1, <3>3 DEF AllIds
  <2>. DEFINE next == [flushed EXCEPT !.chunks = new]
  <2>9. next.chunks = new /\ next.buffer = <<>> /\ next \in [chunks : Seq(ChunkRecord), buffer : Seq(Units)]
    BY <1>3, <2>3, <2>6
  <2>10. UnitIds(<<>>) = {} /\ CountTokens(Flat(<<>>)) = 0 /\ DOMAIN <<>> = {}
    BY FlattenOfNone, CountHolds DEF UnitIds, Flat
  <2>. HIDE DEF next
  <2>11. \A k \in 1..(n + 1) : Ids(units[k]) \subseteq AllIds(new) \union UnitIds(<<>>)
    BY <1>5, <1>6, <2>8
  <2>12. Sliced(next, units, n + 1, text, ref, headings)
    BY <1>2, <2>7, <2>9, <2>10, <2>11 DEF Sliced
  <2>. QED
    BY <2>2, <2>12 DEF next, unit
<1>9. CASE CountTokens(unit) <= MaxTokens /\ buffer # <<>> /\ CountTokens(Flat(buffer)) + CountTokens(unit) > TargetTokens
  <2>. DEFINE tail == OverlapTail(buffer)
              left == Append(tail, unit)
              next == [chunks |-> old, buffer |-> left]
  <2>1. /\ tail \in Seq(Units) /\ CountTokens(Flat(tail)) <= MaxTokens
        /\ \A k \in DOMAIN tail : \E b \in DOMAIN buffer : tail[k] = buffer[b]
    <3>. HIDE DEF buffer
    <3>. QED
      BY <1>7, <1>9, OverlapHolds
  <2>2. TakeUnit(split, unit, ref, headings) = next
    BY <1>1, <1>2, <1>9 DEF TakeUnit, flushed, old
  <2>. HIDE DEF tail, buffer
  <2>3. /\ CountTokens(Flat(left)) = CountTokens(Flat(tail)) + CountTokens(unit)
        /\ CountTokens(Flat(tail)) \in Int /\ UnitIds(left) = UnitIds(tail) \union Ids(unit)
    BY <1>1, <2>1, UnitsFlattened
  <2>4. left \in Seq(Units) /\ \A k \in DOMAIN left : (k \in DOMAIN tail /\ left[k] = tail[k]) \/ left[k] = unit
    BY <1>1, <2>1
  <2>. HIDE DEF left
  <2>5. \A b \in DOMAIN left : CountTokens(left[b]) <= MaxTokens
    BY <1>7, <1>9, <2>1, <2>4
  <2>6. UnitIds(left) \subseteq Ids(text) /\ Ids(unit) \subseteq UnitIds(left)
    <3>1. UnitIds(tail) \subseteq UnitIds(buffer)
      BY <2>1 DEF UnitIds
    <3>. QED
      BY <1>1, <1>7, <2>3, <3>1
  <2>7. CountTokens(Flat(left)) <= 2 * MaxTokens
    BY <1>1, <1>2, <1>9, <2>1, <2>3
  <2>8. next.chunks = old /\ next.buffer = left /\ next \in [chunks : Seq(ChunkRecord), buffer : Seq(Units)]
    BY <1>4, <2>4
  <2>. HIDE DEF next
  <2>9. \A k \in 1..(n + 1) : Ids(units[k]) \subseteq AllIds(old) \union UnitIds(left)
    BY <1>5, <1>6, <2>6
  <2>10. Sliced(next, units, n + 1, text, ref, headings)
    BY <1>4, <2>5, <2>6, <2>7, <2>8, <2>9 DEF Sliced
  <2>. QED
    BY <2>2, <2>10 DEF unit
<1>10. CASE CountTokens(unit) <= MaxTokens /\ ~(buffer # <<>> /\ CountTokens(Flat(buffer)) + CountTokens(unit) > TargetTokens)
  <2>. DEFINE kept == split.chunks
              left == Append(buffer, unit)
              next == [split EXCEPT !.buffer = left]
  <2>1. TakeUnit(split, unit, ref, headings) = next
    BY <1>1, <1>2, <1>10 DEF TakeUnit
  <2>2. split \in [chunks : Seq(ChunkRecord), buffer : Seq(Units)] /\ \A k \in DOMAIN kept : Slice(kept[k], text, ref, headings)
    BY DEF Sliced
  <2>3. \A k \in 1..n : Ids(units[k]) \subseteq AllIds(kept) \union UnitIds(buffer)
    BY DEF Sliced
  <2>4. kept \in Seq(ChunkRecord)
    BY <2>2
  <2>. HIDE DEF kept, buffer
  <2>5. /\ CountTokens(Flat(left)) = CountTokens(Flat(buffer)) + CountTokens(unit)
        /\ CountTokens(Flat(buffer)) \in Int /\ UnitIds(left) = UnitIds(buffer) \union Ids(unit)
    BY <1>1, <1>7, UnitsFlattened
  <2>6. left \in Seq(Units) /\ \A k \in DOMAIN left : (k \in DOMAIN buffer /\ left[k] = buffer[k]) \/ left[k] = unit
    BY <1>1, <1>7
  <2>. HIDE DEF left
  <2>7. \A b \in DOMAIN left : CountTokens(left[b]) <= MaxTokens
    BY <1>7, <1>10, <2>6
  <2>8. UnitIds(left) \subseteq Ids(text)
    BY <1>1, <1>7, <2>5
  <2>9. CountTokens(Flat(left)) <= 2 * MaxTokens
    <3>1. CASE buffer = <<>>
      <4>1. CountTokens(Flat(buffer)) = 0
        BY <3>1, FlattenOfNone, CountHolds DEF Flat
      <4>. QED
        BY <1>1, <1>2, <1>10, <2>5, <4>1
    <3>2. CASE buffer # <<>>
      BY <1>1, <1>2, <1>10, <2>5, <3>2
    <3>. QED
      BY <3>1, <3>2
  <2>10. next.chunks = kept /\ next.buffer = left /\ next \in [chunks : Seq(ChunkRecord), buffer : Seq(Units)]
    BY <2>2, <2>6 DEF kept
  <2>. HIDE DEF next
  <2>11. \A k \in 1..(n + 1) : Ids(units[k]) \subseteq AllIds(kept) \union UnitIds(left)
    BY <1>6, <2>3, <2>5
  <2>12. Sliced(next, units, n + 1, text, ref, headings)
    BY <2>2, <2>7, <2>8, <2>9, <2>10, <2>11 DEF Sliced
  <2>. QED
    BY <2>1, <2>12 DEF unit
<1>. QED
  BY <1>1, <1>2, <1>8, <1>9, <1>10

\* The chunks of one text under one section.  Where there are children, the
\* first of the chunks is their parent, and has the whole text.
ChunksOf(out, text, ref, headings) ==
    /\ out \in Seq(ChunkRecord)
    /\ \A k \in DOMAIN out :
          /\ out[k].type # "table" /\ out[k].section = ref /\ out[k].headings = headings
          /\ out[k].tokens = CountTokens(out[k].text) /\ Ids(out[k].text) \subseteq Ids(text)
          /\ out[k].child => out[k].type = "prose" /\ Ids(text) \subseteq Ids(out[1].text)
          /\ out[k].type = "prose" => \/ out[k].tokens <= 2 * MaxTokens
                                      \/ out[k].tokens > MaxTokens /\ k < Len(out) /\ out[k + 1].child

\* A text cut into slices, none of which is lost.
LEMMA TextSliced ==
    ASSUME NEW text \in Seq(Piece), NEW ref \in Reference, NEW headings \in Nat
    PROVE  \E slices \in Seq(ChunkRecord) :
              /\ \A k \in DOMAIN slices : Slice(slices[k], text, ref, headings)
              /\ Ids(text) \subseteq AllIds(slices)
              /\ SplitText(text, ref, headings) =
                   IF EmitParents /\ Len(slices) > 1 /\ ref # NoSection
                   THEN WithParent(slices, text, ref, headings) ELSE slices
<1>. DEFINE units == SplitUnits(text)
            n == Len(units)
            base == [chunks |-> <<>>, buffer |-> <<>>]
            W == [chunks : Seq(ChunkRecord), buffer : Seq(Units)]
            Inv(v, k) == Sliced(v, units, k, text, ref, headings)
            take(v, k) == TakeUnit(v, units[k], ref, headings)
            next(f, k) == IF k = 0 THEN base ELSE TakeUnit(f[k - 1], units[k], ref, headings)
            Takes(f) == f = [k \in 0..n |-> next(f, k)]
            upTo == CHOOSE f : Takes(f)
            step == [p \in W \X (1..n) |-> take(p[1], p[2])]
            V == [k \in 0..n |-> {v \in W : Inv(v, k)}]
            slices == Flush(upTo[n], ref, headings).chunks
<1>1. units \in Seq(Units) /\ (\A k \in DOMAIN units : Ids(units[k]) \subseteq Ids(text))
      /\ \A id \in Ids(text) : \E k \in DOMAIN units : id \in Ids(units[k])
  BY SplitUnitsHold
<1>2. SplitText(text, ref, headings) = IF EmitParents /\ Len(slices) > 1 /\ ref # NoSection
                                       THEN WithParent(slices, text, ref, headings) ELSE slices
  BY DEF SplitText
<1>. HIDE DEF units
<1>3. n \in Nat /\ DOMAIN units = 1..n
  BY <1>1
<1>4. \A k \in 1..n : k \in 0..n /\ k - 1 \in 0..n /\ k # 0
  BY <1>3
<1>5. Inv(base, 0)
  <2>1. base \in W /\ base.chunks = <<>> /\ base.buffer = <<>> /\ DOMAIN <<>> = {}
    OBVIOUS
  <2>2. UnitIds(<<>>) = {} /\ CountTokens(Flat(<<>>)) = 0 /\ MaxTokens \in Nat
    BY FlattenOfNone, CountHolds, ConfigHolds DEF UnitIds, Flat
  <2>. HIDE DEF base
  <2>. QED
    BY <2>1, <2>2 DEF Sliced
<1>6. \A k \in 0..n : \A v : v \in V[k] <=> Inv(v, k)
  BY DEF Sliced
<1>7. ASSUME NEW k \in 1..n, NEW v, Inv(v, k - 1)
      PROVE  Inv(take(v, k), k)
  <2>1. k - 1 \in Nat /\ (k - 1) + 1 = k /\ k \in DOMAIN units /\ Ids(units[k]) \subseteq Ids(text)
    BY <1>1, <1>3
  <2>. HIDE DEF n
  <2>. DEFINE m == k - 1
  <2>2. m \in Nat /\ m + 1 = k /\ m + 1 \in DOMAIN units /\ Ids(units[m + 1]) \subseteq Ids(text)
    BY <2>1
  <2>3. Sliced(v, units, m, text, ref, headings)
    BY <1>7
  <2>. HIDE DEF m
  <2>4. Sliced(TakeUnit(v, units[m + 1], ref, headings), units, m + 1, text, ref, headings)
    BY <1>1, <2>2, <2>3, UnitTaken
  <2>. QED
    BY <2>2, <2>4
<1>8. \A k \in 1..n : \A v \in W : step[<<v, k>>] = take(v, k)
  OBVIOUS
<1>9. \A k \in 0..n : V[k] \subseteq W
  OBVIOUS
<1>. HIDE DEF n, W, V, step, base, Inv
<1>10. PICK g : Recurs(g, n, base, step) /\ \A k \in 0..n : g[k] \in V[k]
  <2>1. ASSUME NEW k \in 1..n, NEW v \in V[k - 1]
        PROVE  step[<<v, k>>] \in V[k]
    <3>1. v \in W /\ Inv(v, k - 1)
      BY <1>4, <1>6, <1>9
    <3>2. step[<<v, k>>] = take(v, k) /\ Inv(take(v, k), k)
      BY <1>7, <1>8, <3>1
    <3>. HIDE DEF take
    <3>. QED
      BY <1>4, <1>6, <3>2
  <2>2. base \in V[0]
    BY <1>3, <1>5, <1>6
  <2>. QED
    BY <1>3, <2>1, <2>2, RecursionWithin
<1>11. \E f : Takes(f)
  <2>1. \A k \in 0..n : k # 0 => step[<<g[k - 1], k>>] = take(g[k - 1], k)
    <3>1. \A k \in 0..n : k # 0 => k \in 1..n /\ k - 1 \in 0..n
      BY <1>3
    <3>2. \A k \in 0..n : g[k] \in W
      BY <1>9, <1>10
    <3>. HIDE DEF take
    <3>. QED
      BY <1>8, <3>1, <3>2
  <2>2. g = [k \in 0..n |-> IF k = 0 THEN base ELSE take(g[k - 1], k)]
    <3>. HIDE DEF take
    <3>. QED
      BY <1>10, <2>1 DEF Recurs
  <2>. QED
    BY <2>2
<1>12. Takes(upTo)
  <2>. HIDE DEF Takes
  <2>. QED
    BY <1>11
<1>13. \A k \in 0..n : upTo[k] = next(upTo, k)
  <2>. HIDE DEF upTo, next
  <2>. QED
    BY <1>12
<1>. HIDE DEF upTo
<1>14. upTo[0] = base /\ \A k \in 1..n : upTo[k] = take(upTo[k - 1], k)
  <2>1. 0 \in 0..n
    BY <1>3
  <2>. QED
    BY <1>4, <1>13, <2>1
<1>15. \A k \in 0..n : upTo[k] \in V[k]
  <2>1. ASSUME NEW k \in 1..n, upTo[k - 1] \in V[k - 1]
        PROVE  upTo[k] \in V[k]
    <3>1. Inv(upTo[k - 1], k - 1)
      BY <1>4, <1>6, <2>1
    <3>2. Inv(take(upTo[k - 1], k), k)
      BY <1>7, <3>1
    <3>. HIDE DEF take
    <3>. QED
      BY <1>4, <1>6, <1>14, <3>2
  <2>2. upTo[0] \in V[0]
    BY <1>3, <1>5, <1>6, <1>14
  <2>. QED
    BY <1>3, <2>1, <2>2, RecursionStays
<1>16. Sliced(upTo[n], units, n, text, ref, headings)
  BY <1>3, <1>6, <1>15 DEF Inv
<1>17. Sliced(Flush(upTo[n], ref, headings), units, n, text, ref, headings) /\ Flush(upTo[n], ref, headings).buffer = <<>>
  BY <1>3, <1>16, FlushHolds
<1>18. slices \in Seq(ChunkRecord) /\ \A k \in DOMAIN slices : Slice(slices[k], text, ref, headings)
  BY <1>17 DEF Sliced
<1>19. Ids(text) \subseteq AllIds(slices)
  <2>1. \A k \in 1..n : Ids(units[k]) \subseteq AllIds(slices) \union UnitIds(<<>>)
    BY <1>17 DEF Sliced
  <2>2. UnitIds(<<>>) = {}
    BY DEF UnitIds
  <2>. HIDE DEF slices
  <2>. QED
    BY <1>1, <1>3, <2>1, <2>2
<1>. HIDE DEF slices
<1>. QED
  BY <1>2, <1>18, <1>19

\* Split text is all there, in chunks of its section.
LEMMA SplitTextHolds ==
    ASSUME NEW text \in Seq(Piece), NEW ref \in Reference, NEW headings \in Nat,
           ref = NoSection \/ CountTokens(text) > MaxTokens
    PROVE  /\ ChunksOf(SplitText(text, ref, headings), text, ref, headings)
           /\ AllIds(SplitText(text, ref, headings)) = Ids(text)
<1>. DEFINE out == SplitText(text, ref, headings)
<1>1. PICK slices \in Seq(ChunkRecord) :
              /\ \A k \in DOMAIN slices : Slice(slices[k], text, ref, headings)
              /\ Ids(text) \subseteq AllIds(slices)
              /\ out = IF EmitParents /\ Len(slices) > 1 /\ ref # NoSection
                       THEN WithParent(slices, text, ref, headings) ELSE slices
  BY TextSliced
<1>. HIDE DEF out
<1>2. MaxTokens \in Nat
  BY ConfigHolds
<1>3. \A k \in DOMAIN slices : /\ slices[k].type = "prose" /\ slices[k].section = ref /\ slices[k].headings = headings
                               /\ ~slices[k].child /\ slices[k].tokens = CountTokens(slices[k].text)
                               /\ slices[k].tokens <= 2 * MaxTokens /\ Ids(slices[k].text) \subseteq Ids(text)
  BY <1>1 DEF Slice
<1>4. CASE ~(EmitParents /\ Len(slices) > 1 /\ ref # NoSection)
  <2>1. out = slices
    BY <1>1, <1>4
  <2>2. ChunksOf(slices, text, ref, headings)
    BY <1>1, <1>3 DEF ChunksOf
  <2>3. AllIds(slices) = Ids(text)
    BY <1>1, <1>3 DEF AllIds
  <2>. QED
    BY <2>1, <2>2, <2>3 DEF out
<1>5. CASE EmitParents /\ Len(slices) > 1 /\ ref # NoSection
  <2>. DEFINE parent == Prose(text, ref, headings)
              child(i) == [slices[i] EXCEPT !.child = TRUE]
              children == [i \in DOMAIN slices |-> child(i)]
              n == Len(slices)
  <2>1. out = <<parent>> \o children
    BY <1>1, <1>5 DEF WithParent
  <2>2. /\ parent \in ChunkRecord /\ parent.text = text /\ parent.tokens = CountTokens(text) /\ parent.type = "prose"
        /\ parent.section = ref /\ parent.headings = headings /\ ~parent.child
    BY ProseHolds
  <2>. HIDE DEF parent
  <2>3. n \in Nat /\ n > 1 /\ DOMAIN slices = 1..n
    BY <1>5
  <2>4. ASSUME NEW i \in 1..n
        PROVE  /\ child(i) \in ChunkRecord /\ child(i).child /\ child(i).text = slices[i].text
               /\ child(i).type = "prose" /\ child(i).section = ref /\ child(i).headings = headings
               /\ child(i).tokens = CountTokens(slices[i].text) /\ child(i).tokens <= 2 * MaxTokens
               /\ Ids(child(i).text) \subseteq Ids(text)
    <3>1. slices[i] \in ChunkRecord
      BY <2>3
    <3>2. child(i) \in ChunkRecord /\ child(i).child
      BY <3>1 DEF ChunkRecord
    <3>3. child(i).text = slices[i].text /\ child(i).type = slices[i].type /\ child(i).section = slices[i].section
          /\ child(i).headings = slices[i].headings /\ child(i).tokens = slices[i].tokens
      BY <3>1 DEF ChunkRecord
    <3>. HIDE DEF child
    <3>. QED
      BY <1>3, <2>3, <3>2, <3>3
  <2>5. children \in Seq(ChunkRecord) /\ Len(children) = n /\ \A i \in 1..n : children[i] = child(i)
    <3>1. children = [i \in 1..n |-> child(i)]
      BY <2>3
    <3>. HIDE DEF child, children, n
    <3>. QED
      BY <2>3, <2>4, <3>1
  <2>. HIDE DEF children, child, n
  <2>6. /\ out \in Seq(ChunkRecord) /\ DOMAIN out = 1..(n + 1) /\ Len(out) = n + 1 /\ out[1] = parent
        /\ \A i \in 1..n : out[i + 1] = child(i)
    <3>1. /\ out \in Seq(ChunkRecord) /\ Len(out) = n + 1 /\ out[1] = parent
          /\ \A i \in 1..n : out[i + 1] = children[i]
      BY <2>1, <2>2, <2>3, <2>5
    <3>. QED
      BY <2>3, <2>5, <3>1
  <2>7. \A k \in 1..(n + 1) : k = 1 \/ (k - 1 \in 1..n /\ k = (k - 1) + 1)
    BY <2>3
  <2>8. 1 \in 1..n /\ 1 + 1 = 2 /\ 1 \in 1..(n + 1) /\ 1 < n + 1
    BY <2>3
  <2>9. out[1 + 1].child
    BY <2>4, <2>6, <2>8
  <2>10. parent.tokens > MaxTokens
    BY <1>5, <2>2
  <2>11. ASSUME NEW k \in DOMAIN out
         PROVE  /\ out[k].type # "table" /\ out[k].section = ref /\ out[k].headings = headings
                /\ out[k].tokens = CountTokens(out[k].text) /\ Ids(out[k].text) \subseteq Ids(text)
                /\ out[k].child => out[k].type = "prose" /\ Ids(text) \subseteq Ids(out[1].text)
                /\ out[k].type = "prose" => \/ out[k].tokens <= 2 * MaxTokens
                                            \/ out[k].tokens > MaxTokens /\ k < Len(out) /\ out[k + 1].child
    <3>1. CASE k = 1
      BY <2>2, <2>6, <2>8, <2>9, <2>10, <3>1
    <3>2. CASE k - 1 \in 1..n /\ k = (k - 1) + 1
      <4>1. out[k] = child(k - 1)
        BY <2>6, <3>2
      <4>. QED
        BY <2>2, <2>4, <2>6, <3>2, <4>1
    <3>. QED
      BY <2>6, <2>7, <3>1, <3>2
  <2>12. ChunksOf(out, text, ref, headings)
    BY <2>6, <2>11 DEF ChunksOf
  <2>13. AllIds(out) = Ids(text)
    <3>1. Ids(text) = Ids(out[1].text) /\ 1 \in DOMAIN out
      BY <2>2, <2>6, <2>8
    <3>2. Ids(text) \subseteq AllIds(out)
      BY <3>1 DEF AllIds
    <3>3. AllIds(out) \subseteq Ids(text)
      BY <2>11 DEF AllIds
    <3>. QED
      BY <3>2, <3>3
  <2>. QED
    BY <2>12, <2>13 DEF out
<1>. QED
  BY <1>4, <1>5

-----------------------------------------------------------------------------
(* Chunks: of a section *)

\* What a chunk carries as its citation.
LEMMA ReferenceHolds ==
    /\ \A s \in BuiltSection : Ref(s) \in Reference
    /\ NoSection \in Reference
<1>1. ASSUME NEW s \in BuiltSection
      PROVE  Ref(s) \in Reference
  BY DEF BuiltSection, Ref, Reference
<1>2. NoSection \in Reference
  <2>1. <<>> \in Label \union {<<>>} /\ <<>> \in Seq(Label) /\ "untitled" \in Reads
    BY DEF Reads
  <2>. QED
    BY <2>1 DEF NoSection, Reference
<1>. QED
  BY <1>1, <1>2

\* The lines of a list of definitions, apart from those before its first term.
LEMMA DefinitionChunksHold ==
    ASSUME NEW s \in BuiltSection
    PROVE  LET out == DefinitionChunks(s)
           IN  /\ ChunksOf(out, TextOf(s.body), Ref(s), 1)
               /\ out # <<>> /\ s.reads = "definitions" => Lists(s)
               /\ out # <<>> => \A x \in DOMAIN s.body :
                     \/ s.body[x].start \in AllIds(out)
                     \/ \A i \in DOMAIN s.body : s.body[i].reads = "term" => x < i
<1>. DEFINE body == s.body
            n == Len(body)
            T == {i \in DOMAIN body : body[i].reads = "term"}
            terms == Ascending(n, T)
            m == Len(terms)
            end(k) == IF k < m THEN terms[k + 1] - 1 ELSE n
            part(k) == SubSeq(body, terms[k], end(k))
            text(k) == TextOf(part(k))
            chunk(k) == TextChunk(text(k), CountTokens(text(k)), "definition", Ref(s), 1, FALSE)
            list == [k \in DOMAIN terms |-> chunk(k)]
            out == DefinitionChunks(s)
<1>1. body \in Seq(Line) /\ n \in Nat /\ DOMAIN body = 1..n
  BY DEF BuiltSection
<1>2. out = IF m < 2 THEN <<>> ELSE list
  BY DEF DefinitionChunks
<1>. HIDE DEF body, T, out
<1>3. terms \in Seq(1..n) /\ ToSet(terms) = T \intersect 1..n /\ \A i, j \in DOMAIN terms : i < j => terms[i] < terms[j]
  <2>. HIDE DEF n
  <2>. QED
    BY <1>1, AscendingHolds
<1>. HIDE DEF terms, n
<1>4. m \in Nat /\ DOMAIN terms = 1..m
  BY <1>3
<1>17. \A k \in DOMAIN terms : terms[k] \in 1..n
  <2>. DEFINE R == 1..n
  <2>1. terms \in Seq(R)
    BY <1>3
  <2>. HIDE DEF R
  <2>2. \A k \in DOMAIN terms : terms[k] \in R
    BY <2>1
  <2>. QED
    BY <2>2 DEF R
<1>. HIDE DEF m
<1>5. ASSUME NEW k \in 1..m
      PROVE  terms[k] \in 1..n /\ end(k) \in terms[k]..n
  <2>1. terms[k] \in 1..n
    BY <1>4, <1>17
  <2>2. CASE k < m
    <3>1. k + 1 \in 1..m /\ k < k + 1
      BY <1>4, <2>2
    <3>2. terms[k + 1] \in 1..n /\ terms[k] < terms[k + 1]
      BY <1>3, <1>4, <1>17, <3>1
    <3>. QED
      BY <1>1, <2>1, <2>2, <3>2
  <2>3. CASE ~(k < m)
    BY <1>1, <2>1, <2>3
  <2>. QED
    BY <2>1, <2>2, <2>3
<1>6. ASSUME NEW k \in 1..m
      PROVE  /\ part(k) \in Seq(Line)
             /\ \A i \in DOMAIN part(k) : \E x \in DOMAIN body : part(k)[i] = body[x]
             /\ \A x \in terms[k]..end(k) : \E i \in DOMAIN part(k) : part(k)[i] = body[x]
  <2>. DEFINE a == terms[k]
              b == end(k)
  <2>1. a \in 1..(Len(body) + 1) /\ b \in (a - 1)..Len(body)
    BY <1>1, <1>5 DEF n
  <2>2. part(k) = SubSeq(body, a, b)
    OBVIOUS
  <2>. HIDE DEF a, b
  <2>3. /\ SubSeq(body, a, b) \in Seq(Line)
        /\ \A i \in DOMAIN SubSeq(body, a, b) : a + i - 1 \in DOMAIN body /\ SubSeq(body, a, b)[i] = body[a + i - 1]
        /\ \A j \in a..b : j - a + 1 \in DOMAIN SubSeq(body, a, b) /\ SubSeq(body, a, b)[j - a + 1] = body[j]
    BY <1>1, <2>1, PartHolds
  <2>. HIDE DEF part
  <2>4. \A x \in a..b : \E i \in DOMAIN part(k) : part(k)[i] = body[x]
    BY <2>2, <2>3
  <2>. QED
    BY <2>2, <2>3, <2>4 DEF a, b
<1>. HIDE DEF part
<1>7. ASSUME NEW k \in 1..m
      PROVE  /\ text(k) \in Seq(Piece) /\ CountTokens(text(k)) \in Int
             /\ Ids(text(k)) \subseteq Ids(TextOf(body))
             /\ \A x \in terms[k]..end(k) : body[x].start \in Ids(text(k))
  <2>1. text(k) \in Seq(Piece) /\ Ids(text(k)) = {part(k)[i].start : i \in DOMAIN part(k)}
    BY <1>6, TextOfHolds
  <2>2. Ids(TextOf(body)) = {body[i].start : i \in DOMAIN body}
    BY <1>1, TextOfHolds
  <2>3. CountTokens(text(k)) \in Int
    BY <2>1, CountHolds
  <2>. HIDE DEF text, end
  <2>4. \A x \in terms[k]..end(k) : body[x].start \in Ids(text(k))
    BY <1>6, <2>1
  <2>5. Ids(text(k)) \subseteq Ids(TextOf(body))
    BY <1>6, <2>1, <2>2
  <2>. QED
    BY <2>1, <2>3, <2>4, <2>5
<1>. HIDE DEF text
<1>8. Ref(s) \in Reference /\ Ref(s).first \in Nat /\ Ref(s).last \in Nat
  <2>1. Ref(s) \in Reference
    BY ReferenceHolds
  <2>. QED
    BY <2>1 DEF Reference
<1>9. ASSUME NEW k \in 1..m
      PROVE  /\ chunk(k) \in ChunkRecord /\ chunk(k).text = text(k) /\ chunk(k).type = "definition"
             /\ chunk(k).section = Ref(s) /\ chunk(k).headings = 1 /\ ~chunk(k).child
             /\ chunk(k).tokens = CountTokens(text(k))
  <2>. DEFINE ref == Ref(s)
              t == text(k)
  <2>1. ref \in Reference /\ ref.first \in Nat /\ ref.last \in Nat /\ t \in Seq(Piece) /\ CountTokens(t) \in Int
    BY <1>7, <1>8
  <2>2. chunk(k) = TextChunk(t, CountTokens(t), "definition", ref, 1, FALSE)
    OBVIOUS
  <2>. HIDE DEF ref, t, chunk
  <2>3. /\ chunk(k) \in ChunkRecord /\ chunk(k).text = t /\ chunk(k).type = "definition"
        /\ chunk(k).section = ref /\ chunk(k).headings = 1 /\ ~chunk(k).child /\ chunk(k).tokens = CountTokens(t)
    BY <2>1, <2>2 DEF TextChunk, ChunkRecord
  <2>. QED
    BY <2>3 DEF ref, t
<1>. HIDE DEF chunk
<1>10. list \in Seq(ChunkRecord) /\ DOMAIN list = 1..m /\ \A k \in 1..m : list[k] = chunk(k)
  <2>1. list = [k \in 1..m |-> chunk(k)]
    BY <1>4
  <2>. HIDE DEF list
  <2>2. list \in [1..m -> ChunkRecord]
    BY <1>9, <2>1
  <2>. QED
    BY <1>4, <2>1, <2>2
<1>. HIDE DEF list
<1>11. ChunksOf(list, TextOf(body), Ref(s), 1)
  <2>1. ASSUME NEW k \in 1..m
        PROVE  /\ list[k].type = "definition" /\ list[k].section = Ref(s) /\ list[k].headings = 1
               /\ list[k].tokens = CountTokens(list[k].text) /\ Ids(list[k].text) \subseteq Ids(TextOf(body))
               /\ ~list[k].child
    BY <1>7, <1>9, <1>10
  <2>. QED
    BY <1>10, <2>1 DEF ChunksOf
<1>12. ASSUME NEW x \in DOMAIN body, NEW i \in DOMAIN body, body[i].reads = "term", ~(x < i)
       PROVE  body[x].start \in AllIds(list)
  <2>. DEFINE K == {k \in 1..m : terms[k] <= x}
              k == Max(K)
  <2>1. i \in T /\ i \in 1..n /\ x \in 1..n /\ i <= x
    BY <1>1, <1>12 DEF T
  <2>2. i \in ToSet(terms)
    BY <1>3, <2>1
  <2>3. PICK j \in 1..m : terms[j] = i
    BY <1>4, <2>2 DEF ToSet
  <2>4. k \in K /\ \A l \in K : l <= k
    <3>1. K \subseteq 0..m /\ K # {}
      BY <1>4, <2>1, <2>3
    <3>. HIDE DEF K
    <3>. QED
      BY <1>4, <3>1, MaxHolds
  <2>5. k \in 1..m /\ terms[k] <= x
    BY <2>4
  <2>. HIDE DEF k
  <2>6. k < m => x < terms[k + 1]
    <3>. SUFFICES ASSUME k < m
                  PROVE  x < terms[k + 1]
      OBVIOUS
    <3>1. k + 1 \in 1..m /\ ~(k + 1 <= k)
      BY <1>4, <2>5
    <3>2. k + 1 \notin K
      BY <2>4, <3>1
    <3>3. terms[k + 1] \in 1..n
      BY <1>5, <3>1
    <3>. QED
      BY <2>1, <3>1, <3>2, <3>3
  <2>7. x \in terms[k]..end(k)
    <3>1. terms[k] \in 1..n
      BY <1>5, <2>5
    <3>2. CASE k < m
      <4>1. end(k) = terms[k + 1] - 1 /\ k + 1 \in 1..m
        BY <1>4, <2>5, <3>2
      <4>2. terms[k + 1] \in 1..n
        BY <1>5, <4>1
      <4>. HIDE DEF end
      <4>. QED
        BY <2>1, <2>5, <2>6, <3>1, <3>2, <4>1, <4>2
    <3>3. CASE ~(k < m)
      BY <1>1, <2>1, <2>5, <3>1, <3>3
    <3>. QED
      BY <3>2, <3>3
  <2>8. body[x].start \in Ids(list[k].text) /\ k \in DOMAIN list
    BY <1>7, <1>9, <1>10, <2>5, <2>7
  <2>. QED
    BY <2>8 DEF AllIds
<1>13. ChunksOf(<<>>, TextOf(body), Ref(s), 1)
  BY DEF ChunksOf
<1>14. out = <<>> \/ out = list
  BY <1>2
<1>15. ChunksOf(out, TextOf(body), Ref(s), 1)
  BY <1>11, <1>13, <1>14
<1>16. out # <<>> => \A x \in DOMAIN body : \/ body[x].start \in AllIds(out)
                                            \/ \A i \in DOMAIN body : body[i].reads = "term" => x < i
  BY <1>12, <1>14
<1>18. ASSUME out # <<>>
       PROVE  \E i, j \in DOMAIN body : i # j /\ body[i].reads = "term" /\ body[j].reads = "term"
  <2>1. 1 \in 1..m /\ 2 \in 1..m
    BY <1>2, <1>4, <1>18
  <2>2. terms[1] \in ToSet(terms) /\ terms[2] \in ToSet(terms)
    BY <1>4, <2>1 DEF ToSet
  <2>3. terms[1] \in T /\ terms[2] \in T
    BY <1>3, <2>2
  <2>4. terms[1] < terms[2] /\ terms[1] \in Int /\ terms[2] \in Int
    BY <1>3, <1>4, <1>17, <2>1
  <2>. QED
    BY <2>3, <2>4 DEF T
<1>19. out # <<>> /\ s.reads = "definitions" => Lists(s)
  BY <1>18 DEF Lists, body
<1>. QED
  BY <1>15, <1>16, <1>19 DEF body, out

\* A section's chunks hold its body, but for what stands before the first definition.
LEMMA ChunkSectionHolds ==
    ASSUME NEW s \in BuiltSection
    PROVE  LET out == ChunkSection(s)
           IN  /\ ChunksOf(out, TextOf(s.body), Ref(s), 1)
               /\ s.body # <<>> => out # <<>>
               /\ \A x \in DOMAIN s.body :
                     \/ s.body[x].start \in AllIds(out)
                     \/ /\ Lists(s)
                        /\ \A i \in DOMAIN s.body : s.body[i].reads = "term" => x < i
<1>. DEFINE out == ChunkSection(s)
            text == TextOf(s.body)
            defined == DefinitionChunks(s)
            ref == Ref(s)
<1>1. s.body \in Seq(Line)
  BY DEF BuiltSection
<1>2. /\ text \in Seq(Piece) /\ Ids(text) = {s.body[i].start : i \in DOMAIN s.body}
      /\ text = <<>> <=> s.body = <<>>
  BY <1>1, TextOfHolds
<1>3. ref \in Reference
  BY ReferenceHolds
<1>4. /\ ChunksOf(defined, text, ref, 1)
      /\ defined # <<>> /\ s.reads = "definitions" => Lists(s)
      /\ defined # <<>> => \A x \in DOMAIN s.body :
            \/ s.body[x].start \in AllIds(defined)
            \/ \A i \in DOMAIN s.body : s.body[i].reads = "term" => x < i
  BY DefinitionChunksHold
<1>5. out = IF text = <<>> THEN <<>>
            ELSE IF SplitDefinitions /\ s.reads = "definitions" /\ defined # <<>> THEN defined
            ELSE IF CountTokens(text) <= MaxTokens THEN <<Prose(text, ref, 1)>>
            ELSE SplitText(text, ref, 1)
  BY DEF ChunkSection
<1>6. CountTokens(text) \in Int /\ MaxTokens \in Nat
  BY <1>2, CountHolds, ConfigHolds
<1>. HIDE DEF out, text, defined, ref
<1>7. \A x \in DOMAIN s.body : s.body[x].start \in Ids(text)
  BY <1>2
<1>8. CASE text = <<>>
  <2>1. out = <<>> /\ DOMAIN s.body = {} /\ s.body = <<>>
    BY <1>2, <1>5, <1>8
  <2>2. ChunksOf(<<>>, text, ref, 1)
    BY DEF ChunksOf
  <2>. QED
    BY <2>1, <2>2 DEF out, text, ref
<1>9. CASE text # <<>> /\ SplitDefinitions /\ s.reads = "definitions" /\ defined # <<>>
  <2>1. out = defined
    BY <1>5, <1>9
  <2>. QED
    BY <1>4, <1>9, <2>1 DEF out, text, ref
<1>10. CASE text # <<>> /\ ~(SplitDefinitions /\ s.reads = "definitions" /\ defined # <<>>) /\ CountTokens(text) <= MaxTokens
  <2>. DEFINE c == Prose(text, ref, 1)
  <2>1. out = <<c>>
    BY <1>5, <1>10
  <2>2. /\ c \in ChunkRecord /\ c.text = text /\ c.tokens = CountTokens(text) /\ c.type = "prose"
        /\ c.section = ref /\ c.headings = 1 /\ ~c.child
    BY <1>2, <1>3, ProseHolds
  <2>. HIDE DEF c
  <2>3. out \in Seq(ChunkRecord) /\ DOMAIN out = {1} /\ out[1] = c /\ out # <<>>
    BY <2>1, <2>2
  <2>4. c.tokens <= 2 * MaxTokens
    BY <1>6, <1>10, <2>2
  <2>5. ChunksOf(out, text, ref, 1)
    BY <2>2, <2>3, <2>4 DEF ChunksOf
  <2>6. Ids(text) \subseteq AllIds(out)
    BY <2>2, <2>3 DEF AllIds
  <2>. QED
    BY <1>7, <2>3, <2>5, <2>6 DEF out, text, ref
<1>11. CASE text # <<>> /\ ~(SplitDefinitions /\ s.reads = "definitions" /\ defined # <<>>) /\ ~(CountTokens(text) <= MaxTokens)
  <2>1. out = SplitText(text, ref, 1) /\ CountTokens(text) > MaxTokens
    BY <1>5, <1>6, <1>11
  <2>2. ChunksOf(out, text, ref, 1) /\ AllIds(out) = Ids(text)
    BY <1>2, <1>3, <2>1, SplitTextHolds
  <2>3. out # <<>>
    <3>1. 1 \in DOMAIN s.body
      BY <1>1, <1>2, <1>11
    <3>2. AllIds(out) # {}
      BY <1>7, <2>2, <3>1
    <3>. QED
      BY <3>2 DEF AllIds
  <2>. QED
    BY <1>7, <2>2, <2>3 DEF out, text, ref
<1>. QED
  BY <1>8, <1>9, <1>10, <1>11

-----------------------------------------------------------------------------
(* Chunks: of the tables *)

TableRecord == [page : Nat, sparse : BOOLEAN, text : Seq(Piece)]

\* A table is given one of the sections, or none.
LEMMA SectionForPageHolds ==
    ASSUME NEW list \in Seq(BuiltSection), NEW page \in Nat
    PROVE  \/ SectionForPage(list, page) = NoSection
           \/ \E i \in DOMAIN list : SectionForPage(list, page) = Ref(list[i])
<1>. DEFINE spanning == {i \in DOMAIN list : list[i].first <= page /\ page <= list[i].last}
            deepest == {i \in spanning : \A k \in spanning : list[k].level <= list[i].level}
            R == {p \in spanning \X spanning : list[p[1]].level < list[p[2]].level}
<1>1. SectionForPage(list, page) = IF spanning = {} THEN NoSection ELSE Ref(list[Min(deepest)])
  BY DEF SectionForPage
<1>2. spanning \subseteq DOMAIN list /\ DOMAIN list \subseteq Nat /\ \A i \in DOMAIN list : list[i].level \in Nat
  <2>1. \A i \in DOMAIN list : list[i] \in BuiltSection
    OBVIOUS
  <2>2. \A i \in DOMAIN list : list[i].level \in Nat
    BY <2>1 DEF BuiltSection
  <2>3. spanning \subseteq DOMAIN list /\ DOMAIN list \subseteq Nat
    OBVIOUS
  <2>. QED
    BY <2>2, <2>3
<1>3. IsFiniteSet(spanning)
  BY <1>2, MembersAreFinite, FS_Subset
<1>. HIDE DEF spanning
<1>4. spanning # {} => deepest # {}
  <2>. SUFFICES ASSUME spanning # {}
                PROVE  deepest # {}
    OBVIOUS
  <2>1. \A x \in spanning : <<x, x>> \notin R
    BY <1>2
  <2>2. \A x, y, z \in spanning : <<x, y>> \in R /\ <<y, z>> \in R => <<x, z>> \in R
    BY <1>2
  <2>3. PICK x \in spanning : \A y \in spanning : <<x, y>> \notin R
    <3>. HIDE DEF R
    <3>. QED
      BY <1>3, <2>1, <2>2, MaximalExists
  <2>4. ASSUME NEW k \in spanning
        PROVE  list[k].level <= list[x].level
    <3>1. ~(list[x].level < list[k].level)
      BY <2>3
    <3>2. list[x].level \in Nat /\ list[k].level \in Nat
      BY <1>2
    <3>. QED
      BY <3>1, <3>2
  <2>. QED
    BY <2>3, <2>4
<1>5. deepest \subseteq Nat /\ deepest \subseteq DOMAIN list
  BY <1>2
<1>. HIDE DEF deepest
<1>. QED
  BY <1>1, <1>4, <1>5, MinHolds

\* Every table that is not degenerate is a chunk, and every such chunk is a table.
LEMMA TableChunksHold ==
    ASSUME NEW given \in Seq(TableRecord), NEW list \in Seq(BuiltSection)
    PROVE  /\ TableChunks(given, list) \in Seq(ChunkRecord)
           /\ \A k \in DOMAIN TableChunks(given, list) :
                 /\ TableChunks(given, list)[k].type = "table" /\ ~TableChunks(given, list)[k].child
                 /\ \/ TableChunks(given, list)[k].section = NoSection
                    \/ \E i \in DOMAIN list : TableChunks(given, list)[k].section = Ref(list[i])
           /\ \A t \in DOMAIN given : given[t].sparse \/
                 \E k \in DOMAIN TableChunks(given, list) : TableChunks(given, list)[k].text = given[t].text
           /\ \A k \in DOMAIN TableChunks(given, list) :
                 \E t \in DOMAIN given : TableChunks(given, list)[k].text = given[t].text
<1>. DEFINE places == {i \in DOMAIN given : ~given[i].sparse}
            kept == Subsequence(given, places)
            base(i) == TextChunk(kept[i].text, CountTokens(kept[i].text), "table", SectionForPage(list, kept[i].page), 0, FALSE)
            chunk(i) == [base(i) EXCEPT !.first = kept[i].page, !.last = kept[i].page]
            out == TableChunks(given, list)
<1>1. out = [i \in DOMAIN kept |-> chunk(i)]
  BY DEF TableChunks
<1>2. kept \in Seq(TableRecord) /\ ToSet(kept) = {given[i] : i \in places}
  <2>1. places \in SUBSET DOMAIN given
    OBVIOUS
  <2>. HIDE DEF places
  <2>. QED
    BY <2>1, SubsequenceOf
<1>. HIDE DEF kept, out
<1>3. \A i \in DOMAIN kept : kept[i] \in TableRecord /\ \E t \in DOMAIN given : kept[i] = given[t]
  <2>1. \A i \in DOMAIN kept : kept[i] \in ToSet(kept) /\ kept[i] \in TableRecord
    BY <1>2 DEF ToSet
  <2>. QED
    BY <1>2, <2>1
<1>4. \A t \in DOMAIN given : given[t].sparse \/ \E i \in DOMAIN kept : kept[i] = given[t]
  <2>1. \A t \in DOMAIN given : given[t].sparse \/ given[t] \in ToSet(kept)
    BY <1>2
  <2>. QED
    BY <2>1 DEF ToSet
<1>5. ASSUME NEW i \in DOMAIN kept
      PROVE  /\ chunk(i) \in ChunkRecord /\ chunk(i).type = "table" /\ ~chunk(i).child /\ chunk(i).text = kept[i].text
             /\ chunk(i).section = SectionForPage(list, kept[i].page)
             /\ \/ chunk(i).section = NoSection
                \/ \E j \in DOMAIN list : chunk(i).section = Ref(list[j])
  <2>. DEFINE page == kept[i].page
              ref == SectionForPage(list, page)
              text == kept[i].text
  <2>1. page \in Nat /\ text \in Seq(Piece)
    BY <1>3 DEF TableRecord
  <2>. HIDE DEF page
  <2>2. ref = NoSection \/ \E j \in DOMAIN list : ref = Ref(list[j])
    BY <2>1, SectionForPageHolds
  <2>. HIDE DEF ref
  <2>3. ref \in Reference
    <3>1. \A j \in DOMAIN list : list[j] \in BuiltSection
      OBVIOUS
    <3>. QED
      BY <2>2, <3>1, ReferenceHolds
  <2>4. ref.first \in Nat /\ ref.last \in Nat /\ CountTokens(text) \in Int
    BY <2>1, <2>3, CountHolds DEF Reference
  <2>5. chunk(i) = [TextChunk(text, CountTokens(text), "table", ref, 0, FALSE) EXCEPT !.first = page, !.last = page]
    BY DEF page, ref
  <2>. DEFINE plain == TextChunk(text, CountTokens(text), "table", ref, 0, FALSE)
  <2>. HIDE DEF text, chunk
  <2>7. plain \in ChunkRecord /\ plain.type = "table" /\ ~plain.child /\ plain.text = text /\ plain.section = ref
    BY <2>1, <2>3, <2>4 DEF TextChunk, ChunkRecord
  <2>8. chunk(i) = [plain EXCEPT !.first = page, !.last = page]
    BY <2>5
  <2>. HIDE DEF plain
  <2>6. chunk(i) \in ChunkRecord /\ chunk(i).type = "table" /\ ~chunk(i).child /\ chunk(i).text = text
        /\ chunk(i).section = ref
    BY <2>1, <2>7, <2>8 DEF ChunkRecord
  <2>. QED
    BY <2>2, <2>6 DEF text, ref, page
<1>. HIDE DEF chunk
<1>6. DOMAIN out = DOMAIN kept /\ \A i \in DOMAIN kept : out[i] = chunk(i)
  BY <1>1
<1>7. out \in Seq(ChunkRecord)
  <2>1. Len(kept) \in Nat /\ DOMAIN kept = 1..Len(kept)
    BY <1>2
  <2>2. out \in [1..Len(kept) -> ChunkRecord]
    BY <1>1, <1>5, <2>1
  <2>. QED
    BY <2>1, <2>2
<1>8. \A k \in DOMAIN out : /\ out[k].type = "table" /\ ~out[k].child
                            /\ \/ out[k].section = NoSection
                               \/ \E i \in DOMAIN list : out[k].section = Ref(list[i])
  BY <1>5, <1>6
<1>9. \A t \in DOMAIN given : given[t].sparse \/ \E k \in DOMAIN out : out[k].text = given[t].text
  BY <1>4, <1>5, <1>6
<1>10. \A k \in DOMAIN out : \E t \in DOMAIN given : out[k].text = given[t].text
  BY <1>3, <1>5, <1>6
<1>. QED
  BY <1>7, <1>8, <1>9, <1>10 DEF out

-----------------------------------------------------------------------------
(* Chunks: merging the small ones *)

\* The longest that prose can be, parents apart.
Bound == MaxTokens + Larger(MaxTokens, 2 * HeadingTokens)

\* What merging is given: prose under one heading at most, and each parent
\* followed by a child of its section.
Splits(list) ==
    /\ list \in Seq(ChunkRecord)
    /\ \A k \in DOMAIN list : list[k].type = "prose" =>
          /\ list[k].headings \in 0..1 /\ list[k].tokens = CountTokens(list[k].text)
          /\ \/ list[k].tokens <= 2 * MaxTokens
             \/ k < Len(list) /\ list[k + 1].child /\ list[k + 1].section = list[k].section

\* How the tokens of a chunk are counted, merged or not.
Weighed(c) ==
    \/ c.tokens = CountTokens(c.text) /\ c.headings \in 0..1
    \/ c.tokens = CountTokens(c.text) + HeadingTokens * c.headings

\* A chunk is made of chunks of its own section and type.
MadeOf(c, list, n) ==
    /\ \A id \in Ids(c.text) : \E j \in 1..n : /\ id \in Ids(list[j].text)
                                               /\ list[j].section = c.section /\ list[j].type = c.type
    /\ \E j \in 1..n : list[j].section = c.section /\ list[j].type = c.type /\ (c.child => list[j].child)

\* A chunk has all that another one has.
HasAll(c, other) ==
    /\ c.section = other.section /\ c.type = other.type /\ c.headings >= other.headings
    /\ Ids(other.text) \subseteq Ids(c.text)

FollowedByChild(c, list, k) == k <= Len(list) /\ list[k].child /\ list[k].section = c.section

\* What the first n chunks are merged into.
Kept(kept, list, n) ==
    /\ kept \in Seq(ChunkRecord) /\ (n = 0 => kept = <<>>)
    /\ \A m \in DOMAIN kept : /\ MadeOf(kept[m], list, n)
                              /\ kept[m].type = "prose" => /\ Weighed(kept[m])
                                                           /\ \/ kept[m].tokens <= Bound
                                                              \/ FollowedByChild(kept[m], kept, m + 1)
                                                              \/ m = Len(kept) /\ FollowedByChild(kept[m], list, n + 1)
    /\ \A j \in 1..n : \E m \in DOMAIN kept : HasAll(kept[m], list[j])
    /\ n # 0 => kept # <<>> /\ HasAll(kept[1], list[1])

\* The lines of two texts, joined.
LEMMA IdsOfJoined ==
    ASSUME NEW a \in Seq(Piece), NEW b \in Seq(Piece)
    PROVE  Ids(a \o b) = Ids(a) \union Ids(b)
<1>1. ToSet(a \o b) = ToSet(a) \union ToSet(b)
  BY ConcatenatedHolds
<1>2. Ids(a \o b) = {x.id : x \in ToSet(a \o b)} /\ Ids(a) = {x.id : x \in ToSet(a)} /\ Ids(b) = {x.id : x \in ToSet(b)}
  BY IdsOf
<1>. QED
  BY <1>1, <1>2

\* Two chunks made one have the text of both, within the bound.
LEMMA MergedHolds ==
    ASSUME NEW p \in ChunkRecord, NEW c \in ChunkRecord, Weighed(p), p.type = "prose", Mergeable(p, c),
           c.headings \in 0..1, c.tokens = CountTokens(c.text)
    PROVE  LET merged == Merged(p, c)
           IN  /\ merged \in ChunkRecord /\ merged.section = p.section /\ merged.type = p.type
               /\ merged.headings = p.headings + c.headings /\ (merged.child => p.child)
               /\ Ids(merged.text) = Ids(p.text) \union Ids(c.text)
               /\ Weighed(merged) /\ merged.tokens <= Bound
<1>. DEFINE text == p.text \o c.text
            headings == p.headings + c.headings
            last == Max({p.last, c.last})
            tokens == CountTokens(p.text) + CountTokens(c.text) + HeadingTokens * (p.headings + c.headings)
            merged == Merged(p, c)
<1>1. /\ p.text \in Seq(Piece) /\ c.text \in Seq(Piece) /\ p.headings \in Nat /\ c.headings \in Nat
      /\ p.last \in Nat /\ c.last \in Nat /\ p.tokens \in Int /\ c.tokens \in Int
  BY DEF ChunkRecord
<1>2. text \in Seq(Piece) /\ Ids(text) = Ids(p.text) \union Ids(c.text)
      /\ CountTokens(text) = CountTokens(p.text) + CountTokens(c.text)
  BY <1>1, IdsOfJoined, CountHolds
<1>3. CountTokens(p.text) \in Int /\ CountTokens(c.text) \in Int /\ HeadingTokens \in Nat /\ MaxTokens \in Nat
  BY <1>1, CountHolds, ConfigHolds
<1>4. last \in Nat
  BY <1>1, MaxOfTwo
<1>5. HeadingTokens * p.headings \in Int /\ HeadingTokens * c.headings \in Int
      /\ HeadingTokens * (p.headings + c.headings) = HeadingTokens * p.headings + HeadingTokens * c.headings
  <2>1. \A h, a, b \in Nat : h * a \in Int /\ h * (a + b) = h * a + h * b
    OBVIOUS
  <2>. QED
    BY <1>1, <1>3, <2>1
<1>6. tokens \in Int /\ headings \in Nat
  <2>. DEFINE z == HeadingTokens * (p.headings + c.headings)
  <2>1. z \in Int
    <3>1. \A a, b \in Int : a + b \in Int
      OBVIOUS
    <3>. QED
      BY <1>5, <3>1
  <2>. HIDE DEF z
  <2>2. CountTokens(p.text) + CountTokens(c.text) + z \in Int
    BY <1>3, <2>1
  <2>. QED
    BY <1>1, <2>2 DEF z
<1>7. tokens <= Bound
  <2>1. p.tokens + c.tokens <= MaxTokens
    BY DEF Mergeable
  <2>2. \A h \in 0..1 : HeadingTokens * h <= HeadingTokens
    BY <1>3
  <2>3. HeadingTokens * c.headings <= HeadingTokens
    BY <2>2
  <2>4. MaxTokens + 2 * HeadingTokens <= Bound
    BY <1>3 DEF Bound, Larger
  <2>5. Bound \in Int
    BY <1>3 DEF Bound, Larger
  <2>6. tokens = CountTokens(p.text) + c.tokens + HeadingTokens * p.headings + HeadingTokens * c.headings
    BY <1>3, <1>5
  <2>. DEFINE x == HeadingTokens * p.headings
              y == HeadingTokens * c.headings
  <2>7. x \in Int /\ y \in Int /\ y <= HeadingTokens /\ tokens = CountTokens(p.text) + c.tokens + x + y
    BY <1>5, <2>3, <2>6
  <2>8. CASE p.tokens = CountTokens(p.text) /\ p.headings \in 0..1
    <3>1. x <= HeadingTokens
      BY <2>2, <2>8
    <3>. HIDE DEF x, y, tokens
    <3>. QED
      BY <1>1, <1>3, <1>6, <2>1, <2>4, <2>5, <2>7, <2>8, <3>1
  <2>9. CASE p.tokens = CountTokens(p.text) + HeadingTokens * p.headings
    <3>1. p.tokens = CountTokens(p.text) + x
      BY <2>9
    <3>. HIDE DEF x, y, tokens
    <3>. QED
      BY <1>1, <1>3, <1>6, <2>1, <2>4, <2>5, <2>7, <3>1
  <2>. QED
    BY <2>8, <2>9 DEF Weighed
<1>8. merged = [p EXCEPT !.text = text, !.headings = headings, !.last = last, !.tokens = tokens]
  BY DEF Merged
<1>9. tokens = CountTokens(text) + HeadingTokens * headings
  BY <1>2
<1>. HIDE DEF text, headings, last, tokens, merged
<1>10. merged \in ChunkRecord
  BY <1>2, <1>4, <1>6, <1>8 DEF ChunkRecord
<1>11. merged.section = p.section /\ merged.type = p.type /\ merged.headings = headings /\ (merged.child => p.child)
       /\ merged.text = text /\ merged.tokens = tokens
  BY <1>8 DEF ChunkRecord
<1>12. Weighed(merged)
  BY <1>9, <1>11 DEF Weighed
<1>. QED
  BY <1>2, <1>7, <1>10, <1>11, <1>12 DEF merged, headings

\* A further chunk keeps Kept, merged or not.
LEMMA ChunkKept ==
    ASSUME NEW list, Splits(list), NEW n \in Nat, n + 1 \in DOMAIN list, NEW kept, Kept(kept, list, n)
    PROVE  Kept(Keep(kept, list[n + 1]), list, n + 1)
<1>. DEFINE c == list[n + 1]
            L == Len(kept)
            p == Last(kept)
<1>1. list \in Seq(ChunkRecord) /\ c \in ChunkRecord /\ DOMAIN list = 1..Len(list) /\ Len(list) \in Nat
  BY DEF Splits
<1>2. kept \in Seq(ChunkRecord) /\ L \in Nat /\ DOMAIN kept = 1..L /\ (kept # <<>> => L # 0 /\ p = kept[L])
  BY DEF Kept, Last
<1>3. c.type = "prose" => /\ c.headings \in 0..1 /\ c.tokens = CountTokens(c.text)
                          /\ c.tokens <= 2 * MaxTokens \/ FollowedByChild(c, list, (n + 1) + 1)
  <2>1. \A k \in DOMAIN list : k < Len(list) => k + 1 <= Len(list)
    BY <1>1
  <2>. QED
    BY <2>1 DEF Splits, FollowedByChild
<1>4. MaxTokens \in Nat /\ HeadingTokens \in Nat /\ Bound \in Nat /\ 2 * MaxTokens <= Bound
  BY ConfigHolds DEF Bound, Larger
<1>5. c.headings \in Nat /\ c.tokens \in Int
  BY <1>1 DEF ChunkRecord
<1>6. \A m \in DOMAIN kept : kept[m] \in ChunkRecord /\ kept[m].headings \in Nat
  <2>1. \A m \in DOMAIN kept : kept[m] \in ChunkRecord
    BY <1>2
  <2>. QED
    BY <2>1 DEF ChunkRecord
<1>7. \A m \in DOMAIN kept : MadeOf(kept[m], list, n)
  BY DEF Kept
<1>8. \A j \in 1..(n + 1) : j \in 1..n \/ list[j] = c
  OBVIOUS
<1>9. \A j \in 1..n : j \in 1..(n + 1)
  OBVIOUS
<1>10. \A j \in 1..n : \E m \in DOMAIN kept : HasAll(kept[m], list[j])
  BY DEF Kept
<1>11. n # 0 => kept # <<>> /\ HasAll(kept[1], list[1])
  BY DEF Kept
<1>12. n = 0 => kept = <<>> /\ c = list[1]
  BY DEF Kept
<1>13. \A m \in DOMAIN kept : kept[m].type = "prose" => Weighed(kept[m])
  BY DEF Kept
<1>14. \A m \in DOMAIN kept : kept[m].type = "prose" =>
          \/ kept[m].tokens <= Bound
          \/ FollowedByChild(kept[m], kept, m + 1)
          \/ m = L /\ FollowedByChild(kept[m], list, n + 1)
  BY DEF Kept
<1>15. \A x : MadeOf(x, list, n) => MadeOf(x, list, n + 1)
  BY <1>9 DEF MadeOf
<1>16. n + 1 \in 1..(n + 1) /\ n + 1 # 0 /\ HasAll(c, c)
  BY <1>5 DEF HasAll
<1>. HIDE DEF L, p
<1>17. CASE kept # <<>> /\ Mergeable(p, c)
  <2>. DEFINE merged == Merged(p, c)
              new == [kept EXCEPT ![L] = merged]
  <2>1. L \in DOMAIN kept /\ p = kept[L] /\ p \in ChunkRecord /\ p.type = "prose" /\ c.type = "prose"
        /\ c.section = p.section /\ p.headings \in Nat
    BY <1>2, <1>6, <1>17 DEF Mergeable
  <2>2. /\ merged \in ChunkRecord /\ merged.section = p.section /\ merged.type = p.type
        /\ merged.headings = p.headings + c.headings /\ (merged.child => p.child)
        /\ Ids(merged.text) = Ids(p.text) \union Ids(c.text)
        /\ Weighed(merged) /\ merged.tokens <= Bound
    <3>1. Weighed(p)
      BY <1>13, <2>1
    <3>2. c.headings \in 0..1 /\ c.tokens = CountTokens(c.text)
      BY <1>3, <2>1
    <3>. HIDE DEF c
    <3>. QED
      BY <1>1, <1>17, <2>1, <3>1, <3>2, MergedHolds
  <2>3. Keep(kept, c) = new
    BY <1>2, <1>17, <2>1 DEF Keep, L, p
  <2>. HIDE DEF merged, c
  <2>4. new \in Seq(ChunkRecord) /\ Len(new) = L /\ DOMAIN new = DOMAIN kept /\ new[L] = merged
        /\ \A m \in DOMAIN kept : m # L => new[m] = kept[m]
    BY <1>2, <2>1, <2>2 DEF L
  <2>. HIDE DEF new
  <2>5. new # <<>>
    BY <2>1, <2>4
  <2>6. ASSUME NEW m \in DOMAIN new
        PROVE  MadeOf(new[m], list, n + 1)
    <3>1. CASE m # L
      BY <1>7, <1>15, <2>4, <3>1
    <3>2. CASE m = L
      <4>1. MadeOf(p, list, n)
        BY <1>7, <2>1
      <4>2. \A id \in Ids(merged.text) : \E j \in 1..(n + 1) : /\ id \in Ids(list[j].text)
                                                               /\ list[j].section = merged.section /\ list[j].type = merged.type
        <5>1. ASSUME NEW id \in Ids(p.text)
              PROVE  \E j \in 1..(n + 1) : id \in Ids(list[j].text) /\ list[j].section = merged.section /\ list[j].type = merged.type
          BY <1>9, <2>2, <4>1 DEF MadeOf
        <5>2. ASSUME NEW id \in Ids(c.text)
              PROVE  \E j \in 1..(n + 1) : id \in Ids(list[j].text) /\ list[j].section = merged.section /\ list[j].type = merged.type
          BY <1>16, <2>1, <2>2 DEF c
        <5>. QED
          BY <2>2, <5>1, <5>2
      <4>3. \E j \in 1..(n + 1) : list[j].section = merged.section /\ list[j].type = merged.type /\ (merged.child => list[j].child)
        BY <1>9, <2>2, <4>1 DEF MadeOf
      <4>. QED
        BY <2>4, <3>2, <4>2, <4>3 DEF MadeOf
    <3>. QED
      BY <3>1, <3>2
  <2>7. ASSUME NEW m \in DOMAIN new, new[m].type = "prose"
        PROVE  Weighed(new[m]) /\ (new[m].tokens <= Bound \/ FollowedByChild(new[m], new, m + 1))
    <3>1. CASE m # L
      <4>1. new[m] = kept[m] /\ m \in 1..L /\ m + 1 \in 1..L
        BY <1>2, <2>4, <3>1
      <4>2. FollowedByChild(kept[m], kept, m + 1) => FollowedByChild(kept[m], new, m + 1)
        <5>2. CASE m + 1 # L
          BY <1>2, <2>4, <4>1, <5>2 DEF FollowedByChild, L
        <5>3. CASE m + 1 = L
          <6>1. new[m + 1].section = kept[m + 1].section /\ (new[m + 1].child <=> kept[m + 1].child)
            <7>1. merged.child <=> p.child
              BY <2>1 DEF merged, Merged, ChunkRecord
            <7>. QED
              BY <2>1, <2>2, <2>4, <5>3, <7>1
          <6>. QED
            BY <1>2, <2>4, <4>1, <6>1 DEF FollowedByChild, L
        <5>. QED
          BY <5>2, <5>3
      <4>. QED
        BY <1>2, <1>13, <1>14, <2>4, <2>7, <3>1, <4>1, <4>2
    <3>2. CASE m = L
      BY <2>2, <2>4, <3>2
    <3>. QED
      BY <3>1, <3>2
  <2>8. HasAll(merged, p) /\ HasAll(merged, c)
    BY <1>5, <2>1, <2>2 DEF HasAll
  <2>9. ASSUME NEW j \in 1..(n + 1)
        PROVE  \E m \in DOMAIN new : HasAll(new[m], list[j])
    <3>1. CASE j \in 1..n
      <4>1. PICK m \in DOMAIN kept : HasAll(kept[m], list[j])
        BY <1>10, <3>1
      <4>2. CASE m # L
        BY <2>4, <4>1, <4>2
      <4>3. CASE m = L
        <5>1. HasAll(p, list[j]) /\ list[j].headings \in Nat
          <6>1. j \in DOMAIN list
            BY <1>1, <3>1
          <6>2. list[j] \in ChunkRecord
            BY <1>1, <6>1
          <6>. QED
            BY <2>1, <4>1, <4>3, <6>2 DEF ChunkRecord
        <5>2. HasAll(merged, list[j])
          BY <1>5, <2>1, <2>2, <2>8, <5>1 DEF HasAll
        <5>. QED
          BY <2>1, <2>4, <5>2
      <4>. QED
        BY <4>2, <4>3
    <3>2. CASE list[j] = c
      BY <2>1, <2>4, <2>8, <3>2
    <3>. QED
      BY <1>8, <3>1, <3>2 DEF c
  <2>10. HasAll(new[1], list[1])
    <3>1. n # 0
      BY <1>12, <1>17
    <3>2. HasAll(kept[1], list[1])
      BY <1>11, <3>1
    <3>3. CASE L # 1
      <4>1. 1 \in DOMAIN kept
        BY <1>2, <2>1
      <4>. QED
        BY <2>4, <3>2, <3>3, <4>1
    <3>4. CASE L = 1
      <4>1. 1 \in DOMAIN list
        BY <1>1
      <4>2. list[1] \in ChunkRecord
        BY <1>1, <4>1
      <4>3. list[1].headings \in Nat /\ HasAll(p, list[1])
        BY <2>1, <3>2, <3>4, <4>2 DEF ChunkRecord
      <4>. QED
        BY <1>5, <2>1, <2>2, <2>4, <2>8, <3>4, <4>3 DEF HasAll
    <3>. QED
      BY <3>3, <3>4
  <2>11. Kept(new, list, n + 1)
    BY <1>16, <2>4, <2>5, <2>6, <2>7, <2>9, <2>10 DEF Kept
  <2>. QED
    BY <2>3, <2>11 DEF c
<1>18. CASE ~(kept # <<>> /\ Mergeable(p, c))
  <2>. DEFINE new == Append(kept, c)
  <2>1. Keep(kept, c) = new
    BY <1>18 DEF Keep, p
  <2>. HIDE DEF c
  <2>2. new \in Seq(ChunkRecord) /\ Len(new) = L + 1 /\ DOMAIN new = 1..(L + 1) /\ new[L + 1] = c /\ new # <<>>
        /\ \A m \in 1..L : new[m] = kept[m]
    <3>1. new \in Seq(ChunkRecord) /\ Len(new) = L + 1 /\ new[L + 1] = c /\ \A m \in 1..L : new[m] = kept[m]
      BY <1>1, <1>2 DEF L
    <3>. HIDE DEF new
    <3>. QED
      BY <1>2, <3>1
  <2>3. \A m \in 1..(L + 1) : m = L + 1 \/ (m \in 1..L /\ m + 1 \in 1..(L + 1) /\ m + 1 \in Nat)
    BY <1>2
  <2>4. \A m \in 1..L : m \in 1..(L + 1)
    BY <1>2
  <2>8. L + 1 \in 1..(L + 1)
    BY <1>2
  <2>. HIDE DEF new
  <2>5. ASSUME NEW m \in DOMAIN new
        PROVE  MadeOf(new[m], list, n + 1)
    <3>1. CASE m \in 1..L
      BY <1>2, <1>7, <1>15, <2>2, <3>1
    <3>2. CASE m = L + 1
      BY <1>16, <2>2, <3>2 DEF MadeOf, c
    <3>. QED
      BY <2>2, <2>3, <3>1, <3>2
  <2>6. ASSUME NEW m \in DOMAIN new, new[m].type = "prose"
        PROVE  /\ Weighed(new[m])
               /\ \/ new[m].tokens <= Bound
                  \/ FollowedByChild(new[m], new, m + 1)
                  \/ m = Len(new) /\ FollowedByChild(new[m], list, (n + 1) + 1)
    <3>1. CASE m \in 1..L
      <4>1. new[m] = kept[m] /\ m \in DOMAIN kept
        BY <1>2, <2>2, <3>1
      <4>2. CASE kept[m].tokens <= Bound
        BY <1>13, <2>6, <4>1, <4>2
      <4>3. CASE FollowedByChild(kept[m], kept, m + 1)
        <5>1. m + 1 \in 1..L
          BY <1>2, <3>1, <4>3 DEF FollowedByChild, L
        <5>2. new[m + 1] = kept[m + 1] /\ m + 1 <= Len(new)
          BY <1>2, <2>2, <5>1
        <5>3. FollowedByChild(new[m], new, m + 1)
          BY <4>1, <4>3, <5>2 DEF FollowedByChild
        <5>. QED
          BY <1>13, <2>6, <4>1, <5>3
      <4>4. CASE m = L /\ FollowedByChild(kept[m], list, n + 1)
        <5>1. new[m + 1] = c /\ m + 1 <= Len(new)
          BY <1>2, <2>2, <4>4
        <5>2. FollowedByChild(new[m], new, m + 1)
          BY <4>1, <4>4, <5>1 DEF FollowedByChild, c
        <5>. QED
          BY <1>13, <2>6, <4>1, <5>2
      <4>. QED
        BY <1>14, <2>6, <4>1, <4>2, <4>3, <4>4
    <3>2. CASE m = L + 1
      <4>1. new[m] = c /\ c.type = "prose" /\ m = Len(new)
        BY <2>2, <2>6, <3>2
      <4>2. Weighed(c)
        BY <1>3, <4>1 DEF Weighed
      <4>3. c.tokens <= Bound \/ FollowedByChild(c, list, (n + 1) + 1)
        BY <1>3, <1>4, <1>5, <4>1
      <4>. QED
        BY <4>1, <4>2, <4>3
    <3>. QED
      BY <2>2, <2>3, <3>1, <3>2
  <2>7. ASSUME NEW j \in 1..(n + 1)
        PROVE  \E m \in DOMAIN new : HasAll(new[m], list[j])
    <3>1. CASE j \in 1..n
      BY <1>2, <1>10, <2>2, <2>4, <3>1
    <3>2. CASE list[j] = c
      BY <1>16, <2>2, <2>8, <3>2
    <3>. QED
      BY <1>8, <3>1, <3>2 DEF c
  <2>9. HasAll(new[1], list[1])
    <3>1. CASE n = 0
      <4>1. kept = <<>> /\ c = list[1] /\ L = 0
        BY <1>12, <3>1 DEF c, L
      <4>. QED
        BY <1>16, <2>2, <4>1
    <3>2. CASE n # 0
      <4>1. 1 \in 1..L /\ HasAll(kept[1], list[1])
        BY <1>2, <1>11, <3>2
      <4>. QED
        BY <2>2, <4>1
    <3>. QED
      BY <3>1, <3>2
  <2>10. Kept(new, list, n + 1)
    BY <1>16, <2>2, <2>5, <2>6, <2>7, <2>9 DEF Kept
  <2>. QED
    BY <2>1, <2>10 DEF c
<1>. QED
  BY <1>17, <1>18

\* What merging leaves of a list of chunks (SectionChunker._merge_undersized).
LEMMA MergingHolds ==
    ASSUME NEW list, Splits(list)
    PROVE  Kept(MergeUndersized(list), list, Len(list))
<1>. DEFINE n == Len(list)
            W == Seq(ChunkRecord)
            Inv(v, k) == Kept(v, list, k)
            keep(v, k) == Keep(v, list[k])
            next(f, k) == IF k = 0 THEN <<>> ELSE Keep(f[k - 1], list[k])
            Keeps(f) == f = [k \in 0..n |-> next(f, k)]
            upTo == CHOOSE f : Keeps(f)
            step == [p \in W \X (1..n) |-> keep(p[1], p[2])]
            V == [k \in 0..n |-> {v \in W : Inv(v, k)}]
<1>1. n \in Nat /\ DOMAIN list = 1..n
  BY DEF Splits
<1>2. \A k \in 1..n : k \in 0..n /\ k - 1 \in 0..n /\ k # 0
  BY <1>1
<1>3. Inv(<<>>, 0)
  BY DEF Kept
<1>4. \A k \in 0..n : \A v : v \in V[k] <=> Inv(v, k)
  BY DEF Kept
<1>5. ASSUME NEW k \in 1..n, NEW v, Inv(v, k - 1)
      PROVE  Inv(keep(v, k), k)
  <2>1. k - 1 \in Nat /\ (k - 1) + 1 = k /\ k \in DOMAIN list
    BY <1>1
  <2>. HIDE DEF n
  <2>. DEFINE m == k - 1
  <2>2. m \in Nat /\ m + 1 = k /\ m + 1 \in DOMAIN list
    BY <2>1
  <2>3. Kept(v, list, m)
    BY <1>5
  <2>. HIDE DEF m
  <2>4. Kept(Keep(v, list[m + 1]), list, m + 1)
    BY <2>2, <2>3, ChunkKept
  <2>. QED
    BY <2>2, <2>4
<1>6. \A k \in 1..n : \A v \in W : step[<<v, k>>] = keep(v, k)
  OBVIOUS
<1>7. \A k \in 0..n : V[k] \subseteq W
  OBVIOUS
<1>. HIDE DEF n, W, V, step, Inv
<1>8. PICK g : Recurs(g, n, <<>>, step) /\ \A k \in 0..n : g[k] \in V[k]
  <2>1. ASSUME NEW k \in 1..n, NEW v \in V[k - 1]
        PROVE  step[<<v, k>>] \in V[k]
    <3>1. v \in W /\ Inv(v, k - 1)
      BY <1>2, <1>4, <1>7
    <3>2. step[<<v, k>>] = keep(v, k) /\ Inv(keep(v, k), k)
      BY <1>5, <1>6, <3>1
    <3>. HIDE DEF keep
    <3>. QED
      BY <1>2, <1>4, <3>2
  <2>2. <<>> \in V[0]
    BY <1>1, <1>3, <1>4
  <2>. QED
    BY <1>1, <2>1, <2>2, RecursionWithin
<1>9. \E f : Keeps(f)
  <2>1. \A k \in 0..n : k # 0 => step[<<g[k - 1], k>>] = keep(g[k - 1], k)
    <3>1. \A k \in 0..n : k # 0 => k \in 1..n /\ k - 1 \in 0..n
      BY <1>1
    <3>2. \A k \in 0..n : g[k] \in W
      BY <1>7, <1>8
    <3>. HIDE DEF keep
    <3>. QED
      BY <1>6, <3>1, <3>2
  <2>2. g = [k \in 0..n |-> IF k = 0 THEN <<>> ELSE keep(g[k - 1], k)]
    <3>. HIDE DEF keep
    <3>. QED
      BY <1>8, <2>1 DEF Recurs
  <2>. QED
    BY <2>2
<1>10. Keeps(upTo)
  <2>. HIDE DEF Keeps
  <2>. QED
    BY <1>9
<1>11. MergeUndersized(list) = upTo[n]
  BY DEF MergeUndersized, n
<1>12. \A k \in 0..n : upTo[k] = next(upTo, k)
  <2>. HIDE DEF upTo, next
  <2>. QED
    BY <1>10
<1>. HIDE DEF upTo
<1>13. upTo[0] = <<>> /\ \A k \in 1..n : upTo[k] = keep(upTo[k - 1], k)
  <2>1. 0 \in 0..n
    BY <1>1
  <2>. QED
    BY <1>2, <1>12, <2>1
<1>14. \A k \in 0..n : upTo[k] \in V[k]
  <2>1. ASSUME NEW k \in 1..n, upTo[k - 1] \in V[k - 1]
        PROVE  upTo[k] \in V[k]
    <3>1. Inv(upTo[k - 1], k - 1)
      BY <1>2, <1>4, <2>1
    <3>2. Inv(keep(upTo[k - 1], k), k)
      BY <1>5, <3>1
    <3>. HIDE DEF keep
    <3>. QED
      BY <1>2, <1>4, <1>13, <3>2
  <2>2. upTo[0] \in V[0]
    BY <1>1, <1>3, <1>4, <1>13
  <2>. QED
    BY <1>1, <2>1, <2>2, RecursionStays
<1>15. Kept(upTo[n], list, n)
  BY <1>1, <1>4, <1>14 DEF Inv
<1>. QED
  BY <1>11, <1>15 DEF n

\* What finalising leaves of the chunks it is given.
Finished(out, list) ==
    /\ out \in Seq(ChunkRecord)
    /\ \A m \in DOMAIN out :
          /\ out[m].ordinal = m - 1 /\ MadeOf(out[m], list, Len(list))
          /\ out[m].type = "prose" => out[m].tokens <= Bound \/ FollowedByChild(out[m], out, m + 1)
    /\ \A j \in DOMAIN list : \E m \in DOMAIN out : HasAll(out[m], list[j])
    /\ list # <<>> => HasAll(out[1], list[1])

\* The same with ordinals.
LEMMA FinaliseHolds ==
    ASSUME NEW list, Splits(list)
    PROVE  Finished(Finalise(list), list)
<1>. DEFINE merged == MergeUndersized(list)
            n == Len(list)
            out == [i \in DOMAIN merged |-> [merged[i] EXCEPT !.ordinal = i - 1]]
<1>1. Finalise(list) = out
  BY DEF Finalise
<1>2. Kept(merged, list, n) /\ n \in Nat /\ DOMAIN list = 1..n /\ (list # <<>> => n # 0)
  BY MergingHolds DEF Splits
<1>. HIDE DEF merged, n
<1>3. merged \in Seq(ChunkRecord) /\ DOMAIN merged = 1..Len(merged) /\ Len(merged) \in Nat
  BY <1>2 DEF Kept
<1>4. ASSUME NEW i \in DOMAIN merged
      PROVE  /\ out[i] \in ChunkRecord /\ out[i].ordinal = i - 1 /\ out[i].text = merged[i].text
             /\ out[i].type = merged[i].type /\ out[i].section = merged[i].section /\ out[i].headings = merged[i].headings
             /\ out[i].tokens = merged[i].tokens /\ (out[i].child <=> merged[i].child)
  <2>1. merged[i] \in ChunkRecord /\ i - 1 \in Nat
    BY <1>3
  <2>. QED
    BY <2>1 DEF ChunkRecord
<1>5. out \in Seq(ChunkRecord) /\ Len(out) = Len(merged) /\ DOMAIN out = DOMAIN merged
  <2>1. out = [i \in 1..Len(merged) |-> out[i]]
    BY <1>3
  <2>2. DOMAIN out = DOMAIN merged
    OBVIOUS
  <2>. HIDE DEF out
  <2>. QED
    BY <1>3, <1>4, <2>1, <2>2
<1>. HIDE DEF out
<1>6. ASSUME NEW m \in DOMAIN out
      PROVE  /\ MadeOf(out[m], list, n)
             /\ out[m].type = "prose" => out[m].tokens <= Bound \/ FollowedByChild(out[m], out, m + 1)
  <2>1. MadeOf(merged[m], list, n)
    BY <1>2, <1>5 DEF Kept
  <2>2. MadeOf(out[m], list, n)
    BY <1>4, <1>5, <2>1 DEF MadeOf
  <2>3. ~FollowedByChild(merged[m], list, n + 1)
    BY <1>2 DEF FollowedByChild, n
  <2>4. merged[m].type = "prose" => merged[m].tokens <= Bound \/ FollowedByChild(merged[m], merged, m + 1)
    BY <1>2, <1>5, <2>3 DEF Kept
  <2>5. FollowedByChild(merged[m], merged, m + 1) => FollowedByChild(out[m], out, m + 1)
    <3>1. m + 1 <= Len(merged) => m + 1 \in DOMAIN merged
      BY <1>3, <1>5
    <3>. QED
      BY <1>4, <1>5, <3>1 DEF FollowedByChild
  <2>. QED
    BY <1>4, <1>5, <2>2, <2>4, <2>5
<1>7. \A m \in DOMAIN out : \A other : HasAll(merged[m], other) => HasAll(out[m], other)
  BY <1>4, <1>5 DEF HasAll
<1>8. \A j \in DOMAIN list : \E m \in DOMAIN out : HasAll(out[m], list[j])
  BY <1>2, <1>5, <1>7 DEF Kept
<1>9. list # <<>> => HasAll(out[1], list[1])
  <2>. SUFFICES ASSUME list # <<>>
                PROVE  HasAll(out[1], list[1])
    OBVIOUS
  <2>1. merged # <<>> /\ HasAll(merged[1], list[1])
    BY <1>2 DEF Kept
  <2>2. 1 \in DOMAIN out
    BY <1>3, <1>5, <2>1
  <2>. QED
    BY <1>7, <2>1, <2>2
<1>10. \A m \in DOMAIN out : out[m].ordinal = m - 1
  BY <1>4, <1>5
<1>. QED
  BY <1>1, <1>5, <1>6, <1>8, <1>9, <1>10 DEF Finished, n

-----------------------------------------------------------------------------
(* The prose of a document *)

\* The chunks of one text are as merging needs them.
LEMMA ChunksSplit ==
    ASSUME NEW out, NEW text, NEW ref, NEW headings \in 0..1, ChunksOf(out, text, ref, headings)
    PROVE  Splits(out)
BY DEF ChunksOf, Splits

\* So are those of two texts, one after the other.
LEMMA SplitsJoined ==
    ASSUME NEW a, NEW b, Splits(a), Splits(b)
    PROVE  Splits(a \o b)
<1>1. a \in Seq(ChunkRecord) /\ b \in Seq(ChunkRecord) /\ a \o b \in Seq(ChunkRecord)
  BY DEF Splits
<1>. DEFINE m == Len(a)
            n == Len(b)
            c == a \o b
<1>2. /\ m \in Nat /\ n \in Nat /\ DOMAIN a = 1..m /\ DOMAIN b = 1..n /\ Len(c) = m + n /\ DOMAIN c = 1..(m + n)
      /\ \A k \in 1..m : c[k] = a[k]
      /\ \A k \in 1..n : c[m + k] = b[k]
  BY <1>1
<1>3. ASSUME NEW k \in DOMAIN c, c[k].type = "prose"
      PROVE  /\ c[k].headings \in 0..1 /\ c[k].tokens = CountTokens(c[k].text)
             /\ \/ c[k].tokens <= 2 * MaxTokens
                \/ k < Len(c) /\ c[k + 1].child /\ c[k + 1].section = c[k].section
  <2>. HIDE DEF m, n, c
  <2>1. CASE k \in 1..m
    <3>1. /\ a[k].headings \in 0..1 /\ a[k].tokens = CountTokens(a[k].text) /\ c[k] = a[k]
          /\ \/ a[k].tokens <= 2 * MaxTokens
             \/ k < m /\ a[k + 1].child /\ a[k + 1].section = a[k].section
      BY <1>2, <1>3, <2>1 DEF Splits, m
    <3>2. k < m => c[k + 1] = a[k + 1] /\ k < Len(c)
      BY <1>2, <2>1
    <3>. QED
      BY <3>1, <3>2
  <2>2. CASE k \in (m + 1)..(m + n)
    <3>. DEFINE j == k - m
    <3>1. j \in 1..n /\ k = m + j
      BY <1>2, <2>2
    <3>. HIDE DEF j
    <3>2. /\ b[j].headings \in 0..1 /\ b[j].tokens = CountTokens(b[j].text) /\ c[k] = b[j]
          /\ \/ b[j].tokens <= 2 * MaxTokens
             \/ j < n /\ b[j + 1].child /\ b[j + 1].section = b[j].section
      BY <1>2, <1>3, <3>1 DEF Splits, n
    <3>3. j < n => c[k + 1] = b[j + 1] /\ k < Len(c)
      <4>1. ASSUME j < n PROVE j + 1 \in 1..n /\ k + 1 = m + (j + 1) /\ k < Len(c)
        BY <1>2, <3>1, <4>1
      <4>. QED
        BY <1>2, <4>1
    <3>. QED
      BY <3>2, <3>3
  <2>. QED
    BY <1>2, <1>3, <2>1, <2>2
<1>. QED
  BY <1>1, <1>3 DEF Splits

\* What the text of a chunk under a section is taken from.
Source(id, ref, list, fallback) ==
    IF list = <<>> THEN ref = NoSection /\ id \in Ids(fallback)
    ELSE \E i \in DOMAIN list : Ref(list[i]) = ref /\ id \in Ids(TextOf(list[i].body))

PathsDiffer(list) == \A i, j \in DOMAIN list : list[i].path = list[j].path => i = j

\* The chunks before the tables.
ProsePart(list, fallback, page) ==
    IF list # <<>>
    THEN FlattenSeq([i \in DOMAIN list |-> ChunkSection(list[i])])
    ELSE LET split == SplitText(fallback, NoSection, 0)
         IN  [i \in DOMAIN split |-> [split[i] EXCEPT !.first = page, !.last = page]]

Told(out, list, fallback) ==
    /\ Splits(out)
    /\ \A k \in DOMAIN out :
          /\ out[k].type # "table"
          /\ out[k].section = NoSection \/ \E i \in DOMAIN list : out[k].section = Ref(list[i])
          /\ \A id \in Ids(out[k].text) : Source(id, out[k].section, list, fallback)
          /\ out[k].child => /\ out[k].type = "prose"
                             /\ PathsDiffer(list) /\ out[k].section = out[1].section =>
                                  \A id : Source(id, out[1].section, list, fallback) => id \in Ids(out[1].text)
    /\ \A i \in DOMAIN list :
          /\ list[i].body # <<>> => \E k \in DOMAIN out : out[k].section = Ref(list[i]) /\ out[k].headings > 0
          /\ \A x \in DOMAIN list[i].body :
                \/ list[i].body[x].start \in AllIds(out)
                \/ /\ Lists(list[i])
                   /\ \A t \in DOMAIN list[i].body : list[i].body[t].reads = "term" => x < t
    /\ list = <<>> => Ids(fallback) \subseteq AllIds(out)

\* The chunks of a document without sections.
LEMMA FallbackTold ==
    ASSUME NEW fallback \in Seq(Piece), NEW page \in Nat
    PROVE  Told(ProsePart(<<>>, fallback, page), <<>>, fallback)
<1>. DEFINE split == SplitText(fallback, NoSection, 0)
            out == [i \in DOMAIN split |-> [split[i] EXCEPT !.first = page, !.last = page]]
<1>1. ChunksOf(split, fallback, NoSection, 0) /\ AllIds(split) = Ids(fallback)
  BY SplitTextHolds, ReferenceHolds
<1>2. ProsePart(<<>>, fallback, page) = out
  BY DEF ProsePart
<1>3. split \in Seq(ChunkRecord) /\ Splits(split)
  <2>. HIDE DEF split
  <2>1. Splits(split)
    BY <1>1, ChunksSplit
  <2>. QED
    BY <2>1 DEF Splits
<1>4. Len(split) \in Nat /\ DOMAIN split = 1..Len(split) /\ \A i \in DOMAIN split : split[i] \in ChunkRecord
  BY <1>3
<1>5. DOMAIN out = DOMAIN split
  OBVIOUS
<1>6. ASSUME NEW i \in DOMAIN split
      PROVE  /\ out[i] \in ChunkRecord
             /\ out[i].type = split[i].type /\ out[i].section = split[i].section /\ out[i].headings = split[i].headings
             /\ out[i].tokens = split[i].tokens /\ out[i].text = split[i].text /\ (out[i].child <=> split[i].child)
  <2>. DEFINE c == split[i]
  <2>1. c \in ChunkRecord
    BY <1>4
  <2>. HIDE DEF c, split
  <2>2. out[i] = [c EXCEPT !.first = page, !.last = page]
    BY DEF c
  <2>. HIDE DEF out
  <2>. QED
    BY <2>1, <2>2 DEF ChunkRecord, c
<1>. HIDE DEF split
<1>7. out \in Seq(ChunkRecord) /\ Len(out) = Len(split)
  <2>1. out \in [1..Len(split) -> ChunkRecord]
    BY <1>4, <1>6
  <2>. HIDE DEF out
  <2>. QED
    BY <1>4, <2>1
<1>. HIDE DEF out
<1>8. Splits(out)
  <2>1. \A k \in DOMAIN out : k < Len(out) => k + 1 \in DOMAIN split
    BY <1>4, <1>5, <1>7
  <2>. QED
    BY <1>3, <1>5, <1>6, <1>7, <2>1 DEF Splits
<1>9. AllIds(out) = Ids(fallback)
  BY <1>1, <1>5, <1>6 DEF AllIds
<1>10. ASSUME NEW k \in DOMAIN out
       PROVE  /\ out[k].type # "table" /\ out[k].section = NoSection
              /\ \A id \in Ids(out[k].text) : Source(id, out[k].section, <<>>, fallback)
              /\ out[k].child => /\ out[k].type = "prose"
                                 /\ \A id : Source(id, out[1].section, <<>>, fallback) => id \in Ids(out[1].text)
  <2>1. /\ out[k].type # "table" /\ out[k].section = NoSection /\ Ids(out[k].text) \subseteq Ids(fallback)
        /\ out[k].child => out[k].type = "prose" /\ Ids(fallback) \subseteq Ids(split[1].text)
    BY <1>1, <1>5, <1>6 DEF ChunksOf
  <2>2. 1 \in DOMAIN split /\ out[1].text = split[1].text
    BY <1>4, <1>5, <1>6
  <2>. QED
    BY <2>1, <2>2 DEF Source
<1>. QED
  <2>1. DOMAIN <<>> = {}
    OBVIOUS
  <2>2. Told(out, <<>>, fallback)
    BY <2>1, <1>8, <1>9, <1>10 DEF Told
  <2>. QED
    BY <1>2, <2>2

\* The chunks of a document with sections: those of one section after the other.
LEMMA SectionsTold ==
    ASSUME NEW list \in Seq(BuiltSection), list # <<>>, NEW fallback, NEW page
    PROVE  Told(ProsePart(list, fallback, page), list, fallback)
<1>. DEFINE n == Len(list)
            parts == [i \in DOMAIN list |-> ChunkSection(list[i])]
            out == FlattenSeq(parts)
            C == {s \in Seq(ChunkRecord) : Splits(s)}
<1>1. n \in Nat /\ DOMAIN list = 1..n /\ n # 0 /\ \A i \in DOMAIN list : list[i] \in BuiltSection
  OBVIOUS
<1>2. ProsePart(list, fallback, page) = out
  BY DEF ProsePart
<1>3. ASSUME NEW i \in DOMAIN list
      PROVE  /\ ChunksOf(parts[i], TextOf(list[i].body), Ref(list[i]), 1)
             /\ list[i].body # <<>> => parts[i] # <<>>
             /\ \A x \in DOMAIN list[i].body :
                   \/ list[i].body[x].start \in AllIds(parts[i])
                   \/ /\ Lists(list[i])
                      /\ \A t \in DOMAIN list[i].body : list[i].body[t].reads = "term" => x < t
  <2>. DEFINE s == list[i]
  <2>1. s \in BuiltSection /\ parts[i] = ChunkSection(s)
    BY <1>1
  <2>. HIDE DEF s, parts
  <2>2. LET ps == ChunkSection(s)
        IN  /\ ChunksOf(ps, TextOf(s.body), Ref(s), 1)
            /\ s.body # <<>> => ps # <<>>
            /\ \A x \in DOMAIN s.body :
                  \/ s.body[x].start \in AllIds(ps)
                  \/ /\ Lists(s)
                     /\ \A t \in DOMAIN s.body : s.body[t].reads = "term" => x < t
    BY <2>1, ChunkSectionHolds
  <2>. QED
    BY <2>1, <2>2 DEF s
<1>4. DOMAIN parts = DOMAIN list
  OBVIOUS
<1>5. parts \in [1..n -> C]
  <2>1. ASSUME NEW i \in 1..n PROVE parts[i] \in C
    <3>1. ChunksOf(parts[i], TextOf(list[i].body), Ref(list[i]), 1)
      BY <1>1, <1>3
    <3>. HIDE DEF parts
    <3>2. Splits(parts[i])
      BY <3>1, ChunksSplit
    <3>. QED
      BY <3>2 DEF Splits
  <2>. QED
    BY <1>1, <2>1
<1>. HIDE DEF parts
<1>6. parts \in Seq(C) /\ parts \in Seq(Seq(ChunkRecord))
  <2>1. C \subseteq Seq(ChunkRecord)
    OBVIOUS
  <2>. HIDE DEF C
  <2>2. parts \in [1..n -> Seq(ChunkRecord)]
    BY <1>5, <2>1
  <2>3. n \in Nat
    BY <1>1
  <2>. HIDE DEF n
  <2>4. parts \in Seq(C)
    BY <1>5, <2>3
  <2>5. parts \in Seq(Seq(ChunkRecord))
    BY <2>2, <2>3
  <2>. QED
    BY <2>4, <2>5
<1>7. out \in Seq(ChunkRecord) /\ ToSet(out) = UNION {ToSet(parts[i]) : i \in DOMAIN parts}
  BY <1>6, FlattenedHolds
<1>8. Splits(out)
  <2>1. <<>> \in C
    <3>1. Splits(<<>>)
      BY DEF Splits
    <3>. QED
      BY <3>1
  <2>2. \A a, b \in C : a \o b \in C
    <3>1. \A a, b \in C : Splits(a \o b)
      BY SplitsJoined
    <3>. QED
      BY <3>1
  <2>3. C \subseteq Seq(ChunkRecord)
    OBVIOUS
  <2>4. \A s \in C : Splits(s)
    OBVIOUS
  <2>. HIDE DEF C
  <2>5. out \in C
    BY <1>6, <2>1, <2>2, <2>3, FlattenStays
  <2>. QED
    BY <2>4, <2>5
<1>9. /\ \A k \in DOMAIN out : \E i \in DOMAIN list : \E x \in DOMAIN parts[i] : out[k] = parts[i][x]
      /\ \A i \in DOMAIN list : \A x \in DOMAIN parts[i] : \E k \in DOMAIN out : out[k] = parts[i][x]
  <2>1. ToSet(out) = {out[k] : k \in DOMAIN out}
    BY DEF ToSet
  <2>2. \A i \in DOMAIN parts : ToSet(parts[i]) = {parts[i][x] : x \in DOMAIN parts[i]}
    BY DEF ToSet
  <2>. HIDE DEF out
  <2>3. ASSUME NEW k \in DOMAIN out
        PROVE  \E i \in DOMAIN list : \E x \in DOMAIN parts[i] : out[k] = parts[i][x]
    <3>0. out[k] \in UNION {ToSet(parts[i]) : i \in DOMAIN parts}
      BY <1>7, <2>1
    <3>1. PICK i \in DOMAIN parts : out[k] \in ToSet(parts[i])
      BY <3>0
    <3>. QED
      BY <1>4, <2>2, <3>1
  <2>4. ASSUME NEW i \in DOMAIN list, NEW x \in DOMAIN parts[i]
        PROVE  \E k \in DOMAIN out : out[k] = parts[i][x]
    <3>1. parts[i][x] \in ToSet(out)
      BY <1>4, <1>7, <2>2
    <3>. QED
      BY <2>1, <3>1
  <2>. QED
    BY <2>3, <2>4
<1>10. ASSUME out # <<>>
       PROVE  \E i \in DOMAIN list : parts[i] # <<>> /\ out[1] = parts[i][1] /\ 1 \in DOMAIN parts[i]
  <2>1. PICK i \in DOMAIN parts : parts[i] # <<>> /\ FlattenSeq(parts)[1] = parts[i][1]
    BY <1>6, <1>10, FlattenBegins
  <2>2. parts[i] \in Seq(ChunkRecord)
    BY <1>6
  <2>3. 1 \in DOMAIN parts[i]
    BY <2>1, <2>2
  <2>. QED
    BY <1>4, <2>1, <2>3
<1>. HIDE DEF out, C
<1>11. ASSUME NEW k \in DOMAIN out
       PROVE  /\ out[k].type # "table"
              /\ \E i \in DOMAIN list : out[k].section = Ref(list[i])
              /\ \A id \in Ids(out[k].text) : Source(id, out[k].section, list, fallback)
              /\ out[k].child => /\ out[k].type = "prose"
                                 /\ PathsDiffer(list) /\ out[k].section = out[1].section =>
                                      \A id : Source(id, out[1].section, list, fallback) => id \in Ids(out[1].text)
  <2>0. PICK i \in DOMAIN list : \E x \in DOMAIN parts[i] : out[k] = parts[i][x]
    BY <1>9
  <2>1. PICK x \in DOMAIN parts[i] : out[k] = parts[i][x]
    BY <2>0
  <2>2. ChunksOf(parts[i], TextOf(list[i].body), Ref(list[i]), 1)
    BY <1>3
  <2>3. /\ out[k].type # "table" /\ out[k].section = Ref(list[i])
        /\ Ids(out[k].text) \subseteq Ids(TextOf(list[i].body))
        /\ out[k].child => out[k].type = "prose" /\ Ids(TextOf(list[i].body)) \subseteq Ids(parts[i][1].text)
    BY <2>1, <2>2 DEF ChunksOf
  <2>4. \A id \in Ids(out[k].text) : Source(id, out[k].section, list, fallback)
    BY <2>3 DEF Source
  <2>5. ASSUME out[k].child, PathsDiffer(list), out[k].section = out[1].section,
               NEW id, Source(id, out[1].section, list, fallback)
        PROVE  id \in Ids(out[1].text)
    <3>1. out # <<>>
      BY <1>7
    <3>2. PICK j \in DOMAIN list : parts[j] # <<>> /\ out[1] = parts[j][1] /\ 1 \in DOMAIN parts[j]
      BY <1>10, <3>1
    <3>3. out[1].section = Ref(list[j])
      <4>1. ChunksOf(parts[j], TextOf(list[j].body), Ref(list[j]), 1)
        BY <1>3
      <4>. QED
        BY <3>2, <4>1 DEF ChunksOf
    <3>4. PICK y \in DOMAIN list : Ref(list[y]) = out[1].section /\ id \in Ids(TextOf(list[y].body))
      BY <2>5 DEF Source
    <3>5. list[i].path = list[j].path /\ list[y].path = list[j].path
      <4>1. Ref(list[i]).path = list[i].path /\ Ref(list[j]).path = list[j].path /\ Ref(list[y]).path = list[y].path
        BY DEF Ref
      <4>. QED
        BY <2>3, <2>5, <3>3, <3>4, <4>1
    <3>6. i = j /\ y = j
      BY <2>5, <3>5 DEF PathsDiffer
    <3>. QED
      BY <2>3, <2>5, <3>2, <3>4, <3>6
  <2>. QED
    BY <2>3, <2>4, <2>5
<1>12. ASSUME NEW i \in DOMAIN list
       PROVE  /\ list[i].body # <<>> => \E k \in DOMAIN out : out[k].section = Ref(list[i]) /\ out[k].headings > 0
              /\ \A x \in DOMAIN list[i].body :
                    \/ list[i].body[x].start \in AllIds(out)
                    \/ /\ Lists(list[i])
                       /\ \A t \in DOMAIN list[i].body : list[i].body[t].reads = "term" => x < t
  <2>1. ASSUME list[i].body # <<>>
        PROVE  \E k \in DOMAIN out : out[k].section = Ref(list[i]) /\ out[k].headings > 0
    <3>1. parts[i] # <<>> /\ ChunksOf(parts[i], TextOf(list[i].body), Ref(list[i]), 1)
      BY <1>3, <2>1
    <3>2. parts[i] \in Seq(ChunkRecord)
      BY <3>1 DEF ChunksOf
    <3>3. 1 \in DOMAIN parts[i]
      BY <3>1, <3>2
    <3>4. parts[i][1].section = Ref(list[i]) /\ parts[i][1].headings = 1
      BY <3>1, <3>3 DEF ChunksOf
    <3>. QED
      BY <1>9, <3>3, <3>4
  <2>2. AllIds(parts[i]) \subseteq AllIds(out)
    BY <1>9 DEF AllIds
  <2>. QED
    BY <1>3, <2>1, <2>2
<1>. QED
  BY <1>2, <1>8, <1>11, <1>12 DEF Told

\* The chunks before the tables, in either case.
LEMMA ProseTold ==
    ASSUME NEW list \in Seq(BuiltSection), NEW fallback \in Seq(Piece), NEW page \in Nat
    PROVE  Told(ProsePart(list, fallback, page), list, fallback)
BY FallbackTold, SectionsTold

-----------------------------------------------------------------------------
(* The chunks of a document *)

\* What Chunk makes of some sections, tables and a text to fall back on.
Chunked(out, list, given, fallback) ==
    /\ out \in Seq(ChunkRecord)
    /\ \A m \in DOMAIN out :
          /\ out[m].ordinal = m - 1
          /\ out[m].section = NoSection \/ \E i \in DOMAIN list : out[m].section = Ref(list[i])
          /\ out[m].type # "table" =>
                \A id \in Ids(out[m].text) : Source(id, out[m].section, list, fallback)
          /\ out[m].type = "table" =>
                \A id \in Ids(out[m].text) : \E t \in DOMAIN given : id \in Ids(given[t].text)
          /\ out[m].type = "prose" => out[m].tokens <= Bound \/ FollowedByChild(out[m], out, m + 1)
          /\ out[m].child /\ PathsDiffer(list) /\ out[m].section = out[1].section =>
                Ids(out[m].text) \subseteq Ids(out[1].text)
    /\ \A i \in DOMAIN list :
          /\ list[i].body # <<>> => \E k \in DOMAIN out : out[k].section = Ref(list[i]) /\ out[k].headings > 0
          /\ \A x \in DOMAIN list[i].body :
                \/ list[i].body[x].start \in AllIds(out)
                \/ /\ Lists(list[i])
                   /\ \A t \in DOMAIN list[i].body : list[i].body[t].reads = "term" => x < t
    /\ list = <<>> => Ids(fallback) \subseteq AllIds(out)
    /\ \A t \in DOMAIN given : given[t].sparse \/ Ids(given[t].text) \subseteq AllIds(out)

\* The chunker's result, for any sections, tables and text.
LEMMA ChunkHolds ==
    ASSUME NEW list \in Seq(BuiltSection), NEW given \in Seq(TableRecord), NEW fallback \in Seq(Piece),
           NEW page \in Nat
    PROVE  Chunked(Chunk(list, given, fallback, page), list, given, fallback)
<1>. DEFINE a == ProsePart(list, fallback, page)
            b == TableChunks(given, list)
            all == a \o b
            out == Finalise(all)
            m == Len(a)
            n == Len(b)
<1>1. Chunk(list, given, fallback, page) = out
  BY DEF Chunk, ProsePart
<1>2. Told(a, list, fallback)
  BY ProseTold
<1>3. /\ b \in Seq(ChunkRecord)
      /\ \A k \in DOMAIN b : /\ b[k].type = "table" /\ ~b[k].child
                             /\ b[k].section = NoSection \/ \E i \in DOMAIN list : b[k].section = Ref(list[i])
      /\ \A t \in DOMAIN given : given[t].sparse \/ \E k \in DOMAIN b : b[k].text = given[t].text
      /\ \A k \in DOMAIN b : \E t \in DOMAIN given : b[k].text = given[t].text
  BY TableChunksHold
<1>. HIDE DEF a, b
<1>4. Splits(a) /\ a \in Seq(ChunkRecord)
  BY <1>2 DEF Told, Splits
<1>5. Splits(b)
  <2>1. \A k \in DOMAIN b : b[k].type # "prose"
    BY <1>3
  <2>. QED
    BY <1>3, <2>1 DEF Splits
<1>6. Splits(all)
  BY <1>4, <1>5, SplitsJoined
<1>7. Finished(out, all)
  BY <1>6, FinaliseHolds
<1>8. /\ m \in Nat /\ n \in Nat /\ DOMAIN a = 1..m /\ DOMAIN b = 1..n /\ Len(all) = m + n /\ DOMAIN all = 1..(m + n)
      /\ \A k \in 1..m : all[k] = a[k] /\ k \in DOMAIN all
      /\ \A k \in 1..n : all[m + k] = b[k] /\ m + k \in DOMAIN all
  BY <1>3, <1>4
<1>9. \A k \in DOMAIN all : k \in DOMAIN a \/ (k - m \in DOMAIN b /\ k = m + (k - m))
  BY <1>8
<1>. HIDE DEF all, m, n
<1>10. \A k \in DOMAIN all : \/ k \in DOMAIN a /\ all[k] = a[k]
                             \/ \E x \in DOMAIN b : all[k] = b[x]
  BY <1>8, <1>9
<1>. HIDE DEF out
<1>11. out \in Seq(ChunkRecord) /\ \A k \in DOMAIN out : out[k].ordinal = k - 1 /\ MadeOf(out[k], all, Len(all))
  BY <1>7 DEF Finished
<1>12. \A j \in DOMAIN all : \E k \in DOMAIN out : HasAll(out[k], all[j])
  BY <1>7 DEF Finished
<1>13. AllIds(a) \subseteq AllIds(out) /\ AllIds(b) \subseteq AllIds(out)
  <2>1. AllIds(all) \subseteq AllIds(out)
    BY <1>12 DEF AllIds, HasAll
  <2>2. AllIds(a) \subseteq AllIds(all) /\ AllIds(b) \subseteq AllIds(all)
    BY <1>8 DEF AllIds
  <2>. QED
    BY <2>1, <2>2
<1>14. ASSUME NEW k \in DOMAIN out
       PROVE  /\ out[k].section = NoSection \/ \E i \in DOMAIN list : out[k].section = Ref(list[i])
              /\ out[k].type # "table" =>
                    \A id \in Ids(out[k].text) : Source(id, out[k].section, list, fallback)
              /\ out[k].type = "table" =>
                    \A id \in Ids(out[k].text) : \E t \in DOMAIN given : id \in Ids(given[t].text)
              /\ out[k].type = "prose" => out[k].tokens <= Bound \/ FollowedByChild(out[k], out, k + 1)
              /\ out[k].child /\ PathsDiffer(list) /\ out[k].section = out[1].section =>
                    Ids(out[k].text) \subseteq Ids(out[1].text)
  <2>. DEFINE c == out[k]
  <2>1. /\ \A id \in Ids(c.text) : \E j \in DOMAIN all : /\ id \in Ids(all[j].text)
                                                         /\ all[j].section = c.section /\ all[j].type = c.type
        /\ \E j \in DOMAIN all : all[j].section = c.section /\ all[j].type = c.type /\ (c.child => all[j].child)
    BY <1>8, <1>11, ZenonT(60) DEF MadeOf
  <2>. HIDE DEF c
  <2>2. c.section = NoSection \/ \E i \in DOMAIN list : c.section = Ref(list[i])
    <3>1. PICK j \in DOMAIN all : all[j].section = c.section
      BY <2>1
    <3>. QED
      BY <1>2, <1>3, <1>10, <3>1 DEF Told
  <2>3. ASSUME c.type # "table", NEW id \in Ids(c.text)
        PROVE  Source(id, c.section, list, fallback)
    <3>1. PICK j \in DOMAIN all : id \in Ids(all[j].text) /\ all[j].section = c.section /\ all[j].type = c.type
      BY <2>1
    <3>2. j \in DOMAIN a /\ all[j] = a[j]
      BY <1>3, <1>10, <2>3, <3>1
    <3>. QED
      BY <1>2, <3>1, <3>2 DEF Told
  <2>4. ASSUME c.type = "table", NEW id \in Ids(c.text)
        PROVE  \E t \in DOMAIN given : id \in Ids(given[t].text)
    <3>1. PICK j \in DOMAIN all : id \in Ids(all[j].text) /\ all[j].type = "table"
      BY <2>1, <2>4
    <3>2. \A x \in DOMAIN a : a[x].type # "table"
      BY <1>2 DEF Told
    <3>3. PICK x \in DOMAIN b : all[j] = b[x]
      BY <1>10, <3>1, <3>2
    <3>. QED
      BY <1>3, <3>1, <3>3
  <2>5. ASSUME c.child, PathsDiffer(list), c.section = out[1].section
        PROVE  Ids(c.text) \subseteq Ids(out[1].text)
    <3>1. PICK j \in DOMAIN all : all[j].section = c.section /\ all[j].type = c.type /\ all[j].child
      BY <2>1, <2>5
    <3>2. j \in DOMAIN a /\ all[j] = a[j]
      BY <1>3, <1>10, <3>1
    <3>3. 1 \in DOMAIN a /\ all[1] = a[1] /\ all # <<>>
      <4>1. 1 \in DOMAIN a /\ all[1] = a[1] /\ 1 \in DOMAIN all
        BY <1>8, <3>2
      <4>. QED
        BY <4>1
    <3>4. HasAll(out[1], a[1])
      BY <1>7, <3>3 DEF Finished
    <3>5. a[j].section = a[1].section /\ Ids(a[1].text) \subseteq Ids(out[1].text) /\ a[1].section = c.section
      BY <2>5, <3>1, <3>2, <3>4 DEF HasAll
    <3>6. a[j].type = "prose" /\ \A id : Source(id, a[1].section, list, fallback) => id \in Ids(a[1].text)
      BY <1>2, <2>5, <3>1, <3>2, <3>5 DEF Told
    <3>7. c.type # "table"
      BY <3>1, <3>2, <3>6
    <3>. QED
      BY <2>3, <3>5, <3>6, <3>7
  <2>6. c.type = "prose" => c.tokens <= Bound \/ FollowedByChild(c, out, k + 1)
    BY <1>7 DEF Finished, c
  <2>. QED
    BY <2>2, <2>3, <2>4, <2>5, <2>6 DEF c
<1>15. ASSUME NEW i \in DOMAIN list
       PROVE  /\ list[i].body # <<>> => \E k \in DOMAIN out : out[k].section = Ref(list[i]) /\ out[k].headings > 0
              /\ \A x \in DOMAIN list[i].body :
                    \/ list[i].body[x].start \in AllIds(out)
                    \/ /\ Lists(list[i])
                       /\ \A t \in DOMAIN list[i].body : list[i].body[t].reads = "term" => x < t
  <2>1. ASSUME list[i].body # <<>>
        PROVE  \E k \in DOMAIN out : out[k].section = Ref(list[i]) /\ out[k].headings > 0
    <3>1. PICK j \in DOMAIN a : a[j].section = Ref(list[i]) /\ a[j].headings > 0
      BY <1>2, <2>1 DEF Told
    <3>2. all[j] = a[j] /\ j \in DOMAIN all
      BY <1>8
    <3>3. PICK k \in DOMAIN out : HasAll(out[k], a[j])
      BY <1>12, <3>2
    <3>4. a[j] \in ChunkRecord /\ out[k] \in ChunkRecord
      BY <1>4, <1>11
    <3>5. a[j].headings \in Nat /\ out[k].headings \in Nat
      BY <3>4 DEF ChunkRecord
    <3>. QED
      BY <3>1, <3>3, <3>5 DEF HasAll
  <2>. QED
    BY <1>2, <1>13, <2>1 DEF Told
<1>16. list = <<>> => Ids(fallback) \subseteq AllIds(out)
  BY <1>2, <1>13 DEF Told
<1>17. ASSUME NEW t \in DOMAIN given
       PROVE  given[t].sparse \/ Ids(given[t].text) \subseteq AllIds(out)
  <2>1. given[t].sparse \/ \E k \in DOMAIN b : b[k].text = given[t].text
    BY <1>3
  <2>. QED
    BY <1>13, <2>1 DEF AllIds
<1>. QED
  BY <1>1, <1>11, <1>14, <1>15, <1>16, <1>17 DEF Chunked

-----------------------------------------------------------------------------
(* Where lines start *)

Prefix(s, k) == [q \in 1..k |-> s[q]]

\* The sums of the beginnings of a list ascend with their lengths.
LEMMA PrefixesGrow ==
    ASSUME NEW s \in Seq(Nat), NEW j \in 0..Len(s), NEW k \in 0..Len(s), j <= k
    PROVE  /\ Sum(Prefix(s, j)) \in Nat /\ Sum(Prefix(s, k)) \in Nat
           /\ Sum(Prefix(s, j)) <= Sum(Prefix(s, k))
           /\ j < k => Sum(Prefix(s, j)) + s[j + 1] <= Sum(Prefix(s, k))
<1>. DEFINE n == Len(s)
<1>1. n \in Nat /\ DOMAIN s = 1..n /\ \A q \in 1..n : s[q] \in Nat
  OBVIOUS
<1>2. ASSUME NEW i \in 0..n PROVE Prefix(s, i) \in Seq(Nat) /\ Len(Prefix(s, i)) = i
  <2>. HIDE DEF n
  <2>1. Prefix(s, i) \in [1..i -> Nat] /\ i \in Nat
    BY <1>1, <1>2 DEF Prefix
  <2>. QED
    BY <2>1
<1>3. ASSUME NEW i \in 0..n, NEW m \in 0..n, i <= m
      PROVE  /\ Sum(Prefix(s, m)) \in Nat /\ Sum(Prefix(s, i)) \in Nat
             /\ Sum(Prefix(s, i)) <= Sum(Prefix(s, m))
  <2>. DEFINE d == m - i
              rest == [q \in 1..d |-> s[i + q]]
              a == Prefix(s, i)
              b == Prefix(s, m)
  <2>1. a \in Seq(Nat) /\ Len(a) = i /\ b \in Seq(Nat) /\ Len(b) = m
    BY <1>2, <1>3
  <2>0. i \in Nat /\ m \in Nat /\ d \in Nat /\ i + d = m /\ \A q \in 1..d : i + q \in 1..n /\ i + q \in 1..m
    <3>. HIDE DEF n
    <3>. QED
      BY <1>1, <1>3
  <2>. HIDE DEF d
  <2>2. rest \in Seq(Nat) /\ Len(rest) = d /\ \A q \in 1..d : rest[q] = s[i + q]
    <3>. HIDE DEF n
    <3>1. rest \in [1..d -> Nat] /\ d \in Nat
      BY <1>1, <2>0
    <3>2. \A q \in 1..d : rest[q] = s[i + q]
      OBVIOUS
    <3>. HIDE DEF rest
    <3>3. rest \in Seq(Nat) /\ Len(rest) = d
      BY <3>1
    <3>. QED
      BY <3>2, <3>3
  <2>3. \A q \in 1..i : a[q] = s[q]
    BY DEF Prefix
  <2>4. \A q \in 1..m : b[q] = s[q]
    BY DEF Prefix
  <2>. HIDE DEF a, b, rest, n
  <2>5. b = a \o rest
    <3>0. i \in Nat /\ d \in Nat /\ i + d = m /\ a \in Seq(Nat) /\ rest \in Seq(Nat) /\ Len(a) = i /\ Len(rest) = d
      BY <2>0, <2>1, <2>2
    <3>1. /\ Len(a \o rest) = m /\ a \o rest \in Seq(Nat)
          /\ \A q \in 1..i : (a \o rest)[q] = a[q]
          /\ \A q \in 1..d : (a \o rest)[i + q] = rest[q]
      BY <3>0, SMTT(60)
    <3>2. ASSUME NEW q \in 1..m PROVE b[q] = (a \o rest)[q]
      <4>1. CASE q \in 1..i
        BY <2>3, <2>4, <3>1, <4>1
      <4>2. CASE q \notin 1..i
        <5>1. PICK x \in 1..d : q = i + x
          <6>1. q - i \in 1..d /\ q = i + (q - i)
            BY <2>0, <4>2
          <6>. QED
            BY <6>1
        <5>. QED
          BY <2>2, <2>4, <3>1, <5>1
      <4>. QED
        BY <4>1, <4>2
    <3>. DEFINE c == a \o rest
    <3>3. c \in Seq(Nat) /\ Len(c) = m
      BY <3>1
    <3>. HIDE DEF c
    <3>4. b = [q \in 1..m |-> b[q]] /\ c = [q \in 1..m |-> c[q]]
      BY <2>1, <3>3
    <3>. QED
      BY <3>2, <3>4 DEF c
  <2>6. a \in Seq(Int) /\ rest \in Seq(Int)
    BY <2>1, <2>2
  <2>7. Sum(b) = Sum(a) + Sum(rest)
    BY <2>5, <2>6, SumOfJoined
  <2>8. Sum(a) \in Nat /\ Sum(rest) \in Nat /\ Sum(b) \in Nat
    BY <2>1, <2>2, SumsGrow
  <2>. QED
    BY <2>7, <2>8 DEF a, b
<1>4. ASSUME j < k
      PROVE  Sum(Prefix(s, j)) + s[j + 1] <= Sum(Prefix(s, k))
  <2>. DEFINE a == Prefix(s, j)
              b == Prefix(s, j + 1)
  <2>1. a \in Seq(Nat) /\ Len(a) = j /\ j + 1 \in 0..n /\ j + 1 \in 1..n /\ s[j + 1] \in Nat
    BY <1>1, <1>2, <1>4
  <2>2. b \in Seq(Nat) /\ Len(b) = j + 1
    BY <1>2, <2>1
  <2>3. (\A q \in 1..j : a[q] = s[q]) /\ (\A q \in 1..(j + 1) : b[q] = s[q])
    BY DEF Prefix
  <2>. HIDE DEF a, b, n
  <2>4. b = Append(a, s[j + 1])
    <3>1. Append(a, s[j + 1]) \in Seq(Nat) /\ Len(Append(a, s[j + 1])) = j + 1
      BY <2>1
    <3>2. \A q \in 1..(j + 1) : b[q] = Append(a, s[j + 1])[q]
      BY <2>1, <2>3, SMTT(60)
    <3>3. /\ b = [q \in 1..(j + 1) |-> b[q]]
          /\ Append(a, s[j + 1]) = [q \in 1..(j + 1) |-> Append(a, s[j + 1])[q]]
      BY <2>2, <3>1
    <3>. QED
      BY <3>2, <3>3
  <2>5. Sum(b) = Sum(a) + s[j + 1]
    <3>1. a \in Seq(Int) /\ s[j + 1] \in Int
      BY <2>1
    <3>. QED
      BY <2>4, <3>1, SumOfMore
  <2>6. Sum(b) <= Sum(Prefix(s, k))
    BY <1>1, <1>3, <1>4, <2>1 DEF b, n
  <2>. QED
    BY <2>5, <2>6 DEF a
<1>. QED
  BY <1>3, <1>4

\* The lines of a page with the character that joins each to the next.
LineSizes(p) == [k \in DOMAIN document[p].lines |-> document[p].lines[k].size + 1]

PageSizes == [q \in DOMAIN document |-> Sum(LineSizes(q))]

\* The shape of a document.
LEMMA PrintedHolds ==
    ASSUME document \in Document
    PROVE  /\ document \in Seq(PrintedPage) /\ Len(document) \in Nat /\ DOMAIN document = 1..Len(document)
           /\ \A p \in DOMAIN document :
                 /\ p \in Nat /\ document[p].lines \in Seq(LineKind) /\ document[p].counts \in Counts
                 /\ document[p].table \in {"none", "artefact", "sparse", "data"}
                 /\ document[p].boxed \subseteq Nat
<1>1. document \in Seq(PrintedPage)
  BY DocumentAssumption
<1>2. Len(document) \in Nat /\ DOMAIN document = 1..Len(document)
  BY <1>1
<1>3. ASSUME NEW p \in DOMAIN document
      PROVE  /\ p \in Nat /\ document[p].lines \in Seq(LineKind) /\ document[p].counts \in Counts
             /\ document[p].table \in {"none", "artefact", "sparse", "data"}
             /\ document[p].boxed \subseteq Nat
  <2>1. document[p] \in PrintedPage
    BY <1>1
  <2>. QED
    BY <1>2, <2>1 DEF PrintedPage
<1>. QED
  BY <1>1, <1>2, <1>3

\* Every line of a page takes at least one character.
LEMMA LinesCount ==
    ASSUME document \in Document, NEW p \in DOMAIN document
    PROVE  /\ Len(document[p].lines) \in Nat /\ DOMAIN document[p].lines = 1..Len(document[p].lines)
           /\ LineSizes(p) \in Seq(Nat) /\ Len(LineSizes(p)) = Len(document[p].lines)
           /\ \A i \in DOMAIN document[p].lines :
                 document[p].lines[i] \in LineKind /\ LineSizes(p)[i] > 0 /\ i \in Nat
<1>. DEFINE list == document[p].lines
            sizes == LineSizes(p)
<1>1. list \in Seq(LineKind)
  BY PrintedHolds
<1>2. sizes = [k \in DOMAIN list |-> list[k].size + 1]
  BY DEF LineSizes
<1>. HIDE DEF list, sizes
<1>3. Len(list) \in Nat /\ DOMAIN list = 1..Len(list) /\ \A i \in DOMAIN list : list[i] \in LineKind
  BY <1>1
<1>4. \A i \in DOMAIN list : list[i].size \in Nat /\ sizes[i] = list[i].size + 1
  BY <1>2, <1>3 DEF LineKind
<1>5. sizes \in [1..Len(list) -> Nat] /\ \A i \in DOMAIN list : sizes[i] > 0
  BY <1>2, <1>3, <1>4
<1>6. sizes \in Seq(Nat) /\ Len(sizes) = Len(list)
  BY <1>3, <1>5
<1>. QED
  BY <1>3, <1>5, <1>6 DEF list, sizes

\* The sizes of the pages.
LEMMA PagesCount ==
    ASSUME document \in Document
    PROVE  /\ PageSizes \in Seq(Nat) /\ Len(PageSizes) = Len(document)
           /\ \A p \in DOMAIN document : PageSizes[p] = Sum(LineSizes(p))
<1>1. Len(document) \in Nat /\ DOMAIN document = 1..Len(document)
  BY PrintedHolds
<1>2. \A p \in DOMAIN document : Sum(LineSizes(p)) \in Nat
  BY LinesCount, SumsGrow
<1>3. PageSizes = [q \in 1..Len(document) |-> Sum(LineSizes(q))]
  BY <1>1 DEF PageSizes
<1>4. PageSizes \in [1..Len(document) -> Nat] /\ \A p \in DOMAIN document : PageSizes[p] = Sum(LineSizes(p))
  BY <1>1, <1>2, <1>3
<1>5. PageSizes \in Seq(Nat) /\ Len(PageSizes) = Len(document)
  BY <1>1, <1>4
<1>. QED
  BY <1>4, <1>5

\* The offset of a line is the sum of what stands before it.
LEMMA CharStartIs ==
    ASSUME document \in Document, NEW p \in DOMAIN document, NEW i \in DOMAIN document[p].lines
    PROVE  CharStart(p, i) = Sum(Prefix(PageSizes, p - 1)) + Sum(Prefix(LineSizes(p), i - 1))
<1>1. /\ Len(document) \in Nat /\ DOMAIN document = 1..Len(document)
      /\ Len(document[p].lines) \in Nat /\ DOMAIN document[p].lines = 1..Len(document[p].lines)
  BY PrintedHolds, LinesCount
<1>2. [q \in 1..(p - 1) |-> Sum([k \in DOMAIN document[q].lines |-> document[q].lines[k].size + 1])]
      = Prefix(PageSizes, p - 1)
  <2>1. \A q \in 1..(p - 1) : /\ q \in DOMAIN document
                              /\ PageSizes[q] = Sum([k \in DOMAIN document[q].lines |-> document[q].lines[k].size + 1])
    BY <1>1 DEF PageSizes, LineSizes
  <2>. QED
    BY <2>1 DEF Prefix
<1>3. [k \in 1..(i - 1) |-> document[p].lines[k].size + 1] = Prefix(LineSizes(p), i - 1)
  <2>1. \A k \in 1..(i - 1) : k \in DOMAIN document[p].lines /\ LineSizes(p)[k] = document[p].lines[k].size + 1
    BY <1>1 DEF LineSizes
  <2>. QED
    BY <2>1 DEF Prefix
<1>. QED
  BY <1>2, <1>3 DEF CharStart

\* The lines of a document start one after the other.
LEMMA StartsAscend ==
    ASSUME document \in Document, NEW p \in DOMAIN document, NEW i \in DOMAIN document[p].lines
    PROVE  /\ CharStart(p, i) \in Nat
           /\ \A j \in DOMAIN document[p].lines : i < j => CharStart(p, i) < CharStart(p, j)
           /\ \A q \in DOMAIN document : \A j \in DOMAIN document[q].lines : p < q => CharStart(p, i) < CharStart(q, j)
<1>. DEFINE m(q) == Len(document[q].lines)
            P(q) == Sum(Prefix(PageSizes, q - 1))
            L(q, j) == Sum(Prefix(LineSizes(q), j - 1))
<1>1. /\ Len(document) \in Nat /\ DOMAIN document = 1..Len(document)
      /\ \A q \in DOMAIN document : m(q) \in Nat /\ DOMAIN document[q].lines = 1..m(q)
  BY PrintedHolds, LinesCount
<1>2. \A q \in DOMAIN document : \A j \in DOMAIN document[q].lines :
         CharStart(q, j) = P(q) + L(q, j)
  BY CharStartIs
<1>3. ASSUME NEW q \in DOMAIN document
      PROVE  P(q) \in Nat
  <2>1. q - 1 \in 0..Len(PageSizes) /\ q - 1 <= q - 1 /\ PageSizes \in Seq(Nat)
    BY <1>1, PagesCount
  <2>. QED
    BY <2>1, PrefixesGrow
<1>4. ASSUME NEW q \in DOMAIN document, NEW j \in DOMAIN document[q].lines, NEW k \in DOMAIN document[q].lines
      PROVE  L(q, j) \in Nat /\ (j < k => L(q, j) < L(q, k))
  <2>1. /\ LineSizes(q) \in Seq(Nat) /\ j - 1 \in 0..Len(LineSizes(q)) /\ k - 1 \in 0..Len(LineSizes(q))
        /\ j < k => j - 1 <= k - 1 /\ j - 1 < k - 1
        /\ j - 1 + 1 = j /\ LineSizes(q)[j] > 0 /\ LineSizes(q)[j] \in Nat
    <3>1. /\ LineSizes(q) \in Seq(Nat) /\ Len(LineSizes(q)) = m(q) /\ m(q) \in Nat /\ j \in 1..m(q) /\ k \in 1..m(q)
          /\ LineSizes(q)[j] > 0
      BY <1>1, LinesCount
    <3>. HIDE DEF m
    <3>. QED
      BY <3>1
  <2>2. j - 1 <= j - 1
    BY <2>1
  <2>3. L(q, j) \in Nat
    BY <2>1, <2>2, PrefixesGrow
  <2>4. ASSUME j < k PROVE L(q, j) < L(q, k)
    <3>1. L(q, k) \in Nat /\ L(q, j) + LineSizes(q)[j - 1 + 1] <= L(q, k)
      BY <2>1, <2>4, PrefixesGrow
    <3>. HIDE DEF L
    <3>. QED
      BY <2>1, <2>3, <3>1
  <2>. QED
    BY <2>3, <2>4
<1>5. ASSUME NEW q \in DOMAIN document, p < q
      PROVE  P(p) + L(p, i) < P(q)
  <2>1. L(p, i) < PageSizes[p]
    <3>. DEFINE sizes == LineSizes(p)
                n == Len(sizes)
    <3>1. sizes \in Seq(Nat) /\ n = m(p) /\ m(p) \in Nat /\ i \in 1..m(p) /\ sizes[i] > 0
      BY <1>1, LinesCount
    <3>. HIDE DEF sizes, m
    <3>2. n \in Nat /\ i - 1 \in 0..n /\ n \in 0..n /\ i - 1 < n /\ i - 1 <= n /\ i - 1 + 1 = i /\ sizes[i] \in Nat
      BY <3>1
    <3>3. Sum(Prefix(sizes, i - 1)) + sizes[i - 1 + 1] <= Sum(Prefix(sizes, n)) /\ Sum(Prefix(sizes, n)) \in Nat
      BY <3>1, <3>2, PrefixesGrow
    <3>4. Prefix(sizes, n) = sizes
      <4>1. sizes = [k \in 1..n |-> sizes[k]]
        BY <3>1
      <4>. QED
        BY <4>1 DEF Prefix
    <3>5. PageSizes[p] = Sum(sizes) /\ L(p, i) = Sum(Prefix(sizes, i - 1)) /\ L(p, i) \in Nat
      BY <1>4, PagesCount DEF sizes
    <3>. HIDE DEF n, L
    <3>6. L(p, i) + sizes[i] <= PageSizes[p] /\ PageSizes[p] \in Nat
      BY <3>2, <3>3, <3>4, <3>5
    <3>. QED
      BY <3>1, <3>2, <3>5, <3>6
  <2>2. P(p) + PageSizes[p] <= P(q)
    <3>1. /\ PageSizes \in Seq(Nat) /\ p - 1 \in 0..Len(PageSizes) /\ q - 1 \in 0..Len(PageSizes)
          /\ p - 1 <= q - 1 /\ p - 1 < q - 1 /\ p - 1 + 1 = p
      BY <1>1, <1>5, PagesCount
    <3>2. Sum(Prefix(PageSizes, p - 1)) + PageSizes[p - 1 + 1] <= Sum(Prefix(PageSizes, q - 1))
      BY <3>1, PrefixesGrow
    <3>. QED
      BY <3>1, <3>2
  <2>3. PageSizes[p] \in Nat
    <3>1. PageSizes \in Seq(Nat) /\ Len(PageSizes) = Len(document)
      BY PagesCount
    <3>. QED
      BY <1>1, <3>1
  <2>4. P(p) \in Nat /\ P(q) \in Nat /\ L(p, i) \in Nat
    BY <1>3, <1>4
  <2>. HIDE DEF P, L
  <2>. QED
    BY <2>1, <2>2, <2>3, <2>4
<1>. HIDE DEF P, L, m
<1>6. CharStart(p, i) \in Nat
  BY <1>2, <1>3, <1>4
<1>7. ASSUME NEW j \in DOMAIN document[p].lines, i < j
      PROVE  CharStart(p, i) < CharStart(p, j)
  BY <1>2, <1>3, <1>4, <1>7
<1>8. ASSUME NEW q \in DOMAIN document, NEW j \in DOMAIN document[q].lines, p < q
      PROVE  CharStart(p, i) < CharStart(q, j)
  BY <1>2, <1>3, <1>4, <1>5, <1>8
<1>. QED
  BY <1>6, <1>7, <1>8

\* The lines the extractor makes of a page.
LEMMA BuildLinesHold ==
    ASSUME document \in Document, NEW p \in DOMAIN document
    PROVE  /\ BuildLines(p) \in Seq(Line) /\ DOMAIN BuildLines(p) = DOMAIN document[p].lines
           /\ Len(BuildLines(p)) = Len(document[p].lines)
           /\ \A i \in DOMAIN document[p].lines :
                 BuildLines(p)[i].start = CharStart(p, i) /\ BuildLines(p)[i].page = p
<1>. DEFINE list == document[p].lines
            built == BuildLines(p)
<1>1. p \in Nat
  BY PrintedHolds
<1>2. Len(list) \in Nat /\ DOMAIN list = 1..Len(list) /\ \A i \in DOMAIN list : list[i] \in LineKind
  BY LinesCount
<1>3. built = [i \in DOMAIN list |-> PlacedLine(list[i], p, CharStart(p, i))]
  BY DEF BuildLines
<1>4. \A i \in DOMAIN list : CharStart(p, i) \in Nat
  BY StartsAscend
<1>. HIDE DEF list, built
<1>5. ASSUME NEW i \in DOMAIN list
      PROVE  built[i] \in Line /\ built[i].start = CharStart(p, i) /\ built[i].page = p
  <2>1. list[i] \in LineKind /\ CharStart(p, i) \in Nat /\ built[i] = PlacedLine(list[i], p, CharStart(p, i))
    BY <1>2, <1>3, <1>4
  <2>. QED
    BY <1>1, <2>1 DEF PlacedLine, LineKind, Line
<1>6. built \in [1..Len(list) -> Line] /\ DOMAIN built = DOMAIN list
  BY <1>2, <1>3, <1>5
<1>7. built \in Seq(Line) /\ Len(built) = Len(list)
  BY <1>2, <1>6
<1>. QED
  BY <1>5, <1>6, <1>7 DEF list, built

\* The score of a page is a percentage, whatever is counted.
LEMMA ConfidenceHolds ==
    ASSUME NEW c \in Counts
    PROVE  AssessPageText(c) \in 0..100
<1>. DEFINE full == 4 * MinChars
            x == (100 * c.chars) \div full
            d == Density(c)
<1>1. c.chars \in Nat /\ c.bad \in 0..100 /\ c.plausible \in 0..100 /\ MinChars \in Nat /\ MinChars > 0
  BY MinCharsAssumption DEF Counts
<1>2. x \in Nat
  <2>1. full \in Nat /\ full > 0 /\ 100 * c.chars \in Nat
    BY <1>1
  <2>. HIDE DEF full
  <2>. QED
    BY <2>1
<1>. HIDE DEF x
<1>3. d \in 0..100
  BY <1>2 DEF Density, Smaller, x
<1>. HIDE DEF d
<1>4. (d * 4) \div 10 \in 0..100 /\ d \div 4 \in 0..25
  BY <1>3
<1>5. (c.plausible * 8) \div 10 \in 0..100 /\ c.plausible \div 5 \in 0..20
  BY <1>1
<1>6. Larger(0, 40 - c.bad) \in 0..100
  BY <1>1 DEF Larger
<1>7. ~BrokenFont(c) => Smaller(100, 55 + d \div 4 + c.plausible \div 5 - c.bad) \in 0..100
  BY <1>1, <1>4, <1>5 DEF Smaller, BrokenFont
<1>. QED
  BY <1>4, <1>5, <1>6, <1>7 DEF AssessPageText, d

-----------------------------------------------------------------------------
(* The invariant of the pipeline *)

AllLines == FlattenSeq([p \in DOMAIN pages |-> pages[p].lines])
AllText  == FlattenSeq([p \in DOMAIN pages |-> pages[p].text])

\* What the extractor and the OCR engine make of a page.
PageRecord ==
    [ number : Nat, lines : Seq(Line), text : Seq(Piece), ocred : BOOLEAN,
      method : {"text_layer", "failed", "ocr", "mixed"}, confidence : 0..100 ]

\* The lines of a page are lines of the document, in their order.
LinesOf(p, lines) ==
    /\ lines \in Seq(Line)
    /\ \A k \in DOMAIN lines : \E j \in DOMAIN document[p].lines : lines[k] = BuildLines(p)[j]
    /\ \A i, k \in DOMAIN lines : i < k => lines[i].start < lines[k].start

\* All its lines are there but those of a table.
Complete(p, lines, found) ==
    \A j \in DOMAIN document[p].lines :
        \/ \E k \in DOMAIN lines : lines[k] = BuildLines(p)[j]
        \/ j \in document[p].boxed /\ \E t \in DOMAIN found : found[t].page = p

\* A page of which the tables found have been cut out.
PageOf(p, page, found) ==
    /\ page \in PageRecord
    /\ page.ocred => page.confidence <= 75 /\ page.text \in {<<>>, <<[id |-> -p, size |-> 1]>>}
    /\ ~page.ocred => page.text = TextOf(page.lines)
    /\ LinesOf(p, page.lines)
    /\ page.method \notin {"failed", "ocr"} => Complete(p, page.lines, found)

Uncut(p, page) == page.lines \in {<<>>, BuildLines(p)}

PageHolds(p) ==
    /\ PageOf(p, pages[p], tables)
    /\ stage \in {"extracted", "ocr_completed"} => Uncut(p, pages[p])
    /\ stage = "extracted" => ~pages[p].ocred

\* A table is one of the document, and its lines are not in the prose.
CutOut(p, lines) ==
    \A k \in DOMAIN lines : lines[k].start \in Ids(ExtractedTable(p).text) =>
        DOMAIN document[p].lines \subseteq document[p].boxed

TableHolds(t) ==
    LET p == tables[t].page
    IN  /\ p \in DOMAIN document /\ p \in DOMAIN pages /\ ~pages[p].ocred
        /\ tables[t] = ExtractedTable(p) /\ CutOut(p, pages[p].lines)

Untabled == {"uploaded", "extracted", "ocr_completed"}
Unparsed == Untabled \union {"tables_extracted", "metadata_detected"}

PipelineInv ==
    /\ document \in Document /\ stage \in ProcessingStage
    /\ stage = "uploaded" => pages = <<>>
    /\ DOMAIN pages = DOMAIN document \/ (stage \in {"uploaded", "failed"} /\ DOMAIN pages = {})
    /\ \A p \in DOMAIN pages : PageHolds(p)
    /\ tables \in Seq(TableRecord) /\ \A t \in DOMAIN tables : TableHolds(t)
    /\ Parsed(sections, AllLines)
    /\ stage \in Untabled => tables = <<>>
    /\ stage \in Unparsed => sections = <<>>
    /\ stage \in {"chunked", "indexed"} => Chunked(chunks, sections, tables, AllText)
    /\ stage \notin {"chunked", "indexed"} => chunks = <<>>
    /\ row = IF stage = "indexed"
             THEN [i \in DOMAIN chunks |-> [section |-> SectionRow(chunks[i]), parent |-> ParentRow(chunks[i])]]
             ELSE <<>>

\* What the invariant says of the pages.
LEMMA PagesHold ==
    ASSUME PipelineInv
    PROVE  /\ document \in Document /\ DOMAIN pages \subseteq DOMAIN document
           /\ \E n \in Nat : DOMAIN pages = 1..n
           /\ \A p \in DOMAIN pages : /\ PageHolds(p) /\ LinesOf(p, pages[p].lines) /\ pages[p] \in PageRecord
                                      /\ pages[p].lines \in Seq(Line) /\ pages[p].text \in Seq(Piece)
                                      /\ pages[p].ocred \in BOOLEAN
<1>1. document \in Document /\ \A p \in DOMAIN pages : PageHolds(p)
  BY DEF PipelineInv
<1>2. DOMAIN pages \subseteq DOMAIN document /\ \E n \in Nat : DOMAIN pages = 1..n
  <2>1. DOMAIN pages = DOMAIN document \/ DOMAIN pages = {}
    BY DEF PipelineInv
  <2>2. Len(document) \in Nat /\ DOMAIN document = 1..Len(document)
    BY <1>1, PrintedHolds
  <2>3. 1..0 = {} /\ 0 \in Nat
    OBVIOUS
  <2>. QED
    BY <2>1, <2>2, <2>3
<1>3. \A p \in DOMAIN pages : pages[p] \in PageRecord /\ LinesOf(p, pages[p].lines)
  BY <1>1 DEF PageHolds, PageOf
<1>4. \A x \in PageRecord : x.lines \in Seq(Line) /\ x.text \in Seq(Piece) /\ x.ocred \in BOOLEAN
  BY DEF PageRecord
<1>. QED
  BY <1>1, <1>2, <1>3, <1>4

\* Lists taken from each page, joined.
LEMMA ListsJoin ==
    ASSUME NEW T, NEW list \in Seq(Seq(T))
    PROVE  /\ FlattenSeq(list) \in Seq(T)
           /\ \A a \in DOMAIN FlattenSeq(list) : \E p \in DOMAIN list : \E k \in DOMAIN list[p] :
                 FlattenSeq(list)[a] = list[p][k]
           /\ \A p \in DOMAIN list : \A k \in DOMAIN list[p] : \E a \in DOMAIN FlattenSeq(list) :
                 FlattenSeq(list)[a] = list[p][k]
<1>. DEFINE all == FlattenSeq(list)
<1>1. all \in Seq(T) /\ ToSet(all) = UNION {ToSet(list[p]) : p \in DOMAIN list}
  BY FlattenedHolds
<1>2. ToSet(all) = {all[a] : a \in DOMAIN all} /\ \A p \in DOMAIN list : ToSet(list[p]) = {list[p][k] : k \in DOMAIN list[p]}
  BY DEF ToSet
<1>. HIDE DEF all
<1>3. ASSUME NEW a \in DOMAIN all PROVE \E p \in DOMAIN list : \E k \in DOMAIN list[p] : all[a] = list[p][k]
  <2>1. all[a] \in UNION {ToSet(list[p]) : p \in DOMAIN list}
    BY <1>1, <1>2
  <2>2. PICK p \in DOMAIN list : all[a] \in ToSet(list[p])
    BY <2>1
  <2>. QED
    BY <1>2, <2>2
<1>4. ASSUME NEW p \in DOMAIN list, NEW k \in DOMAIN list[p] PROVE \E a \in DOMAIN all : all[a] = list[p][k]
  <2>1. list[p][k] \in ToSet(all)
    BY <1>1, <1>2
  <2>. QED
    BY <1>2, <2>1
<1>. QED
  BY <1>1, <1>3, <1>4 DEF all

\* The lines of all pages, joined, are in the order of the text.
LEMMA AllLinesHold ==
    ASSUME PipelineInv
    PROVE  /\ AllLines \in Seq(Line) /\ Ordered(AllLines)
           /\ \A a \in DOMAIN AllLines : \E p \in DOMAIN pages : \E k \in DOMAIN pages[p].lines :
                 AllLines[a] = pages[p].lines[k]
           /\ \A p \in DOMAIN pages : \A k \in DOMAIN pages[p].lines : \E a \in DOMAIN AllLines :
                 AllLines[a] = pages[p].lines[k]
<1>. DEFINE list == [p \in DOMAIN pages |-> pages[p].lines]
<1>1. PICK n \in Nat : DOMAIN pages = 1..n
  BY PagesHold
<1>2. /\ DOMAIN list = 1..n /\ list \in Seq(Seq(Line))
      /\ \A p \in 1..n : list[p] = pages[p].lines /\ list[p] \in Seq(Line)
  <2>1. \A p \in 1..n : list[p] = pages[p].lines /\ list[p] \in Seq(Line)
    BY <1>1, PagesHold
  <2>. DEFINE S == Seq(Line)
  <2>2. list \in [1..n -> S] /\ n \in Nat
    BY <1>1, <2>1
  <2>. HIDE DEF S, list
  <2>3. list \in Seq(S) /\ DOMAIN list = 1..n
    BY <2>2
  <2>. QED
    BY <2>1, <2>3 DEF S
<1>3. AllLines = FlattenSeq(list)
  BY DEF AllLines
<1>. HIDE DEF list
<1>4. /\ AllLines \in Seq(Line)
      /\ \A a \in DOMAIN AllLines : \E p \in 1..n : \E k \in DOMAIN list[p] : AllLines[a] = list[p][k]
      /\ \A p \in 1..n : \A k \in DOMAIN list[p] : \E a \in DOMAIN AllLines : AllLines[a] = list[p][k]
  <2>1. list \in Seq(Seq(Line))
    BY <1>2
  <2>2. /\ FlattenSeq(list) \in Seq(Line)
        /\ \A a \in DOMAIN FlattenSeq(list) : \E p \in DOMAIN list : \E k \in DOMAIN list[p] :
              FlattenSeq(list)[a] = list[p][k]
        /\ \A p \in DOMAIN list : \A k \in DOMAIN list[p] : \E a \in DOMAIN FlattenSeq(list) :
              FlattenSeq(list)[a] = list[p][k]
    BY <2>1, ListsJoin
  <2>3. DOMAIN list = 1..n
    BY <1>2
  <2>. QED
    BY <1>3, <2>2, <2>3
<1>5. ASSUME NEW a \in DOMAIN AllLines, NEW b \in DOMAIN AllLines, a < b
      PROVE  AllLines[a].start < AllLines[b].start /\ AllLines[a].page <= AllLines[b].page
  <2>1. \E i, j \in DOMAIN list : \E x \in DOMAIN list[i], y \in DOMAIN list[j] :
           /\ AllLines[a] = list[i][x] /\ AllLines[b] = list[j][y]
           /\ i < j \/ (i = j /\ x < y)
    BY <1>2, <1>3, <1>5, FlattenKeepsOrder, SMTT(60)
  <2>2. PICK i \in DOMAIN list, j \in DOMAIN list : \E x \in DOMAIN list[i], y \in DOMAIN list[j] :
           /\ AllLines[a] = list[i][x] /\ AllLines[b] = list[j][y]
           /\ i < j \/ (i = j /\ x < y)
    BY <2>1
  <2>3. PICK x \in DOMAIN list[i], y \in DOMAIN list[j] :
           /\ AllLines[a] = list[i][x] /\ AllLines[b] = list[j][y]
           /\ i < j \/ (i = j /\ x < y)
    BY <2>2
  <2>4. /\ i \in DOMAIN pages /\ j \in DOMAIN pages /\ i \in DOMAIN document /\ j \in DOMAIN document
        /\ i \in Nat /\ j \in Nat /\ document \in Document
        /\ list[i] = pages[i].lines /\ list[j] = pages[j].lines
        /\ LinesOf(i, pages[i].lines) /\ LinesOf(j, pages[j].lines)
    BY <1>1, <1>2, PagesHold
  <2>5. PICK v \in DOMAIN document[i].lines : list[i][x] = BuildLines(i)[v]
    BY <2>4 DEF LinesOf
  <2>6. PICK w \in DOMAIN document[j].lines : list[j][y] = BuildLines(j)[w]
    BY <2>4 DEF LinesOf
  <2>7. /\ AllLines[a].start = CharStart(i, v) /\ AllLines[a].page = i
        /\ AllLines[b].start = CharStart(j, w) /\ AllLines[b].page = j
    BY <2>3, <2>4, <2>5, <2>6, BuildLinesHold
  <2>8. CASE i < j
    BY <2>4, <2>7, <2>8, StartsAscend
  <2>9. CASE i = j /\ x < y
    BY <2>3, <2>4, <2>7, <2>9 DEF LinesOf
  <2>. QED
    BY <2>3, <2>8, <2>9
<1>6. Ordered(AllLines)
  <2>. HIDE DEF AllLines
  <2>. QED
    BY <1>5 DEF Ordered
<1>7. \A a \in DOMAIN AllLines : \E p \in DOMAIN pages : \E k \in DOMAIN pages[p].lines : AllLines[a] = pages[p].lines[k]
  <2>1. ASSUME NEW a \in DOMAIN AllLines
        PROVE  \E p \in DOMAIN pages : \E k \in DOMAIN pages[p].lines : AllLines[a] = pages[p].lines[k]
    <3>1. PICK p \in 1..n : \E k \in DOMAIN list[p] : AllLines[a] = list[p][k]
      BY <1>4
    <3>. QED
      BY <1>1, <1>2, <3>1
  <2>. QED
    BY <2>1
<1>8. \A p \in DOMAIN pages : \A k \in DOMAIN pages[p].lines : \E a \in DOMAIN AllLines : AllLines[a] = pages[p].lines[k]
  BY <1>1, <1>2, <1>4
<1>. QED
  BY <1>4, <1>6, <1>7, <1>8

\* The text of all pages, joined.
LEMMA AllTextHolds ==
    ASSUME PipelineInv
    PROVE  /\ AllText \in Seq(Piece)
           /\ \A id : id \in Ids(AllText) <=> \E p \in DOMAIN pages : id \in Ids(pages[p].text)
<1>. DEFINE list == [p \in DOMAIN pages |-> pages[p].text]
<1>1. PICK n \in Nat : DOMAIN pages = 1..n
  BY PagesHold
<1>2. /\ DOMAIN list = 1..n /\ list \in Seq(Seq(Piece))
      /\ \A p \in 1..n : list[p] = pages[p].text /\ list[p] \in Seq(Piece)
  <2>1. \A p \in 1..n : list[p] = pages[p].text /\ list[p] \in Seq(Piece)
    BY <1>1, PagesHold
  <2>. DEFINE S == Seq(Piece)
  <2>2. list \in [1..n -> S] /\ n \in Nat
    BY <1>1, <2>1
  <2>. HIDE DEF S, list
  <2>3. list \in Seq(S) /\ DOMAIN list = 1..n
    BY <2>2
  <2>. QED
    BY <2>1, <2>3 DEF S
<1>3. AllText = FlattenSeq(list)
  BY DEF AllText
<1>. HIDE DEF list
<1>4. /\ AllText \in Seq(Piece)
      /\ \A a \in DOMAIN AllText : \E p \in 1..n : \E k \in DOMAIN list[p] : AllText[a] = list[p][k]
      /\ \A p \in 1..n : \A k \in DOMAIN list[p] : \E a \in DOMAIN AllText : AllText[a] = list[p][k]
  <2>1. list \in Seq(Seq(Piece))
    BY <1>2
  <2>2. /\ FlattenSeq(list) \in Seq(Piece)
        /\ \A a \in DOMAIN FlattenSeq(list) : \E p \in DOMAIN list : \E k \in DOMAIN list[p] :
              FlattenSeq(list)[a] = list[p][k]
        /\ \A p \in DOMAIN list : \A k \in DOMAIN list[p] : \E a \in DOMAIN FlattenSeq(list) :
              FlattenSeq(list)[a] = list[p][k]
    BY <2>1, ListsJoin
  <2>3. DOMAIN list = 1..n
    BY <1>2
  <2>. QED
    BY <1>3, <2>2, <2>3
<1>5. ASSUME NEW id PROVE id \in Ids(AllText) <=> \E p \in DOMAIN pages : id \in Ids(pages[p].text)
  <2>1. ASSUME id \in Ids(AllText) PROVE \E p \in DOMAIN pages : id \in Ids(pages[p].text)
    <3>1. PICK a \in DOMAIN AllText : id = AllText[a].id
      BY <2>1 DEF Ids
    <3>2. PICK p \in 1..n : \E k \in DOMAIN list[p] : AllText[a] = list[p][k]
      BY <1>4
    <3>. QED
      BY <1>1, <1>2, <3>1, <3>2 DEF Ids
  <2>2. ASSUME NEW p \in DOMAIN pages, id \in Ids(pages[p].text) PROVE id \in Ids(AllText)
    <3>1. PICK k \in DOMAIN list[p] : id = list[p][k].id
      BY <1>1, <1>2, <2>2 DEF Ids
    <3>2. PICK a \in DOMAIN AllText : AllText[a] = list[p][k]
      BY <1>1, <1>4
    <3>. QED
      BY <3>1, <3>2 DEF Ids
  <2>. QED
    BY <2>1, <2>2
<1>. QED
  BY <1>4, <1>5

-----------------------------------------------------------------------------
(* What a stage makes of a page *)

\* A page as extracted, or as it is when it cannot be read.
LEMMA PageExtracted ==
    ASSUME document \in Document, NEW p \in DOMAIN document, NEW page \in {FailedPage(p), ExtractPage(p)}
    PROVE  PageOf(p, page, <<>>) /\ Uncut(p, page) /\ ~page.ocred
<1>1. /\ p \in Nat /\ document[p].counts \in Counts /\ BuildLines(p) \in Seq(Line)
      /\ DOMAIN BuildLines(p) = DOMAIN document[p].lines
      /\ \A i \in DOMAIN document[p].lines : BuildLines(p)[i].start = CharStart(p, i)
  BY PrintedHolds, BuildLinesHold
<1>2. AssessPageText(document[p].counts) \in 0..100
  BY <1>1, ConfidenceHolds
<1>3. TextOf(BuildLines(p)) \in Seq(Piece) /\ TextOf(<<>>) = <<>>
  BY <1>1, TextOfHolds DEF TextOf
<1>4. LinesOf(p, BuildLines(p))
  <2>1. \A i, k \in DOMAIN document[p].lines : i < k => CharStart(p, i) < CharStart(p, k)
    BY StartsAscend
  <2>. QED
    BY <1>1, <2>1 DEF LinesOf
<1>5. LinesOf(p, <<>>)
  BY DEF LinesOf
<1>6. Complete(p, BuildLines(p), <<>>)
  BY <1>1 DEF Complete
<1>7. CASE page = FailedPage(p)
  <2>1. page \in PageRecord /\ ~page.ocred /\ page.lines = <<>> /\ page.text = <<>> /\ page.method = "failed"
    BY <1>1, <1>7 DEF FailedPage, PageRecord
  <2>. QED
    BY <1>3, <1>5, <2>1 DEF PageOf, Uncut
<1>8. CASE page = ExtractPage(p)
  <2>1. /\ page \in PageRecord /\ ~page.ocred /\ page.lines = BuildLines(p) /\ page.text = TextOf(page.lines)
        /\ page.method = "text_layer"
    BY <1>1, <1>2, <1>3, <1>8 DEF ExtractPage, PageRecord
  <2>. QED
    BY <1>4, <1>6, <2>1 DEF PageOf, Uncut
<1>. QED
  BY <1>7, <1>8

\* A page after OCR: the better of two readings.
LEMMA PageReadBack ==
    ASSUME document \in Document, NEW p \in DOMAIN document, NEW page, PageOf(p, page, <<>>), Uncut(p, page),
           ~page.ocred, NEW c \in Counts
    PROVE  LET read == PreferOcr(page, ReadBack(p, c))
           IN  PageOf(p, read, <<>>) /\ Uncut(p, read) /\ read.confidence >= page.confidence
<1>. DEFINE back == ReadBack(p, c)
            read == PreferOcr(page, back)
<1>1. p \in Nat /\ page \in PageRecord /\ page.confidence \in 0..100 /\ page.lines \in Seq(Line)
  BY PrintedHolds DEF PageOf, PageRecord
<1>2. CASE back.confidence <= page.confidence
  <2>1. read = page
    BY <1>2 DEF PreferOcr
  <2>. DEFINE was == page.confidence
  <2>2. was \in 0..100
    BY <1>1
  <2>. HIDE DEF was
  <2>3. was >= was
    BY <2>2
  <2>. QED
    BY <2>1, <2>3 DEF was
<1>3. CASE ~(back.confidence <= page.confidence)
  <2>. DEFINE text == IF c.chars = 0 THEN <<>> ELSE <<[id |-> -p, size |-> 1]>>
              conf == Smaller(AssessPageText(c), 75)
              method == IF page.text # <<>> THEN "mixed" ELSE "ocr"
  <2>1. conf \in 0..100 /\ conf <= 75
    <3>. DEFINE a == AssessPageText(c)
    <3>1. a \in 0..100 /\ conf = Smaller(a, 75)
      BY ConfidenceHolds
    <3>. HIDE DEF a, conf
    <3>. QED
      BY <3>1 DEF Smaller
  <2>2. text \in Seq(Piece) /\ text \in {<<>>, <<[id |-> -p, size |-> 1]>>}
    <3>1. [id |-> -p, size |-> 1] \in Piece
      BY <1>1 DEF Piece
    <3>. QED
      BY <3>1
  <2>3. back = [ number |-> p, lines |-> <<>>, ocred |-> TRUE, method |-> "ocr", confidence |-> conf, text |-> text ]
    BY DEF ReadBack
  <2>. HIDE DEF text, conf, method, back
  <2>4. read = [ number |-> p, lines |-> page.lines, ocred |-> TRUE, method |-> method, confidence |-> conf, text |-> text ]
    BY <1>3, <2>3 DEF PreferOcr, method
  <2>5. /\ read \in PageRecord /\ read.ocred /\ read.lines = page.lines /\ read.method = method
        /\ read.confidence = conf /\ read.text = text
    <3>1. method \in {"mixed", "ocr"}
      BY DEF method
    <3>. HIDE DEF read
    <3>. QED
      BY <1>1, <2>1, <2>2, <2>4, <3>1 DEF PageRecord
  <2>6. back.confidence = conf
    BY <2>3
  <2>. HIDE DEF read
  <2>7. ASSUME method \notin {"failed", "ocr"} PROVE Complete(p, page.lines, <<>>)
    <3>1. page.text # <<>> /\ page.text = TextOf(page.lines)
      BY <2>7 DEF method, PageOf
    <3>2. page.lines # <<>>
      BY <3>1 DEF TextOf
    <3>3. page.lines = BuildLines(p)
      BY <3>2 DEF Uncut
    <3>. QED
      BY <3>3, BuildLinesHold DEF Complete
  <2>8. PageOf(p, read, <<>>)
    BY <2>1, <2>2, <2>5, <2>7 DEF PageOf
  <2>9. Uncut(p, read)
    BY <2>5 DEF Uncut
  <2>. QED
    <3>. DEFINE was == page.confidence
    <3>2. was \in 0..100 /\ ~(conf <= was) /\ read.confidence = conf
      BY <1>1, <1>3, <2>5, <2>6
    <3>. HIDE DEF was
    <3>3. conf >= was
      BY <2>1, <3>2
    <3>1. read.confidence >= page.confidence
      BY <3>2, <3>3 DEF was
    <3>. QED
      BY <2>8, <2>9, <3>1 DEF read, back
<1>. QED
  BY <1>2, <1>3

\* No two lines of a document start at one offset.
LEMMA StartsDiffer ==
    ASSUME document \in Document, NEW p \in DOMAIN document, NEW q \in DOMAIN document,
           NEW i \in DOMAIN document[p].lines, NEW j \in DOMAIN document[q].lines, CharStart(p, i) = CharStart(q, j)
    PROVE  p = q /\ i = j
<1>1. p \in Nat /\ q \in Nat
  BY PrintedHolds
<1>2. CharStart(p, i) \in Nat /\ CharStart(q, j) \in Nat
  BY StartsAscend
<1>3. ~(p < q)
  <2>1. p < q => CharStart(p, i) < CharStart(q, j)
    BY StartsAscend
  <2>. QED
    BY <1>2, <2>1
<1>4. ~(q < p)
  <2>1. q < p => CharStart(q, j) < CharStart(p, i)
    BY StartsAscend
  <2>. QED
    BY <1>2, <2>1
<1>5. p = q
  BY <1>1, <1>3, <1>4
<1>6. i \in Nat /\ j \in Nat /\ i \in DOMAIN document[p].lines /\ j \in DOMAIN document[p].lines
  BY <1>5, LinesCount
<1>7. ~(i < j)
  <2>1. i < j => CharStart(p, i) < CharStart(p, j)
    BY <1>6, StartsAscend
  <2>. QED
    BY <1>2, <1>5, <2>1
<1>8. ~(j < i)
  <2>1. j < i => CharStart(p, j) < CharStart(p, i)
    BY <1>6, StartsAscend
  <2>. QED
    BY <1>2, <1>5, <2>1
<1>. QED
  BY <1>5, <1>6, <1>7, <1>8

\* A table has the lines of its box.
LEMMA ExtractedTableHolds ==
    ASSUME document \in Document, NEW p \in DOMAIN document
    PROVE  /\ ExtractedTable(p) \in TableRecord /\ ExtractedTable(p).page = p
           /\ ExtractedTable(p).sparse <=> document[p].table = "sparse"
           /\ Ids(ExtractedTable(p).text) = {CharStart(p, j) : j \in document[p].boxed \intersect DOMAIN document[p].lines}
<1>. DEFINE list == document[p].lines
            boxed == Ascending(Len(list), document[p].boxed)
            text == [k \in DOMAIN boxed |-> [id |-> CharStart(p, boxed[k]), size |-> list[boxed[k]].size]]
            tab == ExtractedTable(p)
<1>1. /\ p \in Nat /\ Len(list) \in Nat /\ DOMAIN list = 1..Len(list)
      /\ \A j \in DOMAIN list : list[j] \in LineKind /\ CharStart(p, j) \in Nat
  BY PrintedHolds, LinesCount, StartsAscend
<1>2. boxed \in Seq(1..Len(list)) /\ ToSet(boxed) = document[p].boxed \intersect 1..Len(list)
  BY <1>1, AscendingHolds
<1>3. tab = [page |-> p, sparse |-> document[p].table = "sparse", text |-> text]
  BY DEF ExtractedTable
<1>4. DOMAIN text = DOMAIN boxed /\ \A k \in DOMAIN boxed :
         text[k] = [id |-> CharStart(p, boxed[k]), size |-> list[boxed[k]].size]
  OBVIOUS
<1>5. text \in Seq(Piece)
  <2>. DEFINE R == 1..Len(list)
              n == Len(boxed)
  <2>1. boxed \in Seq(R)
    BY <1>2
  <2>. HIDE DEF R, boxed
  <2>2. n \in Nat /\ DOMAIN boxed = 1..n /\ \A k \in 1..n : boxed[k] \in R
    BY <2>1
  <2>3. ASSUME NEW k \in 1..n PROVE text[k] \in Piece
    <3>1. /\ list[boxed[k]] \in LineKind /\ CharStart(p, boxed[k]) \in Nat
          /\ text[k] = [id |-> CharStart(p, boxed[k]), size |-> list[boxed[k]].size]
      BY <1>1, <1>4, <2>2 DEF R
    <3>2. list[boxed[k]].size \in Nat
      BY <3>1 DEF LineKind
    <3>. QED
      BY <3>1, <3>2 DEF Piece
  <2>. HIDE DEF n
  <2>4. text \in [1..n -> Piece]
    BY <2>2, <2>3
  <2>. HIDE DEF text
  <2>. QED
    BY <2>2, <2>4
<1>6. Ids(text) = {CharStart(p, j) : j \in document[p].boxed \intersect DOMAIN list}
  <2>1. ToSet(boxed) = {boxed[k] : k \in DOMAIN boxed}
    BY DEF ToSet
  <2>2. {boxed[k] : k \in DOMAIN boxed} = document[p].boxed \intersect DOMAIN list
    BY <1>1, <1>2, <2>1
  <2>3. Ids(text) = {CharStart(p, boxed[k]) : k \in DOMAIN boxed}
    BY <1>4 DEF Ids
  <2>. HIDE DEF boxed, text
  <2>. QED
    BY <2>2, <2>3
<1>. HIDE DEF text, tab
<1>7. tab \in TableRecord
  <2>1. (document[p].table = "sparse") \in BOOLEAN
    OBVIOUS
  <2>. QED
    BY <1>1, <1>3, <1>5, <2>1 DEF TableRecord
<1>8. tab.page = p /\ (tab.sparse <=> document[p].table = "sparse") /\ tab.text = text
  BY <1>3
<1>. QED
  BY <1>6, <1>7, <1>8 DEF tab

\* What remains of a page are its other lines, all of them.
LEMMA RemainingHolds ==
    ASSUME document \in Document, NEW p \in DOMAIN document, LinesOf(p, pages[p].lines)
    PROVE  LET rest == RemainingLines(p)
           IN  /\ LinesOf(p, rest)
               /\ \A k \in DOMAIN pages[p].lines : \A j \in DOMAIN document[p].lines :
                     /\ pages[p].lines[k] = BuildLines(p)[j]
                     /\ document[p].table \in {"none", "artefact"} \/ j \notin document[p].boxed
                     => \E r \in DOMAIN rest : rest[r] = BuildLines(p)[j]
               /\ document[p].table \in {"sparse", "data"} => \A r \in DOMAIN rest :
                     rest[r].start \notin Ids(ExtractedTable(p).text)
<1>. DEFINE lines == pages[p].lines
            kept(j) == document[p].table \in {"none", "artefact"} \/ j \notin document[p].boxed
            remains(l) == \E j \in DOMAIN document[p].lines : CharStart(p, j) = l.start /\ kept(j)
            places == {k \in DOMAIN lines : remains(lines[k])}
            rest == RemainingLines(p)
<1>1. /\ lines \in Seq(Line)
      /\ \A k \in DOMAIN lines : \E j \in DOMAIN document[p].lines : lines[k] = BuildLines(p)[j]
      /\ \A i, k \in DOMAIN lines : i < k => lines[i].start < lines[k].start
  BY DEF LinesOf
<1>2. \A j \in DOMAIN document[p].lines : BuildLines(p)[j].start = CharStart(p, j)
  BY BuildLinesHold
<1>3. rest = Subsequence(lines, places)
  BY DEF RemainingLines
<1>4. \A k : k \in places <=> k \in DOMAIN lines /\ remains(lines[k])
  OBVIOUS
<1>5. \A l : remains(l) <=> \E j \in DOMAIN document[p].lines : CharStart(p, j) = l.start /\ kept(j)
  OBVIOUS
<1>. HIDE DEF lines, places, remains, rest
<1>6. /\ rest \in Seq(Line)
      /\ \E at \in [DOMAIN rest -> places \intersect DOMAIN lines] :
            /\ \A i \in DOMAIN rest : rest[i] = lines[at[i]]
            /\ \A i, j \in DOMAIN rest : i < j => at[i] < at[j]
            /\ \A q \in places \intersect DOMAIN lines : \E i \in DOMAIN rest : at[i] = q
  BY <1>1, <1>3, SubsequenceKeepsOrder
<1>7. PICK at \in [DOMAIN rest -> places \intersect DOMAIN lines] :
         /\ \A i \in DOMAIN rest : rest[i] = lines[at[i]]
         /\ \A i, j \in DOMAIN rest : i < j => at[i] < at[j]
         /\ \A q \in places \intersect DOMAIN lines : \E i \in DOMAIN rest : at[i] = q
  BY <1>6
<1>8. \A i \in DOMAIN rest : at[i] \in places /\ at[i] \in DOMAIN lines
  BY <1>7
<1>9. LinesOf(p, rest)
  <2>1. \A r \in DOMAIN rest : \E j \in DOMAIN document[p].lines : rest[r] = BuildLines(p)[j]
    BY <1>1, <1>7, <1>8
  <2>2. \A i, k \in DOMAIN rest : i < k => rest[i].start < rest[k].start
    BY <1>1, <1>7, <1>8
  <2>. QED
    BY <1>6, <2>1, <2>2 DEF LinesOf
<1>10. ASSUME NEW k \in DOMAIN lines, NEW j \in DOMAIN document[p].lines, lines[k] = BuildLines(p)[j], kept(j)
       PROVE  \E r \in DOMAIN rest : rest[r] = BuildLines(p)[j]
  <2>1. lines[k].start = CharStart(p, j)
    BY <1>2, <1>10
  <2>2. remains(lines[k])
    BY <1>5, <1>10, <2>1
  <2>3. k \in places \intersect DOMAIN lines
    BY <1>4, <2>2
  <2>. QED
    BY <1>7, <1>10, <2>3
<1>11. ASSUME document[p].table \in {"sparse", "data"}, NEW r \in DOMAIN rest
       PROVE  rest[r].start \notin Ids(ExtractedTable(p).text)
  <2>1. remains(rest[r])
    BY <1>4, <1>7, <1>8
  <2>2. PICK j \in DOMAIN document[p].lines : CharStart(p, j) = rest[r].start /\ kept(j)
    BY <1>5, <2>1
  <2>3. j \notin document[p].boxed
    BY <1>11, <2>2
  <2>4. ASSUME rest[r].start \in Ids(ExtractedTable(p).text) PROVE FALSE
    <3>0. Ids(ExtractedTable(p).text) = {CharStart(p, i) : i \in document[p].boxed \intersect DOMAIN document[p].lines}
      BY ExtractedTableHolds
    <3>1. PICK i \in document[p].boxed \intersect DOMAIN document[p].lines : rest[r].start = CharStart(p, i)
      BY <2>4, <3>0
    <3>2. i = j
      BY <2>2, <3>1, StartsDiffer
    <3>. QED
      BY <2>3, <3>1, <3>2
  <2>. QED
    BY <2>4
<1>. QED
  BY <1>9, <1>10, <1>11 DEF lines, rest

\* Searching a page for tables, one of which may be found.
LEMMA PageSearched ==
    ASSUME document \in Document, NEW p \in DOMAIN document, PageOf(p, pages[p], <<>>), Uncut(p, pages[p]),
           ~pages[p].ocred, NEW found,
           document[p].table \in {"sparse", "data"} => \E t \in DOMAIN found : found[t].page = p
    PROVE  LET cut == IF RemainingLines(p) # <<>>
                      THEN [pages[p] EXCEPT !.lines = RemainingLines(p), !.text = TextOf(RemainingLines(p))]
                      ELSE pages[p]
           IN  /\ PageOf(p, cut, found) /\ ~cut.ocred /\ cut.confidence = pages[p].confidence
               /\ document[p].table \in {"sparse", "data"} => CutOut(p, cut.lines)
<1>. DEFINE page == pages[p]
            rest == RemainingLines(p)
            cut == IF rest # <<>> THEN [page EXCEPT !.lines = rest, !.text = TextOf(rest)] ELSE page
<1>1. page \in PageRecord /\ LinesOf(p, page.lines) /\ page.lines \in Seq(Line) /\ page.text = TextOf(page.lines)
  BY DEF PageOf, LinesOf
<1>2. /\ LinesOf(p, rest)
      /\ \A k \in DOMAIN page.lines : \A j \in DOMAIN document[p].lines :
            /\ page.lines[k] = BuildLines(p)[j]
            /\ document[p].table \in {"none", "artefact"} \/ j \notin document[p].boxed
            => \E r \in DOMAIN rest : rest[r] = BuildLines(p)[j]
      /\ document[p].table \in {"sparse", "data"} => \A r \in DOMAIN rest :
            rest[r].start \notin Ids(ExtractedTable(p).text)
  BY <1>1, RemainingHolds
<1>3. /\ DOMAIN BuildLines(p) = DOMAIN document[p].lines /\ BuildLines(p) \in Seq(Line)
      /\ \A j \in DOMAIN document[p].lines : BuildLines(p)[j].start = CharStart(p, j)
  BY BuildLinesHold
<1>4. document[p].table \in {"none", "artefact", "sparse", "data"}
  BY PrintedHolds
<1>5. page.lines \in {<<>>, BuildLines(p)}
  BY DEF Uncut
<1>6. page.method \notin {"failed", "ocr"} => Complete(p, page.lines, <<>>)
  BY DEF PageOf
<1>7. page.method \notin {"failed", "ocr"} => Complete(p, page.lines, found) /\ Complete(p, rest, found)
  <2>. HIDE DEF page, rest
  <2>1. ASSUME page.method \notin {"failed", "ocr"}, NEW j \in DOMAIN document[p].lines
        PROVE  /\ \E k \in DOMAIN page.lines : page.lines[k] = BuildLines(p)[j]
               /\ \/ \E k \in DOMAIN rest : rest[k] = BuildLines(p)[j]
                  \/ j \in document[p].boxed /\ \E t \in DOMAIN found : found[t].page = p
    <3>1. PICK k \in DOMAIN page.lines : page.lines[k] = BuildLines(p)[j]
      <4>1. DOMAIN <<>> = {}
        OBVIOUS
      <4>. QED
        BY <1>6, <2>1, <4>1 DEF Complete
    <3>. QED
      BY <1>2, <1>4, <3>1
  <2>. QED
    BY <2>1 DEF Complete
<1>. HIDE DEF page, rest
<1>8. ~page.ocred
  BY DEF page
<1>9. CASE rest # <<>>
  <2>1. rest \in Seq(Line) /\ TextOf(rest) \in Seq(Piece)
    BY <1>2, TextOfHolds DEF LinesOf
  <2>2. /\ cut \in PageRecord /\ (cut.ocred <=> page.ocred) /\ cut.confidence = page.confidence
        /\ cut.method = page.method /\ cut.lines = rest /\ cut.text = TextOf(rest)
    BY <1>1, <1>9, <2>1 DEF PageRecord
  <2>. HIDE DEF cut
  <2>3. PageOf(p, cut, found)
    BY <1>2, <1>7, <1>8, <2>2 DEF PageOf
  <2>4. document[p].table \in {"sparse", "data"} => CutOut(p, cut.lines)
    BY <1>2, <2>2 DEF CutOut
  <2>. QED
    BY <1>8, <2>2, <2>3, <2>4 DEF cut, page, rest
<1>10. CASE rest = <<>>
  <2>1. cut = page
    BY <1>10
  <2>. HIDE DEF cut
  <2>2. PageOf(p, page, found)
    BY <1>1, <1>7, <1>8 DEF PageOf
  <2>3. ASSUME document[p].table \in {"sparse", "data"} PROVE CutOut(p, page.lines)
    <3>1. CASE page.lines = <<>>
      BY <3>1 DEF CutOut
    <3>2. CASE page.lines = BuildLines(p)
      <4>1. \A j \in DOMAIN document[p].lines : ~\E r \in DOMAIN rest : rest[r] = BuildLines(p)[j]
        BY <1>10
      <4>2. \A j \in DOMAIN document[p].lines : j \in document[p].boxed
        BY <1>2, <1>3, <3>2, <4>1
      <4>. QED
        BY <4>2 DEF CutOut
    <3>. QED
      BY <1>5, <3>1, <3>2
  <2>. QED
    BY <1>8, <2>1, <2>2, <2>3 DEF cut, page, rest
<1>. QED
  BY <1>9, <1>10

-----------------------------------------------------------------------------
(* The invariant is kept *)

\* What is said of pages and tables in the next state, as the document stays.
LEMMA SameDocument ==
    ASSUME document' = document
    PROVE  /\ \A p : /\ PageOf(p, pages'[p], tables')
                     /\ stage' \in {"extracted", "ocr_completed"} => Uncut(p, pages'[p])
                     /\ stage' = "extracted" => ~pages'[p].ocred
                     => PageHolds(p)'
           /\ \A t : /\ tables'[t].page \in DOMAIN document /\ tables'[t].page \in DOMAIN pages'
                     /\ ~pages'[tables'[t].page].ocred
                     /\ tables'[t] = ExtractedTable(tables'[t].page)
                     /\ CutOut(tables'[t].page, pages'[tables'[t].page].lines)
                     => TableHolds(t)'
<1>1. \A p, i : CharStart(p, i)' = CharStart(p, i)
  BY DEF CharStart
<1>2. \A p : BuildLines(p)' = BuildLines(p)
  BY <1>1 DEF BuildLines
<1>3. \A p : ExtractedTable(p)' = ExtractedTable(p)
  BY <1>1 DEF ExtractedTable
<1>4. ASSUME NEW p, PageOf(p, pages'[p], tables'),
             stage' \in {"extracted", "ocr_completed"} => Uncut(p, pages'[p]),
             stage' = "extracted" => ~pages'[p].ocred
      PROVE  PageHolds(p)'
  <2>1. LinesOf(p, pages'[p].lines) => LinesOf(p, pages[p].lines)'
    BY <1>2 DEF LinesOf
  <2>2. Complete(p, pages'[p].lines, tables') => Complete(p, pages[p].lines, tables)'
    BY <1>2 DEF Complete
  <2>3. PageOf(p, pages[p], tables)'
    BY <1>4, <2>1, <2>2 DEF PageOf
  <2>4. Uncut(p, pages'[p]) => Uncut(p, pages[p])'
    BY <1>2 DEF Uncut
  <2>. QED
    BY <1>4, <2>3, <2>4 DEF PageHolds
<1>5. ASSUME NEW t, tables'[t].page \in DOMAIN document, tables'[t].page \in DOMAIN pages',
             ~pages'[tables'[t].page].ocred, tables'[t] = ExtractedTable(tables'[t].page),
             CutOut(tables'[t].page, pages'[tables'[t].page].lines)
      PROVE  TableHolds(t)'
  <2>1. CutOut(tables[t].page, pages[tables[t].page].lines)'
    BY <1>3, <1>5 DEF CutOut
  <2>2. ExtractedTable(tables[t].page)' = ExtractedTable(tables'[t].page)
    BY <1>1 DEF ExtractedTable
  <2>. QED
    BY <1>5, <2>1, <2>2 DEF TableHolds
<1>. QED
  BY <1>4, <1>5

\* The stages by their names.
LEMMA StagesHold ==
    /\ "uploaded" \in ProcessingStage /\ "extracted" \in ProcessingStage /\ "ocr_completed" \in ProcessingStage
    /\ "tables_extracted" \in ProcessingStage /\ "metadata_detected" \in ProcessingStage
    /\ "sections_parsed" \in ProcessingStage /\ "chunked" \in ProcessingStage /\ "indexed" \in ProcessingStage
    /\ "failed" \in ProcessingStage
<1>1. DOMAIN Stages = 1..8
  BY DEF Stages
<1>2. \A i \in 1..8 : Stages[i] \in ProcessingStage
  BY <1>1 DEF ProcessingStage
<1>3. /\ Stages[1] = "uploaded" /\ Stages[2] = "extracted" /\ Stages[3] = "ocr_completed"
      /\ Stages[4] = "tables_extracted" /\ Stages[5] = "metadata_detected" /\ Stages[6] = "sections_parsed"
      /\ Stages[7] = "chunked" /\ Stages[8] = "indexed"
  BY DEF Stages
<1>4. "failed" \in ProcessingStage
  BY DEF ProcessingStage
<1>. QED
  BY <1>2, <1>3, <1>4

\* A document that has not been parsed has no sections.
LEMMA ParsedNone ==
    ASSUME NEW lines
    PROVE  Parsed(<<>>, lines)
BY DEF Parsed

\* The invariant holds of a document that has been uploaded.
LEMMA InitHolds ==
    ASSUME Init
    PROVE  PipelineInv
<1>1. /\ document \in Document /\ stage = "uploaded" /\ pages = <<>> /\ tables = <<>> /\ sections = <<>>
      /\ chunks = <<>> /\ row = <<>>
  BY DEF Init
<1>2. DOMAIN pages = {} /\ DOMAIN tables = {} /\ tables \in Seq(TableRecord)
  BY <1>1
<1>3. Parsed(sections, AllLines)
  BY <1>1, ParsedNone
<1>. QED
  BY <1>1, <1>2, <1>3, StagesHold DEF PipelineInv

\* Extraction makes a page of every page of the document.
LEMMA ExtractKeeps ==
    ASSUME PipelineInv, Extract
    PROVE  PipelineInv'
<1>1. /\ stage = "uploaded" /\ stage' = "extracted"
      /\ document' = document /\ tables' = tables /\ sections' = sections /\ chunks' = chunks /\ row' = row
  BY DEF Extract, Succeed
<1>2. PICK bad : pages' = [p \in DOMAIN document |-> IF p \in bad THEN FailedPage(p) ELSE ExtractPage(p)]
  BY DEF Extract
<1>3. document \in Document /\ tables = <<>> /\ sections = <<>> /\ chunks = <<>> /\ row = <<>>
  BY <1>1 DEF PipelineInv, Untabled, Unparsed
<1>4. DOMAIN pages' = DOMAIN document /\ \A p \in DOMAIN document : pages'[p] \in {FailedPage(p), ExtractPage(p)}
  BY <1>2
<1>5. \A p \in DOMAIN pages' : PageHolds(p)'
  <2>1. ASSUME NEW p \in DOMAIN pages' PROVE PageHolds(p)'
    <3>1. PageOf(p, pages'[p], <<>>) /\ Uncut(p, pages'[p]) /\ ~pages'[p].ocred
      BY <1>3, <1>4, PageExtracted
    <3>. QED
      BY <1>1, <1>3, <3>1, SameDocument
  <2>. QED
    BY <2>1
<1>. QED
  BY <1>1, <1>3, <1>4, <1>5, ParsedNone, StagesHold DEF PipelineInv, Untabled, Unparsed

\* A step that leaves pages and tables alone keeps what is said of them.
LEMMA PagesStay ==
    ASSUME PipelineInv, document' = document, pages' = pages, tables' = tables, stage' # "extracted",
           stage' = "ocr_completed" => stage = "extracted"
    PROVE  /\ \A p \in DOMAIN pages' : PageHolds(p)'
           /\ \A t \in DOMAIN tables' : TableHolds(t)'
           /\ AllLines' = AllLines /\ AllText' = AllText
<1>1. \A p \in DOMAIN pages : PageHolds(p)
  BY DEF PipelineInv
<1>2. \A t \in DOMAIN tables : TableHolds(t)
  BY DEF PipelineInv
<1>3. ASSUME NEW p \in DOMAIN pages' PROVE PageHolds(p)'
  <2>1. PageOf(p, pages'[p], tables') /\ (stage' \in {"extracted", "ocr_completed"} => Uncut(p, pages'[p]))
    BY <1>1, <1>3 DEF PageHolds
  <2>. QED
    BY <2>1, SameDocument
<1>4. ASSUME NEW t \in DOMAIN tables' PROVE TableHolds(t)'
  <2>1. /\ tables'[t].page \in DOMAIN document /\ tables'[t].page \in DOMAIN pages'
        /\ ~pages'[tables'[t].page].ocred /\ tables'[t] = ExtractedTable(tables'[t].page)
        /\ CutOut(tables'[t].page, pages'[tables'[t].page].lines)
    BY <1>2, <1>4 DEF TableHolds
  <2>. QED
    BY <2>1, SameDocument
<1>5. AllLines' = AllLines /\ AllText' = AllText
  BY DEF AllLines, AllText
<1>. QED
  BY <1>3, <1>4, <1>5

\* Without OCR the pages stay as they are.
LEMMA SkipOcrKeeps ==
    ASSUME PipelineInv, SkipOcr
    PROVE  PipelineInv'
<1>1. /\ stage = "extracted" /\ stage' = "ocr_completed" /\ document' = document /\ pages' = pages
      /\ tables' = tables /\ sections' = sections /\ chunks' = chunks /\ row' = row
  BY DEF SkipOcr, Succeed
<1>2. /\ \A p \in DOMAIN pages' : PageHolds(p)'
      /\ \A t \in DOMAIN tables' : TableHolds(t)'
  BY <1>1, PagesStay
<1>3. /\ document \in Document /\ DOMAIN pages = DOMAIN document
      /\ tables = <<>> /\ sections = <<>> /\ chunks = <<>> /\ row = <<>>
  BY <1>1 DEF PipelineInv, Untabled, Unparsed
<1>4. tables' \in Seq(TableRecord) /\ Parsed(sections', AllLines')
  BY <1>1, <1>3, ParsedNone
<1>. QED
  BY <1>1, <1>2, <1>3, <1>4, StagesHold DEF PipelineInv, Untabled, Unparsed

\* OCR replaces pages by better readings of them.
LEMMA OcrKeeps ==
    ASSUME PipelineInv, Ocr
    PROVE  PipelineInv' /\ \A p \in DOMAIN pages : pages'[p].confidence >= pages[p].confidence
<1>1. /\ stage = "extracted" /\ stage' = "ocr_completed" /\ document' = document
      /\ tables' = tables /\ sections' = sections /\ chunks' = chunks /\ row' = row
  BY DEF Ocr, Succeed
<1>2. PICK read \in [NeedingOcr -> OcrOutcome] :
         pages' = [p \in DOMAIN pages |->
                      IF p \in NeedingOcr THEN PreferOcr(pages[p], ReadBack(p, read[p])) ELSE pages[p]]
  BY DEF Ocr
<1>3. /\ document \in Document /\ DOMAIN pages = DOMAIN document
      /\ tables = <<>> /\ sections = <<>> /\ chunks = <<>> /\ row = <<>>
      /\ \A p \in DOMAIN pages : PageHolds(p)
  BY <1>1 DEF PipelineInv, Untabled, Unparsed
<1>4. DOMAIN pages' = DOMAIN pages
  BY <1>2
<1>5. ASSUME NEW p \in DOMAIN pages
      PROVE  PageOf(p, pages'[p], <<>>) /\ Uncut(p, pages'[p]) /\ pages'[p].confidence >= pages[p].confidence
  <2>1. PageOf(p, pages[p], <<>>) /\ Uncut(p, pages[p]) /\ ~pages[p].ocred
    BY <1>1, <1>3 DEF PageHolds
  <2>2. CASE p \in NeedingOcr
    <3>1. read[p] \in Counts /\ pages'[p] = PreferOcr(pages[p], ReadBack(p, read[p]))
      BY <1>2, <2>2, OcrAssumption
    <3>. QED
      BY <1>3, <2>1, <3>1, PageReadBack
  <2>3. CASE p \notin NeedingOcr
    <3>1. pages'[p] = pages[p]
      BY <1>2, <2>3
    <3>. DEFINE was == pages[p].confidence
    <3>2. was \in 0..100
      BY <2>1 DEF PageOf, PageRecord
    <3>. HIDE DEF was
    <3>3. was >= was
      BY <3>2
    <3>. QED
      BY <2>1, <3>1, <3>3 DEF was
  <2>. QED
    BY <2>2, <2>3
<1>6. \A p \in DOMAIN pages' : PageHolds(p)'
  <2>1. ASSUME NEW p \in DOMAIN pages' PROVE PageHolds(p)'
    <3>1. PageOf(p, pages'[p], tables') /\ Uncut(p, pages'[p])
      BY <1>1, <1>3, <1>4, <1>5
    <3>. QED
      BY <1>1, <3>1, SameDocument
  <2>. QED
    BY <2>1
<1>7. tables' \in Seq(TableRecord) /\ Parsed(sections', AllLines') /\ DOMAIN tables' = {}
  BY <1>1, <1>3, ParsedNone
<1>8. PipelineInv'
  BY <1>1, <1>3, <1>4, <1>6, <1>7, StagesHold DEF PipelineInv, Untabled, Unparsed
<1>. QED
  BY <1>5, <1>8

\* Tables are cut out of pages without touching what they are trusted for.
LEMMA ExtractTablesKeeps ==
    ASSUME PipelineInv, ExtractTables
    PROVE  PipelineInv' /\ \A p \in DOMAIN pages : pages'[p].confidence = pages[p].confidence
<1>1. /\ stage = "ocr_completed" /\ stage' = "tables_extracted" /\ document' = document
      /\ sections' = sections /\ chunks' = chunks /\ row' = row
  BY DEF ExtractTables, Succeed
<1>2. /\ document \in Document /\ DOMAIN pages = DOMAIN document
      /\ tables = <<>> /\ sections = <<>> /\ chunks = <<>> /\ row = <<>>
      /\ \A p \in DOMAIN pages : PageHolds(p)
  BY <1>1 DEF PipelineInv, Untabled, Unparsed
<1>3. PICK failing :
         LET searched == {p \in DOMAIN pages : ~pages[p].ocred} \ failing
             found    == {p \in searched : document[p].table \in {"sparse", "data"}}
             order    == Ascending(Len(pages), found)
         IN  /\ tables' = [k \in DOMAIN order |-> ExtractedTable(order[k])]
             /\ pages' = [p \in DOMAIN pages |->
                             IF p \in searched /\ RemainingLines(p) # <<>>
                             THEN [pages[p] EXCEPT !.lines = RemainingLines(p),
                                                   !.text = TextOf(RemainingLines(p))]
                             ELSE pages[p]]
  BY DEF ExtractTables
<1>. DEFINE searched == {p \in DOMAIN pages : ~pages[p].ocred} \ failing
            found    == {p \in searched : document[p].table \in {"sparse", "data"}}
            order    == Ascending(Len(pages), found)
            cut(p)   == IF RemainingLines(p) # <<>>
                        THEN [pages[p] EXCEPT !.lines = RemainingLines(p), !.text = TextOf(RemainingLines(p))]
                        ELSE pages[p]
<1>4. /\ tables' = [k \in DOMAIN order |-> ExtractedTable(order[k])]
      /\ pages' = [p \in DOMAIN pages |-> IF p \in searched THEN cut(p) ELSE pages[p]]
  BY <1>3
<1>5. /\ \A p \in DOMAIN pages : p \in searched => ~pages[p].ocred
      /\ \A p : p \in found <=> p \in searched /\ document[p].table \in {"sparse", "data"}
      /\ \A p \in searched : p \in DOMAIN pages
  OBVIOUS
<1>6. order \in Seq(DOMAIN pages) /\ \A p : p \in found <=> \E k \in DOMAIN order : order[k] = p
  <2>1. PICK n \in Nat : DOMAIN pages = 1..n
    BY PagesHold
  <2>2. Len(pages) = n
    <3>1. n = Len(pages)
      BY <2>1
    <3>. QED
      BY <3>1
  <2>3. order \in Seq(1..n) /\ ToSet(order) = found \intersect 1..n
    <3>. HIDE DEF found
    <3>. QED
      BY <2>1, <2>2, AscendingHolds
  <2>4. ToSet(order) = {order[k] : k \in DOMAIN order}
    BY DEF ToSet
  <2>. HIDE DEF order, searched, found
  <2>5. ToSet(order) = found
    BY <1>5, <2>1, <2>3
  <2>. QED
    BY <2>1, <2>3, <2>4, <2>5
<1>. HIDE DEF order, searched, found
<1>7. /\ DOMAIN pages' = DOMAIN pages /\ DOMAIN tables' = DOMAIN order
      /\ \A p \in DOMAIN pages : pages'[p] = IF p \in searched THEN cut(p) ELSE pages[p]
      /\ \A k \in DOMAIN order : tables'[k] = ExtractedTable(order[k])
  BY <1>4
<1>8. ASSUME NEW p \in DOMAIN pages
      PROVE  /\ PageOf(p, pages'[p], tables') /\ pages'[p].confidence = pages[p].confidence
             /\ p \in found => ~pages'[p].ocred /\ CutOut(p, pages'[p].lines)
  <2>1. PageOf(p, pages[p], <<>>) /\ Uncut(p, pages[p])
    BY <1>1, <1>2 DEF PageHolds
  <2>2. CASE p \in searched
    <3>1. ~pages[p].ocred /\ pages'[p] = cut(p)
      BY <1>5, <1>7, <2>2
    <3>2. document[p].table \in {"sparse", "data"} => \E t \in DOMAIN tables' : tables'[t].page = p
      <4>1. ASSUME document[p].table \in {"sparse", "data"} PROVE \E t \in DOMAIN tables' : tables'[t].page = p
        <5>1. PICK k \in DOMAIN order : order[k] = p
          BY <1>5, <1>6, <2>2, <4>1
        <5>2. tables'[k] = ExtractedTable(p) /\ k \in DOMAIN tables'
          BY <1>7, <5>1
        <5>. QED
          BY <1>2, <5>2, ExtractedTableHolds
      <4>. QED
        BY <4>1
    <3>3. /\ PageOf(p, cut(p), tables') /\ ~cut(p).ocred /\ cut(p).confidence = pages[p].confidence
          /\ document[p].table \in {"sparse", "data"} => CutOut(p, cut(p).lines)
      BY <1>2, <2>1, <3>1, <3>2, PageSearched
    <3>. HIDE DEF cut
    <3>. QED
      BY <1>5, <3>1, <3>3
  <2>3. CASE p \notin searched
    <3>1. pages'[p] = pages[p]
      BY <1>7, <2>3
    <3>2. ASSUME NEW lines, Complete(p, lines, <<>>) PROVE Complete(p, lines, tables')
      BY <3>2 DEF Complete
    <3>3. PageOf(p, pages[p], tables')
      BY <2>1, <3>2 DEF PageOf
    <3>. QED
      BY <1>5, <2>3, <3>1, <3>3
  <2>. QED
    BY <2>2, <2>3
<1>9. \A p \in DOMAIN pages' : PageHolds(p)'
  <2>1. ASSUME NEW p \in DOMAIN pages' PROVE PageHolds(p)'
    <3>1. PageOf(p, pages'[p], tables')
      BY <1>7, <1>8
    <3>. QED
      BY <1>1, <3>1, SameDocument
  <2>. QED
    BY <2>1
<1>10. \A k \in DOMAIN order : /\ order[k] \in DOMAIN pages /\ order[k] \in DOMAIN document /\ order[k] \in found
                               /\ tables'[k] \in TableRecord /\ tables'[k].page = order[k]
                               /\ tables'[k] = ExtractedTable(order[k])
  <2>1. ASSUME NEW k \in DOMAIN order
        PROVE  order[k] \in DOMAIN pages /\ order[k] \in DOMAIN document /\ order[k] \in found
    BY <1>2, <1>6
  <2>2. ASSUME NEW k \in DOMAIN order
        PROVE  /\ tables'[k] = ExtractedTable(order[k]) /\ ExtractedTable(order[k]) \in TableRecord
               /\ ExtractedTable(order[k]).page = order[k]
    BY <1>2, <1>7, <2>1, ExtractedTableHolds
  <2>. QED
    BY <2>1, <2>2
<1>11. tables' \in Seq(TableRecord)
  <2>. DEFINE n == Len(order)
  <2>1. n \in Nat /\ DOMAIN order = 1..n
    BY <1>6
  <2>. HIDE DEF n
  <2>2. tables' \in [1..n -> TableRecord]
    BY <1>4, <1>7, <1>10, <2>1
  <2>. QED
    BY <2>1, <2>2
<1>12. \A t \in DOMAIN tables' : TableHolds(t)'
  <2>1. ASSUME NEW t \in DOMAIN tables' PROVE TableHolds(t)'
    <3>1. /\ tables'[t].page = order[t] /\ order[t] \in DOMAIN pages /\ order[t] \in DOMAIN document
          /\ order[t] \in found /\ tables'[t] = ExtractedTable(order[t])
      BY <1>7, <1>10
    <3>2. ~pages'[order[t]].ocred /\ CutOut(order[t], pages'[order[t]].lines)
      BY <1>8, <3>1
    <3>. QED
      BY <1>1, <1>7, <3>1, <3>2, SameDocument
  <2>. QED
    BY <2>1
<1>13. Parsed(sections', AllLines')
  BY <1>1, <1>2, ParsedNone
<1>14. PipelineInv'
  BY <1>1, <1>2, <1>7, <1>9, <1>11, <1>12, <1>13, StagesHold DEF PipelineInv, Untabled, Unparsed
<1>. QED
  BY <1>8, <1>14

\* Detecting metadata changes only the stage.
LEMMA DetectMetadataKeeps ==
    ASSUME PipelineInv, DetectMetadata
    PROVE  PipelineInv'
<1>1. /\ stage = "tables_extracted" /\ stage' = "metadata_detected" /\ document' = document /\ pages' = pages
      /\ tables' = tables /\ sections' = sections /\ chunks' = chunks /\ row' = row
  BY DEF DetectMetadata, Succeed
<1>2. /\ \A p \in DOMAIN pages' : PageHolds(p)'
      /\ \A t \in DOMAIN tables' : TableHolds(t)'
  BY <1>1, PagesStay
<1>3. /\ document \in Document /\ DOMAIN pages = DOMAIN document /\ tables \in Seq(TableRecord)
      /\ sections = <<>> /\ chunks = <<>> /\ row = <<>>
  BY <1>1 DEF PipelineInv, Untabled, Unparsed
<1>4. Parsed(sections', AllLines')
  BY <1>1, <1>3, ParsedNone
<1>. QED
  BY <1>1, <1>2, <1>3, <1>4, StagesHold DEF PipelineInv, Untabled, Unparsed

\* Parsing takes the lines as they are after tables and OCR.
LEMMA ParseSectionsKeeps ==
    ASSUME PipelineInv, ParseSections
    PROVE  PipelineInv'
<1>1. /\ stage = "metadata_detected" /\ stage' = "sections_parsed" /\ document' = document /\ pages' = pages
      /\ tables' = tables /\ sections' = Parse(AllLines) /\ chunks' = chunks /\ row' = row
  BY DEF ParseSections, Succeed, AllLines
<1>2. /\ \A p \in DOMAIN pages' : PageHolds(p)'
      /\ \A t \in DOMAIN tables' : TableHolds(t)'
      /\ AllLines' = AllLines
  BY <1>1, PagesStay
<1>3. /\ document \in Document /\ DOMAIN pages = DOMAIN document /\ tables \in Seq(TableRecord)
      /\ chunks = <<>> /\ row = <<>>
  BY <1>1 DEF PipelineInv
<1>4. Parsed(sections', AllLines')
  <2>1. AllLines \in Seq(Line) /\ Ordered(AllLines)
    BY AllLinesHold
  <2>2. Parsed(Parse(AllLines), AllLines)
    BY <2>1, ParseHolds
  <2>. QED
    BY <1>1, <1>2, <2>2
<1>. QED
  BY <1>1, <1>2, <1>3, <1>4, StagesHold DEF PipelineInv, Untabled, Unparsed

\* Chunking takes those sections and tables.
LEMMA ChunkDocumentKeeps ==
    ASSUME PipelineInv, ChunkDocument
    PROVE  PipelineInv'
<1>1. /\ stage = "sections_parsed" /\ stage' = "chunked" /\ document' = document /\ pages' = pages
      /\ tables' = tables /\ sections' = sections /\ chunks' = Chunk(sections, tables, AllText, 1) /\ row' = row
  BY DEF ChunkDocument, Succeed, AllText
<1>2. /\ \A p \in DOMAIN pages' : PageHolds(p)'
      /\ \A t \in DOMAIN tables' : TableHolds(t)'
      /\ AllLines' = AllLines /\ AllText' = AllText
  BY <1>1, PagesStay
<1>3. /\ document \in Document /\ DOMAIN pages = DOMAIN document /\ tables \in Seq(TableRecord)
      /\ Parsed(sections, AllLines) /\ row = <<>>
  BY <1>1 DEF PipelineInv
<1>4. Chunked(chunks', sections', tables', AllText')
  <2>1. AllText \in Seq(Piece) /\ sections \in Seq(BuiltSection) /\ 1 \in Nat
    BY <1>3, AllTextHolds DEF Parsed
  <2>2. Chunked(Chunk(sections, tables, AllText, 1), sections, tables, AllText)
    BY <1>3, <2>1, ChunkHolds
  <2>. QED
    BY <1>1, <1>2, <2>2
<1>5. Parsed(sections', AllLines')
  BY <1>1, <1>2, <1>3
<1>. QED
  BY <1>1, <1>2, <1>3, <1>4, <1>5, StagesHold DEF PipelineInv, Untabled, Unparsed

\* The rows are what the lookups return.
LEMMA WriteRowsKeeps ==
    ASSUME PipelineInv, WriteRows
    PROVE  PipelineInv'
<1>1. /\ stage = "chunked" /\ stage' = "indexed" /\ document' = document /\ pages' = pages
      /\ tables' = tables /\ sections' = sections /\ chunks' = chunks
      /\ row' = [i \in DOMAIN chunks |-> [section |-> SectionRow(chunks[i]), parent |-> ParentRow(chunks[i])]]
  BY DEF WriteRows
<1>2. /\ \A p \in DOMAIN pages' : PageHolds(p)'
      /\ \A t \in DOMAIN tables' : TableHolds(t)'
      /\ AllLines' = AllLines /\ AllText' = AllText
  BY <1>1, PagesStay
<1>3. /\ document \in Document /\ DOMAIN pages = DOMAIN document /\ tables \in Seq(TableRecord)
      /\ Parsed(sections, AllLines) /\ Chunked(chunks, sections, tables, AllText)
  BY <1>1 DEF PipelineInv
<1>4. Chunked(chunks', sections', tables', AllText') /\ Parsed(sections', AllLines')
  BY <1>1, <1>2, <1>3
<1>5. row' = [i \in DOMAIN chunks |-> [section |-> SectionRow(chunks[i]), parent |-> ParentRow(chunks[i])]]'
  <2>1. \A c : SectionRow(c)' = SectionRow(c) /\ ParentRow(c)' = ParentRow(c)
    BY <1>1 DEF SectionRow, ParentRow
  <2>2. \A i : SectionRow(chunks[i])' = SectionRow(chunks[i]) /\ ParentRow(chunks[i])' = ParentRow(chunks[i])
    BY <1>1 DEF SectionRow, ParentRow
  <2>. QED
    BY <1>1, <2>2
<1>. QED
  BY <1>1, <1>2, <1>3, <1>4, <1>5, StagesHold DEF PipelineInv, Untabled, Unparsed

\* A stage that fails leaves what there is.
LEMMA FailKeeps ==
    ASSUME PipelineInv, Fail
    PROVE  PipelineInv'
<1>1. /\ stage \notin {"chunked", "indexed"} /\ stage' = "failed" /\ document' = document /\ pages' = pages
      /\ tables' = tables /\ sections' = sections /\ chunks' = chunks /\ row' = row
  BY DEF Fail
<1>2. /\ \A p \in DOMAIN pages' : PageHolds(p)'
      /\ \A t \in DOMAIN tables' : TableHolds(t)'
      /\ AllLines' = AllLines
  BY <1>1, PagesStay
<1>3. /\ document \in Document /\ (DOMAIN pages = DOMAIN document \/ DOMAIN pages = {})
      /\ tables \in Seq(TableRecord) /\ Parsed(sections, AllLines) /\ chunks = <<>> /\ row = <<>>
  BY <1>1 DEF PipelineInv
<1>4. Parsed(sections', AllLines')
  BY <1>1, <1>2, <1>3
<1>. QED
  BY <1>1, <1>2, <1>3, <1>4, StagesHold DEF PipelineInv, Untabled, Unparsed

\* The invariant depends on nothing else.
LEMMA StutterKeeps ==
    ASSUME PipelineInv, UNCHANGED vars
    PROVE  PipelineInv'
<1>1. /\ stage' = stage /\ document' = document /\ pages' = pages
      /\ tables' = tables /\ sections' = sections /\ chunks' = chunks /\ row' = row
  BY DEF vars
<1>2. \A p \in DOMAIN pages' : PageHolds(p)'
  <2>1. \A p \in DOMAIN pages : PageHolds(p)
    BY DEF PipelineInv
  <2>2. ASSUME NEW p \in DOMAIN pages' PROVE PageHolds(p)'
    <3>1. /\ PageOf(p, pages'[p], tables')
          /\ stage' \in {"extracted", "ocr_completed"} => Uncut(p, pages'[p])
          /\ stage' = "extracted" => ~pages'[p].ocred
      BY <1>1, <2>1, <2>2 DEF PageHolds
    <3>. QED
      BY <1>1, <3>1, SameDocument
  <2>. QED
    BY <2>2
<1>3. \A t \in DOMAIN tables' : TableHolds(t)'
  <2>1. \A t \in DOMAIN tables : TableHolds(t)
    BY DEF PipelineInv
  <2>2. ASSUME NEW t \in DOMAIN tables' PROVE TableHolds(t)'
    <3>1. /\ tables'[t].page \in DOMAIN document /\ tables'[t].page \in DOMAIN pages'
          /\ ~pages'[tables'[t].page].ocred /\ tables'[t] = ExtractedTable(tables'[t].page)
          /\ CutOut(tables'[t].page, pages'[tables'[t].page].lines)
      BY <1>1, <2>1, <2>2 DEF TableHolds
    <3>. QED
      BY <1>1, <3>1, SameDocument
  <2>. QED
    BY <2>2
<1>4. AllLines' = AllLines /\ AllText' = AllText
  BY <1>1 DEF AllLines, AllText
<1>5. \A i : SectionRow(chunks[i])' = SectionRow(chunks[i]) /\ ParentRow(chunks[i])' = ParentRow(chunks[i])
  BY <1>1 DEF SectionRow, ParentRow
<1>6. row' = IF stage' = "indexed"
             THEN [i \in DOMAIN chunks |-> [section |-> SectionRow(chunks[i]), parent |-> ParentRow(chunks[i])]]'
             ELSE <<>>
  BY <1>1, <1>5 DEF PipelineInv
<1>. QED
  BY <1>1, <1>2, <1>3, <1>4, <1>6 DEF PipelineInv, Untabled, Unparsed

\* Every step keeps the invariant.
LEMMA NextKeeps ==
    ASSUME PipelineInv, [Next]_vars
    PROVE  PipelineInv'
<1>1. CASE Extract
  BY <1>1, ExtractKeeps
<1>2. CASE SkipOcr
  BY <1>2, SkipOcrKeeps
<1>3. CASE Ocr
  BY <1>3, OcrKeeps
<1>4. CASE ExtractTables
  BY <1>4, ExtractTablesKeeps
<1>5. CASE DetectMetadata
  BY <1>5, DetectMetadataKeeps
<1>6. CASE ParseSections
  BY <1>6, ParseSectionsKeeps
<1>7. CASE ChunkDocument
  BY <1>7, ChunkDocumentKeeps
<1>8. CASE WriteRows
  BY <1>8, WriteRowsKeeps
<1>9. CASE Fail
  BY <1>9, FailKeeps
<1>10. CASE UNCHANGED vars
  BY <1>10, StutterKeeps
<1>. QED
  BY <1>1, <1>2, <1>3, <1>4, <1>5, <1>6, <1>7, <1>8, <1>9, <1>10 DEF Next

-----------------------------------------------------------------------------
(* What the invariant says of the rows, the tree and the chunks *)

\* A lookup by path finds a section of that path.
LEMMA ReferencesHold ==
    ASSUME PipelineInv, NEW k \in DOMAIN chunks, chunks[k].section # NoSection
    PROVE  /\ SectionRow(chunks[k]) \in DOMAIN sections
           /\ sections[SectionRow(chunks[k])].path = chunks[k].section.path
           /\ \E i \in DOMAIN sections : chunks[k].section = Ref(sections[i])
<1>. DEFINE T == {i \in DOMAIN sections : sections[i].path = chunks[k].section.path}
<1>1. stage \in {"chunked", "indexed"} /\ sections \in Seq(BuiltSection)
  BY DEF PipelineInv, Parsed
<1>2. PICK i \in DOMAIN sections : chunks[k].section = Ref(sections[i])
  BY <1>1 DEF PipelineInv, Chunked
<1>3. i \in T
  BY <1>2 DEF Ref
<1>4. T \subseteq Nat
  BY <1>1
<1>5. SectionRow(chunks[k]) = Min(T)
  BY DEF SectionRow
<1>6. Min(T) \in T
  <2>. HIDE DEF T
  <2>. QED
    BY <1>3, <1>4, MinHolds
<1>. QED
  BY <1>2, <1>5, <1>6

\* A lookup of ordinal 0 finds the first chunk.
LEMMA ParentsHold ==
    ASSUME PipelineInv, NEW k \in DOMAIN chunks
    PROVE  ParentRow(chunks[k]) = IF chunks[k].child THEN 1 ELSE 0
<1>. DEFINE T == {i \in DOMAIN chunks : chunks[i].ordinal = 0}
<1>1. Chunked(chunks, sections, tables, AllText)
  BY DEF PipelineInv
<1>2. chunks \in Seq(ChunkRecord) /\ \A i \in DOMAIN chunks : chunks[i].ordinal = i - 1
  BY <1>1 DEF Chunked
<1>3. DOMAIN chunks = 1..Len(chunks) /\ Len(chunks) \in Nat
  BY <1>2
<1>4. T = {1}
  BY <1>2, <1>3
<1>. HIDE DEF T
<1>5. Min(T) = 1
  <2>1. T \subseteq Nat /\ T # {}
    BY <1>4
  <2>2. Min(T) \in T
    BY <2>1, MinHolds
  <2>. QED
    BY <1>4, <2>2
<1>. QED
  BY <1>5 DEF ParentRow, T

\* Rows are written for chunks, once the document is indexed.
LEMMA RowsHold ==
    ASSUME PipelineInv, NEW k \in DOMAIN row
    PROVE  /\ stage = "indexed" /\ k \in DOMAIN chunks
           /\ row[k].section = SectionRow(chunks[k]) /\ row[k].parent = ParentRow(chunks[k])
<1>1. row = IF stage = "indexed"
            THEN [i \in DOMAIN chunks |-> [section |-> SectionRow(chunks[i]), parent |-> ParentRow(chunks[i])]]
            ELSE <<>>
  BY DEF PipelineInv
<1>2. stage = "indexed"
  BY <1>1
<1>. QED
  BY <1>1, <1>2

\* The invariant implies the type invariant.
LEMMA TypeFollows ==
    ASSUME PipelineInv
    PROVE  TypeOK
<1>1. \A p \in DOMAIN pages : /\ pages[p].confidence \in 0..100 /\ pages[p].lines \in Seq(Line)
                              /\ pages[p].ocred => pages[p].confidence <= 75
  <2>1. ASSUME NEW p \in DOMAIN pages
        PROVE  /\ pages[p].confidence \in 0..100 /\ pages[p].lines \in Seq(Line)
               /\ pages[p].ocred => pages[p].confidence <= 75
    <3>1. PageOf(p, pages[p], tables)
      BY DEF PipelineInv, PageHolds
    <3>2. pages[p] \in PageRecord /\ (pages[p].ocred => pages[p].confidence <= 75)
      BY <3>1 DEF PageOf
    <3>3. \A x \in PageRecord : x.confidence \in 0..100 /\ x.lines \in Seq(Line)
      BY DEF PageRecord
    <3>. QED
      BY <3>2, <3>3
  <2>. QED
    BY <2>1
<1>2. \A i \in DOMAIN sections : sections[i].parent \in 0..(i - 1)
  BY DEF PipelineInv, Parsed, Placed
<1>3. \A i \in DOMAIN chunks : chunks[i].ordinal = i - 1
  <2>1. ASSUME NEW i \in DOMAIN chunks PROVE chunks[i].ordinal = i - 1
    <3>1. Chunked(chunks, sections, tables, AllText)
      BY DEF PipelineInv
    <3>. QED
      BY <3>1 DEF Chunked
  <2>. QED
    BY <2>1
<1>4. ASSUME NEW i \in DOMAIN row
      PROVE  row[i].section \in 0..Len(sections) /\ row[i].parent \in 0..Len(chunks)
  <2>1. /\ i \in DOMAIN chunks /\ row[i].section = SectionRow(chunks[i]) /\ row[i].parent = ParentRow(chunks[i])
        /\ stage = "indexed"
    BY RowsHold
  <2>2. sections \in Seq(BuiltSection) /\ chunks \in Seq(ChunkRecord)
    BY <2>1 DEF PipelineInv, Parsed, Chunked
  <2>3. SectionRow(chunks[i]) \in 0..Len(sections)
    <3>1. CASE chunks[i].section = NoSection
      BY <2>2, <3>1 DEF SectionRow
    <3>2. CASE chunks[i].section # NoSection
      BY <2>1, <2>2, <3>2, ReferencesHold
    <3>. QED
      BY <3>1, <3>2
  <2>4. ParentRow(chunks[i]) \in 0..Len(chunks)
    <3>1. ParentRow(chunks[i]) \in {0, 1} /\ Len(chunks) \in Nat /\ 1 <= Len(chunks)
      BY <2>1, <2>2, ParentsHold
    <3>. QED
      BY <3>1
  <2>. QED
    BY <2>1, <2>3, <2>4
<1>. QED
  BY <1>1, <1>2, <1>3, <1>4 DEF TypeOK, PipelineInv

\* It implies that the sections are a tree.
LEMMA TreeFollows ==
    ASSUME PipelineInv
    PROVE  TreeIsWellFormed
<1>1. Parsed(sections, AllLines) /\ AllLines \in Seq(Line) /\ Ordered(AllLines)
  BY AllLinesHold DEF PipelineInv
<1>2. sections \in Seq(BuiltSection)
  BY <1>1 DEF Parsed
<1>3. ASSUME NEW i \in DOMAIN sections
      PROVE  /\ sections[i].parent # 0 =>
                   /\ sections[sections[i].parent].level < sections[i].level
                   /\ sections[i].path = Append(sections[sections[i].parent].path, sections[i].number)
             /\ \A k \in 1..(i - 1) :
                   /\ Within(sections, k, i) => sections[i].parent >= k
                   /\ sections[k].start < sections[i].start /\ sections[k].first <= sections[i].first
                   /\ sections[k].parent = sections[i].parent => sections[k].ordinal < sections[i].ordinal
  <2>1. Placed(sections, i)
    BY <1>1 DEF Parsed
  <2>2. \A k \in 1..(i - 1) : k \in DOMAIN sections /\ k < i
    BY <1>2
  <2>3. \A k \in 1..(i - 1) : sections[k].start < sections[i].start /\ sections[k].first <= sections[i].first
    BY <1>1, <2>2, SectionsFollow
  <2>. QED
    BY <2>1, <2>3 DEF Placed
<1>. QED
  BY <1>3 DEF TreeIsWellFormed

\* It implies that chunks keep to their section.
LEMMA SectionsFit ==
    ASSUME PipelineInv
    PROVE  ChunksKeepToTheirSection
<1>1. ASSUME NEW k \in DOMAIN chunks, chunks[k].type # "table", chunks[k].section # NoSection,
             NEW id \in Ids(chunks[k].text)
      PROVE  \E i \in DOMAIN sections : Ref(sections[i]) = chunks[k].section /\ id \in Ids(TextOf(sections[i].body))
  <2>1. Chunked(chunks, sections, tables, AllText)
    BY DEF PipelineInv
  <2>2. Source(id, chunks[k].section, sections, AllText)
    BY <1>1, <2>1 DEF Chunked
  <2>. QED
    BY <1>1, <2>2 DEF Source
<1>. QED
  BY <1>1 DEF ChunksKeepToTheirSection

\* It implies that rows refer to the right section.
LEMMA RowsFollow ==
    ASSUME PipelineInv
    PROVE  StoredUnderItsSection
<1>1. ASSUME NEW k \in DOMAIN row
      PROVE  /\ chunks[k].section # NoSection => sections[row[k].section].path = chunks[k].section.path
             /\ /\ chunks[k].child /\ chunks[k].section = chunks[1].section
                /\ \A i, j \in DOMAIN sections : sections[i].path = sections[j].path => i = j
                => Ids(chunks[k].text) \subseteq Ids(chunks[row[k].parent].text)
  <2>1. k \in DOMAIN chunks /\ row[k].section = SectionRow(chunks[k]) /\ row[k].parent = ParentRow(chunks[k])
    BY RowsHold
  <2>2. chunks[k].section # NoSection => sections[row[k].section].path = chunks[k].section.path
    BY <2>1, ReferencesHold
  <2>3. ASSUME chunks[k].child, chunks[k].section = chunks[1].section, PathsDiffer(sections)
        PROVE  Ids(chunks[k].text) \subseteq Ids(chunks[row[k].parent].text)
    <3>1. row[k].parent = 1
      BY <2>1, <2>3, ParentsHold
    <3>2. Chunked(chunks, sections, tables, AllText)
      BY <2>1 DEF PipelineInv
    <3>. QED
      BY <2>1, <2>3, <3>1, <3>2 DEF Chunked
  <2>. QED
    BY <2>2, <2>3 DEF PathsDiffer
<1>. QED
  BY <1>1 DEF StoredUnderItsSection

-----------------------------------------------------------------------------
(* Tables are indexed once *)

\* A line that is in the sections or in the text of the pages is in a page.
LEMMA LinesKnown ==
    ASSUME PipelineInv, NEW p \in DOMAIN pages, NEW k \in DOMAIN pages[p].lines
    PROVE  /\ p \in DOMAIN document
           /\ \E j \in DOMAIN document[p].lines : /\ pages[p].lines[k] = BuildLines(p)[j]
                                                  /\ pages[p].lines[k].start = CharStart(p, j)
                                                  /\ CharStart(p, j) \in Nat
<1>1. document \in Document /\ p \in DOMAIN document /\ LinesOf(p, pages[p].lines)
  BY PagesHold
<1>2. PICK j \in DOMAIN document[p].lines : pages[p].lines[k] = BuildLines(p)[j]
  BY <1>1 DEF LinesOf
<1>3. BuildLines(p)[j].start = CharStart(p, j) /\ CharStart(p, j) \in Nat
  BY <1>1, BuildLinesHold, StartsAscend
<1>. QED
  BY <1>1, <1>2, <1>3

\* The text of a section is text of the pages.
LEMMA BodiesKnown ==
    ASSUME PipelineInv, NEW i \in DOMAIN sections, NEW id \in Ids(TextOf(sections[i].body))
    PROVE  \E p \in DOMAIN pages : \E k \in DOMAIN pages[p].lines : pages[p].lines[k].start = id
<1>1. Parsed(sections, AllLines) /\ AllLines \in Seq(Line)
  BY AllLinesHold DEF PipelineInv
<1>2. /\ sections[i].body \in Seq(Line)
      /\ \A x \in DOMAIN sections[i].body : /\ sections[i].at + x \in DOMAIN AllLines
                                            /\ sections[i].body[x] = AllLines[sections[i].at + x]
  BY <1>1, BodyHolds
<1>3. PICK x \in DOMAIN sections[i].body : sections[i].body[x].start = id
  <2>1. Ids(TextOf(sections[i].body)) = {sections[i].body[x].start : x \in DOMAIN sections[i].body}
    BY <1>2, TextOfHolds
  <2>. QED
    BY <2>1
<1>4. PICK a \in DOMAIN AllLines : AllLines[a].start = id
  BY <1>2, <1>3
<1>5. PICK p \in DOMAIN pages : \E k \in DOMAIN pages[p].lines : AllLines[a] = pages[p].lines[k]
  BY AllLinesHold
<1>. QED
  BY <1>4, <1>5

\* The text of a page is its lines, or what OCR read.
LEMMA TextKnown ==
    ASSUME PipelineInv, NEW p \in DOMAIN pages
    PROVE  /\ ~pages[p].ocred => Ids(pages[p].text) = {pages[p].lines[k].start : k \in DOMAIN pages[p].lines}
           /\ pages[p].ocred => Ids(pages[p].text) \subseteq {-p} /\ (pages[p].text # <<>> => -p \in Ids(pages[p].text))
           /\ p \in Nat /\ p > 0
<1>1. PageOf(p, pages[p], tables) /\ pages[p].lines \in Seq(Line)
  BY PagesHold DEF PageHolds
<1>2. p \in Nat /\ p > 0
  <2>1. PICK n \in Nat : DOMAIN pages = 1..n
    BY PagesHold
  <2>. QED
    BY <2>1
<1>3. ASSUME ~pages[p].ocred PROVE Ids(pages[p].text) = {pages[p].lines[k].start : k \in DOMAIN pages[p].lines}
  <2>1. pages[p].text = TextOf(pages[p].lines)
    BY <1>1, <1>3 DEF PageOf
  <2>. QED
    BY <1>1, <2>1, TextOfHolds
<1>4. ASSUME pages[p].ocred
      PROVE  Ids(pages[p].text) \subseteq {-p} /\ (pages[p].text # <<>> => -p \in Ids(pages[p].text))
  <2>. DEFINE one == [id |-> -p, size |-> 1]
  <2>1. pages[p].text \in {<<>>, <<one>>}
    BY <1>1, <1>4 DEF PageOf
  <2>2. one \in Piece /\ one.id = -p
    BY <1>2 DEF Piece
  <2>. HIDE DEF one
  <2>3. Ids(<<one>>) = {-p} /\ Ids(<<>>) = {}
    BY <2>2, IdsOfOne DEF Ids
  <2>. QED
    BY <2>1, <2>3
<1>. QED
  BY <1>2, <1>3, <1>4

\* What a chunk says is either in the lines of a page or was read by OCR.
LEMMA ProseKnown ==
    ASSUME PipelineInv, NEW m \in DOMAIN chunks, chunks[m].type # "table", NEW id \in Ids(chunks[m].text)
    PROVE  \/ \E p \in DOMAIN pages : \E k \in DOMAIN pages[p].lines : pages[p].lines[k].start = id
           \/ sections = <<>> /\ \E p \in DOMAIN pages : id = -p
<1>1. Chunked(chunks, sections, tables, AllText)
  BY DEF PipelineInv
<1>2. Source(id, chunks[m].section, sections, AllText)
  BY <1>1 DEF Chunked
<1>3. CASE sections = <<>>
  <2>1. id \in Ids(AllText)
    BY <1>2, <1>3 DEF Source
  <2>2. PICK p \in DOMAIN pages : id \in Ids(pages[p].text)
    BY <2>1, AllTextHolds
  <2>3. CASE pages[p].ocred
    <3>1. id = -p
      BY <2>2, <2>3, TextKnown
    <3>. QED
      BY <1>3, <3>1
  <2>4. CASE ~pages[p].ocred
    <3>1. Ids(pages[p].text) = {pages[p].lines[k].start : k \in DOMAIN pages[p].lines}
      BY <2>4, TextKnown
    <3>. QED
      BY <2>2, <3>1
  <2>. QED
    BY <2>3, <2>4
<1>4. CASE sections # <<>>
  <2>1. PICK i \in DOMAIN sections : id \in Ids(TextOf(sections[i].body))
    BY <1>2, <1>4 DEF Source
  <2>. QED
    BY <2>1, BodiesKnown
<1>. QED
  BY <1>3, <1>4

\* The text of a table, by its lines.
LEMMA TablesKnown ==
    ASSUME PipelineInv, NEW t \in DOMAIN tables, NEW id \in Ids(tables[t].text)
    PROVE  /\ document \in Document /\ tables[t].page \in DOMAIN document /\ tables[t].page \in DOMAIN pages
           /\ tables[t] = ExtractedTable(tables[t].page) /\ CutOut(tables[t].page, pages[tables[t].page].lines)
           /\ \E j \in document[tables[t].page].boxed \intersect DOMAIN document[tables[t].page].lines :
                 id = CharStart(tables[t].page, j) /\ id \in Nat
<1>. DEFINE p == tables[t].page
<1>1. /\ document \in Document /\ p \in DOMAIN document /\ p \in DOMAIN pages
      /\ tables[t] = ExtractedTable(p) /\ CutOut(p, pages[p].lines)
  BY DEF PipelineInv, TableHolds
<1>2. id \in Ids(ExtractedTable(p).text)
  BY <1>1
<1>. HIDE DEF p
<1>3. Ids(ExtractedTable(p).text) = {CharStart(p, j) : j \in document[p].boxed \intersect DOMAIN document[p].lines}
  BY <1>1, ExtractedTableHolds
<1>4. PICK j \in document[p].boxed \intersect DOMAIN document[p].lines : id = CharStart(p, j)
  BY <1>2, <1>3
<1>5. CharStart(p, j) \in Nat
  BY <1>1, StartsAscend
<1>. QED
  BY <1>1, <1>4, <1>5 DEF p

\* The invariant implies that a table is not also in the prose.
LEMMA TablesFollow ==
    ASSUME PipelineInv
    PROVE  TableTextIsIndexedOnce
<1>1. ASSUME NEW t \in DOMAIN tables, NEW m \in DOMAIN chunks, chunks[m].type # "table",
             NEW id, id \in Ids(tables[t].text), id \in Ids(chunks[m].text)
      PROVE  DOMAIN document[tables[t].page].lines \subseteq document[tables[t].page].boxed
  <2>. DEFINE p == tables[t].page
  <2>1. /\ document \in Document /\ p \in DOMAIN document /\ p \in DOMAIN pages
        /\ tables[t] = ExtractedTable(p) /\ CutOut(p, pages[p].lines)
        /\ \E j \in document[p].boxed \intersect DOMAIN document[p].lines : id = CharStart(p, j) /\ id \in Nat
    BY <1>1, TablesKnown
  <2>. HIDE DEF p
  <2>2. PICK j \in document[p].boxed \intersect DOMAIN document[p].lines : id = CharStart(p, j) /\ id \in Nat
    BY <2>1
  <2>3. PICK q \in DOMAIN pages : \E k \in DOMAIN pages[q].lines : pages[q].lines[k].start = id
    <3>1. \A q \in DOMAIN pages : id # -q
      <4>1. \A q \in DOMAIN pages : q \in Nat /\ q > 0
        BY TextKnown
      <4>. QED
        BY <2>2, <4>1
    <3>. QED
      BY <1>1, <3>1, ProseKnown
  <2>4. PICK k \in DOMAIN pages[q].lines : pages[q].lines[k].start = id
    BY <2>3
  <2>5. q \in DOMAIN document /\ \E i \in DOMAIN document[q].lines : pages[q].lines[k].start = CharStart(q, i)
    BY LinesKnown
  <2>6. PICK i \in DOMAIN document[q].lines : pages[q].lines[k].start = CharStart(q, i)
    BY <2>5
  <2>7. q = p
    BY <2>1, <2>2, <2>4, <2>5, <2>6, StartsDiffer
  <2>8. pages[p].lines[k].start \in Ids(ExtractedTable(p).text) /\ k \in DOMAIN pages[p].lines
    BY <1>1, <2>1, <2>4, <2>7
  <2>. QED
    BY <2>1, <2>8 DEF CutOut, p
<1>. QED
  BY <1>1 DEF TableTextIsIndexedOnce

-----------------------------------------------------------------------------
(* Text is indexed *)

\* A line in the prose of a document with sections.
LEMMA SectionedLineIsIndexed ==
    ASSUME PipelineInv, stage = "indexed", sections # <<>>, NEW a \in DOMAIN AllLines
    PROVE  LET l       == AllLines[a]
               own     == {i \in DOMAIN sections : sections[i].start <= l.start}
               s       == sections[Max(own)]
           IN  \/ l.start \in AllIds(chunks)
               \/ own = {}
               \/ own # {} /\ s.start = l.start
               \/ /\ own # {} /\ Lists(s)
                  /\ \A i \in DOMAIN s.body : s.body[i].reads = "term" => l.start < s.body[i].start
<1>. DEFINE l   == AllLines[a]
            own == {i \in DOMAIN sections : sections[i].start <= l.start}
            i   == Max(own)
            s   == sections[i]
            at  == s.at
<1>1. Parsed(sections, AllLines) /\ AllLines \in Seq(Line) /\ Ordered(AllLines)
  BY AllLinesHold DEF PipelineInv
<1>2. Chunked(chunks, sections, tables, AllText)
  BY DEF PipelineInv
<1>3. /\ Len(AllLines) \in Nat /\ DOMAIN AllLines = 1..Len(AllLines) /\ a \in Nat
      /\ \A b \in DOMAIN AllLines : AllLines[b].start \in Nat
  <2>1. \A b \in DOMAIN AllLines : AllLines[b] \in Line
    BY <1>1
  <2>. QED
    BY <1>1, <2>1 DEF Line
<1>4. ASSUME NEW k \in DOMAIN sections
      PROVE  /\ sections[k].at \in DOMAIN AllLines /\ sections[k].start = AllLines[sections[k].at].start
             /\ sections[k].start <= l.start <=> sections[k].at <= a
  <2>1. sections[k].at \in DOMAIN AllLines /\ sections[k].start = AllLines[sections[k].at].start
    BY <1>1 DEF Parsed, Heads
  <2>. DEFINE b == sections[k].at
  <2>2. b \in DOMAIN AllLines /\ b \in Nat /\ sections[k].start = AllLines[b].start
    BY <1>3, <2>1
  <2>. HIDE DEF b
  <2>3. CASE b = a
    <3>1. AllLines[b].start = l.start /\ l.start <= l.start
      BY <1>3, <2>3
    <3>2. b <= a
      BY <1>3, <2>3
    <3>3. sections[k].start <= l.start
      BY <2>2, <3>1
    <3>. QED
      BY <2>1, <3>2, <3>3 DEF b
  <2>4. CASE b < a
    <3>1. AllLines[b].start < AllLines[a].start
      BY <1>1, <2>2, <2>4 DEF Ordered
    <3>. QED
      BY <1>3, <2>2, <2>4, <3>1 DEF b
  <2>5. CASE a < b
    <3>1. AllLines[a].start < AllLines[b].start
      BY <1>1, <2>2, <2>5 DEF Ordered
    <3>. QED
      BY <1>3, <2>2, <2>5, <3>1 DEF b
  <2>. QED
    BY <1>3, <2>1, <2>2, <2>3, <2>4, <2>5 DEF b
<1>. SUFFICES ASSUME own # {}
              PROVE  \/ l.start \in AllIds(chunks)
                     \/ s.start = l.start
                     \/ /\ Lists(s)
                        /\ \A x \in DOMAIN s.body : s.body[x].reads = "term" => l.start < s.body[x].start
  OBVIOUS
<1>5. own = {k \in DOMAIN sections : sections[k].at <= a}
  BY <1>4
<1>. HIDE DEF l, own
<1>6. i \in DOMAIN sections /\ a \in sections[i].at..EndsAt(sections, i, AllLines)
  BY <1>1, <1>5, LineHasSection
<1>. HIDE DEF i
<1>7. /\ at \in Nat /\ s.body \in Seq(Line) /\ EndsAt(sections, i, AllLines) \in Int
      /\ \A x \in DOMAIN s.body : at + x \in DOMAIN AllLines /\ s.body[x] = AllLines[at + x]
      /\ \A j \in (at + 1)..EndsAt(sections, i, AllLines) :
            j - at \in DOMAIN s.body /\ s.body[j - at] = AllLines[j]
  <2>1. EndsAt(sections, i, AllLines) \in sections[i].at..Len(AllLines) /\ sections[i].at \in Nat
    BY <1>1, <1>6, BodyHolds
  <2>2. EndsAt(sections, i, AllLines) \in Int
    BY <1>3, <2>1
  <2>. QED
    BY <1>1, <1>6, <2>2, BodyHolds
<1>8. CASE a = at
  BY <1>4, <1>6, <1>8 DEF l
<1>9. CASE a # at
  <2>. DEFINE x == a - at
  <2>1. a \in (at + 1)..EndsAt(sections, i, AllLines)
    BY <1>3, <1>6, <1>7, <1>9
  <2>2. x \in DOMAIN s.body /\ s.body[x] = l /\ at + x = a
    BY <1>3, <1>7, <2>1 DEF l
  <2>. HIDE DEF x
  <2>3. \/ s.body[x].start \in AllIds(chunks)
        \/ /\ Lists(s)
           /\ \A t \in DOMAIN s.body : s.body[t].reads = "term" => x < t
    BY <1>2, <1>6, <2>2 DEF Chunked
  <2>4. ASSUME NEW t \in DOMAIN s.body, x < t
        PROVE  l.start < s.body[t].start
    <3>1. x \in Nat /\ t \in Nat
      BY <1>7, <2>2
    <3>2. at + x \in DOMAIN AllLines /\ at + t \in DOMAIN AllLines /\ at + x < at + t
      BY <1>7, <2>2, <2>4, <3>1
    <3>3. AllLines[at + x].start < AllLines[at + t].start
      BY <1>1, <3>2 DEF Ordered
    <3>. QED
      BY <1>7, <2>2, <3>3
  <2>. QED
    BY <2>2, <2>3, <2>4
<1>. QED
  BY <1>8, <1>9

\* A line extracted after the heading of its section.
LEMMA ExtractedLineIsIndexed ==
    ASSUME PipelineInv, stage = "indexed", NEW p \in DOMAIN pages, pages[p].method \notin {"failed", "ocr"},
           NEW j \in DOMAIN document[p].lines
    PROVE  LET l    == BuildLines(p)[j]
               open == {i \in DOMAIN sections : sections[i].start <= l.start}
               s    == sections[Max(open)]
           IN  open # {} /\ s.start # l.start /\ ~LeftOut(l, s) => l.start \in AllIds(chunks)
<1>. DEFINE l    == BuildLines(p)[j]
            open == {i \in DOMAIN sections : sections[i].start <= l.start}
            s    == sections[Max(open)]
<1>1. document \in Document /\ p \in DOMAIN document
  BY PagesHold
<1>2. l.page = p /\ l.start = CharStart(p, j)
  BY <1>1, BuildLinesHold
<1>3. Complete(p, pages[p].lines, tables)
  BY DEF PipelineInv, PageHolds, PageOf
<1>. SUFFICES ASSUME open # {}, s.start # l.start, ~LeftOut(l, s)
              PROVE  l.start \in AllIds(chunks)
  OBVIOUS
<1>4. CASE \E k \in DOMAIN pages[p].lines : pages[p].lines[k] = l
  <2>1. PICK a \in DOMAIN AllLines : AllLines[a] = l
    BY <1>4, AllLinesHold
  <2>2. sections # <<>>
    OBVIOUS
  <2>. HIDE DEF l
  <2>. QED
    BY <2>1, <2>2, SectionedLineIsIndexed DEF LeftOut
<1>5. CASE ~\E k \in DOMAIN pages[p].lines : pages[p].lines[k] = l
  <2>. HIDE DEF s
  <2>1. j \in document[p].boxed /\ \E t \in DOMAIN tables : tables[t].page = p
    BY <1>3, <1>5 DEF Complete
  <2>2. PICK t \in DOMAIN tables : tables[t].page = p
    BY <2>1
  <2>3. tables[t] = ExtractedTable(p)
    BY <2>2 DEF PipelineInv, TableHolds
  <2>. HIDE DEF l
  <2>4. /\ tables[t].sparse <=> document[p].table = "sparse"
        /\ Ids(tables[t].text) = {CharStart(p, i) : i \in document[p].boxed \intersect DOMAIN document[p].lines}
    BY <1>1, <2>3, ExtractedTableHolds
  <2>5. ~tables[t].sparse
    BY <1>2, <2>1, <2>4 DEF LeftOut
  <2>6. Chunked(chunks, sections, tables, AllText)
    BY DEF PipelineInv
  <2>7. Ids(tables[t].text) \subseteq AllIds(chunks)
    BY <2>5, <2>6 DEF Chunked
  <2>. QED
    BY <1>2, <2>1, <2>4, <2>7
<1>. QED
  BY <1>4, <1>5

\* The invariant implies that text is indexed.
LEMMA IndexFollows ==
    ASSUME PipelineInv
    PROVE  TextIsIndexed
<1>1. stage = "indexed" => Chunked(chunks, sections, tables, AllText)
  BY DEF PipelineInv
<1>2. ASSUME stage = "indexed", sections = <<>>, NEW p \in DOMAIN pages
      PROVE  Ids(pages[p].text) \subseteq AllIds(chunks)
  <2>1. Ids(pages[p].text) \subseteq Ids(AllText)
    BY AllTextHolds
  <2>. QED
    BY <1>1, <1>2, <2>1 DEF Chunked
<1>3. ASSUME stage = "indexed", NEW i \in DOMAIN sections, sections[i].body # <<>>
      PROVE  \E k \in DOMAIN chunks : chunks[k].headings > 0 /\ chunks[k].section = Ref(sections[i])
  BY <1>1, <1>3 DEF Chunked
<1>4. AllIds(chunks) = UNION {Ids(chunks[k].text) : k \in DOMAIN chunks}
  BY DEF AllIds
<1>. QED
  BY <1>2, <1>3, <1>4, ExtractedLineIsIndexed DEF TextIsIndexed

-----------------------------------------------------------------------------
(* The theorems *)

\* The invariant holds throughout.
LEMMA PipelineInvHolds == Spec => []PipelineInv
<1>1. Init => PipelineInv
  BY InitHolds
<1>2. PipelineInv /\ [Next]_vars => PipelineInv'
  BY NextKeeps
<1>. QED
  BY <1>1, <1>2, PTL DEF Spec

\* The outcome of the pipeline has its shape whatever the document, the counts
\* OCR comes back with and the sizes of the chunks; and no page that was taken
\* from OCR is trusted beyond 75 percent.
THEOREM PipelineIsTypeCorrect == Spec => []TypeOK
<1>1. PipelineInv => TypeOK
  BY TypeFollows
<1>. QED
  BY <1>1, PipelineInvHolds, PTL

\* However the headings of a bylaw are numbered and nested, its sections form a
\* tree in the order of the text: what follows a section lies in it until the
\* next heading of its level or above, under the paths that citations are read
\* from.  How clauses stand to each other is left open
\* (SectionParser._build_hierarchy).
THEOREM SectionTreesAreWellFormed == Spec => []TreeIsWellFormed
<1>1. PipelineInv => TreeIsWellFormed
  BY TreeFollows
<1>. QED
  BY <1>1, PipelineInvHolds, PTL

\* Splitting, overlapping and merging never carry a line into a chunk that cites
\* another section (SectionChunker).
THEOREM ChunksNeverCrossSections == Spec => []ChunksKeepToTheirSection
<1>1. PipelineInv => ChunksKeepToTheirSection
  BY SectionsFit
<1>. QED
  BY <1>1, PipelineInvHolds, PTL

\* Every line that was extracted under a heading can be found in the index,
\* unless it is LeftOut; without headings, all text of the pages can
\* (SectionParser._attach_bodies, SectionChunker.chunk).
THEOREM ExtractedTextIsIndexed == Spec => []TextIsIndexed
<1>1. PipelineInv => TextIsIndexed
  BY IndexFollows
<1>. QED
  BY <1>1, PipelineInvHolds, PTL

\* The text of a table is not also in the prose, unless its page holds nothing
\* else (TableExtractor, remaining_lines).
THEOREM TablesAreIndexedOnce == Spec => []TableTextIsIndexedOnce
<1>1. PipelineInv => TableTextIsIndexedOnce
  BY TablesFollow
<1>. QED
  BY <1>1, PipelineInvHolds, PTL

\* The rows written for the chunks refer to a section of the chunk's path, and a
\* child of the first chunked section to a parent that holds its text.
THEOREM RowsReferToTheirSection == Spec => []StoredUnderItsSection
<1>1. PipelineInv => StoredUnderItsSection
  BY RowsFollow
<1>. QED
  BY <1>1, PipelineInvHolds, PTL

\* No step lowers the score of a page.
LEMMA ConfidenceGrows ==
    ASSUME PipelineInv, [Next]_vars
    PROVE  (\A p \in DOMAIN pages : pages'[p].confidence >= pages[p].confidence) \/ UNCHANGED vars
<1>1. \A p \in DOMAIN pages : pages[p].confidence >= pages[p].confidence
  <2>1. ASSUME NEW p \in DOMAIN pages PROVE pages[p].confidence >= pages[p].confidence
    <3>. DEFINE was == pages[p].confidence
    <3>1. was \in 0..100
      BY PagesHold DEF PageRecord
    <3>. HIDE DEF was
    <3>2. was >= was
      BY <3>1
    <3>. QED
      BY <3>2 DEF was
  <2>. QED
    BY <2>1
<1>2. CASE Extract
  <2>1. pages = <<>>
    BY <1>2 DEF Extract, PipelineInv
  <2>. QED
    BY <2>1
<1>3. CASE Ocr
  BY <1>3, OcrKeeps
<1>4. CASE ExtractTables
  BY <1>1, <1>4, ExtractTablesKeeps
<1>5. CASE SkipOcr \/ DetectMetadata \/ ParseSections \/ ChunkDocument \/ WriteRows \/ Fail
  <2>1. pages' = pages
    BY <1>5 DEF SkipOcr, DetectMetadata, ParseSections, ChunkDocument, WriteRows, Fail
  <2>. QED
    BY <1>1, <2>1
<1>. QED
  BY <1>2, <1>3, <1>4, <1>5 DEF Next

\* No stage replaces a page by a reading of it that is trusted less
\* (prefer_ocr, remaining_lines).
THEOREM OcrNeverDegradesAPage == Spec => OcrOnlyImproves
<1>1. PipelineInv /\ [Next]_vars => [\A p \in DOMAIN pages : pages'[p].confidence >= pages[p].confidence]_vars
  BY ConfidenceGrows
<1>. QED
  BY <1>1, PipelineInvHolds, PTL DEF Spec, OcrOnlyImproves

-----------------------------------------------------------------------------
(* The quality of a page *)

\* The density of a page with too few characters is below a quarter of the best.
LEMMA SparsePageScore ==
    ASSUME NEW c \in Counts
    PROVE  /\ Density(c) \in 0..100
           /\ TooFew(c) => Density(c) < 25
           /\ ~TooFew(c) => Density(c) >= 25
<1>. DEFINE full  == 4 * MinChars
            chars == 100 * c.chars
            x     == chars \div full
<1>1. c.chars \in Nat /\ MinChars \in Nat /\ MinChars > 0
  BY MinCharsAssumption DEF Counts
<1>2. /\ full \in Nat /\ full > 0 /\ chars \in Nat
      /\ TooFew(c) => chars < 25 * full
      /\ ~TooFew(c) => chars >= 25 * full
  BY <1>1 DEF TooFew
<1>3. Density(c) = Smaller(100, x)
  BY DEF Density
<1>. HIDE DEF full, chars
<1>4. x \in Nat /\ full * x <= chars /\ chars < full * x + full
  BY <1>2
<1>. HIDE DEF x
<1>5. TooFew(c) => x < 25
  <2>1. x >= 25 => full * x >= full * 25
    BY <1>2, <1>4
  <2>. QED
    BY <1>2, <1>4, <2>1
<1>6. ~TooFew(c) => x >= 25
  <2>1. x <= 24 => full * x <= full * 24
    BY <1>2, <1>4
  <2>. QED
    BY <1>2, <1>4, <2>1
<1>. QED
  BY <1>3, <1>4, <1>5, <1>6 DEF Smaller

\* One score stands for three reasons to distrust a page: whatever the counts and
\* the least number of characters, a page has the better score exactly if no
\* reason was found against it, and every OCR threshold from 40 to 66 percent, the
\* default of 50 among them, queues exactly the pages with a reason
\* (assess_page_text, should_ocr_page).
THEOREM ScoreFollowsReasons ==
    \A c \in Counts :
        /\ Usable(c) <=> ~Doubtful(c)
        /\ OcrThreshold \in 40..66 => (ShouldOcrPage(AssessPageText(c)) <=> Doubtful(c))
<1>. SUFFICES ASSUME NEW c \in Counts
              PROVE  IF Doubtful(c) THEN AssessPageText(c) \in 0..39 ELSE AssessPageText(c) \in 66..100
  BY OcrThresholdAssumption DEF Usable, ShouldOcrPage
<1>. DEFINE d == Density(c)
<1>1. c.chars \in Nat /\ c.bad \in 0..100 /\ c.plausible \in 0..100 /\ MinChars \in Nat /\ MinChars > 0
  BY MinCharsAssumption DEF Counts
<1>2. d \in 0..100 /\ (TooFew(c) => d < 25) /\ (~TooFew(c) => d >= 25)
  BY SparsePageScore
<1>3. c.chars = 0 => TooFew(c)
  BY <1>1 DEF TooFew
<1>. HIDE DEF d
<1>4. CASE TooFew(c)
  <2>1. (d * 4) \div 10 \in 0..39
    BY <1>2, <1>4
  <2>. QED
    BY <1>4, <2>1 DEF AssessPageText, Doubtful, d
<1>5. CASE ~TooFew(c) /\ BrokenFont(c)
  <2>1. Larger(0, 40 - c.bad) \in 0..39
    BY <1>1, <1>5 DEF Larger, BrokenFont
  <2>. QED
    BY <1>3, <1>5, <2>1 DEF AssessPageText, Doubtful
<1>6. CASE ~TooFew(c) /\ ~BrokenFont(c) /\ Implausible(c)
  <2>1. (c.plausible * 8) \div 10 \in 0..39
    BY <1>1, <1>6 DEF Implausible
  <2>. QED
    BY <1>3, <1>6, <2>1 DEF AssessPageText, Doubtful
<1>7. CASE ~TooFew(c) /\ ~BrokenFont(c) /\ ~Implausible(c)
  <2>1. d \div 4 \in 6..25 /\ c.plausible \div 5 \in 10..20 /\ c.bad <= 5
    BY <1>1, <1>2, <1>7 DEF BrokenFont, Implausible
  <2>2. Smaller(100, 55 + d \div 4 + c.plausible \div 5 - c.bad) \in 66..100
    BY <1>1, <2>1 DEF Smaller
  <2>. QED
    BY <1>3, <1>7, <2>2 DEF AssessPageText, Doubtful, d
<1>. QED
  BY <1>4, <1>5, <1>6, <1>7

=============================================================================
