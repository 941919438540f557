------------------------- MODULE MergeSafety_proofs -------------------------
(***************************************************************************)
(* What the resolver returns is what its versions say, for texts of any     *)
(* length and any number of versions, and Markdown's merge is that merge.   *)
(***************************************************************************)
EXTENDS MergeSafety, SequenceTheorems, TLAPS

MP == INSTANCE Markdown_proofs WITH NLines <- Numbered

-----------------------------------------------------------------------------
(* Positions.                                                               *)

\* Positions between two bounds have a first and a last one.
LEMMA FirstPosition ==
  ASSUME NEW n \in Nat, NEW S \in SUBSET (-1..n), S # {}
  PROVE  \E m \in S : \A k \in S : m <= k
<1> DEFINE T == {k + 1 : k \in S}
<1>1. T \in SUBSET Nat /\ T # {}
  <2>1. \A k \in S : k + 1 \in Nat
    OBVIOUS
  <2> QED BY <2>1
<1>2. PICK t \in T : \A k \in T : t <= k
  <2> HIDE DEF T
  <2> QED BY <1>1, LinesAssumption, MP!LeastNatural
<1>3. PICK m \in S : t = m + 1
  OBVIOUS
<1>4. \A k \in S : m + 1 <= k + 1
  BY <1>2, <1>3
<1> QED BY <1>4

LEMMA LastPosition ==
  ASSUME NEW n \in Nat, NEW S \in SUBSET (-1..n), S # {}
  PROVE  \E m \in S : \A k \in S : k <= m
<1> DEFINE T == {n - k : k \in S}
<1>1. T \in SUBSET Nat /\ T # {}
  <2>1. \A k \in S : n - k \in Nat
    OBVIOUS
  <2> QED BY <2>1
<1>2. PICK t \in T : \A k \in T : t <= k
  <2> HIDE DEF T
  <2> QED BY <1>1, LinesAssumption, MP!LeastNatural
<1>3. PICK m \in S : t = n - m
  OBVIOUS
<1>4. \A k \in S : n - m <= n - k
  BY <1>2, <1>3
<1> QED BY <1>4

\* Concatenation, regrouped.
LEMMA Regrouped ==
  \A p, q, r \in Seq(Line) : p \o (q \o r) = (p \o q) \o r /\ q \o r \in Seq(Line)
  BY ConcatAssociative

\* One text after another, kept unexpanded where only the order matters.
Joined(p, q) == p \o q

\* It matters not which two are put together first.
LEMMA JoinedThree ==
  \A p, q, r \in Seq(Line) :
     Joined(p, Joined(q, r)) = Joined(Joined(p, q), r) /\ Joined(q, r) \in Seq(Line)
  BY Regrouped DEF Joined

LEMMA JoinedFour ==
  \A p, q, r, s \in Seq(Line) :
     Joined(Joined(p, q), Joined(r, s)) = Joined(p, Joined(Joined(q, r), s))
  BY JoinedThree

-----------------------------------------------------------------------------
(* What changes make of the base.                                           *)

\* f puts the lines A[i] together from line k on.
Recursion(A, n, k, f) ==
  f = [i \in k..(n + 1) |-> IF i > n THEN <<>> ELSE A[i] \o f[i + 1]]

\* There is a function that puts the lines together from the last to the first.
LEMMA RecursionExists ==
  ASSUME NEW n \in Nat, NEW A
  PROVE  \E f : Recursion(A, n, 0, f)
<1> DEFINE Bad == {k \in 0..(n + 1) : ~ \E f : Recursion(A, n, k, f)}
<1> SUFFICES ASSUME Bad # {} PROVE FALSE
  OBVIOUS
<1>1. PICK m \in Bad : \A k \in Bad : k <= m
  <2> HIDE DEF Bad
  <2>1. Bad \in SUBSET (-1..(n + 1)) /\ n + 1 \in Nat
    BY DEF Bad
  <2> QED BY <2>1, LastPosition
<1>2. CASE m = n + 1
  <2> DEFINE g == [i \in m..(n + 1) |-> <<>>]
  <2>0. \A i \in m..(n + 1) : i > n
    BY <1>2
  <2>1. Recursion(A, n, m, g)
    BY <2>0 DEF Recursion
  <2> QED BY <2>1
<1>3. CASE m < n + 1
  <2>1. PICK f : Recursion(A, n, m + 1, f)
    <3>1. m + 1 \in 0..(n + 1) /\ m + 1 \notin Bad
      BY <1>1, <1>3
    <3> QED BY <3>1
  <2> DEFINE g == [i \in m..(n + 1) |-> IF i = m THEN A[m] \o f[m + 1] ELSE f[i]]
  <2>2. ASSUME NEW i \in m..(n + 1) PROVE g[i] = IF i > n THEN <<>> ELSE A[i] \o g[i + 1]
    <3>1. CASE i = m
      <4>1. m + 1 \in m..(n + 1) /\ m + 1 # m /\ ~(m > n) /\ m \in m..(n + 1)
        BY <1>3
      <4>2. g[m + 1] = f[m + 1] /\ g[m] = A[m] \o f[m + 1]
        BY <4>1
      <4> QED BY <3>1, <4>1, <4>2
    <3>2. CASE i # m
      <4>1. i \in (m + 1)..(n + 1) /\ (i <= n => i + 1 \in (m + 1)..(n + 1))
        BY <3>2
      <4>2. f[i] = IF i > n THEN <<>> ELSE A[i] \o f[i + 1]
        BY <2>1, <4>1 DEF Recursion
      <4> QED BY <3>2, <4>1, <4>2
    <3> QED BY <3>1, <3>2
  <2>3. Recursion(A, n, m, g)
    BY <2>2 DEF Recursion
  <2> QED BY <2>3
<1> QED BY <1>2, <1>3

\* So Onward is what its definition says.
LEMMA OnwardIs ==
  ASSUME NEW C, base \in Seq(Line)
  PROVE  Onward(C) = [i \in 0..(Len(base) + 1) |->
            IF i > Len(base) THEN <<>> ELSE Put(C, i) \o Kept(C, i) \o Onward(C)[i + 1]]
<1> DEFINE A == [i \in 0..Len(base) |-> Put(C, i) \o Kept(C, i)]
<1>1. PICK f : Recursion(A, Len(base), 0, f)
  <2> HIDE DEF A
  <2>1. Len(base) \in Nat
    OBVIOUS
  <2> QED BY <2>1, RecursionExists
<1>2. f = [i \in 0..(Len(base) + 1) |-> IF i > Len(base) THEN <<>> ELSE Put(C, i) \o Kept(C, i) \o f[i + 1]]
  <2>1. \A i \in 0..(Len(base) + 1) : i > Len(base) \/ A[i] = Put(C, i) \o Kept(C, i)
    OBVIOUS
  <2> HIDE DEF A
  <2> QED BY <1>1, <2>1 DEF Recursion
<1> QED BY <1>2, Zenon DEF Onward

\* One line of it at a time.
LEMMA OnwardStep ==
  ASSUME NEW C, base \in Seq(Line)
  PROVE  /\ Onward(C)[Len(base) + 1] = <<>>
         /\ \A i \in 0..Len(base) : Onward(C)[i] = Put(C, i) \o Kept(C, i) \o Onward(C)[i + 1]
<1>1. Len(base) \in Nat /\ Len(base) + 1 > Len(base)
  OBVIOUS
<1>2. Len(base) + 1 \in 0..(Len(base) + 1) /\ \A i \in 0..Len(base) : i \in 0..(Len(base) + 1) /\ ~(i > Len(base))
  BY <1>1
<1> QED BY <1>1, <1>2, OnwardIs

\* What a change puts before its first line.
LEMMA PutIs ==
  ASSUME NEW C, NEW c \in C, \A d \in C : d.start = c.start => d = c
  PROVE  Put(C, c.start) = c.replacement
  BY DEF Put

\* Both parts of a line are lines.
LEMMA PutType ==
  ASSUME NEW C \in SUBSET Change, base \in Seq(Line), NEW i \in 0..Len(base)
  PROVE  Put(C, i) \in Seq(Line) /\ Kept(C, i) \in Seq(Line)
<1>1. Put(C, i) \in Seq(Line)
  <2>1. CASE \E c \in C : c.start = i
    <3>1. (CHOOSE c \in C : c.start = i) \in Change
      BY <2>1
    <3> QED BY <2>1, <3>1 DEF Put, Change
  <2>2. CASE ~ \E c \in C : c.start = i
    BY <2>2 DEF Put
  <2> QED BY <2>1, <2>2
<1>2. Kept(C, i) \in Seq(Line)
  <2>1. i < Len(base) => base[i + 1] \in Line
    OBVIOUS
  <2> QED BY <2>1 DEF Kept
<1> QED BY <1>1, <1>2

\* And so is everything from a line on.
LEMMA OnwardType ==
  ASSUME NEW C \in SUBSET Change, base \in Seq(Line), NEW i \in 0..(Len(base) + 1)
  PROVE  Onward(C)[i] \in Seq(Line)
<1> DEFINE Bad == {k \in 0..(Len(base) + 1) : Onward(C)[k] \notin Seq(Line)}
<1> SUFFICES ASSUME Bad # {} PROVE FALSE
  OBVIOUS
<1>1. PICK m \in Bad : \A k \in Bad : k <= m
  <2> HIDE DEF Bad
  <2>1. Bad \in SUBSET (-1..(Len(base) + 1)) /\ Len(base) + 1 \in Nat
    BY DEF Bad
  <2> QED BY <2>1, LastPosition
<1>2. m # Len(base) + 1
  <2>1. <<>> \in Seq(Line)
    OBVIOUS
  <2> QED BY <1>1, <2>1, OnwardStep
<1>3. m \in 0..Len(base) /\ Onward(C)[m + 1] \in Seq(Line)
  BY <1>1, <1>2
<1>4. Onward(C)[m] = Put(C, m) \o Kept(C, m) \o Onward(C)[m + 1]
  BY <1>3, OnwardStep
<1>5. Put(C, m) \in Seq(Line) /\ Kept(C, m) \in Seq(Line)
  BY <1>3, PutType
<1>6. Onward(C)[m] \in Seq(Line)
  <2> HIDE DEF Bad
  <2> QED BY <1>3, <1>4, <1>5
<1> QED BY <1>1, <1>6

\* A position past the end is the end.
Cap(m) == IF m > Len(base) THEN Len(base) ELSE m

\* Lines that no change begins at and none replaces stay.
LEMMA StretchStays ==
  ASSUME NEW C \in SUBSET Change, base \in Seq(Line),
         NEW m \in 0..(Len(base) + 1), NEW i \in 0..m,
         \A c \in C : \A x \in i..(m - 1) : c.start # x /\ x \notin c.start..(c.end - 1)
  PROVE  Onward(C)[i] = SubSeq(base, i + 1, Cap(m)) \o Onward(C)[m]
<1> DEFINE Good(k) == Onward(C)[k] = SubSeq(base, k + 1, Cap(m)) \o Onward(C)[m]
<1> DEFINE Bad == {k \in i..m : ~Good(k)}
<1> SUFFICES ASSUME Bad # {} PROVE FALSE
  <2>1. i \in i..m
    OBVIOUS
  <2> QED BY <2>1
<1>0. Len(base) \in Nat /\ Cap(m) \in 0..Len(base) /\ Onward(C)[m] \in Seq(Line)
  BY OnwardType DEF Cap
<1>1. PICK k \in Bad : \A j \in Bad : j <= k
  <2> HIDE DEF Bad
  <2>1. Bad \in SUBSET (-1..m) /\ m \in Nat
    BY DEF Bad
  <2> QED BY <2>1, LastPosition
<1>2. k # m
  <2>1. SubSeq(base, m + 1, Cap(m)) = <<>>
    BY <1>0, SubSeqEmpty DEF Cap
  <2> QED BY <1>0, <1>1, <2>1, ConcatEmptySeq
<1>3. k \in i..(m - 1) /\ k \in 0..Len(base) /\ Good(k + 1)
  <2>1. k \in i..(m - 1) /\ k \in 0..Len(base) /\ k + 1 \in i..m /\ ~(k + 1 <= k)
    BY <1>1, <1>2
  <2> HIDE DEF Good
  <2> QED BY <1>1, <2>1
<1>4. Put(C, k) = <<>>
  BY <1>3 DEF Put
<1>5. Onward(C)[k] = <<>> \o Kept(C, k) \o Onward(C)[k + 1]
  BY <1>3, <1>4, OnwardStep
<1>6. CASE k < Len(base)
  <2>1. Kept(C, k) = <<base[k + 1]>>
    BY <1>3, <1>6 DEF Kept
  <2>2. SubSeq(base, k + 1, Cap(m)) = <<base[k + 1]>> \o SubSeq(base, k + 2, Cap(m))
    <3>1. k + 1 \in 1..Len(base) /\ Cap(m) \in (k + 1)..Len(base) /\ (k + 1) + 1 = k + 2
      BY <1>0, <1>3, <1>6 DEF Cap
    <3> QED BY <3>1, SubSeqRecursiveFirst
  <2>3. <<base[k + 1]>> \in Seq(Line) /\ SubSeq(base, k + 2, Cap(m)) \in Seq(Line)
    <3>0. k \in Nat /\ Cap(m) \in Nat /\ Cap(m) <= Len(base) /\ Len(base) \in Nat
      BY <1>0, <1>3
    <3> HIDE DEF Good, Bad
    <3>1. k + 1 \in 1..Len(base) /\ \A j \in (k + 2)..Cap(m) : j \in 1..Len(base)
      BY <3>0, <1>6
    <3>2. base[k + 1] \in Line /\ \A j \in (k + 2)..Cap(m) : base[j] \in Line
      BY <3>1
    <3>3. SubSeq(base, k + 2, Cap(m)) \in Seq(Line)
      BY <1>0, <1>3, <3>2, SubSeqProperties
    <3> QED BY <3>2, <3>3
  <2>4. Onward(C)[k + 1] = SubSeq(base, k + 2, Cap(m)) \o Onward(C)[m]
    <3>1. (k + 1) + 1 = k + 2
      BY <1>3
    <3> QED BY <1>3, <3>1
  <2>5. Onward(C)[k] = <<base[k + 1]>> \o (SubSeq(base, k + 2, Cap(m)) \o Onward(C)[m])
    BY <1>5, <2>1, <2>3, <2>4, ConcatEmptySeq
  <2> DEFINE u == <<base[k + 1]>>
             Q == SubSeq(base, k + 2, Cap(m))
             R == Onward(C)[m]
  <2>6. u \o (Q \o R) = (u \o Q) \o R
    <3>1. u \in Seq(Line) /\ Q \in Seq(Line) /\ R \in Seq(Line)
      BY <1>0, <2>3
    <3> HIDE DEF u, Q, R, Good, Bad
    <3> QED BY <3>1, Regrouped
  <2>7. Good(k)
    BY <2>2, <2>5, <2>6, Zenon
  <2> QED BY <1>1, <2>7
<1>7. CASE k = Len(base)
  <2>1. m = Len(base) + 1 /\ Cap(m) = Len(base)
    BY <1>0, <1>3, <1>7 DEF Cap
  <2>2. Kept(C, k) = <<>>
    BY <1>7, <1>0 DEF Kept
  <2>3. Onward(C)[m] = <<>>
    BY <2>1, OnwardStep
  <2>4. SubSeq(base, k + 1, Cap(m)) = <<>>
    BY <1>7, <2>1, <1>0, SubSeqEmpty
  <2>5. Good(k)
    BY <1>5, <1>7, <2>1, <2>2, <2>3, <2>4
  <2> QED BY <1>1, <2>5
<1> QED BY <1>0, <1>3, <1>6, <1>7

\* Lines that one change replaces are gone.
LEMMA StretchGoes ==
  ASSUME NEW C \in SUBSET Change, base \in Seq(Line), NEW c \in C, c.start < c.end,
         \A d \in C : d # c => d.start \notin c.start..(c.end - 1)
  PROVE  Onward(C)[c.start] = c.replacement \o Onward(C)[c.end]
<1> DEFINE Bad == {k \in (c.start + 1)..c.end : Onward(C)[k] # Onward(C)[c.end]}
<1>0. /\ Len(base) \in Nat /\ c.start \in 0..Len(base) /\ c.end \in 0..Len(base)
      /\ c.replacement \in Seq(Line)
  BY DEF Change, Position
<1>1. ASSUME NEW x \in c.start..(c.end - 1) PROVE Kept(C, x) = <<>>
  BY <1>1 DEF Kept
<1>2. Bad = {}
  <2> SUFFICES ASSUME Bad # {} PROVE FALSE
    OBVIOUS
  <2>1. PICK k \in Bad : \A j \in Bad : j <= k
    <3> HIDE DEF Bad
    <3>1. Bad \in SUBSET (-1..c.end) /\ c.end \in Nat
      BY <1>0 DEF Bad
    <3> QED BY <3>1, LastPosition
  <2>2. k \in (c.start + 1)..(c.end - 1) /\ k \in c.start..(c.end - 1) /\ k \in 0..Len(base)
    BY <1>0, <2>1
  <2>3. Onward(C)[k + 1] = Onward(C)[c.end]
    BY <1>0, <2>1, <2>2
  <2>4. Put(C, k) = <<>>
    <3>1. \A d \in C : d.start # k
      BY <1>0, <2>2
    <3> QED BY <3>1 DEF Put
  <2>5. Onward(C)[k] = <<>> \o <<>> \o Onward(C)[k + 1]
    BY <1>1, <2>2, <2>4, OnwardStep
  <2>6. Onward(C)[k + 1] \in Seq(Line)
    BY <1>0, <2>2, OnwardType
  <2> QED BY <2>1, <2>3, <2>5, <2>6, ConcatEmptySeq
<1>3. Onward(C)[c.start + 1] = Onward(C)[c.end]
  BY <1>0, <1>2
<1>4. Put(C, c.start) = c.replacement
  <2>1. c.start \in c.start..(c.end - 1)
    BY <1>0
  <2>2. \A d \in C : d.start = c.start => d = c
    BY <2>1
  <2> QED BY <2>2, PutIs
<1>5. Onward(C)[c.start] = c.replacement \o <<>> \o Onward(C)[c.end]
  <2>1. c.start \in c.start..(c.end - 1)
    BY <1>0
  <2> QED BY <1>0, <1>1, <1>3, <1>4, <2>1, OnwardStep
<1> QED BY <1>0, <1>5, ConcatEmptySeq

\* What Opposed denies, in the code's terms.
Separate(C) == \A c, d \in C : c # d => ~Overlaps(c, d)

\* Two changes overlap when they are about the same line.
LEMMA OverlapsIsAbout ==
  ASSUME NEW c \in Change, NEW d \in Change, c.start <= c.end, d.start <= d.end
  PROVE  /\ Overlaps(c, d) <=> About(c) \cap About(d) # {}
         /\ Overlaps(c, d) <=> Overlaps(d, c)
<1>0. {c.start, c.end, d.start, d.end} \subseteq Nat /\ Len(base) \in Nat
  BY DEF Change, Position
<1>1. Overlaps(c, d) <=> Overlaps(d, c)
  BY <1>0 DEF Overlaps
<1>2. CASE c.start = c.end \/ d.start = d.end
  BY <1>0, <1>2 DEF Overlaps, About
<1>3. CASE c.start # c.end /\ d.start # d.end
  <2>1. Overlaps(c, d) <=> c.start < d.end /\ d.start < c.end
    BY <1>3 DEF Overlaps
  <2>2. About(c) = c.start..(c.end - 1) /\ About(d) = d.start..(d.end - 1)
    BY <1>3 DEF About
  <2>3. ASSUME c.start < d.end, d.start < c.end PROVE About(c) \cap About(d) # {}
    <3>1. CASE c.start <= d.start
      <4>1. d.start \in About(c) \cap About(d)
        BY <1>0, <1>3, <2>2, <2>3, <3>1
      <4> QED BY <4>1
    <3>2. CASE d.start <= c.start
      <4>1. c.start \in About(c) \cap About(d)
        BY <1>0, <1>3, <2>2, <2>3, <3>2
      <4> QED BY <4>1
    <3> QED BY <1>0, <3>1, <3>2
  <2>4. ASSUME About(c) \cap About(d) # {} PROVE c.start < d.end /\ d.start < c.end
    <3>1. PICK x : x \in c.start..(c.end - 1) /\ x \in d.start..(d.end - 1)
      BY <2>2, <2>4
    <3> QED BY <1>0, <3>1
  <2>5. Overlaps(c, d) <=> About(c) \cap About(d) # {}
    BY <2>1, <2>3, <2>4
  <2> QED BY <1>1, <2>5
<1> QED BY <1>1, <1>2, <1>3

\* Of two changes that do not overlap one ends before the other begins.
LEMMA SeparateMeans ==
  ASSUME NEW c \in Change, NEW d \in Change, c.start <= c.end, d.start <= d.end, ~Overlaps(c, d)
  PROVE  \/ c.start < d.start /\ c.end <= d.start
         \/ d.start < c.start /\ d.end <= c.start
<1>0. {c.start, c.end, d.start, d.end} \subseteq Nat /\ Len(base) \in Nat
  BY DEF Change, Position
<1> QED BY <1>0 DEF Overlaps

\* What there is from a change on, when none begins between its start and line m.
LEMMA OneChange ==
  ASSUME NEW C \in SUBSET Change, base \in Seq(Line), Forward(C), Separate(C),
         NEW c \in C, NEW m \in 0..(Len(base) + 1), c.start < m, c.end <= m,
         \A d \in C : d.start <= c.start \/ m <= d.start
  PROVE  Onward(C)[c.start] = c.replacement \o (SubSeq(base, c.end + 1, Cap(m)) \o Onward(C)[m])
<1>0. /\ Len(base) \in Nat /\ c.start \in 0..Len(base) /\ c.end \in 0..Len(base)
      /\ c.start <= c.end /\ c.replacement \in Seq(Line)
      /\ \A d \in C : d.start \in 0..Len(base) /\ d.end \in 0..Len(base) /\ d.start <= d.end
  BY DEF Change, Position, Forward
<1>1. ASSUME NEW d \in C, d # c
      PROVE  (d.start < c.start /\ d.end <= c.start) \/ m <= d.start
  <2>1. c \in Change /\ d \in Change /\ ~Overlaps(c, d)
    BY <1>1 DEF Separate
  <2> QED BY <1>0, <2>1, SeparateMeans
<1>2. CASE c.start < c.end
  <2>1. Onward(C)[c.start] = c.replacement \o Onward(C)[c.end]
    <3>1. ASSUME NEW d \in C, d # c PROVE d.start \notin c.start..(c.end - 1)
      BY <1>0, <1>1, <3>1
    <3> QED BY <1>2, <3>1, StretchGoes
  <2>2. Onward(C)[c.end] = SubSeq(base, c.end + 1, Cap(m)) \o Onward(C)[m]
    <3>1. ASSUME NEW d \in C, NEW x \in c.end..(m - 1)
          PROVE  d.start # x /\ x \notin d.start..(d.end - 1)
      <4>1. CASE d = c
        BY <1>0, <1>2, <4>1
      <4>2. CASE d # c
        BY <1>0, <1>1, <4>2
      <4> QED BY <4>1, <4>2
    <3>2. c.end \in 0..m
      BY <1>0
    <3> QED BY <3>1, <3>2, StretchStays
  <2> QED BY <2>1, <2>2
<1>3. CASE c.start = c.end
  <2>1. Put(C, c.start) = c.replacement
    <3>1. \A d \in C : d.start = c.start => d = c
      BY <1>0, <1>1
    <3> QED BY <3>1, PutIs
  <2>2. Onward(C)[c.start + 1] = SubSeq(base, c.end + 2, Cap(m)) \o Onward(C)[m]
    <3>1. ASSUME NEW d \in C, NEW x \in (c.start + 1)..(m - 1)
          PROVE  d.start # x /\ x \notin d.start..(d.end - 1)
      <4>1. CASE d = c
        BY <1>0, <1>3, <4>1
      <4>2. CASE d # c
        BY <1>0, <1>1, <4>2
      <4> QED BY <4>1, <4>2
    <3>2. c.start + 1 \in 0..m /\ (c.start + 1) + 1 = c.end + 2
      BY <1>0, <1>3
    <3>3. Onward(C)[c.start + 1] = SubSeq(base, (c.start + 1) + 1, Cap(m)) \o Onward(C)[m]
      BY <3>1, <3>2, StretchStays
    <3> QED BY <3>2, <3>3
  <2>3. Kept(C, c.start) \o SubSeq(base, c.end + 2, Cap(m)) = SubSeq(base, c.end + 1, Cap(m))
    <3>1. CASE c.start < Len(base)
      <4>1. ASSUME NEW d \in C PROVE c.start \notin d.start..(d.end - 1)
        <5>1. CASE d = c
          BY <1>0, <1>3, <5>1
        <5>2. CASE d # c
          BY <1>0, <1>1, <5>2
        <5> QED BY <5>1, <5>2
      <4>2. Kept(C, c.start) = <<base[c.end + 1]>>
        BY <1>3, <3>1, <4>1 DEF Kept
      <4>3. c.end + 1 \in 1..Len(base) /\ Cap(m) \in (c.end + 1)..Len(base) /\ (c.end + 1) + 1 = c.end + 2
        BY <1>0, <1>3, <3>1 DEF Cap
      <4> QED BY <4>2, <4>3, SubSeqRecursiveFirst
    <3>2. CASE c.start = Len(base)
      <4>1. m = Len(base) + 1 /\ Cap(m) = Len(base) /\ Kept(C, c.start) = <<>>
        BY <1>0, <3>2 DEF Cap, Kept
      <4>2. Cap(m) \in Int /\ c.end + 2 \in Int /\ c.end + 1 \in Int /\ Cap(m) < c.end + 2 /\ Cap(m) < c.end + 1
        BY <1>0, <1>3, <3>2, <4>1
      <4>3. SubSeq(base, c.end + 2, Cap(m)) = <<>> /\ SubSeq(base, c.end + 1, Cap(m)) = <<>>
        BY <4>2, SubSeqEmpty
      <4>4. <<>> \o <<>> = <<>>
        OBVIOUS
      <4> QED BY <4>1, <4>3, <4>4, Zenon
    <3>3. c.start < Len(base) \/ c.start = Len(base)
      BY <1>0
    <3> QED BY <3>1, <3>2, <3>3, Zenon
  <2>4. Onward(C)[c.start] = c.replacement \o Kept(C, c.start) \o (SubSeq(base, c.end + 2, Cap(m)) \o Onward(C)[m])
    BY <1>0, <2>1, <2>2, OnwardStep
  <2>5. /\ Kept(C, c.start) \in Seq(Line) /\ SubSeq(base, c.end + 2, Cap(m)) \in Seq(Line)
        /\ Onward(C)[m] \in Seq(Line)
    <3>1. Cap(m) \in 0..Len(base)
      BY <1>0 DEF Cap
    <3>2. \A j \in (c.end + 2)..Cap(m) : base[j] \in Line
      BY <1>0, <3>1
    <3>3. SubSeq(base, c.end + 2, Cap(m)) \in Seq(Line)
      BY <1>0, <3>1, <3>2, SubSeqProperties
    <3> QED BY <1>0, <3>3, PutType, OnwardType
  <2> DEFINE K == Kept(C, c.start)
             Q == SubSeq(base, c.end + 2, Cap(m))
             R == Onward(C)[m]
  <2>7. (c.replacement \o K) \o (Q \o R) = c.replacement \o ((K \o Q) \o R)
    <3>1. K \in Seq(Line) /\ Q \in Seq(Line) /\ R \in Seq(Line) /\ c.replacement \in Seq(Line)
      BY <1>0, <2>5
    <3> DEFINE p == c.replacement
    <3> HIDE DEF K, Q, R, p
    <3>2. p \in Seq(Line)
      BY <3>1 DEF p
    <3>3. Joined(Joined(p, K), Joined(Q, R)) = Joined(p, Joined(Joined(K, Q), R))
      BY <3>1, <3>2, JoinedFour
    <3> QED BY <3>3, Zenon DEF Joined, p
  <2> QED BY <2>3, <2>4, <2>7, Zenon
<1>4. c.start < c.end \/ c.start = c.end
  BY <1>0
<1> QED BY <1>2, <1>3, <1>4, Zenon

-----------------------------------------------------------------------------
(* What lies between the matches makes the version of the base.             *)

\* The parts of Between's definition.
EndsOf(b, pairs) == pairs \cup {<<-1, -1>>, <<Len(base), Len(b)>>}
Follows(E, q, p) == p[1] < q[1] /\ \A r \in E : r[1] <= p[1] \/ q[1] <= r[1]
Gap(b, p, q) == [start |-> p[1] + 1, end |-> q[1], replacement |-> SubSeq(b, p[2] + 2, q[2])]

\* A change is a gap between two matches that follow one another.
LEMMA BetweenIs ==
  ASSUME NEW b, NEW pairs
  PROVE  /\ \A c \in Between(b, pairs) : \E p, q \in EndsOf(b, pairs) :
                Follows(EndsOf(b, pairs), q, p) /\ <<p[1] + 1, p[2] + 1>> # q /\ c = Gap(b, p, q)
         /\ \A p, q \in EndsOf(b, pairs) :
                Follows(EndsOf(b, pairs), q, p) /\ <<p[1] + 1, p[2] + 1>> # q
                    => Gap(b, p, q) \in Between(b, pairs)
<1> DEFINE E == EndsOf(b, pairs)
<1>1. Between(b, pairs) = {Gap(b, e[1], e[2]) :
          e \in {e \in E \X E : Follows(E, e[2], e[1]) /\ <<e[1][1] + 1, e[1][2] + 1>> # e[2]}}
  BY DEF Between, EndsOf, Follows, Gap
<1>2. ASSUME NEW c \in Between(b, pairs)
      PROVE  \E p, q \in E : Follows(E, q, p) /\ <<p[1] + 1, p[2] + 1>> # q /\ c = Gap(b, p, q)
  <2> HIDE DEF E
  <2>1. PICK e \in E \X E : Follows(E, e[2], e[1]) /\ <<e[1][1] + 1, e[1][2] + 1>> # e[2] /\ c = Gap(b, e[1], e[2])
    BY <1>1
  <2> QED BY <2>1
<1>3. ASSUME NEW p \in E, NEW q \in E, Follows(E, q, p), <<p[1] + 1, p[2] + 1>> # q
      PROVE  Gap(b, p, q) \in Between(b, pairs)
  <2> HIDE DEF E
  <2> DEFINE e == <<p, q>>
  <2>1. e \in E \X E /\ e[1] = p /\ e[2] = q
    OBVIOUS
  <2> HIDE DEF e
  <2>2. e \in {x \in E \X E : Follows(E, x[2], x[1]) /\ <<x[1][1] + 1, x[1][2] + 1>> # x[2]}
    BY <1>3, <2>1
  <2> QED BY <1>1, <2>1, <2>2
<1> QED BY <1>2, <1>3

\* The ends of what is matched follow each other in both texts.
LEMMA EndsInOrder ==
  ASSUME base \in Seq(Line), NEW b \in Seq(Line), NEW P \in SUBSET (Nat \X Nat), Matching(b, P)
  PROVE  /\ Len(base) \in Nat /\ Len(b) \in Nat
         /\ <<-1, -1>> \in EndsOf(b, P) /\ <<Len(base), Len(b)>> \in EndsOf(b, P)
         /\ \A p \in EndsOf(b, P) : /\ p[1] \in -1..Len(base) /\ p[2] \in -1..Len(b)
                                    /\ p = <<p[1], p[2]>>
                                    /\ p[1] = Len(base) => p[2] = Len(b)
                                    /\ p[1] \in 0..(Len(base) - 1) =>
                                          /\ p \in P /\ p[2] \in 0..(Len(b) - 1)
                                          /\ base[p[1] + 1] = b[p[2] + 1]
         /\ \A p, q \in EndsOf(b, P) : /\ p[1] < q[1] <=> p[2] < q[2]
                                       /\ p[1] = q[1] => p = q
<1> DEFINE E == EndsOf(b, P)
<1>1. Len(base) \in Nat /\ Len(b) \in Nat
  OBVIOUS
<1>2. ASSUME NEW p \in P
      PROVE  /\ p[1] \in 0..(Len(base) - 1) /\ p[2] \in 0..(Len(b) - 1) /\ p = <<p[1], p[2]>>
             /\ base[p[1] + 1] = b[p[2] + 1]
  <2>1. p \in Nat \X Nat
    OBVIOUS
  <2> QED BY <1>1, <2>1 DEF Matching
<1>3. <<-1, -1>> \in E /\ <<Len(base), Len(b)>> \in E
  BY DEF EndsOf
<1>4. ASSUME NEW p \in E
      PROVE  /\ p[1] \in -1..Len(base) /\ p[2] \in -1..Len(b) /\ p = <<p[1], p[2]>>
             /\ p[1] = Len(base) => p[2] = Len(b)
             /\ p[1] \in 0..(Len(base) - 1) => p \in P /\ p[2] \in 0..(Len(b) - 1) /\ base[p[1] + 1] = b[p[2] + 1]
  <2>1. CASE p \in P
    BY <1>1, <1>2, <2>1
  <2>2. CASE p = <<-1, -1>>
    BY <1>1, <2>2
  <2>3. CASE p = <<Len(base), Len(b)>>
    BY <1>1, <2>3
  <2> QED BY <2>1, <2>2, <2>3 DEF EndsOf
<1>5. ASSUME NEW p \in E, NEW q \in E PROVE p[1] < q[1] <=> p[2] < q[2]
  <2>1. CASE p \in P /\ q \in P
    BY <2>1 DEF Matching
  <2>2. CASE p = <<-1, -1>>
    <3>1. q = <<-1, -1>> \/ (q[1] \in Nat /\ q[2] \in Nat)
      <4>1. CASE q \in P
        BY <1>2, <4>1
      <4>2. CASE q = <<-1, -1>>
        BY <4>2, Zenon
      <4>3. CASE q = <<Len(base), Len(b)>>
        BY <1>1, <4>3
      <4> QED BY <4>1, <4>2, <4>3 DEF EndsOf
    <3>2. p[1] = -1 /\ p[2] = -1
      BY <2>2
    <3>3. CASE q = <<-1, -1>>
      <4>1. q[1] = -1 /\ q[2] = -1
        BY <3>3
      <4> HIDE DEF E
      <4> QED BY <3>2, <4>1
    <3>4. CASE q[1] \in Nat /\ q[2] \in Nat
      <4> HIDE DEF E
      <4> QED BY <3>2, <3>4
    <3> QED BY <3>1, <3>3, <3>4
  <2>3. CASE q = <<-1, -1>>
    BY <1>4, <2>3
  <2>4. CASE p = <<Len(base), Len(b)>>
    BY <1>1, <1>4, <2>4
  <2>5. CASE q = <<Len(base), Len(b)>> /\ p \in P
    BY <1>1, <1>2, <2>5
  <2> QED BY <2>1, <2>2, <2>3, <2>4, <2>5 DEF EndsOf
<1>6. ASSUME NEW p \in E, NEW q \in E, p[1] = q[1] PROVE p = q
  <2> HIDE DEF E
  <2>1. p[2] \in Int /\ q[2] \in Int /\ ~(p[2] < q[2]) /\ ~(q[2] < p[2])
    <3>1. p[2] \in -1..Len(b) /\ q[2] \in -1..Len(b) /\ p[1] \in Int /\ q[1] \in Int
      BY <1>1, <1>4
    <3>2. ~(p[1] < q[1]) /\ ~(q[1] < p[1])
      BY <1>6, <3>1
    <3> QED BY <1>1, <1>5, <3>1, <3>2
  <2>2. p[2] = q[2]
    BY <2>1
  <2> QED BY <1>4, <1>6, <2>2
<1> QED BY <1>1, <1>3, <1>4, <1>5, <1>6

\* Every end but the last has one end that follows it.
LEMMA NextEnd ==
  ASSUME base \in Seq(Line), NEW b \in Seq(Line), NEW P \in SUBSET (Nat \X Nat), Matching(b, P),
         NEW p \in EndsOf(b, P)
  PROVE  /\ p[1] < Len(base) => \E q \in EndsOf(b, P) : Follows(EndsOf(b, P), q, p)
         /\ \A q, r \in EndsOf(b, P) :
                Follows(EndsOf(b, P), q, p) /\ Follows(EndsOf(b, P), r, p) => q = r
<1> DEFINE E == EndsOf(b, P)
<1>1. /\ Len(base) \in Nat /\ <<Len(base), Len(b)>> \in E
      /\ \A q \in E : q[1] \in -1..Len(base)
      /\ \A q, r \in E : q[1] = r[1] => q = r
  BY EndsInOrder
<1> HIDE DEF E
<1>2. ASSUME p[1] < Len(base) PROVE \E q \in E : Follows(E, q, p)
  <2> DEFINE S == {q[1] : q \in {r \in E : p[1] < r[1]}}
  <2>1. S \in SUBSET (-1..Len(base)) /\ S # {}
    <3> DEFINE z == <<Len(base), Len(b)>>
    <3>1. z \in E /\ z[1] = Len(base)
      BY <1>1
    <3> HIDE DEF z
    <3> QED BY <1>1, <1>2, <3>1
  <2>2. PICK m \in S : \A k \in S : m <= k
    <3> HIDE DEF S
    <3> QED BY <1>1, <2>1, FirstPosition
  <2>3. PICK q \in E : p[1] < q[1] /\ m = q[1]
    OBVIOUS
  <2>4. p \in E
    BY DEF E
  <2>5. Follows(E, q, p)
    BY <1>1, <2>2, <2>3, <2>4 DEF Follows
  <2> QED BY <2>5
<1>3. ASSUME NEW q \in E, NEW r \in E, Follows(E, q, p), Follows(E, r, p) PROVE q = r
  <2>1. p[1] < r[1] /\ p[1] < q[1] /\ (r[1] <= p[1] \/ q[1] <= r[1]) /\ (q[1] <= p[1] \/ r[1] <= q[1])
    BY <1>3 DEF Follows
  <2>2. p \in E
    BY DEF E
  <2> QED BY <1>1, <2>1, <2>2
<1> QED BY <1>2, <1>3 DEF E

\* The changes between matches are changes of stretches that a kept line separates.
LEMMA BetweenApart ==
  ASSUME base \in Seq(Line), NEW b \in Seq(Line), NEW P \in SUBSET (Nat \X Nat), Matching(b, P)
  PROVE  /\ Between(b, P) \in SUBSET Change
         /\ Forward(Between(b, P))
         /\ Apart(Between(b, P))
<1> DEFINE E == EndsOf(b, P)
           C == Between(b, P)
<1>1. /\ Len(base) \in Nat /\ Len(b) \in Nat
      /\ \A p \in E : p[1] \in -1..Len(base) /\ p[2] \in -1..Len(b)
      /\ \A p, q \in E : (p[1] < q[1] <=> p[2] < q[2]) /\ (p[1] = q[1] => p = q)
  BY EndsInOrder
<1>2. \A c \in C : \E p, q \in E : Follows(E, q, p) /\ c = Gap(b, p, q)
  BY BetweenIs
<1>3. ASSUME NEW p \in E, NEW q \in E, Follows(E, q, p)
      PROVE  Gap(b, p, q) \in Change /\ Gap(b, p, q).start <= Gap(b, p, q).end
  <2> HIDE DEF E
  <2>1. p[1] + 1 \in 0..Len(base) /\ q[1] \in 0..Len(base) /\ p[1] + 1 <= q[1]
    BY <1>1, <1>3 DEF Follows
  <2>2. p[2] + 2 \in 1..(Len(b) + 2) /\ q[2] \in -1..Len(b)
    BY <1>1
  <2>3. SubSeq(b, p[2] + 2, q[2]) \in Seq(Line)
    <3>1. \A i \in (p[2] + 2)..q[2] : b[i] \in Line
      BY <1>1, <2>2
    <3> QED BY <2>2, <3>1, SubSeqProperties
  <2> QED BY <2>1, <2>3 DEF Gap, Change, Position
<1>4. ASSUME NEW c \in C, NEW d \in C, c # d PROVE c.end < d.start \/ d.end < c.start
  <2> HIDE DEF C, E
  <2>1. PICK p, q \in E : Follows(E, q, p) /\ c = Gap(b, p, q)
    BY <1>2
  <2>2. PICK u, v \in E : Follows(E, v, u) /\ d = Gap(b, u, v)
    BY <1>2
  <2>3. c.start = p[1] + 1 /\ c.end = q[1] /\ d.start = u[1] + 1 /\ d.end = v[1]
    BY <2>1, <2>2 DEF Gap
  <2>4. p[1] # u[1]
    <3> SUFFICES ASSUME p[1] = u[1] PROVE FALSE
      OBVIOUS
    <3>1. p = u
      BY <1>1
    <3>2. q = v
      <4>1. p \in E /\ Follows(E, q, p) /\ Follows(E, v, p)
        BY <2>1, <2>2, <3>1
      <4> QED BY <4>1, NextEnd DEF E
    <3> QED BY <1>4, <2>1, <2>2, <3>1, <3>2
  <2>5. p[1] \in Int /\ q[1] \in Int /\ u[1] \in Int /\ v[1] \in Int
    BY <1>1
  <2>6. CASE p[1] < u[1]
    <3>1. q[1] <= u[1]
      BY <2>1, <2>5, <2>6 DEF Follows
    <3> QED BY <2>3, <2>5, <3>1
  <2>7. CASE u[1] < p[1]
    <3>1. v[1] <= p[1]
      BY <2>2, <2>5, <2>7 DEF Follows
    <3> QED BY <2>3, <2>5, <3>1
  <2> QED BY <2>4, <2>5, <2>6, <2>7
<1>5. C \in SUBSET Change /\ Forward(C)
  <2> HIDE DEF C, E
  <2>1. ASSUME NEW c \in C PROVE c \in Change /\ c.start <= c.end
    BY <1>2, <1>3
  <2> QED BY <2>1 DEF Forward
<1> QED BY <1>4, <1>5 DEF Apart

\* Changes that a line separates do not overlap.
LEMMA ApartIsSeparate ==
  ASSUME NEW C \in SUBSET Change, Forward(C), Apart(C)
  PROVE  Separate(C)
<1> SUFFICES ASSUME NEW c \in C, NEW d \in C, c # d PROVE ~Overlaps(c, d)
  BY DEF Separate
<1>1. /\ c.start \in Int /\ c.end \in Int /\ d.start \in Int /\ d.end \in Int
      /\ c.start <= c.end /\ d.start <= d.end
  BY DEF Change, Position, Forward
<1>2. c.end < d.start \/ d.end < c.start
  BY DEF Apart
<1> QED BY <1>1, <1>2 DEF Overlaps

\* From one end to the next there is the version's stretch, then the line they share.
LEMMA GapIsFilled ==
  ASSUME base \in Seq(Line), NEW b \in Seq(Line), NEW P \in SUBSET (Nat \X Nat), Matching(b, P),
         NEW p \in EndsOf(b, P), NEW q \in EndsOf(b, P), Follows(EndsOf(b, P), q, p)
  PROVE  Onward(Between(b, P))[p[1] + 1] =
            SubSeq(b, p[2] + 2, q[2])
               \o (SubSeq(base, q[1] + 1, Cap(q[1] + 1)) \o Onward(Between(b, P))[q[1] + 1])
<1> DEFINE E == EndsOf(b, P)
           C == Between(b, P)
<1>1. /\ Len(base) \in Nat /\ Len(b) \in Nat
      /\ p[1] \in -1..Len(base) /\ p[2] \in -1..Len(b)
      /\ q[1] \in 0..Len(base) /\ q[2] \in 0..Len(b) /\ p[1] < q[1] /\ p[2] < q[2]
  <2> HIDE DEF C
  <2>1. p[1] < q[1]
    BY DEF Follows
  <2>2. /\ Len(base) \in Nat /\ Len(b) \in Nat /\ p[1] \in -1..Len(base) /\ p[2] \in -1..Len(b)
        /\ q[1] \in -1..Len(base) /\ q[2] \in -1..Len(b) /\ p[2] < q[2]
    BY <2>1, EndsInOrder
  <2> QED BY <2>1, <2>2
<1>0. \A r \in E : r[1] \in -1..Len(base) /\ (r[1] = p[1] => r = p)
  <2> HIDE DEF C
  <2>1. \A r, s \in E : (r[1] < s[1] <=> r[2] < s[2]) /\ (r[1] = s[1] => r = s)
    BY EndsInOrder
  <2>2. \A r \in E : r[1] \in -1..Len(base)
    BY EndsInOrder
  <2> QED BY <2>1, <2>2
<1>2. C \in SUBSET Change /\ Forward(C) /\ Separate(C)
  BY BetweenApart, ApartIsSeparate
<1>3. ASSUME NEW d \in C
      PROVE  \/ d = Gap(b, p, q) /\ <<p[1] + 1, p[2] + 1>> # q
             \/ (d.end <= p[1] /\ d.start <= p[1])
             \/ d.start >= q[1] + 1
  <2>1. PICK u, v \in E : Follows(E, v, u) /\ <<u[1] + 1, u[2] + 1>> # v /\ d = Gap(b, u, v)
    BY BetweenIs
  <2>2. d.start = u[1] + 1 /\ d.end = v[1]
    BY <2>1 DEF Gap
  <2>3. u[1] \in Int /\ v[1] \in Int /\ (u[1] = p[1] => u = p)
    <3>1. \A r \in E : r[1] \in -1..Len(base) /\ (r[1] = p[1] => r = p)
      BY <1>0
    <3> HIDE DEF E, C
    <3> QED BY <1>1, <3>1
  <2> HIDE DEF C
  <2>4. CASE u[1] = p[1]
    <3>1. u = p
      BY <2>3, <2>4
    <3>2. v = q
      BY <2>1, <3>1, NextEnd
    <3> QED BY <2>1, <3>1, <3>2
  <2>5. CASE u[1] < p[1]
    <3>1. v[1] <= p[1] /\ u[1] < v[1]
      BY <1>1, <2>1, <2>3, <2>5 DEF Follows
    <3> QED BY <1>1, <2>2, <2>3, <3>1
  <2>6. CASE u[1] > p[1]
    <3>1. q[1] <= u[1]
      BY <1>1, <2>3, <2>6 DEF Follows
    <3> QED BY <1>1, <2>2, <2>3, <3>1
  <2> QED BY <1>1, <2>3, <2>4, <2>5, <2>6
<1>4. CASE <<p[1] + 1, p[2] + 1>> # q
  <2> DEFINE c == Gap(b, p, q)
  <2>1. c \in C /\ c.start = p[1] + 1 /\ c.end = q[1] /\ c.replacement = SubSeq(b, p[2] + 2, q[2])
    BY <1>4, BetweenIs DEF Gap
  <2> HIDE DEF c, C
  <2>2. \A d \in C : d.start <= c.start \/ q[1] + 1 <= d.start
    <3>1. ASSUME NEW d \in C PROVE d.start <= c.start \/ q[1] + 1 <= d.start
      <4>1. d.start \in Int
        BY <1>2 DEF Change, Position
      <4>2. d.start = c.start \/ d.start <= p[1] \/ d.start >= q[1] + 1
        BY <1>3 DEF c
      <4> QED BY <1>1, <2>1, <4>1, <4>2
    <3> QED BY <3>1
  <2>3. q[1] + 1 \in 0..(Len(base) + 1) /\ c.start < q[1] + 1 /\ c.end <= q[1] + 1
    BY <1>1, <2>1
  <2>4. Onward(C)[c.start] = c.replacement \o (SubSeq(base, c.end + 1, Cap(q[1] + 1)) \o Onward(C)[q[1] + 1])
    BY <1>2, <2>1, <2>2, <2>3, OneChange
  <2> QED BY <2>1, <2>4, Zenon DEF C
<1>5. CASE <<p[1] + 1, p[2] + 1>> = q
  <2>1. q[1] = p[1] + 1 /\ q[2] = p[2] + 1
    BY <1>5
  <2> HIDE DEF C
  <2>2. ASSUME NEW d \in C, NEW x \in q[1]..((q[1] + 1) - 1) PROVE d.start # x /\ x \notin d.start..(d.end - 1)
    <3>1. d.start \in Int /\ d.end \in Int /\ x = q[1]
      BY <1>1, <1>2 DEF Change, Position
    <3>2. (d.end <= p[1] /\ d.start <= p[1]) \/ d.start >= q[1] + 1
      BY <1>3, <1>5
    <3> QED BY <1>1, <3>1, <3>2
  <2>3. q[1] + 1 \in 0..(Len(base) + 1) /\ q[1] \in 0..(q[1] + 1)
    BY <1>1
  <2>4. Onward(C)[q[1]] = SubSeq(base, q[1] + 1, Cap(q[1] + 1)) \o Onward(C)[q[1] + 1]
    BY <1>2, <2>2, <2>3, StretchStays
  <2>5. SubSeq(b, p[2] + 2, q[2]) = <<>>
    BY <1>1, <2>1, SubSeqEmpty
  <2>6. SubSeq(base, q[1] + 1, Cap(q[1] + 1)) \o Onward(C)[q[1] + 1] \in Seq(Line)
    <3>1. Onward(C)[q[1]] \in Seq(Line)
      <4>1. q[1] \in 0..(Len(base) + 1)
        BY <1>1
      <4> QED BY <1>2, <4>1, OnwardType
    <3> QED BY <2>4, <3>1
  <2> DEFINE s == SubSeq(base, q[1] + 1, Cap(q[1] + 1)) \o Onward(C)[q[1] + 1]
  <2>7. <<>> \o s = s
    <3>1. s \in Seq(Line)
      BY <2>6
    <3> HIDE DEF s
    <3> QED BY <3>1, ConcatEmptySeq
  <2> QED BY <2>1, <2>4, <2>5, <2>7, Zenon DEF C
<1> QED BY <1>4, <1>5

\* A stretch of one line.
LEMMA OneLine ==
  ASSUME NEW b \in Seq(Line), NEW k \in 1..Len(b)
  PROVE  SubSeq(b, k, k) = <<b[k]>>
<1>1. k \in Int /\ k \in k..Len(b) /\ k + 1 > k /\ k + 1 \in Int
  OBVIOUS
<1>2. SubSeq(b, k, k) = <<b[k]>> \o SubSeq(b, k + 1, k)
  BY <1>1, SubSeqRecursiveFirst
<1>3. SubSeq(b, k + 1, k) = <<>>
  BY <1>1, SubSeqEmpty
<1>4. <<b[k]>> \o <<>> = <<b[k]>>
  OBVIOUS
<1> QED BY <1>2, <1>3, <1>4, Zenon

\* A stretch, the line after it and the lines after that are one stretch.
LEMMA ThreeStretches ==
  ASSUME NEW b \in Seq(Line), NEW i \in 1..(Len(b) + 1), NEW j \in (i - 1)..(Len(b) - 1)
  PROVE  SubSeq(b, i, Len(b)) = SubSeq(b, i, j) \o (<<b[j + 1]>> \o SubSeq(b, j + 2, Len(b)))
<1>1. Len(b) \in Nat /\ j + 1 \in 1..Len(b) /\ j \in Int /\ i \in Int
  OBVIOUS
<1>2. SubSeq(b, j + 1, Len(b)) = <<b[j + 1]>> \o SubSeq(b, (j + 1) + 1, Len(b))
  BY <1>1, SubSeqRecursiveFirst
<1>3. SubSeq(b, i, Len(b)) = SubSeq(b, i, j) \o SubSeq(b, j + 1, Len(b))
  BY <1>1
<1>4. (j + 1) + 1 = j + 2
  BY <1>1
<1> QED BY <1>2, <1>3, <1>4, Zenon

\* Put in their places, the changes of a version make it of the base.
LEMMA Rebuilds ==
  ASSUME base \in Seq(Line), NEW b \in Seq(Line), NEW P \in SUBSET (Nat \X Nat), Matching(b, P)
  PROVE  Onward(Between(b, P))[0] = b
<1> DEFINE E == EndsOf(b, P)
           C == Between(b, P)
           Good(p) == Onward(C)[p[1] + 1] = SubSeq(b, p[2] + 2, Len(b))
           Bad == {p \in E : ~Good(p)}
<1>1. /\ Len(base) \in Nat /\ Len(b) \in Nat /\ <<-1, -1>> \in E
      /\ \A p \in E : /\ p[1] \in -1..Len(base) /\ p[2] \in -1..Len(b)
                      /\ p[1] = Len(base) => p[2] = Len(b)
                      /\ p[1] \in 0..(Len(base) - 1) => base[p[1] + 1] = b[p[2] + 1] /\ p[2] \in 0..(Len(b) - 1)
  <2> HIDE DEF C
  <2>1. \A p \in E : /\ p[1] \in -1..Len(base) /\ p[2] \in -1..Len(b)
                     /\ p[1] = Len(base) => p[2] = Len(b)
    BY EndsInOrder
  <2>2. \A p \in E : p[1] \in 0..(Len(base) - 1) => base[p[1] + 1] = b[p[2] + 1] /\ p[2] \in 0..(Len(b) - 1)
    BY EndsInOrder
  <2>3. Len(base) \in Nat /\ Len(b) \in Nat /\ <<-1, -1>> \in E
    BY EndsInOrder
  <2> QED BY <2>1, <2>2, <2>3
<1>2. Bad = {}
  <2> SUFFICES ASSUME Bad # {} PROVE FALSE
    OBVIOUS
  <2> DEFINE S == {p[1] : p \in Bad}
  <2>1. PICK m \in S : \A k \in S : k <= m
    <3> HIDE DEF Good
    <3>1. S \in SUBSET (-1..Len(base)) /\ S # {}
      BY <1>1
    <3> HIDE DEF S
    <3> QED BY <1>1, <3>1, LastPosition
  <2>2. PICK p \in Bad : p[1] = m
    <3> HIDE DEF Good
    <3> QED OBVIOUS
  <2>3. p \in E /\ p[1] \in -1..Len(base) /\ p[2] \in -1..Len(b) /\ \A q \in E : p[1] < q[1] => Good(q)
    <3> HIDE DEF Good
    <3>1. p \in E
      OBVIOUS
    <3>2. ASSUME NEW q \in E, p[1] < q[1], ~Good(q) PROVE FALSE
      <4>1. q[1] \in S
        BY <3>2
      <4>2. q[1] <= p[1] /\ q[1] \in Int /\ p[1] \in Int
        BY <1>1, <2>1, <2>2, <3>1, <4>1
      <4> QED BY <3>2, <4>2
    <3> QED BY <1>1, <3>1, <3>2
  <2>4. CASE p[1] = Len(base)
    <3>1. Onward(C)[p[1] + 1] = <<>>
      BY <2>4, OnwardStep
    <3>2. p[2] = Len(b)
      BY <1>1, <2>3, <2>4
    <3>3. SubSeq(b, p[2] + 2, Len(b)) = <<>>
      BY <1>1, <3>2, SubSeqEmpty
    <3>4. Good(p)
      BY <3>1, <3>3
    <3> QED BY <3>4
  <2>5. CASE p[1] < Len(base)
    <3>1. PICK q \in E : Follows(E, q, p)
      BY <2>3, <2>5, NextEnd
    <3>2. p[1] < q[1] /\ q[1] \in 0..Len(base) /\ q[2] \in 0..Len(b) /\ p[2] < q[2]
      <4> HIDE DEF Bad, C, Good
      <4>1. p[1] < q[1]
        BY <3>1 DEF Follows
      <4>2. p[2] < q[2]
        BY <2>3, <4>1, EndsInOrder
      <4>3. q[1] \in -1..Len(base) /\ q[2] \in -1..Len(b)
        BY <1>1
      <4> QED BY <1>1, <2>3, <4>1, <4>2, <4>3
    <3>3. Onward(C)[q[1] + 1] = SubSeq(b, q[2] + 2, Len(b))
      BY <2>3, <3>2
    <3>4. Onward(C)[p[1] + 1] = SubSeq(b, p[2] + 2, q[2])
              \o (SubSeq(base, q[1] + 1, Cap(q[1] + 1)) \o Onward(C)[q[1] + 1])
      <4> HIDE DEF Bad, C, Good
      <4> QED BY <2>3, <3>1, GapIsFilled DEF C
    <3> HIDE DEF Bad, C
    <3>5. CASE q[1] < Len(base)
      <4>1. base[q[1] + 1] = b[q[2] + 1] /\ q[2] \in 0..(Len(b) - 1) /\ Cap(q[1] + 1) = q[1] + 1
        BY <1>1, <3>2, <3>5 DEF Cap
      <4>2. SubSeq(base, q[1] + 1, q[1] + 1) = <<base[q[1] + 1]>>
        <5> HIDE DEF C, Good
        <5>1. q[1] + 1 \in 1..Len(base)
          BY <1>1, <3>2, <3>5
        <5> QED BY <5>1, OneLine
      <4>3. p[2] + 2 \in 1..(Len(b) + 1) /\ q[2] \in ((p[2] + 2) - 1)..(Len(b) - 1)
        <5>1. p[2] \in -1..Len(b) /\ p[2] < q[2] /\ q[2] \in 0..(Len(b) - 1)
          BY <2>3, <3>2, <4>1
        <5> HIDE DEF E, C, Good
        <5> QED BY <1>1, <5>1
      <4>4. SubSeq(b, p[2] + 2, Len(b)) =
               SubSeq(b, p[2] + 2, q[2]) \o (<<b[q[2] + 1]>> \o SubSeq(b, q[2] + 2, Len(b)))
        BY <4>3, ThreeStretches
      <4>5. Good(p)
        BY <3>3, <3>4, <4>1, <4>2, <4>4, Zenon
      <4> QED BY <4>5 DEF Bad
    <3>6. CASE q[1] = Len(base)
      <4>1. q[2] = Len(b) /\ Cap(q[1] + 1) = Len(base)
        BY <1>1, <3>6 DEF Cap
      <4>2. SubSeq(base, q[1] + 1, Len(base)) = <<>> /\ SubSeq(b, q[2] + 2, Len(b)) = <<>>
        BY <1>1, <3>6, <4>1, SubSeqEmpty
      <4>3. <<>> \o <<>> = <<>>
        OBVIOUS
      <4>4. SubSeq(b, p[2] + 2, Len(b)) \o <<>> = SubSeq(b, p[2] + 2, Len(b))
        <5> DEFINE s == SubSeq(b, p[2] + 2, Len(b))
        <5>1. s \in Seq(Line)
          <6>1. \A i \in (p[2] + 2)..Len(b) : b[i] \in Line
            BY <1>1, <2>3
          <6> QED BY <1>1, <2>3, <6>1, SubSeqProperties
        <5> HIDE DEF s
        <5>2. s \o <<>> = s
          BY <5>1, ConcatEmptySeq
        <5> QED BY <5>2 DEF s
      <4>5. Good(p)
        BY <3>3, <3>4, <4>1, <4>2, <4>3, <4>4, Zenon
      <4> QED BY <4>5 DEF Bad
    <3>7. q[1] < Len(base) \/ q[1] = Len(base)
      BY <1>1, <3>2
    <3> QED BY <3>5, <3>6, <3>7
  <2>6. p[1] < Len(base) \/ p[1] = Len(base)
    <3> HIDE DEF Bad, C, Good
    <3> QED BY <1>1, <2>3
  <2> QED BY <2>4, <2>5, <2>6
<1>3. Good(<<-1, -1>>)
  <2> HIDE DEF Good
  <2> QED BY <1>1, <1>2
<1>4. SubSeq(b, 1, Len(b)) = b
  BY <1>1
<1>5. (-1) + 1 = 0 /\ (-1) + 2 = 1
  OBVIOUS
<1>6. <<-1, -1>>[1] + 1 = 0 /\ <<-1, -1>>[2] + 2 = 1
  BY <1>5
<1>7. Onward(C)[0] = SubSeq(b, 1, Len(b))
  <2> HIDE DEF C
  <2> QED BY <1>3, <1>6, Zenon
<1> QED BY <1>4, <1>7

\* No change, and the base is as it was.
LEMMA NothingPut ==
  ASSUME base \in Seq(Line)
  PROVE  Onward({})[0] = base
<1> DEFINE C == {}
           m == Len(base) + 1
<1>1. Len(base) \in Nat /\ m \in 0..(Len(base) + 1) /\ 0 \in 0..m /\ C \in SUBSET Change
  OBVIOUS
<1>2. \A c \in C : \A x \in 0..(m - 1) : c.start # x /\ x \notin c.start..(c.end - 1)
  OBVIOUS
<1>3. Onward(C)[0] = SubSeq(base, 0 + 1, Cap(m)) \o Onward(C)[m]
  <2> HIDE DEF C, m
  <2> QED BY <1>1, <1>2, StretchStays
<1>4. Onward(C)[m] = <<>> /\ Cap(m) = Len(base)
  <2>1. Onward(C)[Len(base) + 1] = <<>>
    BY OnwardStep
  <2>2. Cap(Len(base) + 1) = Len(base)
    BY <1>1 DEF Cap
  <2> QED BY <2>1, <2>2
<1>5. SubSeq(base, 0 + 1, Len(base)) = base /\ base \o <<>> = base
  BY ConcatEmptySeq
<1> QED BY <1>3, <1>4, <1>5, Zenon

-----------------------------------------------------------------------------
(* What is collected.                                                       *)

\* A numbered text has every line with its number.
LEMMA NumberedText ==
  ASSUME NEW t \in Numbering \ {<<>>}
  PROVE  /\ t \in Seq((1..Numbered) \X Edits) /\ Len(t) = Numbered
         /\ \A i \in 1..Numbered : t[i] = <<i, t[i][2]>> /\ t[i][2] \in Edits
<1>1. PICK c \in Contents : t = Numbers(c)
  BY DEF Numbering
<1>2. c \in [1..Numbered -> Edits] /\ t = [i \in 1..Numbered |-> <<i, c[i]>>]
  BY <1>1 DEF Contents, Numbers, M!Empty
<1>3. Numbered \in Nat
  BY LinesAssumption
<1>4. t \in [1..Numbered -> (1..Numbered) \X Edits]
  BY <1>2
<1>5. \A i \in 1..Numbered : t[i] = <<i, t[i][2]>> /\ t[i][2] \in Edits
  BY <1>2
<1>6. t \in Seq((1..Numbered) \X Edits) /\ Len(t) = Numbered
  BY <1>3, <1>4
<1> QED BY <1>5, <1>6

\* A text with no lines matches nothing.
LEMMA EmptyMatch ==
  ASSUME base \in Seq(Line), NEW b \in Seq(Line), NEW P \in SUBSET (Nat \X Nat), Matching(b, P),
         b # base, <<>> \in {b, base}
  PROVE  Between(b, P) = {[start |-> 0, end |-> Len(base), replacement |-> b]}
<1> DEFINE E == EndsOf(b, P)
           C == Between(b, P)
           p == <<-1, -1>>
           q == <<Len(base), Len(b)>>
           g == [start |-> 0, end |-> Len(base), replacement |-> b]
<1>1. Len(base) \in Nat /\ Len(b) \in Nat /\ (Len(base) = 0 \/ Len(b) = 0) /\ (Len(base) # 0 \/ Len(b) # 0)
  BY EmptySeq
<1>2. P = {}
  BY <1>1 DEF Matching
<1>3. E = {p, q}
  BY <1>2 DEF EndsOf
<1>4. p[1] = -1 /\ p[2] = -1 /\ q[1] = Len(base) /\ q[2] = Len(b)
  OBVIOUS
<1>5. SubSeq(b, 1, Len(b)) = b
  BY <1>1
<1> HIDE DEF p, q
<1>6. Follows(E, q, p) /\ <<p[1] + 1, p[2] + 1>> # q
  BY <1>1, <1>3, <1>4 DEF Follows
<1>7. Gap(b, p, q) = g
  <2>1. p[1] + 1 = 0 /\ p[2] + 2 = 1
    BY <1>4
  <2> QED BY <1>4, <1>5, <2>1 DEF Gap
<1>8. g \in C
  <2>1. p \in E /\ q \in E
    BY <1>3
  <2> QED BY <1>6, <1>7, <2>1, BetweenIs
<1>9. ASSUME NEW c \in C PROVE c = g
  <2>1. PICK u, v \in E : Follows(E, v, u) /\ c = Gap(b, u, v)
    BY BetweenIs
  <2> HIDE DEF C, E, g
  <2>2. u[1] < v[1]
    BY <2>1 DEF Follows
  <2>3. u \in {p, q} /\ v \in {p, q}
    BY <1>3
  <2>4. u = p /\ v = q
    BY <1>1, <1>4, <2>2, <2>3
  <2> QED BY <1>7, <2>1, <2>4
<1> QED BY <1>8, <1>9

\* When every line that is equal is matched, the changes are what differs.
LEMMA NumberedBetween ==
  ASSUME base \in Seq(Line), NEW b \in Seq(Line), NEW P \in SUBSET (Nat \X Nat), Matching(b, P),
         Numerous(b), \A x \in 0..(Numbered - 1) : base[x + 1] = b[x + 1] => <<x, x>> \in P
  PROVE  Differing(b, Between(b, P))
<1> DEFINE E == EndsOf(b, P)
           C == Between(b, P)
<1>1. /\ Numbered \in Nat /\ Len(base) = Numbered /\ Len(b) = Numbered
      /\ \A i \in 1..Numbered : base[i] = <<i, base[i][2]>> /\ b[i] = <<i, b[i][2]>>
  BY LinesAssumption, NumberedText DEF Numerous
<1>2. ASSUME NEW p \in E PROVE p[1] \in -1..Numbered /\ p[2] = p[1] /\ p = <<p[1], p[1]>>
  <2>1. CASE p \in P
    <3>1. p[1] \in Nat /\ p[2] \in Nat /\ p = <<p[1], p[2]>>
      BY <2>1
    <3>2. p[1] < Numbered /\ p[2] < Numbered /\ base[p[1] + 1] = b[p[2] + 1]
      BY <1>1, <2>1 DEF Matching
    <3> HIDE DEF E
    <3> DEFINE i == p[1] + 1
               j == p[2] + 1
    <3>3. i \in 1..Numbered /\ j \in 1..Numbered
      BY <1>1, <3>1, <3>2
    <3>4. base[i] = b[j]
      BY <3>2
    <3>5. i = j
      <4> HIDE DEF i, j
      <4>1. <<i, base[i][2]>> = <<j, b[j][2]>>
        BY <1>1, <3>3, <3>4
      <4> QED BY <4>1
    <3>6. p[1] = p[2]
      BY <3>1, <3>5
    <3> QED BY <1>1, <3>1, <3>2, <3>6
  <2>2. CASE p = <<-1, -1>>
    BY <1>1, <2>2
  <2>3. CASE p = <<Numbered, Numbered>>
    BY <1>1, <2>3
  <2> QED BY <1>1, <2>1, <2>2, <2>3 DEF EndsOf
<1>3. <<-1, -1>> \in E /\ <<Numbered, Numbered>> \in E /\ P \subseteq E
  BY <1>1 DEF EndsOf
<1>4. \A c \in C : \E p, q \in E : Follows(E, q, p) /\ <<p[1] + 1, p[2] + 1>> # q /\ c = Gap(b, p, q)
  BY BetweenIs
<1>5. \A p, q \in E : Follows(E, q, p) /\ <<p[1] + 1, p[2] + 1>> # q => Gap(b, p, q) \in C
  BY BetweenIs
<1>6. \A p \in E : p[1] < Numbered => \E q \in E : Follows(E, q, p)
  BY <1>1, NextEnd
<1> HIDE DEF E, C
<1>7. ASSUME NEW c \in C
      PROVE  \E p, q \in E : /\ Follows(E, q, p) /\ c.start = p[1] + 1 /\ c.end = q[1]
                             /\ c.start < c.end /\ c.replacement = SubSeq(b, c.start + 1, c.end)
  <2>1. PICK p, q \in E : Follows(E, q, p) /\ <<p[1] + 1, p[2] + 1>> # q /\ c = Gap(b, p, q)
    BY <1>4
  <2>2. p[1] < q[1] /\ p[1] \in Int /\ q[1] \in Int /\ p[2] = p[1] /\ q[2] = q[1] /\ q = <<q[1], q[1]>>
    BY <1>2, <2>1 DEF Follows
  <2>3. q[1] # p[1] + 1
    <3>1. ASSUME q[1] = p[1] + 1 PROVE FALSE
      <4>1. q = <<p[1] + 1, p[2] + 1>>
        BY <2>2, <3>1
      <4> QED BY <2>1, <4>1
    <3> QED BY <3>1
  <2>4. c.start = p[1] + 1 /\ c.end = q[1] /\ c.replacement = SubSeq(b, p[1] + 2, q[1])
    BY <2>1, <2>2 DEF Gap
  <2>5. (p[1] + 1) + 1 = p[1] + 2
    BY <2>2
  <2>6. c.start < c.end
    BY <2>2, <2>3, <2>4
  <2>7. c.replacement = SubSeq(b, c.start + 1, c.end)
    BY <2>4, <2>5
  <2> QED BY <2>1, <2>4, <2>6, <2>7
<1>8. ASSUME NEW i \in 1..Numbered, b[i] # base[i] PROVE \E c \in C : i \in (c.start + 1)..c.end
  <2>1. <<i - 1, i - 1>> \notin E
    <3> DEFINE e == <<i - 1, i - 1>>
    <3>1. CASE e \in P
      <4>1. e[1] = i - 1 /\ e[2] = i - 1
        OBVIOUS
      <4>2. base[(i - 1) + 1] = b[(i - 1) + 1]
        BY <3>1, <4>1 DEF Matching
      <4>3. (i - 1) + 1 = i
        OBVIOUS
      <4> QED BY <1>8, <4>2, <4>3
    <3>2. e # <<-1, -1>> /\ e # <<Numbered, Numbered>>
      BY <1>1
    <3> QED BY <1>1, <3>1, <3>2 DEF E, EndsOf
  <2> DEFINE S == {p[1] : p \in {e \in E : e[1] < i - 1}}
  <2>2. PICK m \in S : \A k \in S : k <= m
    <3>1. S \in SUBSET (-1..Numbered)
      BY <1>2
    <3>2. S # {}
      <4> DEFINE e == <<-1, -1>>
      <4>1. e \in E /\ e[1] = -1 /\ -1 < i - 1
        BY <1>3
      <4> HIDE DEF e
      <4> QED BY <4>1
    <3> HIDE DEF S
    <3> QED BY <1>1, <3>1, <3>2, LastPosition
  <2>3. PICK p \in E : p[1] < i - 1 /\ p[1] = m
    OBVIOUS
  <2>4. \A e \in E : e[1] < i - 1 => e[1] <= p[1]
    BY <2>2, <2>3
  <2>5. p[1] \in Int /\ p[1] < Numbered
    BY <1>1, <1>2, <2>3
  <2>6. PICK q \in E : Follows(E, q, p)
    BY <1>6, <2>5
  <2>7. q[1] \in Int /\ p[1] < q[1] /\ p[2] = p[1] /\ q = <<q[1], q[1]>>
    BY <1>2, <2>6 DEF Follows
  <2>8. q[1] # i - 1 /\ ~(q[1] < i - 1)
    <3>1. ASSUME q[1] = i - 1 PROVE FALSE
      BY <2>1, <2>7, <3>1
    <3>2. ASSUME q[1] < i - 1 PROVE FALSE
      <4>1. q[1] <= p[1]
        BY <2>4, <2>6, <3>2
      <4> QED BY <2>5, <2>7, <4>1
    <3> QED BY <3>1, <3>2
  <2>9. q[1] >= i
    BY <2>7, <2>8
  <2>10. <<p[1] + 1, p[2] + 1>> # q
    <3>1. ASSUME <<p[1] + 1, p[2] + 1>> = q PROVE FALSE
      <4>1. q[1] = p[1] + 1
        BY <3>1
      <4> QED BY <2>3, <2>5, <2>9, <4>1
    <3> QED BY <3>1
  <2>11. Gap(b, p, q) \in C /\ Gap(b, p, q).start = p[1] + 1 /\ Gap(b, p, q).end = q[1]
    BY <1>5, <2>6, <2>10 DEF Gap
  <2>12. i \in (Gap(b, p, q).start + 1)..Gap(b, p, q).end
    BY <2>3, <2>5, <2>7, <2>9, <2>11
  <2> QED BY <2>11, <2>12
<1>9. ASSUME NEW i \in 1..Numbered, NEW c \in C, i \in (c.start + 1)..c.end PROVE b[i] # base[i]
  <2> SUFFICES ASSUME b[i] = base[i] PROVE FALSE
    OBVIOUS
  <2>1. PICK p, q \in E : Follows(E, q, p) /\ c.start = p[1] + 1 /\ c.end = q[1]
    BY <1>7
  <2> DEFINE x == i - 1
  <2>2. x \in 0..(Numbered - 1) /\ x + 1 = i
    BY <1>1
  <2> DEFINE e == <<x, x>>
  <2>3. e \in P
    <3> HIDE DEF x
    <3>1. base[x + 1] = b[x + 1]
      BY <2>2
    <3> QED BY <2>2, <3>1
  <2>4. e \in E /\ e[1] = i - 1
    BY <1>3, <2>3
  <2> HIDE DEF e
  <2>5. i - 1 <= p[1] \/ q[1] <= i - 1
    BY <2>1, <2>4 DEF Follows
  <2>6. p[1] \in Int /\ q[1] \in Int
    BY <1>2
  <2> QED BY <1>9, <2>1, <2>5, <2>6
<1>10. \A c \in C : c.start < c.end /\ c.replacement = SubSeq(b, c.start + 1, c.end)
  BY <1>7
<1>11. \A i \in 1..Numbered : b[i] # base[i] <=> \E c \in C : i \in (c.start + 1)..c.end
  BY <1>8, <1>9
<1> QED BY <1>10, <1>11 DEF Differing, C

\* What is collected for a text is faithful to it.
LEMMA CollectedIsFaithful ==
  ASSUME base \in Seq(Line), NEW b \in Seq(Line), matched \in SUBSET (Nat \X Nat), unmatched = {},
         Matching(b, matched), b # base /\ Numerous(b) => Complete(b),
         NEW C, C = IF b = base THEN {} ELSE Between(b, matched)
  PROVE  C \in SUBSET Change /\ Faithful(b, C)
<1>1. CASE b = base
  <2>1. C = {}
    BY <1>1
  <2>2. Onward(C)[0] = b
    BY <1>1, <2>1, NothingPut
  <2>3. ASSUME Numerous(b) PROVE Differing(b, C)
    BY <1>1, <2>1 DEF Differing
  <2> QED BY <1>1, <2>1, <2>2, <2>3 DEF Faithful, Forward, Apart
<1>2. CASE b # base
  <2>1. C = Between(b, matched)
    BY <1>2
  <2>2. C \in SUBSET Change /\ Forward(C) /\ Apart(C)
    BY <2>1, BetweenApart
  <2>3. Onward(C)[0] = b
    BY <2>1, Rebuilds
  <2>4. <<>> \in {b, base} => C = {[start |-> 0, end |-> Len(base), replacement |-> b]}
    BY <1>2, <2>1, EmptyMatch
  <2>5. Numerous(b) => Differing(b, C)
    <3> HAVE Numerous(b)
    <3>1. \A x \in 0..(Numbered - 1) : base[x + 1] = b[x + 1] => <<x, x>> \in matched
      BY <1>2 DEF Complete
    <3> QED BY <2>1, <3>1, NumberedBetween
  <2> QED BY <1>2, <2>2, <2>3, <2>4, <2>5 DEF Faithful
<1> QED BY <1>1, <1>2

-----------------------------------------------------------------------------
(* The end of a text.                                                       *)

\* A text ends at one line only.
LEMMA OneEnd ==
  ASSUME NEW t \in Seq(Line), NEW n \in 0..Len(t), NEW m \in 0..Len(t), Ends(t, n), Ends(t, m)
  PROVE  n = m
<1>1. Len(t) \in Nat
  OBVIOUS
<1>2. \A i, j \in 0..Len(t) : i < j => j > 0 /\ j \in (i + 1)..Len(t)
  BY <1>1
<1>3. ~(n < m) /\ ~(m < n)
  BY <1>2 DEF Ends
<1> QED BY <1>1, <1>3

\* And at some line, so that what is left of it is a text.
LEMMA NormalType ==
  ASSUME NEW t \in Seq(Line)
  PROVE  Normal(t) \in Seq(Line)
<1> DEFINE S == {0} \cup {n \in 1..Len(t) : t[n] # Blank}
<1>1. Len(t) \in Nat /\ S \in SUBSET (-1..Len(t)) /\ S # {}
  OBVIOUS
<1>2. PICK n \in S : \A k \in S : k <= n
  <2> HIDE DEF S
  <2> QED BY <1>1, LastPosition
<1>3. n \in 0..Len(t) /\ Ends(t, n)
  <2>1. \A i \in (n + 1)..Len(t) : i \in 1..Len(t) /\ ~(i <= n)
    BY <1>1
  <2>2. \A i \in (n + 1)..Len(t) : t[i] = Blank
    BY <1>2, <2>1
  <2> QED BY <1>1, <2>2 DEF Ends
<1> DEFINE e == CHOOSE k \in 0..Len(t) : Ends(t, k)
<1>4. e \in 0..Len(t)
  BY <1>3
<1> HIDE DEF e
<1>5. \A i \in 1..e : t[i] \in Line
  BY <1>1, <1>4
<1>6. SubSeq(t, 1, e) \in Seq(Line)
  BY <1>1, <1>4, <1>5, SubSeqProperties
<1> QED BY <1>6 DEF Normal, e

\* A text that ends as it should is as it should be.
LEMMA NormalIsSame ==
  ASSUME NEW t \in Seq(Line), Ends(t, Len(t))
  PROVE  Normal(t) = t
<1> DEFINE e == CHOOSE k \in 0..Len(t) : Ends(t, k)
<1>1. Len(t) \in 0..Len(t)
  OBVIOUS
<1>2. e \in 0..Len(t) /\ Ends(t, e)
  BY <1>1
<1>3. e = Len(t)
  <2> HIDE DEF e
  <2> QED BY <1>1, <1>2, OneEnd
<1>4. SubSeq(t, 1, Len(t)) = t
  OBVIOUS
<1> HIDE DEF e
<1>5. SubSeq(t, 1, e) = t
  BY <1>3, <1>4
<1> QED BY <1>5 DEF Normal, e

-----------------------------------------------------------------------------
(* At first.                                                                *)

\* The texts that are merged are texts that _normalize leaves alone.
LEMMA NumbersIsText ==
  ASSUME NEW c \in Contents
  PROVE  Numbers(c) \in Text
<1>1. CASE c = M!Empty
  <2>1. Numbers(c) = <<>>
    BY <1>1 DEF Numbers
  <2>2. <<>> \in Seq(Line) /\ Ends(<<>>, Len(<<>>))
    BY DEF Ends
  <2> QED BY <2>1, <2>2 DEF Text
<1>2. CASE c # M!Empty
  <2> DEFINE t == [i \in 1..Numbered |-> <<i, c[i]>>]
  <2>1. Numbers(c) = t /\ c \in [1..Numbered -> Edits]
    BY <1>2 DEF Numbers, Contents
  <2>2. Numbered \in Nat /\ Numbered > 0 /\ Numbered \in 1..Numbered
    BY LinesAssumption
  <2>3. \A i \in 1..Numbered : t[i] \in (1..Numbered) \X Edits /\ t[i] \in Line /\ t[i] # Blank
    BY <2>1, LinesAssumption DEF Line
  <2>4. t \in Seq(Line) /\ Len(t) = Numbered
    BY <2>2, <2>3
  <2> HIDE DEF t
  <2>5. Ends(t, Len(t))
    BY <2>2, <2>3, <2>4 DEF Ends
  <2> QED BY <2>1, <2>4, <2>5 DEF Text
<1> QED BY <1>1, <1>2

LEMMA TextsAreText == Texts \subseteq Text
<1> SUFFICES ASSUME NEW t \in Texts PROVE t \in Text
  OBVIOUS
<1>1. PICK n \in 0..MaxLines : t \in [1..n -> Words \cup {Blank}]
  BY DEF Texts
<1>2. n \in Nat /\ Words \cup {Blank} \subseteq Line
  BY LinesAssumption DEF Line
<1>3. t \in Seq(Line)
  BY <1>1, <1>2
<1> QED BY <1>3 DEF Texts, Text

\* The invariant holds before the merge.
LEMMA InitMerge == Init => MergeInv
<1> SUFFICES ASSUME Init PROVE MergeInv
  OBVIOUS
<1>1. base \in Text /\ versions \in Seq(Text) /\ versions # <<>>
  <2>1. CASE base \in Texts /\ versions \in [1..Versions -> Texts]
    <3>1. Versions \in Nat /\ Versions > 0
      BY LinesAssumption
    <3>2. versions \in [1..Versions -> Text]
      BY <2>1, TextsAreText
    <3>3. versions \in Seq(Text) /\ Len(versions) = Versions
      BY <3>1, <3>2
    <3> QED BY <2>1, <3>1, <3>3, TextsAreText
  <2>2. CASE /\ base \in {Numbers(M!Empty), Numbers([i \in 1..Numbered |-> 0])}
             /\ versions \in [1..Surfaces -> {Numbers(c) : c \in Contents}]
    <3>1. Surfaces \in Nat /\ Surfaces > 0
      BY LinesAssumption
    <3>2. M!Empty \in Contents /\ [i \in 1..Numbered |-> 0] \in Contents
      BY LinesAssumption DEF Contents
    <3>3. {Numbers(c) : c \in Contents} \subseteq Text
      BY NumbersIsText
    <3>4. versions \in [1..Surfaces -> Text]
      BY <2>2, <3>3
    <3>5. versions \in Seq(Text) /\ Len(versions) = Surfaces
      BY <3>1, <3>4
    <3> QED BY <2>2, <3>1, <3>2, <3>5, NumbersIsText
  <2> QED BY <2>1, <2>2 DEF Init
<1>2. TypeOK
  <2>1. changes \in [Values -> SUBSET Change]
    BY DEF Init
  <2>2. Len(versions) \in Nat
    BY <1>1
  <2> QED BY <1>1, <2>1, <2>2 DEF Init, TypeOK
<1> QED BY <1>2 DEF Init, MergeInv, MatchInv, ChangesInv, CompareInv, ApplyInv

-----------------------------------------------------------------------------
(* The next version's turn.                                                 *)

\* While base, versions and changes stay, what is defined from them does.
LEMMA SameOnward ==
  ASSUME base' = base, NEW C
  PROVE  Onward(C)' = Onward(C)
  BY Zenon DEF Onward, Put, Kept

LEMMA SameFaithful ==
  ASSUME base' = base, NEW b, NEW C
  PROVE  Faithful(b, C)' <=> Faithful(b, C)
  BY SameOnward DEF Faithful, Forward, Apart, Numerous, Differing

LEMMA SameChanges ==
  ASSUME UNCHANGED <<versions, changes>>
  PROVE  AllChanges' = AllChanges /\ Values' = Values
  BY DEF AllChanges, Values

\* At first all of both texts is left to match.
LEMMA TurnBegins ==
  ASSUME TypeOK, UNCHANGED <<base, versions>>, turn' \in 1..Len(versions),
         matched' = {}, unmatched' = Whole(versions[turn']), at' = "matching"
  PROVE  MatchInv' /\ unmatched' \subseteq [alo: Nat, ahi: Nat, blo: Nat, bhi: Nat]
<1> DEFINE b == versions[turn']
           w == [alo |-> 0, ahi |-> Len(base), blo |-> 0, bhi |-> Len(b)]
<1>1. b \in Seq(Line) /\ base \in Seq(Line) /\ Len(b) \in Nat /\ Len(base) \in Nat
  BY DEF TypeOK, Text
<1>2. unmatched' \subseteq {w} /\ (b # base => unmatched' = {w})
  BY DEF Whole
<1>3. unmatched' \subseteq [alo: Nat, ahi: Nat, blo: Nat, bhi: Nat]
  BY <1>1, <1>2
<1>4. w.alo = 0 /\ w.ahi = Len(base) /\ w.blo = 0 /\ w.bhi = Len(b)
  OBVIOUS
<1>5. versions'[turn'] = b
  OBVIOUS
<1> HIDE DEF b, w
<1>6. Matching(versions[turn], matched)'
  BY DEF Matching
<1>7. Searching(versions[turn])'
  <2>1. \A r \in unmatched' : r = w
    BY <1>2
  <2>2. \A r \in unmatched' : /\ r.alo <= r.ahi /\ r.ahi <= Len(base)
                              /\ r.blo <= r.bhi /\ r.bhi <= Len(b)
    BY <1>1, <1>4, <2>1
  <2>3. \A r, s \in unmatched' : r = s
    BY <2>1
  <2> QED BY <1>5, <2>2, <2>3 DEF Searching
<1>8. (versions[turn] # base /\ Numerous(versions[turn]) => Complete(versions[turn]))'
  <2> SUFFICES ASSUME b # base, {base, b} \subseteq Numbering \ {<<>>}, NEW x \in 0..(Numbered - 1)
               PROVE  \E r \in unmatched' : {x} \subseteq (r.alo..(r.ahi - 1)) \cap (r.blo..(r.bhi - 1))
    BY <1>5 DEF Complete, Numerous
  <2>1. Len(base) = Numbered /\ Len(b) = Numbered
    BY NumberedText
  <2>2. w \in unmatched' /\ {x} \subseteq (w.alo..(w.ahi - 1)) \cap (w.blo..(w.bhi - 1))
    BY <1>1, <1>2, <1>4, <2>1
  <2> QED BY <2>2
<1> QED BY <1>3, <1>6, <1>7, <1>8 DEF MatchInv

\* With nothing matched of the first version yet.
LEMMA StartKeeps == MergeInv /\ Start => MergeInv'
<1> SUFFICES ASSUME MergeInv, Start PROVE MergeInv'
  OBVIOUS
<1> USE DEF MergeInv
<1>1. Values' = Values /\ AllChanges' = AllChanges
  BY SameChanges DEF Start
<1>2. Change' = Change
  BY DEF Change, Position, Start
<1>3. Len(versions) \in Nat /\ 1 \in 1..Len(versions) /\ versions[1] \in Text
  BY DEF TypeOK
<1>4. CASE \A v \in DOMAIN versions : versions[v] = versions[1]
  <2>1. at' = "merged" /\ text' = versions[1] /\ UNCHANGED <<base, versions, turn, unmatched, matched, changes, left, accepted>>
    BY <1>4 DEF Start, matching
  <2>2. TypeOK'
    BY <1>1, <1>2, <1>3, <2>1 DEF TypeOK, Text
  <2> QED BY <2>1, <2>2 DEF MatchInv, ChangesInv, CompareInv, ApplyInv
<1>5. CASE ~ \A v \in DOMAIN versions : versions[v] = versions[1]
  <2>1. /\ at = "start" /\ at' = "matching" /\ turn' = 1 /\ unmatched' = Whole(versions[1])
        /\ UNCHANGED <<base, versions, matched, changes, left, accepted, text>>
    BY <1>5 DEF Start
  <2>2. matched' = {}
    BY <2>1 DEF MatchInv
  <2>3. MatchInv' /\ unmatched' \subseteq [alo: Nat, ahi: Nat, blo: Nat, bhi: Nat]
    <3>1. turn' \in 1..Len(versions) /\ unmatched' = Whole(versions[turn'])
      BY <1>3, <2>1
    <3> QED BY <2>1, <2>2, <3>1, TurnBegins
  <2>4. TypeOK'
    BY <1>1, <1>2, <1>3, <2>1, <2>3 DEF TypeOK
  <2>5. ChangesInv'
    <3>1. \A v \in DOMAIN versions : ~(v < 1)
      BY <1>3 DEF TypeOK
    <3> QED BY <2>1, <3>1 DEF ChangesInv
  <2>6. CompareInv' /\ ApplyInv'
    BY <2>1 DEF CompareInv, ApplyInv
  <2> QED BY <2>3, <2>4, <2>5, <2>6
<1> QED BY <1>4, <1>5

-----------------------------------------------------------------------------
(* A round of the search.                                                   *)

\* When no block is in a stretch, no equal line is.
LEMMA NoBlock ==
  ASSUME TypeOK, NEW b \in Seq(Line), NEW r \in unmatched, Blocks(r, b) = {},
         NEW x \in r.alo..(r.ahi - 1), x \in r.blo..(r.bhi - 1)
  PROVE  base[x + 1] # b[x + 1]
<1> SUFFICES ASSUME base[x + 1] = b[x + 1] PROVE FALSE
  OBVIOUS
<1>1. r.alo \in Nat /\ r.ahi \in Nat /\ r.blo \in Nat /\ r.bhi \in Nat
  BY DEF TypeOK
<1> DEFINE f == [i |-> x, j |-> x, size |-> 1]
<1>2. f.i = x /\ f.j = x /\ f.size = 1
  OBVIOUS
<1>3. f \in [i: r.alo..(r.ahi - 1), j: r.blo..(r.bhi - 1), size: 1..(r.ahi - r.alo)]
  BY <1>1
<1> HIDE DEF f
<1>4. f.i + f.size <= r.ahi /\ f.j + f.size <= r.bhi
  BY <1>1, <1>2
<1>5. \A y \in 1..f.size : base[f.i + y] = b[f.j + y]
  <2>1. \A y \in 1..f.size : y = 1
    BY <1>2
  <2> QED BY <1>2, <2>1
<1> QED BY <1>3, <1>4, <1>5 DEF Blocks

\* What a block is.
LEMMA BlockIs ==
  ASSUME TypeOK, NEW b, NEW r \in unmatched, NEW f \in Blocks(r, b)
  PROVE  /\ r.alo \in Nat /\ r.ahi \in Nat /\ r.blo \in Nat /\ r.bhi \in Nat
         /\ f.i \in Nat /\ f.j \in Nat /\ f.size \in Nat /\ f.size > 0
         /\ r.alo <= f.i /\ f.i + f.size <= r.ahi /\ r.blo <= f.j /\ f.j + f.size <= r.bhi
         /\ \A x \in 0..(f.size - 1) : base[(f.i + x) + 1] = b[(f.j + x) + 1]
<1>1. r.alo \in Nat /\ r.ahi \in Nat /\ r.blo \in Nat /\ r.bhi \in Nat
  BY DEF TypeOK
<1>2. /\ f.i \in r.alo..(r.ahi - 1) /\ f.j \in r.blo..(r.bhi - 1) /\ f.size \in 1..(r.ahi - r.alo)
      /\ f.i + f.size <= r.ahi /\ f.j + f.size <= r.bhi
      /\ \A x \in 1..f.size : base[f.i + x] = b[f.j + x]
  BY DEF Blocks
<1>3. ASSUME NEW x \in 0..(f.size - 1) PROVE base[(f.i + x) + 1] = b[(f.j + x) + 1]
  <2> DEFINE y == x + 1
  <2>1. y \in 1..f.size /\ (f.i + x) + 1 = f.i + y /\ (f.j + x) + 1 = f.j + y
    BY <1>1, <1>2
  <2> HIDE DEF y
  <2> QED BY <1>2, <2>1
<1> QED BY <1>1, <1>2, <1>3

\* What is left beside a block.
LEMMA BesideIs ==
  ASSUME NEW r \in [alo: Nat, ahi: Nat, blo: Nat, bhi: Nat], NEW f,
         f.i \in Nat, f.j \in Nat, f.size \in Nat,
         NEW s \in Beside(r, f)
  PROVE  /\ s \in [alo: Nat, ahi: Nat, blo: Nat, bhi: Nat] /\ s.alo < s.ahi /\ s.blo < s.bhi
         /\ \/ s.alo = r.alo /\ s.ahi = f.i /\ s.blo = r.blo /\ s.bhi = f.j
            \/ s.alo = f.i + f.size /\ s.ahi = r.ahi /\ s.blo = f.j + f.size /\ s.bhi = r.bhi
<1>0. f.i + f.size \in Nat /\ f.j + f.size \in Nat
  OBVIOUS
<1>1. ASSUME s = [r EXCEPT !.ahi = f.i, !.bhi = f.j]
      PROVE  /\ s \in [alo: Nat, ahi: Nat, blo: Nat, bhi: Nat]
             /\ s.alo = r.alo /\ s.ahi = f.i /\ s.blo = r.blo /\ s.bhi = f.j
  BY <1>1
<1>2. ASSUME s = [r EXCEPT !.alo = f.i + f.size, !.blo = f.j + f.size]
      PROVE  /\ s \in [alo: Nat, ahi: Nat, blo: Nat, bhi: Nat]
             /\ s.alo = f.i + f.size /\ s.ahi = r.ahi /\ s.blo = f.j + f.size /\ s.bhi = r.bhi
  <2> DEFINE u == f.i + f.size
             v == f.j + f.size
  <2>1. u \in Nat /\ v \in Nat
    BY <1>0
  <2>2. s = [r EXCEPT !.alo = u, !.blo = v]
    BY <1>2
  <2> HIDE DEF u, v
  <2>3. /\ s \in [alo: Nat, ahi: Nat, blo: Nat, bhi: Nat]
        /\ s.alo = u /\ s.ahi = r.ahi /\ s.blo = v /\ s.bhi = r.bhi
    BY <2>1, <2>2
  <2> QED BY <2>3 DEF u, v
<1>3. /\ s = [r EXCEPT !.ahi = f.i, !.bhi = f.j] \/ s = [r EXCEPT !.alo = f.i + f.size, !.blo = f.j + f.size]
      /\ s.alo < s.ahi /\ s.blo < s.bhi
  BY Zenon DEF Beside
<1> QED BY <1>1, <1>2, <1>3

\* What is on one side of a block and not empty is left to match.
LEMMA InBeside ==
  ASSUME NEW r, NEW f, NEW s, s.alo < s.ahi, s.blo < s.bhi,
         s = [r EXCEPT !.ahi = f.i, !.bhi = f.j] \/ s = [r EXCEPT !.alo = f.i + f.size, !.blo = f.j + f.size]
  PROVE  s \in Beside(r, f)
  BY Zenon DEF Beside

LEMMA Within ==
  \A i, x, n, a, m \in Nat : x < n /\ i + n <= a /\ a <= m => i + x < m
  OBVIOUS

\* The lines that a block matches.
Pairs(f) == {<<f.i + x, f.j + x>> : x \in 0..(f.size - 1)}

\* A block is taken out of a stretch.
LEMMA BlockTaken ==
  ASSUME TypeOK, MatchInv, at = "matching", NEW r \in unmatched,
         NEW f \in Blocks(r, versions[turn]),
         unmatched' = (unmatched \ {r}) \cup Beside(r, f),
         matched' = matched \cup Pairs(f),
         UNCHANGED <<base, versions, at, turn>>
  PROVE  /\ MatchInv'
         /\ unmatched' \subseteq [alo: Nat, ahi: Nat, blo: Nat, bhi: Nat]
         /\ matched' \subseteq Nat \X Nat
<1> DEFINE b == versions[turn]
           R == [alo: Nat, ahi: Nat, blo: Nat, bhi: Nat]
           New == Pairs(f)
<1>0. /\ b \in Seq(Line) /\ base \in Seq(Line) /\ Len(b) \in Nat /\ Len(base) \in Nat
      /\ unmatched \subseteq R /\ matched \subseteq Nat \X Nat /\ r \in R
  <2>1. turn \in 1..Len(versions)
    BY DEF TypeOK
  <2> QED BY <2>1 DEF TypeOK, Text
<1>1. /\ Matching(b, matched) /\ Searching(b)
      /\ b # base /\ Numerous(b) => Complete(b)
      /\ versions'[turn'] = b
  BY DEF MatchInv
<1>2. /\ r.alo \in Nat /\ r.ahi \in Nat /\ r.blo \in Nat /\ r.bhi \in Nat
      /\ f.i \in Nat /\ f.j \in Nat /\ f.size \in Nat /\ f.size > 0
      /\ r.alo <= f.i /\ f.i + f.size <= r.ahi /\ r.blo <= f.j /\ f.j + f.size <= r.bhi
  BY BlockIs
<1>3. \A x \in 0..(f.size - 1) : base[(f.i + x) + 1] = b[(f.j + x) + 1]
  BY BlockIs
<1>4. f \in Blocks(r, b)
  OBVIOUS
<1> HIDE DEF b
<1>5. /\ \A s \in unmatched : /\ s.alo <= s.ahi /\ s.ahi <= Len(base) /\ s.blo <= s.bhi /\ s.bhi <= Len(b)
                              /\ s.alo \in Nat /\ s.ahi \in Nat /\ s.blo \in Nat /\ s.bhi \in Nat
      /\ \A s \in unmatched, p \in matched : \/ p[1] < s.alo /\ p[2] < s.blo
                                             \/ p[1] >= s.ahi /\ p[2] >= s.bhi
      /\ \A s, t \in unmatched : s # t => Above(s, t) \/ Above(t, s)
  BY <1>0, <1>1 DEF Searching
<1>6. \A p \in matched : /\ p[1] \in Nat /\ p[2] \in Nat /\ p[1] < Len(base) /\ p[2] < Len(b)
                         /\ base[p[1] + 1] = b[p[2] + 1]
  BY <1>0, <1>1 DEF Matching
<1>7. \A p, q \in matched : p[1] < q[1] <=> p[2] < q[2]
  BY <1>1 DEF Matching
<1>8. ASSUME NEW p \in New
      PROVE  /\ p \in Nat \X Nat /\ p[1] \in Nat /\ p[2] \in Nat
             /\ f.i <= p[1] /\ p[1] < f.i + f.size /\ p[2] = f.j + (p[1] - f.i)
             /\ p[1] < Len(base) /\ p[2] < Len(b) /\ base[p[1] + 1] = b[p[2] + 1]
  <2>1. PICK x \in 0..(f.size - 1) : p = <<f.i + x, f.j + x>>
    BY DEF Pairs
  <2>2. p[1] = f.i + x /\ p[2] = f.j + x /\ x \in Nat /\ x < f.size
    BY <1>2, <2>1
  <2>3. base[p[1] + 1] = b[p[2] + 1]
    BY <1>3, <2>2
  <2>4. r.ahi <= Len(base) /\ r.bhi <= Len(b)
    BY <1>5
  <2> HIDE DEF New, R
  <2>5. p \in Nat \X Nat
    BY <1>2, <2>1, <2>2
  <2>6. f.i <= p[1] /\ p[1] < f.i + f.size /\ p[2] = f.j + (p[1] - f.i) /\ p[1] \in Nat /\ p[2] \in Nat
    BY <1>2, <2>2
  <2>7. p[1] < Len(base) /\ p[2] < Len(b)
    <3>1. Len(base) \in Nat /\ Len(b) \in Nat
      BY <1>0
    <3> QED BY <1>2, <2>2, <2>4, <3>1, Within
  <2> QED BY <2>3, <2>5, <2>6, <2>7
<1>9. matched' = matched \cup New
  OBVIOUS
<1>10. \A x \in 0..(f.size - 1) : <<f.i + x, f.j + x>> \in New
  BY DEF Pairs
<1>11. ASSUME NEW s \in Beside(r, f)
       PROVE  /\ s \in R /\ s.alo \in Nat /\ s.ahi \in Nat /\ s.blo \in Nat /\ s.bhi \in Nat
              /\ s.alo < s.ahi /\ s.blo < s.bhi
              /\ \/ s.alo = r.alo /\ s.ahi = f.i /\ s.blo = r.blo /\ s.bhi = f.j
                 \/ s.alo = f.i + f.size /\ s.ahi = r.ahi /\ s.blo = f.j + f.size /\ s.bhi = r.bhi
  <2>1. /\ s \in R /\ s.alo < s.ahi /\ s.blo < s.bhi
        /\ \/ s.alo = r.alo /\ s.ahi = f.i /\ s.blo = r.blo /\ s.bhi = f.j
           \/ s.alo = f.i + f.size /\ s.ahi = r.ahi /\ s.blo = f.j + f.size /\ s.bhi = r.bhi
    <3>1. r \in [alo: Nat, ahi: Nat, blo: Nat, bhi: Nat]
      BY <1>0
    <3>2. f.i \in Nat /\ f.j \in Nat /\ f.size \in Nat
      BY <1>2
    <3> HIDE DEF New
    <3> QED BY <3>1, <3>2, BesideIs
  <2> QED BY <2>1
<1> HIDE DEF New, R
<1>12. unmatched' \subseteq R /\ matched' \subseteq Nat \X Nat
  BY <1>0, <1>8, <1>9, <1>11
<1>13. ASSUME NEW p \in matched, NEW q \in New
       PROVE  (p[1] < q[1] <=> p[2] < q[2]) /\ (q[1] < p[1] <=> q[2] < p[2])
  <2>1. (p[1] < r.alo /\ p[2] < r.blo) \/ (p[1] >= r.ahi /\ p[2] >= r.bhi)
    BY <1>5
  <2>2. f.i <= q[1] /\ q[1] < f.i + f.size /\ q[2] = f.j + (q[1] - f.i) /\ q[1] \in Nat /\ q[2] \in Nat
    BY <1>8
  <2>3. p[1] \in Nat /\ p[2] \in Nat
    BY <1>6
  <2> QED BY <1>2, <2>1, <2>2, <2>3
<1>14. Matching(versions[turn], matched)'
  <2>1. \A p \in matched' : p[1] < Len(base) /\ p[2] < Len(b) /\ base[p[1] + 1] = b[p[2] + 1]
    BY <1>6, <1>8, <1>9
  <2>2. ASSUME NEW p \in New, NEW q \in New PROVE p[1] < q[1] <=> p[2] < q[2]
    <3>1. p[2] = f.j + (p[1] - f.i) /\ q[2] = f.j + (q[1] - f.i) /\ p[1] \in Nat /\ q[1] \in Nat
      BY <1>8
    <3> QED BY <1>2, <3>1
  <2>3. \A p, q \in matched' : p[1] < q[1] <=> p[2] < q[2]
    BY <1>7, <1>9, <1>13, <2>2
  <2> QED BY <1>1, <2>1, <2>3 DEF Matching
<1>15. Searching(versions[turn])'
  <2>1. ASSUME NEW s \in unmatched'
        PROVE  s.alo <= s.ahi /\ s.ahi <= Len(base) /\ s.blo <= s.bhi /\ s.bhi <= Len(b)
    <3>1. CASE s \in unmatched
      BY <1>5, <3>1
    <3>2. CASE s \in Beside(r, f)
      <4>1. r.ahi <= Len(base) /\ r.bhi <= Len(b)
        BY <1>5
      <4>2. Len(base) \in Nat /\ Len(b) \in Nat
        BY <1>0
      <4> DEFINE m == Len(base)
                 n == Len(b)
      <4> HIDE DEF m, n
      <4>3. r.ahi <= m /\ r.bhi <= n /\ m \in Nat /\ n \in Nat
        BY <4>1, <4>2 DEF m, n
      <4>4. s.alo <= s.ahi /\ s.ahi <= m /\ s.blo <= s.bhi /\ s.bhi <= n
        BY <1>2, <1>11, <3>2, <4>3
      <4> QED BY <4>4 DEF m, n
    <3> QED BY <3>1, <3>2
  <2>2. ASSUME NEW s \in unmatched', NEW p \in matched'
        PROVE  (p[1] < s.alo /\ p[2] < s.blo) \/ (p[1] >= s.ahi /\ p[2] >= s.bhi)
    <3>1. CASE s \in unmatched /\ p \in matched
      BY <1>5, <3>1
    <3>2. CASE s \in unmatched /\ s # r /\ p \in New
      <4>1. f.i <= p[1] /\ p[1] < f.i + f.size /\ p[2] = f.j + (p[1] - f.i) /\ p[1] \in Nat /\ p[2] \in Nat
        BY <1>8, <3>2
      <4>2. s.alo \in Nat /\ s.ahi \in Nat /\ s.blo \in Nat /\ s.bhi \in Nat
        BY <1>5, <3>2
      <4>3. Above(s, r) \/ Above(r, s)
        BY <1>5, <3>2
      <4> QED BY <1>2, <4>1, <4>2, <4>3 DEF Above
    <3>3. CASE s \in Beside(r, f) /\ p \in matched
      <4>1. (p[1] < r.alo /\ p[2] < r.blo) \/ (p[1] >= r.ahi /\ p[2] >= r.bhi)
        BY <1>5, <3>3
      <4>2. p[1] \in Nat /\ p[2] \in Nat
        BY <1>6, <3>3
      <4> QED BY <1>2, <1>11, <3>3, <4>1, <4>2
    <3>4. CASE s \in Beside(r, f) /\ p \in New
      <4>1. f.i <= p[1] /\ p[1] < f.i + f.size /\ p[2] = f.j + (p[1] - f.i) /\ p[1] \in Nat /\ p[2] \in Nat
        BY <1>8, <3>4
      <4> QED BY <1>2, <1>11, <3>4, <4>1
    <3> QED BY <1>9, <3>1, <3>2, <3>3, <3>4
  <2>3. ASSUME NEW s \in unmatched, s # r, NEW t \in Beside(r, f)
        PROVE  Above(s, t) \/ Above(t, s)
    <3>1. s.alo \in Nat /\ s.ahi \in Nat /\ s.blo \in Nat /\ s.bhi \in Nat
      BY <1>5
    <3>2. Above(s, r) \/ Above(r, s)
      BY <1>5, <2>3
    <3> QED BY <1>2, <1>11, <3>1, <3>2 DEF Above
  <2>4. ASSUME NEW s \in Beside(r, f), NEW t \in Beside(r, f), s # t
        PROVE  Above(s, t) \/ Above(t, s)
    <3> DEFINE First(u) == u.alo = r.alo /\ u.ahi = f.i /\ u.blo = r.blo /\ u.bhi = f.j
               Second(u) == u.alo = f.i + f.size /\ u.ahi = r.ahi /\ u.blo = f.j + f.size /\ u.bhi = r.bhi
    <3>1. s \in R /\ t \in R /\ (First(s) \/ Second(s)) /\ (First(t) \/ Second(t))
      BY <1>11
    <3>2. ~(First(s) /\ First(t)) /\ ~(Second(s) /\ Second(t))
      BY <2>4, <3>1 DEF R
    <3> QED BY <1>2, <3>1, <3>2 DEF Above
  <2>5. \A s, t \in unmatched' : s # t => Above(s, t) \/ Above(t, s)
    BY <1>5, <2>3, <2>4
  <2> QED BY <1>1, <2>1, <2>2, <2>5 DEF Searching, Above
<1>16. (versions[turn] # base /\ Numerous(versions[turn]) => Complete(versions[turn]))'
  <2> SUFFICES ASSUME b # base, {base, b} \subseteq Numbering \ {<<>>},
                      NEW x \in 0..(Numbered - 1), base[x + 1] = b[x + 1]
               PROVE  \/ <<x, x>> \in matched'
                      \/ \E s \in unmatched' : {x} \subseteq (s.alo..(s.ahi - 1)) \cap (s.blo..(s.bhi - 1))
    BY <1>1 DEF Complete, Numerous
  <2>1. \/ <<x, x>> \in matched
        \/ \E s \in unmatched : {x} \subseteq (s.alo..(s.ahi - 1)) \cap (s.blo..(s.bhi - 1))
    BY <1>1 DEF Complete, Numerous
  <2>2. CASE <<x, x>> \in matched
    BY <1>9, <2>2
  <2>3. CASE \E s \in unmatched \ {r} : {x} \subseteq (s.alo..(s.ahi - 1)) \cap (s.blo..(s.bhi - 1))
    BY <2>3
  <2>4. CASE x \in r.alo..(r.ahi - 1) /\ x \in r.blo..(r.bhi - 1)
    <3>1. f.i = f.j
      <4> DEFINE m == f.i + 1
                 n == f.j + 1
      <4>1. Len(base) = Numbered /\ Len(b) = Numbered /\ Numbered \in Nat
        BY NumberedText, LinesAssumption
      <4>2. r.ahi <= Len(base) /\ r.bhi <= Len(b)
        BY <1>5
      <4>3. m \in 1..Numbered /\ n \in 1..Numbered
        <5>1. r.ahi <= Numbered /\ r.bhi <= Numbered /\ Numbered \in Nat
          BY <4>1, <4>2
        <5> QED BY <1>2, <5>1
      <4>4. base[m] = b[n]
        <5>1. 0 \in 0..(f.size - 1) /\ (f.i + 0) + 1 = m /\ (f.j + 0) + 1 = n
          BY <1>2
        <5> HIDE DEF m, n
        <5> QED BY <1>3, <5>1
      <4>5. m = n
        <5> HIDE DEF m, n
        <5>1. base[m] = <<m, base[m][2]>> /\ b[n] = <<n, b[n][2]>>
          BY <4>3, NumberedText
        <5> QED BY <4>4, <5>1
      <4> QED BY <1>2, <4>5
    <3>2. CASE f.i <= x /\ x < f.i + f.size
      <4> DEFINE y == x - f.i
      <4>1. y \in 0..(f.size - 1) /\ f.i + y = x /\ f.j + y = x
        BY <1>2, <3>1, <3>2
      <4> HIDE DEF y
      <4>2. <<x, x>> \in New
        BY <1>10, <4>1
      <4> QED BY <1>9, <4>2
    <3>3. CASE x < f.i
      <4> DEFINE s == [r EXCEPT !.ahi = f.i, !.bhi = f.j]
      <4>1. s.alo = r.alo /\ s.ahi = f.i /\ s.blo = r.blo /\ s.bhi = f.j
        BY <1>0 DEF R
      <4> HIDE DEF s
      <4>2. x \in s.alo..(s.ahi - 1) /\ x \in s.blo..(s.bhi - 1) /\ s.alo < s.ahi /\ s.blo < s.bhi
        BY <1>2, <2>4, <3>1, <3>3, <4>1
      <4>3. s \in Beside(r, f)
        BY <4>2, InBeside DEF s
      <4> QED BY <4>2, <4>3
    <3>4. CASE x >= f.i + f.size
      <4> DEFINE s == [r EXCEPT !.alo = f.i + f.size, !.blo = f.j + f.size]
      <4>1. s.alo = f.i + f.size /\ s.ahi = r.ahi /\ s.blo = f.j + f.size /\ s.bhi = r.bhi
        BY <1>0 DEF R
      <4> HIDE DEF s
      <4>2. x \in s.alo..(s.ahi - 1) /\ x \in s.blo..(s.bhi - 1) /\ s.alo < s.ahi /\ s.blo < s.bhi
        BY <1>2, <2>4, <3>1, <3>4, <4>1
      <4>3. s \in Beside(r, f)
        BY <4>2, InBeside DEF s
      <4> QED BY <4>2, <4>3
    <3> QED BY <1>2, <3>2, <3>3, <3>4
  <2> QED BY <2>1, <2>2, <2>3, <2>4
<1> QED BY <1>12, <1>14, <1>15, <1>16 DEF MatchInv, R

\* A round of difflib's loop keeps the order of what is matched.
LEMMA MatchKeeps == MergeInv /\ Match => MergeInv'
<1> SUFFICES ASSUME MergeInv, Match PROVE MergeInv'
  OBVIOUS
<1> USE DEF MergeInv
<1>1. at = "matching" /\ UNCHANGED <<base, versions, at, turn, changes, left, accepted, text>>
  BY DEF Match
<1>2. Values' = Values /\ AllChanges' = AllChanges
  BY <1>1, SameChanges
<1>3. Change' = Change
  BY <1>1 DEF Change, Position
<1> DEFINE b == versions[turn]
<1>4. PICK r \in unmatched :
         \/ Blocks(r, b) = {} /\ unmatched' = unmatched \ {r} /\ matched' = matched
         \/ \E f \in Blocks(r, b) : /\ unmatched' = (unmatched \ {r}) \cup Beside(r, f)
                                    /\ matched' = matched \cup Pairs(f)
  BY Zenon DEF Match, Pairs
<1>5. /\ MatchInv' /\ matched' \subseteq Nat \X Nat
      /\ unmatched' \subseteq [alo: Nat, ahi: Nat, blo: Nat, bhi: Nat]
  <2>1. CASE \E f \in Blocks(r, b) : /\ unmatched' = (unmatched \ {r}) \cup Beside(r, f)
                                     /\ matched' = matched \cup Pairs(f)
    BY <1>1, <2>1, BlockTaken
  <2>2. CASE Blocks(r, b) = {} /\ unmatched' = unmatched \ {r} /\ matched' = matched
    <3>1. turn \in 1..Len(versions) /\ b \in Seq(Line)
      <4>1. turn \in 1..Len(versions)
        BY <1>1 DEF TypeOK
      <4> QED BY <4>1 DEF TypeOK, Text
    <3>2. /\ Matching(b, matched) /\ Searching(b)
          /\ b # base /\ Numerous(b) => Complete(b)
          /\ versions'[turn'] = b
      BY <1>1 DEF MatchInv
    <3>3. \A x \in r.alo..(r.ahi - 1) : x \in r.blo..(r.bhi - 1) => base[x + 1] # b[x + 1]
      BY <2>2, <3>1, NoBlock
    <3> HIDE DEF b
    <3>4. Matching(versions[turn], matched)'
      BY <1>1, <2>2, <3>2 DEF Matching
    <3>5. Searching(versions[turn])'
      BY <1>1, <2>2, <3>2 DEF Searching, Above
    <3>6. (versions[turn] # base /\ Numerous(versions[turn]) => Complete(versions[turn]))'
      <4> SUFFICES ASSUME b # base, {base, b} \subseteq Numbering \ {<<>>},
                          NEW x \in 0..(Numbered - 1), base[x + 1] = b[x + 1]
                   PROVE  \/ <<x, x>> \in matched'
                          \/ \E s \in unmatched' : {x} \subseteq (s.alo..(s.ahi - 1)) \cap (s.blo..(s.bhi - 1))
        BY <1>1, <3>2 DEF Complete, Numerous
      <4>1. \/ <<x, x>> \in matched
            \/ \E s \in unmatched : {x} \subseteq (s.alo..(s.ahi - 1)) \cap (s.blo..(s.bhi - 1))
        BY <3>2 DEF Complete, Numerous
      <4>2. ~ ({x} \subseteq (r.alo..(r.ahi - 1)) \cap (r.blo..(r.bhi - 1)))
        BY <3>3
      <4> QED BY <2>2, <4>1, <4>2
    <3>7. matched' \subseteq Nat \X Nat /\ unmatched' \subseteq [alo: Nat, ahi: Nat, blo: Nat, bhi: Nat]
      BY <2>2 DEF TypeOK
    <3> QED BY <1>1, <3>4, <3>5, <3>6, <3>7 DEF MatchInv
  <2> QED BY <1>4, <2>1, <2>2
<1>6. TypeOK'
  BY <1>1, <1>2, <1>3, <1>5 DEF TypeOK
<1>7. ChangesInv'
  BY <1>1, SameFaithful DEF ChangesInv
<1>8. CompareInv' /\ ApplyInv'
  BY <1>1 DEF CompareInv, ApplyInv
<1> QED BY <1>5, <1>6, <1>7, <1>8

-----------------------------------------------------------------------------
(* The changes of one version are collected.                                *)

\* What is collected is faithful to its version.
LEMMA CollectKeeps == MergeInv /\ Collect => MergeInv'
<1> SUFFICES ASSUME MergeInv, Collect PROVE MergeInv'
  OBVIOUS
<1> USE DEF MergeInv
<1> DEFINE b == versions[turn]
           C == IF b = base THEN {} ELSE Between(b, matched)
<1>1. /\ at = "matching" /\ unmatched = {} /\ UNCHANGED <<base, versions, accepted, text>>
      /\ matched' = {} /\ changes' = [changes EXCEPT ![b] = C]
  BY DEF Collect
<1>2. turn \in 1..Len(versions) /\ Len(versions) \in Nat /\ b \in Values /\ b \in Seq(Line) /\ base \in Seq(Line)
  <2>1. turn \in 1..Len(versions) /\ Len(versions) \in Nat
    BY <1>1 DEF TypeOK
  <2> QED BY <2>1 DEF TypeOK, Text, Values
<1>3. C \in SUBSET Change /\ Faithful(b, C)
  <2>1. Matching(b, matched) /\ (b # base /\ Numerous(b) => Complete(b)) /\ matched \in SUBSET (Nat \X Nat)
    BY <1>1 DEF MatchInv, TypeOK
  <2> HIDE DEF b
  <2> QED BY <1>1, <1>2, <2>1, CollectedIsFaithful
<1>4. left = {} /\ accepted = {}
  BY <1>1 DEF CompareInv
<1>5. Values' = Values /\ Change' = Change
  BY <1>1 DEF Values, Change, Position
<1>6. changes' \in [Values -> SUBSET Change] /\ changes'[b] = C
  BY <1>1, <1>2, <1>3 DEF TypeOK
<1>7. ASSUME NEW v \in DOMAIN versions, v <= turn
      PROVE  Faithful(versions[v], changes[versions[v]])'
  <2> DEFINE t == versions[v]
  <2>1. t \in Values
    BY DEF Values
  <2>2. Faithful(t, changes'[t])
    <3>1. CASE t = b
      BY <1>3, <1>6, <3>1
    <3>2. CASE t # b
      <4>1. v < turn
        <5>1. v # turn
          BY <3>2
        <5>2. v \in Int /\ turn \in Int
          BY <1>2 DEF TypeOK
        <5> QED BY <1>7, <5>1, <5>2
      <4>2. Faithful(t, changes[t])
        BY <1>1, <4>1 DEF ChangesInv
      <4>3. changes'[t] = changes[t]
        BY <1>1, <2>1, <3>2 DEF TypeOK
      <4> QED BY <4>2, <4>3
    <3> QED BY <3>1, <3>2
  <2> QED BY <1>1, <2>2, SameFaithful
<1> HIDE DEF C
<1>8. CASE turn < Len(versions)
  <2>1. /\ turn' = turn + 1 /\ unmatched' = Whole(versions[turn']) /\ at' = "matching" /\ left' = {}
    BY <1>1, <1>4, <1>8 DEF Collect
  <2>2. turn' \in 1..Len(versions)
    BY <1>2, <1>8, <2>1
  <2>3. MatchInv' /\ unmatched' \subseteq [alo: Nat, ahi: Nat, blo: Nat, bhi: Nat]
    BY <1>1, <2>1, <2>2, TurnBegins
  <2>4. TypeOK'
    BY <1>1, <1>2, <1>4, <1>5, <1>6, <2>1, <2>2, <2>3 DEF TypeOK
  <2>5. ChangesInv'
    <3>1. \A v \in DOMAIN versions : v < turn' => v <= turn
      BY <1>2, <2>1 DEF TypeOK
    <3> QED BY <1>1, <1>7, <2>1, <3>1 DEF ChangesInv
  <2>6. CompareInv' /\ ApplyInv'
    BY <1>1, <1>4, <2>1 DEF CompareInv, ApplyInv
  <2> QED BY <2>3, <2>4, <2>5, <2>6
<1>9. CASE ~(turn < Len(versions))
  <2>1. /\ at' = "comparing" /\ turn' = turn /\ unmatched' = unmatched
        /\ left' = UNION {{v} \X changes'[versions[v]] : v \in DOMAIN versions}
    BY <1>1, <1>9 DEF Collect
  <2>2. \A v \in DOMAIN versions : v <= turn /\ versions[v] \in Values
    BY <1>2, <1>9 DEF TypeOK, Values
  <2>3. left' \subseteq (DOMAIN versions) \X AllChanges'
    <3>1. AllChanges' = UNION {changes'[t] : t \in Values}
      BY <1>5 DEF AllChanges
    <3> QED BY <2>1, <2>2, <3>1
  <2>4. TypeOK'
    <3>1. turn' \in 0..Len(versions) /\ unmatched' = {} /\ accepted' = {}
      BY <1>1, <1>2, <1>4, <2>1
    <3> QED BY <1>1, <1>5, <1>6, <2>1, <2>3, <3>1 DEF TypeOK
  <2>5. ChangesInv'
    BY <1>1, <1>7, <2>1, <2>2 DEF ChangesInv
  <2>6. CompareInv'
    <3>1. \A v \in DOMAIN versions : \A c \in changes'[versions[v]] : <<v, c>> \in left'
      BY <2>1
    <3> QED BY <1>1, <1>4, <2>1, <3>1 DEF CompareInv
  <2>7. MatchInv' /\ ApplyInv'
    BY <2>1 DEF MatchInv, ApplyInv
  <2> QED BY <2>4, <2>5, <2>6, <2>7
<1> QED BY <1>8, <1>9

-----------------------------------------------------------------------------
(* The changes are compared.                                                *)

\* What is collected of a version is a set of changes.
LEMMA AllAreChanges ==
  ASSUME TypeOK, ChangesInv, at \in {"comparing", "applying"}
  PROVE  /\ AllChanges \subseteq Change /\ Forward(AllChanges)
         /\ \A t \in Values : Faithful(t, changes[t]) /\ Separate(changes[t]) /\ changes[t] \subseteq AllChanges
<1>1. ASSUME NEW t \in Values
      PROVE  changes[t] \subseteq Change /\ Faithful(t, changes[t])
  <2>1. changes[t] \subseteq Change
    BY DEF TypeOK
  <2>2. PICK v \in DOMAIN versions : versions[v] = t
    BY DEF Values
  <2> QED BY <2>1, <2>2 DEF ChangesInv
<1>2. \A t \in Values : Forward(changes[t]) /\ Apart(changes[t])
  BY <1>1 DEF Faithful
<1>3. AllChanges \subseteq Change /\ Forward(AllChanges)
  BY <1>1, <1>2 DEF AllChanges, Forward
<1>4. \A t \in Values : Separate(changes[t])
  BY <1>1, <1>2, ApartIsSeparate
<1> QED BY <1>1, <1>3, <1>4 DEF AllChanges

\* Changes overlap when they say different things of a line.
LEMMA OverlapOpposes ==
  ASSUME TypeOK, ChangesInv, at \in {"comparing", "applying"},
         NEW c \in AllChanges, NEW d \in AllChanges
  PROVE  (Overlaps(c, d) <=> Overlaps(d, c)) /\ (Overlaps(c, d) <=> About(c) \cap About(d) # {})
  BY AllAreChanges, OverlapsIsAbout DEF Forward

\* What is accepted overlaps nothing that was.
LEMMA CompareKeeps == MergeInv /\ Compare => MergeInv'
<1> SUFFICES ASSUME MergeInv, Compare PROVE MergeInv'
  OBVIOUS
<1> USE DEF MergeInv
<1>1. at = "comparing" /\ UNCHANGED <<base, versions, turn, unmatched, matched, changes, text>>
  BY DEF Compare, matching
<1>2. Values' = Values /\ AllChanges' = AllChanges
  BY <1>1, SameChanges
<1>3. Change' = Change
  BY <1>1 DEF Change, Position
<1>4. PICK p \in left :
         /\ left' = left \ {p}
         /\ IF \E d \in accepted : Equivalent(p[2], d) THEN UNCHANGED <<at, accepted>>
            ELSE IF \E d \in accepted : Overlaps(p[2], d)
            THEN at' = "conflicted" /\ UNCHANGED accepted
            ELSE accepted' = accepted \cup {p[2]} /\ UNCHANGED at
  BY Zenon DEF Compare
<1>5. p \in (DOMAIN versions) \X AllChanges /\ p[2] \in AllChanges /\ p = <<p[1], p[2]>>
  BY DEF TypeOK
<1>6. at' \in {"comparing", "conflicted"} /\ accepted' \in {accepted, accepted \cup {p[2]}} /\ left' = left \ {p}
  BY <1>1, <1>4
<1>7. TypeOK'
  <2>1. accepted' \subseteq AllChanges /\ left' \subseteq (DOMAIN versions) \X AllChanges
    BY <1>5, <1>6 DEF TypeOK
  <2> QED BY <1>1, <1>2, <1>3, <1>6, <2>1 DEF TypeOK
<1>8. MatchInv' /\ ApplyInv'
  BY <1>6 DEF MatchInv, ApplyInv
<1>9. ChangesInv'
  BY <1>1, <1>6, SameFaithful DEF ChangesInv
<1>10. CompareInv'
  <2>1. CASE at' = "conflicted"
    BY <2>1 DEF CompareInv
  <2>2. CASE at' = "comparing"
    <3>1. p[2] \in accepted'
      BY <1>4, <2>2 DEF Equivalent
    <3>2. ASSUME NEW v \in DOMAIN versions, NEW c \in changes[versions[v]]
          PROVE  <<v, c>> \in left' \/ c \in accepted'
      <4>1. <<v, c>> \in left \/ c \in accepted
        BY <1>1 DEF CompareInv
      <4>2. CASE <<v, c>> = p
        BY <3>1, <4>2
      <4>3. CASE <<v, c>> # p
        BY <1>6, <4>1, <4>3
      <4> QED BY <4>2, <4>3
    <3>3. \A c, d \in accepted : c # d => ~Overlaps(c, d)
      BY <1>1 DEF CompareInv
    <3>4. ASSUME NEW c \in accepted', NEW d \in accepted', c # d PROVE ~Overlaps(c, d)
      <4>1. CASE accepted' = accepted
        BY <3>3, <3>4, <4>1
      <4>2. CASE accepted' # accepted
        <5>1. accepted' = accepted \cup {p[2]} /\ ~ \E e \in accepted : Overlaps(p[2], e)
          BY <1>4, <4>2
        <5>2. accepted \subseteq AllChanges
          BY DEF TypeOK
        <5>3. \A e \in accepted : ~Overlaps(p[2], e) /\ ~Overlaps(e, p[2])
          BY <1>1, <1>5, <5>1, <5>2, OverlapOpposes
        <5> QED BY <3>3, <3>4, <5>1, <5>3
      <4> QED BY <4>1, <4>2
    <3> QED BY <1>1, <2>2, <3>2, <3>4 DEF CompareInv
  <2> QED BY <1>6, <2>1, <2>2
<1> QED BY <1>7, <1>8, <1>9, <1>10

\* When all were compared, all were accepted and none are opposed.
LEMMA ComparedKeeps == MergeInv /\ Compared => MergeInv'
<1> SUFFICES ASSUME MergeInv, Compared PROVE MergeInv'
  OBVIOUS
<1> USE DEF MergeInv
<1>1. /\ at = "comparing" /\ left = {} /\ at' = "applying" /\ text' = base
      /\ UNCHANGED <<base, versions, turn, unmatched, matched, changes, left, accepted>>
  BY DEF Compared, matching
<1>2. Values' = Values /\ AllChanges' = AllChanges
  BY <1>1, SameChanges
<1>3. Change' = Change
  BY <1>1 DEF Change, Position
<1>4. base \in Seq(Line) /\ Len(base) \in Nat
  BY DEF TypeOK, Text
<1>5. TypeOK'
  BY <1>1, <1>2, <1>3, <1>4 DEF TypeOK
<1>6. MatchInv'
  BY <1>1 DEF MatchInv
<1>7. ChangesInv'
  BY <1>1, SameFaithful DEF ChangesInv
<1>8. AllChanges \subseteq accepted
  <2> SUFFICES ASSUME NEW t \in Values, NEW c \in changes[t] PROVE c \in accepted
    BY DEF AllChanges
  <2>1. PICK v \in DOMAIN versions : versions[v] = t
    BY DEF Values
  <2> QED BY <1>1, <2>1 DEF CompareInv
<1>9. ~Opposed
  <2> SUFFICES ASSUME NEW c \in AllChanges, NEW d \in AllChanges, c # d PROVE About(c) \cap About(d) = {}
    BY DEF Opposed
  <2>1. ~Overlaps(c, d)
    BY <1>1, <1>8 DEF CompareInv
  <2> QED BY <1>1, <2>1, OverlapOpposes
<1>10. CompareInv'
  <2>1. Opposed' = Opposed
    BY <1>2 DEF Opposed, About
  <2> QED BY <1>1, <1>9, <2>1 DEF CompareInv
<1>11. ApplyInv'
  <2>0. PICK m \in 0..(Len(base) + 1) : m = Len(base) + 1
    BY <1>4
  <2>1. base = Upto(m) \o Onward(AllChanges)[m]
    <3>1. Onward(AllChanges)[m] = <<>>
      BY <1>4, <2>0, OnwardStep
    <3>2. Upto(m) = base
      BY <1>4, <2>0 DEF Upto
    <3>3. base \o <<>> = base
      BY <1>4, ConcatEmptySeq
    <3> QED BY <3>1, <3>2, <3>3, Zenon
  <2>2. (\A c \in accepted : c.start < m /\ c.end <= m) /\ AllChanges \ accepted = {} /\ m \in 0..(Len(base) + 1)
    <3>1. accepted \subseteq Change
      BY <1>1, AllAreChanges DEF TypeOK
    <3> QED BY <1>4, <1>8, <2>0, <3>1 DEF Change, Position
  <2>3. (\E n \in 0..(Len(base) + 1) :
            /\ text = Upto(n) \o Onward(AllChanges)[n]
            /\ \A c \in accepted : c.start < n /\ c.end <= n
            /\ \A c \in AllChanges \ accepted : n <= c.start)'
    <3>1. Onward(AllChanges)' = Onward(AllChanges)
      BY <1>1, <1>2, SameOnward
    <3>2. Upto(m)' = Upto(m)
      BY <1>1 DEF Upto
    <3>3. text' = Upto(m) \o Onward(AllChanges)[m]
      BY <1>1, <2>1
    <3>4. text' = Upto(m)' \o Onward(AllChanges)'[m]
      BY <3>1, <3>2, <3>3, Zenon
    <3> QED BY <1>1, <1>2, <2>2, <3>4
  <2>4. ASSUME \A t \in {base} \cup Values : Numerous(t)
        PROVE  /\ Len(base) = Numbered
               /\ \A i \in 1..Numbered : {c \in AllChanges \ accepted : i \in (c.start + 1)..c.end} = {}
    <3>1. base \in Numbering \ {<<>>}
      BY <2>4 DEF Numerous
    <3> QED BY <2>2, <3>1, NumberedText
  <2>5. (\A t \in {base} \cup Values : Numerous(t))' <=> \A t \in {base} \cup Values : Numerous(t)
    BY <1>1, <1>2 DEF Numerous
  <2> QED BY <1>1, <1>2, <2>3, <2>4, <2>5 DEF ApplyInv
<1> QED BY <1>5, <1>6, <1>7, <1>10, <1>11

-----------------------------------------------------------------------------
(* The changes are applied.                                                 *)

\* A stretch of a text that starts with u.
LEMMA StretchOfBoth ==
  ASSUME NEW u \in Seq(Line), NEW r \in Seq(Line), NEW e \in 0..Len(u), NEW a \in 0..Len(u)
  PROVE  /\ SubSeq(u \o r, 1, a) = SubSeq(u, 1, a)
         /\ SubSeq(u \o r, e + 1, Len(u \o r)) = SubSeq(u, e + 1, Len(u)) \o r
<1>1. SubSeq(u \o r, 1, a) = SubSeq(u, 1, a)
  OBVIOUS
<1> DEFINE w == u \o r
           x == SubSeq(w, e + 1, Len(w))
           h == SubSeq(u, e + 1, Len(u))
           y == h \o r
<1>2. w \in Seq(Line) /\ Len(w) = Len(u) + Len(r) /\ \A i \in 1..Len(w) : w[i] = IF i <= Len(u) THEN u[i] ELSE r[i - Len(u)]
  OBVIOUS
<1>3. h \in Seq(Line) /\ Len(h) = Len(u) - e /\ \A i \in 1..(Len(u) - e) : h[i] = u[e + i]
  OBVIOUS
<1>4. x \in Seq(Line) /\ Len(x) = Len(w) - e /\ \A i \in 1..(Len(w) - e) : x[i] = w[e + i]
  <2> HIDE DEF w
  <2>1. e \in 0..Len(w)
    BY <1>2
  <2> QED BY <1>2, <2>1
<1>5. y \in Seq(Line) /\ Len(y) = Len(h) + Len(r) /\ \A i \in 1..Len(y) : y[i] = IF i <= Len(h) THEN h[i] ELSE r[i - Len(h)]
  <2> HIDE DEF w, x, h
  <2>1. h \in Seq(Line)
    BY <1>3
  <2>2. y \in Seq(Line)
    BY <2>1
  <2>3. Len(y) = Len(h) + Len(r)
    BY <2>1
  <2>4. \A i \in 1..(Len(h) + Len(r)) : y[i] = IF i <= Len(h) THEN h[i] ELSE r[i - Len(h)]
    BY <2>1
  <2> HIDE DEF y
  <2> QED BY <2>2, <2>3, <2>4
<1>6. Len(u) \in Nat /\ Len(r) \in Nat
  OBVIOUS
<1> HIDE DEF w, x, h, y
<1>7. ASSUME NEW i \in 1..Len(x) PROVE x[i] = y[i]
  <2>1. i \in 1..(Len(w) - e) /\ i \in 1..Len(y) /\ e + i \in 1..Len(w)
    BY <1>2, <1>3, <1>4, <1>5, <1>6
  <2>2. CASE e + i <= Len(u)
    BY <1>2, <1>3, <1>4, <1>5, <1>6, <2>1, <2>2
  <2>3. CASE e + i > Len(u)
    <3>1. (e + i) - Len(u) = i - Len(h)
      BY <1>3, <1>6, <2>1
    <3>2. x[i] = w[e + i]
      BY <1>4, <2>1
    <3>3. w[e + i] = r[(e + i) - Len(u)]
      BY <1>2, <1>6, <2>1, <2>3
    <3>4. y[i] = r[i - Len(h)]
      BY <1>3, <1>5, <1>6, <2>1, <2>3
    <3> QED BY <3>1, <3>2, <3>3, <3>4, Zenon
  <2> QED BY <1>6, <2>1, <2>2, <2>3
<1>8. Len(x) = Len(y)
  BY <1>2, <1>3, <1>4, <1>5, <1>6
<1>9. x = y
  BY <1>4, <1>5, <1>7, <1>8, SeqEqual
<1> QED BY <1>1, <1>9 DEF w, x, h, y

\* A stretch of a text's beginning.
LEMMA StretchOfStart ==
  ASSUME NEW t \in Seq(Line), NEW n \in 0..Len(t), NEW a \in 0..n, NEW e \in 0..n
  PROVE  /\ SubSeq(t, 1, n) \in Seq(Line) /\ Len(SubSeq(t, 1, n)) = n
         /\ SubSeq(SubSeq(t, 1, n), 1, a) = SubSeq(t, 1, a)
         /\ SubSeq(SubSeq(t, 1, n), e + 1, n) = SubSeq(t, e + 1, n)
<1>1. SubSeq(t, 1, n) \in Seq(Line) /\ Len(SubSeq(t, 1, n)) = n
  OBVIOUS
<1>2. SubSeq(SubSeq(t, 1, n), 1, a) = SubSeq(t, 1, a)
  OBVIOUS
<1>3. SubSeq(SubSeq(t, 1, n), e + 1, n) = SubSeq(t, e + 1, n)
  OBVIOUS
<1> QED BY <1>1, <1>2, <1>3

\* What a change makes of a text.
LEMMA SplicedIs ==
  ASSUME NEW t \in Seq(Line), NEW c, c.start \in 0..Len(t), c.end \in c.start..Len(t),
         c.replacement \in Seq(Line), Len(c.replacement) = c.end - c.start
  PROVE  /\ Len(Spliced(t, c)) = Len(t)
         /\ \A i \in 1..Len(t) : Spliced(t, c)[i] =
               IF i \in (c.start + 1)..c.end THEN c.replacement[i - c.start] ELSE t[i]
<1> DEFINE a == c.start
           e == c.end
           p == c.replacement
<1>0. a \in 0..Len(t) /\ e \in a..Len(t) /\ p \in Seq(Line) /\ Len(p) = e - a
  OBVIOUS
<1> HIDE DEF a, e, p
<1> DEFINE l == SubSeq(t, 1, a)
           r == SubSeq(t, e + 1, Len(t))
<1>1. l \in Seq(Line) /\ Len(l) = a /\ \A i \in 1..a : l[i] = t[i]
  BY <1>0
<1>2. r \in Seq(Line) /\ Len(r) = Len(t) - e /\ \A i \in 1..(Len(t) - e) : r[i] = t[e + i]
  BY <1>0
<1> HIDE DEF l, r
<1> DEFINE k == l \o p
           s == k \o r
<1>3. /\ k \in Seq(Line) /\ Len(k) = e
      /\ \A i \in 1..e : k[i] = IF i <= a THEN l[i] ELSE p[i - a]
  <2>0. l \in Seq(Line) /\ p \in Seq(Line)
    BY <1>0, <1>1
  <2>1. k \in Seq(Line) /\ Len(k) = Len(l) + Len(p)
    BY <2>0
  <2>2. \A i \in 1..(Len(l) + Len(p)) : k[i] = IF i <= Len(l) THEN l[i] ELSE p[i - Len(l)]
    BY <2>0
  <2> HIDE DEF k
  <2>3. Len(l) + Len(p) = e
    BY <1>0, <1>1
  <2> QED BY <1>1, <2>1, <2>2, <2>3
<1> HIDE DEF k
<1>4. /\ Len(s) = Len(t)
      /\ \A i \in 1..Len(t) : s[i] = IF i <= e THEN k[i] ELSE r[i - e]
  <2>0. k \in Seq(Line) /\ r \in Seq(Line)
    BY <1>2, <1>3
  <2>1. Len(s) = Len(k) + Len(r)
    BY <2>0
  <2>2. \A i \in 1..(Len(k) + Len(r)) : s[i] = IF i <= Len(k) THEN k[i] ELSE r[i - Len(k)]
    BY <2>0
  <2> HIDE DEF s
  <2>3. Len(k) + Len(r) = Len(t)
    BY <1>0, <1>2, <1>3
  <2> QED BY <1>3, <2>1, <2>2, <2>3
<1> HIDE DEF s
<1>5. ASSUME NEW i \in 1..Len(t) PROVE s[i] = IF i \in (a + 1)..e THEN p[i - a] ELSE t[i]
  <2>1. CASE i <= a
    <3>1. i \in 1..a /\ i \in 1..e /\ i <= e /\ i \notin (a + 1)..e
      BY <1>0, <2>1
    <3> QED BY <1>1, <1>3, <1>4, <2>1, <3>1
  <2>2. CASE i \in (a + 1)..e
    <3>1. i \in 1..e /\ i <= e /\ ~(i <= a)
      BY <1>0, <2>2
    <3> QED BY <1>3, <1>4, <2>2, <3>1
  <2>3. CASE i > e
    <3>1. ~(i <= e) /\ i \notin (a + 1)..e /\ i - e \in 1..(Len(t) - e) /\ e + (i - e) = i
      BY <1>0, <2>3
    <3>2. r[i - e] = t[e + (i - e)]
      BY <1>2, <3>1
    <3> QED BY <1>4, <3>1, <3>2
  <2>4. i <= a \/ i \in (a + 1)..e \/ i > e
    BY <1>0
  <2> QED BY <2>1, <2>2, <2>3, <2>4
<1>6. Spliced(t, c) = s
  BY Zenon DEF Spliced, s, k, l, r, a, e, p
<1> QED BY <1>4, <1>5, <1>6 DEF a, e, p

\* The last change of those that are left is applied: what comes after its start is as
\* it must be.
LEMMA SplicedOnward ==
  ASSUME base \in Seq(Line), NEW C \in SUBSET Change, Forward(C), Separate(C),
         NEW c \in C, NEW m \in 0..(Len(base) + 1), c.start < m, c.end <= m,
         \A d \in C : d.start <= c.start \/ m <= d.start,
         NEW t, t = Upto(m) \o Onward(C)[m]
  PROVE  /\ Spliced(t, c) = Upto(c.start) \o Onward(C)[c.start]
         /\ Spliced(t, c) \in Seq(Line)
<1> DEFINE u == Upto(m)
           r == Onward(C)[m]
           n == Cap(m)
           a == c.start
           e == c.end
           p == c.replacement
           h == SubSeq(base, e + 1, n)
<1>1. /\ Len(base) \in Nat /\ a \in 0..Len(base) /\ e \in 0..Len(base) /\ a <= e /\ p \in Seq(Line)
  BY DEF Change, Position, Forward
<1>2. n \in 0..Len(base) /\ a \in 0..n /\ e \in 0..n
  BY <1>1 DEF Cap
<1>3. u = SubSeq(base, 1, n)
  BY DEF Upto, Cap
<1>4. r \in Seq(Line)
  BY OnwardType
<1>5. Onward(C)[a] = p \o (h \o r)
  BY OneChange
<1>6. Onward(C)[a] \in Seq(Line)
  <2>1. a \in 0..(Len(base) + 1)
    BY <1>1
  <2> QED BY <2>1, OnwardType
<1>7. Upto(a) = SubSeq(base, 1, a)
  BY <1>1 DEF Upto
<1>8. Spliced(t, c) = SubSeq(u \o r, 1, a) \o p \o SubSeq(u \o r, e + 1, Len(u \o r))
  BY Zenon DEF Spliced
<1> HIDE DEF u, r, n, a, e, p
<1>9. u \in Seq(Line) /\ Len(u) = n /\ SubSeq(u, 1, a) = SubSeq(base, 1, a) /\ SubSeq(u, e + 1, n) = h
  BY <1>2, <1>3, StretchOfStart
<1>10. a \in 0..Len(u) /\ e \in 0..Len(u)
  BY <1>2, <1>9
<1>11. /\ SubSeq(u \o r, 1, a) = SubSeq(u, 1, a)
       /\ SubSeq(u \o r, e + 1, Len(u \o r)) = SubSeq(u, e + 1, Len(u)) \o r
  BY <1>4, <1>9, <1>10, StretchOfBoth
<1>12. Spliced(t, c) = (SubSeq(base, 1, a) \o p) \o (h \o r)
  BY <1>8, <1>9, <1>11, Zenon
<1>13. SubSeq(base, 1, a) \in Seq(Line) /\ h \in Seq(Line)
  <2>1. \A i \in (e + 1)..n : base[i] \in Line
    BY <1>1, <1>2
  <2>2. SubSeq(base, e + 1, n) \in Seq(Line)
    BY <1>1, <1>2, <2>1, SubSeqProperties
  <2>3. SubSeq(base, 1, a) \in Seq(Line)
    BY <1>1
  <2> QED BY <2>2, <2>3
<1> DEFINE l == SubSeq(base, 1, a)
<1>14. Joined(Joined(l, p), Joined(h, r)) = Joined(l, Joined(p, Joined(h, r)))
  <2>1. l \in Seq(Line) /\ h \in Seq(Line)
    BY <1>13
  <2> HIDE DEF l, h
  <2> QED BY <1>1, <1>4, <2>1, JoinedThree
<1>15. (l \o p) \o (h \o r) = l \o (p \o (h \o r))
  BY <1>14, Zenon DEF Joined
<1>16. Spliced(t, c) = Upto(a) \o Onward(C)[a]
  BY <1>5, <1>7, <1>12, <1>15, Zenon
<1>17. Upto(a) \o Onward(C)[a] \in Seq(Line)
  <2>1. Upto(a) \in Seq(Line)
    BY <1>7, <1>13
  <2> QED BY <1>6, <2>1
<1> QED BY <1>16, <1>17 DEF a

\* And a numbered line that the change is about becomes what it says.
LEMMA SplicedLines ==
  ASSUME TypeOK, ChangesInv, at = "applying", \A t \in {base} \cup Values : Numerous(t),
         Len(text) = Numbered, NEW c \in AllChanges
  PROVE  /\ Len(Spliced(text, c)) = Numbered
         /\ \A i \in 1..Numbered :
               Spliced(text, c)[i] = IF i \in (c.start + 1)..c.end THEN c.replacement[i - c.start] ELSE text[i]
<1>1. PICK t \in Values : c \in changes[t]
  BY DEF AllChanges
<1>2. Differing(t, changes[t]) /\ t \in Seq(Line) /\ Len(t) = Numbered /\ Len(base) = Numbered /\ Numbered \in Nat
  <2>1. Differing(t, changes[t])
    BY AllAreChanges DEF Faithful
  <2>2. t \in Numbering \ {<<>>} /\ base \in Numbering \ {<<>>}
    BY DEF Numerous
  <2>3. t \in Seq(Line)
    BY DEF Values, TypeOK, Text
  <2> QED BY <2>1, <2>2, <2>3, NumberedText, LinesAssumption
<1>3. c \in Change
  BY AllAreChanges
<1>4. /\ c.start \in 0..Numbered /\ c.end \in 0..Numbered /\ c.start < c.end
      /\ c.replacement = SubSeq(t, c.start + 1, c.end) /\ c.replacement \in Seq(Line)
  BY <1>1, <1>2, <1>3 DEF Differing, Change, Position
<1>5. Len(c.replacement) = c.end - c.start
  <2> DEFINE a == c.start
             e == c.end
  <2>1. a \in 0..Len(t) /\ e \in 0..Len(t) /\ a < e
    BY <1>2, <1>4
  <2> HIDE DEF a, e
  <2>2. Len(SubSeq(t, a + 1, e)) = e - a
    BY <1>2, <2>1
  <2> QED BY <1>4, <2>2 DEF a, e
<1>6. text \in Seq(Line) /\ c.start \in 0..Len(text) /\ c.end \in c.start..Len(text)
  <2>1. text \in Seq(Line)
    BY DEF TypeOK
  <2>2. c.start \in 0..Numbered /\ c.end \in c.start..Numbered
    BY <1>2, <1>4
  <2> QED BY <2>1, <2>2
<1> QED BY <1>4, <1>5, <1>6, SplicedIs

\* What is applied is in the order of the base.
LEMMA NotOpposed ==
  ASSUME TypeOK, ChangesInv, at = "applying", CompareInv
  PROVE  Separate(AllChanges) /\ AllChanges \in SUBSET Change /\ Forward(AllChanges)
<1>1. AllChanges \in SUBSET Change /\ Forward(AllChanges)
  BY AllAreChanges
<1>2. ASSUME NEW c \in AllChanges, NEW d \in AllChanges, c # d PROVE ~Overlaps(c, d)
  <2>1. About(c) \cap About(d) = {}
    BY <1>2 DEF CompareInv, Opposed
  <2> QED BY <2>1, OverlapOpposes
<1> QED BY <1>1, <1>2 DEF Separate

\* The last change that is left is the next one before what was applied.
LEMMA ApplyKeeps == MergeInv /\ Apply => MergeInv'
<1> SUFFICES ASSUME MergeInv, Apply PROVE MergeInv'
  OBVIOUS
<1> USE DEF MergeInv
<1>1. at = "applying" /\ UNCHANGED <<base, versions, turn, unmatched, matched, changes, left>>
  BY DEF Apply, matching
<1>2. Values' = Values /\ AllChanges' = AllChanges
  BY <1>1, SameChanges
<1>3. Change' = Change
  BY <1>1 DEF Change, Position
<1>4. CASE accepted = {}
  <2>1. at' = "merged" /\ text' = Normal(text) /\ accepted' = {}
    BY <1>4 DEF Apply
  <2>2. text' \in Seq(Line)
    BY <2>1, NormalType DEF TypeOK
  <2>3. TypeOK'
    BY <1>1, <1>2, <1>3, <2>1, <2>2 DEF TypeOK
  <2> QED BY <2>1, <2>3 DEF MatchInv, ChangesInv, CompareInv, ApplyInv
<1>5. CASE accepted # {}
  <2>1. PICK c \in accepted : /\ \A d \in accepted : Later(c, d)
                              /\ text' = Spliced(text, c)
                              /\ accepted' = accepted \ {c}
                              /\ at' = at
    BY <1>5, Zenon DEF Apply
  <2>2. accepted \subseteq AllChanges /\ base \in Seq(Line) /\ Len(base) \in Nat
    BY DEF TypeOK, Text
  <2>3. Separate(AllChanges) /\ AllChanges \in SUBSET Change /\ Forward(AllChanges)
    BY <1>1, NotOpposed
  <2>4. \A d \in AllChanges : d.start \in 0..Len(base) /\ d.end \in 0..Len(base) /\ d.start <= d.end
    BY <2>3 DEF Change, Position, Forward
  <2>5. PICK m \in 0..(Len(base) + 1) :
           /\ text = Upto(m) \o Onward(AllChanges)[m]
           /\ \A d \in accepted : d.start < m /\ d.end <= m
           /\ \A d \in AllChanges \ accepted : m <= d.start
    BY <1>1 DEF ApplyInv
  <2>6. \A d \in accepted : d.start <= c.start
    BY <2>1, <2>2, <2>4 DEF Later
  <2>7. /\ text' = Upto(c.start) \o Onward(AllChanges)[c.start]
        /\ text' \in Seq(Line)
    <3>1. \A d \in AllChanges : d.start <= c.start \/ m <= d.start
      BY <2>5, <2>6
    <3> QED BY <2>1, <2>2, <2>3, <2>5, <3>1, SplicedOnward
  <2>8. ASSUME NEW d \in accepted' PROVE d.start < c.start /\ d.end <= c.start
    <3>1. d \in accepted /\ d # c /\ d \in AllChanges /\ c \in AllChanges
      BY <2>1, <2>2
    <3>2. ~Overlaps(c, d) /\ c \in Change /\ d \in Change
      BY <2>3, <3>1 DEF Separate
    <3>3. (c.start < d.start /\ c.end <= d.start) \/ (d.start < c.start /\ d.end <= c.start)
      BY <2>4, <3>1, <3>2, SeparateMeans
    <3> QED BY <2>4, <2>6, <3>1, <3>3
  <2>9. ASSUME NEW d \in AllChanges \ accepted' PROVE c.start <= d.start
    <3>1. CASE d = c
      BY <2>2, <2>4, <3>1
    <3>2. CASE d # c
      <4>1. m <= d.start /\ c.start < m
        BY <2>1, <2>5, <3>2
      <4> QED BY <2>2, <2>4, <4>1
    <3> QED BY <3>1, <3>2
  <2>10. TypeOK'
    <3>1. accepted' \subseteq AllChanges
      BY <2>1, <2>2
    <3> QED BY <1>1, <1>2, <1>3, <2>1, <2>7, <3>1 DEF TypeOK
  <2>11. MatchInv' /\ ChangesInv'
    BY <1>1, <2>1, SameFaithful DEF MatchInv, ChangesInv
  <2>12. CompareInv'
    <3>1. Opposed' = Opposed
      BY <1>2 DEF Opposed, About
    <3> QED BY <1>1, <2>1, <3>1 DEF CompareInv
  <2>13. (\E n \in 0..(Len(base) + 1) :
             /\ text = Upto(n) \o Onward(AllChanges)[n]
             /\ \A d \in accepted : d.start < n /\ d.end <= n
             /\ \A d \in AllChanges \ accepted : n <= d.start)'
    <3>0. PICK n \in 0..(Len(base) + 1) : n = c.start
      BY <2>2, <2>4
    <3>1. Onward(AllChanges)' = Onward(AllChanges)
      BY <1>1, <1>2, SameOnward
    <3>2. Upto(n)' = Upto(n)
      BY <1>1 DEF Upto
    <3>3. text' = Upto(n) \o Onward(AllChanges)[n]
      BY <2>7, <3>0
    <3>4. text' = Upto(n)' \o Onward(AllChanges)'[n]
      BY <3>1, <3>2, <3>3, Zenon
    <3>5. \A d \in accepted' : d.start < n /\ d.end <= n
      BY <2>8, <3>0
    <3>6. \A d \in AllChanges \ accepted' : n <= d.start
      BY <2>9, <3>0
    <3> QED BY <1>1, <1>2, <3>4, <3>5, <3>6
  <2>14. ASSUME \A t \in {base} \cup Values : Numerous(t)
         PROVE  /\ Len(text') = Numbered
                /\ \A i \in 1..Numbered :
                      LET done == {d \in AllChanges \ accepted' : i \in (d.start + 1)..d.end}
                      IN  /\ \A d \in done : text'[i] = d.replacement[i - d.start]
                          /\ done = {} => text'[i] = base[i]
    <3>1. /\ Len(text) = Numbered
          /\ \A i \in 1..Numbered :
                LET done == {d \in AllChanges \ accepted : i \in (d.start + 1)..d.end}
                IN  /\ \A d \in done : text[i] = d.replacement[i - d.start]
                    /\ done = {} => text[i] = base[i]
      BY <1>1, <2>14 DEF ApplyInv
    <3>2. /\ Len(text') = Numbered
          /\ \A i \in 1..Numbered :
                text'[i] = IF i \in (c.start + 1)..c.end THEN c.replacement[i - c.start] ELSE text[i]
      BY <1>1, <2>1, <2>2, <2>14, <3>1, SplicedLines
    <3>3. ASSUME NEW i \in 1..Numbered, NEW d \in AllChanges \ accepted', i \in (d.start + 1)..d.end
          PROVE  text'[i] = d.replacement[i - d.start]
      <4>1. CASE d = c
        BY <3>2, <3>3, <4>1
      <4>2. CASE d # c
        <5>1. d \in AllChanges \ accepted /\ c \in AllChanges
          BY <2>1, <2>2, <4>2
        <5>2. m <= d.start /\ c.end <= m
          BY <2>5, <5>1
        <5>3. i \notin (c.start + 1)..c.end
          BY <2>4, <3>3, <5>1, <5>2
        <5>4. text[i] = d.replacement[i - d.start]
          BY <3>1, <3>3, <5>1
        <5> QED BY <3>2, <5>3, <5>4
      <4> QED BY <4>1, <4>2
    <3>4. ASSUME NEW i \in 1..Numbered, \A d \in AllChanges \ accepted' : i \notin (d.start + 1)..d.end
          PROVE  text'[i] = base[i]
      <4>1. i \notin (c.start + 1)..c.end
        BY <2>1, <2>2, <3>4
      <4>2. \A d \in AllChanges \ accepted : i \notin (d.start + 1)..d.end
        BY <2>1, <3>4
      <4>3. text[i] = base[i]
        BY <3>1, <4>2
      <4> QED BY <3>2, <4>1, <4>3
    <3> QED BY <3>2, <3>3, <3>4
  <2>15. (\A t \in {base} \cup Values : Numerous(t))' <=> \A t \in {base} \cup Values : Numerous(t)
    BY <1>1, <1>2 DEF Numerous
  <2>16. ApplyInv'
    BY <1>1, <1>2, <2>13, <2>14, <2>15 DEF ApplyInv
  <2> QED BY <2>10, <2>11, <2>12, <2>16
<1> QED BY <1>4, <1>5

\* Steps of nobody change nothing.
LEMMA NothingKeeps == MergeInv /\ UNCHANGED vars => MergeInv'
<1> SUFFICES ASSUME MergeInv, UNCHANGED vars PROVE MergeInv'
  OBVIOUS
<1>1. UNCHANGED <<base, versions, at, turn, unmatched, matched, changes, left, accepted, text>>
  BY DEF vars
<1>2. Values' = Values /\ AllChanges' = AllChanges
  BY <1>1, SameChanges
<1>3. Change' = Change
  BY <1>1 DEF Change, Position
<1>4. TypeOK'
  BY <1>1, <1>2, <1>3 DEF MergeInv, TypeOK
<1>5. MatchInv'
  BY <1>1 DEF MergeInv, MatchInv, Matching, Searching, Above, Complete, Numerous
<1>6. ChangesInv'
  BY <1>1, SameFaithful DEF MergeInv, ChangesInv
<1>7. CompareInv'
  BY <1>1, <1>2 DEF MergeInv, CompareInv, Opposed, About, Overlaps
<1>8. ApplyInv'
  <2>1. Onward(AllChanges)' = Onward(AllChanges)
    BY <1>1, <1>2, SameOnward
  <2>2. \A m : Upto(m)' = Upto(m)
    BY <1>1 DEF Upto
  <2> QED BY <1>1, <1>2, <2>1, <2>2 DEF MergeInv, ApplyInv, Numerous
<1> QED BY <1>4, <1>5, <1>6, <1>7, <1>8 DEF MergeInv

\* What is matched, collected, compared and applied so far is always as it must be.
THEOREM MergeInvHolds == Spec => []MergeInv
<1>1. MergeInv /\ [Next]_vars => MergeInv'
  BY StartKeeps, MatchKeeps, CollectKeeps, CompareKeeps, ComparedKeeps, ApplyKeeps, NothingKeeps
     DEF Next, Returned
<1> QED BY InitMerge, <1>1, PTL DEF Spec

-----------------------------------------------------------------------------
(* What is returned.                                                        *)

\* Put in their places, all the changes make the text.
LEMMA AllApplied ==
  ASSUME MergeInv, at = "applying", accepted = {}
  PROVE  text = Onward(AllChanges)[0]
<1> USE DEF MergeInv
<1>1. base \in Seq(Line) /\ Len(base) \in Nat /\ text \in Seq(Line)
  BY DEF TypeOK, Text
<1>2. AllChanges \in SUBSET Change /\ Forward(AllChanges)
  BY NotOpposed
<1>3. PICK m \in 0..(Len(base) + 1) : /\ text = Upto(m) \o Onward(AllChanges)[m]
                                      /\ \A c \in AllChanges : m <= c.start
  BY DEF ApplyInv
<1>4. \A c \in AllChanges : \A x \in 0..(m - 1) : c.start # x /\ x \notin c.start..(c.end - 1)
  <2>1. \A c \in AllChanges : c.start \in Nat /\ m <= c.start
    BY <1>2, <1>3 DEF Change, Position
  <2> QED BY <2>1
<1>5. Onward(AllChanges)[0] = SubSeq(base, 0 + 1, Cap(m)) \o Onward(AllChanges)[m]
  <2>1. 0 \in 0..m
    OBVIOUS
  <2> QED BY <1>1, <1>2, <1>4, <2>1, StretchStays
<1>6. SubSeq(base, 0 + 1, Cap(m)) = Upto(m)
  BY DEF Upto, Cap
<1> QED BY <1>3, <1>5, <1>6, Zenon

\* Two versions that the base is not give a conflict its two changes.
LEMMA Disagreement ==
  ASSUME TypeOK, ChangesInv, at \in {"comparing", "applying"},
         NEW c \in AllChanges, NEW d \in AllChanges, c # d, Overlaps(c, d)
  PROVE  \E t, u \in Values : /\ c \in changes[t] /\ d \in changes[u]
                              /\ t # u /\ t # base /\ u # base
<1>1. PICK t \in Values : c \in changes[t]
  BY DEF AllChanges
<1>2. PICK u \in Values : d \in changes[u]
  BY DEF AllChanges
<1>3. t # u
  BY <1>1, <1>2, AllAreChanges DEF Separate
<1>4. t # base /\ u # base
  BY <1>1, <1>2, AllAreChanges DEF Faithful
<1> QED BY <1>1, <1>2, <1>3, <1>4

\* A merge that is refused met two changes that overlap.
LEMMA ConflictOpposes ==
  ASSUME MergeInv, Compare, at' = "conflicted"
  PROVE  /\ at = "comparing" /\ UNCHANGED <<base, versions, changes, text>>
         /\ \E c, d \in AllChanges : c # d /\ Overlaps(c, d)
<1>1. PICK p \in left :
         IF \E d \in accepted : Equivalent(p[2], d) THEN at' = at
         ELSE IF \E d \in accepted : Overlaps(p[2], d) THEN TRUE ELSE at' = at
  BY Zenon DEF Compare
<1>2. at = "comparing" /\ UNCHANGED <<base, versions, changes, text>>
  BY DEF Compare
<1>3. PICK d \in accepted : Overlaps(p[2], d)
  BY <1>1, <1>2
<1>4. p[2] # d
  BY <1>1, <1>2, <1>3 DEF Equivalent
<1>5. p[2] \in AllChanges /\ d \in AllChanges
  BY DEF MergeInv, TypeOK
<1> QED BY <1>2, <1>3, <1>4, <1>5

\* A step that returns is the first, the comparison or the last.
LEMMA Returns ==
  ASSUME MergeInv, [Next]_vars, at' \in {"merged", "conflicted"}
  PROVE  \/ UNCHANGED <<base, versions, at, changes, text>>
         \/ /\ at' = "merged" /\ text' = versions[1] /\ UNCHANGED <<base, versions, changes>>
            /\ \A v \in DOMAIN versions : versions[v] = versions[1]
         \/ Compare /\ at' = "conflicted"
         \/ /\ at = "applying" /\ accepted = {} /\ at' = "merged" /\ text' = Normal(text)
            /\ UNCHANGED <<base, versions, changes>>
<1>1. CASE UNCHANGED vars \/ Returned
  BY <1>1 DEF vars, Returned
<1>2. CASE Start
  BY <1>2 DEF Start
<1>3. CASE Match \/ Collect \/ Compared
  BY <1>3 DEF Match, Collect, Compared
<1>4. CASE Compare
  <2>1. at = "comparing" /\ at' \in {at, "conflicted"}
    BY <1>4 DEF Compare
  <2> QED BY <1>4, <2>1
<1>5. CASE Apply
  <2>1. CASE accepted = {}
    BY <1>5, <2>1 DEF Apply
  <2>2. CASE accepted # {}
    BY <1>5, <2>2 DEF Apply
  <2> QED BY <2>1, <2>2
<1> QED BY <1>1, <1>2, <1>3, <1>4, <1>5 DEF Next

\* Versions that agree are one text.
LEMMA FirstIsAll ==
  ASSUME TypeOK, \A v \in DOMAIN versions : versions[v] = versions[1]
  PROVE  Values = {versions[1]} /\ versions[1] \in Text
<1>1. 1 \in DOMAIN versions /\ versions[1] \in Text
  BY DEF TypeOK
<1> QED BY <1>1 DEF Values

\* Whatever the versions and however long, they are merged if and only if no two of
\* them say different things of a line, and then every line is as the version that
\* changed it has it.
THEOREM MergeIsExpected == Spec => []MergesAllOrRefuses
<1>1. Init => MergesAllOrRefuses
  BY DEF Init, MergesAllOrRefuses
<1>2. MergeInv /\ MergesAllOrRefuses /\ [Next]_vars => MergesAllOrRefuses'
  <2> SUFFICES ASSUME MergeInv, MergesAllOrRefuses, [Next]_vars PROVE MergesAllOrRefuses'
    OBVIOUS
  <2> SUFFICES ASSUME at' \in {"merged", "conflicted"} PROVE MergesAllOrRefuses'
    BY DEF MergesAllOrRefuses
  <2>1. CASE UNCHANGED <<base, versions, at, changes, text>>
    <3>1. Values' = Values /\ AllChanges' = AllChanges
      BY <2>1, SameChanges
    <3>2. Onward(AllChanges)' = Onward(AllChanges)
      BY <2>1, <3>1, SameOnward
    <3>3. Expected' = Expected
      BY <3>2 DEF Expected, Normal, Ends
    <3>4. Opposed' = Opposed
      BY <3>1 DEF Opposed, About
    <3> QED BY <2>1, <3>1, <3>3, <3>4 DEF MergesAllOrRefuses
  <2>2. CASE /\ at' = "merged" /\ text' = versions[1] /\ UNCHANGED <<base, versions, changes>>
             /\ \A v \in DOMAIN versions : versions[v] = versions[1]
    <3>1. Values' = {text'}
      BY <2>2, FirstIsAll DEF MergeInv, Values
    <3> QED BY <2>2, <3>1 DEF MergesAllOrRefuses
  <2>3. CASE Compare /\ at' = "conflicted"
    <3>1. at = "comparing" /\ UNCHANGED <<base, versions, changes, text>>
      BY <2>3, ConflictOpposes
    <3>2. PICK c, d \in AllChanges : c # d /\ Overlaps(c, d)
      BY <2>3, ConflictOpposes
    <3>3. \E v, w \in Values : v # w
      BY <3>1, <3>2, Disagreement DEF MergeInv
    <3>4. Opposed
      BY <3>1, <3>2, OverlapOpposes DEF MergeInv, Opposed
    <3>5. Values' = Values /\ AllChanges' = AllChanges
      BY <3>1, SameChanges
    <3>6. Opposed'
      BY <3>4, <3>5 DEF Opposed, About
    <3> QED BY <2>3, <3>3, <3>5, <3>6 DEF MergesAllOrRefuses
  <2>4. CASE /\ at = "applying" /\ accepted = {} /\ at' = "merged" /\ text' = Normal(text)
             /\ UNCHANGED <<base, versions, changes>>
    <3>1. Values' = Values /\ AllChanges' = AllChanges
      BY <2>4, SameChanges
    <3>2. Onward(AllChanges)' = Onward(AllChanges)
      BY <2>4, <3>1, SameOnward
    <3>3. text' = Expected
      BY <2>4, AllApplied DEF Expected
    <3>4. Expected' = Expected
      BY <3>2 DEF Expected, Normal, Ends
    <3>5. ~Opposed /\ Opposed' = Opposed
      BY <2>4, <3>1 DEF MergeInv, CompareInv, Opposed, About
    <3> QED BY <2>4, <3>3, <3>4, <3>5 DEF MergesAllOrRefuses
  <2> QED BY <2>1, <2>2, <2>3, <2>4, Returns
<1> QED BY <1>1, <1>2, MergeInvHolds, PTL DEF Spec

\* When all versions but one are the base, its changes are all there are.
LEMMA LoneChanges ==
  ASSUME MergeInv, at \in {"comparing", "applying"}, NEW t \in Values, Values \subseteq {base, t}
  PROVE  AllChanges = changes[t] /\ Onward(AllChanges)[0] = t
<1>1. \A u \in Values : Faithful(u, changes[u])
  BY AllAreChanges DEF MergeInv
<1>2. AllChanges = changes[t]
  <2>1. \A u \in Values : u # t => changes[u] = {}
    BY <1>1 DEF Faithful
  <2> QED BY <2>1 DEF AllChanges
<1> QED BY <1>1, <1>2 DEF Faithful

\* One version that was changed alone is the merge, and never a conflict.
THEOREM LoneEdits == Spec => []LoneEditIsKept
<1>1. Init => LoneEditIsKept
  BY DEF Init, LoneEditIsKept
<1>2. MergeInv /\ LoneEditIsKept /\ [Next]_vars => LoneEditIsKept'
  <2> SUFFICES ASSUME MergeInv, LoneEditIsKept, [Next]_vars, at' \in {"merged", "conflicted"}
               PROVE  LoneEditIsKept'
    BY DEF LoneEditIsKept
  <2>0. Values' = Values \/ versions' # versions
    BY DEF Values
  <2>1. CASE UNCHANGED <<base, versions, at, changes, text>>
    BY <2>0, <2>1 DEF LoneEditIsKept
  <2>2. CASE /\ at' = "merged" /\ text' = versions[1] /\ UNCHANGED <<base, versions, changes>>
             /\ \A v \in DOMAIN versions : versions[v] = versions[1]
    <3>1. Values' = {text'}
      BY <2>0, <2>2, FirstIsAll DEF MergeInv
    <3> QED BY <2>2, <3>1 DEF LoneEditIsKept
  <2>3. CASE Compare /\ at' = "conflicted"
    <3>1. at = "comparing" /\ UNCHANGED <<base, versions, changes, text>>
      BY <2>3, ConflictOpposes
    <3>2. PICK c, d \in AllChanges : c # d /\ Overlaps(c, d)
      BY <2>3, ConflictOpposes
    <3>3. PICK t, u \in Values : t # u /\ t # base /\ u # base
      BY <3>1, <3>2, Disagreement DEF MergeInv
    <3>4. \A v \in Values : ~(Values \subseteq {base, v})
      BY <3>3
    <3> QED BY <2>0, <3>1, <3>4 DEF LoneEditIsKept
  <2>4. CASE /\ at = "applying" /\ accepted = {} /\ at' = "merged" /\ text' = Normal(text)
             /\ UNCHANGED <<base, versions, changes>>
    <3>1. ASSUME NEW v \in Values, Values \subseteq {base, v} PROVE text' = v
      <4>1. text = v
        BY <2>4, <3>1, AllApplied, LoneChanges
      <4>2. v \in Seq(Line) /\ Ends(v, Len(v))
        BY DEF MergeInv, TypeOK, Values, Text
      <4> QED BY <2>4, <4>1, <4>2, NormalIsSame
    <3> QED BY <2>0, <2>4, <3>1 DEF LoneEditIsKept
  <2> QED BY <2>1, <2>2, <2>3, <2>4, Returns
<1> QED BY <1>1, <1>2, MergeInvHolds, PTL DEF Spec

-----------------------------------------------------------------------------
(* Markdown's merge is this merge.                                          *)

\* A text is empty in both, or in neither.
LEMMA PlainIs ==
  ASSUME NEW t \in Numbering
  PROVE  /\ t = <<>> => Plain(t) = M!Empty
         /\ t # <<>> => /\ Plain(t) # M!Empty
                        /\ Plain(t) = [i \in 1..Numbered |-> [edit |-> t[i][2], form |-> "plain"]]
<1>1. t # <<>> => Plain(t) = [i \in 1..Numbered |-> [edit |-> t[i][2], form |-> "plain"]]
  BY DEF Plain
<1>2. ASSUME t # <<>> PROVE Plain(t) # M!Empty
  <2>1. DOMAIN Plain(t) = 1..Numbered
    BY <1>1, <1>2
  <2>2. 1 \in 1..Numbered
    BY LinesAssumption
  <2>3. DOMAIN M!Empty = {}
    BY DEF M!Empty
  <2> QED BY <2>1, <2>2, <2>3
<1> QED BY <1>1, <1>2 DEF Plain

\* Lines are the same in both.
LEMMA PlainLines ==
  ASSUME NEW t \in Numbering \ {<<>>}, NEW u \in Numbering \ {<<>>}, NEW i \in 1..Numbered
  PROVE  Plain(t)[i] = Plain(u)[i] <=> t[i] = u[i]
<1>1. t[i] = <<i, t[i][2]>> /\ u[i] = <<i, u[i][2]>>
  BY NumberedText
<1>2. Plain(t)[i] = [edit |-> t[i][2], form |-> "plain"] /\ Plain(u)[i] = [edit |-> u[i][2], form |-> "plain"]
  BY PlainIs
<1>3. Plain(t)[i] = Plain(u)[i] <=> t[i][2] = u[i][2]
  BY <1>2
<1> QED BY <1>1, <1>3

\* So are texts.
LEMMA PlainSame ==
  ASSUME NEW t \in Numbering, NEW u \in Numbering
  PROVE  Plain(t) = Plain(u) <=> t = u
<1> SUFFICES ASSUME Plain(t) = Plain(u) PROVE t = u
  OBVIOUS
<1>1. CASE t = <<>> \/ u = <<>>
  BY <1>1, PlainIs
<1>2. CASE t # <<>> /\ u # <<>>
  <2>1. /\ t \in Seq((1..Numbered) \X Edits) /\ Len(t) = Numbered
        /\ u \in Seq((1..Numbered) \X Edits) /\ Len(u) = Numbered
    BY <1>2, NumberedText
  <2>2. \A i \in 1..Numbered : t[i] = u[i]
    BY <1>2, PlainLines
  <2> QED BY <2>1, <2>2, SeqEqual
<1> QED BY <1>1, <1>2

\* Of two intervals that share a number, one that starts sooner holds the number
\* before the other, and one that ends later the number after it.
LEMMA OverTheEdge ==
  ASSUME NEW x \in Nat, NEW y \in Nat, NEW u \in Nat, NEW v \in Nat,
         NEW i \in Nat, x <= i, i <= y, u <= i, i <= v
  PROVE  /\ x < u => u - 1 \in x..y /\ u - 1 \notin u..v /\ (u - 1) + 1 \in u..v
         /\ v < y => v + 1 \in x..y /\ v + 1 \notin u..v /\ (v + 1) - 1 \in u..v
OBVIOUS

\* Chunks that share a line are one.
LEMMA OneChunk ==
  ASSUME NEW b, NEW c, NEW r \in M!Changes(b, c), NEW s \in M!Changes(b, c), NEW i \in r \cap s
  PROVE  r = s
<1>1. PICK x, y \in M!Lines : r = x..y
  BY DEF M!Changes
<1>2. PICK u, v \in M!Lines : s = u..v
  BY DEF M!Changes
<1>3. /\ \A k \in r : c[k] # b[k]
      /\ \A k \in M!Lines \ r : (k - 1 \in r \/ k + 1 \in r) => c[k] = b[k]
      /\ \A k \in s : c[k] # b[k]
      /\ \A k \in M!Lines \ s : (k - 1 \in s \/ k + 1 \in s) => c[k] = b[k]
  BY DEF M!Changes
<1>4. M!Lines = 1..Numbered /\ Numbered \in Nat
  BY LinesAssumption DEF M!Lines
<1>5. i \in x..y /\ i \in u..v /\ x \in Nat /\ y \in Nat /\ u \in Nat /\ v \in Nat
      /\ x..y \subseteq 1..Numbered /\ u..v \subseteq 1..Numbered
  BY <1>1, <1>2, <1>4
<1>0. i \in Nat /\ x <= i /\ i <= y /\ u <= i /\ i <= v
  BY <1>5
<1>6. ~(x < u)
  <2> SUFFICES ASSUME x < u PROVE FALSE
    OBVIOUS
  <2>1. u - 1 \in x..y /\ u - 1 \notin u..v /\ (u - 1) + 1 \in u..v /\ u - 1 \in 1..Numbered
    BY <1>0, <1>5, OverTheEdge
  <2> QED BY <1>1, <1>2, <1>3, <1>4, <2>1
<1>7. ~(u < x)
  <2> SUFFICES ASSUME u < x PROVE FALSE
    OBVIOUS
  <2>1. x - 1 \in u..v /\ x - 1 \notin x..y /\ (x - 1) + 1 \in x..y /\ x - 1 \in 1..Numbered
    BY <1>0, <1>5, OverTheEdge
  <2> QED BY <1>1, <1>2, <1>3, <1>4, <2>1
<1>8. ~(y < v)
  <2> SUFFICES ASSUME y < v PROVE FALSE
    OBVIOUS
  <2>1. y + 1 \in u..v /\ y + 1 \notin x..y /\ (y + 1) - 1 \in x..y /\ y + 1 \in 1..Numbered
    BY <1>0, <1>5, OverTheEdge
  <2> QED BY <1>1, <1>2, <1>3, <1>4, <2>1
<1>9. ~(v < y)
  <2> SUFFICES ASSUME v < y PROVE FALSE
    OBVIOUS
  <2>1. v + 1 \in x..y /\ v + 1 \notin u..v /\ (v + 1) - 1 \in u..v /\ v + 1 \in 1..Numbered
    BY <1>0, <1>5, OverTheEdge
  <2> QED BY <1>1, <1>2, <1>3, <1>4, <2>1
<1>10. x = u /\ y = v
  BY <1>5, <1>6, <1>7, <1>8, <1>9
<1> QED BY <1>1, <1>2, <1>10

\* A version is no conflict with itself.
LEMMA NoSelfOverlap ==
  ASSUME NEW b, NEW c
  PROVE  ~M!Overlap(b, c, c)
<1>1. ASSUME NEW r \in M!Changes(b, c), NEW s \in M!Changes(b, c) PROVE ~M!Clash(c, r, c, s)
  <2>1. CASE r \cap s = {}
    BY <2>1 DEF M!Clash
  <2>2. CASE r \cap s # {}
    <3>1. r = s
      BY <2>2, OneChunk
    <3> QED BY <3>1 DEF M!Clash
  <2> QED BY <2>1, <2>2
<1> QED BY <1>1 DEF M!Overlap

\* The lines a change replaces, counted from 1.
Run(c) == (c.start + 1)..c.end

\* The lines of a change are a chunk.
LEMMA RunIsChunk ==
  ASSUME NEW t, base \in Numbering \ {<<>>}, t \in Numbering \ {<<>>},
         NEW C \in SUBSET Change, Differing(t, C), Apart(C), NEW c \in C
  PROVE  Run(c) \in M!Changes(Plain(base), Plain(t))
<1>1. M!Lines = 1..Numbered /\ Numbered \in Nat /\ Len(base) = Numbered
  BY NumberedText, LinesAssumption DEF M!Lines
<1>2. \A d \in C : d.start \in 0..Numbered /\ d.end \in 0..Numbered /\ d.start < d.end
  BY <1>1 DEF Change, Position, Differing
<1>3. \A i \in 1..Numbered : t[i] # base[i] <=> \E d \in C : i \in (d.start + 1)..d.end
  BY DEF Differing
<1>4. \A i \in 1..Numbered : Plain(t)[i] = Plain(base)[i] <=> t[i] = base[i]
  BY PlainLines
<1> DEFINE r == (c.start + 1)..c.end
<1>5. r \in {a..b : a, b \in M!Lines} /\ r # {} /\ r \subseteq 1..Numbered
  <2>1. c.start + 1 \in M!Lines /\ c.end \in M!Lines /\ c.start + 1 <= c.end
    BY <1>1, <1>2
  <2>2. c.end \in r /\ r \subseteq 1..Numbered
    BY <1>1, <1>2
  <2> QED BY <2>1, <2>2
<1>6. \A i \in r : Plain(t)[i] # Plain(base)[i]
  BY <1>3, <1>4, <1>5
<1>7. ASSUME NEW i \in M!Lines \ r, i - 1 \in r \/ i + 1 \in r PROVE Plain(t)[i] = Plain(base)[i]
  <2>1. i \in 1..Numbered /\ (i = c.end + 1 \/ i = c.start)
    BY <1>1, <1>2, <1>7
  <2>2. ASSUME NEW d \in C, i \in (d.start + 1)..d.end PROVE FALSE
    <3>1. d # c
      BY <1>7, <2>2
    <3>2. c.end < d.start \/ d.end < c.start
      BY <3>1 DEF Apart
    <3> QED BY <1>2, <2>1, <2>2, <3>2
  <2> QED BY <1>3, <1>4, <2>1, <2>2
<1> HIDE DEF r
<1>8. r \in M!Changes(Plain(base), Plain(t))
  BY <1>5, <1>6, <1>7 DEF M!Changes
<1> QED BY <1>8 DEF r, Run

\* A line of the base, counted from 1 here and from 0 there.
LEMMA RunIsAbout ==
  ASSUME NEW c \in Change, c.start < c.end, base \in Seq(Line)
  PROVE  /\ Run(c) \subseteq 1..Len(base)
         /\ \A i \in 1..Len(base) : i \in Run(c) <=> i - 1 \in About(c)
         /\ \A j \in About(c) : j + 1 \in Run(c)
<1>1. c.start \in Nat /\ c.end \in Nat /\ c.end <= Len(base) /\ Len(base) \in Nat
  BY DEF Change, Position
<1>2. About(c) = c.start..(c.end - 1)
  BY <1>1 DEF About
<1> QED BY <1>1, <1>2 DEF Run

\* Two changes are about one line when a line is in the run of both.
LEMMA RunsMeet ==
  ASSUME NEW c \in Change, NEW d \in Change, c.start < c.end, d.start < d.end, base \in Seq(Line)
  PROVE  About(c) \cap About(d) # {} <=> Run(c) \cap Run(d) # {}
<1>1. ASSUME NEW j \in About(c) \cap About(d) PROVE j + 1 \in Run(c) \cap Run(d)
  BY RunIsAbout
<1>2. ASSUME NEW i \in Run(c) \cap Run(d) PROVE i - 1 \in About(c) \cap About(d)
  <2>1. i \in 1..Len(base)
    BY RunIsAbout
  <2> QED BY <2>1, RunIsAbout
<1> QED BY <1>1, <1>2

\* Numbered texts are texts.
LEMMA NumberingIsSeq ==
  ASSUME NEW t \in Numbering
  PROVE  t \in Seq(Line)
<1>1. CASE t = <<>>
  BY <1>1
<1>2. CASE t # <<>>
  <2>1. t \in Seq((1..Numbered) \X Edits) /\ (1..Numbered) \X Edits \subseteq Line
    BY <1>2, NumberedText DEF Line
  <2> QED BY <2>1
<1> QED BY <1>1, <1>2

\* A chunk is the run of a change.
LEMMA ChunkIsRun ==
  ASSUME base \in Numbering \ {<<>>}, NEW t \in Numbering \ {<<>>},
         NEW C \in SUBSET Change, Differing(t, C), Apart(C),
         NEW r \in M!Changes(Plain(base), Plain(t)), NEW i \in r
  PROVE  \E c \in C : r = Run(c)
<1>0. PICK a, b \in M!Lines : r = a..b
  BY DEF M!Changes
<1>1. i \in 1..Numbered /\ Plain(t)[i] # Plain(base)[i]
  <2>1. \A k \in r : Plain(t)[k] # Plain(base)[k]
    BY DEF M!Changes
  <2>2. i \in 1..Numbered
    BY <1>0, LinesAssumption DEF M!Lines
  <2> QED BY <2>1, <2>2
<1>2. t[i] # base[i]
  BY <1>1, PlainLines
<1>3. PICK c \in C : i \in Run(c)
  BY <1>1, <1>2 DEF Differing, Run
<1>4. Run(c) \in M!Changes(Plain(base), Plain(t))
  BY RunIsChunk
<1> QED BY <1>3, <1>4, OneChunk

\* The lines that a change puts in the place of its run.
LEMMA RunLines ==
  ASSUME base \in Numbering \ {<<>>}, NEW t \in Numbering \ {<<>>},
         NEW C \in SUBSET Change, Differing(t, C), NEW c \in C
  PROVE  /\ c = [start |-> c.start, end |-> c.end, replacement |-> SubSeq(t, c.start + 1, c.end)]
         /\ c.start \in Nat /\ c.end \in 1..Numbered /\ c.start < c.end
         /\ Len(c.replacement) = c.end - c.start
         /\ \A i \in Run(c) : i \in 1..Numbered /\ i - c.start \in 1..(c.end - c.start)
                              /\ c.replacement[i - c.start] = t[i]
<1>1. t \in Seq(Line) /\ Len(t) = Numbered /\ Len(base) = Numbered /\ Numbered \in Nat
  BY NumberedText, NumberingIsSeq, LinesAssumption
<1>2. c.start \in Nat /\ c.end \in 1..Numbered /\ c.start < c.end
  BY <1>1 DEF Change, Position, Differing
<1>3. c.replacement = SubSeq(t, c.start + 1, c.end)
  BY DEF Differing
<1>4. c = [start |-> c.start, end |-> c.end, replacement |-> c.replacement]
  BY DEF Change
<1>5. /\ Len(SubSeq(t, c.start + 1, c.end)) = c.end - c.start
      /\ \A k \in 1..(c.end - c.start) : SubSeq(t, c.start + 1, c.end)[k] = t[c.start + k]
  <2>1. c.start + 1 \in 1..(Len(t) + 1) /\ c.end \in (c.start + 1) - 1..Len(t)
    BY <1>1, <1>2
  <2>2. \A k \in (c.start + 1)..c.end : t[k] \in Line
    BY <1>1, <1>2
  <2> DEFINE a == c.start + 1
             n == c.end
  <2>3. /\ a \in 1..(Len(t) + 1) /\ n \in (a - 1)..Len(t) /\ a \in Nat
        /\ n - a + 1 = c.end - c.start /\ \A k \in 1..(c.end - c.start) : a + k - 1 = c.start + k
    BY <1>1, <1>2
  <2> HIDE DEF a, n
  <2>4. Len(SubSeq(t, a, n)) = n - a + 1
    BY <1>1, <2>3, SubSeqProperties
  <2>5. \A k \in 1..(n - a + 1) : SubSeq(t, a, n)[k] = t[a + k - 1]
    BY <1>1, <2>3, SubSeqProperties
  <2> QED BY <2>3, <2>4, <2>5 DEF a, n
<1>6. \A i \in Run(c) : i \in 1..Numbered /\ i - c.start \in 1..(c.end - c.start) /\ c.start + (i - c.start) = i
  BY <1>1, <1>2 DEF Run
<1> QED BY <1>2, <1>3, <1>4, <1>5, <1>6

\* Changes of the same run that put the same lines there are one change.
LEMMA SameRun ==
  ASSUME base \in Numbering \ {<<>>}, NEW t \in Numbering \ {<<>>}, NEW u \in Numbering \ {<<>>},
         NEW C \in SUBSET Change, Differing(t, C), NEW c \in C,
         NEW D \in SUBSET Change, Differing(u, D), NEW d \in D,
         Run(c) = Run(d), \A i \in Run(c) : t[i] = u[i]
  PROVE  c = d
<1>1. /\ c.start \in Nat /\ c.end \in Nat /\ c.start < c.end
      /\ d.start \in Nat /\ d.end \in Nat /\ d.start < d.end
  BY RunLines
<1>2. c.start = d.start /\ c.end = d.end
  <2>1. c.start + 1 \in Run(d) /\ c.end \in Run(d) /\ d.start + 1 \in Run(c) /\ d.end \in Run(c)
    BY <1>1 DEF Run
  <2> QED BY <1>1, <2>1 DEF Run
<1>3. \A k \in 1..(c.end - c.start) : c.replacement[k] = d.replacement[k]
  <2> SUFFICES ASSUME NEW k \in 1..(c.end - c.start) PROVE c.replacement[k] = d.replacement[k]
    OBVIOUS
  <2>1. c.start + k \in Run(c) /\ (c.start + k) - c.start = k /\ (c.start + k) - d.start = k
    BY <1>1, <1>2 DEF Run
  <2>2. c.replacement[(c.start + k) - c.start] = t[c.start + k]
    BY <2>1, RunLines
  <2>3. d.replacement[(c.start + k) - d.start] = u[c.start + k]
    BY <2>1, RunLines
  <2>4. t[c.start + k] = u[c.start + k]
    BY <2>1
  <2> QED BY <2>1, <2>2, <2>3, <2>4
<1>4. c.replacement = d.replacement
  <2>1. c.replacement \in Seq(Line) /\ d.replacement \in Seq(Line)
    BY DEF Change
  <2>2. Len(c.replacement) = c.end - c.start /\ Len(d.replacement) = c.end - c.start
    BY <1>2, RunLines
  <2> QED BY <1>3, <2>1, <2>2, SeqEqual
<1> QED BY <1>2, <1>4 DEF Change

\* Versions with lines overlap when a change of one and another of the other are
\* about the same line.
LEMMA NumberedOverlap ==
  ASSUME base \in Numbering \ {<<>>}, NEW t \in Numbering \ {<<>>}, NEW u \in Numbering \ {<<>>},
         NEW C \in SUBSET Change, Faithful(t, C), NEW D \in SUBSET Change, Faithful(u, D)
  PROVE  M!Overlap(Plain(base), Plain(t), Plain(u))
            <=> \E c \in C, d \in D : c # d /\ About(c) \cap About(d) # {}
<1>1. Differing(t, C) /\ Apart(C) /\ Differing(u, D) /\ Apart(D)
  BY DEF Faithful, Numerous
<1>2. M!Empty \notin {Plain(base), Plain(t), Plain(u)}
  BY PlainIs
<1>3. base \in Seq(Line)
  BY NumberingIsSeq
<1>4. (\A c \in C : c.start < c.end) /\ \A d \in D : d.start < d.end
  BY <1>1 DEF Differing
<1>5. ASSUME NEW r \in M!Changes(Plain(base), Plain(t)), NEW s \in M!Changes(Plain(base), Plain(u)),
             M!Clash(Plain(t), r, Plain(u), s)
      PROVE  \E c \in C, d \in D : c # d /\ About(c) \cap About(d) # {}
  <2>1. PICK i : i \in r \cap s
    BY <1>5 DEF M!Clash
  <2>2. PICK c \in C : r = Run(c)
    BY <1>1, <2>1, ChunkIsRun
  <2>3. PICK d \in D : s = Run(d)
    BY <1>1, <2>1, ChunkIsRun
  <2>4. About(c) \cap About(d) # {}
    BY <1>3, <1>4, <2>1, <2>2, <2>3, RunsMeet
  <2>5. ASSUME c = d PROVE FALSE
    <3>1. \A k \in r : Plain(t)[k] = Plain(u)[k]
      <4> SUFFICES ASSUME NEW k \in r PROVE Plain(t)[k] = Plain(u)[k]
        OBVIOUS
      <4>1. k \in 1..Numbered /\ c.replacement[k - c.start] = t[k]
        BY <1>1, <2>2, RunLines
      <4>2. c.replacement[k - c.start] = u[k]
        BY <1>1, <2>3, <2>5, <2>2, RunLines
      <4>3. t[k] = u[k]
        BY <4>1, <4>2
      <4> QED BY <4>1, <4>3, PlainLines
    <3> QED BY <1>5, <2>2, <2>3, <2>5, <3>1 DEF M!Clash
  <2> QED BY <2>4, <2>5
<1>6. ASSUME NEW c \in C, NEW d \in D, c # d, About(c) \cap About(d) # {}
      PROVE  /\ Run(c) \in M!Changes(Plain(base), Plain(t)) /\ Run(d) \in M!Changes(Plain(base), Plain(u))
             /\ M!Clash(Plain(t), Run(c), Plain(u), Run(d))
  <2>1. Run(c) \cap Run(d) # {}
    BY <1>3, <1>4, <1>6, RunsMeet
  <2>2. ASSUME Run(c) = Run(d), \A i \in Run(c) : Plain(t)[i] = Plain(u)[i] PROVE FALSE
    <3>1. \A i \in Run(c) : t[i] = u[i]
      <4> SUFFICES ASSUME NEW i \in Run(c) PROVE t[i] = u[i]
        OBVIOUS
      <4>1. i \in 1..Numbered
        BY <1>1, RunLines
      <4> QED BY <2>2, <4>1, PlainLines
    <3>2. c = d
      BY <1>1, <2>2, <3>1, SameRun
    <3> QED BY <1>6, <3>2
  <2>3. M!Clash(Plain(t), Run(c), Plain(u), Run(d))
    BY <2>1, <2>2 DEF M!Clash
  <2> QED BY <1>1, <2>3, RunIsChunk
<1>7. M!Overlap(Plain(base), Plain(t), Plain(u))
         <=> \E r \in M!Changes(Plain(base), Plain(t)), s \in M!Changes(Plain(base), Plain(u)) :
                M!Clash(Plain(t), r, Plain(u), s)
  BY <1>2 DEF M!Overlap
<1> QED BY <1>5, <1>6, <1>7

\* The change to nothing at all meets a change of any other version.
LEMMA NothingLeft ==
  ASSUME base \in Numbering \ {<<>>}, NEW u \in Numbering \ {<<>>}, u # base,
         NEW D \in SUBSET Change, Faithful(u, D),
         NEW c, c = [start |-> 0, end |-> Len(base), replacement |-> <<>>]
  PROVE  \E d \in D : c # d /\ About(c) \cap About(d) # {}
<1>1. Differing(u, D)
  BY DEF Faithful, Numerous
<1>2. base \in Seq(Line) /\ u \in Seq(Line) /\ Len(base) = Numbered /\ Len(u) = Numbered /\ Numbered \in Nat \ {0}
  BY NumberedText, NumberingIsSeq, LinesAssumption
<1>3. PICK i \in 1..Numbered : u[i] # base[i]
  <2>1. ASSUME \A k \in 1..Numbered : u[k] = base[k] PROVE FALSE
    <3>1. u = base
      BY <1>2, <2>1, SeqEqual
    <3> QED BY <3>1
  <2> QED BY <2>1
<1>4. PICK d \in D : i \in Run(d)
  BY <1>1, <1>3 DEF Differing, Run
<1>5. d \in Change /\ d.start < d.end /\ d.start \in Nat /\ d.end \in 1..Numbered
      /\ Len(d.replacement) = d.end - d.start
  BY <1>1, RunLines
<1>6. Len(d.replacement) # 0
  BY <1>5
<1>7. c # d
  <2>1. c.replacement = <<>>
    OBVIOUS
  <2>2. Len(<<>>) = 0
    OBVIOUS
  <2> QED BY <1>6, <2>1, <2>2
<1>8. i - 1 \in About(d)
  BY <1>2, <1>3, <1>4, <1>5, RunIsAbout
<1>9. i - 1 \in About(c)
  <2>1. c.start = 0 /\ c.end = Numbered
    BY <1>2
  <2> QED BY <1>2, <1>3, <2>1 DEF About
<1> QED BY <1>7, <1>8, <1>9

\* Versions one of which, or the base, is empty.
LEMMA EmptyOverlap ==
  ASSUME base \in Numbering, NEW t \in Numbering \ {base}, NEW u \in Numbering \ {base},
         <<>> \in {base, t, u},
         NEW C \in SUBSET Change, Faithful(t, C), NEW D \in SUBSET Change, Faithful(u, D),
         t = u => C = D
  PROVE  t # u <=> \E c \in C, d \in D : c # d /\ About(c) \cap About(d) # {}
<1>1. CASE t = u
  <2>1. <<>> \in {t, base}
    BY <1>1
  <2>2. C = {[start |-> 0, end |-> Len(base), replacement |-> t]}
    BY <2>1 DEF Faithful
  <2> QED BY <1>1, <2>2
<1>2. CASE t # u /\ base = <<>>
  <2> DEFINE c == [start |-> 0, end |-> Len(base), replacement |-> t]
             d == [start |-> 0, end |-> Len(base), replacement |-> u]
  <2>1. C = {c} /\ D = {d}
    BY <1>2 DEF Faithful
  <2>2. c # d
    <3>1. c.replacement = t /\ d.replacement = u
      OBVIOUS
    <3> QED BY <1>2, <3>1
  <2>3. c.start = 0 /\ c.end = 0 /\ d.start = 0 /\ d.end = 0
    BY <1>2
  <2>4. 0 \in About(c) \cap About(d)
    BY <2>3 DEF About
  <2> HIDE DEF c, d
  <2> QED BY <1>2, <2>1, <2>2, <2>4
<1>3. CASE t # u /\ base # <<>> /\ t = <<>>
  <2>1. C = {[start |-> 0, end |-> Len(base), replacement |-> <<>>]}
    BY <1>3 DEF Faithful
  <2>2. PICK c \in C : c = [start |-> 0, end |-> Len(base), replacement |-> <<>>]
    BY <2>1
  <2>3. \E d \in D : c # d /\ About(c) \cap About(d) # {}
    BY <1>3, <2>2, NothingLeft
  <2> QED BY <1>3, <2>3
<1>4. CASE t # u /\ base # <<>> /\ u = <<>>
  <2>1. D = {[start |-> 0, end |-> Len(base), replacement |-> <<>>]}
    BY <1>4 DEF Faithful
  <2>2. PICK d \in D : d = [start |-> 0, end |-> Len(base), replacement |-> <<>>]
    BY <2>1
  <2>3. \E c \in C : d # c /\ About(d) \cap About(c) # {}
    BY <1>4, <2>2, NothingLeft
  <2> QED BY <1>4, <2>3
<1> QED BY <1>1, <1>2, <1>3, <1>4

\* In Markdown's sense two versions overlap when two of their changes are about the
\* same line.
LEMMA SameOverlap ==
  ASSUME base \in Numbering, NEW t \in Numbering \ {base}, NEW u \in Numbering \ {base},
         NEW C \in SUBSET Change, Faithful(t, C), NEW D \in SUBSET Change, Faithful(u, D),
         t = u => C = D
  PROVE  M!Overlap(Plain(base), Plain(t), Plain(u))
            <=> \E c \in C, d \in D : c # d /\ About(c) \cap About(d) # {}
<1>1. CASE <<>> \in {base, t, u}
  <2>1. M!Empty \in {Plain(base), Plain(t), Plain(u)}
    BY <1>1, PlainIs
  <2>2. M!Overlap(Plain(base), Plain(t), Plain(u)) <=> Plain(t) # Plain(u)
    BY <2>1 DEF M!Overlap
  <2>3. Plain(t) # Plain(u) <=> t # u
    BY PlainSame
  <2> QED BY <1>1, <2>2, <2>3, EmptyOverlap
<1>2. CASE <<>> \notin {base, t, u}
  BY <1>2, NumberedOverlap
<1> QED BY <1>1, <1>2

\* Markdown refuses when two changes say different things of a line.
LEMMA ConflictedIsOpposed ==
  ASSUME TypeOK, ChangesInv, at \in {"comparing", "applying"}, {base} \cup Values \subseteq Numbering
  PROVE  M!Conflicted(Plain(base), {Plain(v) : v \in Values}) <=> Opposed
<1>1. \A t \in Values : Faithful(t, changes[t]) /\ changes[t] \in SUBSET Change
  BY AllAreChanges DEF TypeOK
<1>2. ASSUME NEW t \in Values, NEW u \in Values, t # base, u # base
      PROVE  M!Overlap(Plain(base), Plain(t), Plain(u))
                <=> \E c \in changes[t], d \in changes[u] : c # d /\ About(c) \cap About(d) # {}
  BY <1>1, <1>2, SameOverlap
<1>3. M!Conflicted(Plain(base), {Plain(v) : v \in Values})
         <=> \E t, u \in Values : /\ t # base /\ u # base
                                  /\ M!Overlap(Plain(base), Plain(t), Plain(u))
  <2>1. \A t \in Values : Plain(t) # Plain(base) <=> t # base
    BY PlainSame
  <2> QED BY <2>1 DEF M!Conflicted
<1>4. Opposed <=> \E t, u \in Values : \E c \in changes[t], d \in changes[u] :
                     c # d /\ About(c) \cap About(d) # {}
  BY DEF Opposed, AllChanges
<1>5. \A t \in Values : t = base => changes[t] = {}
  BY <1>1 DEF Faithful
<1> QED BY <1>2, <1>3, <1>4, <1>5

\* Every line of T is the base's or a version's, and the one of every version that
\* changed it.
LineByLine(B, V, T) ==
    /\ B # M!Empty /\ M!Empty \notin V /\ V \ {B} # {}
    /\ T = [i \in 1..Numbered |-> T[i]]
    /\ \A i \in 1..Numbered : T[i] = B[i] \/ \E c \in V \ {B} : T[i] = c[i]
    /\ \A i \in 1..Numbered : \A c \in V \ {B} : c[i] = B[i] \/ c[i] = T[i]

\* That is what Markdown merges.
LEMMA MergedLines ==
  ASSUME NEW B, NEW V, NEW T, LineByLine(B, V, T)
  PROVE  M!Merged(B, V) = T
<1> USE DEF LineByLine
<1> DEFINE At(i) == CHOOSE t \in {B[i]} \cup {c[i] : c \in V \ {B}} :
                       (\E c \in V \ {B} : c[i] # B[i]) => t # B[i]
<1>1. M!Merged(B, V) = [i \in 1..Numbered |-> At(i)]
  BY DEF M!Merged, M!Lines
<1>2. ASSUME NEW i \in 1..Numbered PROVE At(i) = T[i]
  <2>1. T[i] \in {B[i]} \cup {c[i] : c \in V \ {B}}
    OBVIOUS
  <2>2. CASE \E c \in V \ {B} : c[i] # B[i]
    <3>1. T[i] # B[i]
      BY <2>2
    <3>2. \A t \in {B[i]} \cup {c[i] : c \in V \ {B}} : t # B[i] => t = T[i]
      OBVIOUS
    <3> QED BY <2>1, <2>2, <3>1, <3>2
  <2>3. CASE \A c \in V \ {B} : c[i] = B[i]
    <3>1. \A t \in {B[i]} \cup {c[i] : c \in V \ {B}} : t = T[i]
      BY <2>3
    <3> QED BY <2>1, <2>3, <3>1
  <2> QED BY <2>2, <2>3
<1> HIDE DEF At
<1> QED BY <1>1, <1>2

\* The base and one other version come to that version.
LEMMA MergedOne ==
  ASSUME NEW B, NEW T, NEW V, T \in V, V \subseteq {B, T},
         T # M!Empty => T = [i \in 1..Numbered |-> T[i]]
  PROVE  M!Merged(B, V) = T
<1>1. CASE T = B
  <2>1. V \ {B} = {}
    BY <1>1
  <2> QED BY <1>1, <2>1 DEF M!Merged
<1>2. CASE T # B /\ M!Empty \in {B, T}
  <2>1. V \ {B} = {T}
    BY <1>2
  <2>2. (CHOOSE c \in {T} : TRUE) = T
    OBVIOUS
  <2> QED BY <1>2, <2>1, <2>2 DEF M!Merged
<1>3. CASE T # B /\ M!Empty \notin {B, T}
  <2>1. V \ {B} = {T} /\ M!Empty \notin V
    BY <1>3
  <2>2. LineByLine(B, V, T)
    BY <1>3, <2>1 DEF LineByLine
  <2> QED BY <2>2, MergedLines
<1> QED BY <1>1, <1>2, <1>3

\* What is applied when a second version moved: no text is empty, or the versions would
\* be a conflict.
LEMMA AllNumerous ==
  ASSUME {base} \cup Values \subseteq Numbering,
         ~M!Conflicted(Plain(base), {Plain(v) : v \in Values}),
         NEW t \in Values, NEW u \in Values, t # base, u # base, t # u
  PROVE  \A v \in {base} \cup Values : Numerous(v)
<1>1. \A v, w \in Values : v # base /\ w # base => ~M!Overlap(Plain(base), Plain(v), Plain(w))
  <2>1. \A v \in Values : v # base => Plain(v) \in {Plain(x) : x \in Values} \ {Plain(base)}
    BY PlainSame
  <2> QED BY <2>1 DEF M!Conflicted
<1>2. \A v, w \in Values : v # base /\ w # base /\ <<>> \in {base, v, w} => v = w
  <2> SUFFICES ASSUME NEW v \in Values, NEW w \in Values, v # base, w # base, <<>> \in {base, v, w}
               PROVE  v = w
    OBVIOUS
  <2>1. M!Empty \in {Plain(base), Plain(v), Plain(w)}
    BY PlainIs
  <2>2. Plain(v) = Plain(w)
    BY <1>1, <2>1 DEF M!Overlap
  <2> QED BY <2>2, PlainSame
<1>3. base # <<>>
  BY <1>2
<1>4. ASSUME NEW v \in Values, v = <<>> PROVE FALSE
  <2>1. v # base
    BY <1>3, <1>4
  <2> QED BY <1>2, <1>4, <2>1
<1> QED BY <1>3, <1>4 DEF Numerous

\* Every line of what is applied is the base's or a version's, and the one of every
\* version that changed it.
LEMMA LinesApplied ==
  ASSUME MergeInv, at = "applying", accepted = {},
         \A v \in {base} \cup Values : Numerous(v)
  PROVE  /\ text \in Seq(Line) /\ Len(text) = Numbered
         /\ \A i \in 1..Numbered : /\ text[i] = base[i] \/ \E v \in Values \ {base} : text[i] = v[i]
                                   /\ \A v \in Values : v[i] = base[i] \/ v[i] = text[i]
<1>1. /\ Len(text) = Numbered
      /\ \A i \in 1..Numbered :
            LET done == {c \in AllChanges \ accepted : i \in (c.start + 1)..c.end}
            IN  /\ \A c \in done : text[i] = c.replacement[i - c.start]
                /\ done = {} => text[i] = base[i]
  BY DEF MergeInv, ApplyInv
<1>2. text \in Seq(Line)
  BY DEF MergeInv, TypeOK
<1>3. \A v \in Values : /\ changes[v] \in SUBSET Change /\ changes[v] \subseteq AllChanges
                        /\ Faithful(v, changes[v]) /\ Differing(v, changes[v])
  <2>1. \A v \in Values : changes[v] \in SUBSET Change /\ changes[v] \subseteq AllChanges
                          /\ Faithful(v, changes[v])
    BY AllAreChanges DEF MergeInv, TypeOK
  <2> QED BY <2>1 DEF Faithful
<1>4. base \in Numbering \ {<<>>} /\ \A v \in Values : v \in Numbering \ {<<>>}
  BY DEF Numerous
<1>5. ASSUME NEW i \in 1..Numbered, NEW v \in Values, NEW c \in changes[v], i \in Run(c)
      PROVE  text[i] = v[i] /\ v # base
  <2>1. c \in {d \in AllChanges \ accepted : i \in (d.start + 1)..d.end}
    BY <1>3, <1>5 DEF Run
  <2>2. text[i] = c.replacement[i - c.start]
    BY <1>1, <2>1
  <2>3. c.replacement[i - c.start] = v[i]
    BY <1>3, <1>4, <1>5, RunLines
  <2>4. v # base
    BY <1>3, <1>5 DEF Faithful
  <2> QED BY <2>2, <2>3, <2>4
<1>6. ASSUME NEW i \in 1..Numbered
      PROVE  text[i] = base[i] \/ \E v \in Values \ {base} : text[i] = v[i]
  <2>1. CASE \E c \in AllChanges : i \in Run(c)
    <3>1. PICK v \in Values : \E c \in changes[v] : i \in Run(c)
      BY <2>1 DEF AllChanges
    <3> QED BY <1>5, <3>1
  <2>2. CASE \A c \in AllChanges : i \notin Run(c)
    <3>1. {c \in AllChanges \ accepted : i \in (c.start + 1)..c.end} = {}
      BY <2>2 DEF Run
    <3> QED BY <1>1, <3>1
  <2> QED BY <2>1, <2>2
<1>7. ASSUME NEW i \in 1..Numbered, NEW v \in Values, v[i] # base[i]
      PROVE  v[i] = text[i]
  <2>1. PICK c \in changes[v] : i \in Run(c)
    BY <1>3, <1>7 DEF Differing, Run
  <2> QED BY <1>5, <2>1
<1> QED BY <1>1, <1>2, <1>6, <1>7

\* What is applied is what Markdown merges.
LEMMA AppliedIsMerged ==
  ASSUME MergeInv, at = "applying", accepted = {}, {base} \cup Values \subseteq Numbering
  PROVE  Plain(Normal(text)) = M!Merged(Plain(base), {Plain(v) : v \in Values})
<1>1. ~M!Conflicted(Plain(base), {Plain(v) : v \in Values})
  BY ConflictedIsOpposed DEF MergeInv, CompareInv
<1>2. \A v \in Numbering : Plain(v) # M!Empty => Plain(v) = [i \in 1..Numbered |-> Plain(v)[i]]
  BY PlainIs
<1>3. CASE \E t \in Values : Values \subseteq {base, t}
  <2>1. PICK t \in Values : Values \subseteq {base, t}
    BY <1>3
  <2>2. text = t
    BY <2>1, AllApplied, LoneChanges
  <2>3. t \in Seq(Line) /\ Ends(t, Len(t))
    BY DEF MergeInv, TypeOK, Values, Text
  <2>4. Normal(text) = t
    BY <2>2, <2>3, NormalIsSame
  <2>5. /\ Plain(t) \in {Plain(v) : v \in Values}
        /\ {Plain(v) : v \in Values} \subseteq {Plain(base), Plain(t)}
    BY <2>1
  <2>6. Plain(t) # M!Empty => Plain(t) = [i \in 1..Numbered |-> Plain(t)[i]]
    BY <1>2
  <2> QED BY <2>4, <2>5, <2>6, MergedOne
<1>4. CASE ~\E t \in Values : Values \subseteq {base, t}
  <2>1. PICK t, u \in Values : t # base /\ u # base /\ t # u
    <3>1. Values # {}
      BY DEF MergeInv, TypeOK, Values
    <3> QED BY <1>4, <3>1
  <2>2. \A v \in {base} \cup Values : Numerous(v)
    BY <1>1, <2>1, AllNumerous
  <2>3. /\ text \in Seq(Line) /\ Len(text) = Numbered
        /\ \A i \in 1..Numbered : /\ text[i] = base[i] \/ \E v \in Values \ {base} : text[i] = v[i]
                                  /\ \A v \in Values : v[i] = base[i] \/ v[i] = text[i]
    BY <2>2, LinesApplied
  <2>4. \A v \in {base} \cup Values : v \in Numbering \ {<<>>}
    BY <2>2 DEF Numerous
  <2>5. Numbered \in Nat \ {0}
    BY LinesAssumption
  <2>6. Normal(text) = text /\ text # <<>>
    <3>1. Numbered \in 1..Numbered
      BY <2>5
    <3>2. PICK v \in {base} \cup Values : text[Numbered] = v[Numbered]
      BY <2>3, <3>1
    <3>3. text[Numbered] \in (1..Numbered) \X Edits
      <4>1. v[Numbered] = <<Numbered, v[Numbered][2]>> /\ v[Numbered][2] \in Edits
        BY <2>4, <3>1, NumberedText
      <4> QED BY <3>1, <3>2, <4>1
    <3>4. text[Numbered] # Blank
      BY <3>3, LinesAssumption
    <3>5. Ends(text, Len(text))
      <4>1. \A i \in (Numbered + 1)..Numbered : FALSE
        BY <2>5
      <4> QED BY <2>3, <3>4, <4>1 DEF Ends
    <3> QED BY <2>3, <2>5, <3>5, NormalIsSame
  <2> DEFINE B == Plain(base)
             V == {Plain(v) : v \in Values}
             T == Plain(text)
  <2>7. T = [i \in 1..Numbered |-> [edit |-> text[i][2], form |-> "plain"]]
    BY <2>6 DEF Plain
  <2>8. ASSUME NEW i \in 1..Numbered, NEW v \in {base} \cup Values, text[i] = v[i]
        PROVE  T[i] = Plain(v)[i]
    <3>1. Plain(v) = [k \in 1..Numbered |-> [edit |-> v[k][2], form |-> "plain"]]
      BY <2>4, PlainIs
    <3> QED BY <2>7, <2>8, <3>1
  <2>9. B # M!Empty /\ M!Empty \notin V
    BY <2>4, PlainIs
  <2>10. V \ {B} # {}
    BY <2>1, PlainSame
  <2>11. ASSUME NEW i \in 1..Numbered
         PROVE  /\ T[i] = B[i] \/ \E c \in V \ {B} : T[i] = c[i]
                /\ \A c \in V \ {B} : c[i] = B[i] \/ c[i] = T[i]
    <3>2. ASSUME NEW v \in Values \ {base}, text[i] = v[i] PROVE \E c \in V \ {B} : T[i] = c[i]
      <4>1. T[i] = Plain(v)[i]
        BY <2>8, <3>2
      <4>2. Plain(v) \in V \ {B}
        BY PlainSame
      <4> QED BY <4>1, <4>2
    <3>3. T[i] = B[i] \/ \E c \in V \ {B} : T[i] = c[i]
      <4>1. text[i] = base[i] \/ \E v \in Values \ {base} : text[i] = v[i]
        BY <2>3
      <4>2. CASE text[i] = base[i]
        BY <2>8, <4>2
      <4>3. CASE \E v \in Values \ {base} : text[i] = v[i]
        BY <3>2, <4>3
      <4> QED BY <4>1, <4>2, <4>3
    <3>4. ASSUME NEW v \in Values PROVE Plain(v)[i] = B[i] \/ Plain(v)[i] = T[i]
      <4>1. CASE v[i] = base[i]
        BY <2>4, <4>1, PlainLines
      <4>2. CASE v[i] = text[i]
        BY <2>8, <4>2
      <4> QED BY <2>3, <4>1, <4>2
    <3> QED BY <3>3, <3>4
  <2> HIDE DEF B, V, T
  <2>12. T = [i \in 1..Numbered |-> T[i]]
    BY <2>7
  <2>13. M!Merged(B, V) = T
    <3>1. LineByLine(B, V, T)
      BY <2>9, <2>10, <2>11, <2>12 DEF LineByLine
    <3> QED BY <3>1, MergedLines
  <2> QED BY <2>6, <2>13 DEF B, V, T
<1> QED BY <1>3, <1>4

\* Of numbered lines the merge is the one that the specification of a pass takes it
\* to be: it refuses, and merges, what Markdown does.
THEOREM MarkdownAgrees == Spec => []AgreesWithMarkdown
<1>1. Init => AgreesWithMarkdown
  BY DEF Init, AgreesWithMarkdown
<1>2. MergeInv /\ AgreesWithMarkdown /\ [Next]_vars => AgreesWithMarkdown'
  <2> SUFFICES ASSUME MergeInv, AgreesWithMarkdown, [Next]_vars, at' \in {"merged", "conflicted"},
                      {base'} \cup Values' \subseteq Numbering
               PROVE  LET V == {Plain(v) : v \in Values'}
                      IN  IF at' = "conflicted" THEN M!Conflicted(Plain(base'), V)
                          ELSE /\ ~M!Conflicted(Plain(base'), V)
                               /\ Plain(text') = M!Merged(Plain(base'), V)
    BY DEF AgreesWithMarkdown
  <2>1. CASE UNCHANGED <<base, versions, at, changes, text>>
    <3>1. Values' = Values
      BY <2>1, SameChanges
    <3> QED BY <2>1, <3>1 DEF AgreesWithMarkdown
  <2>2. CASE /\ at' = "merged" /\ text' = versions[1] /\ UNCHANGED <<base, versions, changes>>
             /\ \A v \in DOMAIN versions : versions[v] = versions[1]
    <3>1. Values' = Values
      BY <2>2, SameChanges
    <3>2. Values = {text'} /\ text' \in Numbering
      BY <2>2, <3>1, FirstIsAll DEF MergeInv
    <3>3. {Plain(v) : v \in Values'} = {Plain(text')}
      BY <3>1, <3>2
    <3>4. ~M!Conflicted(Plain(base'), {Plain(text')})
      BY NoSelfOverlap DEF M!Conflicted
    <3>5. Plain(text') # M!Empty => Plain(text') = [i \in 1..Numbered |-> Plain(text')[i]]
      BY <3>2, PlainIs
    <3>6. M!Merged(Plain(base'), {Plain(text')}) = Plain(text')
      BY <3>5, MergedOne
    <3> QED BY <2>2, <3>3, <3>4, <3>6
  <2>3. CASE Compare /\ at' = "conflicted"
    <3>1. at = "comparing" /\ UNCHANGED <<base, versions, changes, text>>
      BY <2>3, ConflictOpposes
    <3>2. PICK c, d \in AllChanges : c # d /\ Overlaps(c, d)
      BY <2>3, ConflictOpposes
    <3>3. Opposed
      BY <3>1, <3>2, OverlapOpposes DEF MergeInv, Opposed
    <3>4. Values' = Values
      BY <3>1, SameChanges
    <3>5. M!Conflicted(Plain(base), {Plain(v) : v \in Values})
      BY <3>1, <3>3, <3>4, ConflictedIsOpposed DEF MergeInv
    <3> QED BY <2>3, <3>1, <3>4, <3>5
  <2>4. CASE /\ at = "applying" /\ accepted = {} /\ at' = "merged" /\ text' = Normal(text)
             /\ UNCHANGED <<base, versions, changes>>
    <3>1. Values' = Values
      BY <2>4, SameChanges
    <3>2. ~M!Conflicted(Plain(base), {Plain(v) : v \in Values})
      BY <2>4, <3>1, ConflictedIsOpposed DEF MergeInv, CompareInv
    <3>3. Plain(Normal(text)) = M!Merged(Plain(base), {Plain(v) : v \in Values})
      BY <2>4, <3>1, AppliedIsMerged
    <3> QED BY <2>4, <3>1, <3>2, <3>3
  <2> QED BY <2>1, <2>2, <2>3, <2>4, Returns
<1> QED BY <1>1, <1>2, MergeInvHolds, PTL DEF Spec

=============================================================================
