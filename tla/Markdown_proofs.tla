-------------------------- MODULE Markdown_proofs --------------------------
(* What the operators on texts return, for files of any length.              *)
EXTENDS Markdown, Integers, FiniteSetTheorems, TLAPS

\* The text every document starts from is a content.
LEMMA OriginalIsContent == Original \in Content
  BY DEF Original, Content, Written, Text, Forms

\* Typing over a line of a content, or into an empty one, leaves a content.
LEMMA TypedIsContent ==
  ASSUME NEW c \in Content, NEW i \in Lines, NEW e \in Nat, NEW form \in Forms
  PROVE  Typed(c, i, e, form) \in Content
  BY DEF Typed, Content, Written, Text

\* What was typed has lines: those that were typed over, and the others as they were.
LEMMA TypedLines ==
  ASSUME NEW c \in Content, NEW i \in Lines, NEW e \in Nat, NEW form \in Forms
  PROVE  /\ Typed(c, i, e, form) \in Written
         /\ \A j \in Lines : IF j = i \/ c = Empty THEN Typed(c, i, e, form)[j].edit = e
                                                  ELSE Typed(c, i, e, form)[j] = c[j]
  BY DEF Typed, Content, Written, Text

\* A conversion keeps the lines and the edits.
LEMMA RenderedIsContent ==
  ASSUME NEW c \in Content
  PROVE  Rendered(c) \in Content
  BY DEF Rendered, ReadBack, Content, Written, Text, Forms

\* Whatever the AI provider answers for a content is a content.
LEMMA RewritesAreContents ==
  ASSUME NEW c \in Content
  PROVE  Rewrites(c) \subseteq Content
  BY DEF Rewrites, Content, Written, Text, Forms

\* ConflictResolver.merge never makes anything but a content of contents: where
\* versions moved a line, the line it takes is one of theirs.
LEMMA MergedIsContent ==
  ASSUME NEW base \in Content, NEW V \in SUBSET Content
  PROVE  Merged(base, V) \in Content
<1> DEFINE moved == V \ {base}
<1> DEFINE P(i, t) == (\E c \in moved : c[i] # base[i]) => t # base[i]
<1> DEFINE S(i) == {base[i]} \cup {c[i] : c \in moved}
<1>1. CASE moved = {}
  BY <1>1 DEF Merged
<1>2. CASE moved # {} /\ (base = Empty \/ Empty \in moved)
  BY <1>2 DEF Merged
<1>3. CASE moved # {} /\ ~(base = Empty \/ Empty \in moved)
  <2>1. base \in Written /\ moved \subseteq Written
    BY <1>3 DEF Content
  <2>2. ASSUME NEW i \in Lines PROVE (CHOOSE t \in S(i) : P(i, t)) \in Text
    <3>1. \E t \in S(i) : P(i, t)
      <4>1. CASE \E c \in moved : c[i] # base[i]
        BY <4>1
      <4>2. CASE ~ \E c \in moved : c[i] # base[i]
        BY <4>2
      <4> QED BY <4>1, <4>2
    <3>2. (CHOOSE t \in S(i) : P(i, t)) \in S(i)
      BY <3>1
    <3>3. S(i) \subseteq Text
      BY <2>1 DEF Written
    <3> QED BY <3>2, <3>3
  <2>3. Merged(base, V) = [i \in Lines |-> CHOOSE t \in S(i) : P(i, t)]
    BY <1>3 DEF Merged
  <2>4. [i \in Lines |-> CHOOSE t \in S(i) : P(i, t)] \in Written
    BY <2>2 DEF Written
  <2> QED BY <2>3, <2>4 DEF Content
<1> QED BY <1>1, <1>2, <1>3

-----------------------------------------------------------------------------
(* What a merge that is not refused keeps.                                  *)

\* A content with lines is not the empty one.
LEMMA EmptyIsNotWritten == Empty \notin Written
<1>1. DOMAIN Empty = {}
  BY DEF Empty
<1>2. \A c \in Written : 1 \in DOMAIN c
  BY NLinesAssumption DEF Written, Lines
<1> QED BY <1>1, <1>2

\* Naturals have a least one: their initial segments are well-founded by inclusion.
LEMMA LeastNatural ==
  ASSUME NEW S \in SUBSET Nat, S # {}
  PROVE  \E m \in S : \A k \in S : m <= k
<1> DEFINE Segments == {0..n : n \in S}
<1>1. Segments \subseteq FiniteSubsetsOf(Nat) /\ Segments # {}
  <2>1. \A n \in S : IsFiniteSet(0..n) /\ (0..n) \subseteq Nat
    BY FS_Interval
  <2> QED BY <2>1 DEF FiniteSubsetsOf
<1>2. \E x \in Segments : \A y \in Segments : <<y, x>> \notin StrictSubsetOrdering(Nat)
  <2> HIDE DEF Segments
  <2> QED BY <1>1, FS_StrictSubsetOrderingWellFounded, WFMin
<1>3. PICK m \in S : \A k \in S : <<0..k, 0..m>> \notin StrictSubsetOrdering(Nat)
  BY <1>2
<1>4. ASSUME NEW k \in S, k < m PROVE FALSE
  <2>1. (0..k) \subseteq (0..m) /\ m \in 0..m /\ m \notin 0..k
    BY <1>4
  <2>2. (0..k) \in SUBSET Nat /\ (0..m) \in SUBSET Nat
    OBVIOUS
  <2> QED BY <1>3, <2>1, <2>2 DEF StrictSubsetOrdering
<1> QED BY <1>4

\* Lines have a last one.
LEMMA GreatestLine ==
  ASSUME NEW S \in SUBSET Lines, S # {}
  PROVE  \E m \in S : \A k \in S : k <= m
<1> DEFINE D == {NLines - n : n \in S}
<1>1. D \in SUBSET Nat /\ D # {}
  <2>1. \A n \in S : NLines - n \in Nat
    BY NLinesAssumption DEF Lines
  <2> QED BY <2>1
<1>2. PICK d \in D : \A k \in D : d <= k
  <2> HIDE DEF D
  <2> QED BY <1>1, LeastNatural
<1>3. PICK m \in S : d = NLines - m
  OBVIOUS
<1>4. \A k \in S : NLines - m <= NLines - k
  BY <1>2, <1>3
<1> QED BY <1>4, NLinesAssumption DEF Lines

\* Every line that differs is in a replaced chunk: the lines around it that differ,
\* as far as they reach.
LEMMA ChangeOfLine ==
  ASSUME NEW base, NEW c, NEW i \in Lines, c[i] # base[i]
  PROVE  \E r \in Changes(base, c) : i \in r
<1> DEFINE Down == {a \in 1..i : \A j \in a..i : c[j] # base[j]}
<1> DEFINE Up == {b \in i..NLines : \A j \in i..b : c[j] # base[j]}
<1>0. i \in 1..NLines /\ NLines \in Nat
  BY NLinesAssumption DEF Lines
<1>1. i \in Down /\ i \in Up /\ Down \in SUBSET Nat /\ Up \in SUBSET Lines
  BY <1>0 DEF Lines
<1>2. PICK a \in Down : \A k \in Down : a <= k
  <2> HIDE DEF Down
  <2> QED BY <1>1, LeastNatural
<1>3. PICK b \in Up : \A k \in Up : k <= b
  <2> HIDE DEF Up
  <2> QED BY <1>1, GreatestLine
<1>4. a \in 1..i /\ b \in i..NLines /\ \A j \in a..b : c[j] # base[j]
  BY <1>0, <1>2, <1>3
<1>5. ASSUME NEW j \in Lines \ (a..b), j + 1 \in a..b PROVE c[j] = base[j]
  <2>1. j = a - 1 /\ j \in 1..i
    BY <1>0, <1>4, <1>5 DEF Lines
  <2>2. j \notin Down
    BY <1>2, <1>4, <2>1
  <2>3. \A k \in j..i : k = j \/ k \in a..i
    BY <1>4, <2>1
  <2> QED BY <1>2, <2>1, <2>2, <2>3
<1>6. ASSUME NEW j \in Lines \ (a..b), j - 1 \in a..b PROVE c[j] = base[j]
  <2>1. j = b + 1 /\ j \in i..NLines
    BY <1>0, <1>4, <1>6 DEF Lines
  <2>2. j \notin Up
    BY <1>3, <1>4, <2>1
  <2>3. \A k \in i..j : k = j \/ k \in i..b
    BY <1>4, <2>1
  <2> QED BY <1>3, <2>1, <2>2, <2>3
<1>7. i \in a..b /\ a \in Lines /\ b \in Lines
  BY <1>0, <1>4 DEF Lines
<1> HIDE DEF Down, Up
<1>8. (a..b) \in Changes(base, c)
  <2> DEFINE r == a..b
  <2>1. r \in {x..y : x, y \in Lines} /\ r # {}
    BY <1>7
  <2>2. \A j \in r : c[j] # base[j]
    BY <1>4
  <2>3. \A j \in Lines \ r : (j - 1 \in r \/ j + 1 \in r) => c[j] = base[j]
    BY <1>5, <1>6
  <2> HIDE DEF r
  <2>4. r \in Changes(base, c)
    BY <2>1, <2>2, <2>3 DEF Changes
  <2> QED BY <2>4 DEF r
<1> QED BY <1>7, <1>8

\* Versions that are not refused agree wherever both moved a line.
LEMMA VersionsAgree ==
  ASSUME NEW base \in Written, NEW c \in Written, NEW d \in Written, NEW i \in Lines,
         ~Overlap(base, c, d), c[i] # base[i], d[i] # base[i]
  PROVE  c[i] = d[i]
<1>1. PICK r \in Changes(base, c) : i \in r
  BY ChangeOfLine
<1>2. PICK s \in Changes(base, d) : i \in s
  BY ChangeOfLine
<1>3. ~Clash(c, r, d, s)
  BY EmptyIsNotWritten DEF Overlap
<1> QED BY <1>1, <1>2, <1>3 DEF Clash

\* ConflictResolver.merge takes every line some version changed, and leaves the
\* others as the base has them.
THEOREM MergeTakesEveryChange ==
  ASSUME NEW base \in Written, NEW V \in SUBSET Written, ~Conflicted(base, V), NEW i \in Lines
  PROVE  /\ \A c \in V : c[i] # base[i] => Merged(base, V)[i] = c[i]
         /\ (\A c \in V : c[i] = base[i]) => Merged(base, V)[i] = base[i]
<1> DEFINE moved == V \ {base}
<1> DEFINE P(j, t) == (\E c \in moved : c[j] # base[j]) => t # base[j]
<1> DEFINE S(j) == {base[j]} \cup {c[j] : c \in moved}
<1>1. CASE moved = {}
  BY <1>1 DEF Merged
<1>2. CASE moved # {}
  <2>1. Merged(base, V) = [j \in Lines |-> CHOOSE t \in S(j) : P(j, t)]
    BY <1>2, EmptyIsNotWritten DEF Merged
  <2>2. Merged(base, V)[i] = CHOOSE t \in S(i) : P(i, t)
    BY <2>1
  <2>3. \E t \in S(i) : P(i, t)
    OBVIOUS
  <2>4. Merged(base, V)[i] \in S(i) /\ P(i, Merged(base, V)[i])
    BY <2>2, <2>3
  <2>5. ASSUME NEW c \in V, c[i] # base[i] PROVE Merged(base, V)[i] = c[i]
    <3>1. c \in moved
      BY <2>5
    <3>2. PICK d \in moved : Merged(base, V)[i] = d[i] /\ d[i] # base[i]
      BY <2>4, <2>5, <3>1
    <3> QED BY <2>5, <3>1, <3>2, VersionsAgree DEF Conflicted
  <2>6. ASSUME \A c \in V : c[i] = base[i] PROVE Merged(base, V)[i] = base[i]
    BY <2>4, <2>6
  <2> QED BY <2>5, <2>6
<1> QED BY <1>1, <1>2

\* Versions that have lines, of a base that has, are merged to one that has.
LEMMA MergedIsWritten ==
  ASSUME NEW base \in Written, NEW V \in SUBSET Written
  PROVE  Merged(base, V) \in Written
<1>1. Merged(base, V) \in Content
  BY MergedIsContent DEF Content
<1>2. CASE V \ {base} = {}
  BY <1>2 DEF Merged
<1>3. CASE V \ {base} # {}
  <2>1. DOMAIN Merged(base, V) = Lines
    BY <1>3, EmptyIsNotWritten DEF Merged
  <2>2. Merged(base, V) # Empty
    BY <2>1, NLinesAssumption DEF Empty, Lines
  <2> QED BY <1>1, <2>2 DEF Content
<1> QED BY <1>2, <1>3

\* A line of a version that is merged is in the merge, or it is the base's: no merge
\* drops what one side wrote.
THEOREM MergeDropsNothing ==
  ASSUME NEW base \in Content, NEW V \in SUBSET Content, ~Conflicted(base, V),
         NEW c \in V, c # Empty, NEW i \in Lines
  PROVE  \/ Merged(base, V) # Empty /\ Merged(base, V)[i] = c[i]
         \/ base # Empty /\ base[i] = c[i]
<1> DEFINE moved == V \ {base}
<1>1. CASE c = base
  BY <1>1
<1>2. CASE c # base /\ (base = Empty \/ Empty \in moved)
  <2>1. \A d \in moved : d = c
    BY <1>2 DEF Conflicted, Overlap
  <2>2. Merged(base, V) = CHOOSE d \in moved : TRUE
    BY <1>2 DEF Merged
  <2> QED BY <1>2, <2>1, <2>2
<1>3. CASE c # base /\ base # Empty /\ Empty \notin moved
  <2>1. base \in Written /\ V \subseteq Written
    BY <1>3 DEF Content
  <2> QED BY <2>1, MergedIsWritten, MergeTakesEveryChange, EmptyIsNotWritten
<1> QED BY <1>1, <1>2, <1>3
=============================================================================
