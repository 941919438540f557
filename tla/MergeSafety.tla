---------------------------- MODULE MergeSafety -----------------------------
(***************************************************************************)
(* What the merge must come to, and why it does.                            *)
(***************************************************************************)
EXTENDS ThreeWayMerge

\* The lines a change is about; an insertion is about the line it goes before.
About(c) == IF c.start = c.end THEN {c.start} ELSE c.start..(c.end - 1)

AllChanges == UNION {changes[t] : t \in Values}

\* What the changes C make of the base, line by line: what one of them puts before the
\* line, and the line unless one has replaced it.
Put(C, i) == IF \E c \in C : c.start = i
             THEN (CHOOSE c \in C : c.start = i).replacement ELSE <<>>
Kept(C, i) == IF i < Len(base) /\ \A c \in C : i \notin c.start..(c.end - 1)
              THEN <<base[i + 1]>> ELSE <<>>

\* From line i on.
Onward(C) ==
    LET on[i \in 0..(Len(base) + 1)] ==
            IF i > Len(base) THEN <<>> ELSE Put(C, i) \o Kept(C, i) \o on[i + 1]
    IN  on

Expected == Normal(Onward(AllChanges)[0])

Opposed == \E c, d \in AllChanges : c # d /\ About(c) \cap About(d) # {}

\* In whatever order the versions come, they are merged if and only if no two of
\* them say different things of a line, and then every line is as the one version
\* that changed it has it.
MergesAllOrRefuses ==
    /\ at = "conflicted" => (\E v, w \in Values : v # w) /\ Opposed
    /\ at = "merged" => \/ Values = {text}
                        \/ ~Opposed /\ text = Expected

\* Where one version alone was changed, the merge is that version.
LoneEditIsKept ==
    at \in {"merged", "conflicted"} =>
        \A v \in Values : Values \subseteq {base, v} /\ v # base => at = "merged" /\ text = v

\* Contents in Markdown's sense are merged, or refused, as Markdown says: what the
\* specification of a pass takes a merge to be.
Numbering == {Numbers(c) : c \in Contents}

Plain(t) == IF t = <<>> THEN M!Empty
            ELSE [i \in 1..Numbered |-> [edit |-> t[i][2], form |-> "plain"]]

AgreesWithMarkdown ==
    (at \in {"merged", "conflicted"} /\ {base} \cup Values \subseteq Numbering) =>
        LET V == {Plain(v) : v \in Values}
        IN  IF at = "conflicted"
            THEN M!Conflicted(Plain(base), V)
            ELSE ~M!Conflicted(Plain(base), V) /\ Plain(text) = M!Merged(Plain(base), V)

-----------------------------------------------------------------------------
(* Why: the inductive invariant.                                            *)

Line == Words \cup {Blank} \cup (1..Numbered) \X Edits
Text == {t \in Seq(Line) : Ends(t, Len(t))}
Position == 0..Len(base)
Change == [start: Position, end: Position, replacement: Seq(Line)]

TypeOK ==
    /\ base \in Text
    /\ versions \in Seq(Text) /\ versions # <<>>
    /\ at \in {"start", "matching", "comparing", "applying", "merged", "conflicted"}
    /\ turn \in 0..Len(versions)
    /\ at = "matching" => turn > 0
    /\ unmatched \subseteq [alo: Nat, ahi: Nat, blo: Nat, bhi: Nat]
    /\ matched \subseteq Nat \X Nat
    /\ changes \in [Values -> SUBSET Change]
    /\ left \subseteq (DOMAIN versions) \X AllChanges
    /\ accepted \subseteq AllChanges
    /\ text \in Seq(Line)

\* What is matched in b so far: lines that are equal, in the order of both texts.
Matching(b, pairs) ==
    /\ \A p \in pairs : /\ p[1] < Len(base) /\ p[2] < Len(b)
                        /\ base[p[1] + 1] = b[p[2] + 1]
    /\ \A p, q \in pairs : p[1] < q[1] <=> p[2] < q[2]

\* What is not matched yet lies between what is, and in the order of both texts too.
Above(r, s) == r.ahi <= s.alo /\ r.bhi <= s.blo

Searching(b) ==
    /\ \A r \in unmatched : /\ r.alo <= r.ahi /\ r.ahi <= Len(base)
                            /\ r.blo <= r.bhi /\ r.bhi <= Len(b)
    /\ \A r \in unmatched, p \in matched : \/ p[1] < r.alo /\ p[2] < r.blo
                                           \/ p[1] >= r.ahi /\ p[2] >= r.bhi
    /\ \A r, s \in unmatched : r # s => Above(r, s) \/ Above(s, r)

\* In numbered lines only a line with its own number is found, and every one is.
Numerous(b) == {base, b} \subseteq Numbering \ {<<>>}

Complete(b) ==
    \A x \in 0..(Numbered - 1) :
        base[x + 1] = b[x + 1] =>
            \/ <<x, x>> \in matched
            \/ \E r \in unmatched : {x} \subseteq (r.alo..(r.ahi - 1)) \cap (r.blo..(r.bhi - 1))

MatchInv ==
    /\ at = "start" => matched = {}
    /\ at = "matching" =>
          /\ Matching(versions[turn], matched) /\ Searching(versions[turn])
          /\ versions[turn] # base /\ Numerous(versions[turn]) => Complete(versions[turn])

\* The changes of a text: a line that stays between any two of them, and put in their
\* places they make the text of the base.
Apart(C) == \A c, d \in C : c # d => c.end < d.start \/ d.end < c.start

Forward(C) == \A c \in C : c.start <= c.end

\* In numbered lines the changes are the stretches that differ.
Differing(b, C) ==
    /\ \A c \in C : c.start < c.end /\ c.replacement = SubSeq(b, c.start + 1, c.end)
    /\ \A i \in 1..Numbered : b[i] # base[i] <=> \E c \in C : i \in (c.start + 1)..c.end

Faithful(b, C) ==
    /\ Forward(C) /\ Apart(C)
    /\ Onward(C)[0] = b
    /\ b = base => C = {}
    /\ (b # base /\ <<>> \in {b, base}) =>
          C = {[start |-> 0, end |-> Len(base), replacement |-> b]}
    /\ Numerous(b) => Differing(b, C)

ChangesInv ==
    at \in {"matching", "comparing", "applying"} =>
        \A v \in DOMAIN versions : (at = "matching" => v < turn) => Faithful(versions[v], changes[versions[v]])

\* What was compared is accepted, and nothing that was accepted overlaps.
CompareInv ==
    /\ at \in {"start", "matching"} => left = {} /\ accepted = {}
    /\ at = "comparing" =>
          /\ \A v \in DOMAIN versions : \A c \in changes[versions[v]] : <<v, c>> \in left \/ c \in accepted
          /\ \A c, d \in accepted : c # d => ~Overlaps(c, d)
    /\ at = "applying" => ~Opposed

\* The changes are applied down to a line m: what is before it is the base's, and what
\* is left to apply; what comes after it is as it must be.
Upto(m) == SubSeq(base, 1, IF m > Len(base) THEN Len(base) ELSE m)

ApplyInv ==
    at = "applying" =>
        /\ (\E m \in 0..(Len(base) + 1) :
               /\ text = Upto(m) \o Onward(AllChanges)[m]
               /\ \A c \in accepted : c.start < m /\ c.end <= m
               /\ \A c \in AllChanges \ accepted : m <= c.start)
        /\ (\A t \in {base} \cup Values : Numerous(t)) =>
               /\ Len(text) = Numbered
               /\ \A i \in 1..Numbered :
                     LET done == {c \in AllChanges \ accepted : i \in (c.start + 1)..c.end}
                     IN  /\ \A c \in done : text[i] = c.replacement[i - c.start]
                         /\ done = {} => text[i] = base[i]

\* At every step of the code what is matched, collected, compared and applied so far is
\* what the rest of the merge relies on.
MergeInv == TypeOK /\ MatchInv /\ ChangesInv /\ CompareInv /\ ApplyInv

=============================================================================
